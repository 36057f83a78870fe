--------------------------- MODULE ServiceDaemon ---------------------------
(***************************************************************************)
(* The service daemon (src/modules/daemon_service) with the processes it   *)
(* manages.  A process runs a program, a sequence of the calls of          *)
(* libd7::service and of Process::spawn; the names it registers and waits  *)
(* for are those of the drivers and daemons.                               *)
(***************************************************************************)
EXTENDS Integers, Sequences, FiniteSets, SequencesExt, Functions

CONSTANTS
    Definitions,    \* sequence of [name, requires, executable]: startup_services.json
    Programs,       \* executable -> sequence of calls
    MaxCrashes      \* bound: processes that fail

VARIABLES
    sd_pc,          \* "step" or "select"
    start_queue,    \* names of the services to start
    managed,        \* pid -> name
    discovery,      \* name -> [oneshot, by]: by is the pid that registered it
    waiting_for_all, waiting_for_any,   \* sequences of [names, pid]
    terminated, registering, waitfor_any, waitfor_all,  \* the subscriptions' queues
    processes,      \* sequence of [executable, pc, state]; a pid is an index
    crashes

serviceVars == <<sd_pc, start_queue, managed, discovery, waiting_for_all, waiting_for_any,
                 terminated, registering, waitfor_any, waitfor_all, processes, crashes>>

queueVars == <<terminated, registering, waitfor_any, waitfor_all>>

Pids == DOMAIN processes
Names == {Definitions[i].name : i \in DOMAIN Definitions}
New(executable) == [executable |-> executable, pc |-> 1, state |-> "running"]

ServicesInit ==
    /\ sd_pc = "step"
    /\ start_queue = [i \in DOMAIN Definitions |-> Definitions[i].name]
    /\ managed = <<>> /\ discovery = <<>>
    /\ waiting_for_all = <<>> /\ waiting_for_any = <<>>
    /\ terminated = <<>> /\ registering = <<>> /\ waitfor_any = <<>> /\ waitfor_all = <<>>
    /\ processes = <<>> /\ crashes = 0

definition_by_name(n) ==
    Definitions[CHOOSE i \in DOMAIN Definitions :
        Definitions[i].name = n /\ \A j \in 1..i - 1 : Definitions[j].name # n]

is_registered(n) == n \in DOMAIN discovery

are_requirements_up(def) == \A n \in def.requires : is_registered(n)

Startable(n) == are_requirements_up(definition_by_name(n))

(* start: Process::spawn and the entry in managed, for each of the names.  *)
start(names) ==
    /\ processes' = processes \o [i \in DOMAIN names |-> New(definition_by_name(names[i]).executable)]
    /\ managed' = [p \in Len(processes) + 1..Len(processes) + Len(names) |-> names[p - Len(processes)]]
                  @@ managed

(* The services whose requirements are up are popped from the queue by     *)
(* their indices, the last one first, and started in that order.           *)
step ==
    /\ sd_pc = "step" /\ sd_pc' = "select"
    /\ start_queue' = SelectSeq(start_queue, LAMBDA n : ~Startable(n))
    /\ start(Reverse(SelectSeq(start_queue, Startable)))
    /\ UNCHANGED <<discovery, waiting_for_all, waiting_for_any, queueVars, crashes>>
----------------------------------------------------------------------------
(* What the handlers do to the processes: an answer lets the sender run    *)
(* on, a refusal makes the unwrap of libd7::service::register panic, which *)
(* ends the process.                                                       *)
Continue(ps, S) == [p \in DOMAIN ps |-> IF p \in S THEN [ps[p] EXCEPT !.pc = @ + 1, !.state = "running"]
                                        ELSE ps[p]]
End(ps, p, how) == [ps EXCEPT ![p].state = how]

all_up(w, d) == w.names \subseteq DOMAIN d
any_up(w, d) == w.names \cap DOMAIN d # {}

(* Mutant: the second loop tests waiting_for_any the way the first does.   *)
woken_copied(d) ==
    {w \in Range(waiting_for_all) \cup Range(waiting_for_any) : all_up(w, d)}

(* The waiters on_register answers, all that are satisfied by d.           *)
woken(d) ==
    {w \in Range(waiting_for_all) : all_up(w, d)} \cup {w \in Range(waiting_for_any) : any_up(w, d)}

on_register(m) ==
    \/ /\ is_registered(m.name)
       /\ processes' = End(processes, m.pid, "failed")
       /\ terminated' = Append(terminated, [pid |-> m.pid, ok |-> FALSE])
       /\ UNCHANGED <<discovery, managed, waiting_for_all, waiting_for_any>>
    \/ /\ ~is_registered(m.name)
       /\ LET d == (m.name :> [oneshot |-> m.oneshot, by |-> m.pid]) @@ discovery
              W == woken(d)
          IN  /\ discovery' = d
              /\ processes' = Continue(processes, {m.pid} \cup {w.pid : w \in W})
              /\ waiting_for_all' = SelectSeq(waiting_for_all, LAMBDA w : w \notin W)
              /\ waiting_for_any' = SelectSeq(waiting_for_any, LAMBDA w : w \notin W)
       /\ UNCHANGED <<managed, terminated>>

(* Mutant: the waiter is queued without looking at what is registered.     *)
on_waitfor_any_later(m) ==
    /\ waiting_for_any' = Append(waiting_for_any, m)
    /\ UNCHANGED <<discovery, managed, waiting_for_all, processes>>

on_waitfor_any(m) ==
    /\ IF any_up(m, discovery)
       THEN processes' = Continue(processes, {m.pid}) /\ UNCHANGED waiting_for_any
       ELSE waiting_for_any' = Append(waiting_for_any, m) /\ UNCHANGED processes
    /\ UNCHANGED <<discovery, managed, waiting_for_all>>

on_waitfor_all(m) ==
    /\ IF all_up(m, discovery)
       THEN processes' = Continue(processes, {m.pid}) /\ UNCHANGED waiting_for_all
       ELSE waiting_for_all' = Append(waiting_for_all, m) /\ UNCHANGED processes
    /\ UNCHANGED <<discovery, managed, waiting_for_any>>

on_process_completed(t) ==
    /\ managed' = Restrict(managed, DOMAIN managed \ {t.pid})
    /\ discovery' = IF /\ t.pid \in DOMAIN managed
                      /\ is_registered(managed[t.pid])
                      /\ ~(discovery[managed[t.pid]].oneshot /\ t.ok)
                   THEN Restrict(discovery, DOMAIN discovery \ {managed[t.pid]})
                   ELSE discovery
    /\ UNCHANGED <<waiting_for_all, waiting_for_any, processes>>

(* select! takes the first of its subscriptions that has a message.        *)
select ==
    /\ sd_pc = "select" /\ sd_pc' = "step" /\ UNCHANGED <<start_queue, crashes>>
    /\ \/ /\ terminated # <<>> /\ on_process_completed(Head(terminated))
          /\ terminated' = Tail(terminated) /\ UNCHANGED <<registering, waitfor_any, waitfor_all>>
       \/ /\ terminated = <<>> /\ registering # <<>> /\ on_register(Head(registering))
          /\ registering' = Tail(registering) /\ UNCHANGED <<waitfor_any, waitfor_all>>
       \/ /\ terminated = <<>> /\ registering = <<>> /\ waitfor_any # <<>>
          /\ on_waitfor_any(Head(waitfor_any))
          /\ waitfor_any' = Tail(waitfor_any) /\ UNCHANGED <<terminated, registering, waitfor_all>>
       \/ /\ terminated = <<>> /\ registering = <<>> /\ waitfor_any = <<>> /\ waitfor_all # <<>>
          /\ on_waitfor_all(Head(waitfor_all))
          /\ waitfor_all' = Tail(waitfor_all) /\ UNCHANGED <<terminated, registering, waitfor_any>>
----------------------------------------------------------------------------
(* The processes.  A call to the daemon blocks until it answers.           *)
Running(p) == processes[p].state = "running"
Call(p) == LET prog == Programs[processes[p].executable]
           IN IF processes[p].pc \in DOMAIN prog THEN prog[processes[p].pc] ELSE [op |-> "serve"]
Block(p) == processes' = [processes EXCEPT ![p].state = "blocked"]
daemonVars == <<sd_pc, start_queue, managed, discovery, waiting_for_all, waiting_for_any, crashes>>

call_register(p) ==
    /\ Running(p) /\ Call(p).op = "register" /\ Block(p)
    /\ registering' = Append(registering, [pid |-> p, name |-> Call(p).name, oneshot |-> Call(p).oneshot])
    /\ UNCHANGED <<daemonVars, terminated, waitfor_any, waitfor_all>>

call_wait_for_any(p) ==
    /\ Running(p) /\ Call(p).op = "any" /\ Block(p)
    /\ waitfor_any' = Append(waitfor_any, [names |-> Call(p).names, pid |-> p])
    /\ UNCHANGED <<daemonVars, terminated, registering, waitfor_all>>

call_wait_for_all(p) ==
    /\ Running(p) /\ Call(p).op = "all" /\ Block(p)
    /\ waitfor_all' = Append(waitfor_all, [names |-> Call(p).names, pid |-> p])
    /\ UNCHANGED <<daemonVars, terminated, registering, waitfor_any>>

(* A driver spawned by the PCI driver is not in managed.                   *)
call_spawn(p) ==
    /\ Running(p) /\ Call(p).op = "spawn"
    /\ processes' = Append(Continue(processes, {p}), New(Call(p).executable))
    /\ UNCHANGED <<daemonVars, queueVars>>

(* The kernel publishes process/terminated.                                *)
call_exit(p) ==
    /\ Running(p) /\ Call(p).op = "exit"
    /\ processes' = End(processes, p, "completed")
    /\ terminated' = Append(terminated, [pid |-> p, ok |-> TRUE])
    /\ UNCHANGED <<daemonVars, registering, waitfor_any, waitfor_all>>

crash(p) ==
    /\ Running(p) /\ crashes < MaxCrashes
    /\ crashes' = crashes + 1 /\ processes' = End(processes, p, "failed")
    /\ terminated' = Append(terminated, [pid |-> p, ok |-> FALSE])
    /\ UNCHANGED <<sd_pc, start_queue, managed, discovery, waiting_for_all, waiting_for_any,
                   registering, waitfor_any, waitfor_all>>

Calls(p) == call_register(p) \/ call_wait_for_any(p) \/ call_wait_for_all(p)
            \/ call_spawn(p) \/ call_exit(p)

ServiceStep == step \/ select

ProcessCalls == \E p \in Pids : Calls(p)

ServicesNext == ServiceStep \/ ProcessCalls \/ \E p \in Pids : crash(p)
----------------------------------------------------------------------------
(***************************************************************************)
(* A managed service that has ended is not registered under its name, once *)
(* the daemon has read the message about it, unless it was a oneshot that  *)
(* completed.                                                              *)
(***************************************************************************)
NoStaleService ==
    \A n \in DOMAIN discovery :
        LET p == discovery[n].by
        IN  \/ processes[p].state \in {"running", "blocked"}
            \/ \E i \in DOMAIN terminated : terminated[i].pid = p
            \/ discovery[n].oneshot /\ processes[p].state = "completed"
            \/ n \notin Names \/ definition_by_name(n).executable # processes[p].executable

(***************************************************************************)
(* The tables of the daemon agree with the processes: a process whose      *)
(* services are up does not sleep in waitfor (on_register wakes all the    *)
(* waiters it satisfies, and a waiter that comes after the registration is *)
(* answered at once), and no service is registered that has ended.         *)
(***************************************************************************)
NoWaiterForgotten ==
    /\ \A w \in Range(waiting_for_all) : processes[w.pid].state = "blocked" /\ ~all_up(w, discovery)
    /\ \A w \in Range(waiting_for_any) : processes[w.pid].state = "blocked" /\ ~any_up(w, discovery)
    /\ NoStaleService

(***************************************************************************)
(* Unless a process fails, startup completes: every service is started.    *)
(***************************************************************************)
StartupCompletes ==
    processes # <<>> ~> start_queue = <<>> \/ crashes > 0
=============================================================================
