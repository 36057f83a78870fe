----------------------------- MODULE Scheduler ------------------------------
(***************************************************************************)
(* The process scheduler (src/multitasking/scheduler.rs) and the timer it  *)
(* drives, as an open component: its callers are the system calls of the   *)
(* running process and the interrupt handlers.  The kernel runs on one     *)
(* processor with interrupts disabled, so each handler is one step.        *)
(*                                                                         *)
(* Which events a step triggers, and what a process waits for, is decided  *)
(* by the IPC manager; here both are arbitrary.                            *)
(***************************************************************************)
EXTENDS Queues

CONSTANTS
  None,               \* Option::None
  Events,             \* explicit events that can be waited for and triggered
  Waits,              \* the WaitFor values processes are queued under
  TIME_SLICE,         \* TIME_SLICE_NS, in clock units
  MIN_EXEC_TIME,      \* MIN_EXEC_TIME_NS, in clock units
  MaxPid, MaxWaitId   \* bounds on the two id counters

ASSUME SchedulerAssumption ==
  /\ None \notin Nat
  /\ TIME_SLICE \in Nat /\ MIN_EXEC_TIME \in Nat \ {0}
  /\ MaxPid \in Nat /\ MaxWaitId \in Nat
  /\ \A w \in Waits : IsWaitFor(w, Events)

VARIABLES
  processes,              \* ids of the processes in Scheduler::processes
  queues,                 \* Scheduler::queues
  running,                \* Scheduler::running
  running_timeslice_end,  \* Scheduler::running_timeslice_end
  next_pid,               \* Scheduler::next_pid
  deadline                \* the instant the timer is armed for, if it is

schedVars == <<processes, queues, running, running_timeslice_end, next_pid, deadline>>

-----------------------------------------------------------------------------
(* The methods of Scheduler, as conjuncts that set queues', running' and   *)
(* running_timeslice_end' from the queues q as they are when called.       *)

(* The part of switch() after the current process was given back.          *)
SwitchToNext(q) ==
  IF q.running = <<>>
  THEN /\ queues' = q
       /\ running' = None
       /\ running_timeslice_end' = None
  ELSE /\ queues' = [q EXCEPT !.running = Tail(@)]
       /\ running' = Head(q.running)
       /\ running_timeslice_end' = TIME_SLICE

(* switch(Some(w)) *)
Switch(q, w) == SwitchToNext(IF running = None THEN q ELSE give(q, running, w))

(* Mutant: the head of the queue is taken although a process is running.   *)
SwitchCurrentOrNext_drops(q) ==
  /\ IF q.running # <<>>
     THEN /\ queues' = [q EXCEPT !.running = Tail(@)]
          /\ running' = Head(q.running)
     ELSE /\ queues' = q
          /\ running' = running
  /\ UNCHANGED running_timeslice_end

(* switch_current_or_next: does not touch running_timeslice_end.           *)
SwitchCurrentOrNext(q) ==
  /\ IF running = None /\ q.running # <<>>
     THEN /\ queues' = [q EXCEPT !.running = Tail(@)]
          /\ running' = Head(q.running)
     ELSE /\ queues' = q
          /\ running' = running
  /\ UNCHANGED running_timeslice_end

(* Mutant: sleepers are forgotten when there is no time slice.             *)
next_tick_slice_only(q, slice_end) ==
  IF slice_end = None THEN None
  ELSE Earliest({slice_end, MIN_EXEC_TIME})

(* The earliest of the next wakeup and the end of the time slice, at most  *)
(* MIN_EXEC_TIME from now; nothing if there is neither.                    *)
next_tick(q, slice_end) ==
  LET ends == {next_wakeup(q, None), slice_end} \ {None}
  IN  IF ends = {} THEN None ELSE Earliest(ends \cup {MIN_EXEC_TIME})

(* if let Some(deadline) = sched.next_tick() { set_deadline(deadline) },   *)
(* on a processor with TSC deadlines, where set_deadline never fails.  The *)
(* LAPIC timer that stands in for them fails for a deadline that is now,   *)
(* and the kernel panics ("TODO: Deadline too soon").                      *)
SetDeadline(old) ==
  LET t == next_tick(queues', running_timeslice_end')
  IN  deadline' = IF t = None THEN old ELSE t

(* An expired deadline is a pending interrupt: it is taken before the      *)
(* processor executes anything else with interrupts enabled.               *)
TimerPending == deadline = 0

-----------------------------------------------------------------------------
(* Steps                                                                   *)

(* rust_main: spawn the first process and raise the timer interrupt.       *)
SchedInit ==
  /\ processes = {1}
  /\ queues = [Queues_new EXCEPT !.running = <<1>>]
  /\ running = None
  /\ running_timeslice_end = None
  /\ next_pid = 2
  /\ deadline = 0

(* exec: creating the process fails when memory runs out, after its id was *)
(* taken.                                                                  *)
Spawn(ok) ==
  /\ ~TimerPending /\ running # None
  /\ next_pid <= MaxPid
  /\ next_pid' = next_pid + 1
  /\ IF ok
     THEN /\ processes' = processes \cup {next_pid}
          /\ queues' = give(queues, next_pid, WaitForNone)
     ELSE UNCHANGED <<processes, queues>>
  /\ UNCHANGED <<running, running_timeslice_end, deadline>>

(* A system call that ends in SyscallResultAction::Switch(w).  A delivery  *)
(* triggers the event its receiver waits for (E) before it blocks.         *)
SyscallSwitch(E, w) ==
  /\ ~TimerPending /\ running # None
  /\ queues.next_waitid < MaxWaitId
  /\ \E order \in TriggerOrders(queues, EventIds(queues, E)) :
       Switch(on_explicit_events(queues, E, order), w)
  /\ SetDeadline(deadline)
  /\ UNCHANGED <<processes, next_pid>>

(* handle_repeat_syscall: the repeated call blocks again.  No deadline is  *)
(* set.  Only event waits are repeated (SyscallResult::RepeatAfter).       *)
RepeatSwitch(w) ==
  /\ running # None
  /\ w.times = {} /\ w.processes = {} /\ w.events # {}
  /\ queues.next_waitid < MaxWaitId
  /\ Switch(queues, w)
  /\ UNCHANGED <<processes, next_pid, deadline>>

(* A system call or a keyboard interrupt that triggers events and leaves   *)
(* the processor where it was.                                             *)
TriggerEvents(E) ==
  /\ ~TimerPending
  /\ \E order \in TriggerOrders(queues, EventIds(queues, E)) :
       queues' = on_explicit_events(queues, E, order)
  /\ UNCHANGED <<processes, running, running_timeslice_end, next_pid, deadline>>

(* exit or a fault: terminate_and_switch of the running process.  E are    *)
(* the events its subscriptions and the process/terminated message trigger.*)
Terminate(E) ==
  /\ running # None
  /\ processes' = processes \ {running}
  /\ \E order \in TriggerOrders(queues, ProcessIds(queues, running)) :
       LET q == on_process_over(queues, running, order)
       IN  \E order2 \in TriggerOrders(q, EventIds(q, E)) :
             SwitchToNext(on_explicit_events(q, E, order2))
  /\ UNCHANGED <<next_pid, deadline>>

(* The timer interrupt, in a process or while idle.                        *)
Tick ==
  /\ TimerPending
  /\ \E order \in TickOrders(queues) : Switch(on_tick(queues, order), WaitForNone)
  /\ SetDeadline(None)
  /\ UNCHANGED <<processes, next_pid>>

(* A device interrupt of the dynamic range, in a process or while idle.    *)
DynamicIrq(E) ==
  /\ ~TimerPending
  /\ \E order \in TriggerOrders(queues, EventIds(queues, E)) :
       SwitchCurrentOrNext(on_explicit_events(queues, E, order))
  /\ UNCHANGED <<processes, next_pid, deadline>>

Later(t) == IF t = None \/ t = 0 THEN t ELSE t - 1

(* One unit of time passes.                                                *)
Elapse ==
  /\ ~TimerPending
  /\ queues' = [queues EXCEPT !.wait_sleeping =
                  [i \in 1 .. Len(@) |-> [at |-> Later(@[i].at), id |-> @[i].id]]]
  /\ running_timeslice_end' = Later(running_timeslice_end)
  /\ deadline' = Later(deadline)
  /\ UNCHANGED <<processes, running, next_pid>>

(* The events a call that blocks may trigger.                              *)
OneOrNone == {{}} \cup {{e} : e \in Events}

SchedNext ==
  \/ \E ok \in BOOLEAN : Spawn(ok)
  \/ \E E \in OneOrNone, w \in Waits : SyscallSwitch(E, w)
  \/ \E w \in Waits : RepeatSwitch(w)
  \/ \E E \in SUBSET Events \ {{}} : TriggerEvents(E)
  \/ \E E \in SUBSET Events : Terminate(E)
  \/ \E E \in SUBSET Events : DynamicIrq(E)
  \/ Tick
  \/ Elapse

SchedSpec == SchedInit /\ [][SchedNext]_schedVars

(* What the blocked processes wait for: the conditions registered under    *)
(* their current wait ids.  Entries under other ids have no effect.        *)
WaitIdOf(q, p) == CHOOSE id \in DOMAIN q.waiting : q.waiting[id] = p
Conditions(q, id) ==
  [times     |-> {x.at : x \in {y \in Range(q.wait_sleeping) : y.id = id}},
   processes |-> {x[1] : x \in {y \in q.wait_process : y[2] = id}},
   events    |-> {x[1] : x \in {y \in q.wait_event : y[2] = id}}]
Blocked(q) == [p \in Range(q.waiting) |-> Conditions(q, WaitIdOf(q, p))]

-----------------------------------------------------------------------------
(* Properties                                                              *)

SchedTypeOK ==
  /\ processes \in SUBSET Nat
  /\ IsQueues(queues, Events)
  /\ running \in Nat \cup {None}
  /\ running_timeslice_end \in Nat \cup {None}
  /\ next_pid \in Nat
  /\ deadline \in Nat \cup {None}

(* "A process will never be returned twice to the scheduler" (queues.rs,   *)
(* Queues::waiting): no process is in two places among the processor, the  *)
(* run queue and the wait table, or twice in one of them, however many     *)
(* triggers of a wait fire.                                                *)
NeverTwice ==
  /\ InOnePlace(queues)
  /\ running \notin Members(queues)

(* Every process the scheduler knows is running, ready or waiting, and     *)
(* nothing else is: none is lost, and the process switch() takes from the  *)
(* queue exists ("Process from queue not running" is never raised).        *)
NoneLost == processes = Members(queues) \cup ({running} \ {None})

(* A waiting process can be woken: its wait id is still registered under   *)
(* an instant, an event, or a process that is alive.                       *)
EveryWaitHasTrigger ==
  \A id \in DOMAIN queues.waiting :
    \/ \E i \in DOMAIN queues.wait_sleeping : queues.wait_sleeping[i].id = id
    \/ \E p \in queues.wait_process : p[2] = id /\ p[1] \in processes
    \/ \E p \in queues.wait_event : p[2] = id

(* wait_sleeping "must be kept sorted by the wake-up time" (queues.rs), on *)
(* which on_tick and next_wakeup rely.                                     *)
SleepersSorted ==
  \A i, j \in DOMAIN queues.wait_sleeping :
    i < j => queues.wait_sleeping[i].at <= queues.wait_sleeping[j].at

(* While anything sleeps the timer is armed, and not for a later instant   *)
(* than the first wakeup, although terminate, device interrupts and        *)
(* repeated system calls switch processes without setting a deadline.      *)
TimerCoversSleepers ==
  queues.wait_sleeping # <<>> =>
    deadline # None /\ deadline <= queues.wait_sleeping[1].at

(* Whatever a process waits for can still happen: its wait id is registered, *)
(* and if it sleeps the timer, which looks at the first sleeper only, will *)
(* come in time.                                                           *)
WakeupsPending == EveryWaitHasTrigger /\ SleepersSorted /\ TimerCoversSleepers
=============================================================================
