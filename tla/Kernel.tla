------------------------------- MODULE Kernel -------------------------------
(***************************************************************************)
(* The kernel as the processes see it: system calls on the IPC manager     *)
(* (src/syscall/mod.rs), blocking and repeating them                       *)
(* (src/interrupt/handler.rs), the scheduler's queues, the timer and the   *)
(* device interrupts.  The queues are those of AbstractScheduler without   *)
(* timed waits: ready, and blocked with the events waited for.             *)
(*                                                                         *)
(* A system call that has to wait is repeated by the kernel when an event  *)
(* wakes its process up (SyscallResult::RepeatAfter), before the process   *)
(* continues; the repeated call may block again, and then the next process *)
(* is switched to from inside handle_repeat_syscall.  The processor state  *)
(* cpu says what is executing:                                             *)
(*   user    process pid                                                   *)
(*   idle    the idle loop                                                 *)
(*   repeat  handle_repeat_syscall for pid; interrupted is the process     *)
(*           whose interrupt is being handled, None in the idle loop and   *)
(*           after a termination                                           *)
(*   panic   nothing any more                                              *)
(***************************************************************************)
EXTENDS IpcManager

CONSTANTS
  Systems,           \* the systems started: process ids in the order of their creation
  Programs,          \* process -> the calls it makes
  InitrdFilter,      \* the filter the kernel's initrd service subscribes to
  IrqTopic, KeyboardTopic, TerminatedTopic,
  MaxSubscriptions,  \* bound on subscription ids
  MaxAck             \* bound on acknowledge ids

VARIABLES
  ipc,      \* the IPC manager
  ready,    \* run queue
  blocked,  \* blocked process -> the events it waits for
  running,  \* Scheduler::running
  cpu,      \* what the processor executes
  pending,  \* process -> the call to repeat (Process::repeat_syscall), or None
  held,     \* process -> acknowledge ids of the messages in its memory
  alive     \* the processes that have not terminated

Pids == UNION {Range(ids) : ids \in Systems}

ASSUME KernelAssumption ==
  /\ \A ids \in Systems : ids \in Seq(Range(ids)) /\ ids # <<>> /\ IsInjective(ids)
  /\ None \notin Pids /\ None \notin Nat
  /\ \A p \in Pids : None \notin Programs[p]

kernelVars == <<ipc, ready, blocked, running, cpu, pending, held, alive>>

User(p) == [mode |-> "user", pid |-> p, interrupted |-> None]
Idle == [mode |-> "idle", pid |-> None, interrupted |-> None]
Repeat(p, i) == [mode |-> "repeat", pid |-> p, interrupted |-> i]
Panicked == [mode |-> "panic", pid |-> None, interrupted |-> None]

Halt == cpu' = Panicked /\ UNCHANGED <<ipc, ready, blocked, running, pending, held, alive>>

-----------------------------------------------------------------------------
(* System calls                                                            *)

(* The calls process p may make now: the ones of its program, on its       *)
(* subscriptions, for the messages it received.                            *)
Selections(S) == {q \in UNION {[1 .. n -> S] : n \in 1 .. 2} : IsInjective(q)}

CallsOf(p) ==
  LET C(op) == {c \in Programs[p] : c.op = op}
  IN  {c \in C("subscribe") : ipc.subscriptions.next_subscription_id < MaxSubscriptions}
      \cup {c \in C("deliver") : ipc.next_acknowledge_id < MaxAck}
      \cup C("publish") \cup C("reply") \cup C("yield")
      \cup {[op |-> c.op, sub |-> s] :
              c \in C("receive") \cup C("unsubscribe"), s \in DOMAIN ipc.mailboxes}
      \cup {[op |-> c.op, subs |-> q, blocking |-> c.blocking] :
              c \in C("select"), q \in Selections(Owned(ipc, p))}
      \cup {[op |-> c.op, ack |-> a, positive |-> c.positive] :
              c \in C("acknowledge"), a \in held[p]}

(* SubscriptionFlags: a set of bits. *)
PREFIX == {"prefix"}
RELIABLE == {"reliable"}
PIPE == {"pipe"} \cup PREFIX \cup RELIABLE

InvalidTopic(m) == Result(m, "InvalidTopic", {})

ipc_subscribe(m, p, name, flags) ==
  LET exact == ~(PREFIX \subseteq flags)
  IN  IF (exact /\ ~ValidTopic(name)) \/ ~ValidPrefix(name) THEN InvalidTopic(m)
      ELSE subscribe(m, p, IF exact THEN Exact(name) ELSE Prefix(name),
                     RELIABLE \subseteq flags, PIPE \subseteq flags)

(* Mutant: a completed delivery is not told from a new one.                *)
ipc_deliver_again(m, p, topic, reply_to) ==
  IF ~ValidTopic(topic) THEN InvalidTopic(m) ELSE deliver(m, p, topic, reply_to)

ipc_deliver(m, p, topic, reply_to) ==
  IF delivery_complete(m, p) THEN after_delivery(m, p)
  ELSE IF ~ValidTopic(topic) THEN InvalidTopic(m)
  ELSE deliver(m, p, topic, reply_to)

syscall(m, p, c) ==
  CASE c.op = "subscribe"   -> ipc_subscribe(m, p, c.name, c.flags)
    [] c.op = "unsubscribe" -> unsubscribe(m, p, c.sub)
    [] c.op = "publish"     -> IF ValidTopic(c.topic) THEN publish(m, c.topic) ELSE InvalidTopic(m)
    [] c.op = "deliver"     -> ipc_deliver(m, p, c.topic, c.reply_to)
    [] c.op = "reply"       -> IF ValidTopic(c.topic) THEN deliver_reply(m, c.topic) ELSE InvalidTopic(m)
    [] c.op = "receive"     -> receive(m, p, c.sub)
    [] c.op = "acknowledge" -> acknowledge(m, c.ack, c.positive)
    [] c.op = "select"      -> select(m, c.subs, c.blocking)
    [] c.op = "yield"       -> Result(m, "ok", {})

(* The acknowledge ids p has after call c ended with res.                  *)
HeldAfter(p, c, res) ==
  IF c.op = "receive" /\ res = "ok"
  THEN held[p] \cup ({Head(ipc.mailboxes[c.sub].queue).ack} \ {None})
  ELSE IF c.op = "acknowledge" THEN held[p] \ {c.ack}
  ELSE held[p]

-----------------------------------------------------------------------------
(* Switching.  rdy and blk are the run queue and the blocked processes     *)
(* after the events of the step were triggered.                            *)

WaitingFor(blk, E) == {p \in DOMAIN blk : blk[p] \cap E # {}}
Orders(S) == Bijection(1 .. Cardinality(S), S)
Wake(blk, E) == Drop(blk, WaitingFor(blk, E))

(* handle_repeat_syscall returned None: back to the interrupted process or *)
(* to the idle loop.                                                       *)
FallThrough(interrupted) == IF interrupted = None THEN Idle ELSE User(interrupted)

(* Mutant: an empty run queue does not lead to the idle loop.              *)
SwitchTo_continues(rdy, pend, interrupted, stop) ==
  IF rdy = <<>>
  THEN ready' = rdy /\ running' = None /\ cpu' = FallThrough(interrupted)
  ELSE LET p == Head(rdy)
       IN  /\ ready' = Tail(rdy)
           /\ running' = p
           /\ cpu' = IF pend[p] = None THEN User(p) ELSE Repeat(p, interrupted)

(* Scheduler::switch once the current process was put away, and            *)
(* handle_switch! on its result.  A queue that is empty leads to stop.     *)
SwitchTo(rdy, pend, interrupted, stop) ==
  IF rdy = <<>>
  THEN ready' = rdy /\ running' = None /\ cpu' = stop
  ELSE LET p == Head(rdy)
       IN  /\ ready' = Tail(rdy)
           /\ running' = p
           /\ cpu' = IF pend[p] = None THEN User(p) ELSE Repeat(p, interrupted)

(* Call c of process p, and what its result does to p.  stop is where an   *)
(* empty run queue leads.                                                  *)
Perform(p, c, interrupted, stop) ==
  LET r == syscall(ipc, p, c)
  IN  IF r.res = "panic" THEN Halt
      ELSE /\ ipc' = r.m
           /\ pending' = [pending EXCEPT ![p] = IF r.res = "wait" THEN c ELSE None]
           /\ held' = [held EXCEPT ![p] = HeldAfter(p, c, r.res)]
           /\ UNCHANGED alive
           /\ \E o \in Orders(WaitingFor(blocked, r.events)) :
                LET rdy == o \o ready
                    blk == Wake(blocked, r.events)
                IN  IF r.res = "wait"
                    THEN /\ blocked' = Put(blk, p, r.wait)
                         /\ SwitchTo(rdy, pending, interrupted, stop)
                    ELSE /\ blocked' = blk
                         /\ IF c.op = "yield"
                            THEN SwitchTo(Append(rdy, p), pending', interrupted, stop)
                            ELSE ready' = rdy /\ cpu' = User(p) /\ UNCHANGED running

(* A process in the state the interrupt handlers expect it in.             *)
Executing(p) == cpu = User(p) /\ running = p

(* process_interrupt_inner, vector 0xd7.                                   *)
Syscall(p) ==
  /\ Executing(p)
  /\ \E c \in CallsOf(p) : Perform(p, c, p, Idle)

(* One level of handle_repeat_syscall; interrupts are disabled throughout. *)
RepeatSyscall ==
  /\ cpu.mode = "repeat"
  /\ Perform(cpu.pid, pending[cpu.pid], cpu.interrupted, FallThrough(cpu.interrupted))

(* The exit system call or a fault: Scheduler::terminate, then a switch.   *)
(* Events of the subscriptions, of the pipes and of the process/terminated *)
(* message are triggered one group after the other.                        *)
Exit(p) ==
  LET unsub == UnsubscribeAll(ipc, p)
      disc  == Disconnect(unsub.m, p)
      told  == publish(disc.m, TerminatedTopic)
      b1    == Wake(blocked, unsub.events)
      b2    == Wake(b1, disc.events)
  IN  /\ Executing(p)
      /\ [op |-> "exit"] \in Programs[p]
      /\ IF unsub.res = "panic" \/ told.res = "panic" THEN Halt
         ELSE /\ ipc' = told.m
              /\ blocked' = Wake(b2, told.events)
              /\ alive' = alive \ {p}
              /\ UNCHANGED <<pending, held>>
              /\ \E o1 \in Orders(WaitingFor(blocked, unsub.events)),
                    o2 \in Orders(WaitingFor(b1, disc.events)),
                    o3 \in Orders(WaitingFor(b2, told.events)) :
                   SwitchTo(o3 \o o2 \o o1 \o ready, pending, None, Idle)

-----------------------------------------------------------------------------
(* Interrupts                                                              *)

Interruptible == cpu = Idle \/ \E p \in alive : Executing(p)

(* The timer interrupt: Scheduler::tick.                                   *)
Tick ==
  /\ Interruptible
  /\ SwitchTo(IF running = None THEN ready ELSE Append(ready, running),
              pending, cpu.pid, Idle)
  /\ UNCHANGED <<ipc, blocked, pending, held, alive>>

(* kernel_publish; next says that switch_current_or_next follows.          *)
KernelPublish(topic, next) ==
  LET r == publish(ipc, topic)
  IN  IF r.res = "panic" THEN Halt
      ELSE /\ ipc' = r.m
           /\ blocked' = Wake(blocked, r.events)
           /\ UNCHANGED <<pending, held, alive>>
           /\ \E o \in Orders(WaitingFor(blocked, r.events)) :
                IF next /\ running = None
                THEN SwitchTo(o \o ready, pending, None, Idle)
                ELSE ready' = o \o ready /\ UNCHANGED <<running, cpu>>

(* A device interrupt.                                                     *)
DynamicIrq == Interruptible /\ KernelPublish(IrqTopic, TRUE)

(* The keyboard interrupt: what it interrupted continues.                  *)
KeyboardIrq == Interruptible /\ KernelPublish(KeyboardTopic, FALSE)

(* Any interrupt while a process executes that is not the running one:     *)
(* get_running_pid().expect("No process running?").                        *)
InterruptUnscheduled ==
  /\ cpu.mode = "user" /\ running = None
  /\ Halt

-----------------------------------------------------------------------------

(* services::init, then the processes of one of the systems were created.  *)
KernelInit ==
  /\ ipc = kernel_subscribe(Manager_new, InitrdFilter)
  /\ \E ids \in Systems :
       /\ ready = Tail(ids) /\ running = Head(ids) /\ cpu = User(Head(ids))
       /\ alive = Range(ids)
  /\ blocked = <<>>
  /\ pending = [p \in Pids |-> None] /\ held = [p \in Pids |-> {}]

KernelNext ==
  \/ \E p \in alive : Syscall(p)
  \/ \E p \in alive : Exit(p)
  \/ RepeatSyscall
  \/ Tick
  \/ DynamicIrq
  \/ KeyboardIrq
  \/ InterruptUnscheduled

KernelSpec == KernelInit /\ [][KernelNext]_kernelVars

-----------------------------------------------------------------------------
(* Properties                                                              *)

(* Every assert!, expect and unwrap on the way holds: no order of system   *)
(* calls that processes make on their own subscriptions and messages, and  *)
(* of interrupts, stops the kernel.                                        *)
NoPanic == cpu.mode # "panic"

(* The process that executes is the one the scheduler takes to be running: *)
(* "On `None` the system should switch to idle state" (handler.rs,         *)
(* handle_repeat_syscall), and does not return to a process that blocked.  *)
UserIsRunning == cpu.mode = "user" => running = cpu.pid

(* Subscriptions, mailboxes and owners stay in step: each subscription has *)
(* a mailbox, and each mailbox is the kernel's or has one owner, alive.    *)
MailboxesOwned ==
  LET ids    == {ipc.subscriptions.targets[i].id : i \in DOMAIN ipc.subscriptions.targets}
      owners == [s \in ids |-> {p \in Pids : process_owns(ipc, p, s)}]
  IN  /\ ids = DOMAIN ipc.mailboxes
      /\ \A s \in ids : IF ipc.mailboxes[s].kernel THEN owners[s] = {}
                         ELSE Cardinality(owners[s]) = 1 /\ owners[s] \subseteq alive
      /\ \A p \in Pids : Owned(ipc, p) \subseteq ids

(* No lost wakeup: while a process waits to receive, every mailbox it      *)
(* waits for is empty and will trigger the event on the next message.      *)
NoLostWakeup ==
  \A p \in DOMAIN blocked : \A s \in DOMAIN ipc.mailboxes :
    MailboxEvent(s) \in blocked[p] => ipc.mailboxes[s].queue = <<>> /\ ipc.mailboxes[s].event

(* A message that waits for its acknowledgement has a sender that is alive *)
(* and waits for exactly that; a sender waits for one message at a time.   *)
SenderWaits ==
  LET w == ipc.waiting_for_delivery
  IN  /\ \A a \in DOMAIN w : w[a].pid \in DOMAIN blocked /\ blocked[w[a].pid] = {SenderEvent(a)}
      /\ \A p \in DOMAIN blocked : \A a \in 0 .. MaxAck :
           SenderEvent(a) \in blocked[p] => a \in DOMAIN w /\ w[a].pid = p

(* A delivery result is there exactly while a process is about to repeat   *)
(* its deliver call: no later delivery is taken for a completed one, and   *)
(* no completed one is sent again.                                         *)
ResultForCaller ==
  \A p \in Pids :
    p \in DOMAIN ipc.delivery_result <=>
      p \in alive /\ pending[p] # None /\ pending[p].op = "deliver" /\ p \notin DOMAIN blocked

(* Every acknowledge id that is waited for is in one place, a mailbox or   *)
(* the memory of the process that received it, and ids found there are     *)
(* waited for: unsubscribing and acknowledging always find the sender,     *)
(* which waits for exactly that.                                           *)
AckAccounting ==
  LET boxes == DOMAIN ipc.mailboxes
      In(s) == QueuedAcks(ipc, {s})
  IN  /\ SenderWaits
      /\ DOMAIN ipc.waiting_for_delivery =
           QueuedAcks(ipc, boxes) \cup UNION {held[p] : p \in Pids}
      /\ \A s, t \in boxes : s # t => In(s) \cap In(t) = {}
      /\ \A p \in Pids : held[p] \cap QueuedAcks(ipc, boxes) = {}

(* A pipe carries the messages of one process: every message in it that    *)
(* waits for an acknowledgement is from the process it is connected to,    *)
(* and when there is none yet, or not any more, there is no message.       *)
PipePrivate ==
  \A s \in DOMAIN ipc.mailboxes :
    LET box     == ipc.mailboxes[s]
        senders == {ipc.waiting_for_delivery[a].pid : a \in QueuedAcks(ipc, {s})}
    IN  /\ box.pipe_mode = "ConnectedTo" => box.peer \in alive /\ senders \subseteq {box.peer}
        /\ box.pipe_mode \in {"NotConnected", "Disconnected"} => box.queue = <<>>

(* A sender gets an answer or an error ("or the subcriber desubscribed     *)
(* before processing the message", result.rs, NoSubscriber): what it waits *)
(* for is in a mailbox or with a process that is alive.                    *)
AnswerPossible ==
  DOMAIN ipc.waiting_for_delivery \subseteq
    QueuedAcks(ipc, DOMAIN ipc.mailboxes) \cup UNION {held[p] : p \in alive}
=============================================================================
