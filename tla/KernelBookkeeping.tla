------------------------- MODULE KernelBookkeeping --------------------------
(***************************************************************************)
(* The bookkeeping of the IPC manager and of the scheduler as an inductive *)
(* invariant: what holds of a manager value, of the queues and of the      *)
(* system calls to repeat between any two steps of the kernel.             *)
(***************************************************************************)
EXTENDS Kernel

IsSeq(q) == q \in Seq(Range(q))
IsMap(f) == f = [x \in DOMAIN f |-> f[x]]

Listed(m) == {m.subscriptions.targets[i].id : i \in DOMAIN m.subscriptions.targets}
Boxes(m) == DOMAIN m.mailboxes
Box(m, s) == m.mailboxes[s]
NextId(m) == m.subscriptions.next_subscription_id
AckAt(m, s, i) == Box(m, s).queue[i].ack
Slots(m, s) == DOMAIN Box(m, s).queue

(* Process p makes, or is about to repeat, a deliver call.                 *)
Delivering(pend, p) == pend[p] # None /\ pend[p].op = "deliver"

IsMailbox(b) == b = Mailbox(b.kernel, b.queue, b.event, b.pipe_mode, b.peer)

(* A mailbox.  Only reliable messages, which have acknowledge ids, go      *)
(* through a pipe.                                                         *)
BoxOK(b) ==
  /\ IsMailbox(b)
  /\ b.kernel \in BOOLEAN /\ b.event \in BOOLEAN
  /\ b.pipe_mode \in {"None", "NotConnected", "ConnectedTo", "Disconnected"}
  /\ IsSeq(b.queue)
  /\ \A i \in DOMAIN b.queue : b.queue[i].ack \in Nat \cup {None}
  /\ b.pipe_mode # "None" => \A i \in DOMAIN b.queue : b.queue[i].ack # None
  /\ b.pipe_mode \in {"NotConnected", "Disconnected"} => b.queue = <<>>

IsManager(m) ==
  m = [subscriptions |-> m.subscriptions, mailboxes |-> m.mailboxes,
       waiting_for_delivery |-> m.waiting_for_delivery,
       delivery_result |-> m.delivery_result,
       next_acknowledge_id |-> m.next_acknowledge_id,
       process_subscriptions |-> m.process_subscriptions]

(* The manager has the shape of the Rust struct; the list and the mailboxes*)
(* have the same subscriptions, numbered below the counter.                *)
ManagerOK(m) ==
  /\ IsManager(m)
  /\ m.subscriptions = [targets |-> m.subscriptions.targets,
                        next_subscription_id |-> NextId(m)]
  /\ IsSeq(m.subscriptions.targets)
  /\ NextId(m) \in Nat /\ m.next_acknowledge_id \in Nat
  /\ IsMap(m.mailboxes) /\ IsMap(m.waiting_for_delivery)
  /\ IsMap(m.delivery_result) /\ IsMap(m.process_subscriptions)
  /\ Listed(m) = Boxes(m)
  /\ \A s \in Boxes(m) : /\ s \in Nat /\ s < NextId(m)
                         /\ BoxOK(Box(m, s))

(* Every mailbox of a process has one owner, which is alive.               *)
OwnersOK(m, alv) ==
  LET ps == m.process_subscriptions
  IN  /\ DOMAIN ps \subseteq alv
      /\ \A p \in DOMAIN ps : ps[p] \subseteq Boxes(m)
      /\ \A s \in Boxes(m) : IF Box(m, s).kernel
                             THEN \A p \in DOMAIN ps : s \notin ps[p]
                             ELSE \E p \in DOMAIN ps : s \in ps[p]
      /\ \A p, q \in DOMAIN ps : \A s \in ps[p] : s \in ps[q] => p = q

(* Every acknowledge id is in one place of one queue, or with one process. *)
AcksOK(m, hld) ==
  LET w == m.waiting_for_delivery
  IN  /\ \A a \in DOMAIN w : a \in Nat /\ a < m.next_acknowledge_id
      /\ \A s \in Boxes(m) : \A i \in Slots(m, s) :
           AckAt(m, s, i) # None => AckAt(m, s, i) \in DOMAIN w
      /\ \A p \in Pids : hld[p] \subseteq DOMAIN w
      /\ \A a \in DOMAIN w : \/ \E s \in Boxes(m) : \E i \in Slots(m, s) : AckAt(m, s, i) = a
                             \/ \E p \in Pids : a \in hld[p]
      /\ \A s, t \in Boxes(m) : \A i \in Slots(m, s), j \in Slots(m, t) :
           AckAt(m, s, i) # None /\ AckAt(m, s, i) = AckAt(m, t, j) => s = t /\ i = j
      /\ \A s \in Boxes(m) : \A i \in Slots(m, s) : \A p \in Pids : AckAt(m, s, i) \notin hld[p]
      /\ \A p, q \in Pids : \A a \in hld[p] : a \in hld[q] => p = q

(* A process that waits for a mailbox finds it empty, with the event set.  *)
WaitersOK(m, blk) ==
  \A p \in DOMAIN blk : \A s : MailboxEvent(s) \in blk[p] =>
    /\ s \in Nat /\ s < NextId(m)
    /\ s \in Boxes(m) => Box(m, s).queue = <<>> /\ Box(m, s).event

(* The processes that wait for an acknowledgement are the senders of the   *)
(* messages that wait for it, and a result is there for those whose wait   *)
(* is over.                                                                *)
SendersOK(m, blk, pend, alv) ==
  LET w == m.waiting_for_delivery
  IN  /\ \A a \in DOMAIN w : /\ w[a].event = SenderEvent(a) /\ w[a].pid \in DOMAIN blk
                             /\ blk[w[a].pid] = {SenderEvent(a)}
      /\ \A p \in DOMAIN blk : \A a : SenderEvent(a) \in blk[p] => a \in DOMAIN w /\ w[a].pid = p
      /\ \A p \in DOMAIN blk : Delivering(pend, p) <=> \E a \in DOMAIN w : SenderEvent(a) \in blk[p]
      /\ DOMAIN m.delivery_result \subseteq Pids
      /\ \A p \in Pids : p \in DOMAIN m.delivery_result <=>
           p \in alv /\ Delivering(pend, p) /\ p \notin DOMAIN blk
      /\ \A p \in DOMAIN m.delivery_result : m.delivery_result[p] # "wait"

(* A pipe has a living writer, which is the sender of all its messages.    *)
PipesOK(m, alv) ==
  \A s \in Boxes(m) : Box(m, s).pipe_mode = "ConnectedTo" =>
    /\ Box(m, s).peer \in alv
    /\ \A i \in Slots(m, s) :
         m.waiting_for_delivery[AckAt(m, s, i)].pid = Box(m, s).peer

IpcOK(m, blk, pend, hld, alv) ==
  /\ ManagerOK(m)
  /\ OwnersOK(m, alv)
  /\ AcksOK(m, hld)
  /\ WaitersOK(m, blk)
  /\ SendersOK(m, blk, pend, alv)
  /\ PipesOK(m, alv)

(* Woken processes are queued in an order of 1 .. Cardinality(woken).      *)
Countable(A) == \A S \in SUBSET A : Cardinality(S) \in Nat

(* The processes alive are ready, blocked or running, each in one place.   *)
Places(rdy, blk, run, alv) ==
  /\ IsSeq(rdy) /\ IsInjective(rdy) /\ IsMap(blk)
  /\ Range(rdy) \cap DOMAIN blk = {}
  /\ run # None => run \notin Range(rdy) /\ run \notin DOMAIN blk
  /\ alv = Range(rdy) \cup DOMAIN blk \cup ({run} \ {None})

(* The calls that are repeated.                                            *)
PendingOK(pend) ==
  /\ DOMAIN pend = Pids /\ IsMap(pend)
  /\ \A p \in Pids : pend[p] # None => pend[p].op \in {"deliver", "receive", "select"}

(* The processor executes the running process, or one that was interrupted *)
(* after which nothing is running.                                         *)
CpuOK(c, run, pend) ==
  \/ c.mode = "user" /\ run = None
  \/ c.mode = "user" /\ run = c.pid /\ pend[run] = None
  \/ c.mode = "idle" /\ run = None
  \/ c.mode = "repeat" /\ run = c.pid /\ run # None /\ pend[run] # None
  \/ c.mode = "panic"

ScheduleOK ==
  /\ alive \in SUBSET Pids /\ Countable(alive)
  /\ Places(ready, blocked, running, alive)
  /\ PendingOK(pending)
  /\ DOMAIN held = Pids /\ IsMap(held)
  /\ CpuOK(cpu, running, pending)

KernelInv == ScheduleOK /\ IpcOK(ipc, blocked, pending, held, alive)
=============================================================================
