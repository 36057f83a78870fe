------------------------------- MODULE Queues -------------------------------
(***************************************************************************)
(* The run queue and the wait queues of the scheduler, and the WaitFor     *)
(* conditions processes are queued under                                   *)
(* (src/multitasking/queues.rs, src/multitasking/waitfor.rs).              *)
(*                                                                         *)
(* A Queues value is a record with the fields of the Rust struct:          *)
(*   running        the run queue, front first                             *)
(*   waiting        wait id -> process; an id is consumed on its first     *)
(*                  trigger and ignored afterwards                         *)
(*   next_waitid    the next wait id                                       *)
(*   wait_sleeping  sequence of [at, id], sorted by at                     *)
(*   wait_process   pairs <<pid, id>> (a HashMap of HashSets in the code)  *)
(*   wait_event     pairs <<event, id>>                                    *)
(*                                                                         *)
(* A WaitFor value is the record of its atomic conditions: the instants,   *)
(* processes and events of a FirstOf.  Time, Process and Event are the     *)
(* one-condition cases and WaitFor::None the empty one.                    *)
(*                                                                         *)
(* Instants are relative to the present: Elapse (module Scheduler) lowers  *)
(* every stored instant instead of advancing a clock, and 0 stands for     *)
(* every instant that has passed.  All comparisons the code makes between  *)
(* instants come out the same and the state stays finite.                  *)
(***************************************************************************)
EXTENDS Integers, Sequences, FiniteSets, Functions

WaitForNone == [times |-> {}, processes |-> {}, events |-> {}]
WaitForTime(t) == [WaitForNone EXCEPT !.times = {t}]
WaitForProcess(p) == [WaitForNone EXCEPT !.processes = {p}]
WaitForEvent(e) == [WaitForNone EXCEPT !.events = {e}]

Earliest(T) == CHOOSE t \in T : \A u \in T : t <= u

(* Only the earliest of several instants is kept. *)
reduce(w) == [w EXCEPT !.times = IF @ = {} THEN {} ELSE {Earliest(@)}]

Queues_new == [running       |-> <<>>,
               waiting       |-> <<>>,
               next_waitid   |-> 0,
               wait_sleeping |-> <<>>,
               wait_process  |-> {},
               wait_event    |-> {}]

process_exists(q, pid) == pid \in Range(q.running) \cup Range(q.waiting)

(* A wait for a process that is already over is no wait at all. *)
reduce_queues(w, q, current) ==
  IF \E p \in w.processes : p # current /\ ~process_exists(q, p)
  THEN WaitForNone
  ELSE reduce(w)

-----------------------------------------------------------------------------

(* Position at which an entry for instant t keeps v sorted: before the     *)
(* first later entry.                                                      *)
p_index_vecdeque(v, t) ==
  LET later == {i \in DOMAIN v : v[i].at > t}
  IN  IF later = {} THEN Len(v) + 1 ELSE Earliest(later)

InsertSleeper(v, t, id) ==
  LET i == p_index_vecdeque(v, t)
  IN  [j \in 1 .. Len(v) + 1 |->
         IF j < i THEN v[j]
         ELSE IF j = i THEN [at |-> t, id |-> id]
         ELSE v[j - 1]]

(* create_wait, then give_inner for each condition: one wait id for all.   *)
Enqueue(q, pid, w) ==
  LET id == q.next_waitid
  IN  [running       |-> q.running,
       waiting       |-> [x \in DOMAIN q.waiting \cup {id} |->
                            IF x = id THEN pid ELSE q.waiting[x]],
       next_waitid   |-> id + 1,
       wait_sleeping |-> IF w.times = {} THEN q.wait_sleeping
                         ELSE InsertSleeper(q.wait_sleeping, Earliest(w.times), id),
       wait_process  |-> q.wait_process \cup (w.processes \X {id}),
       wait_event    |-> q.wait_event \cup (w.events \X {id})]

give(q, pid, w) ==
  LET s == reduce_queues(w, q, pid)
  IN  IF s = WaitForNone
      THEN [q EXCEPT !.running = Append(@, pid)]
      ELSE Enqueue(q, pid, s)

-----------------------------------------------------------------------------

(* The orders in which a set of triggered wait ids may reach trigger_wait; *)
(* the ids that were consumed earlier are ignored.  The sets are HashSets, *)
(* so any order of the others is possible.                                 *)
TriggerOrders(q, ids) ==
  LET live == ids \cap DOMAIN q.waiting
  IN  Bijection(1 .. Cardinality(live), live)

(* Mutant: a triggered wait id is not consumed.                            *)
trigger_waits_keeps_ids(q, order) ==
  LET n == Len(order)
  IN  [q EXCEPT !.running = [i \in 1 .. n |-> q.waiting[order[n + 1 - i]]] \o @]

(* trigger_wait on each id of order in turn: the id is consumed and its    *)
(* process goes to the FRONT of the run queue, so the last one leads.      *)
trigger_waits(q, order) ==
  LET n == Len(order)
  IN  [running       |-> [i \in 1 .. n |-> q.waiting[order[n + 1 - i]]] \o q.running,
       waiting       |-> Restrict(q.waiting, DOMAIN q.waiting \ Range(order)),
       next_waitid   |-> q.next_waitid,
       wait_sleeping |-> q.wait_sleeping,
       wait_process  |-> q.wait_process,
       wait_event    |-> q.wait_event]

(* Mutant: the entry due next is popped too.                               *)
Expired_early(q) == {i \in DOMAIN q.wait_sleeping : q.wait_sleeping[i].at <= 1}

(* The wait ids on_tick pops: the entries whose instant has passed.  They  *)
(* form a prefix because wait_sleeping is sorted.                          *)
Expired(q) == {i \in DOMAIN q.wait_sleeping : q.wait_sleeping[i].at = 0}
ExpiredIds(q) == {q.wait_sleeping[i].id : i \in Expired(q)}

(* on_tick triggers the expired ids in queue order.                        *)
TickOrders(q) ==
  {o \in TriggerOrders(q, ExpiredIds(q)) :
     \A i, j \in DOMAIN o : i < j =>
       \E k, l \in Expired(q) : /\ k < l
                                /\ q.wait_sleeping[k].id = o[i]
                                /\ q.wait_sleeping[l].id = o[j]}

on_tick(q, order) ==
  LET n == Cardinality(Expired(q))
  IN  trigger_waits([q EXCEPT !.wait_sleeping =
                       [i \in 1 .. Len(@) - n |-> @[i + n]]], order)

next_wakeup(q, none) ==
  IF q.wait_sleeping = <<>> THEN none ELSE q.wait_sleeping[1].at

(* Wait ids registered for any of the events E.                            *)
EventIds(q, E) == {p[2] : p \in {x \in q.wait_event : x[1] \in E}}

(* on_explicit_event for each event of E (IpcResult::consume_events).      *)
on_explicit_events(q, E, order) ==
  trigger_waits([q EXCEPT !.wait_event = {x \in @ : x[1] \notin E}], order)

(* Wait ids registered for the end of process pid.                         *)
ProcessIds(q, pid) == {p[2] : p \in {x \in q.wait_process : x[1] = pid}}

(* Without its first occurrence of pid.                                    *)
RemoveFirstPid(s, pid) ==
  LET at == {i \in DOMAIN s : s[i] = pid}
  IN  IF at = {} THEN s
      ELSE [i \in 1 .. Len(s) - 1 |-> IF i < Earliest(at) THEN s[i] ELSE s[i + 1]]

on_process_over(q, completed, order) ==
  LET stopped == [q EXCEPT !.running = RemoveFirstPid(@, completed)]
  IN  trigger_waits([stopped EXCEPT !.wait_process = {x \in @ : x[1] # completed}],
                    order)

-----------------------------------------------------------------------------
(* Shape of a Queues value and of a WaitFor value over the events Ev.      *)

IsWaitFor(w, Ev) ==
  /\ w = [times |-> w.times, processes |-> w.processes, events |-> w.events]
  /\ w.times \in SUBSET Nat
  /\ w.processes \in SUBSET Nat
  /\ w.events \in SUBSET Ev

IsQueues(q, Ev) ==
  /\ q = [running       |-> q.running,
          waiting       |-> q.waiting,
          next_waitid   |-> q.next_waitid,
          wait_sleeping |-> q.wait_sleeping,
          wait_process  |-> q.wait_process,
          wait_event    |-> q.wait_event]
  /\ q.running \in Seq(Nat)
  /\ q.waiting \in [DOMAIN q.waiting -> Nat]
  /\ DOMAIN q.waiting \in SUBSET Nat /\ IsFiniteSet(DOMAIN q.waiting)
  /\ q.next_waitid \in Nat
  /\ q.wait_sleeping \in Seq([at : Nat, id : Nat])
  /\ q.wait_process \in SUBSET (Nat \X Nat)
  /\ q.wait_event \in SUBSET (Ev \X Nat)

(* The wait ids handed out so far are below the counter.                   *)
IdsFresh(q) == \A id \in DOMAIN q.waiting : id < q.next_waitid

(* The processes in q, and that each is in one place only.                 *)
Members(q) == Range(q.running) \cup Range(q.waiting)
InOnePlace(q) ==
  /\ IsInjective(q.running)
  /\ IsInjective(q.waiting)
  /\ Range(q.running) \cap Range(q.waiting) = {}
=============================================================================
