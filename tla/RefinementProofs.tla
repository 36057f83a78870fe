-------------------------- MODULE RefinementProofs --------------------------
(***************************************************************************)
(* The scheduler implements the abstract scheduler, for any number of      *)
(* processes, events and kinds of wait.                                    *)
(***************************************************************************)
EXTENDS SchedulerRefinement, SchedulerProofs

(* The operators of the modules the abstract scheduler extends.            *)
LEMMA AbstractOperators ==
  /\ \A S : Abstract!Cardinality(S) = Cardinality(S)
  /\ \A S, T : Abstract!Bijection(S, T) = Bijection(S, T)
  /\ \A f, S : Abstract!Restrict(f, S) = Restrict(f, S)
  /\ \A f : Abstract!Range(f) = Range(f)
  /\ \A T : Abstract!Earliest(T) = Earliest(T)
  /\ \A w : Abstract!reduce(w) = reduce(w)
  /\ Abstract!WaitForNone = WaitForNone
<1>1. \A S : Abstract!Cardinality(S) = Cardinality(S)
  BY Zenon DEF Cardinality, Abstract!Cardinality
<1>2. \A S, T : Abstract!Bijection(S, T) = Bijection(S, T)
  BY Zenon DEF Bijection, Injection, Surjection, IsInjective,
               Abstract!Bijection, Abstract!Injection, Abstract!Surjection, Abstract!IsInjective
<1>3. /\ \A f, S : Abstract!Restrict(f, S) = Restrict(f, S)
      /\ \A f : Abstract!Range(f) = Range(f)
      /\ \A T : Abstract!Earliest(T) = Earliest(T)
      /\ Abstract!WaitForNone = WaitForNone
  BY Zenon DEF Restrict, Range, Earliest, WaitForNone,
               Abstract!Restrict, Abstract!Range, Abstract!Earliest, Abstract!WaitForNone
<1>4. \A w : Abstract!reduce(w) = reduce(w)
  BY Zenon DEF Earliest, reduce, Abstract!Earliest, Abstract!reduce
<1> QED
  BY <1>1, <1>2, <1>3, <1>4, Zenon

(* S are the processes that wait under one of the ids.                     *)
Under(q, ids, S) ==
  /\ S \subseteq Range(q.waiting)
  /\ \A id \in DOMAIN q.waiting : q.waiting[id] \in S <=> id \in ids

(* q and r block the same processes, and those that do not wait under one  *)
(* of the ids on the same conditions.                                      *)
SameBut(q, r, ids) ==
  /\ r.running = q.running /\ r.waiting = q.waiting /\ r.next_waitid = q.next_waitid
  /\ \A id \in DOMAIN q.waiting \ ids : Conditions(r, id) = Conditions(q, id)

(* Triggering the ids of order makes the processes waiting under them      *)
(* ready, ahead of the queue, and leaves the others blocked as they were.  *)
LEMMA TriggerRefines ==
  ASSUME NEW Ev, NEW q, IsQueues(q, Ev), InOnePlace(q), IdsFresh(q),
         NEW r, IsQueues(r, Ev), NEW ids, SameBut(q, r, ids),
         NEW order \in TriggerOrders(q, ids), NEW S, Under(q, ids, S)
  PROVE  /\ \E o \in Abstract!Orders(S) :
               o \in Seq(Nat) /\ trigger_waits(r, order).running = o \o q.running
         /\ Blocked(trigger_waits(r, order)) = Abstract!Without(Blocked(q), S)
<1> DEFINE t == trigger_waits(r, order)
           n == Len(order)
           o == [i \in 1 .. n |-> q.waiting[order[n + 1 - i]]]
           rest == DOMAIN q.waiting \ Range(order)
<1>1. /\ n \in Nat /\ DOMAIN order = 1 .. n /\ IsInjective(order)
      /\ Range(order) = ids \cap DOMAIN q.waiting
      /\ \A i \in 1 .. n : order[i] \in DOMAIN q.waiting
  BY OrderFacts, Zenon
<1>2. /\ t.running = o \o q.running /\ t.waiting = Restrict(q.waiting, rest)
      /\ t.wait_sleeping = r.wait_sleeping /\ t.wait_process = r.wait_process
      /\ t.wait_event = r.wait_event
  BY Zenon DEF trigger_waits, SameBut
<1>3. InOnePlace(t)
  BY TriggerAfterDrop, Zenon DEF SameBut
<1> HIDE DEF t, n
<1>4. o \in Bijection(1 .. n, S)
  <2>1. ASSUME NEW i \in 1 .. n
        PROVE  n + 1 - i \in 1 .. n /\ order[n + 1 - i] \in ids \cap DOMAIN q.waiting
    BY <1>1 DEF Range
  <2>2. o \in [1 .. n -> S]
    BY <2>1, Zenon DEF Under
  <2>3. ASSUME NEW i \in 1 .. n, NEW j \in 1 .. n, o[i] = o[j]
        PROVE  i = j
    <3>1. q.waiting[order[n + 1 - i]] = q.waiting[order[n + 1 - j]]
      BY <2>3, Zenon
    <3>2. order[n + 1 - i] = order[n + 1 - j]
      BY <2>1, <3>1, Zenon DEF InOnePlace, IsInjective
    <3>3. n + 1 - i = n + 1 - j
      BY <1>1, <2>1, <3>2, Zenon DEF IsInjective
    <3> QED
      BY <1>1, <3>3
  <2>4. ASSUME NEW p \in S
        PROVE  \E i \in 1 .. n : o[i] = p
    <3>1. PICK id \in DOMAIN q.waiting : q.waiting[id] = p
      BY Zenon DEF Range, Under
    <3>2. id \in Range(order)
      BY <1>1, <3>1, Zenon DEF Under
    <3>3. PICK k \in 1 .. n : order[k] = id
      BY <1>1, <3>2, Zenon DEF Range
    <3>4. n + 1 - k \in 1 .. n /\ n + 1 - (n + 1 - k) = k
      BY <1>1
    <3> QED
      BY <3>1, <3>3, <3>4, Zenon
  <2>5. o \in Injection(1 .. n, S) /\ o \in Surjection(1 .. n, S)
    BY <2>2, <2>3, <2>4, Zenon DEF Injection, Surjection, IsInjective
  <2> QED
    BY <2>5, Zenon DEF Bijection
<1>5. Cardinality(S) = n
  <2>1. ExistsBijection(1 .. n, S)
    BY <1>4, Zenon DEF ExistsBijection
  <2> QED
    BY <1>1, <2>1, FS_CountingElements, Zenon
<1>6. \E x \in Abstract!Orders(S) : x \in Seq(Nat) /\ t.running = x \o q.running
  <2>1. Abstract!Orders(S) = Bijection(1 .. n, S)
    BY <1>5, AbstractOperators, Zenon DEF Abstract!Orders
  <2>2. o \in [1 .. n -> S]
    BY <1>4, Zenon DEF Bijection, Injection
  <2>3. S \subseteq Nat
    BY Zenon DEF Under, IsQueues, Range
  <2> HIDE DEF o
  <2>4. o \in [1 .. n -> Nat]
    BY <2>2, <2>3, Zenon
  <2>5. o \in Seq(Nat)
    BY <1>1, <2>4, FunctionIsSeq, Zenon
  <2> QED
    BY <1>2, <1>4, <2>1, <2>5, Zenon DEF o
<1>7. Blocked(t) = Abstract!Without(Blocked(q), S)
  <2>1. DOMAIN t.waiting = rest /\ \A id \in rest : t.waiting[id] = q.waiting[id]
    BY <1>2, Zenon DEF Restrict
  <2>2. Range(t.waiting) = Range(q.waiting) \ S
    <3>1. \A p : p \in Range(t.waiting) <=> \E id \in rest : q.waiting[id] = p
      BY <2>1, Zenon DEF Range
    <3>2. \A p : p \in Range(q.waiting) <=> \E id \in DOMAIN q.waiting : q.waiting[id] = p
      BY Zenon DEF Range
    <3>3. \A id \in DOMAIN q.waiting : id \in rest <=> q.waiting[id] \notin S
      BY <1>1, Zenon DEF Under
    <3>4. ASSUME NEW p \in Range(t.waiting)
          PROVE  p \in Range(q.waiting) /\ p \notin S
      <4>1. PICK id \in rest : q.waiting[id] = p
        BY <3>1, Zenon
      <4> QED
        BY <3>2, <3>3, <4>1, Zenon
    <3>5. ASSUME NEW p \in Range(q.waiting), p \notin S
          PROVE  p \in Range(t.waiting)
      <4>1. PICK id \in DOMAIN q.waiting : q.waiting[id] = p
        BY <3>2, Zenon
      <4> QED
        BY <3>1, <3>3, <3>5, <4>1, Zenon
    <3> QED
      BY <3>4, <3>5, Zenon
  <2>3. ASSUME NEW p \in Range(t.waiting)
        PROVE  Blocked(t)[p] = Blocked(q)[p]
    <3>1. PICK id \in rest : q.waiting[id] = p /\ t.waiting[id] = p
      BY <2>1, Zenon DEF Range
    <3>2. Blocked(t)[t.waiting[id]] = Conditions(t, id)
      BY <1>3, <2>1, BlockedFacts, Zenon DEF InOnePlace
    <3>3. Blocked(q)[q.waiting[id]] = Conditions(q, id)
      BY BlockedFacts, Zenon DEF InOnePlace
    <3>4. Conditions(t, id) = Conditions(r, id)
      BY <1>2, Zenon DEF Conditions
    <3>5. Conditions(r, id) = Conditions(q, id)
      BY <1>1, Zenon DEF SameBut
    <3> QED
      BY <3>1, <3>2, <3>3, <3>4, <3>5, Zenon
  <2>4. Blocked(t) = [p \in Range(t.waiting) |-> Blocked(t)[p]]
    BY <1>3, BlockedFacts, Zenon DEF InOnePlace
  <2>5. DOMAIN Blocked(q) = Range(q.waiting)
    BY BlockedFacts, Zenon DEF InOnePlace
  <2>6. Abstract!Without(Blocked(q), S) = [p \in Range(t.waiting) |-> Blocked(q)[p]]
    BY <2>2, <2>5, AbstractOperators, Zenon DEF Abstract!Without, Restrict
  <2> QED
    BY <2>3, <2>4, <2>6, Zenon
<1> QED
  BY <1>6, <1>7, Zenon DEF t

(* o is q with the processes of S made ready, ahead of the others.         *)
Woken(q, o, S) ==
  /\ \E x \in Abstract!Orders(S) : x \in Seq(Nat) /\ o.running = x \o q.running
  /\ Blocked(o) = Abstract!Without(Blocked(q), S)
  /\ Behind(o)

(* r is q without some entries of the ids.                                 *)
Drops(q, r, ids) ==
  /\ r.running = q.running /\ r.waiting = q.waiting /\ r.next_waitid = q.next_waitid
  /\ Range(r.wait_sleeping) \subseteq Range(q.wait_sleeping)
  /\ r.wait_process \subseteq q.wait_process /\ r.wait_event \subseteq q.wait_event
  /\ \A x \in Range(q.wait_sleeping) : x.id \notin ids => x \in Range(r.wait_sleeping)
  /\ \A x \in q.wait_process : x[2] \notin ids => x \in r.wait_process
  /\ \A x \in q.wait_event : x[2] \notin ids => x \in r.wait_event

LEMMA WokenByTrigger ==
  ASSUME NEW Ev, NEW q, IsQueues(q, Ev), InOnePlace(q), IdsFresh(q), Behind(q),
         NEW r, IsQueues(r, Ev), NEW ids, Drops(q, r, ids),
         NEW order \in TriggerOrders(q, ids), NEW S, Under(q, ids, S)
  PROVE  Woken(q, trigger_waits(r, order), S)
<1> DEFINE t == trigger_waits(r, order)
<1>1. ASSUME NEW id \in DOMAIN q.waiting \ ids
      PROVE  Conditions(r, id) = Conditions(q, id)
  <2>1. id \in Nat /\ id \notin ids
    BY Zenon DEF IsQueues
  <2>2. \A d : <<d, id>>[2] = id
    BY Zenon
  <2>3. \A x : x.id = id => (x \in Range(r.wait_sleeping) <=> x \in Range(q.wait_sleeping))
    BY <2>1, Zenon DEF Drops
  <2>4. /\ \A d : <<d, id>> \in r.wait_process <=> <<d, id>> \in q.wait_process
        /\ \A e : <<e, id>> \in r.wait_event <=> <<e, id>> \in q.wait_event
    BY <2>1, <2>2, Zenon DEF Drops
  <2>5. SameEntries(q, r, id)
    BY <2>3, <2>4, Zenon DEF SameEntries
  <2> QED
    BY <2>1, <2>5, SameConditions
<1>2. /\ \E x \in Abstract!Orders(S) : x \in Seq(Nat) /\ t.running = x \o q.running
      /\ Blocked(t) = Abstract!Without(Blocked(q), S)
  <2>1. SameBut(q, r, ids)
    BY <1>1, Zenon DEF SameBut, Drops
  <2> QED
    BY <2>1, TriggerRefines
<1>3. /\ t.next_waitid = q.next_waitid /\ t.wait_sleeping = r.wait_sleeping
      /\ t.wait_process = r.wait_process /\ t.wait_event = r.wait_event
  BY Zenon DEF trigger_waits, Drops
<1> HIDE DEF t
<1>4. Behind(t)
  BY <1>3, Zenon DEF Behind, Drops
<1> QED
  BY <1>2, <1>4, Zenon DEF Woken, t

LEMMA EventsRefine ==
  ASSUME NEW Ev, NEW q, IsQueues(q, Ev), InOnePlace(q), IdsFresh(q), Behind(q),
         NEW E, NEW order \in TriggerOrders(q, EventIds(q, E))
  PROVE  Woken(q, on_explicit_events(q, E, order), Abstract!WithEvent(Blocked(q), E))
<1> DEFINE events == {x \in q.wait_event : x[1] \notin E}
           r == [q EXCEPT !.wait_event = events]
           S == Abstract!WithEvent(Blocked(q), E)
<1>1. on_explicit_events(q, E, order) = trigger_waits(r, order)
  BY Zenon DEF on_explicit_events
<1>2. /\ events \subseteq q.wait_event /\ events \in SUBSET (Ev \X Nat)
      /\ \A x \in q.wait_event : x[2] \notin EventIds(q, E) => x \in events
  BY Zenon DEF IsQueues, EventIds
<1>3. S \subseteq Range(q.waiting)
  BY BlockedFacts, Zenon DEF Abstract!WithEvent, InOnePlace
<1>4. ASSUME NEW id \in DOMAIN q.waiting
      PROVE  q.waiting[id] \in S <=> id \in EventIds(q, E)
  <2>1. id \in Nat /\ q.waiting[id] \in Range(q.waiting)
    BY Zenon DEF IsQueues, Range
  <2>2. DOMAIN Blocked(q) = Range(q.waiting) /\ Blocked(q)[q.waiting[id]] = Conditions(q, id)
    BY BlockedFacts, Zenon DEF InOnePlace
  <2>3. \A e : e \in Conditions(q, id).events <=> <<e, id>> \in q.wait_event
    BY <2>1, ConditionFacts, Zenon DEF Listed
  <2>4. \A x \in q.wait_event : x = <<x[1], x[2]>>
    BY DEF IsQueues
  <2>5. \A e : <<e, id>>[1] = e /\ <<e, id>>[2] = id
    BY Zenon
  <2>6. id \in EventIds(q, E) <=> \E e \in E : <<e, id>> \in q.wait_event
    <3>1. id \in EventIds(q, E) <=> \E x \in q.wait_event : x[1] \in E /\ x[2] = id
      BY Zenon DEF EventIds
    <3> QED
      BY <2>4, <2>5, <3>1, ZenonT(30)
  <2>7. q.waiting[id] \in S <=> Conditions(q, id).events \cap E # {}
    BY <2>1, <2>2, Zenon DEF Abstract!WithEvent
  <2> QED
    BY <2>3, <2>6, <2>7, Zenon
<1> HIDE DEF events, S
<1>5. r = [running |-> q.running, waiting |-> q.waiting, next_waitid |-> q.next_waitid,
           wait_sleeping |-> q.wait_sleeping, wait_process |-> q.wait_process,
           wait_event |-> events]
  BY FieldUpdates, Zenon
<1> HIDE DEF r
<1>6. /\ IsQueues(r, Ev) /\ r.running = q.running /\ r.waiting = q.waiting
      /\ r.next_waitid = q.next_waitid /\ r.wait_sleeping = q.wait_sleeping
      /\ r.wait_process = q.wait_process /\ r.wait_event = events
  BY <1>2, <1>5, Zenon DEF IsQueues
<1>7. Drops(q, r, EventIds(q, E)) /\ Under(q, EventIds(q, E), S)
  BY <1>2, <1>3, <1>4, <1>6, Zenon DEF Drops, Under
<1> QED
  BY <1>1, <1>6, <1>7, WokenByTrigger, Zenon DEF S

LEMMA ProcessOverRefines ==
  ASSUME NEW Ev, NEW q, IsQueues(q, Ev), InOnePlace(q), IdsFresh(q), Behind(q),
         NEW pid, pid \notin Members(q),
         NEW order \in TriggerOrders(q, ProcessIds(q, pid))
  PROVE  Woken(q, on_process_over(q, pid, order), Abstract!WithProcess(Blocked(q), pid))
<1> DEFINE joins == {x \in q.wait_process : x[1] # pid}
           stopped == [q EXCEPT !.running = RemoveFirstPid(q.running, pid)]
           r == [stopped EXCEPT !.wait_process = {x \in stopped.wait_process : x[1] # pid}]
           S == Abstract!WithProcess(Blocked(q), pid)
<1>1. /\ joins \subseteq q.wait_process /\ joins \in SUBSET (Nat \X Nat)
      /\ \A x \in q.wait_process : x[2] \notin ProcessIds(q, pid) => x \in joins
  BY Zenon DEF IsQueues, ProcessIds
<1>2. stopped = q
  <2>1. RemoveFirstPid(q.running, pid) = q.running
    BY RemoveAbsent, Zenon DEF Members
  <2> QED
    BY <2>1, Zenon DEF IsQueues
<1>3. on_process_over(q, pid, order) = trigger_waits(r, order)
  BY Zenon DEF on_process_over
<1>4. r = [q EXCEPT !.wait_process = joins]
  BY <1>2, Zenon
<1>5. S \subseteq Range(q.waiting)
  BY BlockedFacts, Zenon DEF Abstract!WithProcess, InOnePlace
<1>6. ASSUME NEW id \in DOMAIN q.waiting
      PROVE  q.waiting[id] \in S <=> id \in ProcessIds(q, pid)
  <2>1. id \in Nat /\ q.waiting[id] \in Range(q.waiting)
    BY Zenon DEF IsQueues, Range
  <2>2. DOMAIN Blocked(q) = Range(q.waiting) /\ Blocked(q)[q.waiting[id]] = Conditions(q, id)
    BY BlockedFacts, Zenon DEF InOnePlace
  <2>3. \A d : d \in Conditions(q, id).processes <=> <<d, id>> \in q.wait_process
    BY <2>1, ConditionFacts, Zenon DEF Listed
  <2>4. \A x \in q.wait_process : x = <<x[1], x[2]>>
    BY DEF IsQueues
  <2>5. \A d : <<d, id>>[1] = d /\ <<d, id>>[2] = id
    BY Zenon
  <2>6. id \in ProcessIds(q, pid) <=> <<pid, id>> \in q.wait_process
    <3>1. id \in ProcessIds(q, pid) <=> \E x \in q.wait_process : x[1] = pid /\ x[2] = id
      BY Zenon DEF ProcessIds
    <3> QED
      BY <2>4, <2>5, <3>1, ZenonT(30)
  <2>7. q.waiting[id] \in S <=> pid \in Conditions(q, id).processes
    BY <2>1, <2>2, Zenon DEF Abstract!WithProcess
  <2> QED
    BY <2>3, <2>6, <2>7, Zenon
<1> HIDE DEF stopped, r, joins, S
<1>7. r = [running |-> q.running, waiting |-> q.waiting, next_waitid |-> q.next_waitid,
           wait_sleeping |-> q.wait_sleeping, wait_process |-> joins,
           wait_event |-> q.wait_event]
  BY <1>4, FieldUpdates, Zenon
<1>8. /\ IsQueues(r, Ev) /\ r.running = q.running /\ r.waiting = q.waiting
      /\ r.next_waitid = q.next_waitid /\ r.wait_sleeping = q.wait_sleeping
      /\ r.wait_process = joins /\ r.wait_event = q.wait_event
  BY <1>1, <1>7, Zenon DEF IsQueues
<1>9. Drops(q, r, ProcessIds(q, pid)) /\ Under(q, ProcessIds(q, pid), S)
  BY <1>1, <1>5, <1>6, <1>8, Zenon DEF Drops, Under
<1> QED
  BY <1>3, <1>8, <1>9, WokenByTrigger, Zenon DEF S

(* The timer interrupt wakes the processes with an instant that passed,    *)
(* and leaves no entry of that kind behind.                                *)
LEMMA TickRefines ==
  ASSUME NEW Ev, NEW q, IsQueues(q, Ev), InOnePlace(q), IdsFresh(q), Behind(q),
         SortedByTime(q.wait_sleeping), NEW order \in TickOrders(q)
  PROVE  /\ Woken(q, on_tick(q, order), Abstract!WithTime(Blocked(q)))
         /\ \A x \in Range(on_tick(q, order).wait_sleeping) : x.at # 0
<1> DEFINE v == q.wait_sleeping
           m == Len(v)
           n == Cardinality(Expired(q))
           left == [i \in 1 .. m - n |-> v[i + n]]
           r == [q EXCEPT !.wait_sleeping = left]
           S == Abstract!WithTime(Blocked(q))
<1>1. v \in Seq([at : Nat, id : Nat])
  BY Zenon DEF IsQueues
<1>2. /\ m \in Nat /\ DOMAIN v = 1 .. m
      /\ \A i \in 1 .. m : v[i] \in [at : Nat, id : Nat]
  BY <1>1, LenProperties, ElementOfSeq, Zenon
<1>3. Expired(q) \in SUBSET (1 .. m)
  BY <1>2, Zenon DEF Expired
<1>4. \A i \in Expired(q) : \A j \in 1 .. m : j < i => j \in Expired(q)
  <2> SUFFICES ASSUME NEW i \in Expired(q), NEW j \in 1 .. m, j < i PROVE j \in Expired(q)
    BY Zenon
  <2>1. v[i].at = 0 /\ i \in DOMAIN v /\ j \in DOMAIN v
    BY <1>2, Zenon DEF Expired
  <2>2. v[j].at <= 0
    BY <2>1, Zenon DEF SortedByTime
  <2>3. v[j].at \in Nat
    BY <1>2, Zenon
  <2>4. v[j].at = 0
    BY <2>2, <2>3
  <2> QED
    BY <2>1, <2>4, Zenon DEF Expired
<1>5. \A i \in 1 .. m : i \in Expired(q) <=> v[i].at = 0
  BY <1>2, Zenon DEF Expired
<1> HIDE DEF m
<1>6. n \in 0 .. m /\ Expired(q) = 1 .. n
  BY <1>2, <1>3, <1>4, PrefixIsInterval, Zenon
<1>7. on_tick(q, order) = trigger_waits(r, order)
  BY Zenon DEF on_tick, m
<1>8. order \in TriggerOrders(q, ExpiredIds(q))
  BY Zenon DEF TickOrders
<1>9. S \subseteq Range(q.waiting)
  BY BlockedFacts, Zenon DEF Abstract!WithTime, InOnePlace
<1>10. \A x : x \in Range(v) <=> \E i \in 1 .. m : v[i] = x
  BY <1>2, Zenon DEF Range
<1>11. ASSUME NEW id \in DOMAIN q.waiting
       PROVE  q.waiting[id] \in S <=> id \in ExpiredIds(q)
  <2>1. id \in Nat /\ q.waiting[id] \in Range(q.waiting)
    BY Zenon DEF IsQueues, Range
  <2>2. DOMAIN Blocked(q) = Range(q.waiting) /\ Blocked(q)[q.waiting[id]] = Conditions(q, id)
    BY BlockedFacts, Zenon DEF InOnePlace
  <2>3. 0 \in Conditions(q, id).times <=> \E x \in Range(v) : x.id = id /\ x.at = 0
    <3>1. \A t : t \in Conditions(q, id).times <=> \E x \in Range(v) : x.id = id /\ x.at = t
      <4>1. Listed(q, id)
        BY <2>1, ConditionFacts, Zenon
      <4> QED
        BY <4>1, Zenon DEF Listed
    <3> QED
      BY <3>1, Zenon
  <2>4. q.waiting[id] \in S <=> 0 \in Conditions(q, id).times
    BY <2>1, <2>2, Zenon DEF Abstract!WithTime
  <2>5. id \in ExpiredIds(q) <=> \E i \in Expired(q) : v[i].id = id
    BY Zenon DEF ExpiredIds
  <2>6. (\E x \in Range(v) : x.id = id /\ x.at = 0) <=> \E i \in Expired(q) : v[i].id = id
    <3>1. ASSUME NEW x \in Range(v), x.id = id, x.at = 0
          PROVE  \E i \in Expired(q) : v[i].id = id
      <4>1. PICK i \in 1 .. m : v[i] = x
        BY <1>10, Zenon
      <4> QED
        BY <1>5, <3>1, <4>1, Zenon
    <3>2. ASSUME NEW i \in Expired(q), v[i].id = id
          PROVE  \E x \in Range(v) : x.id = id /\ x.at = 0
      <4>1. i \in 1 .. m /\ v[i].at = 0
        BY <1>3, <1>5, Zenon
      <4>2. v[i] \in Range(v)
        BY <1>10, <4>1, Zenon
      <4> QED
        BY <3>2, <4>1, <4>2, Zenon
    <3> QED
      BY <3>1, <3>2, Zenon
  <2> QED
    BY <2>3, <2>4, <2>5, <2>6, Zenon
<1> HIDE DEF n, S
<1>12. DOMAIN left = 1 .. m - n /\ \A i \in 1 .. m - n : i + n \in 1 .. m /\ left[i] = v[i + n]
  BY <1>2, <1>6
<1>13. left \in Seq([at : Nat, id : Nat])
  <2>1. m - n \in Nat
    BY <1>2, <1>6
  <2>2. left \in [1 .. m - n -> [at : Nat, id : Nat]]
    BY <1>2, <1>12, Zenon
  <2> QED
    BY <2>1, <2>2, FunctionIsSeq, Zenon
<1> HIDE DEF left
<1>14. \A x \in Range(left) : x \in Range(v) /\ x.at # 0
  <2> SUFFICES ASSUME NEW x \in Range(left) PROVE x \in Range(v) /\ x.at # 0
    BY Zenon
  <2>1. PICK i \in 1 .. m - n : left[i] = x
    BY <1>12, Zenon DEF Range
  <2>2. i + n \in 1 .. m /\ i + n \notin 1 .. n
    BY <1>2, <1>6, <1>12
  <2> QED
    BY <1>5, <1>6, <1>10, <1>12, <2>1, <2>2, Zenon
<1>15. \A x \in Range(v) : x.id \notin ExpiredIds(q) => x \in Range(left)
  <2> SUFFICES ASSUME NEW x \in Range(v), x.id \notin ExpiredIds(q) PROVE x \in Range(left)
    BY Zenon
  <2>1. PICK i \in 1 .. m : v[i] = x
    BY <1>10, Zenon
  <2>2. i \notin Expired(q)
    BY <2>1, Zenon DEF ExpiredIds
  <2>3. i > n
    BY <1>2, <1>6, <2>2
  <2>4. i - n \in 1 .. m - n /\ (i - n) + n = i
    BY <1>2, <1>6, <2>3
  <2>5. left[i - n] = x /\ i - n \in DOMAIN left
    BY <1>12, <2>1, <2>4, Zenon
  <2> QED
    BY <2>5, Zenon DEF Range
<1> HIDE DEF v
<1>16. r = [running |-> q.running, waiting |-> q.waiting, next_waitid |-> q.next_waitid,
            wait_sleeping |-> left, wait_process |-> q.wait_process,
            wait_event |-> q.wait_event]
  BY FieldUpdates, Zenon
<1> HIDE DEF r
<1>17. /\ IsQueues(r, Ev) /\ r.running = q.running /\ r.waiting = q.waiting
       /\ r.next_waitid = q.next_waitid /\ r.wait_sleeping = left
       /\ r.wait_process = q.wait_process /\ r.wait_event = q.wait_event
  BY <1>13, <1>16, Zenon DEF IsQueues
<1>18. Drops(q, r, ExpiredIds(q)) /\ Under(q, ExpiredIds(q), S)
  BY <1>9, <1>11, <1>14, <1>15, <1>17, Zenon DEF Drops, Under, v
<1>19. Woken(q, trigger_waits(r, order), S)
  BY <1>8, <1>17, <1>18, WokenByTrigger, Zenon
<1>20. trigger_waits(r, order).wait_sleeping = left
  BY <1>17, Zenon DEF trigger_waits
<1> QED
  BY <1>7, <1>14, <1>19, <1>20, Zenon DEF S

(* A process that gives up the processor is ready, or blocked on what is   *)
(* left of its conditions.                                                 *)
Given(q, g, pid, n) ==
  /\ Behind(g)
  /\ n = WaitForNone => /\ g.running = Append(q.running, pid) /\ Blocked(g) = Blocked(q)
                        /\ g.wait_sleeping = q.wait_sleeping
  /\ n # WaitForNone => /\ g.running = q.running
                        /\ Blocked(g) = [p \in DOMAIN Blocked(q) \cup {pid} |->
                                           IF p = pid THEN n ELSE Blocked(q)[p]]
                        /\ \A x \in Range(g.wait_sleeping) :
                             x \in Range(q.wait_sleeping) \/ x.id \in DOMAIN g.waiting

LEMMA GiveRefines ==
  ASSUME NEW Ev, NEW q, IsQueues(q, Ev), InOnePlace(q), IdsFresh(q), Behind(q),
         NEW pid \in Nat, pid \notin Members(q), NEW w, IsWaitFor(w, Ev)
  PROVE  Given(q, give(q, pid, w), pid, reduce_queues(w, q, pid))
<1> DEFINE s == reduce_queues(w, q, pid)
           g == give(q, pid, w)
<1>1. IsQueues(g, Ev) /\ InOnePlace(g)
  BY GiveFacts, Zenon
<1>2. CASE s = WaitForNone
  <2>1. g = [q EXCEPT !.running = Append(q.running, pid)]
    BY <1>2, Zenon DEF give
  <2> DEFINE a == Append(q.running, pid)
  <2> HIDE DEF a, s, g
  <2>2. g = [running |-> a, waiting |-> q.waiting, next_waitid |-> q.next_waitid,
             wait_sleeping |-> q.wait_sleeping, wait_process |-> q.wait_process,
             wait_event |-> q.wait_event]
    BY <2>1, FieldUpdates, Zenon DEF a
  <2>3. /\ g.running = a /\ g.waiting = q.waiting /\ g.wait_sleeping = q.wait_sleeping
        /\ g.wait_process = q.wait_process /\ g.wait_event = q.wait_event
        /\ g.next_waitid = q.next_waitid
    BY ONLY <2>2, Zenon
  <2>4. \A id : Conditions(g, id) = Conditions(q, id)
    BY <2>3, Zenon DEF Conditions
  <2>5. Blocked(g) = Blocked(q)
    BY <2>3, <2>4, SameBlocked, Zenon DEF InOnePlace
  <2>6. Behind(g)
    BY <2>3, Zenon DEF Behind
  <2> QED
    BY <1>2, <2>3, <2>5, <2>6, Zenon DEF Given, a, s, g
<1>3. CASE s # WaitForNone
  <2> DEFINE id == q.next_waitid
             v == q.wait_sleeping
             sleeping == IF s.times = {} THEN v ELSE InsertSleeper(v, Earliest(s.times), id)
  <2>1. g = Enqueue(q, pid, s)
    BY <1>3, Zenon DEF give
  <2>2. /\ g.running = q.running
        /\ g.waiting = [x \in DOMAIN q.waiting \cup {id} |->
                          IF x = id THEN pid ELSE q.waiting[x]]
        /\ g.next_waitid = id + 1
        /\ g.wait_sleeping = sleeping
        /\ g.wait_process = q.wait_process \cup (s.processes \X {id})
        /\ g.wait_event = q.wait_event \cup (s.events \X {id})
    BY <2>1 DEF Enqueue
  <2>3. s = [times     |-> IF w.times = {} THEN {} ELSE {Earliest(w.times)},
             processes |-> w.processes,
             events    |-> w.events]
    <3>1. s = reduce(w)
      BY <1>3, Zenon DEF reduce_queues
    <3> QED
      BY <3>1, Zenon DEF IsWaitFor, reduce
  <2>4. IsWaitFor(s, Ev)
    BY ReduceType, Zenon
  <2>5. s.times = {} \/ \E t \in Nat : s.times = {t}
    <3>1. w.times # {} => Earliest(w.times) \in Nat
      BY EarliestFacts, Zenon DEF IsWaitFor
    <3>2. s.times = IF w.times = {} THEN {} ELSE {Earliest(w.times)}
      BY <2>3
    <3> HIDE DEF s
    <3>3. CASE w.times = {}
      BY <3>2, <3>3, Zenon
    <3>4. CASE w.times # {}
      BY <3>1, <3>2, <3>4, Zenon
    <3> QED
      BY <3>3, <3>4, Zenon
  <2>6. /\ id \in Nat /\ v \in Seq([at : Nat, id : Nat])
    BY Zenon DEF IsQueues
  <2>7. Unused(q, id)
    BY NextIdUnused, Zenon
  <2> HIDE DEF s, g
  <2>8. /\ Range(v) \subseteq Range(sleeping)
        /\ \A x \in Range(sleeping) : x \in Range(v) \/ (x.id = id /\ x.at \in s.times)
        /\ \A t \in s.times : \E x \in Range(sleeping) : x.id = id /\ x.at = t
    <3>1. CASE s.times = {}
      BY <3>1, Zenon
    <3>2. CASE s.times # {}
      <4>1. PICK t \in Nat : s.times = {t}
        BY <2>5, <3>2, Zenon
      <4>2. Earliest({t}) = t
        <5>1. {t} \subseteq Nat /\ {t} # {}
          BY Zenon
        <5> QED
          BY <5>1, EarliestFacts, Zenon
      <4>3. sleeping = InsertSleeper(v, t, id)
        BY <4>1, <4>2, <3>2, Zenon
      <4> HIDE DEF sleeping, v, id
      <4>4. Range(sleeping) = Range(v) \cup {[at |-> t, id |-> id]}
        <5>1. Range(InsertSleeper(v, t, id)) = Range(v) \cup {[at |-> t, id |-> id]}
          BY <2>6, InsertSleeperRange, Zenon
        <5> QED
          BY <4>3, <5>1, Zenon
      <4>5. [at |-> t, id |-> id].id = id /\ [at |-> t, id |-> id].at = t
        BY Zenon
      <4> QED
        BY <4>1, <4>4, <4>5, Zenon
    <3> QED
      BY <3>1, <3>2, Zenon
  <2> HIDE DEF sleeping, v
  <2>9. /\ \A d, x : <<d, x>> \in g.wait_process <=>
                       <<d, x>> \in q.wait_process \/ (d \in s.processes /\ x = id)
        /\ \A e, x : <<e, x>> \in g.wait_event <=>
                       <<e, x>> \in q.wait_event \/ (e \in s.events /\ x = id)
    BY <2>2, Zenon
  <2>10. /\ DOMAIN g.waiting = DOMAIN q.waiting \cup {id} /\ g.waiting[id] = pid
         /\ \A x \in DOMAIN q.waiting : g.waiting[x] = q.waiting[x]
    BY <2>2, <2>7, Zenon DEF Unused
  <2>11. Enqueued(q, g, pid, id, s)
    BY <2>2, <2>8, <2>9, <2>10, Zenon DEF Enqueued, v
  <2>12. Blocked(g) = [p \in DOMAIN Blocked(q) \cup {pid} |-> IF p = pid THEN s ELSE Blocked(q)[p]]
    <3>1. pid \notin Range(q.waiting)
      BY Zenon DEF Members
    <3>2. IsQueues(g, Ev) /\ InOnePlace(g)
      BY <1>1, Zenon DEF g
    <3> HIDE DEF id
    <3> QED
      BY <2>4, <2>7, <2>11, <3>1, <3>2, EnqueuedBlocked
  <2>13. Behind(g)
    BY <1>1, <2>11, EnqueuedBehind, Zenon DEF g
  <2>14. \A x \in Range(g.wait_sleeping) : x \in Range(q.wait_sleeping) \/ x.id \in DOMAIN g.waiting
    BY <2>11, Zenon DEF Enqueued
  <2> QED
    BY <1>3, <2>2, <2>12, <2>13, <2>14, Zenon DEF Given, s, g
<1> QED
  BY <1>2, <1>3, Zenon

-----------------------------------------------------------------------------
(* The steps of the scheduler                                              *)

(* No instant that passed is left in the queue of sleepers unless its      *)
(* process still waits for it.                                             *)
PassedIsLive(q) == \A x \in Range(q.wait_sleeping) : x.at = 0 => x.id \in DOMAIN q.waiting

(* The timer is armed as the abstract scheduler arms it: in time for all   *)
(* that is due, and sooner only for an entry that stayed behind.           *)
LEMMA ArmTimerRefines ==
  ASSUME NEW old, SetDeadline(old), Sound(queues'), SortedByTime(queues'.wait_sleeping),
         running_timeslice_end' \in Nat \cup {None}, PassedIsLive(queues')
  PROVE  Abstract!ArmTimer(old)
<1> DEFINE v == queues'.wait_sleeping
           slice == running_timeslice_end'
           wake == next_wakeup(queues', None)
           set == {wake, slice} \ {None}
           times == UNION {Blocked(queues')[p].times : p \in DOMAIN Blocked(queues')}
           ends == (times \cup {slice}) \ {None}
           M == MIN_EXEC_TIME
<1>1. None \notin Nat
  BY SchedulerAssumption, Zenon
<1>2. \A t : t \in times <=> \E x \in Range(v) : x.id \in DOMAIN queues'.waiting /\ x.at = t
  BY BlockedTimes, Zenon DEF Sound
<1>3. /\ v = <<>> => Range(v) = {} /\ wake = None
      /\ v # <<>> => /\ v[1] \in Range(v) /\ v[1].at \in Nat /\ wake = v[1].at
                     /\ \A x \in Range(v) : x.at \in Nat /\ v[1].at <= x.at
  <2>1. v \in Seq([at : Nat, id : Nat])
    BY Zenon DEF Sound, IsQueues
  <2> QED
    BY <2>1, FirstSleeper, Zenon DEF next_wakeup
<1>4. deadline' = IF set = {} THEN old ELSE Earliest(set \cup {M})
  <2>1. set # {} => Earliest(set \cup {M}) # None
    <3>1. next_tick(queues', slice) \in Nat \cup {None}
      BY NextTickType, Zenon DEF Sound
    <3>2. set \cup {M} \subseteq Nat
      BY <1>3, SchedulerAssumption, Zenon
    <3>3. Earliest(set \cup {M}) \in Nat
      BY <3>2, EarliestFacts, Zenon
    <3> QED
      BY <1>1, <3>3, Zenon
  <2> QED
    BY <2>1, Zenon DEF SetDeadline, next_tick
<1>5. Abstract!ArmTimer(old) <=>
        deadline' \in IF ends = {} THEN {old} \cup 1 .. M
                      ELSE {Earliest(ends \cup {M})} \cup 1 .. Earliest(ends \cup {M})
  BY AbstractOperators, Zenon DEF Abstract!ArmTimer
<1>6. slice \in Nat \cup {None}
  BY Zenon
<1> HIDE DEF v, slice, wake, times
<1>7. /\ wake \in Nat \cup {None} /\ times \in SUBSET Nat
      /\ wake = None => times = {}
      /\ \A t \in times : wake <= t
  BY <1>1, <1>2, <1>3, Zenon
<1>8. wake = 0 => 0 \in times
  <2> SUFFICES ASSUME wake = 0 PROVE 0 \in times
    BY Zenon
  <2>1. wake # None
    BY <1>1
  <2>2. v[1] \in Range(v) /\ v[1].at = 0
    BY <1>3, <2>1, Zenon
  <2>3. v[1].id \in DOMAIN queues'.waiting
    BY <2>2, Zenon DEF PassedIsLive, v
  <2> QED
    BY <1>2, <2>2, <2>3, Zenon
<1>9. CASE set = {}
  <2>1. wake = None /\ slice = None
    BY <1>9, Zenon
  <2>2. ends = {}
    BY <1>7, <2>1, Zenon
  <2> QED
    BY <1>4, <1>5, <1>9, <2>2, Zenon
<1>10. CASE set # {}
  <2>1. deadline' = Earliest(set \cup {M})
    BY <1>4, <1>10, Zenon
  <2>2. Earliest(set \cup {M}) \in
          IF ends = {} THEN 1 .. M
          ELSE {Earliest(ends \cup {M})} \cup 1 .. Earliest(ends \cup {M})
    BY <1>6, <1>7, <1>8, <1>10, TimerValue, Zenon
  <2> QED
    BY <1>5, <2>1, <2>2, Zenon
<1> QED
  BY <1>9, <1>10, Zenon

(* The process at the head of the queue runs next.                         *)
LEMMA SwitchToNextRefines ==
  ASSUME NEW q, Sound(q), Behind(q), SwitchToNext(q)
  PROVE  /\ Abstract!RunNext(q.running)
         /\ Blocked(queues') = Blocked(q) /\ Behind(queues')
         /\ SameWaits(q)
<1>1. SameWaits(q)
  BY SwitchToNextKeepsWaits, Zenon DEF Sound
<1>2. /\ queues'.next_waitid = q.next_waitid
      /\ q.running = <<>> => queues'.running = q.running
      /\ q.running # <<>> => queues'.running = Tail(q.running)
  <2>1. CASE q.running = <<>>
    BY <2>1, Zenon DEF SwitchToNext
  <2>2. CASE q.running # <<>>
    <3> DEFINE t == Tail(q.running)
    <3>1. queues' = [q EXCEPT !.running = t]
      BY <2>2, Zenon DEF SwitchToNext
    <3> HIDE DEF t
    <3>2. queues' = [running |-> t, waiting |-> q.waiting, next_waitid |-> q.next_waitid,
                     wait_sleeping |-> q.wait_sleeping, wait_process |-> q.wait_process,
                     wait_event |-> q.wait_event]
      BY <3>1, FieldUpdates, Zenon DEF Sound
    <3>3. queues'.next_waitid = q.next_waitid /\ queues'.running = t
      BY ONLY <3>2, Zenon
    <3> QED
      BY <2>2, <3>3, Zenon DEF t
  <2> QED
    BY <2>1, <2>2, Zenon
<1>3. Abstract!RunNext(q.running)
  BY <1>2, Zenon DEF Abstract!RunNext, SwitchToNext
<1>4. \A id : Conditions(queues', id) = Conditions(q, id)
  BY <1>1, Zenon DEF Conditions, SameWaits
<1>5. Blocked(queues') = Blocked(q)
  BY <1>1, <1>4, SameBlocked, Zenon DEF SameWaits, Sound, InOnePlace
<1>6. Behind(queues')
  BY <1>1, <1>2, Zenon DEF Behind, SameWaits
<1> QED
  BY <1>1, <1>3, <1>5, <1>6, Zenon

(* What a process has to wait for when the queues hold the processes they  *)
(* held before the step.                                                   *)
LEMMA NeedRefines ==
  ASSUME Sound(queues), NEW q, Members(q) = Members(queues), NEW w
  PROVE  Abstract!Need(w, running) = reduce_queues(w, q, running)
<1>1. DOMAIN Blocked(queues) = Range(queues.waiting)
  BY BlockedFacts, Zenon DEF Sound, InOnePlace
<1>2. \A d : Abstract!Exists(d) <=> process_exists(q, d)
  BY <1>1, AbstractOperators, Zenon DEF Abstract!Exists, process_exists, Members
<1> QED
  BY <1>2, AbstractOperators, Zenon DEF Abstract!Need, reduce_queues

(* The running process gives up the processor.                             *)
LEMMA LeaveRefines ==
  ASSUME Sound(queues), NEW q, Sound(q), Behind(q), Members(q) = Members(queues),
         running \in Nat, running \notin Members(queues), running # None,
         NEW w, IsWaitFor(w, Events), Switch(q, w)
  PROVE  /\ Abstract!Leave(q.running, Blocked(q), w)
         /\ Behind(queues')
         /\ \A x \in Range(queues'.wait_sleeping) :
              x \in Range(q.wait_sleeping) \/ x.id \in DOMAIN queues'.waiting
<1> DEFINE g == give(q, running, w)
           n == reduce_queues(w, q, running)
<1>1. SwitchToNext(g)
  BY Zenon DEF Switch
<1>2. Sound(g)
  BY GiveFacts, Zenon DEF Sound
<1>3. Given(q, g, running, n)
  BY GiveRefines, Zenon DEF Sound
<1>4. Abstract!Need(w, running) = n /\ Abstract!WaitForNone = WaitForNone
  BY NeedRefines, AbstractOperators, Zenon
<1> HIDE DEF g, n
<1>5. /\ Abstract!RunNext(g.running) /\ Blocked(queues') = Blocked(g) /\ Behind(queues')
      /\ SameWaits(g)
  BY <1>1, <1>2, <1>3, SwitchToNextRefines, Zenon DEF Given
<1>6. CASE n = WaitForNone
  <2>1. /\ g.running = Append(q.running, running) /\ Blocked(g) = Blocked(q)
        /\ g.wait_sleeping = q.wait_sleeping
    BY <1>3, <1>6, Zenon DEF Given
  <2>2. Abstract!Leave(q.running, Blocked(q), w)
    BY <1>4, <1>5, <1>6, <2>1, Zenon DEF Abstract!Leave
  <2> QED
    BY <1>5, <2>1, <2>2, Zenon DEF SameWaits
<1>7. CASE n # WaitForNone
  <2>1. /\ g.running = q.running
        /\ Blocked(g) = [p \in DOMAIN Blocked(q) \cup {running} |->
                           IF p = running THEN n ELSE Blocked(q)[p]]
        /\ \A x \in Range(g.wait_sleeping) :
             x \in Range(q.wait_sleeping) \/ x.id \in DOMAIN g.waiting
    BY <1>3, <1>7, Zenon DEF Given
  <2>2. Abstract!Leave(q.running, Blocked(q), w)
    BY <1>4, <1>5, <1>7, <2>1, Zenon DEF Abstract!Leave
  <2> QED
    BY <1>5, <2>1, <2>2, Zenon DEF SameWaits
<1> QED
  BY <1>6, <1>7, Zenon

-----------------------------------------------------------------------------
(* What is known of a state of the scheduler.                              *)
RefInv == SchedIInv /\ WakeupsPending /\ Behind(queues)

LEMMA RefFacts ==
  ASSUME RefInv
  PROVE  /\ Sound(queues) /\ Behind(queues)
         /\ running \in Nat \cup {None} /\ running \notin Members(queues)
         /\ SortedByTime(queues.wait_sleeping)
         /\ deadline \in Nat \cup {None} /\ TimerCoversSleepers
         /\ processes = Members(queues) \cup ({running} \ {None})
         /\ next_pid \in Nat /\ \A p \in processes : p < next_pid
BY Zenon DEF RefInv, SchedIInv, SchedTypeOK, NeverTwice, NoneLost, Sound,
             WakeupsPending, SleepersSorted, SortedByTime

(* Unless the timer interrupt is pending, no sleeper is due.               *)
LEMMA NothingDue ==
  ASSUME RefInv, ~TimerPending
  PROVE  \A x \in Range(queues.wait_sleeping) : x.at # 0
<1> DEFINE v == queues.wait_sleeping
<1>1. v \in Seq([at : Nat, id : Nat]) /\ SortedByTime(v)
  BY RefFacts, Zenon DEF Sound, IsQueues
<1>2. /\ v = <<>> => Range(v) = {}
      /\ v # <<>> => /\ v[1] \in Range(v) /\ v[1].at \in Nat
                     /\ \A x \in Range(v) : x.at \in Nat /\ v[1].at <= x.at
  BY <1>1, FirstSleeper, Zenon
<1> SUFFICES ASSUME NEW x \in Range(v) PROVE x.at # 0
  BY Zenon
<1>3. /\ v # <<>> /\ x.at \in Nat /\ v[1].at <= x.at /\ v[1].at \in Nat
  BY <1>2, Zenon
<1>4. deadline # None /\ deadline <= v[1].at /\ deadline # 0 /\ deadline \in Nat
  BY <1>3, RefFacts, Zenon DEF TimerCoversSleepers, TimerPending
<1> HIDE DEF v
<1> QED
  BY <1>3, <1>4

LEMMA SyscallSwitchRefines ==
  ASSUME RefInv, NEW E, NEW w \in Waits, SyscallSwitch(E, w), Sound(queues'),
         running_timeslice_end' \in Nat \cup {None}, SortedByTime(queues'.wait_sleeping)
  PROVE  Abstract!AbsSyscallSwitch(E, w) /\ Behind(queues')
<1>1. /\ ~TimerPending /\ running # None /\ SetDeadline(deadline) /\ next_pid' = next_pid
  BY Zenon DEF SyscallSwitch
<1>2. PICK order \in TriggerOrders(queues, EventIds(queues, E)) :
        Switch(on_explicit_events(queues, E, order), w)
  BY Zenon DEF SyscallSwitch
<1> DEFINE q == on_explicit_events(queues, E, order)
           S == Abstract!WithEvent(Blocked(queues), E)
<1>3. Sound(queues) /\ Behind(queues) /\ running \in Nat /\ running \notin Members(queues)
  BY <1>1, RefFacts, Zenon
<1>4. Sound(q) /\ Members(q) = Members(queues)
  BY <1>3, EventsFacts, Zenon DEF Sound
<1>5. Woken(queues, q, S)
  BY <1>3, EventsRefine, Zenon DEF Sound
<1>6. q.wait_sleeping = queues.wait_sleeping
  BY <1>3, Zenon DEF on_explicit_events, trigger_waits, Sound, IsQueues
<1> HIDE DEF q, S
<1>7. Switch(q, w) /\ IsWaitFor(w, Events)
  BY <1>2, SchedulerAssumption, Zenon DEF q
<1>8. /\ Abstract!Leave(q.running, Blocked(q), w)
      /\ Behind(queues')
      /\ \A x \in Range(queues'.wait_sleeping) :
           x \in Range(q.wait_sleeping) \/ x.id \in DOMAIN queues'.waiting
  BY <1>1, <1>3, <1>4, <1>5, <1>7, LeaveRefines, Zenon DEF Woken
<1>9. PICK x \in Abstract!Orders(S) : q.running = x \o queues.running
  BY <1>5, Zenon DEF Woken
<1>10. Blocked(q) = Abstract!Without(Blocked(queues), S)
  BY <1>5, Zenon DEF Woken
<1>11. PassedIsLive(queues')
  BY <1>1, <1>6, <1>8, NothingDue, Zenon DEF PassedIsLive
<1>12. Abstract!ArmTimer(deadline)
  BY <1>1, <1>11, ArmTimerRefines, Zenon
<1>13. Abstract!Leave(x \o queues.running, Abstract!Without(Blocked(queues), S), w)
  BY <1>8, <1>9, <1>10, Zenon
<1> QED
  BY <1>1, <1>8, <1>9, <1>12, <1>13, Zenon DEF Abstract!AbsSyscallSwitch, S, TimerPending

LEMMA RepeatSwitchRefines ==
  ASSUME RefInv, NEW w \in Waits, RepeatSwitch(w)
  PROVE  Abstract!AbsRepeatSwitch(w) /\ Behind(queues')
<1>1. /\ running # None /\ w.times = {} /\ w.processes = {} /\ w.events # {}
      /\ Switch(queues, w) /\ next_pid' = next_pid /\ deadline' = deadline
  BY Zenon DEF RepeatSwitch
<1>2. Sound(queues) /\ Behind(queues) /\ running \in Nat /\ running \notin Members(queues)
  BY <1>1, RefFacts, Zenon
<1>3. Abstract!Leave(queues.running, Blocked(queues), w) /\ Behind(queues')
  BY <1>1, <1>2, LeaveRefines, SchedulerAssumption, Zenon
<1> QED
  BY <1>1, <1>3, Zenon DEF Abstract!AbsRepeatSwitch

LEMMA TriggerEventsRefines ==
  ASSUME RefInv, NEW E, TriggerEvents(E)
  PROVE  Abstract!AbsTriggerEvents(E) /\ Behind(queues')
<1>1. ~TimerPending /\ UNCHANGED <<running, running_timeslice_end, next_pid, deadline>>
  BY Zenon DEF TriggerEvents
<1>2. PICK order \in TriggerOrders(queues, EventIds(queues, E)) :
        queues' = on_explicit_events(queues, E, order)
  BY Zenon DEF TriggerEvents
<1>3. Sound(queues) /\ Behind(queues)
  BY RefFacts, Zenon
<1>4. Woken(queues, queues', Abstract!WithEvent(Blocked(queues), E))
  BY <1>2, <1>3, EventsRefine, Zenon DEF Sound
<1> QED
  BY <1>1, <1>4, Zenon DEF Abstract!AbsTriggerEvents, Woken, TimerPending

LEMMA TerminateRefines ==
  ASSUME RefInv, NEW E, Terminate(E)
  PROVE  Abstract!AbsTerminate(E) /\ Behind(queues')
<1>1. running # None /\ next_pid' = next_pid /\ deadline' = deadline
  BY Zenon DEF Terminate
<1>2. PICK order \in TriggerOrders(queues, ProcessIds(queues, running)) :
        \E order2 \in TriggerOrders(on_process_over(queues, running, order),
                        EventIds(on_process_over(queues, running, order), E)) :
          SwitchToNext(on_explicit_events(
                         on_process_over(queues, running, order), E, order2))
  BY Zenon DEF Terminate
<1> DEFINE q == on_process_over(queues, running, order)
           joined == Abstract!WithProcess(Blocked(queues), running)
<1>3. PICK order2 \in TriggerOrders(q, EventIds(q, E)) :
        SwitchToNext(on_explicit_events(q, E, order2))
  BY <1>2, Zenon
<1>4. Sound(queues) /\ Behind(queues) /\ running \notin Members(queues)
  BY RefFacts, Zenon
<1>5. Sound(q)
  BY <1>4, ProcessOverFacts, Zenon DEF Sound
<1>6. Woken(queues, q, joined)
  BY <1>4, ProcessOverRefines, Zenon DEF Sound
<1> HIDE DEF q, joined
<1> DEFINE r == on_explicit_events(q, E, order2)
           told == Abstract!WithEvent(Blocked(q), E)
<1>7. Sound(r)
  BY <1>5, EventsFacts, Zenon DEF Sound
<1>8. Woken(q, r, told)
  BY <1>5, <1>6, EventsRefine, Zenon DEF Sound, Woken
<1> HIDE DEF r
<1>9. Abstract!RunNext(r.running) /\ Blocked(queues') = Blocked(r) /\ Behind(queues')
  BY <1>3, <1>7, <1>8, SwitchToNextRefines, Zenon DEF Woken, r
<1>10. PICK o \in Abstract!Orders(joined) : o \in Seq(Nat) /\ q.running = o \o queues.running
  BY <1>6, Zenon DEF Woken
<1>11. PICK o2 \in Abstract!Orders(told) : o2 \in Seq(Nat) /\ r.running = o2 \o q.running
  BY <1>8, Zenon DEF Woken
<1>12. r.running = o2 \o o \o queues.running
  <2>1. queues.running \in Seq(Nat)
    BY <1>4, Zenon DEF Sound, IsQueues
  <2>2. (o2 \o o) \o queues.running = o2 \o (o \o queues.running)
    <3>1. ASSUME NEW a \in Seq(Nat), NEW b \in Seq(Nat), NEW c \in Seq(Nat)
          PROVE  (a \o b) \o c = a \o (b \o c)
      BY ONLY a \in Seq(Nat), b \in Seq(Nat), c \in Seq(Nat), SMTT(30)
    <3> QED
      BY <1>10, <1>11, <2>1, <3>1, Zenon
  <2> QED
    BY <1>10, <1>11, <2>2, Zenon
<1>13. Abstract!RunNext(o2 \o o \o queues.running)
  BY <1>9, <1>12, Zenon
<1>14. /\ Blocked(q) = Abstract!Without(Blocked(queues), joined)
       /\ Blocked(queues') = Abstract!Without(Blocked(q), told)
  BY <1>6, <1>8, <1>9, Zenon DEF Woken
<1>15. Abstract!AbsTerminate(E)
  BY <1>1, <1>13, <1>14, Zenon DEF Abstract!AbsTerminate, joined
<1> QED
  BY <1>9, <1>15, Zenon

LEMMA TickStepRefines ==
  ASSUME RefInv, Tick, Sound(queues'), running_timeslice_end' \in Nat \cup {None},
         SortedByTime(queues'.wait_sleeping)
  PROVE  Abstract!AbsTick /\ Behind(queues')
<1>1. TimerPending /\ SetDeadline(None) /\ next_pid' = next_pid
  BY Zenon DEF Tick
<1>2. PICK order \in TickOrders(queues) : Switch(on_tick(queues, order), WaitForNone)
  BY Zenon DEF Tick
<1> DEFINE q == on_tick(queues, order)
           S == Abstract!WithTime(Blocked(queues))
           g == IF running = None THEN q ELSE give(q, running, WaitForNone)
<1>3. /\ Sound(queues) /\ Behind(queues) /\ running \in Nat \cup {None}
      /\ running \notin Members(queues) /\ SortedByTime(queues.wait_sleeping)
  BY RefFacts, Zenon
<1>4. Sound(q) /\ Members(q) = Members(queues)
  BY <1>3, TickFacts, Zenon DEF Sound
<1>5. Woken(queues, q, S) /\ \A x \in Range(q.wait_sleeping) : x.at # 0
  BY <1>3, TickRefines, Zenon DEF Sound
<1> HIDE DEF q, S
<1>6. SwitchToNext(g)
  BY <1>2, Zenon DEF Switch, q
<1>7. /\ Sound(g) /\ Behind(g) /\ Blocked(g) = Blocked(q) /\ g.wait_sleeping = q.wait_sleeping
      /\ g.running = IF running = None THEN q.running ELSE Append(q.running, running)
  <2>1. CASE running = None
    BY <1>4, <1>5, <2>1, Zenon DEF Woken
  <2>2. CASE running # None
    <3> DEFINE h == give(q, running, WaitForNone)
    <3>1. running \in Nat /\ running \notin Members(q)
      BY <1>3, <1>4, <2>2, Zenon
    <3>2. Sound(h)
      BY <1>4, <3>1, NothingToWaitFor, GiveFacts, Zenon DEF Sound
    <3>3. Given(q, h, running, reduce_queues(WaitForNone, q, running))
      BY <1>4, <1>5, <3>1, NothingToWaitFor, GiveRefines, Zenon DEF Sound, Woken
    <3>4. g = h
      BY <2>2, Zenon
    <3> HIDE DEF h, g
    <3>5. Given(q, h, running, WaitForNone)
      BY <3>3, NothingToWaitFor, Zenon
    <3> QED
      BY <2>2, <3>2, <3>4, <3>5, Zenon DEF Given
  <2> QED
    BY <2>1, <2>2, Zenon
<1> HIDE DEF g
<1>8. /\ Abstract!RunNext(g.running) /\ Blocked(queues') = Blocked(g) /\ Behind(queues')
      /\ queues'.wait_sleeping = g.wait_sleeping
  BY <1>6, <1>7, SwitchToNextRefines, Zenon DEF SameWaits
<1>9. PICK x \in Abstract!Orders(S) : q.running = x \o queues.running
  BY <1>5, Zenon DEF Woken
<1>10. PassedIsLive(queues')
  BY <1>5, <1>7, <1>8, Zenon DEF PassedIsLive
<1>11. Abstract!ArmTimer(None)
  BY <1>1, <1>10, ArmTimerRefines, Zenon
<1>12. Abstract!RunNext(IF running = None THEN x \o queues.running
                        ELSE Append(x \o queues.running, running))
  BY <1>7, <1>8, <1>9, Zenon
<1>13. Blocked(queues') = Abstract!Without(Blocked(queues), S)
  BY <1>5, <1>7, <1>8, Zenon DEF Woken
<1>14. Abstract!AbsTick
  BY <1>1, <1>9, <1>11, <1>12, <1>13, Zenon DEF Abstract!AbsTick, TimerPending, S
<1> QED
  BY <1>8, <1>14, Zenon

LEMMA SpawnRefines ==
  ASSUME RefInv, NEW ok \in BOOLEAN, Spawn(ok)
  PROVE  Abstract!AbsSpawn(ok) /\ Behind(queues')
<1>1. /\ ~TimerPending /\ running # None /\ next_pid <= MaxPid /\ next_pid' = next_pid + 1
      /\ UNCHANGED <<running, running_timeslice_end, deadline>>
  BY Zenon DEF Spawn
<1>2. Sound(queues) /\ Behind(queues)
  BY RefFacts, Zenon
<1>3. /\ queues'.running = IF ok THEN Append(queues.running, next_pid) ELSE queues.running
      /\ Blocked(queues') = Blocked(queues) /\ Behind(queues')
  <2>1. CASE ok
    <3> DEFINE g == give(queues, next_pid, WaitForNone)
    <3>1. queues' = g
      BY <2>1, Zenon DEF Spawn
    <3>2. next_pid \in Nat /\ next_pid \notin Members(queues)
      <4>1. next_pid \in Nat /\ Members(queues) \subseteq processes /\ \A p \in processes : p < next_pid
        BY RefFacts, Zenon
      <4> QED
        BY <4>1
    <3>3. Given(queues, g, next_pid, reduce_queues(WaitForNone, queues, next_pid))
      BY <1>2, <3>2, NothingToWaitFor, GiveRefines, Zenon DEF Sound
    <3> HIDE DEF g
    <3>4. Given(queues, g, next_pid, WaitForNone)
      BY <3>3, NothingToWaitFor, Zenon
    <3> QED
      BY <2>1, <3>1, <3>4, Zenon DEF Given
  <2>2. CASE ~ok
    BY <1>2, <2>2, Zenon DEF Spawn
  <2> QED
    BY <2>1, <2>2, Zenon
<1> QED
  BY <1>1, <1>3, Zenon DEF Abstract!AbsSpawn, TimerPending

LEMMA DynamicIrqRefines ==
  ASSUME RefInv, NEW E, DynamicIrq(E)
  PROVE  Abstract!AbsDynamicIrq(E) /\ Behind(queues')
<1>1. ~TimerPending /\ UNCHANGED <<running_timeslice_end, next_pid, deadline>>
  BY Zenon DEF DynamicIrq, SwitchCurrentOrNext
<1>2. PICK order \in TriggerOrders(queues, EventIds(queues, E)) :
        SwitchCurrentOrNext(on_explicit_events(queues, E, order))
  BY Zenon DEF DynamicIrq
<1> DEFINE q == on_explicit_events(queues, E, order)
           S == Abstract!WithEvent(Blocked(queues), E)
<1>3. Sound(queues) /\ Behind(queues)
  BY RefFacts, Zenon
<1>4. Sound(q)
  BY <1>3, EventsFacts, Zenon DEF Sound
<1>5. Woken(queues, q, S)
  BY <1>3, EventsRefine, Zenon DEF Sound
<1> HIDE DEF q, S
<1>6. SwitchCurrentOrNext(q)
  BY <1>2, Zenon DEF q
<1>7. SameWaits(q)
  BY <1>4, <1>6, SwitchCurrentOrNextKeepsWaits, Zenon DEF Sound
<1>8. /\ queues'.next_waitid = q.next_waitid
      /\ IF running = None /\ q.running # <<>>
         THEN queues'.running = Tail(q.running) /\ running' = Head(q.running)
         ELSE queues'.running = q.running /\ running' = running
  <2>1. CASE ~(running = None /\ q.running # <<>>)
    BY <1>6, <2>1, Zenon DEF SwitchCurrentOrNext
  <2>2. CASE running = None /\ q.running # <<>>
    <3> DEFINE t == Tail(q.running)
    <3>1. queues' = [q EXCEPT !.running = t] /\ running' = Head(q.running)
      BY <1>6, <2>2, Zenon DEF SwitchCurrentOrNext
    <3> HIDE DEF t
    <3>2. queues' = [running |-> t, waiting |-> q.waiting, next_waitid |-> q.next_waitid,
                     wait_sleeping |-> q.wait_sleeping, wait_process |-> q.wait_process,
                     wait_event |-> q.wait_event]
      BY <1>4, <3>1, FieldUpdates, Zenon DEF Sound
    <3>3. queues'.next_waitid = q.next_waitid /\ queues'.running = t
      BY ONLY <3>2, Zenon
    <3> QED
      BY <2>2, <3>1, <3>3, Zenon DEF t
  <2> QED
    BY <2>1, <2>2, Zenon
<1>9. \A id : Conditions(queues', id) = Conditions(q, id)
  BY <1>7, Zenon DEF Conditions, SameWaits
<1>10. Blocked(queues') = Blocked(q)
  BY <1>4, <1>7, <1>9, SameBlocked, Zenon DEF SameWaits, Sound, InOnePlace
<1>11. Behind(queues')
  BY <1>5, <1>7, <1>8, Zenon DEF Behind, SameWaits, Woken
<1>12. PICK x \in Abstract!Orders(S) : q.running = x \o queues.running
  BY <1>5, Zenon DEF Woken
<1>13. Blocked(queues') = Abstract!Without(Blocked(queues), S)
  BY <1>5, <1>10, Zenon DEF Woken
<1>14. IF running = None /\ x \o queues.running # <<>>
       THEN queues'.running = Tail(x \o queues.running) /\ running' = Head(x \o queues.running)
       ELSE queues'.running = x \o queues.running /\ running' = running
  BY <1>8, <1>12, Zenon
<1>15. Abstract!AbsDynamicIrq(E)
  BY <1>1, <1>12, <1>13, <1>14, Zenon DEF Abstract!AbsDynamicIrq, TimerPending, S
<1> QED
  BY <1>11, <1>15, Zenon

(* Time passes for every entry of the queue of sleepers.                   *)
LEMMA ElapseRefines ==
  ASSUME RefInv, Elapse, Sound(queues')
  PROVE  Abstract!AbsElapse /\ Behind(queues')
<1> DEFINE v == queues.wait_sleeping
           n == Len(v)
           u == [i \in 1 .. n |-> [at |-> Later(v[i].at), id |-> v[i].id]]
<1>1. /\ ~TimerPending /\ running_timeslice_end' = Later(running_timeslice_end)
      /\ deadline' = Later(deadline) /\ UNCHANGED <<running, next_pid>>
      /\ queues' = [queues EXCEPT !.wait_sleeping = u]
  BY Zenon DEF Elapse
<1>2. Sound(queues) /\ Behind(queues)
  BY RefFacts, Zenon
<1>3. n \in Nat /\ DOMAIN v = 1 .. n
  BY <1>2, LenProperties, Zenon DEF Sound, IsQueues
<1>4. \A t : Abstract!AbsLater(t) = Later(t)
  BY Zenon DEF Abstract!AbsLater, Later
<1>5. /\ \A y : y \in Range(u) <=> \E i \in 1 .. n : y = u[i]
      /\ \A y : y \in Range(v) <=> \E i \in 1 .. n : y = v[i]
      /\ \A i \in 1 .. n : u[i].at = Later(v[i].at) /\ u[i].id = v[i].id
  BY <1>3, Zenon DEF Range
<1> HIDE DEF u, v, n
<1>6. queues' = [running |-> queues.running, waiting |-> queues.waiting,
                 next_waitid |-> queues.next_waitid, wait_sleeping |-> u,
                 wait_process |-> queues.wait_process, wait_event |-> queues.wait_event]
  BY <1>1, <1>2, FieldUpdates, Zenon DEF Sound
<1>7. /\ queues'.running = queues.running /\ queues'.waiting = queues.waiting
      /\ queues'.next_waitid = queues.next_waitid /\ queues'.wait_sleeping = u
      /\ queues'.wait_process = queues.wait_process /\ queues'.wait_event = queues.wait_event
  BY ONLY <1>6, Zenon
<1>8. Behind(queues')
  <2>1. ASSUME NEW y \in Range(u) PROVE y.id < queues.next_waitid
    <3>1. PICK i \in 1 .. n : y = u[i]
      BY <1>5, <2>1, Zenon
    <3> QED
      BY <1>2, <1>5, <3>1, Zenon DEF Behind, v
  <2> QED
    BY <1>2, <1>7, <2>1, Zenon DEF Behind
<1>9. ASSUME NEW id \in DOMAIN queues.waiting
      PROVE  Conditions(queues', id) =
               [Conditions(queues, id) EXCEPT !.times = {Later(t) : t \in Conditions(queues, id).times}]
  <2>1. /\ Conditions(queues', id).processes = Conditions(queues, id).processes
        /\ Conditions(queues', id).events = Conditions(queues, id).events
    BY <1>7, Zenon DEF Conditions
  <2>2. Listed(queues, id) /\ Listed(queues', id)
    BY <1>2, ConditionFacts, Zenon DEF Sound, IsQueues
  <2>3. ASSUME NEW t \in Conditions(queues', id).times
        PROVE  \E s \in Conditions(queues, id).times : t = Later(s)
    <3>1. PICK y \in Range(u) : y.id = id /\ y.at = t
      BY <1>7, <2>2, <2>3, Zenon DEF Listed
    <3>2. PICK i \in 1 .. n : y = u[i]
      BY <1>5, <3>1, Zenon
    <3>3. v[i] \in Range(v) /\ v[i].id = id /\ Later(v[i].at) = t
      BY <1>5, <3>1, <3>2, Zenon
    <3>4. v[i].at \in Conditions(queues, id).times
      BY <2>2, <3>3, Zenon DEF Listed, v
    <3> QED
      BY <3>3, <3>4, Zenon
  <2>4. ASSUME NEW s \in Conditions(queues, id).times
        PROVE  Later(s) \in Conditions(queues', id).times
    <3>1. PICK y \in Range(v) : y.id = id /\ y.at = s
      BY <2>2, <2>4, Zenon DEF Listed, v
    <3>2. PICK i \in 1 .. n : y = v[i]
      BY <1>5, <3>1, Zenon
    <3>3. u[i] \in Range(u) /\ u[i].id = id /\ u[i].at = Later(s)
      BY <1>5, <3>1, <3>2, Zenon
    <3> QED
      BY <1>7, <2>2, <3>3, Zenon DEF Listed
  <2>5. Conditions(queues', id).times = {Later(t) : t \in Conditions(queues, id).times}
    BY <2>3, <2>4, Zenon
  <2>6. \A o : Conditions(o, id) = [times |-> Conditions(o, id).times,
                                    processes |-> Conditions(o, id).processes,
                                    events |-> Conditions(o, id).events]
    BY Zenon DEF Conditions
  <2> DEFINE T == {Later(t) : t \in Conditions(queues, id).times}
             c == Conditions(queues, id)
             p == c.processes
             e == c.events
  <2>7. c = [times |-> c.times, processes |-> p, events |-> e]
    BY <2>6, Zenon
  <2>8. Conditions(queues', id) = [times |-> T, processes |-> p, events |-> e]
    BY <2>1, <2>5, <2>6, Zenon
  <2> HIDE DEF T, p, e, c
  <2>9. [c EXCEPT !.times = T] = [times |-> T, processes |-> p, events |-> e]
    BY ONLY <2>7
  <2> QED
    BY <2>8, <2>9, Zenon DEF T, c
<1>10. Blocked(queues') =
         [p \in DOMAIN Blocked(queues) |->
            [Blocked(queues)[p] EXCEPT !.times = {Abstract!AbsLater(t) : t \in Blocked(queues)[p].times}]]
  <2>1. /\ DOMAIN Blocked(queues) = Range(queues.waiting)
        /\ \A id \in DOMAIN queues.waiting : Blocked(queues)[queues.waiting[id]] = Conditions(queues, id)
    BY <1>2, BlockedFacts, Zenon DEF Sound, InOnePlace
  <2>2. /\ Blocked(queues') = [p \in Range(queues'.waiting) |-> Blocked(queues')[p]]
        /\ \A id \in DOMAIN queues'.waiting : Blocked(queues')[queues'.waiting[id]] = Conditions(queues', id)
    BY BlockedFacts, Zenon DEF Sound, InOnePlace
  <2>3. ASSUME NEW p \in Range(queues.waiting)
        PROVE  Blocked(queues')[p] =
                 [Blocked(queues)[p] EXCEPT !.times = {Abstract!AbsLater(t) : t \in Blocked(queues)[p].times}]
    <3>1. PICK id \in DOMAIN queues.waiting : queues.waiting[id] = p
      BY Zenon DEF Range
    <3>2. Blocked(queues)[p] = Conditions(queues, id) /\ Blocked(queues')[p] = Conditions(queues', id)
      BY <1>7, <2>1, <2>2, <3>1, Zenon
    <3>3. {Abstract!AbsLater(t) : t \in Conditions(queues, id).times} =
            {Later(t) : t \in Conditions(queues, id).times}
      BY <1>4, Zenon
    <3>4. Conditions(queues', id) =
            [Conditions(queues, id) EXCEPT !.times = {Later(t) : t \in Conditions(queues, id).times}]
      BY <1>9, Zenon
    <3> QED
      BY <3>2, <3>3, <3>4, Zenon
  <2> QED
    BY <1>7, <2>1, <2>2, <2>3, Zenon
<1>11. Abstract!AbsElapse
  BY <1>1, <1>4, <1>7, <1>10, Zenon DEF Abstract!AbsElapse, TimerPending
<1> QED
  BY <1>8, <1>11, Zenon

-----------------------------------------------------------------------------

LEMMA InitRefines == SchedInit => Abstract!AbsInit /\ Behind(queues)
<1> SUFFICES ASSUME SchedInit PROVE Abstract!AbsInit /\ Behind(queues)
  BY Zenon
<1>1. queues = [running |-> <<1>>, waiting |-> <<>>, next_waitid |-> 0,
                wait_sleeping |-> <<>>, wait_process |-> {}, wait_event |-> {}]
  BY Zenon DEF SchedInit, Queues_new
<1>2. Range(<<>>) = {}
  BY DEF Range
<1>3. \A f : DOMAIN f = {} /\ f = [x \in {} |-> f[x]] => f = <<>>
  OBVIOUS
<1>4. Blocked(queues) = <<>>
  <2>1. queues.waiting = <<>>
    BY <1>1, Zenon
  <2>2. DOMAIN Blocked(queues) = {} /\ Blocked(queues) = [p \in {} |-> Blocked(queues)[p]]
    BY <1>2, <2>1, Zenon DEF Blocked
  <2> QED
    BY <1>3, <2>2, Zenon
<1>5. Behind(queues)
  BY <1>1, <1>2, Zenon DEF Behind
<1> QED
  BY <1>1, <1>4, <1>5, Zenon DEF SchedInit, Abstract!AbsInit

(* Every step of the scheduler is a step of the abstract one, or leaves    *)
(* its state alone.                                                        *)
LEMMA NextRefines ==
  ASSUME RefInv, [SchedNext]_schedVars
  PROVE  [Abstract!AbsNext]_Abstract!absVars /\ Behind(queues')
<1>1. /\ Sound(queues') /\ running_timeslice_end' \in Nat \cup {None}
      /\ SortedByTime(queues'.wait_sleeping)
  BY NextIInv, NextWakeups, Zenon DEF RefInv, SchedIInv, SchedTypeOK, NeverTwice, Sound,
       WakeupsPending, SleepersSorted, SortedByTime
<1>2. OneOrNone = Abstract!AbsOneOrNone
  BY Zenon DEF OneOrNone, Abstract!AbsOneOrNone
<1>3. ASSUME NEW ok \in BOOLEAN, Spawn(ok) PROVE Abstract!AbsNext /\ Behind(queues')
  BY <1>3, SpawnRefines, Zenon DEF Abstract!AbsNext
<1>4. ASSUME NEW E \in OneOrNone, NEW w \in Waits, SyscallSwitch(E, w)
      PROVE  Abstract!AbsNext /\ Behind(queues')
  BY <1>1, <1>2, <1>4, SyscallSwitchRefines, Zenon DEF Abstract!AbsNext
<1>5. ASSUME NEW w \in Waits, RepeatSwitch(w) PROVE Abstract!AbsNext /\ Behind(queues')
  BY <1>5, RepeatSwitchRefines, Zenon DEF Abstract!AbsNext
<1>6. ASSUME NEW E \in SUBSET Events \ {{}}, TriggerEvents(E)
      PROVE  Abstract!AbsNext /\ Behind(queues')
  BY <1>6, TriggerEventsRefines, Zenon DEF Abstract!AbsNext
<1>7. ASSUME NEW E \in SUBSET Events, Terminate(E) PROVE Abstract!AbsNext /\ Behind(queues')
  BY <1>7, TerminateRefines, Zenon DEF Abstract!AbsNext
<1>8. ASSUME NEW E \in SUBSET Events, DynamicIrq(E) PROVE Abstract!AbsNext /\ Behind(queues')
  BY <1>8, DynamicIrqRefines, Zenon DEF Abstract!AbsNext
<1>9. CASE Tick
  BY <1>1, <1>9, TickStepRefines, Zenon DEF Abstract!AbsNext
<1>10. CASE Elapse
  BY <1>1, <1>10, ElapseRefines, Zenon DEF Abstract!AbsNext
<1>11. CASE UNCHANGED schedVars
  BY <1>11, RefFacts, Zenon DEF schedVars, Abstract!absVars
<1> QED
  BY <1>3, <1>4, <1>5, <1>6, <1>7, <1>8, <1>9, <1>10, <1>11, Zenon DEF SchedNext

(* The scheduler, whose wait tables keep the registrations of waits that   *)
(* are over, wakes a process exactly when one of the conditions it waits   *)
(* for now comes true, puts it ahead of the queue, and sets the timer in   *)
(* time for it: Scheduler implements AbstractScheduler.                    *)
THEOREM SchedulerImplementsAbstract == SchedSpec => ImplementsAbstract
<1>1. SchedInit => RefInv /\ Abstract!AbsInit
  BY InitIInv, InitWakeups, InitRefines, Zenon DEF RefInv
<1>2. RefInv /\ [SchedNext]_schedVars => RefInv' /\ [Abstract!AbsNext]_Abstract!absVars
  BY NextIInv, NextWakeups, NextRefines, Zenon DEF RefInv
<1> QED
  BY <1>1, <1>2, PTL DEF SchedSpec, ImplementsAbstract, Abstract!AbsSpec
=============================================================================
