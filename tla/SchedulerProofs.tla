--------------------------- MODULE SchedulerProofs ---------------------------
(***************************************************************************)
(* The scheduler never loses a process, never has one in two places and    *)
(* never forgets a wakeup, for any number of processes, events and kinds   *)
(* of wait.  The lemmas about the queues come first: the shape of the      *)
(* queues, that each process is in one place, and which processes they     *)
(* hold.                                                                   *)
(***************************************************************************)
EXTENDS Scheduler, SequenceTheorems, FiniteSetTheorems, WellFoundedInduction, TLAPS

(* A function on 1 .. n is a sequence of length n.                         *)
LEMMA FunctionIsSeq ==
  ASSUME NEW S, NEW n \in Nat, NEW f \in [1 .. n -> S]
  PROVE  f \in Seq(S) /\ Len(f) = n
<1>1. f \in Seq(S)
  OBVIOUS
<1>2. DOMAIN f = 1 .. Len(f) /\ Len(f) \in Nat
  BY <1>1
<1>3. DOMAIN f = 1 .. n
  BY Zenon
<1> QED
  BY <1>1, <1>2, <1>3, SMTT(30)

(* Two sequences without repetitions and without common elements make one  *)
(* without repetitions.                                                    *)
LEMMA InjectiveConcat ==
  ASSUME NEW S, NEW s \in Seq(S), NEW t \in Seq(S),
         IsInjective(s), IsInjective(t), Range(s) \cap Range(t) = {}
  PROVE  IsInjective(s \o t)
<1> DEFINE all == 1 .. (Len(s) + Len(t))
<1>1. /\ Len(s) \in Nat /\ DOMAIN s = 1 .. Len(s)
      /\ Len(t) \in Nat /\ DOMAIN t = 1 .. Len(t)
      /\ DOMAIN (s \o t) = all
      /\ \A i \in all : (s \o t)[i] = IF i <= Len(s) THEN s[i] ELSE t[i - Len(s)]
  BY ConcatProperties, LenProperties, SMTT(30)
<1> SUFFICES ASSUME NEW i \in all, NEW j \in all, (s \o t)[i] = (s \o t)[j]
             PROVE  i = j
  BY <1>1, Zenon DEF IsInjective
<1>2. \A k \in 1 .. Len(s), l \in 1 .. Len(t) : s[k] # t[l]
  BY <1>1, Zenon DEF Range
<1>3. \A k, l \in 1 .. Len(s) : s[k] = s[l] => k = l
  BY <1>1, Zenon DEF IsInjective
<1>4. \A k, l \in 1 .. Len(t) : t[k] = t[l] => k = l
  BY <1>1, Zenon DEF IsInjective
<1> QED
  BY <1>1, <1>2, <1>3, <1>4, SMTT(30)

(* An order of triggered wait ids is a sequence of distinct unconsumed ids.*)
LEMMA OrderFacts ==
  ASSUME NEW Ev, NEW q, IsQueues(q, Ev), NEW ids,
         NEW order \in TriggerOrders(q, ids)
  PROVE  /\ Len(order) \in Nat
         /\ DOMAIN order = 1 .. Len(order)
         /\ \A i \in 1 .. Len(order) : order[i] \in DOMAIN q.waiting
         /\ IsInjective(order)
         /\ Range(order) = ids \cap DOMAIN q.waiting
<1> DEFINE live == ids \cap DOMAIN q.waiting
           n == Cardinality(live)
<1>1. IsFiniteSet(live)
  BY FS_Subset, live \subseteq DOMAIN q.waiting, Zenon DEF IsQueues
<1>2. n \in Nat
  BY <1>1, FS_CardinalityType, Zenon
<1>3. order \in Bijection(1 .. n, live)
  BY Zenon DEF TriggerOrders
<1>4. order \in [1 .. n -> live] /\ IsInjective(order)
      /\ \A t \in live : \E s \in 1 .. n : order[s] = t
  BY <1>3, Zenon DEF Bijection, Injection, Surjection
<1> HIDE DEF n
<1>5. order \in Seq(live) /\ Len(order) = n
  BY <1>2, <1>4, FunctionIsSeq, Zenon
<1> QED
  BY <1>2, <1>4, <1>5, Zenon DEF Range

(* Triggering waits moves processes from the wait table to the run queue   *)
(* and loses, adds or doubles none.                                        *)
LEMMA TriggerWaits ==
  ASSUME NEW Ev, NEW q, IsQueues(q, Ev), InOnePlace(q), IdsFresh(q), NEW ids,
         NEW order \in TriggerOrders(q, ids)
  PROVE  /\ IsQueues(trigger_waits(q, order), Ev)
         /\ InOnePlace(trigger_waits(q, order))
         /\ IdsFresh(trigger_waits(q, order))
         /\ Members(trigger_waits(q, order)) = Members(q)
<1> DEFINE n == Len(order)
           front == [i \in 1 .. n |-> q.waiting[order[n + 1 - i]]]
           rest == DOMAIN q.waiting \ Range(order)
           left == [x \in rest |-> q.waiting[x]]
           r == trigger_waits(q, order)
<1>1. /\ n \in Nat
      /\ DOMAIN order = 1 .. n
      /\ \A i \in 1 .. n : order[i] \in DOMAIN q.waiting
      /\ IsInjective(order)
  BY OrderFacts, Zenon
<1>2. /\ q.running \in Seq(Nat)
      /\ q.waiting \in [DOMAIN q.waiting -> Nat]
      /\ IsInjective(q.running)
      /\ \A x, y \in DOMAIN q.waiting : q.waiting[x] = q.waiting[y] => x = y
      /\ Range(q.running) \cap Range(q.waiting) = {}
  BY Zenon DEF IsQueues, InOnePlace, IsInjective
<1>3. r = [running       |-> front \o q.running,
           waiting       |-> left,
           next_waitid   |-> q.next_waitid,
           wait_sleeping |-> q.wait_sleeping,
           wait_process  |-> q.wait_process,
           wait_event    |-> q.wait_event]
  BY Zenon DEF trigger_waits, Restrict
<1>4. front \in [1 .. n -> Nat]
  BY <1>1, <1>2, SMTT(30)
<1>5. Range(front) = {q.waiting[x] : x \in Range(order)}
  <2>1. ASSUME NEW p \in Range(front)
        PROVE  p \in {q.waiting[x] : x \in Range(order)}
    <3>1. PICK i \in 1 .. n : p = q.waiting[order[n + 1 - i]]
      BY Zenon DEF Range
    <3>2. n + 1 - i \in 1 .. n
      BY <1>1, SMTT(30)
    <3> QED
      BY <1>1, <3>1, <3>2, Zenon DEF Range
  <2>2. ASSUME NEW p \in {q.waiting[x] : x \in Range(order)}
        PROVE  p \in Range(front)
    <3>1. PICK i \in 1 .. n : p = q.waiting[order[i]]
      BY <1>1, Zenon DEF Range
    <3>2. n + 1 - i \in 1 .. n /\ n + 1 - (n + 1 - i) = i
      BY <1>1
    <3>3. front[n + 1 - i] = p
      BY <3>1, <3>2, Zenon
    <3> QED
      BY <3>2, <3>3, Zenon DEF Range
  <2> QED
    BY <2>1, <2>2, Zenon
<1>6. IsInjective(front)
  <2> SUFFICES ASSUME NEW i \in 1 .. n, NEW j \in 1 .. n,
                      q.waiting[order[n + 1 - i]] = q.waiting[order[n + 1 - j]]
               PROVE  i = j
    BY Zenon DEF IsInjective
  <2>1. n + 1 - i \in 1 .. n /\ n + 1 - j \in 1 .. n
    BY <1>1
  <2>2. order[n + 1 - i] = order[n + 1 - j]
    BY <1>1, <1>2, <2>1, Zenon
  <2>3. n + 1 - i = n + 1 - j
    BY <1>1, <2>1, <2>2, Zenon DEF IsInjective
  <2> QED
    BY <1>1, <2>3, SMTT(30)
<1>7. Range(left) = {q.waiting[x] : x \in rest}
  BY Zenon DEF Range
<1>8. Range(order) \subseteq DOMAIN q.waiting
  BY <1>1, Zenon DEF Range
<1>9. Range(front) \cup Range(left) = Range(q.waiting)
  <2>1. Range(q.waiting) = {q.waiting[x] : x \in DOMAIN q.waiting}
    BY Zenon DEF Range
  <2> HIDE DEF front, left, n
  <2> QED
    BY <1>5, <1>7, <1>8, <2>1, Zenon
<1>10. Range(front) \cap Range(left) = {}
  <2> HIDE DEF front, left, n
  <2> QED
    BY <1>2, <1>5, <1>7, <1>8, SMTT(30)
<1>11. IsInjective(left) /\ left \in [rest -> Nat] /\ DOMAIN left = rest
  BY <1>2, Zenon DEF IsInjective
<1>12. IsFiniteSet(rest)
  BY FS_Subset, rest \subseteq DOMAIN q.waiting, Zenon DEF IsQueues
<1> HIDE DEF front, left, r, n, rest
<1>13. front \in Seq(Nat)
  BY <1>1, <1>4, FunctionIsSeq, Zenon
<1>14. /\ front \o q.running \in Seq(Nat)
       /\ Range(front \o q.running) = Range(front) \cup Range(q.running)
  BY <1>2, <1>13, ConcatProperties, RangeConcatenation, SMTT(30)
<1>15. IsInjective(front \o q.running)
  BY <1>2, <1>6, <1>9, <1>13, InjectiveConcat, Zenon
<1>16. IsQueues(r, Ev)
  BY <1>3, <1>11, <1>12, <1>14, Zenon DEF IsQueues, rest
<1>17. InOnePlace(r)
  BY <1>2, <1>3, <1>9, <1>10, <1>11, <1>14, <1>15, Zenon DEF InOnePlace
<1>18. Members(r) = Members(q)
  BY <1>3, <1>9, <1>14, Zenon DEF Members
<1>19. IdsFresh(r)
  BY <1>3, <1>11, Zenon DEF IdsFresh, rest
<1> QED
  BY <1>16, <1>17, <1>18, <1>19, Zenon DEF r

(* The order of the naturals is well founded.                              *)
LEMMA NatOrder ==
  \E R : IsWellFoundedOn(R, Nat) /\ \A u, t \in Nat : <<u, t>> \in R <=> u < t
<1>1. \A u, t \in Nat : <<u, t>> \in OpToRel(<, Nat) <=> u < t
  BY Zenon DEF OpToRel
<1> QED
  BY <1>1, NatLessThanWellFounded, Zenon

(* The earliest of a nonempty set of naturals is one of its elements.      *)
LEMMA EarliestFacts ==
  ASSUME NEW T, T \subseteq Nat, T # {}
  PROVE  Earliest(T) \in T /\ \A u \in T : Earliest(T) <= u
<1>1. PICK R : IsWellFoundedOn(R, Nat) /\ \A u, t \in Nat : <<u, t>> \in R <=> u < t
  BY NatOrder, Zenon
<1>a. IsWellFoundedOn(R, Nat)
  BY <1>1, Zenon
<1>b. \E t \in T : \A u \in T : ~(<<u, t>> \in R)
  BY ONLY <1>a, T \subseteq Nat, T # {}, WFMin, Zenon
<1>2. PICK t \in T : \A u \in T : ~(<<u, t>> \in R)
  BY <1>b, Zenon
<1>3. \A u \in T : ~(u < t)
  BY <1>1, <1>2, Zenon
<1>4. \A u \in T : t <= u
  BY ONLY <1>3, T \subseteq Nat, t \in T, SMTT(30)
<1> QED
  BY <1>4, Zenon DEF Earliest

(* Inserting a sleeper yields a sequence of sleepers.                      *)
LEMMA InsertSleeperType ==
  ASSUME NEW v \in Seq([at : Nat, id : Nat]), NEW t \in Nat, NEW id \in Nat
  PROVE  InsertSleeper(v, t, id) \in Seq([at : Nat, id : Nat])
<1> DEFINE later == {i \in DOMAIN v : v[i].at > t}
           k == p_index_vecdeque(v, t)
<1>1. Len(v) \in Nat /\ DOMAIN v = 1 .. Len(v)
      /\ \A i \in 1 .. Len(v) : v[i] \in [at : Nat, id : Nat]
  BY LenProperties, ElementOfSeq, Zenon
<1>2. k \in 1 .. Len(v) + 1
  <2>1. CASE later = {}
    BY <1>1, <2>1, SMTT(30) DEF p_index_vecdeque
  <2>2. CASE later # {}
    <3>1. later \subseteq Nat
      BY <1>1, SMTT(30)
    <3>2. Earliest(later) \in later
      BY <2>2, <3>1, EarliestFacts, Zenon
    <3>3. k = Earliest(later)
      BY <2>2, Zenon DEF p_index_vecdeque
    <3>4. k \in 1 .. Len(v)
      BY <1>1, <3>2, <3>3, Zenon
    <3> HIDE DEF k, later
    <3> QED
      BY ONLY <1>1, <3>4, SMTT(30)
  <2> QED
    BY <2>1, <2>2, Zenon
<1> HIDE DEF k
<1>3. InsertSleeper(v, t, id) \in [1 .. Len(v) + 1 -> [at : Nat, id : Nat]]
  <2> DEFINE E(j) == IF j < k THEN v[j] ELSE IF j = k THEN [at |-> t, id |-> id] ELSE v[j - 1]
  <2>1. InsertSleeper(v, t, id) = [j \in 1 .. Len(v) + 1 |-> E(j)]
    BY Zenon DEF InsertSleeper, k
  <2>2. ASSUME NEW j \in 1 .. Len(v) + 1 PROVE E(j) \in [at : Nat, id : Nat]
    <3>1. \/ j < k /\ j \in 1 .. Len(v)
          \/ ~(j < k) /\ j = k
          \/ ~(j < k) /\ j # k /\ j - 1 \in 1 .. Len(v)
      BY <1>1, <1>2, SMTT(30)
    <3>2. [at |-> t, id |-> id] \in [at : Nat, id : Nat]
      OBVIOUS
    <3> QED
      BY <1>1, <3>1, <3>2, Zenon
  <2> QED
    BY <2>1, <2>2, Zenon
<1>4. Len(v) + 1 \in Nat
  BY <1>1, SMTT(30)
<1> QED
  BY <1>3, <1>4, FunctionIsSeq, Zenon

(* Reducing a wait yields a wait.                                          *)
LEMMA ReduceType ==
  ASSUME NEW Ev, NEW w, IsWaitFor(w, Ev), NEW q, NEW p
  PROVE  IsWaitFor(reduce_queues(w, q, p), Ev)
<1>1. IsWaitFor(WaitForNone, Ev)
  BY Zenon DEF IsWaitFor, WaitForNone
<1>2. w.times # {} => Earliest(w.times) \in Nat
  BY EarliestFacts, Zenon DEF IsWaitFor
<1>3. reduce(w) = [times     |-> IF w.times = {} THEN {} ELSE {Earliest(w.times)},
                   processes |-> w.processes,
                   events    |-> w.events]
  BY DEF IsWaitFor, reduce
<1>4. IsWaitFor(reduce(w), Ev)
  BY <1>2, <1>3, SMTT(30) DEF IsWaitFor
<1> QED
  BY <1>1, <1>4, Zenon DEF reduce_queues

(* Registering a wait puts the process in the wait table, under a new id.  *)
LEMMA EnqueueFacts ==
  ASSUME NEW Ev, NEW q, IsQueues(q, Ev), InOnePlace(q), IdsFresh(q),
         NEW pid \in Nat, pid \notin Members(q), NEW w, IsWaitFor(w, Ev)
  PROVE  /\ IsQueues(Enqueue(q, pid, w), Ev)
         /\ InOnePlace(Enqueue(q, pid, w))
         /\ IdsFresh(Enqueue(q, pid, w))
         /\ Members(Enqueue(q, pid, w)) = Members(q) \cup {pid}
<1> DEFINE id == q.next_waitid
           dom == DOMAIN q.waiting
           table == [x \in dom \cup {id} |-> IF x = id THEN pid ELSE q.waiting[x]]
           sleeping == IF w.times = {} THEN q.wait_sleeping
                       ELSE InsertSleeper(q.wait_sleeping, Earliest(w.times), id)
           r == Enqueue(q, pid, w)
<1>1. /\ id \in Nat /\ dom \subseteq Nat /\ IsFiniteSet(dom)
      /\ q.waiting \in [dom -> Nat]
      /\ \A x \in dom : x < id
  BY Zenon DEF IsQueues, IdsFresh
<1>2. id \notin dom
  BY <1>1, SMTT(30)
<1>3. r = [running       |-> q.running,
           waiting       |-> table,
           next_waitid   |-> id + 1,
           wait_sleeping |-> sleeping,
           wait_process  |-> q.wait_process \cup (w.processes \X {id}),
           wait_event    |-> q.wait_event \cup (w.events \X {id})]
  BY Zenon DEF Enqueue
<1>4. sleeping \in Seq([at : Nat, id : Nat])
  <2>1. w.times # {} => Earliest(w.times) \in Nat
    BY EarliestFacts, Zenon DEF IsWaitFor
  <2>2. q.wait_sleeping \in Seq([at : Nat, id : Nat])
    BY Zenon DEF IsQueues
  <2> QED
    BY <1>1, <2>1, <2>2, InsertSleeperType, Zenon
<1>5. IsFiniteSet(dom \cup {id})
  BY <1>1, FS_AddElement, Zenon
<1>6. table \in [dom \cup {id} -> Nat] /\ DOMAIN table = dom \cup {id}
  BY <1>1, Zenon
<1>7. Range(table) = Range(q.waiting) \cup {pid}
  <2>1. table[id] = pid /\ \A x \in dom : table[x] = q.waiting[x]
    BY <1>2, Zenon
  <2> HIDE DEF table
  <2> QED
    BY <1>6, <2>1, SMTT(30) DEF Range
<1>8. IsInjective(table)
  <2>1. pid \notin Range(q.waiting)
    BY Zenon DEF Members
  <2>2. \A x, y \in dom : q.waiting[x] = q.waiting[y] => x = y
    BY Zenon DEF InOnePlace, IsInjective
  <2> QED
    BY <2>1, <2>2, Zenon DEF IsInjective, Range
<1> HIDE DEF table, sleeping, r
<1>9. IsQueues(r, Ev)
  BY <1>1, <1>3, <1>4, <1>5, <1>6, SMTT(30) DEF IsQueues, IsWaitFor
<1>10. InOnePlace(r)
  BY <1>3, <1>7, <1>8, Zenon DEF InOnePlace, Members
<1>11. IdsFresh(r)
  BY <1>1, <1>3, <1>6, SMTT(30) DEF IdsFresh
<1>12. Members(r) = Members(q) \cup {pid}
  BY <1>3, <1>7, Zenon DEF Members
<1> QED
  BY <1>9, <1>10, <1>11, <1>12, Zenon DEF r

(* Appending a new element to a sequence without repetitions.              *)
LEMMA InjectiveAppend ==
  ASSUME NEW S, NEW s \in Seq(S), NEW x \in S, IsInjective(s), x \notin Range(s)
  PROVE  /\ Append(s, x) \in Seq(S)
         /\ IsInjective(Append(s, x))
         /\ Range(Append(s, x)) = Range(s) \cup {x}
<1>1. /\ Len(s) \in Nat /\ DOMAIN s = 1 .. Len(s)
      /\ Append(s, x) \in Seq(S)
      /\ DOMAIN Append(s, x) = 1 .. Len(s) + 1
      /\ \A i \in 1 .. Len(s) : Append(s, x)[i] = s[i]
      /\ Append(s, x)[Len(s) + 1] = x
  BY LenProperties, AppendProperties, SMTT(30)
<1> DEFINE a == Append(s, x)
<1> HIDE DEF a
<1>2. IsInjective(a)
  <2> SUFFICES ASSUME NEW i \in 1 .. Len(s) + 1, NEW j \in 1 .. Len(s) + 1, a[i] = a[j]
               PROVE  i = j
    BY <1>1, Zenon DEF IsInjective, a
  <2>1. \A k \in 1 .. Len(s) : s[k] # x
    BY <1>1, Zenon DEF Range
  <2>2. \A k, l \in 1 .. Len(s) : s[k] = s[l] => k = l
    BY <1>1, Zenon DEF IsInjective
  <2> QED
    BY <1>1, <2>1, <2>2, SMTT(30) DEF a
<1>3. Range(a) = Range(s) \cup {x}
  <2>1. \A i \in 1 .. Len(s) + 1 : i \in 1 .. Len(s) \/ i = Len(s) + 1
    BY <1>1, SMTT(30)
  <2>2. Len(s) + 1 \in 1 .. Len(s) + 1 /\ 1 .. Len(s) \subseteq 1 .. Len(s) + 1
    BY <1>1
  <2> QED
    BY <1>1, <2>1, <2>2, Zenon DEF Range, a
<1> QED
  BY <1>1, <1>2, <1>3, Zenon DEF a

(* Giving a process back queues it, in one place, and disturbs no other.   *)
LEMMA GiveFacts ==
  ASSUME NEW Ev, NEW q, IsQueues(q, Ev), InOnePlace(q), IdsFresh(q),
         NEW pid \in Nat, pid \notin Members(q), NEW w, IsWaitFor(w, Ev)
  PROVE  /\ IsQueues(give(q, pid, w), Ev)
         /\ InOnePlace(give(q, pid, w))
         /\ IdsFresh(give(q, pid, w))
         /\ Members(give(q, pid, w)) = Members(q) \cup {pid}
<1> DEFINE s == reduce_queues(w, q, pid)
           a == Append(q.running, pid)
<1>1. CASE s = WaitForNone
  <2>1. /\ a \in Seq(Nat) /\ IsInjective(a)
        /\ Range(a) = Range(q.running) \cup {pid}
    <3>1. /\ q.running \in Seq(Nat) /\ IsInjective(q.running)
          /\ pid \notin Range(q.running)
      BY Zenon DEF IsQueues, InOnePlace, Members
    <3> QED
      BY <3>1, InjectiveAppend, SMTT(30)
  <2> HIDE DEF a, s
  <2>2. give(q, pid, w) = [running       |-> a,
                           waiting       |-> q.waiting,
                           next_waitid   |-> q.next_waitid,
                           wait_sleeping |-> q.wait_sleeping,
                           wait_process  |-> q.wait_process,
                           wait_event    |-> q.wait_event]
    BY <1>1, Zenon DEF give, s, a, IsQueues
  <2>3. IsQueues(give(q, pid, w), Ev)
    BY <2>1, <2>2, SMTT(30) DEF IsQueues
  <2>4. InOnePlace(give(q, pid, w))
    BY <2>1, <2>2, SMTT(30) DEF InOnePlace, Members
  <2> QED
    BY <2>1, <2>2, <2>3, <2>4, SMTT(30) DEF IdsFresh, Members
<1>2. CASE s # WaitForNone
  <2>1. give(q, pid, w) = Enqueue(q, pid, s)
    BY <1>2, Zenon DEF give
  <2>2. IsWaitFor(s, Ev)
    BY ReduceType, Zenon
  <2> HIDE DEF s
  <2> QED
    BY <2>1, <2>2, EnqueueFacts, SMTT(30)
<1> QED
  BY <1>1, <1>2, Zenon

(* Assigning one field of the queues.                                      *)
LEMMA FieldUpdates ==
  ASSUME NEW Ev, NEW q, IsQueues(q, Ev), NEW x
  PROVE  /\ [q EXCEPT !.running = x] =
              [running |-> x, waiting |-> q.waiting, next_waitid |-> q.next_waitid,
               wait_sleeping |-> q.wait_sleeping, wait_process |-> q.wait_process,
               wait_event |-> q.wait_event]
         /\ [q EXCEPT !.wait_sleeping = x] =
              [running |-> q.running, waiting |-> q.waiting, next_waitid |-> q.next_waitid,
               wait_sleeping |-> x, wait_process |-> q.wait_process,
               wait_event |-> q.wait_event]
         /\ [q EXCEPT !.wait_process = x] =
              [running |-> q.running, waiting |-> q.waiting, next_waitid |-> q.next_waitid,
               wait_sleeping |-> q.wait_sleeping, wait_process |-> x,
               wait_event |-> q.wait_event]
         /\ [q EXCEPT !.wait_event = x] =
              [running |-> q.running, waiting |-> q.waiting, next_waitid |-> q.next_waitid,
               wait_sleeping |-> q.wait_sleeping, wait_process |-> q.wait_process,
               wait_event |-> x]
<1>1. q = [running       |-> q.running,
           waiting       |-> q.waiting,
           next_waitid   |-> q.next_waitid,
           wait_sleeping |-> q.wait_sleeping,
           wait_process  |-> q.wait_process,
           wait_event    |-> q.wait_event]
  BY Zenon DEF IsQueues
<1>2. [q EXCEPT !.running = x] =
        [running |-> x, waiting |-> q.waiting, next_waitid |-> q.next_waitid,
         wait_sleeping |-> q.wait_sleeping, wait_process |-> q.wait_process,
         wait_event |-> q.wait_event]
  BY ONLY <1>1
<1>3. [q EXCEPT !.wait_sleeping = x] =
        [running |-> q.running, waiting |-> q.waiting, next_waitid |-> q.next_waitid,
         wait_sleeping |-> x, wait_process |-> q.wait_process,
         wait_event |-> q.wait_event]
  BY ONLY <1>1
<1>4. [q EXCEPT !.wait_process = x] =
        [running |-> q.running, waiting |-> q.waiting, next_waitid |-> q.next_waitid,
         wait_sleeping |-> q.wait_sleeping, wait_process |-> x,
         wait_event |-> q.wait_event]
  BY ONLY <1>1
<1>5. [q EXCEPT !.wait_event = x] =
        [running |-> q.running, waiting |-> q.waiting, next_waitid |-> q.next_waitid,
         wait_sleeping |-> q.wait_sleeping, wait_process |-> q.wait_process,
         wait_event |-> x]
  BY ONLY <1>1
<1> QED
  BY <1>2, <1>3, <1>4, <1>5, Zenon

(* Triggering waits after registrations were dropped from the tables of    *)
(* triggers.                                                               *)
LEMMA TriggerAfterDrop ==
  ASSUME NEW Ev, NEW q, InOnePlace(q), IdsFresh(q),
         NEW r, IsQueues(r, Ev), r.running = q.running, r.waiting = q.waiting,
         r.next_waitid = q.next_waitid,
         NEW ids, NEW order \in TriggerOrders(q, ids)
  PROVE  /\ IsQueues(trigger_waits(r, order), Ev)
         /\ InOnePlace(trigger_waits(r, order))
         /\ IdsFresh(trigger_waits(r, order))
         /\ Members(trigger_waits(r, order)) = Members(q)
<1>1. InOnePlace(r) /\ IdsFresh(r) /\ Members(r) = Members(q)
  BY Zenon DEF InOnePlace, IdsFresh, Members
<1>2. order \in TriggerOrders(r, ids)
  BY Zenon DEF TriggerOrders
<1> QED
  BY <1>1, <1>2, TriggerWaits, Zenon

LEMMA EventsFacts ==
  ASSUME NEW Ev, NEW q, IsQueues(q, Ev), InOnePlace(q), IdsFresh(q),
         NEW E, NEW order \in TriggerOrders(q, EventIds(q, E))
  PROVE  /\ IsQueues(on_explicit_events(q, E, order), Ev)
         /\ InOnePlace(on_explicit_events(q, E, order))
         /\ IdsFresh(on_explicit_events(q, E, order))
         /\ Members(on_explicit_events(q, E, order)) = Members(q)
<1> DEFINE events == {x \in q.wait_event : x[1] \notin E}
           r == [q EXCEPT !.wait_event = events]
<1>1. /\ q.wait_sleeping \in Seq([at : Nat, id : Nat])
      /\ q.wait_process \in SUBSET (Nat \X Nat)
      /\ events \in SUBSET (Ev \X Nat)
  BY Zenon DEF IsQueues
<1>2. on_explicit_events(q, E, order) = trigger_waits(r, order)
  BY Zenon DEF on_explicit_events
<1> HIDE DEF events
<1>3. r = [running |-> q.running, waiting |-> q.waiting, next_waitid |-> q.next_waitid,
           wait_sleeping |-> q.wait_sleeping, wait_process |-> q.wait_process,
           wait_event |-> events]
  BY FieldUpdates, Zenon
<1> HIDE DEF r
<1>4. /\ IsQueues(r, Ev) /\ r.running = q.running /\ r.waiting = q.waiting
      /\ r.next_waitid = q.next_waitid
  BY <1>1, <1>3, Zenon DEF IsQueues
<1> QED
  BY <1>2, <1>4, TriggerAfterDrop, SMTT(30)

(* A process that is not in a sequence is not removed from it.             *)
LEMMA RemoveAbsent ==
  ASSUME NEW s, NEW p, p \notin Range(s)
  PROVE  RemoveFirstPid(s, p) = s
<1>1. {i \in DOMAIN s : s[i] = p} = {}
  BY Zenon DEF Range
<1> QED
  BY <1>1, Zenon DEF RemoveFirstPid

LEMMA ProcessOverFacts ==
  ASSUME NEW Ev, NEW q, IsQueues(q, Ev), InOnePlace(q), IdsFresh(q),
         NEW pid, pid \notin Members(q),
         NEW order \in TriggerOrders(q, ProcessIds(q, pid))
  PROVE  /\ IsQueues(on_process_over(q, pid, order), Ev)
         /\ InOnePlace(on_process_over(q, pid, order))
         /\ IdsFresh(on_process_over(q, pid, order))
         /\ Members(on_process_over(q, pid, order)) = Members(q)
<1> DEFINE joins == {x \in q.wait_process : x[1] # pid}
           stopped == [q EXCEPT !.running = RemoveFirstPid(q.running, pid)]
           r == [stopped EXCEPT !.wait_process = {x \in stopped.wait_process : x[1] # pid}]
<1>1. /\ q.wait_sleeping \in Seq([at : Nat, id : Nat])
      /\ joins \in SUBSET (Nat \X Nat)
      /\ q.wait_event \in SUBSET (Ev \X Nat)
  BY Zenon DEF IsQueues
<1>2. stopped = q
  <2>1. RemoveFirstPid(q.running, pid) = q.running
    BY RemoveAbsent, Zenon DEF Members
  <2> QED
    BY <2>1, Zenon DEF IsQueues
<1>3. on_process_over(q, pid, order) = trigger_waits(r, order)
  BY Zenon DEF on_process_over
<1>4. r = [q EXCEPT !.wait_process = joins]
  BY <1>2, Zenon
<1> HIDE DEF stopped, r, joins
<1>5. r = [running |-> q.running, waiting |-> q.waiting, next_waitid |-> q.next_waitid,
           wait_sleeping |-> q.wait_sleeping, wait_process |-> joins,
           wait_event |-> q.wait_event]
  BY <1>4, FieldUpdates, Zenon
<1>6. /\ IsQueues(r, Ev) /\ r.running = q.running /\ r.waiting = q.waiting
      /\ r.next_waitid = q.next_waitid
  BY <1>1, <1>5, Zenon DEF IsQueues
<1> QED
  BY <1>3, <1>6, TriggerAfterDrop, SMTT(30)

LEMMA TickFacts ==
  ASSUME NEW Ev, NEW q, IsQueues(q, Ev), InOnePlace(q), IdsFresh(q),
         NEW order \in TickOrders(q)
  PROVE  /\ IsQueues(on_tick(q, order), Ev)
         /\ InOnePlace(on_tick(q, order))
         /\ IdsFresh(on_tick(q, order))
         /\ Members(on_tick(q, order)) = Members(q)
<1> DEFINE v == q.wait_sleeping
           n == Cardinality(Expired(q))
           left == [i \in 1 .. Len(v) - n |-> v[i + n]]
           r == [q EXCEPT !.wait_sleeping = left]
<1>1. /\ v \in Seq([at : Nat, id : Nat])
      /\ q.wait_process \in SUBSET (Nat \X Nat)
      /\ q.wait_event \in SUBSET (Ev \X Nat)
  BY Zenon DEF IsQueues
<1>2. /\ Len(v) \in Nat /\ DOMAIN v = 1 .. Len(v)
      /\ \A i \in 1 .. Len(v) : v[i] \in [at : Nat, id : Nat]
  BY <1>1, LenProperties, ElementOfSeq, Zenon
<1> DEFINE m == Len(v)
<1>3. n \in 0 .. Len(v)
  <2>1. Expired(q) \in SUBSET (1 .. Len(v))
    BY <1>2, Zenon DEF Expired
  <2>2. IsFiniteSet(1 .. m) /\ Cardinality(1 .. m) = m
    <3>1. m \in Nat
      BY <1>2, Zenon
    <3> HIDE DEF m
    <3> QED
      BY <3>1, FS_Interval, SMTT(30)
  <2>3. IsFiniteSet(Expired(q)) /\ n <= Len(v)
    BY <2>1, <2>2, FS_Subset, SMTT(30)
  <2> QED
    BY <1>2, <2>3, FS_CardinalityType, SMTT(30)
<1> HIDE DEF n
<1>4. left \in Seq([at : Nat, id : Nat])
  <2>1. Len(v) - n \in Nat
    BY <1>2, <1>3, SMTT(30)
  <2>2. \A i \in 1 .. Len(v) - n : i + n \in 1 .. Len(v)
    BY <1>2, <1>3, SMTT(30)
  <2>3. left \in [1 .. Len(v) - n -> [at : Nat, id : Nat]]
    BY <1>2, <2>2, Zenon
  <2> QED
    BY <2>1, <2>3, FunctionIsSeq, Zenon
<1>5. on_tick(q, order) = trigger_waits(r, order)
  BY Zenon DEF on_tick, n
<1> HIDE DEF left, v
<1>6. r = [running |-> q.running, waiting |-> q.waiting, next_waitid |-> q.next_waitid,
           wait_sleeping |-> left, wait_process |-> q.wait_process,
           wait_event |-> q.wait_event]
  BY FieldUpdates, Zenon
<1>7. order \in TriggerOrders(q, ExpiredIds(q))
  BY Zenon DEF TickOrders
<1> HIDE DEF r
<1>8. /\ IsQueues(r, Ev) /\ r.running = q.running /\ r.waiting = q.waiting
      /\ r.next_waitid = q.next_waitid
  BY <1>1, <1>4, <1>6, Zenon DEF IsQueues
<1> QED
  BY <1>5, <1>7, <1>8, TriggerAfterDrop, SMTT(30)

(* The tail of a sequence without repetitions lacks just its head.         *)
LEMMA InjectiveTail ==
  ASSUME NEW S, NEW s \in Seq(S), s # <<>>, IsInjective(s)
  PROVE  /\ Head(s) \in S /\ Tail(s) \in Seq(S)
         /\ IsInjective(Tail(s))
         /\ Head(s) \notin Range(Tail(s))
         /\ Range(s) = Range(Tail(s)) \cup {Head(s)}
<1> DEFINE t == Tail(s)
           n == Len(s)
<1>1. /\ n \in Nat \ {0} /\ DOMAIN s = 1 .. n
      /\ Head(s) = s[1] /\ Head(s) \in S
      /\ t \in Seq(S) /\ Len(t) = n - 1
      /\ \A i \in 1 .. n - 1 : t[i] = s[i + 1]
  BY EmptySeq, LenProperties, HeadTailProperties, SMTT(30)
<1>2. DOMAIN t = 1 .. n - 1
  BY <1>1, LenProperties, Zenon
<1>3. \A i, j \in 1 .. n : s[i] = s[j] => i = j
  BY <1>1, Zenon DEF IsInjective
<1> HIDE DEF t, n
<1>4. IsInjective(t)
  BY <1>1, <1>2, <1>3, SMTT(30) DEF IsInjective
<1>5. 1 \in 1 .. n /\ \A i \in 1 .. n - 1 : i + 1 \in 1 .. n /\ i + 1 # 1
  BY <1>1, SMTT(30)
<1>6. \A i \in 1 .. n : i = 1 \/ (i - 1 \in 1 .. n - 1 /\ (i - 1) + 1 = i)
  BY <1>1, SMTT(30)
<1>7. ASSUME NEW p \in Range(t) PROVE p \in Range(s) /\ p # Head(s)
  <2>1. PICK i \in 1 .. n - 1 : p = t[i]
    BY <1>2, Zenon DEF Range
  <2>2. p = s[i + 1] /\ i + 1 \in 1 .. n /\ s[i + 1] # s[1]
    BY <1>1, <1>3, <1>5, <2>1, Zenon
  <2> QED
    BY <1>1, <2>2, Zenon DEF Range
<1>8. ASSUME NEW p \in Range(s), p # Head(s) PROVE p \in Range(t)
  <2>1. PICK i \in 1 .. n : p = s[i]
    BY <1>1, Zenon DEF Range
  <2>2. i - 1 \in 1 .. n - 1 /\ t[i - 1] = p
    BY <1>1, <1>6, <1>8, <2>1, Zenon
  <2> QED
    BY <1>2, <2>2, Zenon DEF Range
<1>9. Head(s) \in Range(s)
  BY <1>1, <1>5, Zenon DEF Range
<1> QED
  BY <1>1, <1>4, <1>7, <1>8, <1>9, Zenon DEF t

(* Taking the head of the run queue removes that process and no other.     *)
LEMMA TakeFacts ==
  ASSUME NEW Ev, NEW q, IsQueues(q, Ev), InOnePlace(q), IdsFresh(q), q.running # <<>>,
         NEW r, r = [q EXCEPT !.running = Tail(q.running)]
  PROVE  /\ IsQueues(r, Ev)
         /\ InOnePlace(r)
         /\ IdsFresh(r)
         /\ Head(q.running) \in Nat
         /\ Head(q.running) \notin Members(r)
         /\ Members(q) = Members(r) \cup {Head(q.running)}
<1> DEFINE s == q.running
           t == Tail(s)
<1>1. r = [running |-> t, waiting |-> q.waiting, next_waitid |-> q.next_waitid,
           wait_sleeping |-> q.wait_sleeping, wait_process |-> q.wait_process,
           wait_event |-> q.wait_event]
  BY FieldUpdates, Zenon
<1>2. s \in Seq(Nat) /\ s # <<>> /\ IsInjective(s)
  BY Zenon DEF IsQueues, InOnePlace
<1>3. /\ Head(s) \in Nat /\ t \in Seq(Nat) /\ IsInjective(t) /\ Head(s) \notin Range(t)
      /\ Range(s) = Range(t) \cup {Head(s)}
  BY <1>2, InjectiveTail, Zenon
<1>4. /\ IsInjective(q.waiting) /\ Range(s) \cap Range(q.waiting) = {}
      /\ Members(q) = Range(s) \cup Range(q.waiting)
  BY Zenon DEF InOnePlace, Members
<1> HIDE DEF t
<1>5. r.running = t /\ r.waiting = q.waiting /\ r.next_waitid = q.next_waitid
  BY ONLY <1>1, Zenon
<1>6. IsQueues(r, Ev)
  BY ONLY <1>1, <1>3, IsQueues(q, Ev), Zenon DEF IsQueues
<1> HIDE DEF s
<1>7. InOnePlace(r)
  BY ONLY <1>3, <1>4, <1>5, Zenon DEF InOnePlace
<1>8. IdsFresh(r)
  BY ONLY <1>5, IdsFresh(q), Zenon DEF IdsFresh
<1>9. Members(r) = Range(t) \cup Range(q.waiting)
  BY ONLY <1>5, Zenon DEF Members
<1> QED
  BY <1>3, <1>4, <1>6, <1>7, <1>8, <1>9, Zenon DEF s

-----------------------------------------------------------------------------
(* What can still wake a waiting process.                                  *)

(* Every wait id in use is registered under an instant, the end of a       *)
(* process of P, or an event.                                              *)
Registered(q, P) ==
  \A id \in DOMAIN q.waiting :
    \/ \E i \in DOMAIN q.wait_sleeping : q.wait_sleeping[i].id = id
    \/ \E p \in q.wait_process : p[2] = id /\ p[1] \in P
    \/ \E p \in q.wait_event : p[2] = id

SortedByTime(v) == \A i, j \in DOMAIN v : i < j => v[i].at <= v[j].at

(* A set of positions that contains every smaller one is 1 .. its size.    *)
LEMMA PrefixIsInterval ==
  ASSUME NEW m \in Nat, NEW S \in SUBSET (1 .. m),
         \A i \in S : \A j \in 1 .. m : j < i => j \in S
  PROVE  Cardinality(S) \in 0 .. m /\ S = 1 .. Cardinality(S)
<1> DEFINE out == {i \in 1 .. m + 1 : i \notin S}
           k == Earliest(out)
<1>1. m + 1 \in out /\ out \subseteq Nat
  OBVIOUS
<1>2. k \in out /\ \A u \in out : k <= u
  BY <1>1, EarliestFacts, Zenon
<1> HIDE DEF k
<1>3. S = 1 .. k - 1
  <2>1. ASSUME NEW i \in S PROVE i \in 1 .. k - 1
    BY <1>2, SMTT(30)
  <2>2. ASSUME NEW i \in 1 .. k - 1 PROVE i \in S
    BY <1>2, SMTT(30)
  <2> QED
    BY <2>1, <2>2, Zenon
<1>4. k - 1 \in Nat /\ k - 1 \in 0 .. m
  BY <1>2, SMTT(30)
<1>5. Cardinality(1 .. k - 1) = k - 1
  BY <1>4, FS_Interval, SMTT(30)
<1> QED
  BY <1>3, <1>4, <1>5, Zenon

(* u is sorted, and has every registration of v and one for id.            *)
SleeperAdded(v, u, id) ==
  /\ SortedByTime(u)
  /\ \E i \in DOMAIN u : u[i].id = id
  /\ \A j \in DOMAIN v : \E i \in DOMAIN u : u[i].id = v[j].id

(* Inserting a sleeper keeps the order and every registration, and adds    *)
(* the new one.                                                            *)
LEMMA InsertSleeperFacts ==
  ASSUME NEW v \in Seq([at : Nat, id : Nat]), NEW t \in Nat, NEW id \in Nat, SortedByTime(v),
         NEW u, u = InsertSleeper(v, t, id)
  PROVE  SleeperAdded(v, u, id)
<1> DEFINE later == {i \in DOMAIN v : v[i].at > t}
           k == p_index_vecdeque(v, t)
           n == Len(v)
<1>1. n \in Nat /\ DOMAIN v = 1 .. n
      /\ \A i \in 1 .. n : v[i] \in [at : Nat, id : Nat]
  BY LenProperties, ElementOfSeq, Zenon
<1>2. /\ k \in 1 .. n + 1
      /\ \A i \in 1 .. n : i < k => v[i].at <= t
      /\ k \in 1 .. n => t <= v[k].at
  <2>a. \A i \in 1 .. n : v[i].at \in Nat
    BY <1>1, Zenon
  <2>1. CASE later = {}
    <3>1. k = n + 1
      BY <2>1, Zenon DEF p_index_vecdeque
    <3>2. \A i \in 1 .. n : ~(v[i].at > t)
      BY <1>1, <2>1, Zenon
    <3> HIDE DEF k, later
    <3> QED
      BY <1>1, <2>a, <3>1, <3>2, SMTT(30)
  <2>2. CASE later # {}
    <3>1. later \subseteq Nat
      BY <1>1, SMTT(30)
    <3>2. Earliest(later) \in later /\ \A i \in later : Earliest(later) <= i
      BY <2>2, <3>1, EarliestFacts, Zenon
    <3>3. k = Earliest(later)
      BY <2>2, Zenon DEF p_index_vecdeque
    <3>4. k \in 1 .. n /\ v[k].at > t /\ \A i \in 1 .. n : v[i].at > t => k <= i
      BY <1>1, <3>2, <3>3, Zenon
    <3> HIDE DEF k, later
    <3>5. t <= v[k].at
      <4>1. v[k].at \in Nat /\ v[k].at > t
        BY <2>a, <3>4, Zenon
      <4> QED
        BY ONLY <4>1, t \in Nat, SMTT(30)
    <3>6. ASSUME NEW i \in 1 .. n, i < k PROVE v[i].at <= t
      <4>1. v[i].at \in Nat /\ ~(v[i].at > t)
        <5>1. i \in Nat /\ k \in Nat /\ ~(k <= i)
          BY ONLY <1>1, <3>4, <3>6, i \in 1 .. n, SMTT(30)
        <5> QED
          BY <2>a, <3>4, <5>1, Zenon
      <4> QED
        BY ONLY <4>1, t \in Nat, SMTT(30)
    <3> QED
      BY <1>1, <3>4, <3>5, <3>6, SMTT(30)
  <2> QED
    BY <2>1, <2>2, Zenon
<1> HIDE DEF k
<1>3. u = [j \in 1 .. n + 1 |-> IF j < k THEN v[j]
                                ELSE IF j = k THEN [at |-> t, id |-> id]
                                ELSE v[j - 1]]
  BY Zenon DEF InsertSleeper, k
<1>4. \A i, j \in 1 .. n : i < j => v[i].at <= v[j].at
  BY <1>1, Zenon DEF SortedByTime
<1> HIDE DEF n
<1>5. DOMAIN u = 1 .. n + 1
  BY <1>3, Zenon
<1>6. \A j \in 1 .. n + 1 : /\ j < k => j \in 1 .. n /\ u[j] = v[j]
                            /\ j > k => j - 1 \in 1 .. n /\ u[j] = v[j - 1]
                            /\ j = k => u[j] = [at |-> t, id |-> id]
  BY <1>1, <1>2, <1>3, SMTT(30)
<1>7. u[k].at = t /\ u[k].id = id
  BY <1>2, <1>6, SMTT(30)
<1>8. SortedByTime(u)
  <2> SUFFICES ASSUME NEW i \in 1 .. n + 1, NEW j \in 1 .. n + 1, i < j
               PROVE  u[i].at <= u[j].at
    BY <1>5, Zenon DEF SortedByTime
  <2>a. \A l \in 1 .. n : v[l].at \in Nat
    BY <1>1, Zenon
  <2>1. CASE j < k
    <3>1. i < k
      BY ONLY <1>1, <1>2, <2>1, i \in 1 .. n + 1, j \in 1 .. n + 1, i < j, SMTT(30)
    <3>2. i \in 1 .. n /\ u[i] = v[i] /\ j \in 1 .. n /\ u[j] = v[j]
      BY <1>6, <2>1, <3>1, Zenon
    <3> QED
      BY <1>4, <3>2, Zenon
  <2>2. CASE j = k
    BY <1>1, <1>2, <1>6, <1>7, <2>2, Zenon
  <2>3. CASE j > k /\ i < k
    <3>1. j - 1 \in 1 .. n /\ u[j] = v[j - 1] /\ u[i] = v[i] /\ i \in 1 .. n /\ i < j - 1
      BY <1>1, <1>2, <1>6, <2>3, SMTT(30)
    <3> QED
      BY <1>4, <3>1, Zenon
  <2>4. CASE j > k /\ i = k
    <3>1. j - 1 \in 1 .. n /\ u[j] = v[j - 1] /\ u[i].at = t /\ k \in 1 .. n
      <4>1. u[i].at = t /\ j - 1 \in 1 .. n /\ u[j] = v[j - 1]
        BY <1>6, <1>7, <2>4, Zenon
      <4>2. k \in 1 .. n
        BY ONLY <1>1, <1>2, <2>4, j \in 1 .. n + 1, SMTT(30)
      <4> QED
        BY <4>1, <4>2, Zenon
    <3>2. t <= v[k].at /\ v[k].at \in Nat /\ v[j - 1].at \in Nat
      BY <1>2, <2>a, <3>1, Zenon
    <3>3. k = j - 1 \/ k < j - 1
      <4>1. k \in Nat /\ j \in Nat /\ j > k
        BY <1>1, <1>2, <2>4
      <4> QED
        BY ONLY <4>1
    <3>4. CASE k = j - 1
      BY ONLY <3>1, <3>2, <3>4, Zenon
    <3>5. CASE k < j - 1
      <4>1. v[k].at <= v[j - 1].at
        BY ONLY <1>4, <3>1, <3>5, Zenon
      <4>2. t <= v[j - 1].at
        <5> DEFINE x == v[k].at
                   y == v[j - 1].at
        <5>1. t <= x /\ x <= y /\ x \in Nat /\ y \in Nat
          BY <3>2, <4>1, Zenon
        <5> HIDE DEF x, y
        <5>2. t <= y
          BY <5>1, SMTT(30)
        <5> QED
          BY <5>2, Zenon DEF y
      <4> QED
        BY <3>1, <4>2, Zenon
    <3> QED
      BY <3>3, <3>4, <3>5, Zenon
  <2>5. CASE j > k /\ i > k
    <3>1. /\ j - 1 \in 1 .. n /\ u[j] = v[j - 1] /\ i - 1 \in 1 .. n /\ u[i] = v[i - 1]
          /\ i - 1 < j - 1
      BY <1>1, <1>2, <1>6, <2>5, SMTT(30)
    <3> QED
      BY <1>4, <3>1, Zenon
  <2> QED
    BY <1>2, <2>1, <2>2, <2>3, <2>4, <2>5, SMTT(30)
<1>9. \A j \in 1 .. n : \E i \in 1 .. n + 1 : u[i].id = v[j].id
  <2> SUFFICES ASSUME NEW j \in 1 .. n PROVE \E i \in 1 .. n + 1 : u[i].id = v[j].id
    BY Zenon
  <2>1. CASE j < k
    <3>1. j \in 1 .. n + 1 /\ u[j] = v[j]
      BY <1>1, <1>6, <2>1, SMTT(30)
    <3> QED
      BY <3>1, Zenon
  <2>2. CASE j >= k
    <3>1. j + 1 \in 1 .. n + 1 /\ j + 1 > k /\ (j + 1) - 1 = j
      BY <1>1, <1>2, <2>2, SMTT(30)
    <3>2. u[j + 1] = v[j]
      BY <1>6, <3>1, Zenon
    <3> QED
      BY <3>1, <3>2, Zenon
  <2>3. j < k \/ j >= k
    BY ONLY <1>1, <1>2, j \in 1 .. n, SMTT(30)
  <2> QED
    BY <2>1, <2>2, <2>3, Zenon
<1> QED
  BY <1>1, <1>2, <1>5, <1>7, <1>8, <1>9, Zenon DEF SleeperAdded

(* Triggering the events of E consumes every wait id that loses a          *)
(* registration.                                                           *)
LEMMA EventsRegistered ==
  ASSUME NEW Ev, NEW q, IsQueues(q, Ev), NEW P, Registered(q, P),
         NEW E, NEW order \in TriggerOrders(q, EventIds(q, E))
  PROVE  /\ Registered(on_explicit_events(q, E, order), P)
         /\ on_explicit_events(q, E, order).wait_sleeping = q.wait_sleeping
<1> DEFINE events == {x \in q.wait_event : x[1] \notin E}
           r == [q EXCEPT !.wait_event = events]
           o == on_explicit_events(q, E, order)
<1>1. o = trigger_waits(r, order)
  BY Zenon DEF on_explicit_events
<1>2. r = [running |-> q.running, waiting |-> q.waiting, next_waitid |-> q.next_waitid,
           wait_sleeping |-> q.wait_sleeping, wait_process |-> q.wait_process,
           wait_event |-> events]
  BY FieldUpdates, Zenon
<1> HIDE DEF r, o, events
<1>3. /\ DOMAIN o.waiting = DOMAIN q.waiting \ Range(order)
      /\ o.wait_sleeping = q.wait_sleeping /\ o.wait_process = q.wait_process
      /\ o.wait_event = events
  BY <1>1, <1>2, Zenon DEF trigger_waits, Restrict
<1>4. Range(order) = EventIds(q, E) \cap DOMAIN q.waiting
  BY OrderFacts, Zenon
<1>5. ASSUME NEW id \in DOMAIN o.waiting, NEW p \in q.wait_event, p[2] = id
      PROVE  p \in events
  <2>1. id \notin EventIds(q, E)
    BY <1>3, <1>4, <1>5, Zenon
  <2> QED
    BY <1>5, <2>1, Zenon DEF EventIds, events
<1>6. Registered(o, P)
  BY <1>3, <1>5, Zenon DEF Registered
<1> QED
  BY <1>3, <1>6, Zenon DEF o

(* The end of a process consumes every wait id that loses a registration.  *)
LEMMA ProcessOverRegistered ==
  ASSUME NEW Ev, NEW q, IsQueues(q, Ev), NEW P, Registered(q, P),
         NEW pid, pid \notin Members(q),
         NEW order \in TriggerOrders(q, ProcessIds(q, pid))
  PROVE  /\ Registered(on_process_over(q, pid, order), P \ {pid})
         /\ on_process_over(q, pid, order).wait_sleeping = q.wait_sleeping
<1> DEFINE joins == {x \in q.wait_process : x[1] # pid}
           stopped == [q EXCEPT !.running = RemoveFirstPid(q.running, pid)]
           r == [stopped EXCEPT !.wait_process = {x \in stopped.wait_process : x[1] # pid}]
           o == on_process_over(q, pid, order)
<1>1. stopped = q
  <2>1. RemoveFirstPid(q.running, pid) = q.running
    BY RemoveAbsent, Zenon DEF Members
  <2> QED
    BY <2>1, Zenon DEF IsQueues
<1>2. o = trigger_waits(r, order)
  BY Zenon DEF on_process_over
<1>3. r = [q EXCEPT !.wait_process = joins]
  BY <1>1, Zenon
<1> HIDE DEF stopped, r, joins, o
<1>4. r = [running |-> q.running, waiting |-> q.waiting, next_waitid |-> q.next_waitid,
           wait_sleeping |-> q.wait_sleeping, wait_process |-> joins,
           wait_event |-> q.wait_event]
  BY <1>3, FieldUpdates, Zenon
<1>5. /\ DOMAIN o.waiting = DOMAIN q.waiting \ Range(order)
      /\ o.wait_sleeping = q.wait_sleeping /\ o.wait_process = joins
      /\ o.wait_event = q.wait_event
  BY <1>2, <1>4, Zenon DEF trigger_waits, Restrict
<1>6. Range(order) = ProcessIds(q, pid) \cap DOMAIN q.waiting
  BY OrderFacts, Zenon
<1>7. ASSUME NEW id \in DOMAIN o.waiting, NEW p \in q.wait_process, p[2] = id
      PROVE  p \in joins /\ p[1] # pid
  <2>1. id \notin ProcessIds(q, pid)
    BY <1>5, <1>6, <1>7, Zenon
  <2> QED
    BY <1>7, <2>1, Zenon DEF ProcessIds, joins
<1>8. Registered(o, P \ {pid})
  BY <1>5, <1>7, Zenon DEF Registered
<1> QED
  BY <1>5, <1>8, Zenon DEF o

(* The timer interrupt pops the sleepers that are due, all of which are    *)
(* consumed; the others stay, in order.                                    *)
LEMMA TickRegistered ==
  ASSUME NEW Ev, NEW q, IsQueues(q, Ev), NEW P, Registered(q, P),
         SortedByTime(q.wait_sleeping), NEW order \in TickOrders(q)
  PROVE  /\ Registered(on_tick(q, order), P)
         /\ SortedByTime(on_tick(q, order).wait_sleeping)
<1> DEFINE v == q.wait_sleeping
           m == Len(v)
           n == Cardinality(Expired(q))
           left == [i \in 1 .. m - n |-> v[i + n]]
           r == [q EXCEPT !.wait_sleeping = left]
           o == on_tick(q, order)
<1>1. v \in Seq([at : Nat, id : Nat])
  BY Zenon DEF IsQueues
<1>2. /\ m \in Nat /\ DOMAIN v = 1 .. m
      /\ \A i \in 1 .. m : v[i] \in [at : Nat, id : Nat]
  BY <1>1, LenProperties, ElementOfSeq, Zenon
<1>3. Expired(q) \in SUBSET (1 .. m)
  BY <1>2, Zenon DEF Expired
<1>4. \A i \in Expired(q) : \A j \in 1 .. m : j < i => j \in Expired(q)
  <2> SUFFICES ASSUME NEW i \in Expired(q), NEW j \in 1 .. m, j < i PROVE j \in Expired(q)
    BY Zenon
  <2>1. v[i].at = 0 /\ i \in DOMAIN v /\ j \in DOMAIN v
    BY <1>2, Zenon DEF Expired
  <2>2. v[j].at <= 0
    BY <2>1, Zenon DEF SortedByTime
  <2>3. v[j].at \in Nat
    BY <1>2, Zenon
  <2>4. v[j].at = 0
    BY <2>2, <2>3, SMTT(30)
  <2> QED
    BY <2>1, <2>4, Zenon DEF Expired
<1> HIDE DEF m
<1>5. n \in 0 .. m /\ Expired(q) = 1 .. n
  BY <1>2, <1>3, <1>4, PrefixIsInterval, Zenon
<1>6. o = trigger_waits(r, order)
  BY Zenon DEF on_tick, m
<1>7. order \in TriggerOrders(q, ExpiredIds(q))
  BY Zenon DEF TickOrders
<1> HIDE DEF n, left
<1>8. r = [running |-> q.running, waiting |-> q.waiting, next_waitid |-> q.next_waitid,
           wait_sleeping |-> left, wait_process |-> q.wait_process,
           wait_event |-> q.wait_event]
  BY FieldUpdates, Zenon
<1> HIDE DEF r, o
<1>9. /\ DOMAIN o.waiting = DOMAIN q.waiting \ Range(order)
      /\ o.wait_sleeping = left /\ o.wait_process = q.wait_process
      /\ o.wait_event = q.wait_event
  BY <1>6, <1>8, Zenon DEF trigger_waits, Restrict
<1>10. Range(order) = ExpiredIds(q) \cap DOMAIN q.waiting
  BY <1>7, OrderFacts, Zenon
<1>11. DOMAIN left = 1 .. m - n /\ \A i \in 1 .. m - n : i + n \in 1 .. m /\ left[i] = v[i + n]
  BY <1>2, <1>5, SMTT(30) DEF left
<1>12. SortedByTime(left)
  <2> SUFFICES ASSUME NEW i \in 1 .. m - n, NEW j \in 1 .. m - n, i < j
               PROVE  left[i].at <= left[j].at
    BY <1>11, Zenon DEF SortedByTime
  <2>1. i + n \in DOMAIN v /\ j + n \in DOMAIN v /\ i + n < j + n
    BY <1>2, <1>5, <1>11, SMTT(30)
  <2>2. v[i + n].at <= v[j + n].at
    BY <2>1, Zenon DEF SortedByTime
  <2> QED
    BY <1>11, <2>2, Zenon
<1>13. ASSUME NEW id \in DOMAIN o.waiting, NEW i \in DOMAIN v, v[i].id = id
       PROVE  \E j \in DOMAIN left : left[j].id = id
  <2>1. id \notin ExpiredIds(q)
    BY <1>9, <1>10, <1>13, Zenon
  <2>2. i \notin Expired(q)
    BY <1>13, <2>1, Zenon DEF ExpiredIds
  <2>3. i \in 1 .. m /\ i > n
    BY <1>2, <1>5, <2>2, SMTT(30)
  <2>4. i - n \in 1 .. m - n /\ (i - n) + n = i
    BY <1>2, <1>5, <2>3, SMTT(30)
  <2>5. left[i - n] = v[i]
    BY <1>11, <2>4, Zenon
  <2> QED
    BY <1>11, <1>13, <2>4, <2>5, Zenon
<1>14. Registered(o, P)
  BY <1>9, <1>13, Zenon DEF Registered
<1> QED
  BY <1>9, <1>12, <1>14, Zenon DEF o

(* A wait that is registered at all has a condition that can come true: a  *)
(* wait for a process that is over is no wait (reduce_queues).             *)
LEMMA GiveRegistered ==
  ASSUME NEW Ev, NEW q, IsQueues(q, Ev), NEW P, Registered(q, P), Members(q) \subseteq P,
         SortedByTime(q.wait_sleeping), NEW pid \in P, NEW w, IsWaitFor(w, Ev)
  PROVE  /\ Registered(give(q, pid, w), P)
         /\ SortedByTime(give(q, pid, w).wait_sleeping)
         /\ w.times = {} => give(q, pid, w).wait_sleeping = q.wait_sleeping
<1> DEFINE s == reduce_queues(w, q, pid)
           g == give(q, pid, w)
<1>1. CASE s = WaitForNone
  <2>1. g = [q EXCEPT !.running = Append(q.running, pid)]
    BY <1>1, Zenon DEF give
  <2> DEFINE a == Append(q.running, pid)
  <2> HIDE DEF a, s, g
  <2>2. g = [running |-> a, waiting |-> q.waiting, next_waitid |-> q.next_waitid,
             wait_sleeping |-> q.wait_sleeping, wait_process |-> q.wait_process,
             wait_event |-> q.wait_event]
    BY <2>1, FieldUpdates, Zenon DEF a
  <2>3. g.waiting = q.waiting /\ g.wait_sleeping = q.wait_sleeping
        /\ g.wait_process = q.wait_process /\ g.wait_event = q.wait_event
    BY ONLY <2>2, Zenon
  <2>4. Registered(g, P)
    BY <2>3, Zenon DEF Registered
  <2> QED
    BY <2>3, <2>4, Zenon DEF g
<1>2. CASE s # WaitForNone
  <2> DEFINE id == q.next_waitid
             v == q.wait_sleeping
             sleeping == IF s.times = {} THEN v ELSE InsertSleeper(v, Earliest(s.times), id)
  <2>1. g = Enqueue(q, pid, s)
    BY <1>2, Zenon DEF give
  <2>2. /\ g.waiting = [x \in DOMAIN q.waiting \cup {id} |->
                          IF x = id THEN pid ELSE q.waiting[x]]
        /\ g.wait_sleeping = sleeping
        /\ g.wait_process = q.wait_process \cup (s.processes \X {id})
        /\ g.wait_event = q.wait_event \cup (s.events \X {id})
    BY <2>1 DEF Enqueue
  <2>3. s = reduce(w) /\ \A p \in w.processes : p = pid \/ process_exists(q, p)
    BY <1>2, Zenon DEF reduce_queues
  <2>4. s = [times     |-> IF w.times = {} THEN {} ELSE {Earliest(w.times)},
             processes |-> w.processes,
             events    |-> w.events]
    BY <2>3, Zenon DEF IsWaitFor, reduce
  <2>5. s.processes \subseteq P
    BY <2>3, <2>4, SMTT(30) DEF process_exists, Members
  <2>6. w.times = {} => s.times = {}
    BY <2>4, SMTT(30)
  <2>7. IsWaitFor(s, Ev)
    BY ReduceType, Zenon
  <2> HIDE DEF s, g
  <2>8. s.times # {} \/ s.processes # {} \/ s.events # {}
    BY <1>2, <2>7, Zenon DEF IsWaitFor, WaitForNone
  <2>9. v \in Seq([at : Nat, id : Nat]) /\ id \in Nat
    BY Zenon DEF IsQueues
  <2>10. s.times # {} => Earliest(s.times) \in Nat
    BY <2>7, EarliestFacts, Zenon DEF IsWaitFor
  <2>11. /\ SortedByTime(sleeping)
         /\ s.times # {} => \E i \in DOMAIN sleeping : sleeping[i].id = id
         /\ \A j \in DOMAIN v : \E i \in DOMAIN sleeping : sleeping[i].id = v[j].id
    <3>1. CASE s.times = {}
      BY <3>1, Zenon
    <3>2. CASE s.times # {}
      <4>1. sleeping = InsertSleeper(v, Earliest(s.times), id)
        BY <3>2, Zenon
      <4> HIDE DEF sleeping, v, id
      <4>2. SortedByTime(v)
        BY Zenon DEF v
      <4>3. v \in Seq([at : Nat, id : Nat])
        BY <2>9, Zenon
      <4>4. id \in Nat
        BY <2>9, Zenon
      <4>5. Earliest(s.times) \in Nat
        BY <2>10, <3>2, Zenon
      <4>6. SleeperAdded(v, sleeping, id)
        BY ONLY <4>1, <4>2, <4>3, <4>4, <4>5, InsertSleeperFacts, Zenon
      <4> QED
        BY <4>6, Zenon DEF SleeperAdded
    <3> QED
      BY <3>1, <3>2, Zenon
  <2> HIDE DEF sleeping
  <2>12. ASSUME NEW x \in DOMAIN q.waiting
         PROVE  \/ \E i \in DOMAIN sleeping : sleeping[i].id = x
                \/ \E p \in g.wait_process : p[2] = x /\ p[1] \in P
                \/ \E p \in g.wait_event : p[2] = x
    <3>1. CASE \E i \in DOMAIN v : v[i].id = x
      BY <2>11, <3>1, Zenon
    <3>2. CASE \E p \in q.wait_process : p[2] = x /\ p[1] \in P
      BY <2>2, <3>2, Zenon
    <3>3. CASE \E p \in q.wait_event : p[2] = x
      BY <2>2, <3>3, Zenon
    <3> QED
      BY <3>1, <3>2, <3>3, Zenon DEF Registered
  <2>13. \/ \E i \in DOMAIN sleeping : sleeping[i].id = id
         \/ \E p \in g.wait_process : p[2] = id /\ p[1] \in P
         \/ \E p \in g.wait_event : p[2] = id
    <3>1. CASE s.times # {}
      BY <2>11, <3>1, Zenon
    <3>2. CASE s.processes # {}
      <4>1. PICK p \in s.processes : TRUE
        BY <3>2, Zenon
      <4>2. <<p, id>> \in g.wait_process /\ p \in P
        BY <2>2, <2>5, <4>1, Zenon
      <4> QED
        BY <4>2, Zenon
    <3>3. CASE s.events # {}
      <4>1. PICK e \in s.events : TRUE
        BY <3>3, Zenon
      <4>2. <<e, id>> \in g.wait_event
        BY <2>2, <4>1, Zenon
      <4> QED
        BY <4>2, Zenon
    <3> QED
      BY <2>8, <3>1, <3>2, <3>3, Zenon
  <2>14. DOMAIN g.waiting = DOMAIN q.waiting \cup {id}
    BY <2>2, Zenon
  <2>15. Registered(g, P)
    BY <2>2, <2>12, <2>13, <2>14, Zenon DEF Registered
  <2>16. w.times = {} => g.wait_sleeping = v
    BY <2>2, <2>6, Zenon DEF sleeping
  <2> QED
    BY <2>2, <2>11, <2>15, <2>16, Zenon DEF g
<1> QED
  BY <1>1, <1>2, Zenon

-----------------------------------------------------------------------------
(* What each step of the scheduler preserves about its queues.             *)
Sound(q) == IsQueues(q, Events) /\ InOnePlace(q) /\ IdsFresh(q)

(* The inductive invariant.  NeverTwice and NoneLost are not inductive by  *)
(* themselves: the wait id a process is given, and the process id a new    *)
(* process is given, have to be unused.                                    *)
SchedIInv ==
  /\ SchedTypeOK
  /\ NeverTwice
  /\ NoneLost
  /\ IdsFresh(queues)
  /\ \A p \in processes : p < next_pid

(* The part of the invariant that a switch re-establishes.                 *)
Placed(S) ==
  /\ Sound(queues')
  /\ running' \in Nat \cup {None}
  /\ running' \notin Members(queues')
  /\ S = Members(queues') \cup ({running'} \ {None})

LEMMA SwitchToNextFacts ==
  ASSUME NEW q, Sound(q), SwitchToNext(q)
  PROVE  Placed(Members(q)) /\ running_timeslice_end' \in Nat \cup {None}
<1>1. None \notin Nat /\ TIME_SLICE \in Nat
  BY SchedulerAssumption, Zenon
<1>2. Members(q) \subseteq Nat
  BY DEF Sound, IsQueues, Members, Range
<1>3. CASE q.running = <<>>
  <2>1. queues' = q /\ running' = None /\ running_timeslice_end' = None
    BY <1>3, Zenon DEF SwitchToNext
  <2> QED
    BY <1>1, <1>2, <2>1, Zenon DEF Placed, Sound
<1>4. CASE q.running # <<>>
  <2> DEFINE r == [q EXCEPT !.running = Tail(q.running)]
             h == Head(q.running)
  <2>1. queues' = r /\ running' = h /\ running_timeslice_end' = TIME_SLICE
    BY <1>4, Zenon DEF SwitchToNext
  <2>2. /\ Sound(r) /\ h \in Nat /\ h \notin Members(r)
        /\ Members(q) = Members(r) \cup {h}
    BY <1>4, TakeFacts, Zenon DEF Sound
  <2> HIDE DEF r, h
  <2> QED
    BY <1>1, <2>1, <2>2, Zenon DEF Placed
<1> QED
  BY <1>3, <1>4, Zenon

LEMMA SwitchCurrentOrNextFacts ==
  ASSUME NEW q, Sound(q), SwitchCurrentOrNext(q),
         running \in Nat \cup {None}, running \notin Members(q)
  PROVE  Placed(Members(q) \cup ({running} \ {None}))
<1>1. None \notin Nat
  BY SchedulerAssumption, Zenon
<1>2. CASE running = None /\ q.running # <<>>
  <2> DEFINE r == [q EXCEPT !.running = Tail(q.running)]
             h == Head(q.running)
  <2>1. queues' = r /\ running' = h
    BY <1>2, Zenon DEF SwitchCurrentOrNext
  <2>2. /\ Sound(r) /\ h \in Nat /\ h \notin Members(r)
        /\ Members(q) = Members(r) \cup {h}
    BY <1>2, TakeFacts, Zenon DEF Sound
  <2> HIDE DEF r, h
  <2> QED
    BY <1>1, <1>2, <2>1, <2>2, Zenon DEF Placed
<1>3. CASE ~(running = None /\ q.running # <<>>)
  <2>1. queues' = q /\ running' = running
    BY <1>3, Zenon DEF SwitchCurrentOrNext
  <2> QED
    BY <2>1, Zenon DEF Placed, Sound
<1> QED
  BY <1>2, <1>3, Zenon

LEMMA SwitchFacts ==
  ASSUME NEW q, Sound(q), NEW w, IsWaitFor(w, Events), Switch(q, w),
         running \in Nat \cup {None}, running \notin Members(q)
  PROVE  /\ Placed(Members(q) \cup ({running} \ {None}))
         /\ running_timeslice_end' \in Nat \cup {None}
<1>1. CASE running = None
  <2>1. SwitchToNext(q)
    BY <1>1, Zenon DEF Switch
  <2> QED
    BY <1>1, <2>1, SwitchToNextFacts, Zenon
<1>2. CASE running # None
  <2> DEFINE g == give(q, running, w)
  <2>1. SwitchToNext(g)
    BY <1>2, Zenon DEF Switch
  <2>2. Sound(g) /\ Members(g) = Members(q) \cup {running}
    BY <1>2, GiveFacts, SMTT(30) DEF Sound
  <2> HIDE DEF g
  <2> QED
    BY <1>2, <2>1, <2>2, SwitchToNextFacts, Zenon
<1> QED
  BY <1>1, <1>2, Zenon

LEMMA FirstElement ==
  ASSUME NEW S, NEW s \in Seq(S), s # <<>>
  PROVE  s[1] \in S
<1>1. Len(s) \in Nat /\ Len(s) # 0
  BY LenProperties, EmptySeq, Zenon
<1>2. 1 \in 1 .. Len(s)
  BY <1>1, SMTT(30)
<1> QED
  BY <1>2, ElementOfSeq, Zenon

(* The timer is set to an instant or to nothing.                           *)
LEMMA NextTickType ==
  ASSUME NEW q, IsQueues(q, Events), NEW slice \in Nat \cup {None}
  PROVE  next_tick(q, slice) \in Nat \cup {None}
<1> DEFINE wake == next_wakeup(q, None)
           ends == {wake, slice} \ {None}
<1>1. MIN_EXEC_TIME \in Nat
  BY SchedulerAssumption, Zenon
<1>2. wake \in Nat \cup {None}
  <2>1. q.wait_sleeping \in Seq([at : Nat, id : Nat])
    BY Zenon DEF IsQueues
  <2>2. q.wait_sleeping # <<>> => q.wait_sleeping[1] \in [at : Nat, id : Nat]
    BY <2>1, FirstElement, Zenon
  <2> QED
    BY <2>2, Zenon DEF next_wakeup
<1> HIDE DEF wake
<1>3. ends \cup {MIN_EXEC_TIME} \subseteq Nat
  BY <1>1, <1>2, Zenon
<1>4. Earliest(ends \cup {MIN_EXEC_TIME}) \in Nat
  BY <1>3, EarliestFacts, Zenon
<1> QED
  BY <1>4, Zenon DEF next_tick, wake

LEMMA SetDeadlineType ==
  ASSUME NEW old \in Nat \cup {None}, SetDeadline(old), IsQueues(queues', Events),
         running_timeslice_end' \in Nat \cup {None}
  PROVE  deadline' \in Nat \cup {None}
BY NextTickType, Zenon DEF SetDeadline

-----------------------------------------------------------------------------

LEMMA InitIInv == SchedInit => SchedIInv
<1> SUFFICES ASSUME SchedInit PROVE SchedIInv
  BY Zenon
<1>1. None \notin Nat
  BY SchedulerAssumption, Zenon
<1>2. queues = [running |-> <<1>>, waiting |-> <<>>, next_waitid |-> 0,
                wait_sleeping |-> <<>>, wait_process |-> {}, wait_event |-> {}]
  BY Zenon DEF SchedInit, Queues_new
<1>3. DOMAIN <<1>> = {1} /\ <<1>>[1] = 1 /\ <<1>> \in Seq(Nat)
  BY SMTT(30)
<1>4. Range(<<1>>) = {1} /\ IsInjective(<<1>>)
  BY <1>3, Zenon DEF Range, IsInjective
<1>5. DOMAIN <<>> = {} /\ <<>> \in [{} -> Nat] /\ <<>> \in Seq([at : Nat, id : Nat])
  BY SMTT(30)
<1>6. Range(<<>>) = {} /\ IsInjective(<<>>)
  BY <1>5, Zenon DEF Range, IsInjective
<1>7. IsFiniteSet({})
  BY FS_EmptySet, Zenon
<1>8. IsQueues(queues, Events)
  BY <1>2, <1>3, <1>5, <1>7, Zenon DEF IsQueues
<1>9. Members(queues) = {1} /\ InOnePlace(queues) /\ IdsFresh(queues)
  BY <1>2, <1>4, <1>5, <1>6, Zenon DEF Members, InOnePlace, IdsFresh
<1> QED
  BY <1>1, <1>8, <1>9, SMTT(30)
  DEF SchedInit, SchedIInv, SchedTypeOK, NeverTwice, NoneLost

(* Every step of the scheduler preserves the invariant.                    *)
LEMMA NextIInv == SchedIInv /\ [SchedNext]_schedVars => SchedIInv'
<1> SUFFICES ASSUME SchedIInv, [SchedNext]_schedVars PROVE SchedIInv'
  BY Zenon
<1>1. /\ processes \in SUBSET Nat
      /\ Sound(queues)
      /\ running \in Nat \cup {None} /\ running \notin Members(queues)
      /\ running_timeslice_end \in Nat \cup {None}
      /\ next_pid \in Nat
      /\ deadline \in Nat \cup {None}
      /\ processes = Members(queues) \cup ({running} \ {None})
      /\ \A p \in processes : p < next_pid
  BY Zenon DEF SchedIInv, SchedTypeOK, NeverTwice, NoneLost, Sound
<1>2. None \notin Nat
  BY SchedulerAssumption, Zenon
<1>3. ASSUME Placed(processes'), processes' \in SUBSET Nat,
             running_timeslice_end' \in Nat \cup {None},
             deadline' \in Nat \cup {None}, next_pid' \in Nat,
             \A p \in processes' : p < next_pid'
      PROVE  SchedIInv'
  BY <1>3, Zenon DEF Placed, Sound, SchedIInv, SchedTypeOK, NeverTwice, NoneLost
<1>4. ASSUME NEW ok \in BOOLEAN, Spawn(ok) PROVE SchedIInv'
  <2>1. next_pid' = next_pid + 1 /\ running' = running
        /\ running_timeslice_end' = running_timeslice_end /\ deadline' = deadline
    BY <1>4, Zenon DEF Spawn
  <2>2. CASE ok
    <3>1. queues' = give(queues, next_pid, WaitForNone)
          /\ processes' = processes \cup {next_pid}
      BY <1>4, <2>2, Zenon DEF Spawn
    <3>2. IsWaitFor(WaitForNone, Events)
      BY Zenon DEF IsWaitFor, WaitForNone
    <3>3. next_pid \notin processes
      BY <1>1, SMTT(30)
    <3>4. Sound(queues') /\ Members(queues') = Members(queues) \cup {next_pid}
      BY <1>1, <3>1, <3>2, <3>3, GiveFacts, SMTT(30) DEF Sound
    <3>5. Placed(processes')
      BY <1>1, <1>2, <2>1, <3>1, <3>3, <3>4, Zenon DEF Placed
    <3>6. \A p \in processes' : p < next_pid'
      BY <1>1, <2>1, <3>1, SMTT(30)
    <3> QED
      BY <1>1, <1>3, <2>1, <3>1, <3>5, <3>6, SMTT(30)
  <2>3. CASE ~ok
    <3>1. queues' = queues /\ processes' = processes
      BY <1>4, <2>3, Zenon DEF Spawn
    <3>2. Placed(processes')
      BY <1>1, <2>1, <3>1, Zenon DEF Placed
    <3>3. \A p \in processes' : p < next_pid'
      BY <1>1, <2>1, <3>1, SMTT(30)
    <3> QED
      BY <1>1, <1>3, <2>1, <3>1, <3>2, <3>3, SMTT(30)
  <2> QED
    BY <2>2, <2>3, Zenon
<1>5. ASSUME NEW E, NEW w \in Waits, SyscallSwitch(E, w) PROVE SchedIInv'
  <2>1. /\ SetDeadline(deadline)
        /\ processes' = processes /\ next_pid' = next_pid
    BY <1>5, Zenon DEF SyscallSwitch
  <2>2. PICK order \in TriggerOrders(queues, EventIds(queues, E)) :
          Switch(on_explicit_events(queues, E, order), w)
    BY <1>5, Zenon DEF SyscallSwitch
  <2> DEFINE q == on_explicit_events(queues, E, order)
  <2>3. Sound(q) /\ Members(q) = Members(queues)
    BY <1>1, EventsFacts, Zenon DEF Sound
  <2> HIDE DEF q
  <2>4. Switch(q, w) /\ IsWaitFor(w, Events)
    BY <2>2, SchedulerAssumption, Zenon DEF q
  <2>5. Placed(processes') /\ running_timeslice_end' \in Nat \cup {None}
    BY <1>1, <2>1, <2>3, <2>4, SwitchFacts, Zenon
  <2>6. deadline' \in Nat \cup {None}
    BY <1>1, <2>1, <2>5, SetDeadlineType, Zenon DEF Placed, Sound
  <2> QED
    BY <1>1, <1>3, <2>1, <2>5, <2>6, Zenon
<1>6. ASSUME NEW w \in Waits, RepeatSwitch(w) PROVE SchedIInv'
  <2>1. /\ Switch(queues, w) /\ deadline' = deadline
        /\ processes' = processes /\ next_pid' = next_pid
    BY <1>6, Zenon DEF RepeatSwitch
  <2>2. Placed(processes') /\ running_timeslice_end' \in Nat \cup {None}
    BY <1>1, <2>1, SwitchFacts, SchedulerAssumption, Zenon
  <2> QED
    BY <1>1, <1>3, <2>1, <2>2, Zenon
<1>7. ASSUME NEW E, TriggerEvents(E) PROVE SchedIInv'
  <2>1. PICK order \in TriggerOrders(queues, EventIds(queues, E)) :
          queues' = on_explicit_events(queues, E, order)
    BY <1>7, Zenon DEF TriggerEvents
  <2>2. UNCHANGED <<processes, running, running_timeslice_end, next_pid, deadline>>
    BY <1>7, Zenon DEF TriggerEvents
  <2>3. Sound(queues') /\ Members(queues') = Members(queues)
    BY <1>1, <2>1, EventsFacts, Zenon DEF Sound
  <2>4. Placed(processes')
    BY <1>1, <2>2, <2>3, Zenon DEF Placed
  <2> QED
    BY <1>1, <1>3, <2>2, <2>4, Zenon
<1>8. ASSUME NEW E, Terminate(E) PROVE SchedIInv'
  <2>1. running # None /\ processes' = processes \ {running}
        /\ next_pid' = next_pid /\ deadline' = deadline
    BY <1>8, Zenon DEF Terminate
  <2>2. PICK order \in TriggerOrders(queues, ProcessIds(queues, running)) :
          \E order2 \in TriggerOrders(on_process_over(queues, running, order),
                          EventIds(on_process_over(queues, running, order), E)) :
            SwitchToNext(on_explicit_events(
                           on_process_over(queues, running, order), E, order2))
    BY <1>8, Zenon DEF Terminate
  <2> DEFINE q == on_process_over(queues, running, order)
  <2>3. PICK order2 \in TriggerOrders(q, EventIds(q, E)) :
          SwitchToNext(on_explicit_events(q, E, order2))
    BY <2>2, Zenon
  <2>4. Sound(q) /\ Members(q) = Members(queues)
    BY <1>1, ProcessOverFacts, Zenon DEF Sound
  <2> HIDE DEF q
  <2> DEFINE r == on_explicit_events(q, E, order2)
  <2>5. Sound(r) /\ Members(r) = Members(q)
    BY <2>4, EventsFacts, Zenon DEF Sound
  <2> HIDE DEF r
  <2>6. SwitchToNext(r)
    BY <2>3, Zenon DEF r
  <2>7. Placed(Members(queues)) /\ running_timeslice_end' \in Nat \cup {None}
    BY <2>4, <2>5, <2>6, SwitchToNextFacts, Zenon
  <2>8. processes' = Members(queues)
    BY <1>1, <2>1, Zenon
  <2> QED
    BY <1>1, <1>3, <2>1, <2>7, <2>8, Zenon
<1>9. ASSUME NEW E, DynamicIrq(E) PROVE SchedIInv'
  <2>1. PICK order \in TriggerOrders(queues, EventIds(queues, E)) :
          SwitchCurrentOrNext(on_explicit_events(queues, E, order))
    BY <1>9, Zenon DEF DynamicIrq
  <2>2. UNCHANGED <<processes, next_pid, deadline>>
    BY <1>9, Zenon DEF DynamicIrq
  <2> DEFINE q == on_explicit_events(queues, E, order)
  <2>3. Sound(q) /\ Members(q) = Members(queues)
    BY <1>1, EventsFacts, Zenon DEF Sound
  <2>4. running_timeslice_end' = running_timeslice_end
    BY <2>1, Zenon DEF SwitchCurrentOrNext
  <2> HIDE DEF q
  <2>5. SwitchCurrentOrNext(q)
    BY <2>1, Zenon DEF q
  <2>6. Placed(processes')
    BY <1>1, <2>2, <2>3, <2>5, SwitchCurrentOrNextFacts, Zenon
  <2> QED
    BY <1>1, <1>3, <2>2, <2>4, <2>6, Zenon
<1>10. CASE Tick
  <2>1. PICK order \in TickOrders(queues) : Switch(on_tick(queues, order), WaitForNone)
    BY <1>10, Zenon DEF Tick
  <2>2. SetDeadline(None) /\ processes' = processes /\ next_pid' = next_pid
    BY <1>10, Zenon DEF Tick
  <2> DEFINE q == on_tick(queues, order)
  <2>3. Sound(q) /\ Members(q) = Members(queues)
    BY <1>1, TickFacts, Zenon DEF Sound
  <2> HIDE DEF q
  <2>4. Switch(q, WaitForNone) /\ IsWaitFor(WaitForNone, Events)
    BY <2>1, Zenon DEF q, IsWaitFor, WaitForNone
  <2>5. Placed(processes') /\ running_timeslice_end' \in Nat \cup {None}
    BY <1>1, <2>2, <2>3, <2>4, SwitchFacts, Zenon
  <2>6. deadline' \in Nat \cup {None}
    BY <2>2, <2>5, SetDeadlineType, Zenon DEF Placed, Sound
  <2> QED
    BY <1>1, <1>3, <2>2, <2>5, <2>6, Zenon
<1>11. CASE Elapse
  <2>1. UNCHANGED <<processes, running, next_pid>>
    BY <1>11, Zenon DEF Elapse
  <2>2. \A t \in Nat \cup {None} : Later(t) \in Nat \cup {None} /\ (t \in Nat => Later(t) \in Nat)
    BY <1>2, SMTT(30) DEF Later
  <2>3. running_timeslice_end' \in Nat \cup {None} /\ deadline' \in Nat \cup {None}
    BY <1>1, <1>11, <2>2, Zenon DEF Elapse
  <2> DEFINE v == queues.wait_sleeping
             n == Len(v)
             u == [i \in 1 .. n |-> [at |-> Later(v[i].at), id |-> v[i].id]]
  <2>4. v \in Seq([at : Nat, id : Nat])
    BY <1>1, Zenon DEF Sound, IsQueues
  <2>5. n \in Nat /\ \A i \in 1 .. n : v[i] \in [at : Nat, id : Nat]
    BY <2>4, LenProperties, ElementOfSeq, Zenon
  <2>6. u \in Seq([at : Nat, id : Nat])
    <3> HIDE DEF v, n
    <3>1. \A i \in 1 .. n : v[i].at \in Nat /\ v[i].id \in Nat /\ Later(v[i].at) \in Nat
      BY <2>2, <2>5, Zenon
    <3>2. u \in [1 .. n -> [at : Nat, id : Nat]]
      BY <3>1, Zenon
    <3> QED
      BY <2>5, <3>2, FunctionIsSeq, Zenon
  <2>7. queues' = [queues EXCEPT !.wait_sleeping = u]
    BY <1>11, Zenon DEF Elapse
  <2> HIDE DEF u
  <2>8. IsQueues(queues, Events)
    BY <1>1, Zenon DEF Sound
  <2>9. queues' = [running |-> queues.running, waiting |-> queues.waiting,
                   next_waitid |-> queues.next_waitid, wait_sleeping |-> u,
                   wait_process |-> queues.wait_process,
                   wait_event |-> queues.wait_event]
    BY <2>7, <2>8, FieldUpdates, Zenon
  <2>10. Sound(queues') /\ Members(queues') = Members(queues)
    <3>1. IsQueues(queues', Events)
      BY ONLY <2>6, <2>8, <2>9, Zenon DEF IsQueues
    <3> QED
      BY <1>1, <2>9, <3>1, Zenon DEF Sound, InOnePlace, IdsFresh, Members
  <2>11. Placed(processes')
    BY <1>1, <2>1, <2>10, Zenon DEF Placed
  <2> QED
    BY <1>1, <1>3, <2>1, <2>3, <2>11, Zenon
<1>12. CASE UNCHANGED schedVars
  BY <1>12, Zenon DEF schedVars, SchedIInv, SchedTypeOK, NeverTwice, NoneLost
<1> QED
  BY <1>4, <1>5, <1>6, <1>7, <1>8, <1>9, <1>10, <1>11, <1>12, Zenon DEF SchedNext

(* In every reachable state the counters are ahead of the ids in use: give *)
(* (queues.rs) never overwrites a process that waits, spawn (scheduler.rs) *)
(* never one that exists; together with what rests on it, that no process  *)
(* is in two places and none is dropped.                                   *)
THEOREM SchedInductive == SchedSpec => []SchedIInv
BY InitIInv, NextIInv, PTL DEF SchedSpec

(* "A process will never be returned twice to the scheduler": for any      *)
(* number of processes, events and kinds of wait, and any order of the     *)
(* triggers, no process is ever in two places.                             *)
THEOREM SchedNeverTwice == SchedSpec => []NeverTwice
<1>1. SchedIInv => NeverTwice
  BY Zenon DEF SchedIInv
<1> QED
  BY <1>1, SchedInductive, PTL

(* The processes that exist are exactly those that run, are ready or wait: *)
(* whatever happens, switch() finds the process it took from the queue.    *)
THEOREM SchedNoneLost == SchedSpec => []NoneLost
<1>1. SchedIInv => NoneLost
  BY Zenon DEF SchedIInv
<1> QED
  BY <1>1, SchedInductive, PTL

-----------------------------------------------------------------------------
(* Wakeups.  WakeupsPending is inductive once the invariant above is known. *)

(* The queues after a step have the wait tables of q.                      *)
SameWaits(q) ==
  /\ queues'.waiting = q.waiting
  /\ queues'.wait_sleeping = q.wait_sleeping
  /\ queues'.wait_process = q.wait_process
  /\ queues'.wait_event = q.wait_event

(* Taking the head of the run queue leaves the wait tables alone.          *)
LEMMA TakeKeepsWaits ==
  ASSUME NEW q, IsQueues(q, Events), NEW t, queues' = [q EXCEPT !.running = t]
  PROVE  SameWaits(q)
<1>1. queues' = [running |-> t, waiting |-> q.waiting, next_waitid |-> q.next_waitid,
                 wait_sleeping |-> q.wait_sleeping, wait_process |-> q.wait_process,
                 wait_event |-> q.wait_event]
  BY FieldUpdates, Zenon
<1> QED
  BY <1>1, Zenon DEF SameWaits

LEMMA SwitchToNextKeepsWaits ==
  ASSUME NEW q, IsQueues(q, Events), SwitchToNext(q)
  PROVE  SameWaits(q)
<1>1. CASE q.running = <<>>
  BY <1>1, Zenon DEF SwitchToNext, SameWaits
<1>2. CASE q.running # <<>>
  BY <1>2, TakeKeepsWaits, Zenon DEF SwitchToNext
<1> QED
  BY <1>1, <1>2, Zenon

LEMMA SwitchCurrentOrNextKeepsWaits ==
  ASSUME NEW q, IsQueues(q, Events), SwitchCurrentOrNext(q)
  PROVE  SameWaits(q)
<1>1. CASE ~(running = None /\ q.running # <<>>)
  BY <1>1, Zenon DEF SwitchCurrentOrNext, SameWaits
<1>2. CASE running = None /\ q.running # <<>>
  BY <1>2, TakeKeepsWaits, Zenon DEF SwitchCurrentOrNext
<1> QED
  BY <1>1, <1>2, Zenon

(* A process that is put away is registered under what it waits for.       *)
LEMMA SwitchRegistered ==
  ASSUME NEW q, Sound(q), NEW P, Registered(q, P), SortedByTime(q.wait_sleeping),
         Members(q) \subseteq P, running \in Nat \cup {None}, running # None => running \in P,
         running \notin Members(q),
         NEW w, IsWaitFor(w, Events), Switch(q, w)
  PROVE  /\ Registered(queues', P)
         /\ SortedByTime(queues'.wait_sleeping)
         /\ w.times = {} => queues'.wait_sleeping = q.wait_sleeping
<1>1. CASE running = None
  <2>1. SwitchToNext(q)
    BY <1>1, Zenon DEF Switch
  <2>2. SameWaits(q)
    BY <2>1, SwitchToNextKeepsWaits, Zenon DEF Sound
  <2> QED
    BY <2>2, Zenon DEF SameWaits, Registered
<1>2. CASE running # None
  <2> DEFINE g == give(q, running, w)
  <2>1. SwitchToNext(g)
    BY <1>2, Zenon DEF Switch
  <2>2. IsQueues(g, Events)
    BY <1>2, GiveFacts, Zenon DEF Sound
  <2>3. /\ Registered(g, P) /\ SortedByTime(g.wait_sleeping)
        /\ w.times = {} => g.wait_sleeping = q.wait_sleeping
    BY <1>2, GiveRegistered, SMTT(30) DEF Sound
  <2> HIDE DEF g
  <2>4. SameWaits(g)
    BY <2>1, <2>2, SwitchToNextKeepsWaits, Zenon
  <2> QED
    BY <2>3, <2>4, SMTT(30) DEF SameWaits, Registered
<1> QED
  BY <1>1, <1>2, Zenon

(* The deadline that is set is not later than the first wakeup.            *)
LEMMA SetDeadlineCovers ==
  ASSUME NEW old, SetDeadline(old), IsQueues(queues', Events),
         running_timeslice_end' \in Nat \cup {None}
  PROVE  TimerCoversSleepers'
<1> DEFINE v == queues'.wait_sleeping
           slice == running_timeslice_end'
           wake == next_wakeup(queues', None)
           ends == {wake, slice} \ {None}
           t == Earliest(ends \cup {MIN_EXEC_TIME})
<1> SUFFICES ASSUME v # <<>> PROVE deadline' # None /\ deadline' <= v[1].at
  BY Zenon DEF TimerCoversSleepers
<1>1. None \notin Nat /\ MIN_EXEC_TIME \in Nat
  BY SchedulerAssumption, Zenon
<1>2. v[1] \in [at : Nat, id : Nat]
  <2>1. v \in Seq([at : Nat, id : Nat])
    BY Zenon DEF IsQueues
  <2> QED
    BY <2>1, FirstElement, Zenon
<1>3. wake = v[1].at /\ wake \in Nat
  BY <1>2, Zenon DEF next_wakeup
<1> HIDE DEF wake, v, slice
<1>4. ends \cup {MIN_EXEC_TIME} \subseteq Nat /\ wake \in ends
  BY <1>1, <1>3, Zenon DEF slice
<1>5. t \in Nat /\ t <= wake
  BY <1>4, EarliestFacts, Zenon
<1>6. next_tick(queues', running_timeslice_end') = t
  BY <1>4, Zenon DEF next_tick, wake, slice
<1>7. deadline' = t
  <2> HIDE DEF t
  <2> QED
    BY <1>1, <1>5, <1>6, Zenon DEF SetDeadline
<1> HIDE DEF t
<1> QED
  BY <1>1, <1>3, <1>5, <1>7, Zenon

(* A deadline that covers the sleepers still does when neither changes.    *)
LEMMA SameTimer ==
  ASSUME TimerCoversSleepers, queues'.wait_sleeping = queues.wait_sleeping,
         deadline' = deadline
  PROVE  TimerCoversSleepers'
BY Zenon DEF TimerCoversSleepers

LEMMA InitWakeups == SchedInit => WakeupsPending
<1> SUFFICES ASSUME SchedInit PROVE WakeupsPending
  BY Zenon
<1>1. queues = [running |-> <<1>>, waiting |-> <<>>, next_waitid |-> 0,
                wait_sleeping |-> <<>>, wait_process |-> {}, wait_event |-> {}]
  BY Zenon DEF SchedInit, Queues_new
<1>2. DOMAIN <<>> = {}
  BY SMTT(30)
<1>3. queues.waiting = <<>> /\ queues.wait_sleeping = <<>>
  BY <1>1, Zenon
<1> QED
  BY <1>2, <1>3, Zenon
  DEF WakeupsPending, EveryWaitHasTrigger, SleepersSorted, TimerCoversSleepers

(* Every step of the scheduler keeps every wakeup pending.                 *)
LEMMA NextWakeups ==
  SchedIInv /\ WakeupsPending /\ [SchedNext]_schedVars => WakeupsPending'
<1> SUFFICES ASSUME SchedIInv, WakeupsPending, [SchedNext]_schedVars PROVE WakeupsPending'
  BY Zenon
<1>1. /\ Sound(queues)
      /\ running \in Nat \cup {None} /\ running \notin Members(queues)
      /\ running_timeslice_end \in Nat \cup {None}
      /\ deadline \in Nat \cup {None}
      /\ processes = Members(queues) \cup ({running} \ {None})
      /\ next_pid \in Nat /\ \A p \in processes : p < next_pid
  BY Zenon DEF SchedIInv, SchedTypeOK, NeverTwice, NoneLost, Sound
<1>2. /\ Registered(queues, processes)
      /\ SortedByTime(queues.wait_sleeping)
      /\ TimerCoversSleepers
  BY Zenon DEF WakeupsPending, EveryWaitHasTrigger, SleepersSorted, Registered, SortedByTime
<1>3. ASSUME Registered(queues', processes'), SortedByTime(queues'.wait_sleeping),
             TimerCoversSleepers'
      PROVE  WakeupsPending'
  BY <1>3, Zenon DEF WakeupsPending, EveryWaitHasTrigger, SleepersSorted, Registered, SortedByTime
<1>4. Members(queues) \subseteq processes /\ (running # None => running \in processes)
  BY <1>1, Zenon
<1>5. Sound(queues') /\ running_timeslice_end' \in Nat \cup {None}
  BY NextIInv, Zenon DEF SchedIInv, SchedTypeOK, NeverTwice, Sound
<1>6. ASSUME NEW ok \in BOOLEAN, Spawn(ok) PROVE WakeupsPending'
  <2>1. running_timeslice_end' = running_timeslice_end /\ deadline' = deadline
    BY <1>6, Zenon DEF Spawn
  <2>2. CASE ok
    <3>1. queues' = give(queues, next_pid, WaitForNone)
          /\ processes' = processes \cup {next_pid}
      BY <1>6, <2>2, Zenon DEF Spawn
    <3>2. IsWaitFor(WaitForNone, Events) /\ WaitForNone.times = {}
      BY Zenon DEF IsWaitFor, WaitForNone
    <3>3. Registered(queues, processes')
      BY <1>2, <3>1, Zenon DEF Registered
    <3>4. next_pid \in processes' /\ Members(queues) \subseteq processes'
      BY <1>4, <3>1, Zenon
    <3>5. /\ Registered(queues', processes') /\ SortedByTime(queues'.wait_sleeping)
          /\ queues'.wait_sleeping = queues.wait_sleeping
      BY <1>1, <1>2, <3>1, <3>2, <3>3, <3>4, GiveRegistered, SMTT(30) DEF Sound
    <3> QED
      BY <1>2, <1>3, <2>1, <3>5, SameTimer, Zenon
  <2>3. CASE ~ok
    <3>1. queues' = queues /\ processes' = processes
      BY <1>6, <2>3, Zenon DEF Spawn
    <3> QED
      BY <1>2, <1>3, <2>1, <3>1, SameTimer, Zenon
  <2> QED
    BY <2>2, <2>3, Zenon
<1>7. ASSUME NEW E, NEW w \in Waits, SyscallSwitch(E, w) PROVE WakeupsPending'
  <2>1. SetDeadline(deadline) /\ processes' = processes
    BY <1>7, Zenon DEF SyscallSwitch
  <2>2. PICK order \in TriggerOrders(queues, EventIds(queues, E)) :
          Switch(on_explicit_events(queues, E, order), w)
    BY <1>7, Zenon DEF SyscallSwitch
  <2> DEFINE q == on_explicit_events(queues, E, order)
  <2>3. Sound(q) /\ Members(q) = Members(queues)
    BY <1>1, EventsFacts, Zenon DEF Sound
  <2>4. Registered(q, processes) /\ q.wait_sleeping = queues.wait_sleeping
    BY <1>1, <1>2, EventsRegistered, Zenon DEF Sound
  <2> HIDE DEF q
  <2>5. Switch(q, w) /\ IsWaitFor(w, Events)
    BY <2>2, SchedulerAssumption, Zenon DEF q
  <2>6. SortedByTime(q.wait_sleeping) /\ Members(q) \subseteq processes
        /\ running \notin Members(q)
    BY <1>1, <1>2, <1>4, <2>3, <2>4, Zenon
  <2>7. Registered(queues', processes) /\ SortedByTime(queues'.wait_sleeping)
    BY <1>1, <1>4, <2>3, <2>4, <2>5, <2>6, SwitchRegistered, Zenon
  <2>8. TimerCoversSleepers'
    BY <1>5, <2>1, SetDeadlineCovers, Zenon DEF Sound
  <2> QED
    BY <1>3, <2>1, <2>7, <2>8, Zenon
<1>8. ASSUME NEW w \in Waits, RepeatSwitch(w) PROVE WakeupsPending'
  <2>1. Switch(queues, w) /\ w.times = {} /\ deadline' = deadline /\ processes' = processes
    BY <1>8, Zenon DEF RepeatSwitch
  <2>2. IsWaitFor(w, Events)
    BY SchedulerAssumption, Zenon
  <2>3. /\ Registered(queues', processes) /\ SortedByTime(queues'.wait_sleeping)
        /\ queues'.wait_sleeping = queues.wait_sleeping
    BY <1>1, <1>2, <1>4, <2>1, <2>2, SwitchRegistered, Zenon
  <2> QED
    BY <1>2, <1>3, <2>1, <2>3, SameTimer, Zenon
<1>9. ASSUME NEW E, TriggerEvents(E) PROVE WakeupsPending'
  <2>1. PICK order \in TriggerOrders(queues, EventIds(queues, E)) :
          queues' = on_explicit_events(queues, E, order)
    BY <1>9, Zenon DEF TriggerEvents
  <2>2. processes' = processes /\ deadline' = deadline
    BY <1>9, Zenon DEF TriggerEvents
  <2>3. Registered(queues', processes) /\ queues'.wait_sleeping = queues.wait_sleeping
    BY <1>1, <1>2, <2>1, EventsRegistered, Zenon DEF Sound
  <2> QED
    BY <1>2, <1>3, <2>2, <2>3, SameTimer, Zenon
<1>10. ASSUME NEW E, Terminate(E) PROVE WakeupsPending'
  <2>1. processes' = processes \ {running} /\ deadline' = deadline
    BY <1>10, Zenon DEF Terminate
  <2>2. PICK order \in TriggerOrders(queues, ProcessIds(queues, running)) :
          \E order2 \in TriggerOrders(on_process_over(queues, running, order),
                          EventIds(on_process_over(queues, running, order), E)) :
            SwitchToNext(on_explicit_events(
                           on_process_over(queues, running, order), E, order2))
    BY <1>10, Zenon DEF Terminate
  <2> DEFINE q == on_process_over(queues, running, order)
  <2>3. PICK order2 \in TriggerOrders(q, EventIds(q, E)) :
          SwitchToNext(on_explicit_events(q, E, order2))
    BY <2>2, Zenon
  <2>4. Sound(q)
    BY <1>1, ProcessOverFacts, Zenon DEF Sound
  <2>5. Registered(q, processes') /\ q.wait_sleeping = queues.wait_sleeping
    BY <1>1, <1>2, <2>1, ProcessOverRegistered, Zenon DEF Sound
  <2> HIDE DEF q
  <2> DEFINE r == on_explicit_events(q, E, order2)
  <2>6. Sound(r)
    BY <2>4, EventsFacts, Zenon DEF Sound
  <2>7. Registered(r, processes') /\ r.wait_sleeping = q.wait_sleeping
    BY <2>4, <2>5, EventsRegistered, Zenon DEF Sound
  <2> HIDE DEF r
  <2>8. SwitchToNext(r)
    BY <2>3, Zenon DEF r
  <2>9. SameWaits(r)
    BY <2>6, <2>8, SwitchToNextKeepsWaits, Zenon DEF Sound
  <2>10. Registered(queues', processes') /\ queues'.wait_sleeping = queues.wait_sleeping
    BY <2>5, <2>7, <2>9, SMTT(30) DEF SameWaits, Registered
  <2> QED
    BY <1>2, <1>3, <2>1, <2>10, SameTimer, Zenon
<1>11. ASSUME NEW E, DynamicIrq(E) PROVE WakeupsPending'
  <2>1. PICK order \in TriggerOrders(queues, EventIds(queues, E)) :
          SwitchCurrentOrNext(on_explicit_events(queues, E, order))
    BY <1>11, Zenon DEF DynamicIrq
  <2>2. processes' = processes /\ deadline' = deadline
    BY <1>11, Zenon DEF DynamicIrq
  <2> DEFINE q == on_explicit_events(queues, E, order)
  <2>3. Sound(q) /\ Registered(q, processes) /\ q.wait_sleeping = queues.wait_sleeping
    BY <1>1, <1>2, EventsFacts, EventsRegistered, Zenon DEF Sound
  <2> HIDE DEF q
  <2>4. SwitchCurrentOrNext(q)
    BY <2>1, Zenon DEF q
  <2>5. SameWaits(q)
    BY <2>3, <2>4, SwitchCurrentOrNextKeepsWaits, Zenon DEF Sound
  <2>6. Registered(queues', processes) /\ queues'.wait_sleeping = queues.wait_sleeping
    BY <2>3, <2>5, Zenon DEF SameWaits, Registered
  <2> QED
    BY <1>2, <1>3, <2>2, <2>6, SameTimer, Zenon
<1>12. CASE Tick
  <2>1. PICK order \in TickOrders(queues) : Switch(on_tick(queues, order), WaitForNone)
    BY <1>12, Zenon DEF Tick
  <2>2. SetDeadline(None) /\ processes' = processes
    BY <1>12, Zenon DEF Tick
  <2> DEFINE q == on_tick(queues, order)
  <2>3. Sound(q) /\ Members(q) = Members(queues)
    BY <1>1, TickFacts, Zenon DEF Sound
  <2>4. Registered(q, processes) /\ SortedByTime(q.wait_sleeping)
    BY <1>1, <1>2, TickRegistered, Zenon DEF Sound
  <2> HIDE DEF q
  <2>5. Switch(q, WaitForNone) /\ IsWaitFor(WaitForNone, Events)
    BY <2>1, Zenon DEF q, IsWaitFor, WaitForNone
  <2>6. Members(q) \subseteq processes /\ running \notin Members(q)
    BY <1>1, <1>4, <2>3, Zenon
  <2>7. Registered(queues', processes) /\ SortedByTime(queues'.wait_sleeping)
    BY <1>1, <1>4, <2>3, <2>4, <2>5, <2>6, SwitchRegistered, Zenon
  <2>8. TimerCoversSleepers'
    BY <1>5, <2>2, SetDeadlineCovers, Zenon DEF Sound
  <2> QED
    BY <1>3, <2>2, <2>7, <2>8, Zenon
<1>13. CASE Elapse
  <2> DEFINE v == queues.wait_sleeping
             n == Len(v)
             u == [i \in 1 .. n |-> [at |-> Later(v[i].at), id |-> v[i].id]]
  <2>1. processes' = processes /\ deadline # 0 /\ deadline' = Later(deadline)
    BY <1>13, Zenon DEF Elapse, TimerPending
  <2>2. v \in Seq([at : Nat, id : Nat])
    BY <1>1, Zenon DEF Sound, IsQueues
  <2>3. n \in Nat /\ DOMAIN v = 1 .. n /\ \A i \in 1 .. n : v[i] \in [at : Nat, id : Nat]
    BY <2>2, LenProperties, ElementOfSeq, Zenon
  <2>4. queues' = [queues EXCEPT !.wait_sleeping = u]
    BY <1>13, Zenon DEF Elapse
  <2> HIDE DEF u
  <2>5. queues' = [running |-> queues.running, waiting |-> queues.waiting,
                   next_waitid |-> queues.next_waitid, wait_sleeping |-> u,
                   wait_process |-> queues.wait_process,
                   wait_event |-> queues.wait_event]
    BY <1>1, <2>4, FieldUpdates, Zenon DEF Sound
  <2>6. /\ queues'.waiting = queues.waiting /\ queues'.wait_sleeping = u
        /\ queues'.wait_process = queues.wait_process
        /\ queues'.wait_event = queues.wait_event
    BY ONLY <2>5, Zenon
  <2>7. DOMAIN u = DOMAIN v
        /\ \A i \in DOMAIN v : u[i].at = Later(v[i].at) /\ u[i].id = v[i].id
    BY <2>3, Zenon DEF u
  <2>8. None \notin Nat
    BY SchedulerAssumption, Zenon
  <2>9. \A s, t \in Nat : /\ Later(s) \in Nat /\ (s <= t => Later(s) <= Later(t))
    BY <2>8, SMTT(30) DEF Later
  <2>10. \A i \in DOMAIN v : v[i].at \in Nat
    BY <2>3, Zenon
  <2>11. Registered(queues', processes')
    BY <1>2, <2>1, <2>6, <2>7, SMTT(30) DEF Registered
  <2>12. SortedByTime(u)
    <3> SUFFICES ASSUME NEW i \in DOMAIN v, NEW j \in DOMAIN v, i < j
                 PROVE  u[i].at <= u[j].at
      BY <2>7, Zenon DEF SortedByTime
    <3>1. v[i].at <= v[j].at
      BY <1>2, Zenon DEF SortedByTime
    <3> QED
      BY <2>7, <2>9, <2>10, <3>1, Zenon
  <2>13. TimerCoversSleepers'
    <3> SUFFICES ASSUME u # <<>> PROVE deadline' # None /\ deadline' <= u[1].at
      BY <2>6, Zenon DEF TimerCoversSleepers
    <3>1. v # <<>>
      BY <2>3, SMTT(30) DEF u
    <3>2. 1 \in DOMAIN v
      <4>1. n # 0
        BY <2>2, <3>1, EmptySeq, Zenon
      <4> QED
        BY <2>3, <4>1, SMTT(30)
    <3>3. deadline \in Nat /\ deadline <= v[1].at
      BY <1>1, <1>2, <3>1, Zenon DEF TimerCoversSleepers
    <3>4. v[1].at \in Nat /\ u[1].at = Later(v[1].at)
      BY <2>7, <2>10, <3>2, Zenon
    <3> QED
      BY <2>1, <2>8, <2>9, <3>3, <3>4, Zenon
  <2> QED
    BY <1>3, <2>6, <2>11, <2>12, <2>13, Zenon
<1>14. CASE UNCHANGED schedVars
  BY <1>14, Zenon DEF schedVars, WakeupsPending, EveryWaitHasTrigger, SleepersSorted,
               TimerCoversSleepers
<1> QED
  BY <1>6, <1>7, <1>8, <1>9, <1>10, <1>11, <1>12, <1>13, <1>14, Zenon DEF SchedNext

(* A process that waits can be woken, for any number of processes and      *)
(* events: its wait id stays registered under something that can still     *)
(* happen, the sleepers stay sorted by their instants, and the timer is    *)
(* never armed for a later instant than the first of them.                 *)
THEOREM SchedWakeupsPending == SchedSpec => []WakeupsPending
BY InitWakeups, NextWakeups, SchedInductive, PTL DEF SchedSpec

-----------------------------------------------------------------------------
(* What the blocked processes wait for.  The proof that the scheduler      *)
(* implements the abstract one rests on these facts.                       *)

(* What a condition of a wait is, entry by entry.                          *)
Listed(q, id) ==
  /\ \A t : t \in Conditions(q, id).times <=>
              \E x \in Range(q.wait_sleeping) : x.id = id /\ x.at = t
  /\ \A d : d \in Conditions(q, id).processes <=> <<d, id>> \in q.wait_process
  /\ \A e : e \in Conditions(q, id).events <=> <<e, id>> \in q.wait_event

LEMMA ConditionFacts ==
  ASSUME NEW Ev, NEW q, IsQueues(q, Ev), NEW id \in Nat
  PROVE  Listed(q, id)
<1>1. \A t : t \in Conditions(q, id).times <=>
               \E x \in Range(q.wait_sleeping) : x.id = id /\ x.at = t
  BY Zenon DEF Conditions
<1>2. \A d : d \in Conditions(q, id).processes <=> <<d, id>> \in q.wait_process
  <2>1. \A x \in q.wait_process : x = <<x[1], x[2]>>
    BY DEF IsQueues
  <2>2. Conditions(q, id).processes = {x[1] : x \in {y \in q.wait_process : y[2] = id}}
    BY Zenon DEF Conditions
  <2> QED
    BY <2>1, <2>2, Zenon
<1>3. \A e : e \in Conditions(q, id).events <=> <<e, id>> \in q.wait_event
  <2>1. \A x \in q.wait_event : x = <<x[1], x[2]>>
    BY DEF IsQueues
  <2>2. Conditions(q, id).events = {x[1] : x \in {y \in q.wait_event : y[2] = id}}
    BY Zenon DEF Conditions
  <2> QED
    BY <2>1, <2>2, Zenon
<1> QED
  BY <1>1, <1>2, <1>3, Zenon DEF Listed

(* q and r have the same entries for a wait id.                            *)
SameEntries(q, r, id) ==
  /\ \A x : x.id = id => (x \in Range(r.wait_sleeping) <=> x \in Range(q.wait_sleeping))
  /\ \A d : <<d, id>> \in r.wait_process <=> <<d, id>> \in q.wait_process
  /\ \A e : <<e, id>> \in r.wait_event <=> <<e, id>> \in q.wait_event

(* The conditions of a wait id depend on its entries only.                 *)
LEMMA SameConditions ==
  ASSUME NEW Ev, NEW q, NEW r, IsQueues(q, Ev), IsQueues(r, Ev), NEW id \in Nat, SameEntries(q, r, id)
  PROVE  Conditions(r, id) = Conditions(q, id)
<1>1. Listed(q, id) /\ Listed(r, id)
  BY ConditionFacts, Zenon
<1>2. \A t : t \in Conditions(r, id).times <=> t \in Conditions(q, id).times
  BY <1>1, Zenon DEF SameEntries, Listed
<1>3. /\ \A d : d \in Conditions(r, id).processes <=> d \in Conditions(q, id).processes
      /\ \A e : e \in Conditions(r, id).events <=> e \in Conditions(q, id).events
  BY <1>1, Zenon DEF SameEntries, Listed
<1>4. \A o : Conditions(o, id) = [times |-> Conditions(o, id).times,
                                  processes |-> Conditions(o, id).processes,
                                  events |-> Conditions(o, id).events]
  BY Zenon DEF Conditions
<1>5. /\ Conditions(r, id).times = Conditions(q, id).times
      /\ Conditions(r, id).processes = Conditions(q, id).processes
      /\ Conditions(r, id).events = Conditions(q, id).events
  BY <1>2, <1>3, Zenon
<1> QED
  BY <1>4, <1>5, Zenon

(* The process waiting under an id is blocked on the conditions of the id. *)
LEMMA BlockedFacts ==
  ASSUME NEW q, IsInjective(q.waiting)
  PROVE  /\ DOMAIN Blocked(q) = Range(q.waiting)
         /\ Blocked(q) = [p \in Range(q.waiting) |-> Blocked(q)[p]]
         /\ \A id \in DOMAIN q.waiting : Blocked(q)[q.waiting[id]] = Conditions(q, id)
<1>1. DOMAIN Blocked(q) = Range(q.waiting) /\ Blocked(q) = [p \in Range(q.waiting) |-> Blocked(q)[p]]
  BY Zenon DEF Blocked
<1>2. ASSUME NEW id \in DOMAIN q.waiting
      PROVE  Blocked(q)[q.waiting[id]] = Conditions(q, id)
  <2>1. q.waiting[id] \in Range(q.waiting)
    BY Zenon DEF Range
  <2>2. WaitIdOf(q, q.waiting[id]) = id
    BY Zenon DEF WaitIdOf, IsInjective
  <2> QED
    BY <2>1, <2>2, Zenon DEF Blocked
<1> QED
  BY <1>1, <1>2, Zenon

(* Two queues with the same wait table and conditions block the same.      *)
LEMMA SameBlocked ==
  ASSUME NEW q, NEW r, IsInjective(q.waiting), r.waiting = q.waiting,
         \A id \in DOMAIN q.waiting : Conditions(r, id) = Conditions(q, id)
  PROVE  Blocked(r) = Blocked(q)
<1>1. \A p \in Range(q.waiting) : \E id \in DOMAIN q.waiting : q.waiting[id] = p
  BY Zenon DEF Range
<1>2. ASSUME NEW p \in Range(q.waiting)
      PROVE  Blocked(r)[p] = Blocked(q)[p]
  <2>1. PICK id \in DOMAIN q.waiting : q.waiting[id] = p
    BY <1>1, Zenon
  <2>2. Blocked(q)[q.waiting[id]] = Conditions(q, id)
    BY BlockedFacts, Zenon
  <2>3. Blocked(r)[r.waiting[id]] = Conditions(r, id)
    BY BlockedFacts, Zenon
  <2> QED
    BY <2>1, <2>2, <2>3, Zenon
<1>3. /\ Blocked(q) = [p \in Range(q.waiting) |-> Blocked(q)[p]]
      /\ Blocked(r) = [p \in Range(q.waiting) |-> Blocked(r)[p]]
  BY BlockedFacts, Zenon
<1> QED
  BY <1>2, <1>3, Zenon

(* No entry of a wait table, consumed or not, has the next wait id.        *)
Behind(q) ==
  /\ \A x \in Range(q.wait_sleeping) : x.id < q.next_waitid
  /\ \A x \in q.wait_process : x[2] < q.next_waitid
  /\ \A x \in q.wait_event : x[2] < q.next_waitid

(* Inserting a sleeper adds its entry and keeps the others.                *)
LEMMA InsertSleeperRange ==
  ASSUME NEW v \in Seq([at : Nat, id : Nat]), NEW t \in Nat, NEW id \in Nat
  PROVE  Range(InsertSleeper(v, t, id)) = Range(v) \cup {[at |-> t, id |-> id]}
<1> DEFINE later == {i \in DOMAIN v : v[i].at > t}
           k == p_index_vecdeque(v, t)
           n == Len(v)
           u == InsertSleeper(v, t, id)
<1>1. n \in Nat /\ DOMAIN v = 1 .. n
  BY LenProperties, Zenon
<1>2. k \in 1 .. n + 1
  <2>1. CASE later = {}
    <3>1. k = n + 1
      BY <2>1, Zenon DEF p_index_vecdeque
    <3> HIDE DEF k, n
    <3> QED
      BY <1>1, <3>1
  <2>2. CASE later # {}
    <3>1. later \subseteq Nat
      BY <1>1
    <3>2. Earliest(later) \in later
      BY <2>2, <3>1, EarliestFacts, Zenon
    <3>3. k \in 1 .. n
      BY <1>1, <2>2, <3>2, Zenon DEF p_index_vecdeque
    <3> HIDE DEF k, n
    <3> QED
      BY <1>1, <3>3
  <2> QED
    BY <2>1, <2>2, Zenon
<1>3. u = [j \in 1 .. n + 1 |-> IF j < k THEN v[j]
                                ELSE IF j = k THEN [at |-> t, id |-> id]
                                ELSE v[j - 1]]
  BY Zenon DEF InsertSleeper
<1> HIDE DEF k, n, u
<1>4. \A j \in 1 .. n + 1 : /\ j < k => j \in 1 .. n /\ u[j] = v[j]
                            /\ j > k => j - 1 \in 1 .. n /\ u[j] = v[j - 1]
                            /\ j = k => u[j] = [at |-> t, id |-> id]
  BY <1>1, <1>2, <1>3
<1>5. /\ \A x : x \in Range(u) <=> \E j \in 1 .. n + 1 : u[j] = x
      /\ \A x : x \in Range(v) <=> \E j \in 1 .. n : v[j] = x
  BY <1>1, <1>3, Zenon DEF Range
<1>6. ASSUME NEW x \in Range(u) PROVE x \in Range(v) \cup {[at |-> t, id |-> id]}
  <2>1. PICK j \in 1 .. n + 1 : u[j] = x
    BY <1>5, <1>6, Zenon
  <2>2. j < k \/ j = k \/ j > k
    BY <1>1, <1>2
  <2> QED
    BY <1>4, <1>5, <2>1, <2>2, Zenon
<1>7. ASSUME NEW x \in Range(v) PROVE x \in Range(u)
  <2>1. PICK j \in 1 .. n : v[j] = x
    BY <1>5, <1>7, Zenon
  <2>2. CASE j < k
    <3>1. j \in 1 .. n + 1
      BY <1>1
    <3> QED
      BY <1>4, <1>5, <2>1, <2>2, <3>1, Zenon
  <2>3. CASE ~(j < k)
    <3>1. j + 1 \in 1 .. n + 1 /\ j + 1 > k /\ (j + 1) - 1 = j
      BY <1>1, <1>2, <2>3
    <3> QED
      BY <1>4, <1>5, <2>1, <3>1, Zenon
  <2> QED
    BY <2>2, <2>3, Zenon
<1>8. [at |-> t, id |-> id] \in Range(u)
  BY <1>2, <1>4, <1>5, Zenon
<1> QED
  BY <1>6, <1>7, <1>8, Zenon DEF u

(* g is q with pid waiting under id for the conditions n.                  *)
Enqueued(q, g, pid, id, n) ==
  /\ g.running = q.running /\ g.next_waitid = id + 1
  /\ DOMAIN g.waiting = DOMAIN q.waiting \cup {id} /\ g.waiting[id] = pid
  /\ \A x \in DOMAIN q.waiting : g.waiting[x] = q.waiting[x]
  /\ Range(q.wait_sleeping) \subseteq Range(g.wait_sleeping)
  /\ \A x \in Range(g.wait_sleeping) : x \in Range(q.wait_sleeping) \/ (x.id = id /\ x.at \in n.times)
  /\ \A t \in n.times : \E x \in Range(g.wait_sleeping) : x.id = id /\ x.at = t
  /\ \A d, x : <<d, x>> \in g.wait_process <=> <<d, x>> \in q.wait_process \/ (d \in n.processes /\ x = id)
  /\ \A e, x : <<e, x>> \in g.wait_event <=> <<e, x>> \in q.wait_event \/ (e \in n.events /\ x = id)

(* Unused by any entry of q.                                               *)
Unused(q, id) ==
  /\ id \in Nat /\ id \notin DOMAIN q.waiting
  /\ \A x \in Range(q.wait_sleeping) : x.id # id
  /\ \A d : <<d, id>> \notin q.wait_process /\ <<d, id>> \notin q.wait_event

LEMMA NextIdUnused ==
  ASSUME NEW Ev, NEW q, IsQueues(q, Ev), IdsFresh(q), Behind(q)
  PROVE  Unused(q, q.next_waitid) /\ \A x \in Range(q.wait_sleeping) : x.id \in Nat
<1> DEFINE id == q.next_waitid
           v == q.wait_sleeping
<1>1. id \in Nat /\ v \in Seq([at : Nat, id : Nat])
  BY Zenon DEF IsQueues
<1>2. ~(id < id)
  BY <1>1
<1>3. \A x \in Range(v) : x \in [at : Nat, id : Nat]
  <2>1. DOMAIN v = 1 .. Len(v) /\ \A i \in 1 .. Len(v) : v[i] \in [at : Nat, id : Nat]
    BY <1>1, LenProperties, ElementOfSeq, Zenon
  <2> QED
    BY <2>1, Zenon DEF Range
<1>4. \A x \in Range(v) : x.id # id
  BY <1>2, Zenon DEF Behind
<1>5. \A d : <<d, id>>[2] = id
  BY Zenon
<1>6. \A d : <<d, id>> \notin q.wait_process /\ <<d, id>> \notin q.wait_event
  BY <1>2, <1>5, Zenon DEF Behind
<1>7. id \notin DOMAIN q.waiting
  BY <1>2, Zenon DEF IdsFresh
<1> QED
  BY <1>1, <1>3, <1>4, <1>6, <1>7, Zenon DEF Unused

LEMMA EnqueuedConditions ==
  ASSUME NEW Ev, NEW q, IsQueues(q, Ev), NEW g, IsQueues(g, Ev), NEW id, Unused(q, id),
         NEW n, IsWaitFor(n, Ev), NEW pid, Enqueued(q, g, pid, id, n)
  PROVE  /\ Conditions(g, id) = n
         /\ \A x \in DOMAIN q.waiting : Conditions(g, x) = Conditions(q, x)
<1>1. id \in Nat
  BY Zenon DEF Unused
<1>a. Listed(g, id)
  BY <1>1, ConditionFacts, Zenon
<1>2. Conditions(g, id) = n
  <2>1. \A t : t \in Conditions(g, id).times <=>
                 \E x \in Range(g.wait_sleeping) : x.id = id /\ x.at = t
    BY <1>a, Zenon DEF Listed
  <2>2. \A d : d \in Conditions(g, id).processes <=> <<d, id>> \in g.wait_process
    BY <1>a, Zenon DEF Listed
  <2>3. \A e : e \in Conditions(g, id).events <=> <<e, id>> \in g.wait_event
    BY <1>a, Zenon DEF Listed
  <2>4. Conditions(g, id).times = n.times
    <3>1. ASSUME NEW t \in Conditions(g, id).times PROVE t \in n.times
      <4>1. PICK x \in Range(g.wait_sleeping) : x.id = id /\ x.at = t
        BY <2>1, <3>1, Zenon
      <4> QED
        BY <4>1, Zenon DEF Enqueued, Unused
    <3>2. ASSUME NEW t \in n.times PROVE t \in Conditions(g, id).times
      BY <2>1, <3>2, Zenon DEF Enqueued
    <3> QED
      BY <3>1, <3>2, Zenon
  <2>5. Conditions(g, id).processes = n.processes
    <3>1. \A d : d \in Conditions(g, id).processes <=> d \in n.processes
      BY <2>2, Zenon DEF Enqueued, Unused
    <3> QED
      BY <3>1, Zenon
  <2>6. Conditions(g, id).events = n.events
    <3>1. \A e : e \in Conditions(g, id).events <=> e \in n.events
      BY <2>3, Zenon DEF Enqueued, Unused
    <3> QED
      BY <3>1, Zenon
  <2>7. Conditions(g, id) = [times |-> Conditions(g, id).times,
                             processes |-> Conditions(g, id).processes,
                             events |-> Conditions(g, id).events]
    BY Zenon DEF Conditions
  <2>8. n = [times |-> n.times, processes |-> n.processes, events |-> n.events]
    BY Zenon DEF IsWaitFor
  <2> QED
    BY <2>4, <2>5, <2>6, <2>7, <2>8, Zenon
<1>3. ASSUME NEW x \in DOMAIN q.waiting
      PROVE  Conditions(g, x) = Conditions(q, x)
  <2>1. x \in Nat /\ x # id
    BY Zenon DEF IsQueues, Unused
  <2>2. \A y : y.id = x => (y \in Range(g.wait_sleeping) <=> y \in Range(q.wait_sleeping))
    BY <2>1, Zenon DEF Enqueued
  <2>3. /\ \A d : <<d, x>> \in g.wait_process <=> <<d, x>> \in q.wait_process
        /\ \A e : <<e, x>> \in g.wait_event <=> <<e, x>> \in q.wait_event
    <3>1. /\ \A d, y : <<d, y>> \in g.wait_process <=>
                          <<d, y>> \in q.wait_process \/ (d \in n.processes /\ y = id)
          /\ \A e, y : <<e, y>> \in g.wait_event <=>
                          <<e, y>> \in q.wait_event \/ (e \in n.events /\ y = id)
      BY Zenon DEF Enqueued
    <3> QED
      BY <2>1, <3>1
  <2>4. SameEntries(q, g, x)
    BY <2>2, <2>3, Zenon DEF SameEntries
  <2> QED
    BY <2>1, <2>4, SameConditions
<1> QED
  BY <1>2, <1>3, Zenon

LEMMA EnqueuedBlocked ==
  ASSUME NEW Ev, NEW q, IsQueues(q, Ev), InOnePlace(q), NEW g, IsQueues(g, Ev), InOnePlace(g),
         NEW id, Unused(q, id), NEW n, IsWaitFor(n, Ev),
         NEW pid, pid \notin Range(q.waiting), Enqueued(q, g, pid, id, n)
  PROVE  Blocked(g) = [p \in DOMAIN Blocked(q) \cup {pid} |-> IF p = pid THEN n ELSE Blocked(q)[p]]
<1>1. /\ DOMAIN Blocked(q) = Range(q.waiting)
      /\ \A x \in DOMAIN q.waiting : Blocked(q)[q.waiting[x]] = Conditions(q, x)
  BY BlockedFacts, Zenon DEF InOnePlace
<1>2. /\ Blocked(g) = [p \in Range(g.waiting) |-> Blocked(g)[p]]
      /\ \A x \in DOMAIN g.waiting : Blocked(g)[g.waiting[x]] = Conditions(g, x)
  BY BlockedFacts, Zenon DEF InOnePlace
<1>3. /\ \A p : p \in Range(q.waiting) <=> \E x \in DOMAIN q.waiting : q.waiting[x] = p
      /\ \A p : p \in Range(g.waiting) <=> \E x \in DOMAIN g.waiting : g.waiting[x] = p
  BY Zenon DEF Range
<1>4. /\ Conditions(g, id) = n
      /\ \A x \in DOMAIN q.waiting : Conditions(g, x) = Conditions(q, x)
  BY EnqueuedConditions
<1>5. /\ DOMAIN g.waiting = DOMAIN q.waiting \cup {id} /\ g.waiting[id] = pid
      /\ \A x \in DOMAIN q.waiting : g.waiting[x] = q.waiting[x]
  BY Zenon DEF Enqueued
<1>6. Range(g.waiting) = Range(q.waiting) \cup {pid}
  <2>1. ASSUME NEW p \in Range(g.waiting) PROVE p \in Range(q.waiting) \cup {pid}
    <3>1. PICK x \in DOMAIN g.waiting : g.waiting[x] = p
      BY <1>3, <2>1, Zenon
    <3> QED
      BY <1>3, <1>5, <3>1, Zenon
  <2>2. ASSUME NEW p \in Range(q.waiting) PROVE p \in Range(g.waiting)
    <3>1. PICK x \in DOMAIN q.waiting : q.waiting[x] = p
      BY <1>3, <2>2, Zenon
    <3> QED
      BY <1>3, <1>5, <3>1, Zenon
  <2>3. pid \in Range(g.waiting)
    BY <1>3, <1>5, Zenon
  <2> QED
    BY <2>1, <2>2, <2>3, Zenon
<1>7. Blocked(g)[pid] = n
  <2>1. id \in DOMAIN g.waiting
    BY <1>5, Zenon
  <2> QED
    BY <1>2, <1>4, <1>5, <2>1, Zenon
<1>8. ASSUME NEW p \in Range(q.waiting)
      PROVE  Blocked(g)[p] = Blocked(q)[p] /\ p # pid
  <2>1. PICK x \in DOMAIN q.waiting : q.waiting[x] = p
    BY <1>3, <1>8, Zenon
  <2>2. Blocked(g)[g.waiting[x]] = Conditions(g, x) /\ g.waiting[x] = p
    BY <1>2, <1>5, <2>1, Zenon
  <2> QED
    BY <1>1, <1>4, <2>1, <2>2, Zenon
<1>9. \A p \in Range(q.waiting) \cup {pid} :
        Blocked(g)[p] = IF p = pid THEN n ELSE Blocked(q)[p]
  BY <1>7, <1>8, Zenon
<1> QED
  BY <1>1, <1>2, <1>6, <1>9, Zenon

LEMMA EnqueuedBehind ==
  ASSUME NEW Ev, NEW q, IsQueues(q, Ev), IdsFresh(q), Behind(q), NEW g, IsQueues(g, Ev),
         NEW n, NEW pid, Enqueued(q, g, pid, q.next_waitid, n)
  PROVE  Behind(g)
<1> DEFINE id == q.next_waitid
<1>1. id \in Nat
  BY Zenon DEF IsQueues
<1>2. id < id + 1 /\ \A m \in Nat : m < id => m < id + 1
  BY <1>1
<1>3. \A x \in Range(g.wait_sleeping) : x.id < id + 1
  BY <1>2, NextIdUnused, Zenon DEF Behind, Enqueued
<1>4. /\ \A x \in g.wait_process : x = <<x[1], x[2]>> /\ x[2] \in Nat
      /\ \A x \in g.wait_event : x = <<x[1], x[2]>> /\ x[2] \in Nat
  BY DEF IsQueues
<1>5. \A d, x : <<d, x>>[2] = x
  BY Zenon
<1>6. ASSUME NEW d, NEW x \in Nat, <<d, x>> \in g.wait_process
      PROVE  x < id + 1
  <2>1. <<d, x>> \in q.wait_process \/ x = id
    BY <1>6, Zenon DEF Enqueued
  <2> QED
    BY <1>2, <1>5, <2>1, Zenon DEF Behind
<1>7. ASSUME NEW e, NEW x \in Nat, <<e, x>> \in g.wait_event
      PROVE  x < id + 1
  <2>1. <<e, x>> \in q.wait_event \/ x = id
    BY <1>7, Zenon DEF Enqueued
  <2> QED
    BY <1>2, <1>5, <2>1, Zenon DEF Behind
<1>8. \A x \in g.wait_process : x[2] < id + 1
  BY <1>4, <1>6, Zenon
<1>9. \A x \in g.wait_event : x[2] < id + 1
  BY <1>4, <1>7, Zenon
<1>10. g.next_waitid = id + 1
  BY Zenon DEF Enqueued
<1> QED
  BY <1>3, <1>8, <1>9, <1>10, Zenon DEF Behind

(* The instants blocked processes wait for.                                *)
LEMMA BlockedTimes ==
  ASSUME NEW Ev, NEW q, IsQueues(q, Ev), InOnePlace(q), NEW t
  PROVE  t \in UNION {Blocked(q)[p].times : p \in DOMAIN Blocked(q)} <=>
           \E x \in Range(q.wait_sleeping) : x.id \in DOMAIN q.waiting /\ x.at = t
<1>1. /\ DOMAIN Blocked(q) = Range(q.waiting)
      /\ \A id \in DOMAIN q.waiting : Blocked(q)[q.waiting[id]] = Conditions(q, id)
  BY BlockedFacts, Zenon DEF InOnePlace
<1>2. \A p : p \in Range(q.waiting) <=> \E id \in DOMAIN q.waiting : q.waiting[id] = p
  BY Zenon DEF Range
<1>3. ASSUME NEW p \in DOMAIN Blocked(q), t \in Blocked(q)[p].times
      PROVE  \E x \in Range(q.wait_sleeping) : x.id \in DOMAIN q.waiting /\ x.at = t
  <2>1. PICK id \in DOMAIN q.waiting : q.waiting[id] = p
    BY <1>1, <1>2, Zenon
  <2>2. Listed(q, id)
    BY ConditionFacts, Zenon DEF IsQueues
  <2>3. t \in Conditions(q, id).times
    BY <1>1, <1>3, <2>1, Zenon
  <2> QED
    BY <2>2, <2>3, Zenon DEF Listed
<1>4. ASSUME NEW x \in Range(q.wait_sleeping), x.id \in DOMAIN q.waiting, x.at = t
      PROVE  \E p \in DOMAIN Blocked(q) : t \in Blocked(q)[p].times
  <2> DEFINE id == x.id
  <2>1. Listed(q, id)
    BY <1>4, ConditionFacts, Zenon DEF IsQueues
  <2>2. t \in Conditions(q, id).times
    BY <1>4, <2>1, Zenon DEF Listed
  <2>3. q.waiting[id] \in Range(q.waiting)
    BY <1>2, <1>4, Zenon
  <2> QED
    BY <1>1, <1>4, <2>2, <2>3, Zenon
<1> QED
  BY <1>3, <1>4, Zenon

(* The first of the next entry of the queue of sleepers (wake) and the end *)
(* of the slice is in time for what is due, if no entry is before wake.    *)
LEMMA TimerValue ==
  ASSUME NEW wake \in Nat \cup {None}, NEW slice \in Nat \cup {None}, NEW times \in SUBSET Nat,
         wake = None => times = {}, \A t \in times : wake <= t, wake = 0 => 0 \in times,
         NEW set, set = {wake, slice} \ {None}, set # {},
         NEW ends, ends = (times \cup {slice}) \ {None}
  PROVE  Earliest(set \cup {MIN_EXEC_TIME}) \in
           IF ends = {} THEN 1 .. MIN_EXEC_TIME
           ELSE {Earliest(ends \cup {MIN_EXEC_TIME})} \cup 1 .. Earliest(ends \cup {MIN_EXEC_TIME})
<1> DEFINE M == MIN_EXEC_TIME
           d == Earliest(set \cup {M})
           due == Earliest(ends \cup {M})
<1>1. None \notin Nat /\ M \in Nat /\ M # 0
  BY SchedulerAssumption, Zenon
<1>2. d \in set \cup {M} /\ \A u \in set \cup {M} : d <= u
  <2>1. set \cup {M} \subseteq Nat
    BY <1>1, Zenon
  <2> QED
    BY <2>1, EarliestFacts, Zenon
<1>3. due \in ends \cup {M} /\ \A u \in ends \cup {M} : due <= u
  <2>1. ends \cup {M} \subseteq Nat
    BY <1>1, Zenon
  <2> QED
    BY <2>1, EarliestFacts, Zenon
<1> HIDE DEF d, due, M
<1>4. d \in Nat /\ due \in Nat
  BY <1>1, <1>2, <1>3, Zenon
<1>5. d <= M
  BY <1>2, Zenon
<1>6. d = 0 => 0 \in ends
  <2>1. d = 0 => d = wake \/ d = slice
    BY <1>1, <1>2, Zenon
  <2>2. 0 # None
    BY <1>1
  <2> QED
    BY <2>1, <2>2, Zenon
<1>7. d <= due
  <2>1. CASE due \in times
    <3>1. wake \in set /\ wake <= due /\ wake \in Nat
      BY <2>1, Zenon
    <3>2. d <= wake
      BY <1>2, <3>1, Zenon
    <3> QED
      BY <1>4, <3>1, <3>2
  <2>2. CASE due = slice
    BY <1>1, <1>2, <1>4, <2>2, Zenon
  <2>3. CASE due = M
    BY <1>5, <2>3, Zenon
  <2> QED
    BY <1>3, <2>1, <2>2, <2>3, Zenon
<1>8. d = 0 => due = d
  <2>1. d = 0 => due <= 0
    BY <1>3, <1>6, Zenon
  <2> QED
    BY <1>4, <2>1
<1>9. CASE ends = {}
  <2>1. d # 0
    BY <1>6, <1>9, Zenon
  <2>2. d \in 1 .. M
    BY <1>1, <1>4, <1>5, <2>1
  <2> QED
    BY <1>9, <2>2, Zenon DEF d, M
<1>10. CASE ends # {}
  <2>1. d = due \/ d \in 1 .. due
    BY <1>4, <1>7, <1>8
  <2> QED
    BY <1>10, <2>1, Zenon DEF d, due, M
<1> QED
  BY <1>9, <1>10, Zenon

(* The first entry of a sorted queue of sleepers.                          *)
LEMMA FirstSleeper ==
  ASSUME NEW v \in Seq([at : Nat, id : Nat]), SortedByTime(v)
  PROVE  /\ v = <<>> => Range(v) = {}
         /\ v # <<>> => /\ v[1] \in Range(v) /\ v[1].at \in Nat
                        /\ \A x \in Range(v) : x.at \in Nat /\ v[1].at <= x.at
<1>1. DOMAIN v = 1 .. Len(v) /\ Len(v) \in Nat
  BY LenProperties, Zenon
<1>2. \A x : x \in Range(v) <=> \E i \in 1 .. Len(v) : x = v[i]
  BY <1>1, Zenon DEF Range
<1>3. \A i \in 1 .. Len(v) : v[i].at \in Nat
  <2>1. \A i \in 1 .. Len(v) : v[i] \in [at : Nat, id : Nat]
    BY ElementOfSeq, Zenon
  <2> QED
    BY <2>1, Zenon
<1>4. CASE v = <<>>
  <2>1. Len(v) = 0
    BY <1>4, Zenon
  <2> QED
    BY <1>2, <1>4, <2>1
<1>5. CASE v # <<>>
  <2>1. 1 \in 1 .. Len(v)
    BY <1>1, <1>5, EmptySeq
  <2>2. \A i \in 1 .. Len(v) : v[1].at <= v[i].at
    <3> SUFFICES ASSUME NEW i \in 1 .. Len(v) PROVE v[1].at <= v[i].at
      BY Zenon
    <3>1. i = 1 \/ 1 < i
      BY <1>1
    <3>2. 1 < i => v[1].at <= v[i].at
      BY <1>1, <2>1, Zenon DEF SortedByTime
    <3>3. i = 1 => v[1].at <= v[i].at
      BY <1>3, <2>1
    <3> QED
      BY <3>1, <3>2, <3>3, Zenon
  <2> QED
    BY <1>2, <1>3, <1>5, <2>1, <2>2, Zenon
<1> QED
  BY <1>4, <1>5, Zenon

(* A process that waits for nothing is ready.                              *)
LEMMA NothingToWaitFor ==
  /\ \A q, p : reduce_queues(WaitForNone, q, p) = WaitForNone
  /\ IsWaitFor(WaitForNone, Events)
<1>1. reduce(WaitForNone) = WaitForNone
  BY Zenon DEF reduce, WaitForNone
<1>2. WaitForNone.processes = {}
  BY Zenon DEF WaitForNone
<1>3. IsWaitFor(WaitForNone, Events)
  BY Zenon DEF WaitForNone, IsWaitFor
<1> QED
  BY <1>1, <1>2, <1>3, Zenon DEF reduce_queues
=============================================================================
