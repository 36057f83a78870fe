------------------------- MODULE SubscriptionProofs -------------------------
(***************************************************************************)
(* The operations of the IPC manager that change the list of subscriptions,*)
(* the mailboxes and their owners keep its bookkeeping: subscribing,       *)
(* unsubscribing and the clean-up when a process terminates.               *)
(***************************************************************************)
EXTENDS BookkeepingProofs, FiniteSetTheorems, WellFoundedInduction

(* The list of subscriptions                                               *)

LEMMA LeastNatural ==
  ASSUME NEW T, T \subseteq Nat, T # {}
  PROVE  \E t \in T : \A u \in T : t <= u
<1>1. \E R : IsWellFoundedOn(R, Nat) /\ \A u, t \in Nat : <<u, t>> \in R <=> u < t
  <2>1. \A u, t \in Nat : <<u, t>> \in OpToRel(<, Nat) <=> u < t
    BY Zenon DEF OpToRel
  <2> QED
    BY <2>1, NatLessThanWellFounded, Zenon
<1>2. PICK R : IsWellFoundedOn(R, Nat) /\ \A u, t \in Nat : <<u, t>> \in R <=> u < t
  BY <1>1, Zenon
<1>3. IsWellFoundedOn(R, Nat)
  BY <1>2, Zenon
<1>4. \E t \in T : \A u \in T : ~(<<u, t>> \in R)
  BY ONLY <1>3, T \subseteq Nat, T # {}, WFMin, Zenon
<1>5. PICK t \in T : \A u \in T : ~(<<u, t>> \in R)
  BY <1>4, Zenon
<1>6. \A u \in T : ~(u < t)
  BY <1>2, <1>5, Zenon
<1>7. \A u \in T : t <= u
  BY ONLY <1>6, T \subseteq Nat, t \in T
<1> QED
  BY <1>7, Zenon

(* The elements of keep up to i.                                           *)
UpTo(keep, i) == {j \in keep : j <= i}

LEMMA UpToFinite ==
  ASSUME NEW n \in Nat, NEW keep, keep \subseteq 1 .. n
  PROVE  /\ IsFiniteSet(keep) /\ Cardinality(keep) \in Nat
         /\ \A i : IsFiniteSet(UpTo(keep, i)) /\ Cardinality(UpTo(keep, i)) \in Nat
<1>1. IsFiniteSet(1 .. n)
  BY FS_Interval
<1>2. IsFiniteSet(keep)
  BY <1>1, FS_Subset, Zenon
<1>3. \A i : IsFiniteSet(UpTo(keep, i))
  BY <1>2, FS_Subset, Zenon DEF UpTo
<1> QED
  BY <1>2, <1>3, FS_CardinalityType, Zenon

(* Some element of keep is the k-th.                                       *)
LEMMA NthKept ==
  ASSUME NEW n \in Nat, NEW keep, keep \subseteq 1 .. n, NEW k \in 1 .. Cardinality(keep)
  PROVE  \E i \in keep : Cardinality(UpTo(keep, i)) = k
<1> DEFINE rank(i) == Cardinality(UpTo(keep, i))
           T == {i \in Nat : rank(i) >= k}
<1>1. IsFiniteSet(keep) /\ Cardinality(keep) \in Nat
  BY UpToFinite, Zenon
<1>2. \A i : IsFiniteSet(UpTo(keep, i)) /\ rank(i) \in Nat
  BY UpToFinite, Zenon
<1>0. \A j \in keep : j \in Nat /\ 1 <= j /\ j <= n
  OBVIOUS
<1>3. UpTo(keep, n) = keep /\ UpTo(keep, 0) = {}
  BY ONLY <1>0, n \in Nat DEF UpTo
<1>4. rank(n) = Cardinality(keep) /\ rank(0) = 0
  BY <1>3, FS_EmptySet, Zenon
<1> HIDE DEF rank
<1>5. n \in T
  BY <1>1, <1>4
<1>6. PICK i \in T : \A u \in T : i <= u
  <2>1. T \subseteq Nat /\ T # {}
    BY <1>5, Zenon
  <2> HIDE DEF T
  <2> QED
    BY <2>1, LeastNatural, Zenon
<1>7. i \in Nat /\ rank(i) >= k /\ i # 0
  BY <1>1, <1>4, <1>6
<1>8. i - 1 \in Nat /\ rank(i - 1) < k
  <2>1. i - 1 \in Nat /\ ~(i <= i - 1)
    BY <1>7
  <2>2. i - 1 \notin T
    BY <1>6, <2>1, Zenon
  <2>3. rank(i - 1) \in Nat /\ k \in Nat
    BY <1>1, <1>2
  <2> QED
    BY <2>1, <2>2, <2>3
<1>9. CASE i \in keep
  <2>1. UpTo(keep, i) = UpTo(keep, i - 1) \cup {i} /\ i \notin UpTo(keep, i - 1)
    <3>1. \A j \in keep : j <= i <=> j <= i - 1 \/ j = i
      BY ONLY <1>0, <1>7
    <3>2. ~(i <= i - 1)
      BY ONLY <1>7
    <3> QED
      BY ONLY <1>9, <3>1, <3>2, Zenon DEF UpTo
  <2>2. rank(i) = rank(i - 1) + 1
    BY <1>2, <2>1, FS_AddElement, Zenon DEF rank
  <2>3. rank(i) = k
    BY <1>1, <1>2, <1>7, <1>8, <2>2
  <2> QED
    BY <1>9, <2>3, Zenon DEF rank
<1>10. CASE i \notin keep
  <2>1. UpTo(keep, i) = UpTo(keep, i - 1)
    BY ONLY <1>0, <1>7, <1>8, <1>10 DEF UpTo
  <2>2. rank(i) = rank(i - 1)
    BY <2>1, Zenon DEF rank
  <2> QED
    BY <1>1, <1>2, <1>7, <1>8, <2>2
<1> QED
  BY <1>9, <1>10, Zenon

LEMMA RankIsOwn ==
  ASSUME NEW n \in Nat, NEW keep, keep \subseteq 1 .. n, NEW i \in keep, NEW j \in keep, i < j
  PROVE  Cardinality(UpTo(keep, i)) # Cardinality(UpTo(keep, j))
<1>1. IsFiniteSet(UpTo(keep, j))
  BY UpToFinite, Zenon
<1>0. \A k \in keep : k \in Nat
  OBVIOUS
<1>2. UpTo(keep, i) \in SUBSET UpTo(keep, j) /\ j \in UpTo(keep, j) /\ j \notin UpTo(keep, i)
  BY ONLY <1>0, i \in keep, j \in keep, i < j DEF UpTo
<1> QED
  BY <1>1, <1>2, FS_Subset, Zenon

LEMMA RankRange ==
  ASSUME NEW n \in Nat, NEW keep, keep \subseteq 1 .. n, NEW i \in keep
  PROVE  Cardinality(UpTo(keep, i)) \in 1 .. Cardinality(keep)
<1>1. /\ IsFiniteSet(keep) /\ Cardinality(keep) \in Nat
      /\ IsFiniteSet(UpTo(keep, i)) /\ Cardinality(UpTo(keep, i)) \in Nat
  BY UpToFinite, Zenon
<1>2. UpTo(keep, i) \in SUBSET keep /\ i \in UpTo(keep, i)
  BY DEF UpTo
<1>3. Cardinality(UpTo(keep, i)) <= Cardinality(keep)
  BY <1>1, <1>2, FS_Subset, Zenon
<1>4. Cardinality(UpTo(keep, i)) # 0
  BY <1>1, <1>2, FS_EmptySet, Zenon
<1> QED
  BY <1>1, <1>3, <1>4

Ids(t) == {t[i].id : i \in DOMAIN t}

IsList(l) ==
  /\ l = [targets |-> l.targets, next_subscription_id |-> l.next_subscription_id]
  /\ IsSeq(l.targets) /\ l.next_subscription_id \in Nat

(* A function on an initial segment of the naturals is a sequence.         *)
LEMMA SegmentIsSeq ==
  ASSUME NEW n \in Nat, NEW t, t = [i \in 1 .. n |-> t[i]]
  PROVE  IsSeq(t) /\ DOMAIN t = 1 .. n
<1>1. DOMAIN t = 1 .. n
  BY Zenon
<1>2. \A i \in 1 .. n : t[i] \in Range(t)
  BY <1>1, Zenon DEF Range
<1>3. t \in [1 .. n -> Range(t)]
  BY <1>2, Zenon
<1> QED
  BY <1>1, <1>3 DEF IsSeq

LEMMA InsertList ==
  ASSUME NEW l, IsList(l), NEW f, NEW r
  PROVE  /\ IsList(insert(l, f, r))
         /\ insert(l, f, r).next_subscription_id = l.next_subscription_id + 1
         /\ Ids(insert(l, f, r).targets) = Ids(l.targets) \cup {l.next_subscription_id}
<1> DEFINE v == [filter |-> f, reliable |-> r, id |-> l.next_subscription_id]
           t == l.targets
           n == Len(t)
           smaller == {i \in 1 .. n : TargetLess(t[i], v)}
           k == Cardinality(smaller)
           u == [i \in 1 .. n + 1 |-> IF i <= k THEN t[i]
                                      ELSE IF i = k + 1 THEN v ELSE t[i - 1]]
<1>1. n \in Nat /\ DOMAIN t = 1 .. n
  BY SeqFacts, Zenon DEF IsList
<1>2. k \in 0 .. n
  <2> HIDE DEF n, v, t
  <2>1. IsFiniteSet(1 .. n) /\ Cardinality(1 .. n) = n
    BY <1>1, FS_Interval
  <2>2. smaller \in SUBSET (1 .. n)
    BY Zenon
  <2>3. IsFiniteSet(smaller) /\ k <= n
    BY <2>1, <2>2, FS_Subset, Zenon
  <2> QED
    BY <1>1, <2>3, FS_CardinalityType
<1>3. insert(l, f, r) = [targets |-> u, next_subscription_id |-> l.next_subscription_id + 1]
  BY Zenon DEF insert
<1>4. v.id = l.next_subscription_id
  BY Zenon
<1> HIDE DEF v, t, n, k
<1>5. u = [i \in 1 .. n + 1 |-> u[i]] /\ n + 1 \in Nat
  <2>1. u = [i \in 1 .. n + 1 |-> u[i]]
    BY Zenon
  <2>2. n + 1 \in Nat
    BY ONLY <1>1
  <2> QED
    BY <2>1, <2>2, Zenon
<1>6. \A i \in 1 .. n + 1 : \/ i \in 1 .. n /\ u[i] = t[i]
                            \/ u[i] = v
                            \/ i - 1 \in 1 .. n /\ u[i] = t[i - 1]
  BY <1>1, <1>2
<1>7. k + 1 \in 1 .. n + 1 /\ u[k + 1] = v
  BY <1>1, <1>2
<1>8. ASSUME NEW j \in 1 .. n PROVE \E i \in 1 .. n + 1 : u[i] = t[j]
  <2>1. CASE j <= k
    <3>1. j \in 1 .. n + 1 /\ u[j] = t[j]
      BY <1>1, <1>2, <2>1
    <3> QED
      BY <3>1, Zenon
  <2>2. CASE ~(j <= k)
    <3>1. j + 1 \in 1 .. n + 1 /\ u[j + 1] = t[(j + 1) - 1] /\ (j + 1) - 1 = j
      BY <1>1, <1>2, <2>2
    <3> QED
      BY <3>1, Zenon
  <2> QED
    BY <2>1, <2>2, Zenon
<1> HIDE DEF u
<1>9. IsSeq(u) /\ DOMAIN u = 1 .. n + 1
  BY <1>5, SegmentIsSeq, Zenon
<1>10. Ids(u) = Ids(t) \cup {l.next_subscription_id}
  <2>1. \A x \in Ids(u) : x \in Ids(t) \/ x = l.next_subscription_id
    BY <1>1, <1>4, <1>6, <1>9 DEF Ids
  <2>2. \A x \in Ids(t) : x \in Ids(u)
    BY <1>1, <1>8, <1>9, Zenon DEF Ids
  <2>3. l.next_subscription_id \in Ids(u)
    BY <1>4, <1>7, <1>9, Zenon DEF Ids
  <2> QED
    BY <2>1, <2>2, <2>3, Zenon
<1> QED
  BY <1>3, <1>9, <1>10 DEF IsList, t

LEMMA RetainList ==
  ASSUME NEW l, IsList(l), NEW S
  PROVE  /\ IsList(retain(l, S))
         /\ retain(l, S).next_subscription_id = l.next_subscription_id
         /\ Ids(retain(l, S).targets) = Ids(l.targets) \ S
<1> DEFINE t == l.targets
           n == Len(t)
           keep == {i \in 1 .. n : t[i].id \notin S}
           nth(k) == CHOOSE i \in keep : Cardinality(UpTo(keep, i)) = k
           u == [k \in 1 .. Cardinality(keep) |-> t[nth(k)]]
<1>1. n \in Nat /\ DOMAIN t = 1 .. n
  BY SeqFacts, Zenon DEF IsList
<1>2. retain(l, S) = [targets |-> u, next_subscription_id |-> l.next_subscription_id]
  BY Zenon DEF retain, UpTo
<1>3. keep \subseteq 1 .. n /\ \A i \in 1 .. n : i \in keep <=> t[i].id \notin S
  BY Zenon
<1> HIDE DEF keep, t, n
<1>4. Cardinality(keep) \in Nat
  BY <1>1, <1>3, UpToFinite, Zenon
<1>5. \A k \in 1 .. Cardinality(keep) : nth(k) \in keep /\ Cardinality(UpTo(keep, nth(k))) = k
  BY <1>1, <1>3, NthKept, Zenon
<1>6. ASSUME NEW i \in keep
      PROVE  /\ Cardinality(UpTo(keep, i)) \in 1 .. Cardinality(keep)
             /\ nth(Cardinality(UpTo(keep, i))) = i
  <2> DEFINE k == Cardinality(UpTo(keep, i))
             j == nth(k)
  <2>1. k \in 1 .. Cardinality(keep)
    BY <1>1, <1>3, RankRange, Zenon
  <2>2. j \in keep /\ Cardinality(UpTo(keep, j)) = k
    BY <1>5, <2>1, Zenon
  <2> HIDE DEF j
  <2>3. i \in Int /\ j \in Int
    <3>1. \A x \in keep : x \in Int
      BY <1>1, <1>3
    <3> QED
      BY <2>2, <3>1, Zenon
  <2>4. ~(i < j) /\ ~(j < i)
    BY <1>1, <1>3, <2>2, RankIsOwn, Zenon
  <2>5. j = i
    BY <2>3, <2>4
  <2> QED
    BY <2>1, <2>5, Zenon DEF j
<1>7. u = [k \in 1 .. Cardinality(keep) |-> u[k]]
      /\ \A k \in 1 .. Cardinality(keep) : u[k] = t[nth(k)]
  OBVIOUS
<1> HIDE DEF u, nth
<1>8. IsSeq(u) /\ DOMAIN u = 1 .. Cardinality(keep)
  BY <1>4, <1>7, SegmentIsSeq, Zenon
<1>9. Ids(u) = Ids(t) \ S
  <2>1. \A x \in Ids(u) : x \in Ids(t) /\ x \notin S
    BY <1>1, <1>3, <1>5, <1>7, <1>8 DEF Ids
  <2>2. \A x \in Ids(t) : x \notin S => x \in Ids(u)
    <3> SUFFICES ASSUME NEW i \in 1 .. n, t[i].id \notin S
                 PROVE  t[i].id \in Ids(u)
      BY <1>1, Zenon DEF Ids
    <3>1. i \in keep
      BY <1>3, Zenon
    <3> DEFINE k == Cardinality(UpTo(keep, i))
    <3>2. k \in DOMAIN u /\ u[k] = t[i]
      BY <1>6, <1>7, <1>8, <3>1, Zenon
    <3> HIDE DEF k
    <3> QED
      BY <3>2, Zenon DEF Ids
  <2> QED
    BY <2>1, <2>2, Zenon
<1> QED
  BY <1>2, <1>8, <1>9 DEF IsList, t

-----------------------------------------------------------------------------
(* Subscribing and unsubscribing                                           *)

(* IpcOK without the owners.                                               *)
MailOK(m, blk, pend, hld, alv) ==
  /\ ManagerOK(m)
  /\ AcksOK(m, hld)
  /\ WaitersOK(m, blk)
  /\ SendersOK(m, blk, pend, alv)
  /\ PipesOK(m, alv)

LEMMA IpcParts ==
  ASSUME NEW m, NEW blk, NEW pend, NEW hld, NEW alv
  PROVE  IpcOK(m, blk, pend, hld, alv) <=>
           MailOK(m, blk, pend, hld, alv) /\ OwnersOK(m, alv)
BY Zenon DEF IpcOK, MailOK

LEMMA OtherOwners ==
  ASSUME NEW m, NEW blk, NEW pend, NEW hld, NEW alv, MailOK(m, blk, pend, hld, alv),
         NEW v, IsMap(v)
  PROVE  /\ MailOK(SetOwners(m, v), blk, pend, hld, alv)
         /\ SetOwners(m, v).process_subscriptions = v
         /\ SetOwners(m, v).mailboxes = m.mailboxes
         /\ SetOwners(m, v).subscriptions = m.subscriptions
         /\ SetOwners(m, v).waiting_for_delivery = m.waiting_for_delivery
<1> DEFINE n == SetOwners(m, v)
<1>1. ManagerOK(m) /\ IsManager(m)
  BY Zenon DEF MailOK, ManagerOK
<1>2. /\ IsManager(n) /\ n.process_subscriptions = v
      /\ n.subscriptions = m.subscriptions /\ n.mailboxes = m.mailboxes
      /\ n.waiting_for_delivery = m.waiting_for_delivery
      /\ n.delivery_result = m.delivery_result
      /\ n.next_acknowledge_id = m.next_acknowledge_id
  BY <1>1, SetOwnersFields
<1> HIDE DEF n
<1>3. ManagerOK(n)
  BY <1>1, <1>2, Zenon DEF Box, NextId, ManagerOK, Listed, Boxes
<1>4. AcksOK(n, hld)
  <2>1. /\ Boxes(n) = Boxes(m)
        /\ \A t \in Boxes(m) : /\ Slots(n, t) = Slots(m, t)
                               /\ \A i : AckAt(n, t, i) = AckAt(m, t, i)
    BY <1>2, Zenon DEF Box, Boxes, Slots, AckAt
  <2>2. AcksOK(m, hld)
    BY Zenon DEF MailOK
  <2> QED
    BY <1>2, <2>1, <2>2, SameAcks, Zenon
<1>5. WaitersOK(n, blk)
  BY <1>2, Zenon DEF Box, NextId, MailOK, WaitersOK, Boxes
<1>6. SendersOK(n, blk, pend, alv)
  BY <1>2, SameSenders, Zenon DEF MailOK
<1>7. PipesOK(n, alv)
  BY <1>2, SamePipes, Zenon DEF MailOK
<1> QED
  BY <1>2, <1>3, <1>4, <1>5, <1>6, <1>7, Zenon DEF MailOK, n

(* What adding a mailbox b yields.                                         *)
Added(m, n, b) ==
  LET id == NextId(m)
  IN  /\ n.process_subscriptions = m.process_subscriptions
      /\ id \notin Boxes(m) /\ Boxes(n) = Boxes(m) \cup {id}
      /\ Box(n, id) = b
      /\ \A s \in Boxes(m) : Box(n, s) = Box(m, s)

LEMMA AddBox ==
  ASSUME NEW m, NEW blk, NEW pend, NEW hld, NEW alv, MailOK(m, blk, pend, hld, alv),
         NEW f, NEW r, NEW b, BoxOK(b), b.queue = <<>>, b.pipe_mode # "ConnectedTo"
  PROVE  /\ MailOK(AddMailbox(m, f, r, b), blk, pend, hld, alv)
         /\ Added(m, AddMailbox(m, f, r, b), b)
<1> DEFINE id == NextId(m)
           l == insert(m.subscriptions, f, r)
           x == Put(m.mailboxes, id, b)
           n == AddMailbox(m, f, r, b)
<1>1. ManagerOK(m) /\ IsManager(m) /\ IsList(m.subscriptions) /\ id \in Nat
  BY DEF MailOK, ManagerOK, IsList
<1>2. n = SetMailboxes(SetSubscriptions(m, l), x)
  BY Zenon DEF NextId, AddMailbox, SetMailboxes, SetSubscriptions
<1>3. IsList(l) /\ l.next_subscription_id = id + 1 /\ Ids(l.targets) = Ids(m.subscriptions.targets) \cup {id}
  BY <1>1, InsertList, Zenon DEF NextId
<1>4. IsMap(x) /\ DOMAIN x = Boxes(m) \cup {id} /\ x[id] = b /\ \A s \in Boxes(m) : s # id => x[s] = Box(m, s)
  <2> HIDE DEF id
  <2> QED
    BY Zenon DEF Box, IsMap, Put, Boxes
<1> HIDE DEF l, x
<1>5. /\ IsManager(n) /\ n.subscriptions = l /\ n.mailboxes = x
      /\ n.process_subscriptions = m.process_subscriptions
      /\ n.waiting_for_delivery = m.waiting_for_delivery
      /\ n.delivery_result = m.delivery_result
      /\ n.next_acknowledge_id = m.next_acknowledge_id
  <2> DEFINE k == SetSubscriptions(m, l)
  <2>1. /\ IsManager(k) /\ k.subscriptions = l /\ k.mailboxes = m.mailboxes
        /\ k.process_subscriptions = m.process_subscriptions
        /\ k.waiting_for_delivery = m.waiting_for_delivery
        /\ k.delivery_result = m.delivery_result
        /\ k.next_acknowledge_id = m.next_acknowledge_id
    BY ONLY <1>1, SetSubscriptionsFields, SMTT(30)
  <2>2. n = SetMailboxes(k, x)
    BY <1>2, Zenon
  <2> HIDE DEF k, n
  <2> QED
    BY ONLY <2>1, <2>2, SetMailboxesFields, SMTT(30)
<1> HIDE DEF n
<1>6. id \notin Boxes(m) /\ \A s \in Boxes(m) : x[s] = Box(m, s)
  <2>1. \A s \in Boxes(m) : s \in Nat /\ s < id
    BY <1>1, Zenon DEF ManagerOK
  <2>2. id \notin Boxes(m)
    BY ONLY <1>1, <2>1
  <2> QED
    BY <1>4, <2>2, Zenon
<1>7. Added(m, n, b)
  BY <1>4, <1>5, <1>6, Zenon DEF Box, Added, Boxes
<1>8. Listed(m) = Ids(m.subscriptions.targets) /\ Listed(n) = Ids(l.targets)
  BY <1>5, Zenon DEF Listed, Ids
<1>9. ManagerOK(n)
  <2>1. /\ n.subscriptions = [targets |-> n.subscriptions.targets,
                        next_subscription_id |-> NextId(n)]
        /\ IsSeq(n.subscriptions.targets) /\ NextId(n) = id + 1
        /\ id + 1 \in Nat
    BY <1>1, <1>3, <1>5, Zenon DEF NextId, IsList
  <2>2. /\ IsMap(n.mailboxes) /\ IsMap(n.waiting_for_delivery)
        /\ IsMap(n.delivery_result) /\ IsMap(n.process_subscriptions) /\ n.next_acknowledge_id \in Nat
    BY <1>1, <1>4, <1>5, Zenon DEF ManagerOK
  <2>3. Listed(n) = Boxes(n)
    BY <1>1, <1>3, <1>4, <1>5, <1>8, Zenon DEF ManagerOK, Boxes
  <2>4. ASSUME NEW s \in Boxes(n)
        PROVE  s \in Nat /\ s < id + 1 /\ BoxOK(Box(n, s))
    <3>1. CASE s = id
      <4>1. BoxOK(Box(n, s))
        BY <1>7, <3>1, Zenon DEF Added
      <4>2. s \in Nat /\ s < id + 1
        BY ONLY <1>1, <3>1
      <4> QED
        BY <4>1, <4>2, Zenon
    <3>2. CASE s \in Boxes(m)
      <4>1. s \in Nat /\ s < id /\ BoxOK(Box(m, s)) /\ Box(n, s) = Box(m, s)
        BY <1>1, <1>7, <3>2, Zenon DEF ManagerOK, Added
      <4>2. s < id + 1
        BY ONLY <1>1, <4>1
      <4> QED
        BY <4>1, <4>2, Zenon
    <3> QED
      BY <1>7, <3>1, <3>2, Zenon DEF Added
  <2> QED
    BY <1>5, <2>1, <2>2, <2>3, <2>4, Zenon DEF ManagerOK
<1>10. /\ Slots(n, id) = {}
       /\ \A s \in Boxes(m) : Slots(n, s) = Slots(m, s)
       /\ \A s \in Boxes(m) : \A i \in Slots(m, s) : AckAt(n, s, i) = AckAt(m, s, i)
  <2>1. Box(n, id).queue = <<>> /\ \A s \in Boxes(m) : Box(n, s) = Box(m, s)
    BY <1>7, Zenon DEF Added
  <2>2. \A xs : xs = <<>> => DOMAIN xs = {}
    BY ONLY SMT
  <2> QED
    BY <2>1, <2>2, Zenon DEF Slots, AckAt
<1>11. AcksOK(n, hld)
  <2>1. SameMail(m, n)
    <3>1. n.next_acknowledge_id >= m.next_acknowledge_id
      <4>1. m.next_acknowledge_id \in Nat
        BY <1>1, Zenon DEF ManagerOK
      <4> QED
        BY ONLY <1>5, <4>1
    <3>2. Boxes(n) = Boxes(m) \cup {id}
      BY <1>7, Zenon DEF Added
    <3> QED
      BY <1>5, <1>10, <3>1, <3>2, Zenon DEF SameMail
  <2>2. AcksOK(m, hld)
    BY Zenon DEF MailOK
  <2> QED
    BY <1>1, <1>9, <2>1, <2>2, FrameAcks, Zenon
<1>12. WaitersOK(n, blk)
  <2> SUFFICES ASSUME NEW p \in DOMAIN blk, NEW s, MailboxEvent(s) \in blk[p]
               PROVE  /\ s \in Nat /\ s < id + 1
                      /\ s \in Boxes(n) => Box(n, s).queue = <<>> /\ Box(n, s).event
    BY <1>3, <1>5, Zenon DEF NextId, WaitersOK
  <2>1. /\ s \in Nat /\ s < id
        /\ s \in Boxes(m) => Box(m, s).queue = <<>> /\ Box(m, s).event
    BY Zenon DEF MailOK, WaitersOK
  <2>2. s # id /\ s < id + 1
    BY ONLY <1>1, <2>1
  <2> QED
    BY <1>7, <2>1, <2>2, Zenon DEF Added
<1>13. SendersOK(n, blk, pend, alv)
  BY <1>5, SameSenders, Zenon DEF MailOK
<1>14. PipesOK(n, alv)
  <2> SUFFICES ASSUME NEW s \in Boxes(n), Box(n, s).pipe_mode = "ConnectedTo"
               PROVE  /\ Box(n, s).peer \in alv
                      /\ \A i \in Slots(n, s) :
                           n.waiting_for_delivery[AckAt(n, s, i)].pid = Box(n, s).peer
    BY Zenon DEF PipesOK
  <2>1. s \in Boxes(m) /\ Box(n, s) = Box(m, s)
    BY <1>7, Zenon DEF Added
  <2>2. /\ Box(m, s).peer \in alv
        /\ \A i \in Slots(m, s) : m.waiting_for_delivery[AckAt(m, s, i)].pid = Box(m, s).peer
    BY <2>1, Zenon DEF MailOK, PipesOK
  <2> QED
    BY <1>5, <1>10, <2>1, <2>2, Zenon
<1>15. MailOK(n, blk, pend, hld, alv)
  BY <1>9, <1>11, <1>12, <1>13, <1>14, Zenon DEF MailOK
<1> QED
  BY <1>7, <1>15, Zenon DEF n

LEMMA Subscribe ==
  ASSUME NEW m, NEW blk, IsMap(blk), NEW pend, NEW hld, NEW alv, IpcOK(m, blk, pend, hld, alv),
         NEW p \in alv, NEW f, NEW r, NEW pipe
  PROVE  /\ IpcOK(subscribe(m, p, f, r, pipe).m, Wake(blk, subscribe(m, p, f, r, pipe).events),
                  pend, hld, alv)
         /\ subscribe(m, p, f, r, pipe).res # "wait"
<1>1. CASE conflicts(m.subscriptions, f, r)
  <2>1. subscribe(m, p, f, r, pipe) = Result(m, "Exclusion", {})
    BY <1>1, Zenon DEF subscribe
  <2> QED
    BY <2>1, Unchanged DEF Result
<1>2. CASE ~conflicts(m.subscriptions, f, r)
  <2> DEFINE mode == IF pipe THEN "NotConnected" ELSE "None"
             b == Mailbox_new(mode)
             n == AddMailbox(m, f, r, b)
             id == NextId(m)
             ps == m.process_subscriptions
             own == Owned(m, p)
             v == Put(ps, p, own \cup {id})
             k == SetOwners(n, v)
  <2>1. BoxOK(b) /\ b.queue = <<>> /\ b.kernel = FALSE /\ b.pipe_mode # "ConnectedTo"
    BY NewBoxes, Zenon
  <2> HIDE DEF b
  <2>2. MailOK(m, blk, pend, hld, alv) /\ OwnersOK(m, alv)
    BY IpcParts, Zenon
  <2>3. MailOK(n, blk, pend, hld, alv) /\ Added(m, n, b)
    BY <2>1, <2>2, AddBox, Zenon
  <2>4. n.process_subscriptions = m.process_subscriptions
    BY <2>3, Zenon DEF Added
  <2>5. subscribe(m, p, f, r, pipe) = Result(k, "ok", {})
    BY <1>2, <2>4, Zenon DEF NextId, subscribe, SetOwners, b
  <2> HIDE DEF n, id
  <2>6. own = IF p \in DOMAIN ps THEN ps[p] ELSE {}
    BY Zenon DEF Owned
  <2> HIDE DEF own
  <2>7. /\ IsMap(v) /\ DOMAIN v = DOMAIN ps \cup {p} /\ v[p] = own \cup {id}
        /\ \A q \in DOMAIN ps : q # p => v[q] = ps[q]
    BY Zenon DEF IsMap, Put
  <2> HIDE DEF v
  <2>8. MailOK(k, blk, pend, hld, alv) /\ k.process_subscriptions = v /\ k.mailboxes = n.mailboxes
    BY <2>3, <2>7, OtherOwners
  <2> HIDE DEF k
  <2>9. /\ id \notin Boxes(m) /\ Boxes(k) = Boxes(m) \cup {id} /\ Box(k, id) = b
        /\ \A s \in Boxes(m) : Box(k, s) = Box(m, s)
    BY <2>3, <2>8, Zenon DEF Box, Added, Boxes, id
  <2>10. OwnersOK(k, alv)
    <3>1. DOMAIN v \subseteq alv
      BY <2>2, <2>7, Zenon DEF OwnersOK
    <3>2. \A q \in DOMAIN v : v[q] \subseteq Boxes(k)
      BY <2>2, <2>6, <2>7, <2>9, Zenon DEF OwnersOK
    <3>3. ASSUME NEW s \in Boxes(k)
          PROVE  IF Box(k, s).kernel THEN \A q \in DOMAIN v : s \notin v[q]
                 ELSE \E q \in DOMAIN v : s \in v[q]
      <4>1. CASE s = id
        BY <2>1, <2>7, <2>9, <4>1, Zenon
      <4>2. CASE s \in Boxes(m)
        <5>1. s # id /\ Box(k, s) = Box(m, s)
          BY <2>9, <4>2, Zenon
        <5>2. \A q \in DOMAIN v : s \in v[q] <=> q \in DOMAIN ps /\ s \in ps[q]
          BY <2>6, <2>7, <5>1, Zenon
        <5>3. IF Box(m, s).kernel THEN \A q \in DOMAIN ps : s \notin ps[q]
              ELSE \E q \in DOMAIN ps : s \in ps[q]
          BY <2>2, <4>2, Zenon DEF OwnersOK
        <5> QED
          BY <2>7, <5>1, <5>2, <5>3, Zenon
      <4> QED
        BY <2>9, <4>1, <4>2, Zenon
    <3>4. ASSUME NEW q \in DOMAIN v, NEW z \in DOMAIN v, NEW s \in v[q], s \in v[z]
          PROVE  q = z
      <4>1. CASE s = id
        <5>1. \A y \in DOMAIN ps : s \notin ps[y]
          BY <2>2, <2>9, <4>1, Zenon DEF OwnersOK
        <5> QED
          BY <2>7, <3>4, <5>1, Zenon
      <4>2. CASE s # id
        <5>1. \A y \in DOMAIN v : s \in v[y] => y \in DOMAIN ps /\ s \in ps[y]
          BY <2>6, <2>7, <4>2, Zenon
        <5> QED
          BY <2>2, <3>4, <5>1, Zenon DEF OwnersOK
      <4> QED
        BY <4>1, <4>2, Zenon
    <3> QED
      BY <2>8, <3>1, <3>2, <3>3, <3>4, Zenon DEF OwnersOK
  <2>11. IpcOK(k, blk, pend, hld, alv)
    BY <2>8, <2>10, IpcParts, Zenon
  <2>12. IpcOK(k, Wake(blk, {}), pend, hld, alv)
    BY <2>11, WakeNone, Zenon
  <2> QED
    BY <2>5, <2>12 DEF Result
<1> QED
  BY <1>1, <1>2, Zenon

(* What dropping the mailboxes S yields.                                   *)
Dropped(m, n, S) ==
  /\ n.process_subscriptions = m.process_subscriptions
  /\ Boxes(n) = Boxes(m) \ S
  /\ \A s \in Boxes(n) : Box(n, s) = Box(m, s)

LEMMA ForceUnsubscribe ==
  ASSUME NEW m, NEW blk, NEW pend, NEW hld, NEW alv, NEW S, S \subseteq Boxes(m),
         IsMap(blk), DOMAIN blk \subseteq Pids, DOMAIN blk \subseteq alv,
         MailOK(m, blk, pend, hld, alv)
  PROVE  LET r == force_unsubscribe(m, S)
         IN  /\ MailOK(r.m, Wake(blk, r.events), pend, hld, alv)
             /\ Dropped(m, r.m, S) /\ r.res = "ok"
<1> DEFINE w == m.waiting_for_delivery
           acks == QueuedAcks(m, S)
           senders == {w[a].pid : a \in acks}
           E == {SenderEvent(a) : a \in acks}
           l == retain(m.subscriptions, S)
           x == Drop(m.mailboxes, S)
           v == Drop(w, acks)
           u == [p \in DOMAIN m.delivery_result \cup senders |->
                   IF p \in senders THEN "NoSubscriber" ELSE m.delivery_result[p]]
           n1 == SetSubscriptions(m, l)
           n2 == SetMailboxes(n1, x)
           n3 == SetWaiting(n2, v)
           n == SetResults(n3, u)
           b == Wake(blk, E)
           r == force_unsubscribe(m, S)
<1> USE KernelAssumption
<1>acks. AcksOK(m, hld)
  BY Zenon DEF MailOK
<1>ids. \A a \in DOMAIN w : a \in Nat /\ a < m.next_acknowledge_id /\ a # None
  BY <1>acks, Zenon DEF AcksOK
<1>known. \A t \in Boxes(m) : \A i \in Slots(m, t) :
            AckAt(m, t, i) # None => AckAt(m, t, i) \in DOMAIN w
  BY <1>acks, Zenon DEF AcksOK
<1>held. \A q \in Pids : hld[q] \subseteq DOMAIN w
  BY <1>acks, Zenon DEF AcksOK
<1>placed. \A a \in DOMAIN w : \/ \E t \in Boxes(m) : \E i \in Slots(m, t) : AckAt(m, t, i) = a
                               \/ \E q \in Pids : a \in hld[q]
  BY <1>acks, Zenon DEF AcksOK
<1>once. \A t, y \in Boxes(m) : \A i \in Slots(m, t), j \in Slots(m, y) :
           AckAt(m, t, i) # None /\ AckAt(m, t, i) = AckAt(m, y, j) => t = y /\ i = j
  BY <1>acks, Zenon DEF AcksOK
<1>apart. \A t \in Boxes(m) : \A i \in Slots(m, t) : \A q \in Pids : AckAt(m, t, i) \notin hld[q]
  BY <1>acks, Zenon DEF AcksOK
<1>alone. \A q, y \in Pids : \A a \in hld[q] : a \in hld[y] => q = y
  BY <1>acks, Zenon DEF AcksOK
<1>fit. SendersOK(m, blk, pend, alv)
  BY Zenon DEF MailOK
<1>2. \A a \in DOMAIN w : /\ w[a].event = SenderEvent(a) /\ w[a].pid \in DOMAIN blk
                          /\ blk[w[a].pid] = {SenderEvent(a)}
  BY <1>fit, Zenon DEF SendersOK
<1>sender. \A q \in DOMAIN blk : \A a : SenderEvent(a) \in blk[q] => a \in DOMAIN w /\ w[a].pid = q
  BY <1>fit, Zenon DEF SendersOK
<1>waits. \A q \in DOMAIN blk : Delivering(pend, q) <=> \E a \in DOMAIN w : SenderEvent(a) \in blk[q]
  BY <1>fit, Zenon DEF SendersOK
<1>results. /\ DOMAIN m.delivery_result \subseteq Pids
            /\ \A q \in DOMAIN m.delivery_result : m.delivery_result[q] # "wait"
  BY <1>fit, Zenon DEF SendersOK
<1>result. \A q \in Pids : q \in DOMAIN m.delivery_result <=>
             q \in alv /\ Delivering(pend, q) /\ q \notin DOMAIN blk
  BY <1>fit, Zenon DEF SendersOK
<1>3. \A a : a \in acks <=> a # None /\ \E t \in S : \E i \in Slots(m, t) : AckAt(m, t, i) = a
  BY ONLY SMTT(30) DEF Box, QueuedAcks, Slots, AckAt
<1>4. acks \subseteq DOMAIN w
  <2> HIDE DEF acks, w
  <2> SUFFICES ASSUME NEW a \in acks PROVE a \in DOMAIN w
    BY Zenon
  <2>1. PICK t \in S : \E i \in Slots(m, t) : AckAt(m, t, i) = a
    BY <1>3, Zenon
  <2>2. a # None /\ t \in Boxes(m)
    BY <1>3, Zenon
  <2> QED
    BY <1>known, <2>1, <2>2, Zenon
<1>5. r = Result(n, "ok", E)
  BY <1>4, Zenon DEF force_unsubscribe, SetSubscriptions, SetMailboxes, SetWaiting, SetResults, Boxes
<1>6. IsManager(m) /\ IsList(m.subscriptions) /\ ManagerOK(m)
  BY DEF MailOK, ManagerOK, IsList
<1>7. /\ IsList(l) /\ l.next_subscription_id = NextId(m)
      /\ Ids(l.targets) = Ids(m.subscriptions.targets) \ S
  BY <1>6, RetainList, Zenon DEF NextId
<1>8. \A q : q \in senders <=> \E a \in acks : q = w[a].pid
  BY Zenon
<1>9. \A e : e \in E <=> \E a \in acks : e = SenderEvent(a)
  BY Zenon
<1> HIDE DEF w, acks, senders, E
<1>10. /\ IsMap(x) /\ DOMAIN x = Boxes(m) \ S /\ \A s \in Boxes(m) \ S : x[s] = Box(m, s)
       /\ IsMap(v) /\ DOMAIN v = DOMAIN w \ acks /\ \A a \in DOMAIN w \ acks : v[a] = w[a]
  BY Zenon DEF Box, Drop, Restrict, IsMap, Boxes
<1>11. /\ IsMap(u) /\ DOMAIN u = DOMAIN m.delivery_result \cup senders
       /\ \A q \in senders : u[q] = "NoSubscriber"
       /\ \A q \in DOMAIN m.delivery_result : q \notin senders => u[q] = m.delivery_result[q]
  BY Zenon DEF IsMap
<1>12. /\ \A q \in DOMAIN b : q \in DOMAIN blk /\ b[q] = blk[q] /\ \A e \in b[q] : e \notin E
       /\ \A q \in DOMAIN blk : q \in DOMAIN b \/ \E e \in blk[q] : e \in E
  BY Zenon DEF Wake, WaitingFor, Drop, Restrict
<1> HIDE DEF l, x, v, u, b
<1>13. /\ IsManager(n) /\ n.waiting_for_delivery = v /\ n.delivery_result = u
       /\ n.subscriptions = l /\ n.mailboxes = x
       /\ n.next_acknowledge_id = m.next_acknowledge_id
       /\ n.process_subscriptions = m.process_subscriptions
  <2>1. /\ IsManager(n1) /\ n1.subscriptions = l
        /\ n1.next_acknowledge_id = m.next_acknowledge_id
        /\ n1.process_subscriptions = m.process_subscriptions
    BY ONLY <1>6, SetSubscriptionsFields, SMTT(30)
  <2> HIDE DEF n1
  <2>2. /\ IsManager(n2) /\ n2.subscriptions = l /\ n2.mailboxes = x
        /\ n2.next_acknowledge_id = m.next_acknowledge_id
        /\ n2.process_subscriptions = m.process_subscriptions
    BY ONLY <2>1, SetMailboxesFields, SMTT(30)
  <2> HIDE DEF n2
  <2>3. /\ IsManager(n3) /\ n3.subscriptions = l /\ n3.mailboxes = x /\ n3.waiting_for_delivery = v
        /\ n3.next_acknowledge_id = m.next_acknowledge_id
        /\ n3.process_subscriptions = m.process_subscriptions
    BY ONLY <2>2, SetWaitingFields, SMTT(30)
  <2> HIDE DEF n3
  <2> QED
    BY ONLY <2>3, SetResultsFields, SMTT(30)
<1> HIDE DEF n1, n2, n3, n, r
<1>14. Dropped(m, n, S)
  BY <1>10, <1>13, Zenon DEF Box, Dropped, Boxes
<1>15. /\ Boxes(n) = Boxes(m) \ S
       /\ \A t \in Boxes(n) : Slots(n, t) = Slots(m, t) /\ \A i : AckAt(n, t, i) = AckAt(m, t, i)
  BY <1>14, Zenon DEF Dropped, Slots, AckAt
<1>16. ManagerOK(n)
  <2>1. Listed(n) = Boxes(n)
    <3>1. Listed(n) = Ids(l.targets) /\ Listed(m) = Ids(m.subscriptions.targets)
      BY <1>13, Zenon DEF Listed, Ids
    <3> QED
      BY <1>6, <1>7, <1>15, <3>1, Zenon DEF ManagerOK
  <2>2. \A s \in Boxes(n) : s \in Boxes(m) /\ Box(n, s) = Box(m, s)
    BY <1>14, Zenon DEF Dropped
  <2> QED
    BY <1>6, <1>7, <1>10, <1>11, <1>13, <2>1, <2>2, Zenon DEF NextId, ManagerOK, IsList
<1>17. AcksOK(n, hld)
  <2>1. ASSUME NEW t \in Boxes(n), NEW i \in Slots(m, t), AckAt(m, t, i) # None
        PROVE  AckAt(m, t, i) \in DOMAIN v
    <3>1. AckAt(m, t, i) \notin acks
      <4> SUFFICES ASSUME AckAt(m, t, i) \in acks PROVE FALSE
        BY Zenon
      <4>1. PICK y \in S : \E j \in Slots(m, y) : AckAt(m, y, j) = AckAt(m, t, i)
        BY <1>3, Zenon
      <4>2. PICK j \in Slots(m, y) : AckAt(m, y, j) = AckAt(m, t, i)
        BY <4>1, Zenon
      <4>3. t \in Boxes(m) /\ t \notin S /\ y \in Boxes(m)
        BY <1>15, Zenon
      <4>4. t = y
        BY ONLY <1>once, <2>1, <4>2, <4>3, SMT
      <4> QED
        BY <4>3, <4>4, Zenon
    <3> QED
      BY <1>known, <1>10, <1>15, <2>1, <3>1, Zenon
  <2>2. ASSUME NEW q \in Pids, NEW a \in hld[q] PROVE a \in DOMAIN v
    <3>0. ASSUME a \in acks PROVE FALSE
      <4>1. PICK t \in S : \E i \in Slots(m, t) : AckAt(m, t, i) = a
        BY <1>3, <3>0, Zenon
      <4>2. t \in Boxes(m)
        BY Zenon
      <4> QED
        BY <1>apart, <4>1, <4>2, Zenon
    <3>1. a \in DOMAIN w /\ a \notin acks
      BY <1>held, <3>0, Zenon
    <3> QED
      BY <1>10, <3>1, Zenon
  <2>3. ASSUME NEW a \in DOMAIN v
        PROVE  \/ \E t \in Boxes(n) : \E i \in Slots(m, t) : AckAt(m, t, i) = a
               \/ \E q \in Pids : a \in hld[q]
    <3>1. a \in DOMAIN w /\ a \notin acks /\ a # None
      BY <1>ids, <1>10, Zenon
    <3>2. ASSUME NEW t \in Boxes(m), NEW i \in Slots(m, t), AckAt(m, t, i) = a
          PROVE  t \in Boxes(n)
      BY <1>3, <1>15, <3>1, <3>2, Zenon
    <3> QED
      BY <1>placed, <3>1, <3>2, Zenon
  <2> DEFINE z == n.waiting_for_delivery
  <2>4. z = v /\ n.next_acknowledge_id = m.next_acknowledge_id
    BY <1>13, Zenon
  <2>5. \A t \in Boxes(n) : /\ t \in Boxes(m) /\ Slots(n, t) = Slots(m, t)
                            /\ \A i : AckAt(n, t, i) = AckAt(m, t, i)
    BY <1>15, Zenon
  <2> HIDE DEF z
  <2>6. \A a \in DOMAIN z : a \in Nat /\ a < n.next_acknowledge_id
    BY <1>ids, <1>10, <2>4, Zenon
  <2>7. \A t \in Boxes(n) : \A i \in Slots(n, t) : AckAt(n, t, i) # None => AckAt(n, t, i) \in DOMAIN z
    BY <2>1, <2>4, <2>5, Zenon
  <2>8. \A q \in Pids : hld[q] \subseteq DOMAIN z
    BY <2>2, <2>4, Zenon
  <2>9. \A a \in DOMAIN z : \/ \E t \in Boxes(n) : \E i \in Slots(n, t) : AckAt(n, t, i) = a
                            \/ \E q \in Pids : a \in hld[q]
    <3> SUFFICES ASSUME NEW a \in DOMAIN z
                 PROVE  \/ \E t \in Boxes(n) : \E i \in Slots(n, t) : AckAt(n, t, i) = a
                        \/ \E q \in Pids : a \in hld[q]
      BY Zenon
    <3>1. ASSUME NEW t \in Boxes(n), NEW i \in Slots(m, t), AckAt(m, t, i) = a
          PROVE  \E i2 \in Slots(n, t) : AckAt(n, t, i2) = a
      BY <2>5, <3>1, Zenon
    <3>2. a \in DOMAIN v
      BY <2>4, Zenon
    <3> QED
      BY <2>3, <3>1, <3>2, Zenon
  <2>10. \A t, y \in Boxes(n) : \A i \in Slots(n, t), j \in Slots(n, y) :
           AckAt(n, t, i) # None /\ AckAt(n, t, i) = AckAt(n, y, j) => t = y /\ i = j
    BY ONLY <1>once, <2>5, SMT
  <2>11. \A t \in Boxes(n) : \A i \in Slots(n, t) : \A q \in Pids : AckAt(n, t, i) \notin hld[q]
    BY <1>apart, <2>5, Zenon
  <2> QED
    BY <1>alone, <2>6, <2>7, <2>8, <2>9, <2>10, <2>11, Zenon DEF AcksOK, z
<1>18. WaitersOK(n, b)
  <2>1. \A s \in Boxes(n) : s \in Boxes(m) /\ Box(n, s) = Box(m, s)
    BY <1>14, Zenon DEF Dropped
  <2>2. NextId(n) = NextId(m)
    BY <1>7, <1>13, Zenon DEF NextId
  <2>3. WaitersOK(m, blk)
    BY Zenon DEF MailOK
  <2>4. \A q \in DOMAIN b : q \in DOMAIN blk /\ b[q] = blk[q]
    BY <1>12, Zenon
  <2> QED
    BY ONLY <2>1, <2>2, <2>3, <2>4, Zenon DEF WaitersOK
<1>19. SendersOK(n, b, pend, alv)
  <2>1. ASSUME NEW a \in DOMAIN v
        PROVE  /\ v[a].event = SenderEvent(a) /\ v[a].pid \in DOMAIN b
               /\ b[v[a].pid] = {SenderEvent(a)}
    <3>1. a \in DOMAIN w /\ a \notin acks /\ v[a] = w[a]
      BY <1>10, Zenon
    <3>2. SenderEvent(a) \notin E
      <4> SUFFICES ASSUME SenderEvent(a) \in E PROVE FALSE
        BY Zenon
      <4>1. PICK c \in acks : SenderEvent(a) = SenderEvent(c)
        BY <1>9, Zenon
      <4> QED
        BY <3>1, <4>1, EventFacts, Zenon
    <3>3. w[a].event = SenderEvent(a) /\ w[a].pid \in DOMAIN blk /\ blk[w[a].pid] = {SenderEvent(a)}
      BY <1>2, <3>1, Zenon
    <3>4. w[a].pid \in DOMAIN b /\ b[w[a].pid] = blk[w[a].pid]
      <4> DEFINE q == w[a].pid
      <4>1. q \in DOMAIN blk /\ \A e \in blk[q] : e \notin E
        BY <3>2, <3>3, Zenon
      <4> HIDE DEF q
      <4>2. q \in DOMAIN b /\ b[q] = blk[q]
        BY <1>12, <4>1, Zenon
      <4> QED
        BY <4>2, Zenon DEF q
    <3> QED
      BY <3>1, <3>3, <3>4, Zenon
  <2>2. ASSUME NEW q \in DOMAIN b, NEW a, SenderEvent(a) \in b[q]
        PROVE  a \in DOMAIN v /\ v[a].pid = q
    <3>1. q \in DOMAIN blk /\ b[q] = blk[q] /\ SenderEvent(a) \notin E
      BY <1>12, <2>2, Zenon
    <3>2. a \in DOMAIN w /\ w[a].pid = q /\ a \notin acks
      BY <1>sender, <1>9, <2>2, <3>1, Zenon
    <3> QED
      BY <1>10, <3>2, Zenon
  <2>3. \A q \in DOMAIN b : Delivering(pend, q) <=> \E a \in DOMAIN v : SenderEvent(a) \in b[q]
    BY <1>waits, <1>10, <1>12, <2>2, Zenon
  <2>4. ASSUME NEW q \in senders
        PROVE  q \in DOMAIN blk /\ Delivering(pend, q) /\ q \notin DOMAIN b
    <3>1. PICK a \in acks : q = w[a].pid
      BY <1>8, Zenon
    <3>2. q \in DOMAIN blk /\ blk[q] = {SenderEvent(a)} /\ a \in DOMAIN w /\ SenderEvent(a) \in E
      BY <1>2, <1>4, <1>9, <3>1, Zenon
    <3>3. q \notin DOMAIN b
      BY <1>12, <3>2, Zenon
    <3>4. Delivering(pend, q)
      BY <1>waits, <3>2, Zenon
    <3> QED
      BY <3>2, <3>3, <3>4, Zenon
  <2>5. ASSUME NEW q \in DOMAIN blk, q \notin DOMAIN b
        PROVE  q \in senders
    <3>0. PICK e \in blk[q] : e \in E
      BY <1>12, <2>5, Zenon
    <3>1. PICK a \in acks : SenderEvent(a) \in blk[q]
      BY <1>9, <3>0, Zenon
    <3> QED
      BY <1>sender, <1>8, <3>1, Zenon
  <2>6. /\ DOMAIN u \subseteq Pids
        /\ \A q \in Pids : q \in DOMAIN u <=> q \in alv /\ Delivering(pend, q) /\ q \notin DOMAIN b
    BY <1>results, <1>result, <1>11, <1>12, <2>4, <2>5, Zenon
  <2>7. \A q \in DOMAIN u : u[q] # "wait"
    BY <1>results, <1>11, Zenon
  <2> QED
    BY <1>13, <2>1, <2>2, <2>3, <2>6, <2>7, Zenon DEF SendersOK
<1>20. PipesOK(n, alv)
  <2> SUFFICES ASSUME NEW t \in Boxes(n), Box(n, t).pipe_mode = "ConnectedTo"
               PROVE  /\ Box(n, t).peer \in alv
                      /\ \A i \in Slots(n, t) : v[AckAt(n, t, i)].pid = Box(n, t).peer
    BY <1>13, Zenon DEF PipesOK
  <2>1. t \in Boxes(m) /\ Box(n, t) = Box(m, t)
    BY <1>14, Zenon DEF Dropped
  <2>2. ASSUME NEW i \in Slots(m, t)
        PROVE  AckAt(m, t, i) \in DOMAIN v
    <3>1. AckAt(m, t, i) # None
      BY <1>6, <2>1, Zenon DEF ManagerOK, BoxOK, AckAt, Slots
    <3>2. i \in Slots(n, t) /\ AckAt(n, t, i) = AckAt(m, t, i)
      BY <1>15, Zenon
    <3> QED
      BY <1>13, <1>17, <3>1, <3>2, Zenon DEF AcksOK
  <2>3. /\ Box(m, t).peer \in alv
        /\ \A i \in Slots(m, t) : w[AckAt(m, t, i)].pid = Box(m, t).peer
    BY <2>1, Zenon DEF MailOK, PipesOK, w
  <2>4. \A a \in DOMAIN v : v[a] = w[a]
    BY <1>10, Zenon
  <2> QED
    BY <1>15, <2>1, <2>2, <2>3, <2>4, Zenon
<1>21. MailOK(n, b, pend, hld, alv)
  BY <1>16, <1>17, <1>18, <1>19, <1>20, Zenon DEF MailOK
<1>22. r.m = n /\ r.res = "ok" /\ r.events = E
  BY <1>5, Zenon DEF Result
<1> QED
  BY <1>14, <1>21, <1>22, Zenon DEF r, b

(* From m to n the owners lose the subscriptions S, and are among alv.     *)
OwnersLose(m, n, S, alv) ==
  LET ps == m.process_subscriptions
      v  == n.process_subscriptions
  IN  /\ Boxes(n) = Boxes(m) \ S
      /\ \A s \in Boxes(n) : Box(n, s) = Box(m, s)
      /\ DOMAIN v \subseteq alv /\ DOMAIN v \subseteq DOMAIN ps
      /\ \A q \in DOMAIN v : v[q] = ps[q] \ S
      /\ \A q \in DOMAIN ps : q \in DOMAIN v \/ ps[q] \subseteq S

LEMMA OwnersAfter ==
  ASSUME NEW m, NEW n, NEW alv, NEW alv2, NEW S, OwnersOK(m, alv), OwnersLose(m, n, S, alv2)
  PROVE  OwnersOK(n, alv2)
<1> DEFINE ps == m.process_subscriptions
<1>1. /\ \A q \in DOMAIN ps : ps[q] \subseteq Boxes(m)
      /\ \A s \in Boxes(m) : IF Box(m, s).kernel
                             THEN \A q \in DOMAIN ps : s \notin ps[q]
                             ELSE \E q \in DOMAIN ps : s \in ps[q]
      /\ \A q, z \in DOMAIN ps : \A s \in ps[q] : s \in ps[z] => q = z
  BY Zenon DEF OwnersOK
<1> DEFINE v == n.process_subscriptions
<1>2. /\ Boxes(n) = Boxes(m) \ S
      /\ \A s \in Boxes(n) : Box(n, s) = Box(m, s)
      /\ DOMAIN v \subseteq alv2
      /\ DOMAIN v \subseteq DOMAIN ps /\ \A q \in DOMAIN v : v[q] = ps[q] \ S
      /\ \A q \in DOMAIN ps : q \in DOMAIN v \/ ps[q] \subseteq S
  BY Zenon DEF OwnersLose
<1> HIDE DEF ps
<1>3. \A s \in Boxes(n) : \A q \in DOMAIN ps : s \in ps[q] => q \in DOMAIN v /\ s \in v[q]
  BY <1>2, Zenon
<1>4. \A q \in DOMAIN v : v[q] \subseteq Boxes(n)
  BY <1>1, <1>2, ZenonT(30)
<1>5. ASSUME NEW s \in Boxes(n)
      PROVE  IF Box(n, s).kernel THEN \A q \in DOMAIN v : s \notin v[q]
             ELSE \E q \in DOMAIN v : s \in v[q]
  <2>1. s \in Boxes(m) /\ Box(n, s) = Box(m, s)
    BY <1>2, Zenon
  <2>2. CASE Box(m, s).kernel
    <3>1. \A q \in DOMAIN ps : s \notin ps[q]
      BY <1>1, <2>1, <2>2, Zenon
    <3>2. \A q \in DOMAIN v : s \notin v[q]
      BY <1>2, <3>1, Zenon
    <3> QED
      BY <2>1, <2>2, <3>2, Zenon
  <2>3. CASE ~Box(m, s).kernel
    <3>1. \E q \in DOMAIN ps : s \in ps[q]
      BY <1>1, <2>1, <2>3, Zenon
    <3>2. \E q \in DOMAIN v : s \in v[q]
      BY <1>3, <3>1, Zenon
    <3> QED
      BY <2>1, <2>3, <3>2, Zenon
  <2> QED
    BY <2>2, <2>3, Zenon
<1>6. \A q, z \in DOMAIN v : \A s \in v[q] : s \in v[z] => q = z
  <2>1. \A q \in DOMAIN v : q \in DOMAIN ps /\ \A s \in v[q] : s \in ps[q]
    BY <1>2, Zenon
  <2> QED
    BY <1>1, <2>1, Zenon
<1> QED
  BY <1>2, <1>4, <1>5, <1>6, Zenon DEF OwnersOK

LEMMA Unsubscribe ==
  ASSUME NEW m, NEW blk, NEW pend, NEW hld, NEW alv, NEW p \in alv, NEW s,
         IsMap(blk), DOMAIN blk \subseteq Pids, DOMAIN blk \subseteq alv,
         IpcOK(m, blk, pend, hld, alv)
  PROVE  /\ IpcOK(unsubscribe(m, p, s).m, Wake(blk, unsubscribe(m, p, s).events), pend, hld, alv)
         /\ unsubscribe(m, p, s).res # "wait"
<1> DEFINE ps == m.process_subscriptions
           own == Owned(m, p)
           v == Put(ps, p, own \ {s})
           k == SetOwners(m, v)
           r == unsubscribe(m, p, s)
<1>1. CASE s \notin own
  <2>1. r = Result(m, "NotOwner", {})
    BY <1>1, Zenon DEF unsubscribe, process_owns
  <2> HIDE DEF r
  <2>2. r.m = m /\ r.events = {} /\ r.res = "NotOwner"
    BY <2>1, Zenon DEF Result
  <2>3. IpcOK(r.m, Wake(blk, r.events), pend, hld, alv) /\ r.res # "wait"
    BY <2>2, WakeNone, Zenon
  <2> QED
    BY <2>3, Zenon DEF r
<1>2. CASE s \in own
  <2>1. r = force_unsubscribe(k, {s})
    BY <1>2, Zenon DEF unsubscribe, process_owns, SetOwners
  <2>2. MailOK(m, blk, pend, hld, alv) /\ OwnersOK(m, alv)
    BY IpcParts, Zenon
  <2>3. p \in DOMAIN ps /\ own = ps[p]
    BY <1>2, Zenon DEF Owned
  <2>4. /\ s \in Boxes(m) /\ DOMAIN ps \subseteq alv
        /\ \A q, z \in DOMAIN ps : \A t \in ps[q] : t \in ps[z] => q = z
    BY <1>2, <2>2, <2>3, Zenon DEF OwnersOK
  <2> HIDE DEF own, ps
  <2>5. /\ IsMap(v) /\ DOMAIN v = DOMAIN ps \cup {p} /\ v[p] = own \ {s}
        /\ \A q \in DOMAIN ps : q # p => v[q] = ps[q]
    BY Zenon DEF IsMap, Put
  <2> HIDE DEF v
  <2>6. MailOK(k, blk, pend, hld, alv) /\ k.process_subscriptions = v /\ k.mailboxes = m.mailboxes
    BY <2>2, <2>5, OtherOwners
  <2> HIDE DEF k, r
  <2>7. Boxes(k) = Boxes(m) /\ {s} \subseteq Boxes(k)
    BY <2>4, <2>6, Zenon DEF Boxes
  <2>8. MailOK(r.m, Wake(blk, r.events), pend, hld, alv) /\ Dropped(k, r.m, {s}) /\ r.res = "ok"
    BY <2>1, <2>6, <2>7, ForceUnsubscribe, Zenon
  <2>9. /\ Boxes(r.m) = Boxes(m) \ {s} /\ r.m.process_subscriptions = v
        /\ \A t \in Boxes(r.m) : Box(r.m, t) = Box(m, t)
    BY <2>6, <2>7, <2>8, Zenon DEF Box, Dropped
  <2>10. \A q \in DOMAIN v : v[q] = ps[q] \ {s}
    <3>1. \A q \in DOMAIN ps : q # p => s \notin ps[q]
      BY <1>2, <2>3, <2>4, Zenon
    <3> QED
      BY <2>3, <2>5, <3>1, Zenon
  <2>11. DOMAIN v = DOMAIN ps
    BY <2>3, <2>5, Zenon
  <2>12. OwnersOK(r.m, alv)
    <3>1. OwnersLose(m, r.m, {s}, alv)
      BY <2>4, <2>9, <2>10, <2>11, Zenon DEF OwnersLose, ps
    <3> QED
      BY <2>2, <3>1, OwnersAfter, Zenon
  <2>13. IpcOK(r.m, Wake(blk, r.events), pend, hld, alv)
    BY <2>8, <2>12, IpcParts, Zenon
  <2> QED
    BY <2>8, <2>13, Zenon DEF r
<1> QED
  BY <1>1, <1>2, Zenon

LEMMA UnsubscribeEverything ==
  ASSUME NEW m, NEW blk, NEW pend, NEW hld, NEW alv, NEW p,
         IsMap(blk), DOMAIN blk \subseteq Pids, DOMAIN blk \subseteq alv,
         IpcOK(m, blk, pend, hld, alv)
  PROVE  LET r == UnsubscribeAll(m, p)
         IN  /\ MailOK(r.m, Wake(blk, r.events), pend, hld, alv)
             /\ OwnersOK(r.m, alv \ {p}) /\ r.res = "ok"
<1> DEFINE ps == m.process_subscriptions
           own == Owned(m, p)
           v == Drop(ps, {p})
           k == SetOwners(m, v)
           r == UnsubscribeAll(m, p)
<1>1. r = force_unsubscribe(k, own)
  BY Zenon DEF UnsubscribeAll, SetOwners
<1>2. MailOK(m, blk, pend, hld, alv) /\ OwnersOK(m, alv)
  BY IpcParts, Zenon
<1>3. own = IF p \in DOMAIN ps THEN ps[p] ELSE {}
  BY Zenon DEF Owned
<1>4. /\ own \subseteq Boxes(m) /\ DOMAIN ps \subseteq alv
      /\ \A q, z \in DOMAIN ps : \A t \in ps[q] : t \in ps[z] => q = z
  BY <1>2, <1>3, Zenon DEF OwnersOK
<1> HIDE DEF own, ps
<1>5. IsMap(v) /\ DOMAIN v = DOMAIN ps \ {p} /\ \A q \in DOMAIN ps \ {p} : v[q] = ps[q]
  BY Zenon DEF IsMap, Drop, Restrict
<1> HIDE DEF v
<1>6. MailOK(k, blk, pend, hld, alv) /\ k.process_subscriptions = v /\ k.mailboxes = m.mailboxes
  BY <1>2, <1>5, OtherOwners
<1> HIDE DEF k, r
<1>7. Boxes(k) = Boxes(m) /\ own \subseteq Boxes(k)
  BY <1>4, <1>6, Zenon DEF Boxes
<1>8. MailOK(r.m, Wake(blk, r.events), pend, hld, alv) /\ Dropped(k, r.m, own) /\ r.res = "ok"
  BY <1>1, <1>6, <1>7, ForceUnsubscribe, Zenon
<1>9. /\ Boxes(r.m) = Boxes(m) \ own /\ r.m.process_subscriptions = v
      /\ \A t \in Boxes(r.m) : Box(r.m, t) = Box(m, t)
  BY <1>6, <1>7, <1>8, Zenon DEF Box, Dropped
<1>10. \A q \in DOMAIN v : v[q] = ps[q] \ own
  <2>1. \A q \in DOMAIN v : ps[q] \cap own = {}
    BY <1>3, <1>4, <1>5, Zenon
  <2> QED
    BY <1>5, <2>1, Zenon
<1>11. \A q \in DOMAIN ps : q \in DOMAIN v \/ ps[q] \subseteq own
  BY <1>3, <1>5, Zenon
<1>12. DOMAIN v \subseteq alv \ {p} /\ DOMAIN v \subseteq DOMAIN ps
  BY <1>4, <1>5, Zenon
<1>13. OwnersOK(r.m, alv \ {p})
  <2>1. OwnersLose(m, r.m, own, alv \ {p})
    BY <1>9, <1>10, <1>11, <1>12, Zenon DEF OwnersLose, ps
  <2> QED
    BY <1>2, <2>1, OwnersAfter, Zenon
<1> QED
  BY <1>8, <1>13, Zenon DEF r

(* The pipes of a process that ends are empty: it would wait for the       *)
(* acknowledgement of a message in them.                                   *)
LEMMA DisconnectPipes ==
  ASSUME NEW m, NEW blk, NEW pend, NEW hld, NEW alv, NEW p \in Pids,
         IsMap(blk), DOMAIN blk \subseteq Pids, p \notin DOMAIN blk, ~Delivering(pend, p),
         MailOK(m, blk, pend, hld, alv), OwnersOK(m, alv \ {p})
  PROVE  LET r == Disconnect(m, p)
         IN  IpcOK(r.m, Wake(blk, r.events), pend, hld, alv \ {p})
<1> DEFINE S == PipesOf(m, p)
           n == Disconnect(m, p).m
           E == Disconnect(m, p).events
<1> USE KernelAssumption
<1>1. ManagerOK(m)
  BY Zenon DEF MailOK
<1>2. /\ OnlyMailboxes(m, n) /\ E = PushEvents(m, S)
      /\ \A s \in Boxes(m) : Box(n, s) =
           IF s \in S THEN Disconnected(Box(m, s)) ELSE Box(m, s)
  BY <1>1, DisconnectFields, Zenon
<1>3. \A s : s \in S <=> /\ s \in Boxes(m) /\ Box(m, s).pipe_mode = "ConnectedTo"
                         /\ Box(m, s).peer = p
  BY Zenon DEF Box, PipesOf, Boxes
<1> HIDE DEF n, E, S
<1>4. ASSUME NEW s \in S
      PROVE  Box(m, s).queue = <<>>
  <2>1. ASSUME NEW i \in Slots(m, s)
        PROVE  FALSE
    <3>1. AckAt(m, s, i) # None
      BY <1>1, <1>3, Zenon DEF ManagerOK, BoxOK, AckAt, Slots
    <3>2. AckAt(m, s, i) \in DOMAIN m.waiting_for_delivery
      BY <1>3, <3>1, Zenon DEF MailOK, AcksOK
    <3>3. m.waiting_for_delivery[AckAt(m, s, i)].pid = p
      BY <1>3, Zenon DEF MailOK, PipesOK
    <3> QED
      BY <3>2, <3>3, Zenon DEF MailOK, SendersOK
  <2>2. IsSeq(Box(m, s).queue)
    BY <1>1, <1>3, Zenon DEF ManagerOK, BoxOK
  <2> DEFINE q == Box(m, s).queue
  <2>3. \A i \in DOMAIN q : FALSE
    BY <2>1, Zenon DEF Slots
  <2> HIDE DEF q
  <2>4. Len(q) \in Nat /\ DOMAIN q = 1 .. Len(q) /\ (q = <<>> <=> Len(q) = 0)
    BY <2>2, SeqFacts, Zenon DEF q
  <2>5. q = <<>>
    BY ONLY <2>3, <2>4
  <2> QED
    BY <2>5, Zenon DEF q
<1>5. ASSUME NEW s \in S
      PROVE  /\ BoxOK(Box(n, s)) /\ Box(n, s).pipe_mode = "Disconnected"
             /\ Box(n, s).queue = <<>>
             /\ Box(n, s).kernel = Box(m, s).kernel
  <2> DEFINE b == Box(m, s)
             d == Disconnected(b)
  <2>1. s \in Boxes(m) /\ Box(n, s) = d
    BY <1>2, <1>3, Zenon
  <2>2. BoxOK(b) /\ b.queue = <<>>
    BY <1>1, <1>4, <2>1, Zenon DEF ManagerOK
  <2>3. /\ IsMailbox(d) /\ d.queue = b.queue /\ d.kernel = b.kernel /\ d.event = FALSE
        /\ d.pipe_mode = "Disconnected"
    BY DisconnectedFields, Zenon
  <2> HIDE DEF b, d
  <2>4. d.kernel \in BOOLEAN /\ d.event \in BOOLEAN
    BY ONLY <2>2, <2>3, Zenon DEF BoxOK
  <2>5. d.queue = <<>> /\ IsSeq(d.queue)
    BY ONLY <2>2, <2>3, Zenon DEF BoxOK
  <2>6. \A i \in DOMAIN d.queue : FALSE
    BY ONLY <2>5
  <2>7. BoxOK(d)
    BY ONLY <2>3, <2>4, <2>5, <2>6, Zenon DEF BoxOK
  <2> QED
    BY <2>1, <2>3, <2>5, <2>7, Zenon DEF b
<1>6. \A s \in Boxes(m) : s \notin S => Box(n, s) = Box(m, s)
  BY <1>2, Zenon
<1>7. Boxes(n) = Boxes(m)
  BY <1>2, Zenon DEF OnlyMailboxes
<1>8. ManagerOK(n)
  <2>1. \A s \in Boxes(m) : BoxOK(Box(n, s))
    BY <1>1, <1>5, <1>6, Zenon DEF ManagerOK
  <2> QED
    BY <1>1, <1>2, <2>1, MailboxesManager, Zenon
<1>9. SameMail(m, n)
  <2>1. \A s \in S : s \in Boxes(m) /\ Slots(m, s) = {} /\ Slots(n, s) = {}
    BY <1>3, <1>4, <1>5 DEF Slots
  <2>2. \A s \in Boxes(m) : s \notin S =>
          Slots(n, s) = Slots(m, s) /\ \A i : AckAt(n, s, i) = AckAt(m, s, i)
    BY <1>6, Zenon DEF Slots, AckAt
  <2>3. /\ n.next_acknowledge_id = m.next_acknowledge_id /\ m.next_acknowledge_id \in Nat
        /\ n.waiting_for_delivery = m.waiting_for_delivery
        /\ n.delivery_result = m.delivery_result
    BY <1>1, <1>2, Zenon DEF OnlyMailboxes, ManagerOK
  <2>4. n.next_acknowledge_id >= m.next_acknowledge_id
    BY ONLY <2>3, SMT
  <2>5. ASSUME NEW s \in Boxes(m), NEW i \in Slots(n, s)
        PROVE  i \in Slots(m, s) /\ AckAt(m, s, i) = AckAt(n, s, i)
    BY <2>1, <2>2, Zenon
  <2>6. ASSUME NEW s \in Boxes(m), NEW i \in Slots(m, s)
        PROVE  i \in Slots(n, s) /\ AckAt(n, s, i) = AckAt(m, s, i)
    BY <2>1, <2>2, Zenon
  <2>7. Boxes(m) \subseteq Boxes(n) /\ \A s \in Boxes(n) : s \in Boxes(m)
    BY <1>7, Zenon
  <2> QED
    BY <2>3, <2>4, <2>5, <2>6, <2>7, Zenon DEF SameMail
<1>10. \A e : e \in E <=> \E s \in S : e = MailboxEvent(s) /\ Box(m, s).event
  BY <1>2, Zenon DEF Box, PushEvents
<1>11. AllHear(m, n, E)
  <2>1. /\ NextId(n) >= NextId(m)
        /\ \A s \in Boxes(n) \ Boxes(m) : s >= NextId(m)
    <3>1. NextId(n) = NextId(m) /\ NextId(m) \in Nat
      BY <1>1, <1>2, Zenon DEF NextId, OnlyMailboxes, ManagerOK
    <3>2. NextId(n) >= NextId(m)
      BY ONLY <3>1, SMT
    <3> QED
      BY <1>7, <3>2, Zenon
  <2>2. ASSUME NEW s \in Boxes(m)
        PROVE  \/ MailboxEvent(s) \in E
               \/ Box(m, s).queue # <<>>
               \/ ~Box(m, s).event
               \/ Box(n, s).queue = <<>> /\ Box(n, s).event
    BY <1>6, <1>10, Zenon
  <2>3. \A a : SenderEvent(a) \notin E
    <3> SUFFICES ASSUME NEW a, SenderEvent(a) \in E PROVE FALSE
      BY Zenon
    <3>1. PICK s \in S : SenderEvent(a) = MailboxEvent(s)
      BY <1>10, Zenon
    <3> QED
      BY <3>1, EventFacts, Zenon
  <2> QED
    BY <1>7, <2>1, <2>2, <2>3, Zenon DEF AllHear
<1>12. OwnersOK(n, alv \ {p})
  <2>1. \A s \in Boxes(m) : Box(n, s).kernel = Box(m, s).kernel
    BY <1>5, <1>6, Zenon
  <2> QED
    BY <1>2, <2>1, FrameOwners, Zenon
<1>13. AcksOK(n, hld)
  BY <1>1, <1>8, <1>9, FrameAcks, Zenon DEF MailOK
<1>14. WaitersOK(n, Wake(blk, E))
  BY <1>1, <1>8, <1>11, FrameWaiters, Zenon DEF MailOK
<1>15. SendersOK(n, Wake(blk, E), pend, alv \ {p})
  <2>0. SendersOK(m, blk, pend, alv)
    BY Zenon DEF MailOK
  <2> DEFINE g == alv \ {p}
             d == m.delivery_result
  <2>g. \A q \in Pids : Delivering(pend, q) => (q \in alv <=> q \in g)
    BY Zenon
  <2>d. /\ DOMAIN d \subseteq Pids /\ \A q \in DOMAIN d : d[q] # "wait"
        /\ \A q \in Pids : q \in DOMAIN d <=> q \in alv /\ Delivering(pend, q) /\ q \notin DOMAIN blk
    BY <2>0, Zenon DEF SendersOK
  <2> HIDE DEF g, d
  <2>e. \A q \in Pids : q \in DOMAIN d <=> q \in g /\ Delivering(pend, q) /\ q \notin DOMAIN blk
    BY <2>g, <2>d, Zenon
  <2>f. SendersOK(m, blk, pend, g)
    BY <2>0, <2>d, <2>e, Zenon DEF SendersOK, d
  <2>1. SendersOK(m, blk, pend, alv \ {p})
    BY <2>f, Zenon DEF g
  <2>2. /\ n.waiting_for_delivery = m.waiting_for_delivery /\ n.delivery_result = m.delivery_result
        /\ \A a : SenderEvent(a) \notin E
    BY <1>9, <1>11, Zenon DEF SameMail, AllHear
  <2> QED
    BY <2>1, <2>2, FrameSenders, Zenon
<1>16. PipesOK(n, alv \ {p})
  <2> SUFFICES ASSUME NEW s \in Boxes(m), Box(n, s).pipe_mode = "ConnectedTo"
               PROVE  /\ Box(n, s).peer \in alv \ {p}
                      /\ \A i \in Slots(n, s) :
                           n.waiting_for_delivery[AckAt(n, s, i)].pid = Box(n, s).peer
    BY <1>7, Zenon DEF PipesOK
  <2>1. s \notin S
    BY <1>5, Zenon
  <2>2. Box(n, s) = Box(m, s) /\ Box(m, s).peer # p
    BY <1>3, <1>6, <2>1, Zenon
  <2>3. n.waiting_for_delivery = m.waiting_for_delivery
    BY <1>9, Zenon DEF SameMail
  <2> QED
    BY <2>2, <2>3, Zenon DEF MailOK, PipesOK, Slots, AckAt
<1>17. IpcOK(n, Wake(blk, E), pend, hld, alv \ {p})
  BY <1>8, <1>12, <1>13, <1>14, <1>15, <1>16, Zenon DEF IpcOK
<1> QED
  BY <1>17, Zenon DEF n, E

=============================================================================
