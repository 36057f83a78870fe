--------------------------- MODULE ProtocolProofs ---------------------------
(***************************************************************************)
(* The protocols that stand on their own: the exclusion rule of the        *)
(* subscription list, the hand-over of stacks to the starting cores, the   *)
(* address of the network daemon and the answers of its resolver, the      *)
(* reading of the real-time clock.  Each part extends one specification    *)
(* and uses nothing of the others.                                         *)
(***************************************************************************)
EXTENDS SubscriptionList, Smp, NetDaemon, Rtc, FiniteSetTheorems, TLAPS

-----------------------------------------------------------------------------
(***************************************************************************)
(* The exclusion rule of the subscription list, for any alphabet, any      *)
(* names and any number of subscriptions.                                  *)
(***************************************************************************)

(* A filter with a name of some length.                                    *)
IsFilter(f) ==
  /\ f.kind \in {"Exact", "Prefix"}
  /\ Len(f.name) \in Nat

LEMMA FilterFacts ==
  ASSUME NEW f \in Filters
  PROVE  IsFilter(f)
<1>1. \A s \in Names(MaxName) : Len(s) \in Nat
  BY DEF Names
<1> QED
  BY <1>1 DEF Filters, Exact, Prefix, IsFilter

(* Filters that match a common topic contain each other in the sense of    *)
(* the code: both are prefixes of the topic, so one is a prefix of the     *)
(* other.                                                                  *)
LEMMA CommonTopic ==
  ASSUME NEW f, IsFilter(f), NEW g, IsFilter(g), NEW t, Len(t) \in Nat,
         matches(f, t), matches(g, t)
  PROVE  contains_filter(f, g)
<1>1. CASE f.kind = "Exact" /\ g.kind = "Exact"
  BY <1>1, Zenon DEF matches, contains_filter
<1>2. CASE f.kind = "Exact" /\ g.kind = "Prefix"
  BY <1>2, Zenon DEF matches, contains_filter
<1>3. CASE f.kind = "Prefix" /\ g.kind = "Exact"
  BY <1>3, Zenon DEF matches, contains_filter
<1>4. CASE f.kind = "Prefix" /\ g.kind = "Prefix"
  <2>1. starts_with(t, f.name) /\ starts_with(t, g.name)
    BY <1>4, Zenon DEF matches
  <2>2. starts_with(f.name, g.name) \/ starts_with(g.name, f.name)
    BY <2>1, SMTT(30) DEF starts_with, IsFilter
  <2> QED
    BY <1>4, <2>2, Zenon DEF contains_filter
<1> QED
  BY <1>1, <1>2, <1>3, <1>4, Zenon DEF IsFilter

(* What the conflict check maintains about the list l.                     *)
NoOverlap(l) ==
  \A i, j \in 1 .. Len(l.targets) :
    i # j /\ l.targets[i].reliable =>
      ~contains_filter(l.targets[i].filter, l.targets[j].filter)

ListIInv == ListTypeOK /\ NoOverlap(list)

LEMMA ListInitIInv == ListInit => ListIInv
BY DEF ListInit, ListIInv, ListTypeOK, NoOverlap, List_new

(* The elements after an insertion: the old ones, each at one index, and   *)
(* the new one.                                                            *)
LEMMA InsertFacts ==
  ASSUME ListTypeOK, NEW f \in Filters, NEW r \in BOOLEAN
  PROVE  LET n == Len(list.targets)
             v == [filter |-> f, reliable |-> r, id |-> list.next_subscription_id]
         IN  \E k \in 1 .. n + 1 :
               insert(list, f, r) =
                 [targets |-> [i \in 1 .. n + 1 |-> IF i < k THEN list.targets[i]
                                                   ELSE IF i = k THEN v
                                                   ELSE list.targets[i - 1]],
                  next_subscription_id |-> list.next_subscription_id + 1]
<1> DEFINE n == Len(list.targets)
           v == [filter |-> f, reliable |-> r, id |-> list.next_subscription_id]
           smaller == {i \in 1 .. n : TargetLess(list.targets[i], v)}
           m == Cardinality(smaller)
<1>1. n \in Nat
  BY Zenon DEF ListTypeOK
<1>2. m \in 0 .. n
  <2> HIDE DEF n, v
  <2>1. IsFiniteSet(1 .. n) /\ Cardinality(1 .. n) = n
    BY <1>1, FS_Interval, SMTT(30)
  <2>2. smaller \in SUBSET (1 .. n)
    BY Zenon
  <2>3. IsFiniteSet(smaller) /\ m <= n
    BY <2>1, <2>2, FS_Subset, Zenon
  <2> QED
    BY <1>1, <2>3, FS_CardinalityType, SMTT(30)
<1>3. insert(list, f, r) =
        [targets |-> [i \in 1 .. n + 1 |-> IF i <= m THEN list.targets[i]
                                          ELSE IF i = m + 1 THEN v
                                          ELSE list.targets[i - 1]],
         next_subscription_id |-> list.next_subscription_id + 1]
  BY Zenon DEF insert
<1> HIDE DEF m, n, v
<1>4. [i \in 1 .. n + 1 |-> IF i <= m THEN list.targets[i]
                           ELSE IF i = m + 1 THEN v
                           ELSE list.targets[i - 1]]
      = [i \in 1 .. n + 1 |-> IF i < m + 1 THEN list.targets[i]
                             ELSE IF i = m + 1 THEN v
                             ELSE list.targets[i - 1]]
  BY <1>1, <1>2
<1>5. m + 1 \in 1 .. n + 1
  BY <1>1, <1>2
<1> QED
  BY <1>3, <1>4, <1>5, Zenon DEF n, v

(* Removing drops one index and keeps the order of the others.             *)
LEMMA RemoveFacts ==
  ASSUME ListTypeOK, NEW id
  PROVE  LET n == Len(list.targets)
         IN  \/ remove(list, id) = list
             \/ \E k \in 1 .. n :
                  remove(list, id) =
                    [targets |-> [i \in 1 .. n - 1 |-> IF i < k THEN list.targets[i]
                                                      ELSE list.targets[i + 1]],
                     next_subscription_id |-> list.next_subscription_id]
BY Zenon DEF remove

(* Every insertion and removal preserves the exclusion.                    *)
LEMMA ListNextIInv == ListIInv /\ [ListNext]_list => ListIInv'
<1> SUFFICES ASSUME ListIInv, [ListNext]_list PROVE ListIInv'
  BY Zenon
<1> DEFINE n == Len(list.targets)
           t == list.targets
<1>1. /\ ListTypeOK
      /\ n \in Nat /\ \A i \in 1 .. n : IsTarget(t[i])
      /\ list.next_subscription_id \in Nat
      /\ \A i \in 1 .. n : t[i].id < list.next_subscription_id
      /\ \A i, j \in 1 .. n :
           i # j /\ t[i].reliable => ~contains_filter(t[i].filter, t[j].filter)
  BY Zenon DEF ListIInv, ListTypeOK, NoOverlap
<1>2. ASSUME NEW f \in Filters, NEW r \in BOOLEAN, Insert(f, r) PROVE ListIInv'
  <2> DEFINE v == [filter |-> f, reliable |-> r, id |-> list.next_subscription_id]
  <2>1. /\ list' = insert(list, f, r)
        /\ \A i \in 1 .. n : /\ r => ~contains_filter(f, t[i].filter)
                             /\ t[i].reliable => ~contains_filter(t[i].filter, f)
    BY <1>2, Zenon DEF Insert, conflicts
  <2>2. PICK k \in 1 .. n + 1 :
          insert(list, f, r) =
            [targets |-> [i \in 1 .. n + 1 |-> IF i < k THEN t[i]
                                              ELSE IF i = k THEN v ELSE t[i - 1]],
             next_subscription_id |-> list.next_subscription_id + 1]
    BY <1>1, InsertFacts, Zenon
  <2> DEFINE u == [i \in 1 .. n + 1 |-> IF i < k THEN t[i] ELSE IF i = k THEN v ELSE t[i - 1]]
  <2>3. list' = [targets |-> u, next_subscription_id |-> list.next_subscription_id + 1]
    BY <2>1, <2>2, Zenon
  <2>4. IsTarget(v) /\ v.reliable = r /\ v.filter = f /\ v.id = list.next_subscription_id
    BY <1>1, Zenon DEF IsTarget
  <2> HIDE DEF v, t, n
  <2>5. \A i \in 1 .. n + 1 :
          \/ i < k /\ i \in 1 .. n /\ u[i] = t[i]
          \/ i = k /\ u[i] = v
          \/ i > k /\ i - 1 \in 1 .. n /\ u[i] = t[i - 1]
    BY <1>1, SMTT(30)
  <2>6. DOMAIN u = 1 .. n + 1 /\ Len(u) = n + 1
    BY <1>1
  <2> HIDE DEF u
  <2>7. \A i \in 1 .. n + 1 : IsTarget(u[i]) /\ u[i].id < list.next_subscription_id + 1
    <3> SUFFICES ASSUME NEW i \in 1 .. n + 1
                 PROVE  IsTarget(u[i]) /\ u[i].id < list.next_subscription_id + 1
      BY Zenon
    <3>1. CASE u[i] = v
      BY <1>1, <2>4, <3>1, SMTT(30)
    <3>2. ASSUME NEW m \in 1 .. n, u[i] = t[m]
          PROVE  IsTarget(u[i]) /\ u[i].id < list.next_subscription_id + 1
      <4>1. IsTarget(t[m]) /\ t[m].id < list.next_subscription_id
        BY <1>1, Zenon
      <4>2. t[m].id \in Nat /\ list.next_subscription_id \in Nat
        BY <1>1, <4>1, Zenon DEF IsTarget
      <4> QED
        BY <3>2, <4>1, <4>2, SMTT(30)
    <3> QED
      BY <2>5, <3>1, <3>2, Zenon
  <2>8. ASSUME NEW i \in 1 .. n + 1, NEW j \in 1 .. n + 1, i # j, u[i].reliable
        PROVE  ~contains_filter(u[i].filter, u[j].filter)
    <3>1. CASE i = k
      <4>1. u[i] = v /\ r
        BY <2>4, <2>5, <2>8, <3>1, SMTT(30)
      <4>2. PICK m \in 1 .. n : u[j] = t[m]
        BY <2>5, <2>8, <3>1, Zenon
      <4> QED
        BY <2>1, <2>4, <4>1, <4>2, Zenon
    <3>2. CASE j = k
      <4>1. u[j] = v
        BY <2>5, <3>2, SMTT(30)
      <4>2. PICK m \in 1 .. n : u[i] = t[m]
        BY <2>5, <2>8, <3>2, Zenon
      <4> QED
        BY <2>1, <2>4, <2>8, <4>1, <4>2, Zenon
    <3>3. CASE i # k /\ j # k
      BY <1>1, <2>5, <2>8, <3>3, SMTT(30)
    <3> QED
      BY <3>1, <3>2, <3>3, Zenon
  <2>9. Len(list'.targets) = n + 1 /\ list'.targets = u
    BY <2>3, <2>6, Zenon
  <2>10. ListTypeOK'
    BY <1>1, <2>3, <2>6, <2>7, <2>9, SMTT(30) DEF ListTypeOK
  <2>11. NoOverlap(list')
    BY <2>8, <2>9, Zenon DEF NoOverlap
  <2> QED
    BY <2>10, <2>11, Zenon DEF ListIInv
<1>3. ASSUME NEW id, Unlist(id) PROVE ListIInv'
  <2>1. CASE list' = list
    BY <2>1, Zenon DEF ListIInv, ListTypeOK, NoOverlap
  <2>2. CASE list' # list
    <3>1. PICK k \in 1 .. n :
            list' = [targets |-> [i \in 1 .. n - 1 |-> IF i < k THEN t[i] ELSE t[i + 1]],
                     next_subscription_id |-> list.next_subscription_id]
      BY <1>1, <1>3, <2>2, RemoveFacts, Zenon DEF Unlist
    <3> DEFINE u == [i \in 1 .. n - 1 |-> IF i < k THEN t[i] ELSE t[i + 1]]
    <3>2. list'.targets = u /\ list' = [targets |-> u, next_subscription_id |-> list.next_subscription_id]
      BY <3>1, Zenon
    <3> HIDE DEF t, n
    <3>3. DOMAIN u = 1 .. n - 1 /\ Len(u) = n - 1
      BY <1>1, SMTT(30)
    <3>4. \A i \in 1 .. n - 1 :
            \/ i < k /\ i \in 1 .. n /\ u[i] = t[i]
            \/ i >= k /\ i + 1 \in 1 .. n /\ u[i] = t[i + 1]
      BY <1>1, SMTT(30)
    <3> HIDE DEF u
    <3>5. ASSUME NEW i \in 1 .. n - 1, NEW j \in 1 .. n - 1, i # j, u[i].reliable
          PROVE  ~contains_filter(u[i].filter, u[j].filter)
      BY <1>1, <3>4, <3>5, SMTT(30)
    <3>6. ListTypeOK'
      <4>1. \A i \in 1 .. n - 1 : IsTarget(u[i]) /\ u[i].id < list.next_subscription_id
        BY <1>1, <3>4, Zenon
      <4>2. n - 1 \in Nat
        BY <1>1
      <4> QED
        BY <1>1, <3>2, <3>3, <4>1, <4>2, SMTT(30) DEF ListTypeOK
    <3>7. NoOverlap(list')
      BY <3>2, <3>3, <3>5, Zenon DEF NoOverlap
    <3> QED
      BY <3>6, <3>7, Zenon DEF ListIInv
  <2> QED
    BY <2>1, <2>2, Zenon
<1>4. CASE UNCHANGED list
  BY <1>4, Zenon DEF ListIInv, ListTypeOK, NoOverlap
<1> QED
  BY <1>2, <1>3, <1>4, Zenon DEF ListNext

(* The exclusion gives the property: two filters that match one topic      *)
(* contain each other.                                                     *)
LEMMA ExclusionSuffices == ListIInv => ReliableExclusive
<1> SUFFICES ASSUME ListIInv, NEW t \in Topics,
                    NEW i \in 1 .. Len(list.targets), NEW j \in 1 .. Len(list.targets),
                    i # j, matches(list.targets[i].filter, t),
                    matches(list.targets[j].filter, t)
             PROVE  ~list.targets[i].reliable
  BY Zenon DEF ReliableExclusive
<1>1. Len(t) \in Nat
  BY DEF Topics, Names
<1>2. IsFilter(list.targets[i].filter) /\ IsFilter(list.targets[j].filter)
  BY FilterFacts, Zenon DEF ListIInv, ListTypeOK, IsTarget
<1>3. contains_filter(list.targets[i].filter, list.targets[j].filter)
  BY <1>1, <1>2, CommonTopic, Zenon
<1> QED
  BY <1>3, Zenon DEF ListIInv, NoOverlap

(* Type correctness of the subscription list.                              *)
THEOREM ListTypeCorrect == ListSpec => []ListTypeOK
<1>1. ListIInv => ListTypeOK
  BY Zenon DEF ListIInv
<1> QED
  BY <1>1, ListInitIInv, ListNextIInv, PTL DEF ListSpec

(* Reliable subscriptions are mutually exclusive, for any names and any    *)
(* number of subscriptions: the assertion in deliver that one target is    *)
(* selected cannot fail.                                                   *)
THEOREM ListReliableExclusive == ListSpec => []ReliableExclusive
BY ListInitIInv, ListNextIInv, ExclusionSuffices, PTL DEF ListSpec

(* What a filter is made of: a name in the alphabet, which does not start  *)
(* with a slash, and for an exact filter is a topic.                       *)
LEMMA NameFacts ==
  ASSUME NEW f \in Filters
  PROVE  /\ f.kind \in {"Exact", "Prefix"}
         /\ Len(f.name) \in 1 .. MaxName
         /\ f.name \in [1 .. Len(f.name) -> Chars]
         /\ f.name[1] # Slash
         /\ f.kind = "Exact" => f.name[Len(f.name)] # Slash
<1>1. ASSUME NEW s \in Names(MaxName)
      PROVE  Len(s) \in 1 .. MaxName /\ s \in [1 .. Len(s) -> Chars]
  <2>1. PICK n \in 1 .. MaxName : s \in [1 .. n -> Chars]
    BY Zenon DEF Names
  <2>2. Len(s) = n
    BY <2>1, NamesAssumption, SMTT(30)
  <2> QED
    BY <2>1, <2>2, Zenon
<1> QED
  BY <1>1 DEF Filters, Exact, Prefix, ValidTopic, ValidPrefix

(* A sequence of characters that is not too long is a topic when neither   *)
(* end is a slash.                                                         *)
LEMMA TopicFacts ==
  ASSUME NEW n \in 1 .. MaxName + 1, NEW s \in [1 .. n -> Chars], s[1] # Slash, s[n] # Slash
  PROVE  s \in Topics /\ Len(s) = n
<1>1. Len(s) = n
  BY NamesAssumption, SMTT(30)
<1>2. s \in Names(MaxName + 1)
  BY Zenon DEF Names
<1>3. s # <<>>
  BY <1>1, SMTT(30)
<1> QED
  BY <1>1, <1>2, <1>3, Zenon DEF Topics, ValidTopic

(* Every prefix is the beginning of a topic: itself, or, when it ends in a *)
(* slash, one character more; its first character will do.                 *)
LEMMA PrefixHasTopic ==
  ASSUME NEW f \in Filters
  PROVE  \E t \in Topics : matches(f, t) /\ starts_with(t, f.name)
<1> DEFINE s == f.name
           n == Len(f.name)
<1>1. n \in 1 .. MaxName /\ s \in [1 .. n -> Chars] /\ s[1] # Slash /\ n \in Nat /\ MaxName \in Nat
  BY NameFacts, NamesAssumption, SMTT(30)
<1>2. CASE s[n] # Slash
  <2>1. s \in Topics
    BY <1>1, <1>2, TopicFacts, SMTT(30)
  <2> QED
    BY <1>1, <2>1, SMTT(30) DEF matches, starts_with
<1>3. CASE s[n] = Slash
  <2> DEFINE t == [i \in 1 .. n + 1 |-> IF i <= n THEN s[i] ELSE s[1]]
  <2>1. t \in [1 .. n + 1 -> Chars] /\ t[1] # Slash /\ t[n + 1] # Slash
    BY <1>1, SMTT(30)
  <2>2. t \in Topics /\ Len(t) = n + 1
    <3> HIDE DEF t
    <3>1. n + 1 \in 1 .. MaxName + 1
      BY <1>1, SMTT(30)
    <3> QED
      BY <2>1, <3>1, TopicFacts, Zenon
  <2>3. starts_with(t, s)
    BY <1>1, <2>2, SMTT(30) DEF starts_with
  <2>4. f.kind = "Prefix"
    BY <1>3, NameFacts, Zenon
  <2> QED
    BY <2>2, <2>3, <2>4, Zenon DEF matches
<1> QED
  BY <1>2, <1>3, Zenon

(* Filters that contain each other in the sense of the code match a common *)
(* topic.                                                                  *)
LEMMA ContainedShareTopic ==
  ASSUME NEW f \in Filters, NEW g \in Filters, contains_filter(f, g)
  PROVE  \E t \in Topics : matches(f, t) /\ matches(g, t)
<1>1. ASSUME NEW a \in Filters, NEW b \in Filters, b.kind = "Prefix", starts_with(a.name, b.name)
      PROVE  \E t \in Topics : matches(a, t) /\ matches(b, t)
  <2>1. PICK t \in Topics : matches(a, t) /\ starts_with(t, a.name)
    BY PrefixHasTopic, Zenon
  <2>2. Len(a.name) \in Nat /\ Len(b.name) \in Nat /\ Len(t) \in Nat
    BY FilterFacts, SMTT(30) DEF IsFilter, Topics, Names
  <2>3. starts_with(t, b.name)
    BY <1>1, <2>1, <2>2, SMTT(30) DEF starts_with
  <2> QED
    BY <1>1, <2>1, <2>3, Zenon DEF matches
<1>2. CASE f.kind = "Exact" /\ g.kind = "Exact" /\ f.name = g.name
  BY <1>2, PrefixHasTopic, Zenon DEF matches
<1>3. CASE g.kind = "Prefix" /\ starts_with(f.name, g.name)
  BY <1>1, <1>3, Zenon
<1>4. CASE f.kind = "Prefix" /\ starts_with(g.name, f.name)
  BY <1>1, <1>4, Zenon
<1> QED
  BY <1>2, <1>3, <1>4, Zenon DEF contains_filter

(* A filter is refused only where a topic would otherwise have a reliable  *)
(* and another subscription, for any names and any number of               *)
(* subscriptions: the rule of conflicts is no stricter than it must be.    *)
THEOREM ListRefusedOnlyIfShared == ListSpec => []RefusedOnlyIfShared
<1>1. ListIInv => RefusedOnlyIfShared
  <2> SUFFICES ASSUME ListIInv, NEW f \in Filters, NEW r \in BOOLEAN, conflicts(list, f, r)
               PROVE  \E t \in Topics : /\ matches(f, t)
                                        /\ \E i \in 1 .. Len(list.targets) :
                                             /\ matches(list.targets[i].filter, t)
                                             /\ r \/ list.targets[i].reliable
    BY Zenon DEF RefusedOnlyIfShared
  <2>1. PICK i \in 1 .. Len(list.targets) :
          \/ r /\ contains_filter(f, list.targets[i].filter)
          \/ list.targets[i].reliable /\ contains_filter(list.targets[i].filter, f)
    BY Zenon DEF conflicts
  <2>2. list.targets[i].filter \in Filters
    BY Zenon DEF ListIInv, ListTypeOK, IsTarget
  <2>3. PICK t \in Topics : matches(f, t) /\ matches(list.targets[i].filter, t)
    BY <2>1, <2>2, ContainedShareTopic, Zenon
  <2> QED
    BY <2>1, <2>3, Zenon
<1> QED
  BY <1>1, ListInitIInv, ListNextIInv, PTL DEF ListSpec

-----------------------------------------------------------------------------
(***************************************************************************)
(* The hand-over of stacks to the starting cores, for any number of cores  *)
(* and any timeout.  The invariant says which core the free stack belongs  *)
(* to: there is one only while start_one waits for that core, every core   *)
(* before it has taken its own, and every core after it is off.            *)
(***************************************************************************)

Ready(pc) == {c \in 1..Cores : pc[c] = "ready"}

SmpTypeOK ==
    /\ bsp_pc \in {"start", "wakeup", "poll", "wait", "done", "panic"}
    /\ starting \in 1..Cores + 1 /\ polls \in Nat
    /\ AP_FREE_STACK \in {0} \cup StackTops /\ AP_READY_COUNT \in Nat
    /\ offered \in [1..Cores -> {0} \cup StackTops]
    /\ ap_pc \in [1..Cores -> {"off", "startup", "main", "ready", "panic"}]
    /\ ap_stack \in [1..Cores -> {0} \cup StackTops]
    /\ ap_call \in [1..Cores -> 0..Cores + 1]

(* Where the boot core is, and what it has handed out.                     *)
BspInv ==
    /\ bsp_pc \in {"start", "wait", "done"} => AP_FREE_STACK = 0
    /\ bsp_pc = "wakeup" => AP_FREE_STACK # 0 /\ AP_FREE_STACK = offered[starting]
    /\ bsp_pc \in {"wakeup", "poll", "panic"} => starting <= Cores
    /\ bsp_pc \in {"wait", "done"} => starting = Cores + 1
    /\ bsp_pc = "panic" => polls = MaxPolls
    /\ bsp_pc = "poll" => polls < MaxPolls

(* Where the core c is.                                                    *)
ApInv(c) ==
    /\ c < starting => ap_pc[c] \in {"main", "ready"}
    /\ c > starting => ap_pc[c] = "off"
    /\ c = starting /\ bsp_pc \in {"start", "wakeup"} => ap_pc[c] = "off"
    /\ c = starting /\ bsp_pc \in {"poll", "panic"} =>
           \/ ap_pc[c] = "startup" /\ AP_FREE_STACK # 0 /\ AP_FREE_STACK = offered[c]
           \/ ap_pc[c] \in {"main", "ready"} /\ AP_FREE_STACK = 0
    /\ ap_pc[c] \in {"main", "ready"} => ap_call[c] = c /\ ap_stack[c] = offered[c]

SmpInv ==
    /\ SmpTypeOK /\ BspInv
    /\ \A c \in 1..Cores : ApInv(c)
    /\ AP_READY_COUNT = Cardinality(Ready(ap_pc))
    /\ bsp_pc = "done" => Ready(ap_pc) = 1..Cores

(***************************************************************************)
(* A set of cores with as many members as there are cores has them all:    *)
(* what the comparison of AP_READY_COUNT in start_all relies on.           *)
(***************************************************************************)
LEMMA AllReady ==
    ASSUME NEW S, S \subseteq 1..Cores, Cardinality(S) >= Cores
    PROVE  S = 1..Cores
<1>1. IsFiniteSet(1..Cores) /\ Cardinality(1..Cores) = Cores
  <2>1. IsFiniteSet(1..Cores) /\ Cardinality(1..Cores) = IF 1 > Cores THEN 0 ELSE Cores - 1 + 1
    BY FS_Interval, SmpAssumption, SMTT(30)
  <2> QED BY <2>1, SmpAssumption, SMTT(30)
<1>2. IsFiniteSet(S) /\ Cardinality(S) <= Cardinality(1..Cores)
  BY <1>1, FS_Subset, Zenon
<1>3. Cardinality(S) \in Nat
  BY <1>2, FS_CardinalityType, Zenon
<1>4. Cardinality(S) = Cardinality(1..Cores)
  BY <1>1, <1>2, <1>3, SmpAssumption, SMTT(30)
<1> QED BY <1>1, <1>4, FS_Subset, Zenon

(***************************************************************************)
(* A core that becomes ready (ap_mark_ready) is counted once.              *)
(***************************************************************************)
LEMMA OneMoreReady ==
    ASSUME NEW pc \in [1..Cores -> {"off", "startup", "main", "ready", "panic"}],
           NEW c \in 1..Cores, pc[c] # "ready"
    PROVE  Cardinality(Ready([pc EXCEPT ![c] = "ready"])) = Cardinality(Ready(pc)) + 1
<1>1. IsFiniteSet(1..Cores)
  BY FS_Interval, SmpAssumption, SMTT(30)
<1>2. IsFiniteSet(Ready(pc))
  BY <1>1, FS_Subset, Zenon DEF Ready
<1>3. Ready([pc EXCEPT ![c] = "ready"]) = Ready(pc) \cup {c} /\ c \notin Ready(pc)
  BY Zenon DEF Ready
<1> QED BY <1>2, <1>3, FS_AddElement, Zenon

(***************************************************************************)
(* No core is on when start_all begins.                                    *)
(***************************************************************************)
LEMMA SmpInitInv == SmpInit => SmpInv
<1> SUFFICES ASSUME SmpInit PROVE SmpInv
  BY Zenon
<1>1. SmpTypeOK /\ BspInv /\ (\A c \in 1..Cores : ApInv(c))
  BY SmpAssumption, SMTT(30) DEF SmpInit, SmpTypeOK, BspInv, ApInv
<1>2. Ready(ap_pc) = {}
  BY Zenon DEF SmpInit, Ready
<1>3. AP_READY_COUNT = Cardinality(Ready(ap_pc)) /\ bsp_pc # "done"
  BY <1>2, FS_EmptySet, Zenon DEF SmpInit
<1> QED BY <1>1, <1>3, Zenon DEF SmpInv

(***************************************************************************)
(* Every step of the boot core and of the cores it starts keeps the        *)
(* invariant: a core takes the stack while start_one waits for that core.  *)
(***************************************************************************)
LEMMA SmpStepInv == SmpInv /\ [SmpNext]_smpVars => SmpInv'
<1> SUFFICES ASSUME SmpInv, [SmpNext]_smpVars PROVE SmpInv'
  BY Zenon
<1> USE SmpAssumption
<1>1. CASE set_up_stack
  <2>0. /\ SmpTypeOK /\ BspInv /\ \A c \in 1..Cores : ApInv(c)
        /\ UNCHANGED <<starting, polls, AP_READY_COUNT, ap_pc, ap_stack, ap_call>> /\ bsp_pc = "start"
    BY <1>1, Zenon DEF set_up_stack, SmpInv
  <2>1. SmpTypeOK' /\ BspInv' /\ (\A c \in 1..Cores : ApInv(c)')
    <3>1. CASE starting > Cores
      <4>1. bsp_pc' = "wait" /\ UNCHANGED <<AP_FREE_STACK, offered>>
        BY <1>1, <2>0, <3>1, SMTT(30) DEF set_up_stack, SmpTypeOK
      <4> QED BY <2>0, <3>1, <4>1, SMTT(30) DEF SmpTypeOK, BspInv, ApInv
    <3>2. CASE starting <= Cores
      <4>1. AP_FREE_STACK = 0 /\ starting \in 1..Cores
        BY <2>0, <3>2, SMTT(30) DEF SmpTypeOK, BspInv
      <4>2. /\ bsp_pc' = "wakeup" /\ AP_FREE_STACK' \in StackTops /\ AP_FREE_STACK' # 0
            /\ offered' = [offered EXCEPT ![starting] = AP_FREE_STACK']
        BY <1>1, <2>0, <3>2, <4>1, SMTT(30) DEF set_up_stack, SmpTypeOK
      <4>3. SmpTypeOK'
        BY <2>0, <4>1, <4>2, Zenon DEF SmpTypeOK
      <4>4. offered'[starting] = AP_FREE_STACK'
        BY <2>0, <4>1, <4>2, Zenon DEF SmpTypeOK
      <4>5. BspInv'
        BY <2>0, <3>2, <4>2, <4>4, Zenon DEF BspInv
      <4>6. ASSUME NEW c \in 1..Cores PROVE ApInv(c)'
        <5>1. CASE c = starting
          <6>1. ap_pc[c] = "off" /\ ~(c < starting) /\ ~(c > starting)
            BY <2>0, <5>1, SMTT(30) DEF ApInv, SmpTypeOK
          <6> QED BY <2>0, <4>2, <5>1, <6>1, Zenon DEF ApInv
        <5>2. CASE c # starting
          <6>1. offered'[c] = offered[c]
            BY <2>0, <4>1, <4>2, <5>2, Zenon DEF SmpTypeOK
          <6> QED BY <2>0, <5>2, <6>1, Zenon DEF ApInv
        <5> QED BY <5>1, <5>2, Zenon
      <4> QED BY <4>3, <4>5, <4>6, Zenon
    <3>3. starting > Cores \/ starting <= Cores
      BY <2>0, SMTT(30) DEF SmpTypeOK
    <3> QED BY <3>1, <3>2, <3>3, Zenon
  <2> QED BY <1>1, <2>1, Zenon DEF set_up_stack, SmpInv, Ready
<1>2. CASE apic_wakeup_processor
  <2>1. SmpTypeOK' /\ BspInv'
    BY <1>2, SMTT(30) DEF apic_wakeup_processor, SmpInv, SmpTypeOK, BspInv
  <2>0. /\ ap_pc \in [1..Cores -> {"off", "startup", "main", "ready", "panic"}]
        /\ ap_pc' = [ap_pc EXCEPT ![starting] = "startup"]
        /\ UNCHANGED <<starting, AP_FREE_STACK, AP_READY_COUNT, offered, ap_stack, ap_call>>
        /\ bsp_pc = "wakeup" /\ bsp_pc' = "poll"
    BY <1>2, Zenon DEF apic_wakeup_processor, SmpInv, SmpTypeOK
  <2>2. \A c \in 1..Cores : ApInv(c)'
    <3> SUFFICES ASSUME NEW c \in 1..Cores PROVE ApInv(c)'
      BY Zenon
    <3>1. ApInv(c)
      BY Zenon DEF SmpInv
    <3>2. CASE c = starting
      <4>1. ap_pc'[c] = "startup"
        BY <2>0, <3>2, Zenon
      <4>2. ~(c < starting) /\ ~(c > starting)
        BY ONLY <3>2, c \in 1..Cores, SMTT(30)
      <4>3. AP_FREE_STACK # 0 /\ AP_FREE_STACK = offered[c]
        BY <2>0, <3>2, Zenon DEF SmpInv, BspInv
      <4> QED BY <2>0, <3>2, <4>1, <4>2, <4>3, Zenon DEF ApInv
    <3>3. CASE c # starting
      <4>1. ap_pc'[c] = ap_pc[c]
        BY <2>0, <3>3, Zenon
      <4> QED BY <2>0, <3>1, <3>3, <4>1, Zenon DEF ApInv
    <3> QED BY <3>2, <3>3, Zenon
  <2>3. Ready(ap_pc') = Ready(ap_pc)
    BY <1>2, Zenon DEF apic_wakeup_processor, SmpInv, SmpTypeOK, BspInv, ApInv, Ready
  <2> QED BY <1>2, <2>1, <2>2, <2>3, Zenon DEF apic_wakeup_processor, SmpInv, Ready
<1>3. CASE poll
  <2>0. /\ UNCHANGED <<AP_FREE_STACK, AP_READY_COUNT, offered, ap_pc, ap_stack, ap_call>> /\ bsp_pc = "poll"
        /\ starting \in Nat /\ polls \in Nat /\ starting \in 1..Cores + 1
        /\ starting <= Cores /\ polls < MaxPolls
    BY <1>3, SMTT(30) DEF poll, SmpInv, SmpTypeOK, BspInv
  <2>1. SmpTypeOK' /\ BspInv'
    <3>1. CASE AP_FREE_STACK = 0
      <4>1. bsp_pc' = "start" /\ starting' = starting + 1 /\ polls' = polls
        BY <1>3, <3>1, Zenon DEF poll
      <4>2. starting + 1 \in 1..Cores + 1
        BY ONLY <2>0, SmpAssumption, SMTT(30)
      <4>3. SmpTypeOK'
        BY <2>0, <4>1, <4>2, Zenon DEF SmpInv, SmpTypeOK
      <4> QED BY <2>0, <3>1, <4>1, <4>3, Zenon DEF BspInv
    <3>2. CASE AP_FREE_STACK # 0
      <4>1. /\ starting' = starting /\ polls' = polls + 1
            /\ bsp_pc' = IF polls + 1 = MaxPolls THEN "panic" ELSE "poll"
        BY <1>3, <3>2, Zenon DEF poll
      <4>2. polls + 1 \in Nat /\ (polls + 1 # MaxPolls => polls + 1 < MaxPolls)
        BY ONLY <2>0, SmpAssumption, SMTT(30)
      <4>3. SmpTypeOK'
        BY <2>0, <4>1, <4>2, Zenon DEF SmpInv, SmpTypeOK
      <4> QED BY <2>0, <4>1, <4>2, <4>3, Zenon DEF BspInv
    <3> QED BY <3>1, <3>2, Zenon
  <2>2. \A c \in 1..Cores : ApInv(c)'
    BY <1>3, SMTT(30) DEF poll, SmpInv, SmpTypeOK, BspInv, ApInv
  <2> QED BY <1>3, <2>1, <2>2, Zenon DEF poll, SmpInv, Ready
<1>4. CASE wait_ready
  <2>1. SmpTypeOK' /\ BspInv' /\ (\A c \in 1..Cores : ApInv(c)')
    BY <1>4, Zenon DEF wait_ready, SmpInv, SmpTypeOK, BspInv, ApInv
  <2>2. Ready(ap_pc) = 1..Cores
    BY <1>4, AllReady, Zenon DEF wait_ready, SmpInv, Ready
  <2> QED BY <1>4, <2>1, <2>2, Zenon DEF wait_ready, SmpInv, Ready
<1>5. ASSUME NEW c \in 1..Cores, ap_take_stack(c) PROVE SmpInv'
  <2>1. c = starting /\ bsp_pc \in {"poll", "panic"} /\ AP_FREE_STACK # 0 /\ AP_FREE_STACK = offered[c]
    <3>1. ap_pc[c] = "startup" /\ ApInv(c)
      BY <1>5, Zenon DEF ap_take_stack, SmpInv
    <3>2. c \in Nat /\ starting \in Nat /\ bsp_pc \in {"start", "wakeup", "poll", "wait", "done", "panic"}
      BY SMTT(30) DEF SmpInv, SmpTypeOK
    <3>3. bsp_pc \in {"wait", "done"} => starting > c
      BY SMTT(30) DEF SmpInv, BspInv
    <3> QED BY ONLY <3>1, <3>2, <3>3, SMTT(30) DEF ApInv
  <2>a. /\ AP_FREE_STACK' = 0 /\ UNCHANGED <<bsp_pc, starting, polls, AP_READY_COUNT, offered>>
        /\ ap_stack' = [ap_stack EXCEPT ![c] = AP_FREE_STACK] /\ ap_pc' = [ap_pc EXCEPT ![c] = "main"]
        /\ ap_call' = [ap_call EXCEPT ![c] = c]
    BY <1>5, <2>1, Zenon DEF ap_take_stack
  <2>b. SmpTypeOK /\ BspInv /\ \A d \in 1..Cores : ApInv(d)
    BY Zenon DEF SmpInv
  <2>2. SmpTypeOK' /\ BspInv'
    BY ONLY <2>1, <2>a, <2>b, SmpAssumption, c \in 1..Cores, SMTT(30) DEF SmpTypeOK, BspInv
  <2>3. ASSUME NEW d \in 1..Cores PROVE ApInv(d)'
    <3>1. /\ ap_pc \in [1..Cores -> {"off", "startup", "main", "ready", "panic"}]
          /\ ap_stack \in [1..Cores -> {0} \cup StackTops] /\ ap_call \in [1..Cores -> 0..Cores + 1]
      BY <2>b, Zenon DEF SmpTypeOK
    <3>2. CASE d = c
      <4>1. ap_pc'[d] = "main" /\ ap_call'[d] = d /\ ap_stack'[d] = AP_FREE_STACK
        BY <2>a, <3>1, <3>2, Zenon
      <4>2. ~(d < starting) /\ ~(d > starting)
        BY ONLY <2>1, <3>2, SMTT(30)
      <4> QED BY <2>1, <2>a, <3>2, <4>1, <4>2, Zenon DEF ApInv
    <3>3. CASE d # c
      <4>1. ap_pc'[d] = ap_pc[d] /\ ap_stack'[d] = ap_stack[d] /\ ap_call'[d] = ap_call[d]
        BY <2>a, <3>1, <3>3, Zenon
      <4>2. d # starting /\ ApInv(d)
        BY <2>1, <2>b, <3>3, Zenon
      <4> QED BY <2>a, <4>1, <4>2, Zenon DEF ApInv
    <3> QED BY <3>2, <3>3, Zenon
  <2>4. Ready(ap_pc') = Ready(ap_pc)
    BY <1>5, <2>1, Zenon DEF ap_take_stack, SmpInv, SmpTypeOK, Ready
  <2> QED BY <1>5, <2>1, <2>2, <2>3, <2>4, Zenon DEF ap_take_stack, SmpInv, Ready
<1>6. ASSUME NEW c \in 1..Cores, ap_mark_ready(c) PROVE SmpInv'
  <2>1. SmpTypeOK' /\ BspInv' /\ (\A d \in 1..Cores : ApInv(d)')
    BY <1>6, SMTT(30) DEF ap_mark_ready, SmpInv, SmpTypeOK, BspInv, ApInv
  <2>2. Cardinality(Ready(ap_pc')) = Cardinality(Ready(ap_pc)) + 1
    BY <1>6, OneMoreReady, Zenon DEF ap_mark_ready, SmpInv, SmpTypeOK
  <2>3. bsp_pc # "done"
    BY <1>6, Zenon DEF ap_mark_ready, SmpInv, Ready
  <2> QED BY <1>6, <2>1, <2>2, <2>3, Zenon DEF ap_mark_ready, SmpInv, Ready
<1>7. CASE UNCHANGED smpVars
  BY <1>7, Zenon DEF smpVars, SmpInv, SmpTypeOK, BspInv, ApInv, Ready
<1> QED BY <1>1, <1>2, <1>3, <1>4, <1>5, <1>6, <1>7, Zenon DEF SmpNext, Bsp

(***************************************************************************)
(* For any number of cores, any timeout of start_one and any addresses,    *)
(* the same ones again included: every core takes the stack that start_one *)
(* stored for it, no assertion of the hand-over fails, and start_all       *)
(* returns only when all cores are ready.                                  *)
(***************************************************************************)
THEOREM SmpStackHandover == SmpSpec => []StackHandover
<1>1. SmpInv => StackHandover
  <2> SUFFICES ASSUME SmpInv PROVE StackHandover
    BY Zenon
  <2>1. ASSUME NEW c \in 1..Cores
        PROVE  /\ ap_pc[c] # "panic"
               /\ ap_pc[c] \in {"main", "ready"} => ap_call[c] = c /\ ap_stack[c] = offered[c]
    <3>1. ApInv(c) /\ BspInv /\ starting \in Nat /\ c \in Nat /\ Cores \in Nat /\ c <= Cores
      BY SmpAssumption, SMTT(30) DEF SmpInv, SmpTypeOK
    <3>2. bsp_pc \in {"start", "wakeup", "poll", "wait", "done", "panic"}
      BY Zenon DEF SmpInv, SmpTypeOK
    <3>3. bsp_pc \in {"wait", "done"} => c < starting
      BY ONLY <3>1, SMTT(30) DEF BspInv
    <3> QED BY ONLY <3>1, <3>2, <3>3, SMTT(30) DEF ApInv
  <2>2. bsp_pc = "panic" => polls = MaxPolls
    BY Zenon DEF SmpInv, BspInv
  <2>3. bsp_pc = "done" => \A c \in 1..Cores : ap_pc[c] = "ready"
    BY Zenon DEF SmpInv, Ready
  <2> QED BY <2>1, <2>2, <2>3, Zenon DEF StackHandover
<1> QED BY <1>1, SmpInitInv, SmpStepInv, PTL DEF SmpSpec

-----------------------------------------------------------------------------
(***************************************************************************)
(* The address of the interface, for any servers and offers, any number of *)
(* clients, and any bounds on what the network loses and repeats.          *)
(***************************************************************************)

(* An acknowledgement for this host that is on the wire is for an address  *)
(* its server has granted.                                                 *)
Granted(p) == p.kind = "ack" => p.ours = FALSE \/ p.ip \in leases

LeaseInv == LeaseHeld /\ misled \in BOOLEAN /\ \A p \in net : Granted(p)

(***************************************************************************)
(* What the daemon takes from the wire: only an acknowledgement changes    *)
(* the address, and no packet the daemon sends is one (on_packet).         *)
(***************************************************************************)
LEMMA OnPacketLease ==
    ASSUME LeaseInv, NEW p \in net, NEW keep \in BOOLEAN, on_packet(p, keep)
    PROVE  LeaseInv'
<1> DEFINE rest == IF keep THEN net ELSE net \ {p}
<1>1. rest \subseteq net /\ leases' = leases
  BY Zenon DEF on_packet
<1>2. CASE p.kind \in {"offer", "ack", "nak"} /\ on_dhcp_packet(p, rest)
  <2>1. CASE state = "Discover" /\ p.kind = "offer" /\ p.server # None
    <3>1. misled' = (misled \/ ~p.ours) /\ ipv4' = ipv4
          /\ net' = rest \cup {[kind |-> "request", server |-> p.server, ip |-> p.ip]}
      BY <1>2, <2>1, Zenon DEF on_dhcp_packet
    <3> QED BY <1>1, <3>1 DEF LeaseInv, LeaseHeld, Granted
  <2>2. CASE state = "Request" /\ p.kind = "ack"
    <3>1. misled' = (misled \/ ~p.ours) /\ ipv4' = p.ip /\ net' = rest \cup arp_probe(p.ip, <<Router>>)
      BY <1>2, <2>2, Zenon DEF on_dhcp_packet
    <3>2. \A q \in arp_probe(p.ip, <<Router>>) : q.kind = "arp"
      BY SMTT(30) DEF arp_probe, Arp
    <3> QED BY <1>1, <2>2, <3>1, <3>2, Zenon DEF LeaseInv, LeaseHeld, Granted
  <2>3. CASE state = "Request" /\ p.kind = "nak"
    <3>1. misled' = TRUE /\ net' = rest
      BY <1>2, <2>3, Zenon DEF on_dhcp_packet
    <3> QED BY <1>1, <3>1, Zenon DEF LeaseInv, LeaseHeld, Granted
  <2>4. CASE net' = rest /\ UNCHANGED <<settingVars, misled>>
    BY <1>1, <2>4, Zenon DEF LeaseInv, LeaseHeld, Granted, settingVars
  <2> QED BY <1>2, <2>1, <2>2, <2>3, <2>4, Zenon DEF on_dhcp_packet
<1>3. CASE handle_arp_packet(p, rest) /\ UNCHANGED <<settingVars, dnsVars, misled>>
  <2>1. \A q \in net' : q \in net \/ q.kind = "arp"
    BY <1>1, <1>3, SMTT(30) DEF handle_arp_packet, Arp
  <2> QED BY <1>1, <1>3, <2>1, Zenon DEF LeaseInv, LeaseHeld, Granted, settingVars
<1>4. CASE dns_on_packet(p, rest) /\ UNCHANGED <<settingVars, arp_table, misled>>
  <2>1. net' = rest
    BY <1>4, Zenon DEF dns_on_packet
  <2> QED BY <1>1, <1>4, <2>1, Zenon DEF LeaseInv, LeaseHeld, Granted, settingVars
<1> QED BY <1>2, <1>3, <1>4, Zenon DEF on_packet

(***************************************************************************)
(* What the other hosts do: a server acknowledges an address when it has   *)
(* granted it, and grants are not taken back.                              *)
(***************************************************************************)
LEMMA HostLease ==
    ASSUME LeaseInv, NEW p \in net, host_receive(p)
    PROVE  LeaseInv'
<1>1. UNCHANGED <<ipv4, misled>>
  BY Zenon DEF host_receive, daemonVars, settingVars
<1>2. leases \subseteq leases' /\ \A q \in net' : q \in net \/ (q.kind = "ack" => q.ip \in leases')
  <2>1. CASE p.kind = "discover"
    BY <2>1, SMTT(30) DEF host_receive, Dhcp
  <2>2. CASE p.kind = "request"
    BY <2>2, SMTT(30) DEF host_receive, Dhcp
  <2>3. CASE p.kind = "arp"
    BY <2>3, SMTT(30) DEF host_receive, Arp
  <2>4. CASE p.kind = "query"
    BY <2>4, SMTT(30) DEF host_receive, Dns
  <2> QED BY <2>1, <2>2, <2>3, <2>4, Zenon DEF host_receive
<1> QED BY <1>1, <1>2, Zenon DEF LeaseInv, LeaseHeld, Granted

(***************************************************************************)
(* Every step keeps it: beside the two above, packets are lost, repeated   *)
(* or meant for others, and the resolver sends only queries.               *)
(***************************************************************************)
LEMMA LeaseStep == LeaseInv /\ [NetNext]_netVars => LeaseInv'
<1> SUFFICES ASSUME LeaseInv, [NetNext]_netVars PROVE LeaseInv'
  BY Zenon
<1>1. ASSUME NEW p \in net, lose(p) PROVE LeaseInv'
  BY <1>1, Zenon DEF lose, daemonVars, settingVars, LeaseInv, LeaseHeld, Granted
<1>2. ASSUME NEW id \in ReqIds, dns_resolve(id) PROVE LeaseInv'
  <2>1. \A q \in net' : q \in net \/ q.kind = "query"
    BY <1>2, SMTT(30) DEF dns_resolve, user_resolve, Dns
  <2> QED BY <1>2, <2>1, Zenon DEF dns_resolve, settingVars, LeaseInv, LeaseHeld, Granted
<1>3. ASSUME NEW c \in DnsClients, NEW n \in DnsNames, resolve(c, n) PROVE LeaseInv'
  BY <1>3, Zenon DEF resolve, settingVars, LeaseInv, LeaseHeld, Granted
<1>4. CASE foreign_dhcp
  <2>1. \A q \in net' : q \in net \/ q.ours = FALSE
    BY <1>4, SMTT(30) DEF foreign_dhcp, Dhcp
  <2> QED BY <1>4, <2>1, Zenon DEF foreign_dhcp, daemonVars, settingVars, LeaseInv, LeaseHeld, Granted
<1>5. CASE neighbour_asks
  <2>1. \A q \in net' : q \in net \/ q.kind = "arp"
    BY <1>5, SMTT(30) DEF neighbour_asks, Arp
  <2> QED BY <1>5, <2>1, Zenon DEF neighbour_asks, daemonVars, settingVars, LeaseInv, LeaseHeld, Granted
<1>6. CASE UNCHANGED netVars
  BY <1>6, Zenon DEF netVars, LeaseInv, LeaseHeld, Granted
<1> QED BY <1>1, <1>2, <1>3, <1>4, <1>5, <1>6, OnPacketLease, HostLease, Zenon DEF NetNext, NetStep

(***************************************************************************)
(* For any servers and any losses, delays and repetitions: the interface   *)
(* uses an address a server granted to this host, unless a reply to        *)
(* another host was acted upon.                                            *)
(***************************************************************************)
THEOREM NetLeaseHeld == NetSpec => []LeaseHeld
<1>1. ASSUME NetInit PROVE LeaseInv
  <2>1. ipv4 = None /\ misled \in BOOLEAN
    BY <1>1, Zenon DEF NetInit
  <2>2. \A p \in net : p.kind = "discover"
    BY <1>1, SMTT(30) DEF NetInit
  <2> QED BY <2>1, <2>2, Zenon DEF LeaseInv, LeaseHeld, Granted
<1>2. LeaseInv => LeaseHeld
  BY Zenon DEF LeaseInv
<1> QED BY <1>1, <1>2, LeaseStep, PTL DEF NetSpec

-----------------------------------------------------------------------------
(***************************************************************************)
(* The answers of the DNS resolver, for any clients, names and request     *)
(* ids.                                                                    *)
(***************************************************************************)

Requests == [client : DnsClients, name : DnsNames]
Pending == [id : ReqIds, name : DnsNames, client : DnsClients]
AnswerKind(name) == IF name \in NxNames THEN "nx" ELSE "records"
Replies == {<<>>} \cup ({"records", "nx"} \X DnsNames)
ClientStates == [state : {"idle", "waiting", "answered", "nack"}, name : DnsNames \cup {None},
                 answer : Replies]

DnsType ==
    /\ dns_client \in [DnsClients -> ClientStates]
    /\ resolve_queue \in Seq(Requests)
    /\ pending_requests \subseteq Pending

(* A reply says of its name what the server knows of it.                   *)
Truthful(p) == p.kind \in {"records", "nx"} => p.kind = AnswerKind(p.name)

(* The client of a request waits for the answer to that name.              *)
WaitsFor(client, name) == dns_client[client].state = "waiting" /\ dns_client[client].name = name

(* Every request in the resolver is of a client that waits for it, and a   *)
(* client has one request there.                                           *)
RequestsAwaited ==
    /\ \A i \in DOMAIN resolve_queue : WaitsFor(resolve_queue[i].client, resolve_queue[i].name)
    /\ \A r \in pending_requests : WaitsFor(r.client, r.name)
OneRequest ==
    /\ \A i, j \in DOMAIN resolve_queue : resolve_queue[i].client = resolve_queue[j].client => i = j
    /\ \A r, s \in pending_requests : r.client = s.client => r = s
    /\ \A i \in DOMAIN resolve_queue, r \in pending_requests : resolve_queue[i].client # r.client

(* A client that waits has a request there.                                *)
Queued(c) == \E i \in DOMAIN resolve_queue : resolve_queue[i].client = c
Sent(c) == \E r \in pending_requests : r.client = c
WaitersKept == \A c \in DnsClients : dns_client[c].state = "waiting" => Queued(c) \/ Sent(c)

Answered(c) ==
    dns_client[c].state = "answered" => dns_client[c].answer = <<AnswerKind(dns_client[c].name), dns_client[c].name>>

DnsInv ==
    /\ DnsType
    /\ \A p \in net : Truthful(p)
    /\ RequestsAwaited /\ OneRequest /\ WaitersKept
    /\ \A c \in DnsClients : Answered(c)

LEMMA DnsInitially == NetInit => DnsInv
<1> SUFFICES ASSUME NetInit PROVE DnsInv
  BY Zenon
<1>1. dns_client = [c \in DnsClients |-> [state |-> "idle", name |-> None, answer |-> <<>>]]
  BY Zenon DEF NetInit
<1>2. \A c \in DnsClients : dns_client[c].state = "idle"
  BY <1>1, Zenon
<1>3. DnsType
  <2>1. [state |-> "idle", name |-> None, answer |-> <<>>] \in ClientStates
    BY Zenon DEF ClientStates, Replies
  <2> QED BY <1>1, <2>1, SMTT(30) DEF NetInit, DnsType
<1>4. \A p \in net : Truthful(p)
  BY SMTT(30) DEF NetInit, Truthful
<1>5. DOMAIN resolve_queue = {} /\ pending_requests = {}
  BY SMTT(30) DEF NetInit
<1>6. RequestsAwaited /\ OneRequest
  BY <1>5, Zenon DEF RequestsAwaited, OneRequest
<1>7. WaitersKept /\ \A c \in DnsClients : Answered(c)
  BY <1>2, Zenon DEF WaitersKept, Answered
<1> QED BY <1>3, <1>4, <1>6, <1>7, Zenon DEF DnsInv

LEMMA RequestClients ==
    ASSUME DnsType
    PROVE  /\ \A r \in pending_requests : r.client \in DnsClients /\ r.name \in DnsNames
           /\ \A i \in DOMAIN resolve_queue :
                 resolve_queue[i].client \in DnsClients /\ resolve_queue[i].name \in DnsNames
<1>1. \A r \in pending_requests : r.client \in DnsClients /\ r.name \in DnsNames
  BY Zenon DEF DnsType, Pending
<1>2. \A i \in DOMAIN resolve_queue : resolve_queue[i] \in Requests
  BY SMTT(30) DEF DnsType
<1>3. \A m \in Requests : m.client \in DnsClients /\ m.name \in DnsNames
  BY Zenon DEF Requests
<1> QED BY <1>1, <1>2, <1>3, Zenon

(* Every request a reply resolves is answered to its client, which no      *)
(* other request is of.                                                    *)
LEMMA DnsOnPacket ==
    ASSUME DnsInv, NEW p \in net, NEW rest, rest \subseteq net, p.kind \in {"records", "nx", "error"},
           dns_on_packet(p, rest), UNCHANGED resolve_queue
    PROVE  DnsInv'
<1> DEFINE resolved(r) == p.kind # "error" /\ answers(r, p)
           done == {r.client : r \in {r \in pending_requests : resolved(r)}}
<1>1. /\ pending_requests' = {r \in pending_requests : ~resolved(r)}
      /\ dns_client' = [c \in DnsClients |->
            IF c \in done THEN [dns_client[c] EXCEPT !.state = "answered", !.answer = <<p.kind, p.name>>]
                          ELSE dns_client[c]]
      /\ net' = rest
  BY Zenon DEF dns_on_packet
<1>2. \A q \in net' : Truthful(q)
  BY <1>1, Zenon DEF DnsInv
<1>3. \A c \in DnsClients : c \notin done => dns_client'[c] = dns_client[c]
  BY <1>1, Zenon
<1>4. ASSUME NEW c \in done
      PROVE  /\ c \in DnsClients /\ p.name = dns_client[c].name /\ p.name \in DnsNames
             /\ p.kind = AnswerKind(p.name) /\ p.kind \in {"records", "nx"}
             /\ dns_client'[c] = [dns_client[c] EXCEPT !.state = "answered", !.answer = <<p.kind, p.name>>]
  <2>1. PICK r \in pending_requests : resolved(r) /\ r.client = c
    BY Zenon
  <2>2. r.client \in DnsClients /\ r.name \in DnsNames
    BY Zenon DEF DnsInv, DnsType, Pending
  <2>3. dns_client[c].name = r.name
    BY <2>1, Zenon DEF DnsInv, RequestsAwaited, WaitsFor
  <2>4. p.name = r.name /\ p.kind # "error"
    BY <2>1, Zenon DEF answers
  <2>5. p.kind = AnswerKind(p.name)
    BY <2>4, Zenon DEF DnsInv, Truthful
  <2> QED BY <1>1, <2>1, <2>2, <2>3, <2>4, <2>5, Zenon
<1>5. ASSUME NEW c \in done
      PROVE  /\ dns_client'[c] \in ClientStates /\ dns_client'[c].state = "answered"
             /\ dns_client'[c].name = p.name /\ dns_client'[c].answer = <<p.kind, p.name>>
  <2>1. dns_client[c] \in ClientStates
    BY <1>4, Zenon DEF DnsInv, DnsType
  <2>2. <<p.kind, p.name>> \in Replies
    BY <1>4, Zenon DEF Replies
  <2> HIDE DEF done
  <2> QED BY <1>4, <2>1, <2>2, Zenon DEF ClientStates
<1>6. DnsType'
  <2>1. \A c \in DnsClients : dns_client'[c] \in ClientStates
    BY <1>3, <1>5, Zenon DEF DnsInv, DnsType
  <2> QED BY <1>1, <2>1, Zenon DEF DnsInv, DnsType
<1>7. \A r \in pending_requests' : r \in pending_requests /\ r.client \notin done
  <2>1. ASSUME NEW r \in pending_requests' PROVE r \in pending_requests /\ ~resolved(r)
    BY <1>1, Zenon
  <2>2. ASSUME NEW r \in pending_requests', r.client \in done PROVE FALSE
    <3>1. PICK s \in pending_requests : resolved(s) /\ s.client = r.client
      BY <2>2, Zenon
    <3>2. r = s
      BY <2>1, <3>1, Zenon DEF DnsInv, OneRequest
    <3> QED BY <2>1, <3>1, <3>2, Zenon
  <2> QED BY <2>1, <2>2, Zenon
<1>8. \A i \in DOMAIN resolve_queue : resolve_queue[i].client \notin done
  BY Zenon DEF DnsInv, OneRequest
<1>9. /\ \A r \in pending_requests : r.client \in DnsClients
      /\ \A i \in DOMAIN resolve_queue : resolve_queue[i].client \in DnsClients
  BY RequestClients, Zenon DEF DnsInv
<1> HIDE DEF done
<1>10. RequestsAwaited'
  BY <1>3, <1>7, <1>8, <1>9, SMTT(30) DEF DnsInv, RequestsAwaited, WaitsFor
<1>11. OneRequest'
  <2>1. OneRequest /\ pending_requests' \subseteq pending_requests /\ resolve_queue' = resolve_queue
    BY <1>7, Zenon DEF DnsInv
  <2> QED BY <2>1, Zenon DEF OneRequest
<1>12. ASSUME NEW c \in DnsClients, dns_client'[c].state = "waiting"
       PROVE  Queued(c)' \/ Sent(c)'
  <2>1. c \notin done
    BY <1>5, <1>12, Zenon
  <2>2. Queued(c) \/ Sent(c)
    BY <1>3, <1>12, <2>1, Zenon DEF DnsInv, WaitersKept
  <2>3. CASE Queued(c)
    BY <2>3, Zenon DEF Queued
  <2>4. ASSUME NEW r \in pending_requests, r.client = c PROVE r \in pending_requests'
    BY <1>1, <2>1, <2>4, Zenon DEF done
  <2> QED BY <2>2, <2>3, <2>4, Zenon DEF Sent
<1>13. \A c \in DnsClients : Answered(c)'
  <2> SUFFICES ASSUME NEW c \in DnsClients PROVE Answered(c)'
    BY Zenon
  <2>1. CASE c \in done
    BY <1>4, <1>5, <2>1, Zenon DEF Answered
  <2>2. CASE c \notin done
    BY <1>3, <2>2, Zenon DEF DnsInv, Answered
  <2> QED BY <2>1, <2>2, Zenon
<1> QED BY <1>2, <1>6, <1>10, <1>11, <1>12, <1>13, Zenon DEF DnsInv, WaitersKept

(* The first message of the queue becomes a pending request, or its client *)
(* is told that the name cannot be resolved.                               *)
LEMMA DnsResolved ==
    ASSUME DnsInv, NEW id \in ReqIds, dns_resolve(id)
    PROVE  DnsInv'
<1> DEFINE q == resolve_queue
           m == Head(resolve_queue)
<1>1. q \in Seq(Requests) /\ q # <<>> /\ resolve_queue' = Tail(q)
  BY Zenon DEF DnsInv, DnsType, dns_resolve
<1>2. m \in Requests /\ m = q[1] /\ 1 \in DOMAIN q
  BY <1>1, SMTT(30)
<1>3. m.client \in DnsClients /\ m.name \in DnsNames
  BY <1>2, Zenon DEF Requests
<1>4. /\ Tail(q) \in Seq(Requests)
      /\ \A i \in DOMAIN Tail(q) : i + 1 \in DOMAIN q /\ i + 1 # 1 /\ Tail(q)[i] = q[i + 1]
      /\ \A i \in DOMAIN q : i # 1 => i - 1 \in DOMAIN Tail(q) /\ Tail(q)[i - 1] = q[i]
      /\ \A i, j \in DOMAIN Tail(q) : i + 1 = j + 1 => i = j
  BY <1>1, SMTT(30)
<1> HIDE DEF q, m
<1>5. WaitsFor(m.client, m.name)
  BY <1>2, Zenon DEF DnsInv, RequestsAwaited, q
<1>6. \A i \in DOMAIN resolve_queue' : resolve_queue'[i].client # m.client
  <2>1. \A i \in DOMAIN q : i # 1 => q[i].client # m.client
    BY <1>2, Zenon DEF DnsInv, OneRequest, q
  <2> SUFFICES ASSUME NEW i \in DOMAIN Tail(q) PROVE Tail(q)[i].client # m.client
    BY <1>1, Zenon
  <2>2. i + 1 \in DOMAIN q /\ i + 1 # 1 /\ Tail(q)[i] = q[i + 1]
    BY <1>4, Zenon
  <2>3. q[i + 1].client # m.client
    BY <2>1, <2>2, Zenon
  <2> QED BY <2>2, <2>3, Zenon
<1>7. \A r \in pending_requests : r.client # m.client
  BY <1>2, Zenon DEF DnsInv, OneRequest, q
<1>8. \A i, j \in DOMAIN resolve_queue' : resolve_queue'[i].client = resolve_queue'[j].client => i = j
  <2>1. \A i, j \in DOMAIN q : q[i].client = q[j].client => i = j
    BY Zenon DEF DnsInv, OneRequest, q
  <2>2. ASSUME NEW i \in DOMAIN Tail(q), NEW j \in DOMAIN Tail(q), Tail(q)[i].client = Tail(q)[j].client
        PROVE  i = j
    <3>1. /\ i + 1 \in DOMAIN q /\ Tail(q)[i] = q[i + 1]
          /\ j + 1 \in DOMAIN q /\ Tail(q)[j] = q[j + 1]
      BY <1>4, Zenon
    <3>2. q[i + 1].client = q[j + 1].client
      BY <2>2, <3>1, Zenon
    <3>3. i + 1 = j + 1
      BY <2>1, <3>1, <3>2, Zenon
    <3> QED BY <1>4, <3>3, Zenon
  <2> QED BY <1>1, <2>2, Zenon
<1>9. \A i \in DOMAIN resolve_queue', r \in pending_requests : resolve_queue'[i].client # r.client
  <2>1. \A i \in DOMAIN q, r \in pending_requests : q[i].client # r.client
    BY Zenon DEF DnsInv, OneRequest, q
  <2> SUFFICES ASSUME NEW i \in DOMAIN Tail(q), NEW r \in pending_requests PROVE Tail(q)[i].client # r.client
    BY <1>1, Zenon
  <2>2. i + 1 \in DOMAIN q /\ Tail(q)[i] = q[i + 1]
    BY <1>4, Zenon
  <2>3. q[i + 1].client # r.client
    BY <2>1, <2>2, Zenon
  <2> QED BY <2>2, <2>3, Zenon
<1>10. \A i \in DOMAIN resolve_queue' : WaitsFor(resolve_queue'[i].client, resolve_queue'[i].name)
  <2>1. \A i \in DOMAIN q : WaitsFor(q[i].client, q[i].name)
    BY Zenon DEF DnsInv, RequestsAwaited, q
  <2> QED BY <1>1, <1>4, <2>1, Zenon
<1>11. \A c \in DnsClients : Queued(c) /\ c # m.client => \E i \in DOMAIN resolve_queue' : resolve_queue'[i].client = c
  <2> SUFFICES ASSUME NEW c \in DnsClients, c # m.client, NEW i \in DOMAIN q, q[i].client = c
               PROVE  \E j \in DOMAIN resolve_queue' : resolve_queue'[j].client = c
    BY Zenon DEF Queued, q
  <2>1. i # 1
    BY <1>2, Zenon
  <2> QED BY <1>1, <1>4, <2>1, Zenon
<1>12. CASE /\ pending_requests' = pending_requests \cup {[id |-> id, name |-> m.name, client |-> m.client]}
            /\ net' = net \cup {Dns("query", id, m.name)} /\ UNCHANGED dns_client
  <2> DEFINE new == [id |-> id, name |-> m.name, client |-> m.client]
  <2>1. new \in Pending /\ new.client = m.client /\ new.name = m.name
    BY <1>3, Zenon DEF Pending
  <2> HIDE DEF new
  <2>2. pending_requests' = pending_requests \cup {new} /\ dns_client' = dns_client
    BY <1>12, Zenon DEF new
  <2>3. DnsType'
    BY <1>1, <1>4, <2>1, <2>2, Zenon DEF DnsInv, DnsType
  <2>4. \A p \in net' : Truthful(p)
    <3>1. Truthful(Dns("query", id, m.name))
      BY Zenon DEF Truthful, Dns
    <3> QED BY <1>12, <3>1, Zenon DEF DnsInv
  <2>5. RequestsAwaited'
    <3>1. \A r \in pending_requests' : WaitsFor(r.client, r.name)
      BY <1>5, <2>1, <2>2, Zenon DEF DnsInv, RequestsAwaited
    <3> QED BY <1>10, <2>2, <3>1, Zenon DEF RequestsAwaited, WaitsFor
  <2>6. OneRequest'
    <3>1. \A r, s \in pending_requests' : r.client = s.client => r = s
      BY <1>7, <2>1, <2>2, Zenon DEF DnsInv, OneRequest
    <3>2. \A i \in DOMAIN resolve_queue', r \in pending_requests' : resolve_queue'[i].client # r.client
      BY <1>6, <1>9, <2>1, <2>2, Zenon
    <3> QED BY <1>8, <3>1, <3>2, Zenon DEF OneRequest
  <2>7. WaitersKept'
    <3> SUFFICES ASSUME NEW c \in DnsClients, dns_client[c].state = "waiting"
                 PROVE  Queued(c)' \/ Sent(c)'
      BY <2>2, Zenon DEF WaitersKept
    <3>1. CASE c = m.client
      BY <2>1, <2>2, <3>1, Zenon DEF Sent
    <3>2. CASE Queued(c) /\ c # m.client
      BY <1>11, <3>2, Zenon DEF Queued
    <3>3. CASE Sent(c)
      BY <2>2, <3>3, Zenon DEF Sent
    <3> QED BY <3>1, <3>2, <3>3, Zenon DEF DnsInv, WaitersKept
  <2>8. \A c \in DnsClients : Answered(c)'
    BY <2>2, Zenon DEF DnsInv, Answered
  <2> QED BY <2>3, <2>4, <2>5, <2>6, <2>7, <2>8, Zenon DEF DnsInv
<1>13. CASE /\ dns_client' = [dns_client EXCEPT ![m.client].state = "nack"]
            /\ UNCHANGED <<pending_requests, net>>
  <2>1. dns_client \in [DnsClients -> ClientStates]
    BY Zenon DEF DnsInv, DnsType
  <2>2. \A c \in DnsClients : c # m.client => dns_client'[c] = dns_client[c]
    BY <1>13, <2>1, Zenon
  <2>3. dns_client'[m.client] = [dns_client[m.client] EXCEPT !.state = "nack"]
    BY <1>3, <1>13, <2>1, Zenon
  <2>4. dns_client'[m.client] \in ClientStates /\ dns_client'[m.client].state = "nack"
    BY <1>3, <2>1, <2>3, SMTT(30) DEF ClientStates
  <2>5. dns_client' \in [DnsClients -> ClientStates]
    BY <1>13, <2>1, <2>2, <2>4, Zenon
  <2>6. DnsType'
    BY <1>1, <1>4, <1>13, <2>5, Zenon DEF DnsInv, DnsType
  <2>7. RequestsAwaited'
    <3>1. /\ \A r \in pending_requests : r.client \in DnsClients /\ r.client # m.client
          /\ \A i \in DOMAIN resolve_queue' : resolve_queue'[i].client \in DnsClients
      <4>1. /\ \A r \in pending_requests : r.client \in DnsClients
            /\ \A i \in DOMAIN q : q[i].client \in DnsClients
        BY RequestClients, Zenon DEF DnsInv, q
      <4>2. ASSUME NEW i \in DOMAIN Tail(q) PROVE Tail(q)[i].client \in DnsClients
        BY <1>4, <4>1, Zenon
      <4> QED BY <1>1, <1>7, <4>1, <4>2, Zenon
    <3>2. \A r \in pending_requests : WaitsFor(r.client, r.name)'
      BY <2>2, <3>1, Zenon DEF DnsInv, RequestsAwaited, WaitsFor
    <3>3. \A i \in DOMAIN resolve_queue' : WaitsFor(resolve_queue[i].client, resolve_queue[i].name)'
      BY <1>6, <1>10, <2>2, <3>1, Zenon DEF WaitsFor
    <3> QED BY <1>13, <3>2, <3>3, Zenon DEF RequestsAwaited, WaitsFor
  <2>8. OneRequest'
    BY <1>8, <1>9, <1>13, Zenon DEF DnsInv, OneRequest
  <2>9. WaitersKept'
    <3> SUFFICES ASSUME NEW c \in DnsClients, dns_client'[c].state = "waiting"
                 PROVE  Queued(c)' \/ Sent(c)'
      BY Zenon DEF WaitersKept
    <3>1. c # m.client
      BY <2>4, Zenon
    <3>2. Queued(c) \/ Sent(c)
      BY <2>2, <3>1, Zenon DEF DnsInv, WaitersKept
    <3>3. CASE Queued(c)
      BY <1>11, <3>1, <3>3, Zenon DEF Queued
    <3>4. CASE Sent(c)
      BY <1>13, <3>4, Zenon DEF Sent
    <3> QED BY <3>2, <3>3, <3>4, Zenon
  <2>10. \A c \in DnsClients : Answered(c)'
    BY <2>2, <2>4, Zenon DEF DnsInv, Answered
  <2>11. \A p \in net' : Truthful(p)
    BY <1>13, Zenon DEF DnsInv
  <2> QED BY <2>6, <2>7, <2>8, <2>9, <2>10, <2>11, Zenon DEF DnsInv
<1> QED BY <1>12, <1>13, Zenon DEF dns_resolve, user_resolve, m

(* A client asks: it had no request in the resolver, and has one now.      *)
LEMMA DnsAsked ==
    ASSUME DnsInv, NEW c \in DnsClients, NEW n \in DnsNames, resolve(c, n)
    PROVE  DnsInv'
<1> DEFINE q == resolve_queue
           new == [client |-> c, name |-> n]
           asking == [state |-> "waiting", name |-> n, answer |-> <<>>]
<1>1. /\ dns_client[c].state # "waiting" /\ dns_client' = [dns_client EXCEPT ![c] = asking]
      /\ resolve_queue' = Append(q, new) /\ UNCHANGED <<pending_requests, net>>
  BY Zenon DEF resolve
<1>2. new \in Requests /\ new.client = c /\ new.name = n
  BY Zenon DEF Requests
<1>3. asking \in ClientStates /\ asking.state = "waiting" /\ asking.name = n
  BY Zenon DEF ClientStates, Replies
<1> HIDE DEF new, asking
<1>4. dns_client \in [DnsClients -> ClientStates] /\ q \in Seq(Requests)
  BY Zenon DEF DnsInv, DnsType
<1>5. dns_client' \in [DnsClients -> ClientStates] /\ dns_client'[c] = asking
  BY <1>1, <1>3, <1>4, Zenon
<1>6. \A d \in DnsClients : d # c => dns_client'[d] = dns_client[d]
  BY <1>1, <1>4, Zenon
<1> DEFINE last == Len(q) + 1
<1>7. /\ Append(q, new) \in Seq(Requests) /\ DOMAIN Append(q, new) = DOMAIN q \cup {last}
      /\ Append(q, new)[last] = new /\ last \notin DOMAIN q
      /\ \A i \in DOMAIN q : Append(q, new)[i] = q[i]
  BY <1>2, <1>4, SMTT(30)
<1> HIDE DEF q, last
<1>8. /\ \A i \in DOMAIN q : q[i].client \in DnsClients /\ q[i].client # c
      /\ \A r \in pending_requests : r.client \in DnsClients /\ r.client # c
  <2>1. /\ \A i \in DOMAIN q : q[i].client \in DnsClients
        /\ \A r \in pending_requests : r.client \in DnsClients
    BY RequestClients, Zenon DEF DnsInv, q
  <2>2. /\ \A i \in DOMAIN q : WaitsFor(q[i].client, q[i].name)
        /\ \A r \in pending_requests : WaitsFor(r.client, r.name)
    BY Zenon DEF DnsInv, RequestsAwaited, q
  <2> QED BY <1>1, <2>1, <2>2, Zenon DEF WaitsFor
<1>9. DnsType'
  BY <1>1, <1>5, <1>7, Zenon DEF DnsInv, DnsType
<1>10. RequestsAwaited'
  <2>1. \A r \in pending_requests : WaitsFor(r.client, r.name)'
    BY <1>6, <1>8, Zenon DEF DnsInv, RequestsAwaited, WaitsFor
  <2>2. ASSUME NEW i \in DOMAIN q PROVE WaitsFor(resolve_queue[i].client, resolve_queue[i].name)'
    <3>1. WaitsFor(q[i].client, q[i].name)
      BY Zenon DEF DnsInv, RequestsAwaited, q
    <3>2. resolve_queue'[i] = q[i] /\ dns_client'[q[i].client] = dns_client[q[i].client]
      BY <1>1, <1>6, <1>7, <1>8, Zenon
    <3> QED BY <3>1, <3>2, Zenon DEF WaitsFor
  <2>3. ASSUME NEW i, i = last PROVE WaitsFor(resolve_queue[i].client, resolve_queue[i].name)'
    <3>1. resolve_queue'[i] = new
      BY <1>1, <1>7, <2>3, Zenon
    <3> QED BY <1>2, <1>3, <1>5, <3>1, Zenon DEF WaitsFor
  <2>4. DOMAIN resolve_queue' = DOMAIN q \cup {last}
    BY <1>1, <1>7, Zenon
  <2>5. \A i \in DOMAIN resolve_queue' : WaitsFor(resolve_queue[i].client, resolve_queue[i].name)'
    BY <2>2, <2>3, <2>4, Zenon
  <2> QED BY <1>1, <2>1, <2>5, Zenon DEF RequestsAwaited, WaitsFor
<1>11. OneRequest'
  <2>1. /\ \A i, j \in DOMAIN q : q[i].client = q[j].client => i = j
        /\ \A r, s \in pending_requests : r.client = s.client => r = s
        /\ \A i \in DOMAIN q, r \in pending_requests : q[i].client # r.client
    BY Zenon DEF DnsInv, OneRequest, q
  <2>2. ASSUME NEW i \in DOMAIN resolve_queue', NEW j \in DOMAIN resolve_queue',
               resolve_queue'[i].client = resolve_queue'[j].client
        PROVE  i = j
    BY <1>1, <1>2, <1>7, <1>8, <2>1, <2>2, ZenonT(30)
  <2>3. ASSUME NEW i \in DOMAIN resolve_queue', NEW r \in pending_requests
        PROVE  resolve_queue'[i].client # r.client
    <3>1. CASE i \in DOMAIN q
      <4>1. resolve_queue'[i] = q[i]
        BY <1>1, <1>7, <3>1, Zenon
      <4> QED BY <2>1, <3>1, <4>1, Zenon
    <3>2. CASE i = last
      BY <1>1, <1>2, <1>7, <1>8, <3>2, Zenon
    <3> QED BY <1>1, <1>7, <3>1, <3>2, Zenon
  <2> QED BY <1>1, <2>1, <2>2, <2>3, Zenon DEF OneRequest
<1>12. WaitersKept'
  <2> SUFFICES ASSUME NEW d \in DnsClients, dns_client'[d].state = "waiting" PROVE Queued(d)' \/ Sent(d)'
    BY Zenon DEF WaitersKept
  <2>1. CASE d = c
    BY <1>1, <1>2, <1>7, <2>1, Zenon DEF Queued
  <2>2. CASE d # c
    <3>1. Queued(d) \/ Sent(d)
      BY <1>6, <2>2, Zenon DEF DnsInv, WaitersKept
    <3>2. CASE Queued(d)
      BY <1>1, <1>7, <3>2, Zenon DEF Queued, q
    <3>3. CASE Sent(d)
      BY <1>1, <3>3, Zenon DEF Sent
    <3> QED BY <3>1, <3>2, <3>3, Zenon
  <2> QED BY <2>1, <2>2, Zenon
<1>13. \A d \in DnsClients : Answered(d)'
  BY <1>3, <1>5, <1>6, Zenon DEF DnsInv, Answered
<1> QED BY <1>1, <1>9, <1>10, <1>11, <1>12, <1>13, Zenon DEF DnsInv

(* Every other step of the daemon and of the hosts leaves the requests     *)
(* alone, and what it puts on the wire is truthful.                        *)
LEMMA DnsAlone ==
    ASSUME DnsInv, UNCHANGED <<dnsVars, resolve_queue>>, \A p \in net' : Truthful(p)
    PROVE  DnsInv'
<1>1. pending_requests' = pending_requests /\ dns_client' = dns_client /\ resolve_queue' = resolve_queue
  BY Zenon DEF dnsVars
<1>2. DnsType' /\ RequestsAwaited'
  BY <1>1, Zenon DEF DnsInv, DnsType, RequestsAwaited, WaitsFor
<1>3. OneRequest'
  BY <1>1, Zenon DEF DnsInv, OneRequest
<1>4. WaitersKept'
  BY <1>1, Zenon DEF DnsInv, WaitersKept, Queued, Sent
<1>5. \A c \in DnsClients : Answered(c)'
  BY <1>1, Zenon DEF DnsInv, Answered
<1> QED BY <1>2, <1>3, <1>4, <1>5, Zenon DEF DnsInv

LEMMA DnsPacketStep ==
    ASSUME DnsInv, NEW p \in net, NEW keep \in BOOLEAN, on_packet(p, keep)
    PROVE  DnsInv'
<1> DEFINE rest == IF keep THEN net ELSE net \ {p}
<1>1. rest \subseteq net /\ \A x \in rest : Truthful(x)
  BY Zenon DEF DnsInv
<1>2. resolve_queue' = resolve_queue
  BY Zenon DEF on_packet
<1>3. CASE p.kind \in {"offer", "ack", "nak"} /\ on_dhcp_packet(p, rest) /\ UNCHANGED <<arp_table, dnsVars>>
  <2>1. \A ip, rs : \A x \in arp_probe(ip, rs) : Truthful(x)
    BY DEF arp_probe, Arp, Truthful
  <2>2. Truthful([kind |-> "request", server |-> p.server, ip |-> p.ip])
    BY Zenon DEF Truthful
  <2> HIDE DEF rest
  <2>3. \/ net' = rest
        \/ net' = rest \cup {[kind |-> "request", server |-> p.server, ip |-> p.ip]}
        \/ net' = rest \cup arp_probe(p.ip, <<Router>>)
    BY <1>3, Zenon DEF on_dhcp_packet
  <2>4. \A x \in net' : Truthful(x)
    BY <1>1, <2>1, <2>2, <2>3, Zenon
  <2> QED BY <1>2, <1>3, <2>4, DnsAlone, Zenon
<1>4. CASE handle_arp_packet(p, rest) /\ UNCHANGED <<settingVars, dnsVars, misled>>
  <2>1. Truthful(Arp("Reply", OwnMac, ipv4, p.src_hw, p.src_ip))
    BY Zenon DEF Truthful, Arp
  <2> HIDE DEF rest
  <2>2. net' = rest \/ net' = rest \cup {} \/ net' = rest \cup {Arp("Reply", OwnMac, ipv4, p.src_hw, p.src_ip)}
    BY <1>4, Zenon DEF handle_arp_packet
  <2>3. \A x \in net' : Truthful(x)
    BY <1>1, <2>1, <2>2, Zenon
  <2> QED BY <1>2, <1>4, <2>3, DnsAlone, Zenon
<1>5. CASE p.kind \in {"records", "nx", "error"} /\ dns_on_packet(p, rest)
  BY <1>1, <1>2, <1>5, DnsOnPacket, Zenon
<1> QED BY <1>3, <1>4, <1>5, Zenon DEF on_packet

LEMMA DnsHostStep ==
    ASSUME DnsInv, NEW p \in net, host_receive(p)
    PROVE  DnsInv'
<1>1. UNCHANGED <<dnsVars, resolve_queue>>
  BY Zenon DEF host_receive, daemonVars
<1>2. \A x \in net \ {p} : Truthful(x)
  BY Zenon DEF DnsInv
<1>3. CASE net' = (net \ {p}) \cup {Dhcp("offer", s, Offers[s], TRUE) : s \in Servers}
  <2>1. \A s : Truthful(Dhcp("offer", s, Offers[s], TRUE))
    BY Zenon DEF Truthful, Dhcp
  <2> QED BY <1>1, <1>2, <1>3, <2>1, DnsAlone, Zenon
<1>4. CASE \E op \in {"ack", "nak"} : net' = (net \ {p}) \cup {Dhcp(op, p.server, p.ip, TRUE)}
  <2>1. \A op \in {"ack", "nak"} : Truthful(Dhcp(op, p.server, p.ip, TRUE))
    BY Zenon DEF Truthful, Dhcp
  <2> QED BY <1>1, <1>2, <1>4, <2>1, DnsAlone, Zenon
<1>5. CASE net' = (net \ {p}) \cup (IF p.op = "Request" /\ p.dst_ip = Router
                                    THEN {Arp("Reply", RouterHw, Router, OwnMac, p.src_ip)} ELSE {})
  <2>1. Truthful(Arp("Reply", RouterHw, Router, OwnMac, p.src_ip))
    BY Zenon DEF Truthful, Arp
  <2> QED BY <1>1, <1>2, <1>5, <2>1, DnsAlone, Zenon
<1>6. CASE \E kind \in {AnswerKind(p.name), "error"} : net' = (net \ {p}) \cup {Dns(kind, p.id, p.name)}
  <2>1. \A kind \in {AnswerKind(p.name), "error"} : Truthful(Dns(kind, p.id, p.name))
    BY Zenon DEF Truthful, Dns
  <2> QED BY <1>1, <1>2, <1>6, <2>1, DnsAlone, Zenon
<1>7. ASSUME p.kind = "request",
             LET granted == p.ip = Offers[p.server]
             IN  net' = (net \ {p}) \cup {Dhcp(IF granted THEN "ack" ELSE "nak", p.server, p.ip, TRUE)}
      PROVE  \E op \in {"ack", "nak"} : net' = (net \ {p}) \cup {Dhcp(op, p.server, p.ip, TRUE)}
  BY <1>7, Zenon
<1> QED BY <1>3, <1>4, <1>5, <1>6, <1>7, Zenon DEF host_receive, AnswerKind

(* What the invariant says of a client: its request is in one place while  *)
(* it waits and nowhere else, and its answer is the one to its name.       *)
LEMMA DnsPlaces ==
    ASSUME DnsInv
    PROVE  DnsAnswerMatches
<1> SUFFICES ASSUME NEW c \in DnsClients
             PROVE  /\ Answered(c)
                    /\ dns_client[c].state = "waiting" => \E h \in HeldAt(c) : HeldAt(c) = {h}
                    /\ dns_client[c].state # "waiting" => HeldAt(c) = {}
  BY Zenon DEF DnsAnswerMatches, Answered, AnswerKind
<1>1. Answered(c)
  BY Zenon DEF DnsInv
<1>2. \A x : x \in HeldAt(c) <=>
          \/ \E i \in DOMAIN resolve_queue : resolve_queue[i].client = c /\ x = <<"queue", i>>
          \/ \E r \in pending_requests : r.client = c /\ x = <<"pending", r>>
  BY Zenon DEF HeldAt
<1>3. ASSUME dns_client[c].state # "waiting" PROVE HeldAt(c) = {}
  <2>1. ~Queued(c) /\ ~Sent(c)
    BY <1>3, Zenon DEF DnsInv, RequestsAwaited, WaitsFor, Queued, Sent
  <2> QED BY <1>2, <2>1, Zenon DEF Queued, Sent
<1>4. ASSUME NEW x \in HeldAt(c), NEW y \in HeldAt(c) PROVE x = y
  <2>1. ASSUME NEW i \in DOMAIN resolve_queue, resolve_queue[i].client = c,
               NEW r \in pending_requests, r.client = c
        PROVE  FALSE
    BY <2>1, Zenon DEF DnsInv, OneRequest
  <2>2. ASSUME NEW i \in DOMAIN resolve_queue, resolve_queue[i].client = c,
               NEW j \in DOMAIN resolve_queue, resolve_queue[j].client = c
        PROVE  i = j
    BY <2>2, Zenon DEF DnsInv, OneRequest
  <2>3. ASSUME NEW r \in pending_requests, r.client = c, NEW s \in pending_requests, s.client = c
        PROVE  r = s
    BY <2>3, Zenon DEF DnsInv, OneRequest
  <2>4. CASE \E i \in DOMAIN resolve_queue : resolve_queue[i].client = c /\ x = <<"queue", i>>
    <3>1. PICK i \in DOMAIN resolve_queue : resolve_queue[i].client = c /\ x = <<"queue", i>>
      BY <2>4, Zenon
    <3>2. PICK j \in DOMAIN resolve_queue : resolve_queue[j].client = c /\ y = <<"queue", j>>
      BY <1>2, <2>1, <3>1, Zenon
    <3> QED BY <2>2, <3>1, <3>2, Zenon
  <2>5. CASE \E r \in pending_requests : r.client = c /\ x = <<"pending", r>>
    <3>1. PICK r \in pending_requests : r.client = c /\ x = <<"pending", r>>
      BY <2>5, Zenon
    <3>2. PICK s \in pending_requests : s.client = c /\ y = <<"pending", s>>
      BY <1>2, <2>1, <3>1, Zenon
    <3> QED BY <2>3, <3>1, <3>2, Zenon
  <2> QED BY <1>2, <2>4, <2>5, Zenon
<1>5. ASSUME dns_client[c].state = "waiting" PROVE \E h \in HeldAt(c) : HeldAt(c) = {h}
  <2>1. Queued(c) \/ Sent(c)
    BY <1>5, Zenon DEF DnsInv, WaitersKept
  <2>2. PICK h : h \in HeldAt(c)
    BY <1>2, <2>1, Zenon DEF Queued, Sent
  <2>3. HeldAt(c) = {h}
    BY <1>4, <2>2, Zenon
  <2> QED BY <2>2, <2>3, Zenon
<1> QED BY <1>1, <1>3, <1>5, Zenon

(***************************************************************************)
(* The answer DnsResolver::on_packet gives a client is the one to the name *)
(* the client asked for, and a client that waits is in the queue of        *)
(* netd/dns/resolve or among the pending requests, once, whatever replies  *)
(* are late, repeated or lost and however the random ids of user_resolve   *)
(* collide.                                                                *)
(***************************************************************************)
THEOREM DnsAnswersMatch == NetSpec => []DnsAnswerMatches
<1>1. ASSUME DnsInv, [NetNext]_netVars PROVE DnsInv'
  <2>1. CASE UNCHANGED netVars
    <3>1. UNCHANGED <<dnsVars, resolve_queue>> /\ net' = net
      BY <2>1, Zenon DEF netVars, dnsVars
    <3> QED BY <1>1, <3>1, DnsAlone, Zenon DEF DnsInv
  <2>2. ASSUME NEW p \in net, NEW keep \in BOOLEAN, on_packet(p, keep) PROVE DnsInv'
    BY <1>1, <2>2, DnsPacketStep, Zenon
  <2>3. ASSUME NEW p \in net, host_receive(p) PROVE DnsInv'
    BY <1>1, <2>3, DnsHostStep, Zenon
  <2>4. ASSUME NEW p \in net, lose(p) PROVE DnsInv'
    <3>1. UNCHANGED <<dnsVars, resolve_queue>> /\ net' \subseteq net
      BY <2>4, Zenon DEF lose, daemonVars
    <3> QED BY <1>1, <3>1, DnsAlone, Zenon DEF DnsInv
  <2>5. ASSUME NEW id \in ReqIds, dns_resolve(id) PROVE DnsInv'
    BY <1>1, <2>5, DnsResolved, Zenon
  <2>6. ASSUME NEW c \in DnsClients, NEW n \in DnsNames, resolve(c, n) PROVE DnsInv'
    BY <1>1, <2>6, DnsAsked, Zenon
  <2>7. CASE foreign_dhcp
    <3>1. UNCHANGED <<dnsVars, resolve_queue>>
      BY <2>7, Zenon DEF foreign_dhcp, daemonVars
    <3> DEFINE S == {None, CHOOSE s \in Servers : TRUE}
    <3>0. \E op \in {"offer", "ack"}, s \in S :
            Dhcp(op, s, Foreign, FALSE) \notin net /\ net' = net \cup {Dhcp(op, s, Foreign, FALSE)}
      BY <2>7, ZenonT(30) DEF foreign_dhcp
    <3> HIDE DEF S
    <3>2. PICK op \in {"offer", "ack"}, s \in S :
            Dhcp(op, s, Foreign, FALSE) \notin net /\ net' = net \cup {Dhcp(op, s, Foreign, FALSE)}
      BY <3>0, Zenon
    <3>3. Truthful(Dhcp(op, s, Foreign, FALSE))
      BY <3>2, Zenon DEF Truthful, Dhcp
    <3> QED BY <1>1, <3>1, <3>2, <3>3, DnsAlone, Zenon DEF DnsInv
  <2>8. CASE neighbour_asks
    <3>1. UNCHANGED <<dnsVars, resolve_queue>>
      BY <2>8, Zenon DEF neighbour_asks, daemonVars
    <3>2. PICK hw : net' = net \cup {Arp("Request", "mac_neighbour", Neighbour, hw, ipv4)}
      BY <2>8, Zenon DEF neighbour_asks
    <3>3. Truthful(Arp("Request", "mac_neighbour", Neighbour, hw, ipv4))
      BY Zenon DEF Truthful, Arp
    <3> QED BY <1>1, <3>1, <3>2, <3>3, DnsAlone, Zenon DEF DnsInv
  <2> QED BY <1>1, <2>1, <2>2, <2>3, <2>4, <2>5, <2>6, <2>7, <2>8, Zenon DEF NetNext, NetStep
<1> QED BY <1>1, DnsInitially, DnsPlaces, PTL DEF NetSpec

-----------------------------------------------------------------------------
(***************************************************************************)
(* The real-time clock, for any number of registers, any base and however  *)
(* the clock's writes fall between the reads of the driver.                *)
(***************************************************************************)

(* The values a register can have.                                         *)
Values == {Shown(t)[i] : t \in Nat, i \in Digits}

RtcTypeOK ==
    /\ seconds \in Nat /\ rtc_start \in Nat /\ updates \in Nat /\ uip \subseteq Digits
    /\ registers \in [Digits -> Values] /\ snap_a \in Seq(Values) /\ snap_b \in Seq(Values)
    /\ rtc_pc \in {"idle", "check_a", "a", "check_b", "b", "compare", "panic"}

(* During an update the registers written show the next second.            *)
RegistersShow ==
    \A i \in Digits : registers[i] = Shown(IF uip # {} /\ i \notin uip THEN seconds + 1 ELSE seconds)[i]

(* The registers read so far show time t.                                  *)
Shows(snap, t) == \A i \in 1..Len(snap) : i \in Digits /\ snap[i] = Shown(t)[i]

(* The one update during a turn of the loop has not begun, goes on or is   *)
(* over.                                                                   *)
Before == updates = 0 /\ uip = {} /\ seconds = rtc_start
During == updates = 1 /\ uip # {} /\ seconds = rtc_start
Past == updates = 1 /\ uip = {} /\ seconds = rtc_start + 1

(* A turn of the loop: until the update begins both snapshots show the     *)
(* time of entry; after the second look at the flag either the first       *)
(* snapshot was complete before the update, or the update was over before  *)
(* the second one.                                                         *)
TurnOK ==
    /\ Before \/ During \/ Past
    /\ rtc_time = <<>>
    /\ Before => Shows(snap_a, rtc_start) /\ Shows(snap_b, rtc_start)
    /\ rtc_pc \in {"check_a", "a", "check_b"} => snap_b = <<>>
    /\ rtc_pc = "check_a" => snap_a = <<>>
    /\ rtc_pc \in {"check_b", "b", "compare"} => Len(snap_a) = Registers
    /\ rtc_pc = "compare" => Len(snap_b) = Registers
    /\ rtc_pc \in {"b", "compare"} =>
          Shows(snap_a, rtc_start) \/ (Past /\ Shows(snap_b, rtc_start + 1))

InTurn == rtc_pc \notin {"idle", "panic"}
TimeOK == rtc_time # <<>> => \E t \in rtc_start..seconds + 1 : rtc_time = Shown(t)

ConfigOK == config \in Configs /\ hour \in Hours
HourRead == rtc_pc \in {"check_b", "b", "compare"} \/ rtc_time # <<>>

RtcInv ==
    /\ RtcTypeOK /\ RegistersShow /\ rtc_start <= seconds
    /\ InTurn => TurnOK
    /\ TimeOK
    /\ ConfigOK
    /\ config # [mode |-> "Bcd", hours |-> 12] =>
          rtc_pc # "panic" /\ (HourRead => rtc_hour = hour)

LEMMA ShownFacts ==
    /\ \A t : Shown(t) = [i \in Digits |-> Shown(t)[i]]
    /\ \A t \in Nat, i \in Digits : Shown(t)[i] \in Values
<1>1. \A t : Shown(t) = [i \in Digits |-> Shown(t)[i]]
  BY Zenon DEF Shown
<1>2. \A t \in Nat, i \in Digits : Shown(t)[i] \in Values
  BY SMTT(30) DEF Values
<1> QED
  BY <1>1, <1>2, Zenon

(* A complete snapshot that shows t is t.                                  *)
LEMMA CompleteSnapshot ==
    ASSUME NEW snap \in Seq(Values), Len(snap) = Registers, NEW t, Shows(snap, t)
    PROVE  snap = Shown(t)
<1>1. snap = [i \in Digits |-> snap[i]]
  BY DEF Digits
<1>2. \A i \in Digits : snap[i] = Shown(t)[i]
  BY Zenon DEF Shows, Digits
<1> QED
  BY <1>1, <1>2, ShownFacts, Zenon

(* What a snapshot shows after one more register was read.                 *)
LEMMA OneMore ==
    ASSUME NEW snap \in Seq(Values), Len(snap) < Registers, NEW v \in Values
    PROVE  /\ Len(snap) + 1 \in Digits
           /\ Append(snap, v) \in Seq(Values)
           /\ \A t : Shows(snap, t) /\ v = Shown(t)[Len(snap) + 1] => Shows(Append(snap, v), t)
<1>1. Len(snap) \in Nat /\ Registers \in Nat
  BY RtcAssumption, SMTT(30)
<1>2. Len(snap) + 1 \in Digits
  BY <1>1, SMTT(30) DEF Digits
<1>3. /\ Append(snap, v) \in Seq(Values) /\ Len(Append(snap, v)) = Len(snap) + 1
      /\ \A i \in 1..Len(snap) : Append(snap, v)[i] = snap[i]
      /\ Append(snap, v)[Len(snap) + 1] = v
  BY SMTT(30)
<1>4. \A i \in 1..Len(snap) + 1 : i \in 1..Len(snap) \/ i = Len(snap) + 1
  BY <1>1, SMTT(30)
<1> QED
  BY <1>2, <1>3, <1>4, Zenon DEF Shows

LEMMA RtcInitial ==
    ASSUME RtcInit
    PROVE  RtcInv
<1>1. RtcTypeOK
  BY ShownFacts, SMTT(30) DEF RtcInit, RtcTypeOK
<1>2. RegistersShow
  BY SMTT(30) DEF RtcInit, RegistersShow
<1> QED
  BY <1>1, <1>2, SMTT(30) DEF RtcInit, RtcInv, InTurn, TimeOK, ConfigOK, HourRead

(* Entering the loop.                                                      *)
LEMMA EnterTurn ==
    ASSUME RtcInv, Enter, UNCHANGED <<seconds, registers, uip>>
    PROVE  /\ RtcTypeOK' /\ InTurn' /\ rtc_start' <= seconds'
           /\ rtc_time' = <<>> => TurnOK'
<1>1. RtcTypeOK
  BY Zenon DEF RtcInv
<1>2. Before' \/ During'
  BY Zenon DEF Enter, Before, During
<1>3. \A t : Shows(<<>>, t)
  BY SMTT(30) DEF Shows
<1>4. RtcTypeOK'
  BY <1>1, SMTT(30) DEF RtcTypeOK, Enter
<1>5. InTurn' /\ rtc_start' <= seconds'
  BY <1>1, SMTT(30) DEF Enter, InTurn, RtcTypeOK
<1> QED
  BY <1>2, <1>3, <1>4, <1>5, Zenon DEF Enter, TurnOK

LEMMA RtcTypeStep ==
    ASSUME RtcInv, RtcNext
    PROVE  RtcTypeOK'
<1> USE DEF RtcInv
<1>1. CASE clock_begin
  BY <1>1, SMTT(30) DEF RtcTypeOK, clock_begin
<1>2. CASE clock_write
  <2>1. PICK i \in uip : /\ registers' = [registers EXCEPT ![i] = Shown(seconds + 1)[i]]
                         /\ uip' = uip \ {i}
                         /\ seconds' = IF uip = {i} THEN seconds + 1 ELSE seconds
                         /\ UNCHANGED <<rtc_pc, snap_a, snap_b, rtc_start, updates>>
    BY <1>2, Zenon DEF clock_write
  <2>2. i \in Digits /\ seconds + 1 \in Nat
    BY DEF RtcTypeOK
  <2>3. registers' \in [Digits -> Values]
    BY <2>1, <2>2, ShownFacts, Zenon DEF RtcTypeOK
  <2> QED
    BY <2>1, <2>2, <2>3, Zenon DEF RtcTypeOK
<1>3. CASE get_current_time
  BY <1>3, EnterTurn, Zenon DEF get_current_time
<1>4. CASE is_update_in_progress
  <2>1. CASE uip # {}
    BY <1>4, <2>1, EnterTurn, Zenon DEF is_update_in_progress
  <2>2. CASE uip = {}
    BY <1>4, <2>2, Zenon DEF RtcTypeOK, is_update_in_progress
  <2> QED
    BY <2>1, <2>2, Zenon
<1>5. CASE read_register
  <2>1. CASE rtc_pc = "a" /\ Len(snap_a) < Registers /\ snap_a' = Append(snap_a, registers[Len(snap_a) + 1])
             /\ UNCHANGED <<rtc_pc, snap_b>>
    <3>1. Len(snap_a) + 1 \in Digits
      BY <2>1, RtcAssumption, SMTT(30) DEF Digits, RtcTypeOK
    <3>2. registers[Len(snap_a) + 1] \in Values
      BY <3>1, Zenon DEF RtcTypeOK
    <3> QED
      BY <1>5, <2>1, <3>2, SMTT(30) DEF RtcTypeOK, read_register
  <2>2. CASE rtc_pc = "b" /\ Len(snap_b) < Registers /\ snap_b' = Append(snap_b, registers[Len(snap_b) + 1])
             /\ UNCHANGED <<rtc_pc, snap_a>>
    <3>1. Len(snap_b) + 1 \in Digits
      BY <2>2, RtcAssumption, SMTT(30) DEF Digits, RtcTypeOK
    <3>2. registers[Len(snap_b) + 1] \in Values
      BY <3>1, Zenon DEF RtcTypeOK
    <3> QED
      BY <1>5, <2>2, <3>2, SMTT(30) DEF RtcTypeOK, read_register
  <2> QED
    BY <1>5, <2>1, <2>2, Zenon DEF read_register
<1>6. CASE read_hours
  <2>1. rtc_pc' \in {"panic", "check_b", "compare"}
    BY <1>6, Zenon DEF read_hours
  <2> QED
    BY <1>6, <2>1, Zenon DEF RtcTypeOK, read_hours
<1>7. CASE compare_snapshots
  <2>1. CASE snap_a # snap_b
    BY <1>7, <2>1, EnterTurn, Zenon DEF compare_snapshots
  <2>2. CASE snap_a = snap_b
    BY <1>7, <2>2, Zenon DEF RtcTypeOK, compare_snapshots
  <2> QED
    BY <2>1, <2>2, Zenon
<1> QED
  BY <1>1, <1>2, <1>3, <1>4, <1>5, <1>6, <1>7, Zenon DEF RtcNext, RtcReader

(* Only the clock writes the registers.                                    *)
LEMMA RegistersStep ==
    ASSUME RtcInv, RtcNext
    PROVE  RegistersShow' /\ seconds' >= seconds
<1>1. RtcTypeOK /\ RegistersShow
  BY Zenon DEF RtcInv
<1>2. CASE clock_begin
  <2>1. uip = {} /\ uip' = Digits /\ UNCHANGED <<seconds, registers>>
    BY <1>2, Zenon DEF clock_begin
  <2>2. \A i \in Digits : registers'[i] = Shown(seconds')[i]
    BY <1>1, <2>1, Zenon DEF RegistersShow
  <2> QED
    BY <1>1, <2>1, <2>2, SMTT(30) DEF RegistersShow, RtcTypeOK
<1>3. CASE clock_write
  <2>1. PICK i \in uip : /\ registers' = [registers EXCEPT ![i] = Shown(seconds + 1)[i]]
                         /\ uip' = uip \ {i}
                         /\ seconds' = IF uip = {i} THEN seconds + 1 ELSE seconds
    BY <1>3, Zenon DEF clock_write
  <2>2. ASSUME NEW j \in Digits
        PROVE  registers'[j] = Shown(IF j = i \/ j \notin uip THEN seconds + 1 ELSE seconds)[j]
    BY <1>1, <2>1, Zenon DEF RegistersShow, RtcTypeOK
  <2>3. CASE uip = {i}
    <3>1. uip' = {} /\ seconds' = seconds + 1 /\ \A j \in Digits : j = i \/ j \notin uip
      BY <2>1, <2>3, Zenon
    <3>2. \A j \in Digits : registers'[j] = Shown(seconds')[j]
      BY <2>2, <3>1, Zenon
    <3> QED
      BY <1>1, <3>1, <3>2, SMTT(30) DEF RegistersShow, RtcTypeOK
  <2>4. CASE uip # {i}
    <3>1. uip' # {} /\ seconds' = seconds
      BY <2>1, <2>4, Zenon
    <3>2. \A j \in Digits : j \notin uip' <=> j = i \/ j \notin uip
      BY <2>1, Zenon
    <3>3. ASSUME NEW j \in Digits
          PROVE  registers'[j] = Shown(IF uip' # {} /\ j \notin uip' THEN seconds' + 1 ELSE seconds')[j]
      BY <2>2, <3>1, <3>2, Zenon
    <3> QED
      BY <1>1, <3>1, <3>3, SMTT(30) DEF RegistersShow, RtcTypeOK
  <2> QED
    BY <2>3, <2>4, Zenon
<1>4. CASE get_current_time \/ RtcReader
  <2>1. UNCHANGED <<seconds, registers, uip>>
    BY <1>4, Zenon DEF get_current_time, RtcReader, is_update_in_progress, read_register, read_hours,
                       compare_snapshots
  <2> QED
    BY <1>1, <2>1, SMTT(30) DEF RegistersShow, RtcTypeOK
<1> QED
  BY <1>2, <1>3, <1>4, Zenon DEF RtcNext

(* What the guards of the driver make of a turn of the loop.               *)
LEMMA TurnStep ==
    ASSUME RtcInv, RtcNext
    PROVE  (InTurn' => TurnOK') /\ rtc_start' <= seconds'
<1>1. RtcTypeOK /\ RegistersShow /\ rtc_start <= seconds /\ (InTurn => TurnOK)
  BY Zenon DEF RtcInv
<1>2. CASE clock_begin
  <2>1. uip' # {} /\ UNCHANGED <<seconds, rtc_pc, snap_a, snap_b, rtc_start, rtc_time>>
    BY <1>2, RtcAssumption, SMTT(30) DEF clock_begin, Digits
  <2>2. ASSUME InTurn
        PROVE  Before /\ During' /\ TurnOK
    <3>1. TurnOK /\ updates = 0 /\ updates' = updates + 1
      BY <1>1, <1>2, <2>2, Zenon DEF clock_begin, InTurn
    <3>2. Before
      BY <3>1, SMTT(30) DEF TurnOK, Before, During, Past
    <3> QED
      BY <2>1, <3>1, <3>2, SMTT(30) DEF Before, During
  <2> QED
    BY <1>1, <2>1, <2>2, Zenon DEF TurnOK, InTurn, Shows, During, Before
<1>3. CASE clock_write
  <2>1. /\ uip # {} /\ UNCHANGED <<rtc_pc, snap_a, snap_b, rtc_start, updates, rtc_time>>
        /\ \/ uip' = {} /\ seconds' = seconds + 1
           \/ uip' # {} /\ seconds' = seconds
    BY <1>3, SMTT(30) DEF clock_write
  <2>2. ASSUME InTurn
        PROVE  During /\ (During' \/ Past') /\ TurnOK
    <3>1. TurnOK /\ During
      BY <1>1, <2>1, <2>2, Zenon DEF TurnOK, Before, During, Past
    <3> QED
      BY <2>1, <3>1, SMTT(30) DEF During, Past
  <2>3. ASSUME InTurn PROVE TurnOK'
    <3>1. ~ Past /\ ~ Before'
      BY <2>1, <2>2, <2>3, SMTT(30) DEF Past, Before, During
    <3> QED
      BY <2>1, <2>2, <2>3, <3>1, Zenon DEF TurnOK, Shows
  <2>4. rtc_start' <= seconds'
    BY <1>1, <2>1, SMTT(30) DEF RtcTypeOK
  <2> QED
    BY <2>1, <2>3, <2>4, Zenon DEF InTurn
<1>4. CASE get_current_time
  BY <1>4, EnterTurn, Zenon DEF get_current_time
<1>5. CASE is_update_in_progress
  <2>1. TurnOK /\ rtc_time' = rtc_time /\ UNCHANGED <<seconds, registers, uip>>
    BY <1>1, <1>5, Zenon DEF is_update_in_progress, InTurn
  <2>2. CASE uip # {}
    BY <1>5, <2>1, <2>2, EnterTurn, Zenon DEF is_update_in_progress, TurnOK
  <2>3. CASE uip = {}
    <3>1. /\ UNCHANGED <<snap_a, snap_b, rtc_start, updates>> /\ snap_b = <<>>
          /\ \/ rtc_pc = "check_a" /\ rtc_pc' = "a"
             \/ rtc_pc = "check_b" /\ rtc_pc' = "b"
      BY <1>5, <2>1, <2>3, Zenon DEF is_update_in_progress, TurnOK
    <3>2. Before \/ Past
      BY <2>1, <2>3, Zenon DEF TurnOK, During
    <3>3. \A t : Shows(snap_b, t)
      BY <3>1, SMTT(30) DEF Shows
    <3>4. (Before' <=> Before) /\ (Past' <=> Past)
      BY <2>1, <3>1, Zenon DEF Before, Past
    <3>5. CASE rtc_pc = "check_a" /\ rtc_pc' = "a"
      BY <1>1, <2>1, <3>1, <3>2, <3>4, <3>5, Zenon DEF TurnOK
    <3>6. CASE rtc_pc = "check_b" /\ rtc_pc' = "b"
      BY <1>1, <2>1, <3>1, <3>2, <3>3, <3>4, <3>6, Zenon DEF TurnOK
    <3> QED
      BY <3>1, <3>5, <3>6, Zenon
  <2> QED
    BY <2>2, <2>3, Zenon
<1>6. CASE read_register
  <2>1. TurnOK /\ rtc_time' = rtc_time /\ UNCHANGED <<seconds, uip, rtc_start, updates, rtc_pc>>
    BY <1>1, <1>6, Zenon DEF read_register, InTurn
  <2>2. (Before' <=> Before) /\ (Past' <=> Past) /\ (During' <=> During)
    BY <2>1, Zenon DEF Before, Past, During
  <2>3. \A i \in Digits : registers[i] \in Values
    BY <1>1, Zenon DEF RtcTypeOK
  <2>4. \A i \in Digits : uip = {} => registers[i] = Shown(seconds)[i]
    BY <1>1, Zenon DEF RegistersShow
  <2>5. CASE rtc_pc = "a"
    <3> DEFINE v == registers[Len(snap_a) + 1]
    <3>1. Len(snap_a) < Registers /\ snap_a' = Append(snap_a, v) /\ snap_b' = snap_b /\ snap_b = <<>>
      BY <1>6, <2>1, <2>5, Zenon DEF read_register, TurnOK
    <3>2. snap_a \in Seq(Values) /\ Len(snap_a) + 1 \in Digits
      BY <1>1, <3>1, RtcAssumption, SMTT(30) DEF RtcTypeOK, Digits
    <3>3. v \in Values
      BY <2>3, <3>2, Zenon
    <3> HIDE DEF v
    <3>4. \A t : Shows(snap_a, t) /\ v = Shown(t)[Len(snap_a) + 1] => Shows(Append(snap_a, v), t)
      BY <3>1, <3>2, <3>3, OneMore, Zenon
    <3>5. Before => v = Shown(rtc_start)[Len(snap_a) + 1]
      BY <2>4, <3>2, Zenon DEF Before, v
    <3>6. Before => Shows(snap_a', rtc_start) /\ Shows(snap_b', rtc_start)
      BY <2>1, <3>1, <3>4, <3>5, Zenon DEF TurnOK
    <3> QED
      BY <1>1, <2>1, <2>2, <2>5, <3>1, <3>6, Zenon DEF TurnOK
  <2>6. CASE rtc_pc = "b"
    <3> DEFINE v == registers[Len(snap_b) + 1]
    <3>1. Len(snap_b) < Registers /\ snap_b' = Append(snap_b, v) /\ snap_a' = snap_a
      BY <1>6, <2>6, Zenon DEF read_register
    <3>2. snap_b \in Seq(Values) /\ Len(snap_b) + 1 \in Digits
      BY <1>1, <3>1, RtcAssumption, SMTT(30) DEF RtcTypeOK, Digits
    <3>3. v \in Values
      BY <2>3, <3>2, Zenon
    <3> HIDE DEF v
    <3>4. \A t : Shows(snap_b, t) /\ v = Shown(t)[Len(snap_b) + 1] => Shows(Append(snap_b, v), t)
      BY <3>1, <3>2, <3>3, OneMore, Zenon
    <3>5. /\ Before => v = Shown(rtc_start)[Len(snap_b) + 1]
          /\ Past => v = Shown(rtc_start + 1)[Len(snap_b) + 1]
      BY <2>4, <3>2, Zenon DEF Before, Past, v
    <3>6. Before => Shows(snap_a', rtc_start) /\ Shows(snap_b', rtc_start)
      BY <2>1, <3>1, <3>4, <3>5, Zenon DEF TurnOK
    <3>7. Shows(snap_a', rtc_start) \/ (Past /\ Shows(snap_b', rtc_start + 1))
      BY <2>1, <2>6, <3>1, <3>4, <3>5, Zenon DEF TurnOK
    <3> QED
      BY <1>1, <2>1, <2>2, <2>6, <3>1, <3>6, <3>7, Zenon DEF TurnOK
  <2> QED
    BY <1>6, <2>5, <2>6, Zenon DEF read_register
<1>7. CASE read_hours
  <2>1. /\ TurnOK /\ UNCHANGED <<seconds, uip, snap_a, snap_b, rtc_start, updates, rtc_time>>
        /\ \/ rtc_pc = "a" /\ Len(snap_a) = Registers
           \/ rtc_pc = "b" /\ Len(snap_b) = Registers
    BY <1>1, <1>7, Zenon DEF read_hours, InTurn
  <2>2. (Before' <=> Before) /\ (Past' <=> Past) /\ (During' <=> During)
    BY <2>1, Zenon DEF Before, Past, During
  <2>3. rtc_pc' = "panic" \/ rtc_pc' = IF rtc_pc = "a" THEN "check_b" ELSE "compare"
    BY <1>7, Zenon DEF read_hours
  <2>4. CASE rtc_pc' = "panic"
    BY <1>1, <2>1, <2>4, Zenon DEF InTurn
  <2>5. CASE rtc_pc = "a" /\ rtc_pc' = "check_b"
    BY <1>1, <2>1, <2>2, <2>5, Zenon DEF TurnOK
  <2>6. CASE rtc_pc = "b" /\ rtc_pc' = "compare"
    BY <1>1, <2>1, <2>2, <2>6, Zenon DEF TurnOK
  <2> QED
    BY <2>1, <2>3, <2>4, <2>5, <2>6, Zenon
<1>8. CASE compare_snapshots
  <2>1. TurnOK /\ UNCHANGED <<seconds, registers, uip>>
    BY <1>1, <1>8, Zenon DEF compare_snapshots, InTurn
  <2>2. CASE snap_a # snap_b
    BY <1>8, <2>1, <2>2, EnterTurn, Zenon DEF compare_snapshots, TurnOK
  <2>3. CASE snap_a = snap_b
    BY <1>1, <1>8, <2>1, <2>3, Zenon DEF compare_snapshots, InTurn
  <2> QED
    BY <2>2, <2>3, Zenon
<1> QED
  BY <1>2, <1>3, <1>4, <1>5, <1>6, <1>7, <1>8, Zenon DEF RtcNext, RtcReader

LEMMA TimeStep ==
    ASSUME RtcInv, RtcNext
    PROVE  TimeOK'
<1>1. RtcTypeOK /\ rtc_start <= seconds /\ TimeOK /\ (InTurn => TurnOK)
  BY Zenon DEF RtcInv
<1>2. ASSUME rtc_time' = <<>>
      PROVE  TimeOK'
  BY <1>2, Zenon DEF TimeOK
<1>3. ASSUME UNCHANGED <<rtc_time, rtc_start>>
      PROVE  TimeOK'
  <2>1. seconds \in Nat /\ seconds' \in Nat /\ seconds' >= seconds /\ rtc_start \in Nat
    BY <1>1, RtcTypeStep, RegistersStep, Zenon DEF RtcTypeOK
  <2>2. \A a, m, n \in Nat : m <= n => \A t \in a..m + 1 : t \in a..n + 1
    BY SMTT(30)
  <2>3. seconds <= seconds'
    BY <2>1, SMTT(30)
  <2> QED
    BY <1>1, <1>3, <2>1, <2>2, <2>3, Zenon DEF TimeOK
<1>4. CASE clock_begin \/ clock_write
  BY <1>3, <1>4, Zenon DEF clock_begin, clock_write
<1>5. CASE get_current_time
  BY <1>2, <1>5, Zenon DEF get_current_time
<1>6. CASE is_update_in_progress \/ read_register \/ read_hours
  BY <1>1, <1>2, <1>6, Zenon DEF is_update_in_progress, read_register, read_hours, InTurn, TurnOK
<1>7. CASE compare_snapshots
  <2>1. TurnOK /\ rtc_pc = "compare"
    BY <1>1, <1>7, Zenon DEF compare_snapshots, InTurn
  <2>2. CASE snap_a # snap_b
    BY <1>2, <1>7, <2>1, <2>2, Zenon DEF compare_snapshots, TurnOK
  <2>3. CASE snap_a = snap_b
    <3>1. rtc_time' = snap_a /\ UNCHANGED <<rtc_start, seconds>>
      BY <1>7, <2>3, Zenon DEF compare_snapshots
    <3>2. snap_a \in Seq(Values) /\ Len(snap_a) = Registers
      BY <1>1, <2>1, Zenon DEF TurnOK, RtcTypeOK
    <3>3. Shows(snap_a, rtc_start) \/ (seconds = rtc_start + 1 /\ Shows(snap_a, rtc_start + 1))
      BY <2>1, <2>3, Zenon DEF TurnOK, Past
    <3>4. rtc_start \in rtc_start..seconds + 1 /\ (seconds = rtc_start + 1 => rtc_start + 1 \in rtc_start..seconds + 1)
      BY <1>1, SMTT(30) DEF RtcTypeOK
    <3>5. \E t \in rtc_start..seconds + 1 : snap_a = Shown(t)
      BY <3>2, <3>3, <3>4, CompleteSnapshot, Zenon
    <3> QED
      BY <3>1, <3>5, Zenon DEF TimeOK
  <2> QED
    BY <2>2, <2>3, Zenon
<1> QED
  BY <1>4, <1>5, <1>6, <1>7, Zenon DEF RtcNext, RtcReader

(* Mode::to_bin and HoursMode::to_24h give back the hour, in the formats   *)
(* other than packed decimal with 12 hours.                                *)
LEMMA HourConverted ==
    ASSUME ConfigOK, config # [mode |-> "Bcd", hours |-> 12]
    PROVE  /\ to_24h(to_bin(hour_register)) = hour
           /\ config.hours = 12 => to_bin(hour_register) % 128 \in 1..12
<1>1. hour \in 0..23 /\ config \in [mode : {"Binary", "Bcd"}, hours : {12, 24}]
  BY RtcAssumption, Zenon DEF ConfigOK
<1>2. config.mode = "Binary" \/ (config.mode = "Bcd" /\ config.hours = 24)
  BY <1>1, SMTT(30)
<1>3. CASE config.mode = "Binary" /\ config.hours = 24
  <2>1. hour_register = hour
    BY <1>1, <1>3, SMTT(30) DEF hour_register
  <2> QED
    BY <1>3, <2>1, SMTT(30) DEF to_24h, to_bin
<1>4. CASE config.mode = "Binary" /\ config.hours = 12
  <2>1. CASE hour >= 12
    <3>1. hour \in 12..23
      BY <1>1, <2>1, SMTT(30)
    <3>2. hour % 12 = hour - 12
      BY <3>1, SMTT(30)
    <3>3. hour_register = (IF hour = 12 THEN 12 ELSE hour - 12) + 128
      BY <1>4, <2>1, <3>1, <3>2, SMTT(30) DEF hour_register
    <3>4. to_bin(hour_register) = hour_register
      BY <1>4, SMTT(30) DEF to_bin
    <3>5. \A v \in 128..255 : v % 128 = v - 128
      BY SMTT(30)
    <3>6. hour_register \in 129..140 /\ hour_register % 128 = (IF hour = 12 THEN 12 ELSE hour - 12)
      BY <3>1, <3>3, <3>5, SMTT(30)
    <3>7. to_24h(hour_register) = IF hour_register % 128 = 12 THEN 12 ELSE (hour_register % 128) + 12
      BY <1>4, <3>6, SMTT(30) DEF to_24h
    <3>8. to_24h(hour_register) = hour /\ hour_register % 128 \in 1..12
      BY <3>1, <3>6, <3>7, SMTT(30)
    <3> QED
      BY <3>4, <3>8, Zenon
  <2>2. CASE ~(hour >= 12)
    <3>1. hour \in 0..11
      BY <1>1, <2>2, SMTT(30)
    <3>2. hour % 12 = hour
      BY <3>1, SMTT(30)
    <3>3. hour_register = IF hour = 0 THEN 12 ELSE hour
      BY <1>4, <2>2, <3>1, <3>2, SMTT(30) DEF hour_register
    <3>4. to_bin(hour_register) = hour_register
      BY <1>4 DEF to_bin
    <3>5. \A v \in 0..127 : v % 128 = v
      BY SMTT(30)
    <3>6. hour_register \in 1..12 /\ hour_register % 128 = hour_register
      BY <3>1, <3>3, <3>5, SMTT(30)
    <3>7. to_24h(hour_register) = IF hour_register = 12 THEN 0 ELSE hour_register
      BY <1>4, <3>6, SMTT(30) DEF to_24h
    <3>8. to_24h(hour_register) = hour
      BY <3>1, <3>3, <3>7, SMTT(30)
    <3> QED
      BY <3>4, <3>6, <3>8, Zenon
  <2> QED
    BY <2>1, <2>2, Zenon
<1>5. CASE config.mode = "Bcd" /\ config.hours = 24
  <2>1. hour_register = ((hour \div 10) * 16) + (hour % 10)
    BY <1>1, <1>5, SMTT(30) DEF hour_register
  <2>2. hour \div 10 \in 0..2 /\ hour % 10 \in 0..9 /\ hour = 10 * (hour \div 10) + (hour % 10)
    BY <1>1, SMTT(30)
  <2>3. \A q \in 0..2, r \in 0..9 : ((q * 16) + r) \div 16 = q /\ ((q * 16) + r) % 16 = r
    <3>1. \A r \in 0..9 : r \div 16 = 0 /\ r % 16 = r
      BY SMTT(30)
    <3>2. \A r \in 0..9 : (16 + r) \div 16 = 1 /\ (16 + r) % 16 = r
      BY SMTT(30)
    <3>3. \A r \in 0..9 : (32 + r) \div 16 = 2 /\ (32 + r) % 16 = r
      BY SMTT(30)
    <3> QED
      BY <3>1, <3>2, <3>3, SMTT(30)
  <2>4. hour_register \div 16 = hour \div 10 /\ hour_register % 16 = hour % 10
    BY <2>1, <2>2, <2>3, Zenon
  <2>5. \A q \in 0..2 : ((q * 16) \div 2) + ((q * 16) \div 8) = 10 * q
    BY SMTT(30)
  <2>6. to_bin(hour_register) = hour
    BY <1>5, <2>2, <2>4, <2>5, SMTT(30) DEF to_bin
  <2> QED
    BY <1>5, <2>6, SMTT(30) DEF to_24h
<1> QED
  BY <1>1, <1>2, <1>3, <1>4, <1>5, SMTT(30)

LEMMA HoursStep ==
    ASSUME RtcInv, RtcNext, config # [mode |-> "Bcd", hours |-> 12]
    PROVE  rtc_pc' # "panic" /\ (HourRead' => rtc_hour' = hour')
<1>1. ConfigOK /\ rtc_pc # "panic" /\ (HourRead => rtc_hour = hour)
  BY Zenon DEF RtcInv
<1>2. CASE read_hours
  <2>1. /\ rtc_hour' = to_24h(to_bin(hour_register)) /\ hour' = hour
        /\ rtc_pc' = IF config.hours = 12 /\ to_bin(hour_register) % 128 \notin 1..12 THEN "panic"
                     ELSE IF rtc_pc = "a" THEN "check_b" ELSE "compare"
    BY <1>2, Zenon DEF read_hours
  <2> QED
    BY <1>1, <2>1, HourConverted, Zenon
<1>3. CASE compare_snapshots
  <2>1. rtc_hour = hour /\ rtc_hour < 24 /\ UNCHANGED hourVars
    BY <1>1, <1>3, RtcAssumption, SMTT(30) DEF compare_snapshots, HourRead, ConfigOK
  <2> QED
    BY <1>3, <2>1, Zenon DEF compare_snapshots, Enter, hourVars
<1>4. CASE clock_begin \/ clock_write \/ get_current_time \/ is_update_in_progress \/ read_register
  <2>1. UNCHANGED hourVars
    BY <1>4, Zenon DEF clock_begin, clock_write, get_current_time, is_update_in_progress, read_register
  <2>2. rtc_pc' # "panic" /\ (HourRead' => HourRead)
    BY <1>1, <1>4, Zenon DEF clock_begin, clock_write, get_current_time, is_update_in_progress, read_register,
                             Enter, HourRead
  <2> QED
    BY <1>1, <2>1, <2>2, Zenon DEF hourVars
<1> QED
  BY <1>2, <1>3, <1>4, Zenon DEF RtcNext, RtcReader

LEMMA RtcInductive ==
    ASSUME RtcInv, [RtcNext]_rtcVars
    PROVE  RtcInv'
<1>1. CASE RtcNext
  <2>1. UNCHANGED <<config, hour>>
    BY <1>1, Zenon DEF RtcNext, RtcReader, clock_begin, clock_write, get_current_time, is_update_in_progress,
                       read_register, read_hours, compare_snapshots, hourVars
  <2> QED
    BY <1>1, <2>1, RtcTypeStep, RegistersStep, TurnStep, TimeStep, HoursStep, Zenon DEF RtcInv, ConfigOK
<1>2. CASE UNCHANGED rtcVars
  BY <1>2, ZenonT(30) DEF RtcInv, rtcVars, RtcTypeOK, RegistersShow, InTurn, TurnOK, TimeOK, ConfigOK, HourRead,
                     Before, During, Past, Shows
<1> QED
  BY <1>1, <1>2, Zenon

(***************************************************************************)
(* get_current_time never returns a mixture of the registers of two        *)
(* seconds, and the hour it returns is the hour of the day, whatever the   *)
(* number of registers, wherever the clock's writes fall and however often *)
(* the loop starts over: the check of the flag before each snapshot and    *)
(* the comparison of the two are enough.                                   *)
(***************************************************************************)
THEOREM RtcTimeNotTorn == RtcSpec => []TimeNotTorn
<1>1. RtcInit => RtcInv
  BY RtcInitial, Zenon
<1>2. RtcInv /\ [RtcNext]_rtcVars => RtcInv'
  BY RtcInductive, Zenon
<1>3. RtcInv => TimeNotTorn
  BY Zenon DEF RtcInv, TimeNotTorn, HoursConverted, TimeOK, HourRead
<1> QED
  BY <1>1, <1>2, <1>3, PTL DEF RtcSpec

=============================================================================
