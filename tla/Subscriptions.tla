--------------------------- MODULE Subscriptions ----------------------------
(***************************************************************************)
(* Topics, topic filters and the list of subscriptions with its exclusion  *)
(* rule (src/ipc/topic.rs, src/ipc/list.rs).                               *)
(*                                                                         *)
(* A topic name is a sequence of characters.  Characters are numbers in    *)
(* their order; Slash is the one that topic names may not start or end     *)
(* with.  A list value has the fields of the Rust struct; an element of    *)
(* targets is a record [filter, reliable, id].                             *)
(***************************************************************************)
EXTENDS Integers, Sequences, FiniteSets

CONSTANTS
  Chars,             \* the characters names are made of
  Slash,             \* the separator, one of them
  MaxName            \* longest name of a filter; topics are up to one longer

ASSUME NamesAssumption ==
  Chars \subseteq Nat /\ Slash \in Chars /\ MaxName \in Nat

Names(max) == UNION {[1 .. n -> Chars] : n \in 1 .. max}

(* Topic::new and TopicPrefix::new accept these names. *)
ValidTopic(s) == s # <<>> /\ s[1] # Slash /\ s[Len(s)] # Slash
ValidPrefix(s) == s # <<>> /\ s[1] # Slash

Topics == {s \in Names(MaxName + 1) : ValidTopic(s)}
Exact(s) == [kind |-> "Exact", name |-> s]
Prefix(s) == [kind |-> "Prefix", name |-> s]
Filters == {Exact(s) : s \in {n \in Names(MaxName) : ValidTopic(n)}} \cup
           {Prefix(s) : s \in {n \in Names(MaxName) : ValidPrefix(n)}}

starts_with(s, p) == Len(p) <= Len(s) /\ \A i \in 1 .. Len(p) : s[i] = p[i]

(* Mutant: a prefix is not compared with longer names.                     *)
contains_filter_one_way(f, g) ==
  \/ f.kind = "Exact" /\ g.kind = "Exact" /\ f.name = g.name
  \/ g.kind = "Prefix" /\ starts_with(f.name, g.name)

(* Mutant: an exact filter is treated like a prefix.                       *)
contains_filter_prefixes(f, g) ==
  starts_with(f.name, g.name) \/ starts_with(g.name, f.name)

contains_filter(f, g) ==
  \/ f.kind = "Exact" /\ g.kind = "Exact" /\ f.name = g.name
  \/ g.kind = "Prefix" /\ starts_with(f.name, g.name)
  \/ f.kind = "Prefix" /\ starts_with(g.name, f.name)

matches(f, t) == IF f.kind = "Exact" THEN f.name = t ELSE starts_with(t, f.name)

-----------------------------------------------------------------------------
(* The derived order of the elements of targets: variant, name, reliable,  *)
(* id.                                                                     *)

NameLess(a, b) ==
  \E i \in 1 .. Len(b) :
    /\ Len(a) >= i - 1 /\ \A j \in 1 .. i - 1 : a[j] = b[j]
    /\ Len(a) < i \/ a[i] < b[i]

TargetLess(x, y) ==
  \/ x.filter.kind = "Exact" /\ y.filter.kind = "Prefix"
  \/ /\ x.filter.kind = y.filter.kind
     /\ \/ NameLess(x.filter.name, y.filter.name)
        \/ /\ x.filter.name = y.filter.name
           /\ \/ ~x.reliable /\ y.reliable
              \/ x.reliable = y.reliable /\ x.id < y.id

List_new == [targets |-> <<>>, next_subscription_id |-> 0]

(* Mutant: two reliable subscriptions do not exclude each other.           *)
conflicts_mixed_only(l, f, r) ==
  \E i \in 1 .. Len(l.targets) :
    r # l.targets[i].reliable /\ contains_filter(f, l.targets[i].filter)

conflicts(l, f, r) ==
  \E i \in 1 .. Len(l.targets) :
    \/ r /\ contains_filter(f, l.targets[i].filter)
    \/ l.targets[i].reliable /\ contains_filter(l.targets[i].filter, f)

(* insert, when there is no conflict: binary_search yields the number of   *)
(* smaller elements.                                                       *)
insert(l, f, r) ==
  LET v == [filter |-> f, reliable |-> r, id |-> l.next_subscription_id]
      n == Cardinality({i \in 1 .. Len(l.targets) : TargetLess(l.targets[i], v)})
  IN  [targets |-> [i \in 1 .. Len(l.targets) + 1 |->
                      IF i <= n THEN l.targets[i]
                      ELSE IF i = n + 1 THEN v
                      ELSE l.targets[i - 1]],
       next_subscription_id |-> l.next_subscription_id + 1]

(* retain: ids are not repeated, so at most one element is dropped.        *)
remove(l, id) ==
  LET n  == Len(l.targets)
      at == {i \in 1 .. n : l.targets[i].id = id}
      k  == CHOOSE i \in at : TRUE
  IN  IF at = {} THEN l
      ELSE [targets |-> [i \in 1 .. n - 1 |->
                           IF i < k THEN l.targets[i] ELSE l.targets[i + 1]],
            next_subscription_id |-> l.next_subscription_id]

(* remove for each id of S: the elements that stay, in their order.        *)
retain(l, S) ==
  LET keep   == {i \in 1 .. Len(l.targets) : l.targets[i].id \notin S}
      nth(n) == CHOOSE i \in keep : Cardinality({j \in keep : j <= i}) = n
  IN  [targets |-> [n \in 1 .. Cardinality(keep) |-> l.targets[nth(n)]],
       next_subscription_id |-> l.next_subscription_id]

find_all(l, t, r) ==
  {l.targets[i].id : i \in {j \in 1 .. Len(l.targets) :
                              l.targets[j].reliable = r /\ matches(l.targets[j].filter, t)}}
=============================================================================
