-------------------------- MODULE SubscriptionList --------------------------
(***************************************************************************)
(* The list of subscriptions by itself: any filters inserted and removed   *)
(* in any order.                                                           *)
(***************************************************************************)
EXTENDS Subscriptions

CONSTANT MaxSubscriptions   \* bound on the subscription ids handed out

VARIABLE list

-----------------------------------------------------------------------------

ListInit == list = List_new

(* A conflicting filter is refused and leaves the list as it is.           *)
Insert(f, r) ==
  /\ list.next_subscription_id < MaxSubscriptions
  /\ ~conflicts(list, f, r)
  /\ list' = insert(list, f, r)

Unlist(id) == list' = remove(list, id)

ListNext ==
  \/ \E f \in Filters, r \in BOOLEAN : Insert(f, r)
  \/ \E id \in 0 .. MaxSubscriptions - 1 : Unlist(id)

ListSpec == ListInit /\ [][ListNext]_list

-----------------------------------------------------------------------------

IsTarget(x) ==
  /\ x = [filter |-> x.filter, reliable |-> x.reliable, id |-> x.id]
  /\ x.filter \in Filters /\ x.reliable \in BOOLEAN /\ x.id \in Nat

(* The list has the shape of the Rust struct, and every id in it was       *)
(* handed out by the counter of insert.                                    *)
ListTypeOK ==
  /\ list = [targets |-> list.targets, next_subscription_id |-> list.next_subscription_id]
  /\ Len(list.targets) \in Nat
  /\ DOMAIN list.targets = 1 .. Len(list.targets)
  /\ \A i \in 1 .. Len(list.targets) : IsTarget(list.targets[i])
  /\ list.next_subscription_id \in Nat
  /\ \A i \in 1 .. Len(list.targets) : list.targets[i].id < list.next_subscription_id

(* "Reliable subscriptions are mutually exclusive: there cannot be any     *)
(* other endpoint subscribed to the any events matched by this"            *)
(* (Manager::subscribe): when a reliable subscription matches a topic,     *)
(* nothing else does, so deliver never finds "Multiple targets".           *)
ReliableExclusive ==
  \A t \in Topics :
    \A i, j \in 1 .. Len(list.targets) :
      /\ i # j
      /\ matches(list.targets[i].filter, t)
      /\ matches(list.targets[j].filter, t)
      => ~list.targets[i].reliable

(* A filter is refused only where it has to be: some topic would then have *)
(* had a reliable and another subscription.                                *)
RefusedOnlyIfShared ==
  \A f \in Filters, r \in BOOLEAN :
    conflicts(list, f, r) =>
      \E t \in Topics : /\ matches(f, t)
                        /\ \E i \in 1 .. Len(list.targets) :
                             /\ matches(list.targets[i].filter, t)
                             /\ r \/ list.targets[i].reliable

=============================================================================
