----------------------------- MODULE IpcManager -----------------------------
(***************************************************************************)
(* The IPC manager (src/ipc/mod.rs, src/ipc/event_queue.rs) and the kernel *)
(* service behind it (src/services).  A manager value m is a record with   *)
(* the fields of the Rust struct.  A mailbox is a record:                  *)
(*   kernel     the mailbox is None in the code: a kernel service reads it *)
(*   queue      the messages, oldest first; a message is [topic, ack]      *)
(*   event      whether an event to trigger on the next push is registered *)
(*   pipe_mode  PipeMode, and peer the process it is ConnectedTo           *)
(*                                                                         *)
(* Event ids come from a counter and are never reused, so an event is      *)
(* identified by what it is for: the next message of a mailbox, or the     *)
(* acknowledgement of a message.  Payloads are left out.                   *)
(*                                                                         *)
(* Every operation yields a record: m, the manager afterwards; res, "ok",  *)
(* an error, "wait" or "panic"; events, the set of events to trigger; and  *)
(* wait, the events to wait for before the call is repeated.               *)
(***************************************************************************)
EXTENDS Subscriptions, Functions

CONSTANTS
  None,                   \* Option::None
  MAILBOX_BUFFER_LIMIT

ASSUME IpcAssumption == MAILBOX_BUFFER_LIMIT \in Nat \ {0}

MailboxEvent(s) == <<"mailbox", s>>
SenderEvent(a) == <<"sender", a>>

Result(m, res, events) == [m |-> m, res |-> res, events |-> events, wait |-> {}]
Wait(m, wait, events) == [m |-> m, res |-> "wait", events |-> events, wait |-> wait]
Panic(m) == Result(m, "panic", {})

Mailbox(kernel, queue, event, mode, peer) ==
  [kernel |-> kernel, queue |-> queue, event |-> event, pipe_mode |-> mode, peer |-> peer]
Mailbox_new(mode) == Mailbox(FALSE, <<>>, FALSE, mode, None)
KernelMailbox == Mailbox(TRUE, <<>>, FALSE, "None", None)

Manager_new == [subscriptions         |-> List_new,
                mailboxes             |-> <<>>,
                waiting_for_delivery  |-> <<>>,
                delivery_result       |-> <<>>,
                next_acknowledge_id   |-> 0,
                process_subscriptions |-> <<>>]

(* The map f with x mapped to v. *)
Put(f, x, v) == [y \in DOMAIN f \cup {x} |-> IF y = x THEN v ELSE f[y]]
Drop(f, S) == Restrict(f, DOMAIN f \ S)

Owned(m, pid) ==
  IF pid \in DOMAIN m.process_subscriptions THEN m.process_subscriptions[pid] ELSE {}
process_owns(m, pid, s) == s \in Owned(m, pid)

-----------------------------------------------------------------------------
(* Subscribing                                                             *)

AddMailbox(m, filter, reliable, mailbox) ==
  [m EXCEPT !.subscriptions = insert(m.subscriptions, filter, reliable),
            !.mailboxes = Put(@, m.subscriptions.next_subscription_id, mailbox)]

subscribe(m, pid, filter, reliable, pipe) ==
  LET id == m.subscriptions.next_subscription_id
      added == AddMailbox(m, filter, reliable,
                          Mailbox_new(IF pipe THEN "NotConnected" ELSE "None"))
  IN  IF conflicts(m.subscriptions, filter, reliable)
      THEN Result(m, "Exclusion", {})
      ELSE Result([added EXCEPT !.process_subscriptions =
                     Put(@, pid, Owned(m, pid) \cup {id})], "ok", {})

kernel_subscribe(m, filter) == AddMailbox(m, filter, TRUE, KernelMailbox)

(* The acknowledge ids of the messages that wait in the mailboxes S. *)
QueuedAcks(m, S) ==
  (UNION {{m.mailboxes[s].queue[i].ack : i \in DOMAIN m.mailboxes[s].queue} : s \in S}) \ {None}

(* Mutant: senders of the messages in a dropped mailbox are forgotten.     *)
force_unsubscribe_forgets(m, S) ==
  Result([m EXCEPT !.mailboxes = Drop(@, S), !.subscriptions = retain(@, S)], "ok", {})

(* _force_unsubscribe of each subscription of S: the senders of the        *)
(* messages that were not received yet are released with an error.         *)
force_unsubscribe(m, S) ==
  LET acks    == QueuedAcks(m, S)
      senders == {m.waiting_for_delivery[a].pid : a \in acks}
  IN  IF \/ ~(S \subseteq DOMAIN m.mailboxes)
         \/ ~(acks \subseteq DOMAIN m.waiting_for_delivery)
      THEN Panic(m)
      ELSE Result([m EXCEPT
             !.subscriptions = retain(@, S),
             !.mailboxes = Drop(@, S),
             !.waiting_for_delivery = Drop(@, acks),
             !.delivery_result = [p \in DOMAIN @ \cup senders |->
                                    IF p \in senders THEN "NoSubscriber" ELSE @[p]]],
             "ok", {SenderEvent(a) : a \in acks})

(* Mutant: the process stays the owner.                                    *)
unsubscribe_keeps_owner(m, pid, s) ==
  IF ~process_owns(m, pid, s) THEN Result(m, "NotOwner", {})
  ELSE force_unsubscribe(m, {s})

unsubscribe(m, pid, s) ==
  IF ~process_owns(m, pid, s)
  THEN Result(m, "NotOwner", {})
  ELSE force_unsubscribe([m EXCEPT !.process_subscriptions =
                            Put(@, pid, Owned(m, pid) \ {s})], {s})

-----------------------------------------------------------------------------
(* Sending                                                                 *)

Full(m, s) == Len(m.mailboxes[s].queue) >= MAILBOX_BUFFER_LIMIT

(* EventQueue::push on mailboxes S that are not full: append the message   *)
(* and take the event.                                                     *)
Pushed(box, message) ==
  Mailbox(box.kernel, Append(box.queue, message), FALSE, box.pipe_mode, box.peer)
push(m, S, message) ==
  [m EXCEPT !.mailboxes = [s \in DOMAIN @ |-> IF s \in S THEN Pushed(@[s], message) ELSE @[s]]]

PushEvents(m, S) == {MailboxEvent(s) : s \in {x \in S : m.mailboxes[x].event}}

publish(m, topic) ==
  LET subs == find_all(m.subscriptions, topic, FALSE)
      room == {s \in subs : ~Full(m, s)}
  IN  IF \E s \in subs : m.mailboxes[s].kernel \/ m.mailboxes[s].pipe_mode # "None"
      THEN Panic(m)
      ELSE Result(push(m, room, [topic |-> topic, ack |-> None]), "ok",
                  PushEvents(m, room))

(* A reply goes to the queue of a process without an acknowledge id.       *)
PushReply(m, s, topic) ==
  IF Full(m, s)
  THEN Result(m, "QueueFull", {})
  ELSE Result(push(m, {s}, [topic |-> topic, ack |-> None]), "ok", PushEvents(m, {s}))

deliver_reply(m, topic) ==
  LET all == find_all(m.subscriptions, topic, TRUE)
      s   == CHOOSE x \in all : TRUE
  IN  IF all = {} THEN Result(m, "NoSubscriber", {})
      ELSE IF Cardinality(all) # 1 THEN Panic(m)
      ELSE IF m.mailboxes[s].kernel THEN Panic(m)
      ELSE IF m.mailboxes[s].pipe_mode # "None" THEN Panic(m)
      ELSE PushReply(m, s, topic)

kernel_deliver_reply(m, topic) ==
  LET all == find_all(m.subscriptions, topic, TRUE)
      s   == CHOOSE x \in all : TRUE
      n   == [m EXCEPT !.next_acknowledge_id = @ + 1]
      r   == PushReply(n, s, topic)
  IN  IF all = {} THEN Result(m, "NoSubscriber", {})
      ELSE IF Cardinality(all) # 1 THEN Panic(m)
      ELSE IF m.mailboxes[s].kernel THEN Panic(m)
      ELSE IF m.mailboxes[s].pipe_mode # "None" THEN Panic(m)
      ELSE IF r.events # {} THEN Panic(m)
      ELSE r

(* services::incoming: initrd::read answers to reply_to, or refuses when   *)
(* the topic is invalid or there is no such file (reply_to is None).       *)
incoming(m, reply_to) ==
  IF reply_to = None THEN Result(m, "NegativeAcknowledgement", {})
  ELSE kernel_deliver_reply(m, reply_to)

(* A reliable message into the mailbox of a process, whose pipe accepts it.*)
(* The sender has to wait for SenderEvent(ack).                            *)
PushReliable(m, s, pid, topic, ack) ==
  IF Full(m, s)
  THEN Result(m, "QueueFull", {})
  ELSE Wait([push(m, {s}, [topic |-> topic, ack |-> ack]) EXCEPT
               !.waiting_for_delivery = Put(@, ack, [event |-> SenderEvent(ack), pid |-> pid])],
            {SenderEvent(ack)}, PushEvents(m, {s}))

(* The pipe of mailbox s is reserved for the process.                      *)
Connected(box, pid) == Mailbox(box.kernel, box.queue, box.event, "ConnectedTo", pid)
Connect(m, s, pid) ==
  [m EXCEPT !.mailboxes = [@ EXCEPT ![s] = Connected(m.mailboxes[s], pid)]]

(* Mutant: any process may write to a connected pipe.                      *)
deliver_shared_pipe(m, pid, topic, reply_to) ==
  LET all == find_all(m.subscriptions, topic, TRUE)
      s   == CHOOSE x \in all : TRUE
      ack == m.next_acknowledge_id
      n   == [m EXCEPT !.next_acknowledge_id = @ + 1]
      box == m.mailboxes[s]
  IN  IF all = {} THEN Result(m, "NoSubscriber", {})
      ELSE IF box.kernel THEN incoming(n, reply_to)
      ELSE IF box.pipe_mode = "NotConnected"
      THEN PushReliable(Connect(n, s, pid), s, pid, topic, ack)
      ELSE PushReliable(n, s, pid, topic, ack)

deliver(m, pid, topic, reply_to) ==
  LET all == find_all(m.subscriptions, topic, TRUE)
      s   == CHOOSE x \in all : TRUE
      ack == m.next_acknowledge_id
      n   == [m EXCEPT !.next_acknowledge_id = @ + 1]
      box == m.mailboxes[s]
  IN  IF all = {} THEN Result(m, "NoSubscriber", {})
      ELSE IF Cardinality(all) # 1 THEN Panic(m)
      ELSE IF box.kernel THEN incoming(n, reply_to)
      ELSE CASE box.pipe_mode = "None" -> PushReliable(n, s, pid, topic, ack)
             [] box.pipe_mode = "NotConnected" ->
                  PushReliable(Connect(n, s, pid), s, pid, topic, ack)
             [] box.pipe_mode = "ConnectedTo" ->
                  IF box.peer # pid THEN Result(n, "PipeReserved", {})
                  ELSE PushReliable(n, s, pid, topic, ack)
             [] box.pipe_mode = "Disconnected" -> Result(n, "PipeReserved", {})

delivery_complete(m, pid) == pid \in DOMAIN m.delivery_result
after_delivery(m, pid) ==
  Result([m EXCEPT !.delivery_result = Drop(@, {pid})], m.delivery_result[pid], {})

-----------------------------------------------------------------------------
(* Receiving                                                               *)

(* EventQueue::get_event of mailboxes S: each has an event afterwards.     *)
WithEvent(box) == Mailbox(box.kernel, box.queue, TRUE, box.pipe_mode, box.peer)
GetEvents(m, S) ==
  [m EXCEPT !.mailboxes = [s \in DOMAIN @ |-> IF s \in S THEN WithEvent(@[s]) ELSE @[s]]]

(* EventQueue::pop on mailbox s, which has a message.                      *)
Popped(box) == Mailbox(box.kernel, Tail(box.queue), box.event, box.pipe_mode, box.peer)
pop(m, s) == [m EXCEPT !.mailboxes = [@ EXCEPT ![s] = Popped(m.mailboxes[s])]]

(* Mutant: no event is registered for an empty mailbox.                    *)
receive_without_event(m, pid, s) ==
  IF ~process_owns(m, pid, s) THEN Result(m, "NotOwner", {})
  ELSE IF m.mailboxes[s].queue = <<>> THEN Wait(m, {MailboxEvent(s)}, {})
  ELSE Result(pop(m, s), "ok", {})

receive(m, pid, s) ==
  IF ~process_owns(m, pid, s) THEN Result(m, "NotOwner", {})
  ELSE IF s \notin DOMAIN m.mailboxes THEN Result(m, "Unsubscribed", {})
  ELSE IF m.mailboxes[s].queue = <<>>
  THEN Wait(GetEvents(m, {s}), {MailboxEvent(s)}, {})
  ELSE Result(pop(m, s), "ok", {})

(* waiting_for on the subscriptions of the sequence subs in turn, up to    *)
(* the first that has a message.                                           *)
select(m, subs, blocking) ==
  LET ready == {i \in DOMAIN subs : m.mailboxes[subs[i]].queue # <<>>}
      asked == {subs[i] : i \in {j \in DOMAIN subs : \A k \in ready : j < k}}
      n     == GetEvents(m, asked)
  IN  IF \E i \in DOMAIN subs : subs[i] \notin DOMAIN m.mailboxes THEN Panic(m)
      ELSE IF ready # {} THEN Result(n, "ok", {})
      ELSE IF blocking THEN Wait(n, {MailboxEvent(s) : s \in asked}, {})
      ELSE Result(n, "WouldBlock", {})

(* Mutant: the delivery result is recorded but the sender is not woken.    *)
acknowledge_silent(m, ack, positive) ==
  Result([m EXCEPT !.waiting_for_delivery = Drop(@, {ack}),
                   !.delivery_result = Put(@, m.waiting_for_delivery[ack].pid,
                      IF positive THEN "ok" ELSE "NegativeAcknowledgement")], "ok", {})

acknowledge(m, ack, positive) ==
  IF ack \notin DOMAIN m.waiting_for_delivery
  THEN Panic(m)
  ELSE LET w == m.waiting_for_delivery[ack]
       IN  Result([m EXCEPT !.waiting_for_delivery = Drop(@, {ack}),
                            !.delivery_result = Put(@, w.pid,
                               IF positive THEN "ok" ELSE "NegativeAcknowledgement")],
                  "ok", {w.event})

(* Unsubscribe everything the process has, then disconnect the pipes it    *)
(* writes to.  The events of the two parts are triggered in this order.    *)
PipesOf(m, pid) ==
  {s \in DOMAIN m.mailboxes :
     m.mailboxes[s].pipe_mode = "ConnectedTo" /\ m.mailboxes[s].peer = pid}

Disconnected(box) == Mailbox(box.kernel, box.queue, FALSE, "Disconnected", None)
Disconnect(m, pid) ==
  LET pipes == PipesOf(m, pid)
  IN  Result([m EXCEPT !.mailboxes = [s \in DOMAIN @ |->
                IF s \in pipes THEN Disconnected(@[s]) ELSE @[s]]],
             "ok", PushEvents(m, pipes))

UnsubscribeAll(m, pid) ==
  force_unsubscribe([m EXCEPT !.process_subscriptions = Drop(@, {pid})], Owned(m, pid))
=============================================================================
