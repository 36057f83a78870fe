------------------------- MODULE BookkeepingProofs --------------------------
(***************************************************************************)
(* What the operators behind the bookkeeping return and preserve: queues   *)
(* as sequences, the tables as maps, the places of processes in the        *)
(* scheduler; and the operations of the IPC manager, on unreliable and on  *)
(* reliable messages, acknowledgements, replies and mailbox events,        *)
(* whatever the mailboxes hold and whoever is blocked.                     *)
(***************************************************************************)
EXTENDS KernelBookkeeping, TLAPS

(* Sequences and maps *)

LEMMA SeqFacts ==
  ASSUME NEW q, IsSeq(q)
  PROVE  Len(q) \in Nat /\ DOMAIN q = 1 .. Len(q) /\ (q = <<>> <=> Len(q) = 0)
         /\ q = [i \in 1 .. Len(q) |-> q[i]]
BY DEF IsSeq

LEMMA AppendFacts ==
  ASSUME NEW q, IsSeq(q), NEW x
  PROVE  /\ IsSeq(Append(q, x)) /\ DOMAIN Append(q, x) = DOMAIN q \cup {Len(q) + 1}
         /\ Len(q) + 1 \notin DOMAIN q /\ Len(q) \in Nat /\ Append(q, x) # <<>>
         /\ \A i \in DOMAIN q : Append(q, x)[i] = q[i]
         /\ Append(q, x)[Len(q) + 1] = x
         /\ Range(Append(q, x)) = Range(q) \cup {x}
         /\ IsInjective(q) /\ x \notin Range(q) => IsInjective(Append(q, x))
<1> DEFINE T == Range(q) \cup {x}
           a == Append(q, x)
<1>1. q \in Seq(T) /\ x \in T
  BY DEF IsSeq
<1>2. a \in Seq(T) /\ Len(a) = Len(q) + 1 /\ Len(q) \in Nat
      /\ \A i \in 1 .. Len(q) : a[i] = q[i]
  BY <1>1
<1>3. a[Len(q) + 1] = x
  BY <1>1
<1>4. DOMAIN q = 1 .. Len(q) /\ DOMAIN a = 1 .. Len(q) + 1
  BY <1>1, <1>2
<1> HIDE DEF a
<1>5. DOMAIN a = DOMAIN q \cup {Len(q) + 1} /\ Len(q) + 1 \notin DOMAIN q
  BY <1>2, <1>4
<1>6. Range(a) = T
  BY <1>2, <1>3, <1>4, <1>5 DEF Range
<1>7. IsSeq(a)
  BY <1>2, <1>6, Zenon DEF IsSeq
<1>8. ASSUME IsInjective(q), x \notin Range(q)
      PROVE  IsInjective(a)
  BY <1>2, <1>3, <1>4, <1>5, <1>8, ZenonT(30) DEF IsInjective, Range
<1>9. a # <<>>
  BY <1>2, <1>4
<1> QED
  BY <1>2, <1>3, <1>4, <1>5, <1>6, <1>7, <1>8, <1>9, Zenon DEF a

LEMMA TailFacts ==
  ASSUME NEW q, IsSeq(q), q # <<>>
  PROVE  /\ 1 \in DOMAIN q /\ Head(q) = q[1] /\ IsSeq(Tail(q))
         /\ DOMAIN Tail(q) = 1 .. Len(q) - 1
         /\ \A i \in DOMAIN Tail(q) : i + 1 \in DOMAIN q /\ i + 1 # 1 /\ Tail(q)[i] = q[i + 1]
         /\ \A i \in DOMAIN q : i # 1 => i - 1 \in DOMAIN Tail(q) /\ Tail(q)[i - 1] = q[i]
         /\ Range(q) = Range(Tail(q)) \cup {Head(q)}
         /\ IsInjective(q) => IsInjective(Tail(q)) /\ Head(q) \notin Range(Tail(q))
<1> DEFINE T == Range(q)
           t == Tail(q)
<1>1. q \in Seq(T) /\ Len(q) \in Nat /\ Len(q) # 0 /\ DOMAIN q = 1 .. Len(q)
  BY SeqFacts, Zenon DEF IsSeq
<1>2. t \in Seq(T) /\ Len(t) = Len(q) - 1 /\ Head(q) = q[1]
      /\ \A i \in 1 .. Len(q) - 1 : t[i] = q[i + 1]
  BY <1>1
<1>3. DOMAIN t = 1 .. Len(q) - 1
  BY <1>1, <1>2
<1> HIDE DEF t
<1>4. \A i \in DOMAIN t : i + 1 \in DOMAIN q /\ i + 1 # 1 /\ t[i] = q[i + 1]
  BY <1>1, <1>2, <1>3
<1>5. \A i \in DOMAIN q : i # 1 => i - 1 \in DOMAIN t /\ t[i - 1] = q[i]
  BY <1>1, <1>2, <1>3
<1>6. Range(q) = Range(t) \cup {q[1]} /\ 1 \in DOMAIN q
  BY <1>1, <1>4, <1>5 DEF Range
<1>7. IsSeq(t)
  <2>1. \A i \in 1 .. Len(t) : t[i] \in Range(t)
    BY <1>2, <1>3, Zenon DEF Range
  <2> QED
    BY <1>1, <1>2, <2>1 DEF IsSeq
<1>8. ASSUME IsInjective(q) PROVE IsInjective(t) /\ q[1] \notin Range(t)
  <2>1. \A i, j \in DOMAIN q : q[i] = q[j] => i = j
    BY <1>8, Zenon DEF IsInjective
  <2>2. \A i, j \in DOMAIN t : t[i] = t[j] => i + 1 = j + 1
    BY <1>4, <2>1, Zenon
  <2>3. \A i \in DOMAIN t : q[i + 1] # q[1]
    BY <1>4, <1>6, <2>1, Zenon
  <2>4. \A i, j \in DOMAIN t : t[i] = t[j] => i = j
    BY ONLY <1>1, <1>3, <2>2
  <2>5. IsInjective(t)
    BY <2>4, Zenon DEF IsInjective
  <2>6. \A i \in DOMAIN t : t[i] # q[1]
    BY <1>4, <2>3, Zenon
  <2> QED
    BY <2>5, <2>6, Zenon DEF Range
<1> QED
  BY <1>2, <1>3, <1>4, <1>5, <1>6, <1>7, <1>8, Zenon DEF t

LEMMA WakeFacts ==
  ASSUME NEW blk, IsMap(blk), NEW E
  PROVE  /\ IsMap(Wake(blk, E)) /\ DOMAIN Wake(blk, E) = DOMAIN blk \ WaitingFor(blk, E)
         /\ \A p \in DOMAIN Wake(blk, E) : /\ p \in DOMAIN blk
                                           /\ Wake(blk, E)[p] = blk[p]
                                           /\ blk[p] \cap E = {}
         /\ \A p \in DOMAIN blk : p \in DOMAIN Wake(blk, E) <=> blk[p] \cap E = {}
BY Zenon DEF Wake, WaitingFor, Drop, Restrict, IsMap

-----------------------------------------------------------------------------
(* The manager                                                             *)

LEMMA EventFacts ==
  /\ \A s, t : MailboxEvent(s) = MailboxEvent(t) => s = t
  /\ \A a, b : SenderEvent(a) = SenderEvent(b) => a = b
  /\ \A s, a : MailboxEvent(s) # SenderEvent(a)
BY Zenon DEF MailboxEvent, SenderEvent

(* From m to n the messages that wait for an acknowledgement stay where    *)
(* they are.                                                               *)
SameMail(m, n) ==
  /\ n.waiting_for_delivery = m.waiting_for_delivery
  /\ n.delivery_result = m.delivery_result
  /\ n.next_acknowledge_id >= m.next_acknowledge_id
  /\ Boxes(m) \subseteq Boxes(n)
  /\ \A s \in Boxes(n) : \A i \in Slots(n, s) : AckAt(n, s, i) # None =>
       s \in Boxes(m) /\ i \in Slots(m, s) /\ AckAt(m, s, i) = AckAt(n, s, i)
  /\ \A s \in Boxes(m) : \A i \in Slots(m, s) : AckAt(m, s, i) # None =>
       i \in Slots(n, s) /\ AckAt(n, s, i) = AckAt(m, s, i)

(* The events E are those of all mailboxes that a process may no longer    *)
(* wait for.                                                               *)
AllHear(m, n, E) ==
  /\ NextId(n) >= NextId(m)
  /\ \A s \in Boxes(n) \ Boxes(m) : s >= NextId(m)
  /\ \A s \in Boxes(m) \cap Boxes(n) :
       \/ MailboxEvent(s) \in E
       \/ Box(m, s).queue # <<>>
       \/ ~Box(m, s).event
       \/ Box(n, s).queue = <<>> /\ Box(n, s).event
  /\ \A a : SenderEvent(a) \notin E

LEMMA FrameAcks ==
  ASSUME NEW m, NEW n, NEW hld, ManagerOK(m), ManagerOK(n), AcksOK(m, hld), SameMail(m, n)
  PROVE  AcksOK(n, hld)
<1> USE KernelAssumption
<1> DEFINE w == m.waiting_for_delivery
<1>1. n.waiting_for_delivery = w
  BY Zenon DEF SameMail
<1>2. m.next_acknowledge_id \in Nat /\ n.next_acknowledge_id \in Nat
      /\ n.next_acknowledge_id >= m.next_acknowledge_id
  BY Zenon DEF ManagerOK, SameMail
<1>3. /\ \A s \in Boxes(n) : \A i \in Slots(n, s) : AckAt(n, s, i) # None =>
            s \in Boxes(m) /\ i \in Slots(m, s) /\ AckAt(m, s, i) = AckAt(n, s, i)
      /\ \A s \in Boxes(m) : \A i \in Slots(m, s) : AckAt(m, s, i) # None =>
            s \in Boxes(n) /\ i \in Slots(n, s) /\ AckAt(n, s, i) = AckAt(m, s, i)
  BY Zenon DEF SameMail
<1>4. /\ \A a \in DOMAIN w : a \in Nat /\ a < m.next_acknowledge_id
      /\ \A s \in Boxes(m) : \A i \in Slots(m, s) :
           AckAt(m, s, i) # None => AckAt(m, s, i) \in DOMAIN w
      /\ \A p \in Pids : hld[p] \subseteq DOMAIN w
      /\ \A a \in DOMAIN w : \/ \E s \in Boxes(m) : \E i \in Slots(m, s) : AckAt(m, s, i) = a
                             \/ \E p \in Pids : a \in hld[p]
      /\ \A s, t \in Boxes(m) : \A i \in Slots(m, s), j \in Slots(m, t) :
           AckAt(m, s, i) # None /\ AckAt(m, s, i) = AckAt(m, t, j) => s = t /\ i = j
      /\ \A s \in Boxes(m) : \A i \in Slots(m, s) : \A p \in Pids : AckAt(m, s, i) \notin hld[p]
      /\ \A p, q \in Pids : \A a \in hld[p] : a \in hld[q] => p = q
  BY Zenon DEF AcksOK
<1> HIDE DEF w
<1>5. \A a \in DOMAIN w : a \in Nat /\ a < n.next_acknowledge_id /\ a # None
  BY <1>2, <1>4
<1>6. \A s \in Boxes(n) : \A i \in Slots(n, s) : AckAt(n, s, i) # None => AckAt(n, s, i) \in DOMAIN w
  BY <1>3, <1>4
<1>7. \A a \in DOMAIN w : \/ \E s \in Boxes(n) : \E i \in Slots(n, s) : AckAt(n, s, i) = a
                          \/ \E p \in Pids : a \in hld[p]
  BY <1>3, <1>4, <1>5
<1>8. \A s, t \in Boxes(n) : \A i \in Slots(n, s), j \in Slots(n, t) :
        AckAt(n, s, i) # None /\ AckAt(n, s, i) = AckAt(n, t, j) => s = t /\ i = j
  BY <1>3, <1>4
<1>9. \A s \in Boxes(n) : \A i \in Slots(n, s) : \A p \in Pids : AckAt(n, s, i) \notin hld[p]
  BY <1>3, <1>4, <1>5
<1> QED
  BY <1>1, <1>4, <1>5, <1>6, <1>7, <1>8, <1>9, Zenon DEF AcksOK, w

LEMMA FrameWaiters ==
  ASSUME NEW m, NEW n, NEW blk, NEW E, IsMap(blk), ManagerOK(m), ManagerOK(n),
         WaitersOK(m, blk), AllHear(m, n, E)
  PROVE  WaitersOK(n, Wake(blk, E))
<1> SUFFICES ASSUME NEW p \in DOMAIN Wake(blk, E), NEW s, MailboxEvent(s) \in Wake(blk, E)[p]
             PROVE  /\ s \in Nat /\ s < NextId(n)
                    /\ s \in Boxes(n) => Box(n, s).queue = <<>> /\ Box(n, s).event
  BY Zenon DEF WaitersOK
<1>1. p \in DOMAIN blk /\ MailboxEvent(s) \in blk[p] /\ MailboxEvent(s) \notin E
  BY Zenon DEF Wake, WaitingFor, Drop, Restrict
<1>2. /\ s \in Nat /\ s < NextId(m)
      /\ s \in Boxes(m) => Box(m, s).queue = <<>> /\ Box(m, s).event
  BY <1>1, Zenon DEF WaitersOK
<1>3. NextId(n) \in Nat /\ NextId(m) \in Nat
  BY Zenon DEF ManagerOK
<1>4. s < NextId(n)
  BY <1>2, <1>3 DEF AllHear
<1>5. ASSUME s \in Boxes(n)
      PROVE  Box(n, s).queue = <<>> /\ Box(n, s).event
  <2>1. s \in Boxes(m)
    <3> SUFFICES ASSUME s \notin Boxes(m) PROVE FALSE
      BY Zenon
    <3>1. s >= NextId(m)
      BY <1>5, Zenon DEF AllHear
    <3> QED
      BY ONLY <1>2, <1>3, <3>1
  <2> QED
    BY <2>1, <1>1, <1>2, <1>5, Zenon DEF AllHear
<1> QED
  BY <1>2, <1>4, <1>5, Zenon

LEMMA FrameSenders ==
  ASSUME NEW m, NEW n, NEW blk, NEW pend, NEW alv, NEW E, IsMap(blk), DOMAIN blk \subseteq Pids,
         SendersOK(m, blk, pend, alv),
         n.waiting_for_delivery = m.waiting_for_delivery, n.delivery_result = m.delivery_result,
         \A a : SenderEvent(a) \notin E
  PROVE  SendersOK(n, Wake(blk, E), pend, alv)
<1> DEFINE w == m.waiting_for_delivery
           b == Wake(blk, E)
<1>1. /\ \A a \in DOMAIN w : /\ w[a].event = SenderEvent(a) /\ w[a].pid \in DOMAIN blk
                             /\ blk[w[a].pid] = {SenderEvent(a)}
      /\ \A p \in DOMAIN blk : \A a : SenderEvent(a) \in blk[p] => a \in DOMAIN w /\ w[a].pid = p
      /\ \A p \in DOMAIN blk : Delivering(pend, p) <=> \E a \in DOMAIN w : SenderEvent(a) \in blk[p]
      /\ DOMAIN m.delivery_result \subseteq Pids
      /\ \A p \in Pids : p \in DOMAIN m.delivery_result <=>
           p \in alv /\ Delivering(pend, p) /\ p \notin DOMAIN blk
      /\ \A p \in DOMAIN m.delivery_result : m.delivery_result[p] # "wait"
  BY Zenon DEF SendersOK
<1>2. /\ \A p \in DOMAIN b : p \in DOMAIN blk /\ b[p] = blk[p]
      /\ \A p \in DOMAIN blk : p \in DOMAIN b <=> blk[p] \cap E = {}
  BY Zenon DEF Wake, WaitingFor, Drop, Restrict
<1> HIDE DEF w, b
<1>3. \A p \in DOMAIN blk : Delivering(pend, p) => p \in DOMAIN b
  <2> SUFFICES ASSUME NEW p \in DOMAIN blk, Delivering(pend, p) PROVE p \in DOMAIN b
    BY Zenon
  <2>1. PICK a \in DOMAIN w : SenderEvent(a) \in blk[p]
    BY <1>1, Zenon
  <2>2. w[a].pid = p
    BY <2>1, <1>1, Zenon
  <2>3. blk[w[a].pid] = {SenderEvent(a)}
    BY <1>1, Zenon
  <2>4. blk[p] \cap E = {}
    BY <2>2, <2>3, Zenon
  <2> QED
    BY <2>4, <1>2, Zenon
<1>4. \A a \in DOMAIN w : w[a].pid \in DOMAIN b
  <2> SUFFICES ASSUME NEW a \in DOMAIN w PROVE w[a].pid \in DOMAIN b
    BY Zenon
  <2>1. w[a].pid \in DOMAIN blk /\ blk[w[a].pid] = {SenderEvent(a)}
    BY <1>1, Zenon
  <2> QED
    BY <2>1, <1>2
<1>5. \A a \in DOMAIN w : w[a].event = SenderEvent(a) /\ b[w[a].pid] = {SenderEvent(a)}
  BY <1>1, <1>2, <1>4, Zenon
<1>6. \A p \in DOMAIN b : \A a : SenderEvent(a) \in b[p] => a \in DOMAIN w /\ w[a].pid = p
  BY <1>1, <1>2, Zenon
<1>7. \A p \in DOMAIN b : Delivering(pend, p) <=> \E a \in DOMAIN w : SenderEvent(a) \in b[p]
  BY <1>1, <1>2, Zenon
<1>8. \A p \in Pids : p \in DOMAIN m.delivery_result <=>
        p \in alv /\ Delivering(pend, p) /\ p \notin DOMAIN b
  BY <1>1, <1>2, <1>3, Zenon
<1> QED
  BY <1>1, <1>4, <1>5, <1>6, <1>7, <1>8 DEF SendersOK, w, b

(* SendersOK and PipesOK depend on some fields of the manager only.        *)
SendersFit(w, res, blk, pend, alv) ==
  /\ \A a \in DOMAIN w : /\ w[a].event = SenderEvent(a) /\ w[a].pid \in DOMAIN blk
                         /\ blk[w[a].pid] = {SenderEvent(a)}
  /\ \A p \in DOMAIN blk : \A a : SenderEvent(a) \in blk[p] => a \in DOMAIN w /\ w[a].pid = p
  /\ \A p \in DOMAIN blk : Delivering(pend, p) <=> \E a \in DOMAIN w : SenderEvent(a) \in blk[p]
  /\ DOMAIN res \subseteq Pids
  /\ \A p \in Pids : p \in DOMAIN res <=> p \in alv /\ Delivering(pend, p) /\ p \notin DOMAIN blk
  /\ \A p \in DOMAIN res : res[p] # "wait"

PipesFit(box, w, alv) ==
  \A s \in DOMAIN box : box[s].pipe_mode = "ConnectedTo" =>
    /\ box[s].peer \in alv
    /\ \A i \in DOMAIN box[s].queue : w[box[s].queue[i].ack].pid = box[s].peer

LEMMA SendersDepend ==
  ASSUME NEW m, NEW blk, NEW pend, NEW alv
  PROVE  SendersOK(m, blk, pend, alv) <=>
           SendersFit(m.waiting_for_delivery, m.delivery_result, blk, pend, alv)
BY Zenon DEF SendersOK, SendersFit

LEMMA PipesDepend ==
  ASSUME NEW m, NEW alv
  PROVE  PipesOK(m, alv) <=> PipesFit(m.mailboxes, m.waiting_for_delivery, alv)
BY Zenon DEF PipesOK, PipesFit, Boxes, Box, Slots, AckAt

LEMMA SameSenders ==
  ASSUME NEW m, NEW n, NEW blk, NEW pend, NEW alv, SendersOK(m, blk, pend, alv),
         n.waiting_for_delivery = m.waiting_for_delivery, n.delivery_result = m.delivery_result
  PROVE  SendersOK(n, blk, pend, alv)
<1>1. SendersFit(m.waiting_for_delivery, m.delivery_result, blk, pend, alv)
  BY SendersDepend, Zenon
<1>2. SendersFit(n.waiting_for_delivery, n.delivery_result, blk, pend, alv)
  BY <1>1, Zenon
<1> QED
  BY <1>2, SendersDepend, Zenon

LEMMA SamePipes ==
  ASSUME NEW m, NEW n, NEW alv, PipesOK(m, alv), n.mailboxes = m.mailboxes,
         n.waiting_for_delivery = m.waiting_for_delivery
  PROVE  PipesOK(n, alv)
<1>1. PipesFit(m.mailboxes, m.waiting_for_delivery, alv)
  BY PipesDepend, Zenon
<1>2. PipesFit(n.mailboxes, n.waiting_for_delivery, alv)
  BY <1>1, Zenon
<1> QED
  BY <1>2, PipesDepend, Zenon

(* All of the manager but its mailboxes is the same.                       *)
OnlyMailboxes(m, n) ==
  /\ IsManager(n)
  /\ n.subscriptions = m.subscriptions
  /\ n.waiting_for_delivery = m.waiting_for_delivery
  /\ n.delivery_result = m.delivery_result
  /\ n.next_acknowledge_id = m.next_acknowledge_id
  /\ n.process_subscriptions = m.process_subscriptions
  /\ Boxes(n) = Boxes(m) /\ IsMap(n.mailboxes)

LEMMA MailboxesManager ==
  ASSUME NEW m, NEW n, ManagerOK(m), OnlyMailboxes(m, n), \A s \in Boxes(m) : BoxOK(Box(n, s))
  PROVE  ManagerOK(n)
<1>1. Listed(n) = Listed(m)
  BY Zenon DEF OnlyMailboxes, Listed
<1> QED
  BY <1>1, Zenon DEF NextId, OnlyMailboxes, ManagerOK

LEMMA FrameOwners ==
  ASSUME NEW m, NEW n, NEW alv, OwnersOK(m, alv), OnlyMailboxes(m, n),
         \A s \in Boxes(m) : Box(n, s).kernel = Box(m, s).kernel
  PROVE  OwnersOK(n, alv)
BY Zenon DEF OwnersOK, OnlyMailboxes

LEMMA FramePipes ==
  ASSUME NEW m, NEW n, NEW alv, ManagerOK(n), PipesOK(m, alv), SameMail(m, n), Boxes(n) = Boxes(m),
         \A s \in Boxes(m) : /\ Box(n, s).pipe_mode = Box(m, s).pipe_mode
                             /\ Box(n, s).peer = Box(m, s).peer
  PROVE  PipesOK(n, alv)
<1> SUFFICES ASSUME NEW s \in Boxes(n), Box(n, s).pipe_mode = "ConnectedTo"
             PROVE  /\ Box(n, s).peer \in alv
                    /\ \A i \in Slots(n, s) :
                         n.waiting_for_delivery[AckAt(n, s, i)].pid = Box(n, s).peer
  BY Zenon DEF PipesOK
<1>1. /\ Box(m, s).peer \in alv
      /\ \A i \in Slots(m, s) : m.waiting_for_delivery[AckAt(m, s, i)].pid = Box(m, s).peer
  BY Zenon DEF PipesOK
<1>2. \A i \in Slots(n, s) : AckAt(n, s, i) # None
  BY Zenon DEF ManagerOK, BoxOK, Slots, AckAt
<1> QED
  BY <1>1, <1>2, Zenon DEF SameMail

(* A step that adds messages without acknowledge ids, or takes or sets     *)
(* events.                                                                 *)
LEMMA FrameIpc ==
  ASSUME NEW m, NEW n, NEW blk, NEW pend, NEW hld, NEW alv, NEW E,
         IsMap(blk), DOMAIN blk \subseteq Pids, IpcOK(m, blk, pend, hld, alv),
         OnlyMailboxes(m, n), SameMail(m, n), AllHear(m, n, E),
         \A s \in Boxes(m) : /\ BoxOK(Box(n, s))
                             /\ Box(n, s).kernel = Box(m, s).kernel
                             /\ Box(n, s).pipe_mode = Box(m, s).pipe_mode
                             /\ Box(n, s).peer = Box(m, s).peer
  PROVE  IpcOK(n, Wake(blk, E), pend, hld, alv)
<1>1. /\ ManagerOK(m) /\ OwnersOK(m, alv) /\ AcksOK(m, hld) /\ WaitersOK(m, blk)
      /\ SendersOK(m, blk, pend, alv) /\ PipesOK(m, alv)
  BY Zenon DEF IpcOK
<1>2. ManagerOK(n)
  BY <1>1, MailboxesManager, Zenon
<1>3. OwnersOK(n, alv)
  BY <1>1, FrameOwners, Zenon
<1>4. AcksOK(n, hld)
  BY <1>1, <1>2, FrameAcks, Zenon
<1>5. WaitersOK(n, Wake(blk, E))
  BY <1>1, <1>2, FrameWaiters, Zenon
<1>6. SendersOK(n, Wake(blk, E), pend, alv)
  <2>1. /\ n.waiting_for_delivery = m.waiting_for_delivery /\ n.delivery_result = m.delivery_result
        /\ \A a : SenderEvent(a) \notin E
    BY Zenon DEF SameMail, AllHear
  <2> QED
    BY <1>1, <2>1, FrameSenders, Zenon
<1>7. PipesOK(n, alv)
  BY <1>1, <1>2, FramePipes, Zenon DEF OnlyMailboxes
<1> QED
  BY <1>2, <1>3, <1>4, <1>5, <1>6, <1>7, Zenon DEF IpcOK

-----------------------------------------------------------------------------
(* Operations                                                              *)

(* The manager with one field changed.                                     *)
SetSubscriptions(m, v) == [m EXCEPT !.subscriptions = v]
SetMailboxes(m, v) == [m EXCEPT !.mailboxes = v]
SetWaiting(m, v) == [m EXCEPT !.waiting_for_delivery = v]
SetResults(m, v) == [m EXCEPT !.delivery_result = v]
SetNextAck(m, v) == [m EXCEPT !.next_acknowledge_id = v]
SetOwners(m, v) == [m EXCEPT !.process_subscriptions = v]

LEMMA SetSubscriptionsFields ==
  ASSUME NEW m, IsManager(m), NEW v
  PROVE  /\ IsManager(SetSubscriptions(m, v)) /\ SetSubscriptions(m, v).subscriptions = v
         /\ SetSubscriptions(m, v).mailboxes = m.mailboxes
         /\ SetSubscriptions(m, v).waiting_for_delivery = m.waiting_for_delivery
         /\ SetSubscriptions(m, v).delivery_result = m.delivery_result
         /\ SetSubscriptions(m, v).next_acknowledge_id = m.next_acknowledge_id
         /\ SetSubscriptions(m, v).process_subscriptions = m.process_subscriptions
BY DEF IsManager, SetSubscriptions

LEMMA SetMailboxesFields ==
  ASSUME NEW m, IsManager(m), NEW v
  PROVE  /\ IsManager(SetMailboxes(m, v)) /\ SetMailboxes(m, v).mailboxes = v
         /\ SetMailboxes(m, v).subscriptions = m.subscriptions
         /\ SetMailboxes(m, v).waiting_for_delivery = m.waiting_for_delivery
         /\ SetMailboxes(m, v).delivery_result = m.delivery_result
         /\ SetMailboxes(m, v).next_acknowledge_id = m.next_acknowledge_id
         /\ SetMailboxes(m, v).process_subscriptions = m.process_subscriptions
BY DEF IsManager, SetMailboxes

LEMMA SetWaitingFields ==
  ASSUME NEW m, IsManager(m), NEW v
  PROVE  /\ IsManager(SetWaiting(m, v)) /\ SetWaiting(m, v).waiting_for_delivery = v
         /\ SetWaiting(m, v).subscriptions = m.subscriptions
         /\ SetWaiting(m, v).mailboxes = m.mailboxes
         /\ SetWaiting(m, v).delivery_result = m.delivery_result
         /\ SetWaiting(m, v).next_acknowledge_id = m.next_acknowledge_id
         /\ SetWaiting(m, v).process_subscriptions = m.process_subscriptions
BY DEF IsManager, SetWaiting

LEMMA SetResultsFields ==
  ASSUME NEW m, IsManager(m), NEW v
  PROVE  /\ IsManager(SetResults(m, v)) /\ SetResults(m, v).delivery_result = v
         /\ SetResults(m, v).subscriptions = m.subscriptions
         /\ SetResults(m, v).mailboxes = m.mailboxes
         /\ SetResults(m, v).waiting_for_delivery = m.waiting_for_delivery
         /\ SetResults(m, v).next_acknowledge_id = m.next_acknowledge_id
         /\ SetResults(m, v).process_subscriptions = m.process_subscriptions
BY DEF IsManager, SetResults

LEMMA SetNextAckFields ==
  ASSUME NEW m, IsManager(m), NEW v
  PROVE  /\ IsManager(SetNextAck(m, v)) /\ SetNextAck(m, v).next_acknowledge_id = v
         /\ SetNextAck(m, v).subscriptions = m.subscriptions
         /\ SetNextAck(m, v).mailboxes = m.mailboxes
         /\ SetNextAck(m, v).waiting_for_delivery = m.waiting_for_delivery
         /\ SetNextAck(m, v).delivery_result = m.delivery_result
         /\ SetNextAck(m, v).process_subscriptions = m.process_subscriptions
BY DEF IsManager, SetNextAck

LEMMA SetOwnersFields ==
  ASSUME NEW m, IsManager(m), NEW v
  PROVE  /\ IsManager(SetOwners(m, v)) /\ SetOwners(m, v).process_subscriptions = v
         /\ SetOwners(m, v).subscriptions = m.subscriptions
         /\ SetOwners(m, v).mailboxes = m.mailboxes
         /\ SetOwners(m, v).waiting_for_delivery = m.waiting_for_delivery
         /\ SetOwners(m, v).delivery_result = m.delivery_result
         /\ SetOwners(m, v).next_acknowledge_id = m.next_acknowledge_id
BY DEF IsManager, SetOwners

LEMMA NewMailboxes ==
  ASSUME NEW m, ManagerOK(m), NEW f, IsMap(f), DOMAIN f = Boxes(m)
  PROVE  OnlyMailboxes(m, [m EXCEPT !.mailboxes = f]) /\ [m EXCEPT !.mailboxes = f].mailboxes = f
<1>1. IsManager(m)
  BY Zenon DEF ManagerOK
<1> DEFINE n == SetMailboxes(m, f)
<1>2. /\ IsManager(n) /\ n.mailboxes = f
      /\ n.subscriptions = m.subscriptions
      /\ n.waiting_for_delivery = m.waiting_for_delivery /\ n.delivery_result = m.delivery_result
      /\ n.next_acknowledge_id = m.next_acknowledge_id
      /\ n.process_subscriptions = m.process_subscriptions
  BY <1>1, SetMailboxesFields
<1> HIDE DEF n
<1>3. OnlyMailboxes(m, n) /\ n.mailboxes = f
  BY <1>2, Zenon DEF OnlyMailboxes, Boxes
<1> QED
  BY <1>3, Zenon DEF n, SetMailboxes

LEMMA PushFields ==
  ASSUME NEW m, ManagerOK(m), NEW S, NEW x
  PROVE  /\ OnlyMailboxes(m, push(m, S, x))
         /\ \A s \in Boxes(m) : Box(push(m, S, x), s) =
              IF s \in S THEN Pushed(Box(m, s), x) ELSE Box(m, s)
<1> DEFINE f == [s \in Boxes(m) |-> IF s \in S THEN Pushed(Box(m, s), x) ELSE Box(m, s)]
<1>1. push(m, S, x) = [m EXCEPT !.mailboxes = f]
  BY Zenon DEF Box, push, Boxes
<1>2. IsMap(f) /\ DOMAIN f = Boxes(m)
  BY Zenon DEF IsMap
<1> QED
  BY <1>1, <1>2, NewMailboxes DEF Box

LEMMA GetEventsFields ==
  ASSUME NEW m, ManagerOK(m), NEW S
  PROVE  /\ OnlyMailboxes(m, GetEvents(m, S))
         /\ \A s \in Boxes(m) : Box(GetEvents(m, S), s) =
              IF s \in S THEN WithEvent(Box(m, s)) ELSE Box(m, s)
<1> DEFINE f == [s \in Boxes(m) |-> IF s \in S THEN WithEvent(Box(m, s)) ELSE Box(m, s)]
<1>1. GetEvents(m, S) = [m EXCEPT !.mailboxes = f]
  BY Zenon DEF Box, GetEvents, Boxes
<1>2. IsMap(f) /\ DOMAIN f = Boxes(m)
  BY Zenon DEF IsMap
<1> QED
  BY <1>1, <1>2, NewMailboxes DEF Box

LEMMA DisconnectFields ==
  ASSUME NEW m, ManagerOK(m), NEW p
  PROVE  /\ OnlyMailboxes(m, Disconnect(m, p).m)
         /\ \A s \in Boxes(m) : Box(Disconnect(m, p).m, s) =
              IF s \in PipesOf(m, p) THEN Disconnected(Box(m, s)) ELSE Box(m, s)
         /\ Disconnect(m, p).events = PushEvents(m, PipesOf(m, p))
<1> DEFINE S == PipesOf(m, p)
           f == [s \in Boxes(m) |-> IF s \in S THEN Disconnected(Box(m, s)) ELSE Box(m, s)]
<1>1. Disconnect(m, p).m = [m EXCEPT !.mailboxes = f] /\ Disconnect(m, p).events = PushEvents(m, S)
  BY Zenon DEF Box, Disconnect, Boxes, Result
<1>2. IsMap(f) /\ DOMAIN f = Boxes(m)
  BY Zenon DEF IsMap
<1> QED
  BY <1>1, <1>2, NewMailboxes DEF Box

(* Mailbox s becomes b.                                                    *)
Replace(m, s, b) == [m EXCEPT !.mailboxes = [@ EXCEPT ![s] = b]]

(* Mailbox s becomes b, and nothing else changes.                          *)
OneChanged(m, n, s, b) ==
  /\ OnlyMailboxes(m, n)
  /\ Box(n, s) = b
  /\ \A t \in Boxes(m) : t # s => Box(n, t) = Box(m, t)

LEMMA OneMailbox ==
  ASSUME NEW m, ManagerOK(m), NEW s \in Boxes(m), NEW b
  PROVE  OneChanged(m, Replace(m, s, b), s, b)
<1> DEFINE f == [m.mailboxes EXCEPT ![s] = b]
<1>1. IsMap(f) /\ DOMAIN f = Boxes(m) /\ f[s] = b /\ \A t \in Boxes(m) : t # s => f[t] = Box(m, t)
  BY Zenon DEF Box, IsMap, Boxes, ManagerOK
<1>2. Replace(m, s, b) = [m EXCEPT !.mailboxes = f]
  BY Zenon DEF Replace
<1> HIDE DEF f
<1>3. OnlyMailboxes(m, [m EXCEPT !.mailboxes = f]) /\ [m EXCEPT !.mailboxes = f].mailboxes = f
  BY <1>1, NewMailboxes, Zenon
<1> QED
  BY <1>1, <1>2, <1>3, Zenon DEF Box, OneChanged

(* The mailboxes the operations make.                                      *)
LEMMA PushedFields ==
  ASSUME NEW b, NEW x
  PROVE  /\ IsMailbox(Pushed(b, x)) /\ Pushed(b, x).queue = Append(b.queue, x)
         /\ Pushed(b, x).kernel = b.kernel /\ Pushed(b, x).event = FALSE
         /\ Pushed(b, x).pipe_mode = b.pipe_mode /\ Pushed(b, x).peer = b.peer
BY Zenon DEF Pushed, Mailbox, IsMailbox

LEMMA ConnectedFields ==
  ASSUME NEW b, NEW p
  PROVE  /\ IsMailbox(Connected(b, p)) /\ Connected(b, p).queue = b.queue
         /\ Connected(b, p).kernel = b.kernel /\ Connected(b, p).event = b.event
         /\ Connected(b, p).pipe_mode = "ConnectedTo" /\ Connected(b, p).peer = p
BY Zenon DEF Connected, Mailbox, IsMailbox

LEMMA PoppedFields ==
  ASSUME NEW b
  PROVE  /\ IsMailbox(Popped(b)) /\ Popped(b).queue = Tail(b.queue)
         /\ Popped(b).kernel = b.kernel /\ Popped(b).event = b.event
         /\ Popped(b).pipe_mode = b.pipe_mode /\ Popped(b).peer = b.peer
BY Zenon DEF Popped, Mailbox, IsMailbox

LEMMA WithEventFields ==
  ASSUME NEW b
  PROVE  /\ IsMailbox(WithEvent(b)) /\ WithEvent(b).queue = b.queue
         /\ WithEvent(b).kernel = b.kernel /\ WithEvent(b).event = TRUE
         /\ WithEvent(b).pipe_mode = b.pipe_mode /\ WithEvent(b).peer = b.peer
BY Zenon DEF WithEvent, Mailbox, IsMailbox

LEMMA DisconnectedFields ==
  ASSUME NEW b
  PROVE  /\ IsMailbox(Disconnected(b)) /\ Disconnected(b).queue = b.queue
         /\ Disconnected(b).kernel = b.kernel /\ Disconnected(b).event = FALSE
         /\ Disconnected(b).pipe_mode = "Disconnected" /\ Disconnected(b).peer = None
BY Zenon DEF Disconnected, Mailbox, IsMailbox

LEMMA NewBoxes ==
  /\ \A mode \in {"None", "NotConnected"} :
       /\ BoxOK(Mailbox_new(mode)) /\ Mailbox_new(mode).queue = <<>>
       /\ Mailbox_new(mode).kernel = FALSE /\ Mailbox_new(mode).pipe_mode = mode
  /\ BoxOK(KernelMailbox) /\ KernelMailbox.queue = <<>> /\ KernelMailbox.kernel = TRUE
  /\ KernelMailbox.pipe_mode = "None"
<1>1. IsSeq(<<>>) /\ DOMAIN <<>> = {}
  BY DEF IsSeq, Range
<1> QED
  BY <1>1, Zenon DEF BoxOK, Mailbox_new, KernelMailbox, Mailbox, IsMailbox

(* A message without an acknowledge id goes into the mailboxes S.          *)
LEMMA PlainPush ==
  ASSUME NEW m, NEW blk, NEW pend, NEW hld, NEW alv, NEW S, NEW topic,
         IsMap(blk), DOMAIN blk \subseteq Pids, IpcOK(m, blk, pend, hld, alv),
         \A s \in S \cap Boxes(m) : Box(m, s).pipe_mode = "None"
  PROVE  IpcOK(push(m, S, [topic |-> topic, ack |-> None]), Wake(blk, PushEvents(m, S)), pend, hld, alv)
<1> DEFINE x == [topic |-> topic, ack |-> None]
           n == push(m, S, x)
           E == PushEvents(m, S)
<1>1. ManagerOK(m) /\ x.ack = None
  BY Zenon DEF IpcOK
<1>2. /\ OnlyMailboxes(m, n)
      /\ \A s \in Boxes(m) : Box(n, s) =
           IF s \in S THEN Pushed(Box(m, s), x) ELSE Box(m, s)
  BY ONLY <1>1, PushFields, SMT
<1>3. \A s \in Boxes(m) : BoxOK(Box(m, s))
  BY <1>1, Zenon DEF ManagerOK
<1> HIDE DEF x, n
<1>4. ASSUME NEW s \in Boxes(m), s \in S
      PROVE  /\ BoxOK(Box(n, s)) /\ Box(n, s).queue # <<>>
             /\ Box(n, s).kernel = Box(m, s).kernel
             /\ Box(n, s).pipe_mode = Box(m, s).pipe_mode
             /\ Box(n, s).peer = Box(m, s).peer
             /\ \A i \in Slots(n, s) : AckAt(n, s, i) # None =>
                  i \in Slots(m, s) /\ AckAt(m, s, i) = AckAt(n, s, i)
             /\ \A i \in Slots(m, s) : i \in Slots(n, s) /\ AckAt(n, s, i) = AckAt(m, s, i)
  <2> DEFINE q == Box(m, s).queue
             r == Append(q, x)
  <2>1. /\ BoxOK(Box(m, s)) /\ IsSeq(q) /\ Box(m, s).pipe_mode = "None"
        /\ \A i \in DOMAIN q : q[i].ack \in Nat \cup {None}
    BY <1>3, <1>4, Zenon DEF BoxOK
  <2>2. /\ Box(n, s).queue = r /\ Box(n, s).kernel = Box(m, s).kernel
        /\ Box(n, s).event = FALSE
        /\ Box(n, s).pipe_mode = Box(m, s).pipe_mode
        /\ Box(n, s).peer = Box(m, s).peer
        /\ IsMailbox(Box(n, s))
    <3>1. Box(n, s) = Pushed(Box(m, s), x)
      BY <1>2, <1>4, Zenon
    <3> QED
      <4> DEFINE b == Pushed(Box(m, s), x)
      <4>1. /\ IsMailbox(b) /\ b.queue = r
            /\ b.kernel = Box(m, s).kernel /\ b.event = FALSE
            /\ b.pipe_mode = Box(m, s).pipe_mode /\ b.peer = Box(m, s).peer
        BY PushedFields, Zenon
      <4> HIDE DEF b, r
      <4> QED
        BY <3>1, <4>1, Zenon DEF b
  <2>3. /\ IsSeq(r) /\ DOMAIN r = DOMAIN q \cup {Len(q) + 1} /\ r # <<>>
        /\ \A i \in DOMAIN q : r[i] = q[i]
        /\ r[Len(q) + 1] = x
    BY <2>1, AppendFacts, Zenon
  <2> HIDE DEF q, r
  <2>4. \A i \in DOMAIN r : r[i].ack \in Nat \cup {None}
    BY <1>1, <2>1, <2>3, Zenon
  <2>5. BoxOK(Box(n, s))
    BY <2>1, <2>2, <2>3, <2>4, Zenon DEF BoxOK
  <2> QED
    BY <1>1, <2>2, <2>3, <2>5, Zenon DEF Slots, AckAt, q
<1>5. ASSUME NEW s \in Boxes(m), s \notin S
      PROVE  Box(n, s) = Box(m, s)
  BY <1>2, <1>5, Zenon
<1>6. SameMail(m, n)
  <2>1. /\ n.waiting_for_delivery = m.waiting_for_delivery
        /\ n.delivery_result = m.delivery_result
        /\ n.next_acknowledge_id >= m.next_acknowledge_id
        /\ Boxes(n) = Boxes(m)
    BY <1>1, <1>2 DEF OnlyMailboxes, ManagerOK
  <2>2. ASSUME NEW s \in Boxes(m), NEW i \in Slots(n, s), AckAt(n, s, i) # None
        PROVE  i \in Slots(m, s) /\ AckAt(m, s, i) = AckAt(n, s, i)
    BY <2>2, <1>4, <1>5, Zenon DEF Slots, AckAt
  <2>3. ASSUME NEW s \in Boxes(m), NEW i \in Slots(m, s)
        PROVE  i \in Slots(n, s) /\ AckAt(n, s, i) = AckAt(m, s, i)
    BY <2>3, <1>4, <1>5, Zenon DEF Slots, AckAt
  <2> QED
    BY <2>1, <2>2, <2>3, Zenon DEF SameMail
<1>7. AllHear(m, n, E)
  <2>1. /\ NextId(n) >= NextId(m)
        /\ Boxes(n) = Boxes(m)
    BY <1>1, <1>2 DEF NextId, OnlyMailboxes, ManagerOK
  <2>2. \A a : SenderEvent(a) \notin E
    BY EventFacts, Zenon DEF PushEvents
  <2>3. ASSUME NEW s \in Boxes(m)
        PROVE  \/ MailboxEvent(s) \in E
               \/ Box(m, s).queue # <<>>
               \/ ~Box(m, s).event
               \/ Box(n, s).queue = <<>> /\ Box(n, s).event
    <3>1. CASE s \in S
      BY <3>1, Zenon DEF Box, PushEvents
    <3>2. CASE s \notin S
      BY <3>2, <1>5, Zenon
    <3> QED
      BY <3>1, <3>2, Zenon
  <2> QED
    BY <2>1, <2>2, <2>3, Zenon DEF AllHear
<1>8. \A s \in Boxes(m) : /\ BoxOK(Box(n, s))
                          /\ Box(n, s).kernel = Box(m, s).kernel
                          /\ Box(n, s).pipe_mode = Box(m, s).pipe_mode
                          /\ Box(n, s).peer = Box(m, s).peer
  BY <1>3, <1>4, <1>5, Zenon
<1>9. IpcOK(n, Wake(blk, E), pend, hld, alv)
  BY <1>2, <1>6, <1>7, <1>8, FrameIpc, Zenon
<1> QED
  BY <1>9, Zenon DEF n, x

(* An acknowledge id that is not used.                                     *)
LEMMA NextAck ==
  ASSUME NEW m, NEW blk, NEW pend, NEW hld, NEW alv, IpcOK(m, blk, pend, hld, alv)
  PROVE  LET n == [m EXCEPT !.next_acknowledge_id = @ + 1]
         IN  /\ IpcOK(n, blk, pend, hld, alv)
             /\ n.mailboxes = m.mailboxes /\ n.subscriptions = m.subscriptions
             /\ n.waiting_for_delivery = m.waiting_for_delivery
             /\ n.delivery_result = m.delivery_result
             /\ n.next_acknowledge_id = m.next_acknowledge_id + 1
<1> DEFINE a == m.next_acknowledge_id + 1
           n == SetNextAck(m, a)
<1>1. IsManager(m) /\ ManagerOK(m) /\ a \in Nat /\ a >= m.next_acknowledge_id
  BY DEF IpcOK, ManagerOK
<1> HIDE DEF a
<1>2. /\ IsManager(n) /\ n.next_acknowledge_id = a
      /\ n.subscriptions = m.subscriptions /\ n.mailboxes = m.mailboxes
      /\ n.waiting_for_delivery = m.waiting_for_delivery /\ n.delivery_result = m.delivery_result
      /\ n.process_subscriptions = m.process_subscriptions
  BY <1>1, SetNextAckFields
<1>3. n = [m EXCEPT !.next_acknowledge_id = @ + 1]
  BY Zenon DEF a, SetNextAck
<1> HIDE DEF n
<1>4. ManagerOK(n)
  BY <1>1, <1>2, ZenonT(30) DEF Box, NextId, IpcOK, ManagerOK, Listed, Boxes
<1>5. AcksOK(n, hld)
  <2>1. /\ Boxes(n) = Boxes(m)
        /\ \A t : Slots(n, t) = Slots(m, t) /\ \A i : AckAt(n, t, i) = AckAt(m, t, i)
    BY <1>2, Zenon DEF Boxes, Box, Slots, AckAt
  <2>2. SameMail(m, n)
    BY <1>1, <1>2, <2>1, Zenon DEF SameMail
  <2> QED
    BY <1>1, <1>4, <2>2, FrameAcks, Zenon DEF IpcOK
<1>6. OwnersOK(n, alv) /\ WaitersOK(n, blk) /\ SendersOK(n, blk, pend, alv) /\ PipesOK(n, alv)
  <2>1. OwnersOK(n, alv)
    BY <1>2, Zenon DEF IpcOK, OwnersOK, Boxes, Box
  <2>2. WaitersOK(n, blk)
    BY <1>2, Zenon DEF NextId, IpcOK, WaitersOK, Boxes, Box
  <2>3. SendersOK(n, blk, pend, alv)
    BY <1>2, SameSenders, Zenon DEF IpcOK
  <2>4. PipesOK(n, alv)
    BY <1>2, SamePipes, Zenon DEF IpcOK
  <2> QED
    BY <2>1, <2>2, <2>3, <2>4, Zenon
<1>7. IpcOK(n, blk, pend, hld, alv)
  BY <1>4, <1>5, <1>6, Zenon DEF IpcOK
<1> QED
  BY <1>2, <1>3, <1>7, Zenon DEF a

(* Only the deliver calls that are repeated matter to the manager.         *)
LEMMA Continue ==
  ASSUME NEW m, NEW blk, NEW pend, NEW pend2, NEW hld, NEW alv, DOMAIN blk \subseteq Pids,
         IpcOK(m, blk, pend, hld, alv),
         \A q \in Pids : Delivering(pend2, q) <=> Delivering(pend, q)
  PROVE  IpcOK(m, blk, pend2, hld, alv)
BY Zenon DEF IpcOK, SendersOK

LEMMA Publish ==
  ASSUME NEW m, NEW blk, NEW pend, NEW hld, NEW alv, NEW topic,
         IsMap(blk), DOMAIN blk \subseteq Pids, IpcOK(m, blk, pend, hld, alv),
         publish(m, topic).res # "panic"
  PROVE  LET r == publish(m, topic)
         IN  IpcOK(r.m, Wake(blk, r.events), pend, hld, alv)
<1> DEFINE subs == find_all(m.subscriptions, topic, FALSE)
           room == {s \in subs : ~Full(m, s)}
           x == [topic |-> topic, ack |-> None]
           r == publish(m, topic)
<1>1. /\ ~ \E s \in subs : Box(m, s).kernel \/ Box(m, s).pipe_mode # "None"
      /\ r = Result(push(m, room, x), "ok", PushEvents(m, room))
  BY Zenon DEF Box, publish, Panic, Result
<1> HIDE DEF subs, r
<1>2. \A s \in room \cap Boxes(m) : Box(m, s).pipe_mode = "None"
  BY <1>1, Zenon
<1> HIDE DEF room
<1>3. IpcOK(push(m, room, x), Wake(blk, PushEvents(m, room)), pend, hld, alv)
  BY <1>2, PlainPush, Zenon
<1> HIDE DEF x
<1>4. r.m = push(m, room, x) /\ r.events = PushEvents(m, room)
  BY <1>1, Zenon DEF Result
<1> QED
  BY <1>3, <1>4, Zenon DEF r

LEMMA WakeNone ==
  ASSUME NEW blk, IsMap(blk)
  PROVE  Wake(blk, {}) = blk
BY Zenon DEF Wake, WaitingFor, Drop, Restrict, IsMap

LEMMA Unchanged ==
  ASSUME NEW m, NEW blk, NEW pend, NEW hld, NEW alv, NEW res,
         IsMap(blk), IpcOK(m, blk, pend, hld, alv)
  PROVE  LET r == Result(m, res, {})
         IN  IpcOK(r.m, Wake(blk, r.events), pend, hld, alv) /\ r.res = res
BY WakeNone, Zenon DEF Result

LEMMA Reply ==
  ASSUME NEW m, NEW blk, NEW pend, NEW hld, NEW alv, NEW topic, NEW s,
         IsMap(blk), DOMAIN blk \subseteq Pids, IpcOK(m, blk, pend, hld, alv),
         Box(m, s).pipe_mode = "None"
  PROVE  LET r == PushReply(m, s, topic)
         IN  IpcOK(r.m, Wake(blk, r.events), pend, hld, alv) /\ r.res # "wait"
<1> DEFINE x == [topic |-> topic, ack |-> None]
           r == PushReply(m, s, topic)
<1>1. IpcOK(push(m, {s}, x), Wake(blk, PushEvents(m, {s})), pend, hld, alv)
  BY PlainPush, Zenon
<1>2. IpcOK(m, Wake(blk, {}), pend, hld, alv)
  BY WakeNone, Zenon
<1> HIDE DEF x
<1>3. CASE Full(m, s)
  BY <1>2, <1>3, Zenon DEF PushReply, Result
<1>4. CASE ~Full(m, s)
  <2>1. r.m = push(m, {s}, x) /\ r.events = PushEvents(m, {s}) /\ r.res = "ok"
    BY <1>4, Zenon DEF PushReply, Result, x
  <2> HIDE DEF r
  <2>2. IpcOK(r.m, Wake(blk, r.events), pend, hld, alv) /\ r.res # "wait"
    BY <1>1, <2>1, Zenon
  <2> QED
    BY <2>2, Zenon DEF r
<1> QED
  BY <1>3, <1>4, Zenon

LEMMA DeliverReply ==
  ASSUME NEW m, NEW blk, NEW pend, NEW hld, NEW alv, NEW topic,
         IsMap(blk), DOMAIN blk \subseteq Pids, IpcOK(m, blk, pend, hld, alv),
         deliver_reply(m, topic).res # "panic"
  PROVE  LET r == deliver_reply(m, topic)
         IN  IpcOK(r.m, Wake(blk, r.events), pend, hld, alv)
<1> DEFINE s == CHOOSE x \in find_all(m.subscriptions, topic, TRUE) : TRUE
           r == deliver_reply(m, topic)
<1>1. \/ r = Result(m, "NoSubscriber", {})
      \/ r = PushReply(m, s, topic) /\ Box(m, s).pipe_mode = "None"
  BY Zenon DEF Box, deliver_reply, Panic, Result
<1> HIDE DEF r, s
<1>2. IpcOK(r.m, Wake(blk, r.events), pend, hld, alv)
  BY <1>1, Unchanged, Reply
<1> QED
  BY <1>2, Zenon DEF r

LEMMA Incoming ==
  ASSUME NEW m, NEW blk, NEW pend, NEW hld, NEW alv, NEW reply_to,
         IsMap(blk), DOMAIN blk \subseteq Pids, IpcOK(m, blk, pend, hld, alv),
         incoming(m, reply_to).res # "panic"
  PROVE  LET r == incoming(m, reply_to)
         IN  IpcOK(r.m, Wake(blk, r.events), pend, hld, alv) /\ r.res # "wait"
<1> DEFINE s == CHOOSE x \in find_all(m.subscriptions, reply_to, TRUE) : TRUE
           n == [m EXCEPT !.next_acknowledge_id = @ + 1]
           r == incoming(m, reply_to)
<1>1. \/ r = Result(m, "NegativeAcknowledgement", {})
      \/ r = Result(m, "NoSubscriber", {})
      \/ r = PushReply(n, s, reply_to) /\ Box(m, s).pipe_mode = "None"
  BY Zenon DEF Box, incoming, kernel_deliver_reply, Panic, Result
<1>2. IpcOK(n, blk, pend, hld, alv) /\ n.mailboxes = m.mailboxes
  BY NextAck, Zenon
<1> HIDE DEF r, s, n
<1>3. IpcOK(r.m, Wake(blk, r.events), pend, hld, alv) /\ r.res # "wait"
  <2>1. CASE r = Result(m, "NegativeAcknowledgement", {}) \/ r = Result(m, "NoSubscriber", {})
    BY <2>1, Unchanged
  <2>2. CASE r = PushReply(n, s, reply_to) /\ Box(m, s).pipe_mode = "None"
    BY <2>2, <1>2, Reply, Zenon DEF Box
  <2> QED
    BY <1>1, <2>1, <2>2, Zenon
<1> QED
  BY <1>3, Zenon DEF r

(* The mailboxes S have events.                                            *)
HaveEvents(m, n, S) ==
  /\ Boxes(n) = Boxes(m)
  /\ \A s \in Boxes(m) : /\ Box(n, s).queue = Box(m, s).queue
                         /\ s \in S => Box(n, s).event = TRUE

LEMMA Events ==
  ASSUME NEW m, NEW blk, NEW pend, NEW hld, NEW alv, NEW S,
         IsMap(blk), DOMAIN blk \subseteq Pids, IpcOK(m, blk, pend, hld, alv)
  PROVE  IpcOK(GetEvents(m, S), blk, pend, hld, alv) /\ HaveEvents(m, GetEvents(m, S), S)
<1> DEFINE n == GetEvents(m, S)
<1>1. ManagerOK(m)
  BY Zenon DEF IpcOK
<1>2. /\ OnlyMailboxes(m, n)
      /\ \A s \in Boxes(m) : Box(n, s) =
           IF s \in S THEN WithEvent(Box(m, s)) ELSE Box(m, s)
  BY <1>1, GetEventsFields, Zenon
<1>3. \A s \in Boxes(m) : BoxOK(Box(m, s))
  BY <1>1, Zenon DEF ManagerOK
<1> HIDE DEF n
<1>4. ASSUME NEW s \in Boxes(m)
      PROVE  /\ IsMailbox(Box(n, s)) /\ Box(n, s).queue = Box(m, s).queue
             /\ Box(n, s).kernel = Box(m, s).kernel
             /\ Box(n, s).pipe_mode = Box(m, s).pipe_mode
             /\ Box(n, s).peer = Box(m, s).peer
             /\ Box(n, s).event \in BOOLEAN
             /\ Box(m, s).event \/ s \in S => Box(n, s).event
  <2>1. CASE s \in S
    BY <2>1, <1>2, WithEventFields, Zenon
  <2>2. CASE s \notin S
    BY <2>2, <1>2, <1>3, Zenon DEF BoxOK
  <2> QED
    BY <2>1, <2>2, Zenon
<1>5. \A s \in Boxes(m) : BoxOK(Box(n, s))
  <2> SUFFICES ASSUME NEW s \in Boxes(m) PROVE BoxOK(Box(n, s))
    BY Zenon
  <2>1. BoxOK(Box(m, s))
    BY <1>3, Zenon
  <2>2. /\ IsMailbox(Box(n, s)) /\ Box(n, s).queue = Box(m, s).queue
        /\ Box(n, s).kernel = Box(m, s).kernel /\ Box(n, s).event \in BOOLEAN
        /\ Box(n, s).pipe_mode = Box(m, s).pipe_mode
    BY <1>4, Zenon
  <2> QED
    BY <2>1, <2>2, Zenon DEF BoxOK
<1>6. SameMail(m, n)
  <2>1. /\ n.waiting_for_delivery = m.waiting_for_delivery
        /\ n.delivery_result = m.delivery_result
        /\ n.next_acknowledge_id = m.next_acknowledge_id /\ Boxes(n) = Boxes(m)
    BY <1>2, Zenon DEF OnlyMailboxes
  <2>2. n.next_acknowledge_id >= m.next_acknowledge_id
    <3>1. m.next_acknowledge_id \in Nat
      BY <1>1, Zenon DEF ManagerOK
    <3> QED
      BY ONLY <2>1, <3>1
  <2>3. \A s \in Boxes(m) : Slots(n, s) = Slots(m, s) /\ \A i : AckAt(n, s, i) = AckAt(m, s, i)
    BY <1>4, Zenon DEF Slots, AckAt
  <2> QED
    BY <2>1, <2>2, <2>3, Zenon DEF SameMail
<1>7. AllHear(m, n, {})
  <2>1. NextId(n) = NextId(m) /\ Boxes(n) = Boxes(m) /\ NextId(m) \in Nat
    BY <1>1, <1>2, Zenon DEF OnlyMailboxes, NextId, ManagerOK
  <2>2. NextId(n) >= NextId(m)
    BY ONLY <2>1
  <2>3. \A s \in Boxes(m) : \/ Box(m, s).queue # <<>>
                            \/ ~Box(m, s).event
                            \/ Box(n, s).queue = <<>> /\ Box(n, s).event
    BY <1>4, Zenon
  <2> QED
    BY <2>1, <2>2, <2>3, Zenon DEF AllHear
<1>8. IpcOK(n, Wake(blk, {}), pend, hld, alv)
  BY <1>2, <1>4, <1>5, <1>6, <1>7, FrameIpc, Zenon
<1>9. HaveEvents(m, n, S)
  BY <1>2, <1>4, Zenon DEF OnlyMailboxes, HaveEvents
<1> QED
  BY <1>8, <1>9, WakeNone, Zenon DEF n

(* A process waits for messages in mailboxes that have none.               *)
LEMMA WaitForMail ==
  ASSUME NEW m, NEW blk, NEW pend, NEW hld, NEW alv, NEW S, NEW p \in Pids,
         IsMap(blk), DOMAIN blk \subseteq Pids, IpcOK(m, blk, pend, hld, alv),
         p \notin DOMAIN blk, ~Delivering(pend, p), S \subseteq Boxes(m),
         \A s \in S : Box(m, s).queue = <<>> /\ Box(m, s).event
  PROVE  IpcOK(m, Put(blk, p, {MailboxEvent(s) : s \in S}), pend, hld, alv)
<1> DEFINE W == {MailboxEvent(s) : s \in S}
           b == Put(blk, p, W)
<1>1. /\ \A s : MailboxEvent(s) \in W => s \in S
      /\ \A a : SenderEvent(a) \notin W
  BY EventFacts, Zenon
<1> HIDE DEF W
<1>2. DOMAIN b = DOMAIN blk \cup {p} /\ b[p] = W /\ \A q \in DOMAIN blk : q # p => b[q] = blk[q]
  BY Zenon DEF Put
<1> HIDE DEF b
<1>3. \A q \in DOMAIN blk : q \in DOMAIN b /\ b[q] = blk[q]
  BY <1>2, Zenon
<1>4. WaitersOK(m, b)
  BY <1>1, <1>2, <1>3, ZenonT(30) DEF IpcOK, WaitersOK, ManagerOK
<1>5. SendersOK(m, b, pend, alv)
  <2> DEFINE w == m.waiting_for_delivery
             d == m.delivery_result
  <2>1. SendersOK(m, blk, pend, alv)
    BY Zenon DEF IpcOK
  <2>2. \A a \in DOMAIN w : /\ w[a].event = SenderEvent(a) /\ w[a].pid \in DOMAIN b
                            /\ b[w[a].pid] = {SenderEvent(a)}
    BY <1>3, <2>1, Zenon DEF SendersOK
  <2>3. \A q \in DOMAIN b : \A a : SenderEvent(a) \in b[q] => a \in DOMAIN w /\ w[a].pid = q
    BY <1>1, <1>2, <1>3, <2>1, Zenon DEF SendersOK
  <2>4. ASSUME NEW q \in DOMAIN b
        PROVE  Delivering(pend, q) <=> \E a \in DOMAIN w : SenderEvent(a) \in b[q]
    <3>1. CASE q = p
      BY <1>1, <1>2, <3>1, Zenon
    <3>2. CASE q # p
      <4>1. q \in DOMAIN blk /\ b[q] = blk[q]
        BY <1>2, <3>2, Zenon
      <4> QED
        BY <2>1, <4>1, Zenon DEF SendersOK
    <3> QED
      BY <3>1, <3>2, Zenon
  <2>5. /\ DOMAIN d \subseteq Pids /\ \A q \in DOMAIN d : d[q] # "wait"
        /\ \A q \in Pids : q \in DOMAIN d <=> q \in alv /\ Delivering(pend, q) /\ q \notin DOMAIN blk
    BY <2>1, Zenon DEF SendersOK
  <2>6. \A q : Delivering(pend, q) => (q \notin DOMAIN b <=> q \notin DOMAIN blk)
    BY <1>2, Zenon
  <2>7. \A q \in Pids : q \in DOMAIN d <=> q \in alv /\ Delivering(pend, q) /\ q \notin DOMAIN b
    BY ONLY <2>5, <2>6, Zenon
  <2> QED
    BY <2>2, <2>3, <2>4, <2>5, <2>7, Zenon DEF SendersOK
<1> QED
  BY <1>4, <1>5, Zenon DEF IpcOK, W, b

(* All that acknowledge ids depend on is the same.                         *)
LEMMA SameAcks ==
  ASSUME NEW m, NEW n, NEW hld, AcksOK(m, hld),
         n.waiting_for_delivery = m.waiting_for_delivery,
         n.next_acknowledge_id = m.next_acknowledge_id, Boxes(n) = Boxes(m),
         \A t \in Boxes(m) : /\ Slots(n, t) = Slots(m, t)
                             /\ \A i : AckAt(n, t, i) = AckAt(m, t, i)
  PROVE  AcksOK(n, hld)
BY DEF AcksOK

-----------------------------------------------------------------------------
(* Scheduling                                                              *)

Regrouped(a, b, c, d) == a \o b \o c \o d = a \o (b \o (c \o d))

LEMMA ConcatAssoc ==
  ASSUME NEW a, NEW b, NEW c, NEW d
  PROVE  Regrouped(a, b, c, d)
<1> DEFINE f == a \o b
           g == c \o d
<1>1. f \o c \o d = f \o (c \o d)
  <2> HIDE DEF f
  <2> QED
    BY SMT
<1>2. a \o b \o g = a \o (b \o g)
  <2> HIDE DEF g
  <2> QED
    BY SMT
<1> QED
  BY ONLY <1>1, <1>2, Zenon DEF Regrouped

LEMMA ConcatFacts ==
  ASSUME NEW o, NEW q, IsSeq(o), IsSeq(q)
  PROVE  /\ IsSeq(o \o q) /\ Range(o \o q) = Range(o) \cup Range(q)
         /\ IsInjective(o) /\ IsInjective(q) /\ Range(o) \cap Range(q) = {} => IsInjective(o \o q)
<1> DEFINE T == Range(o) \cup Range(q)
           c == o \o q
           n == Len(o)
           k == Len(q)
<1>1. o \in Seq(T) /\ q \in Seq(T)
  BY DEF IsSeq
<1>2. /\ c \in Seq(T) /\ n \in Nat /\ k \in Nat /\ Len(c) = n + k
      /\ DOMAIN o = 1 .. n /\ DOMAIN q = 1 .. k
  BY <1>1
<1>3. /\ \A i \in 1 .. n : c[i] = o[i]
      /\ \A i \in 1 .. n + k : i > n => c[i] = q[i - n]
  BY <1>1
<1>4. DOMAIN c = 1 .. n + k
  BY <1>2
<1> HIDE DEF c, n, k
<1>5. ASSUME NEW i \in 1 .. k PROVE i + n \in DOMAIN c /\ c[i + n] = q[i]
  <2>1. PICK j \in 1 .. n + k : j = i + n /\ j > n /\ j - n = i
    BY <1>2
  <2>2. c[j] = q[j - n]
    BY <1>3, <2>1, Zenon
  <2> QED
    BY <1>4, <2>1, <2>2, Zenon
<1>6. \A i \in DOMAIN c : (i \in 1 .. n /\ c[i] = o[i]) \/ (i - n \in 1 .. k /\ c[i] = q[i - n])
  BY <1>2, <1>3, <1>4
<1>7. Range(c) = T
  <2>1. ASSUME NEW x \in Range(o) PROVE x \in Range(c)
    <3>1. PICK i \in 1 .. n : x = o[i]
      BY <1>2, <2>1, Zenon DEF Range
    <3>2. i \in 1 .. n + k
      BY ONLY <1>2, <3>1
    <3> QED
      BY <1>3, <1>4, <3>1, <3>2, Zenon DEF Range
  <2>2. ASSUME NEW x \in Range(q) PROVE x \in Range(c)
    <3>1. PICK i \in 1 .. k : x = q[i]
      BY <1>2, Zenon DEF Range
    <3> QED
      BY <3>1, <1>5, Zenon DEF Range
  <2>3. ASSUME NEW x \in Range(c) PROVE x \in T
    BY <1>2, <1>6, Zenon DEF Range
  <2> QED
    BY <2>1, <2>2, <2>3, Zenon
<1>8. IsSeq(c)
  BY <1>2, <1>7, Zenon DEF IsSeq
<1>9. ASSUME IsInjective(o), IsInjective(q), Range(o) \cap Range(q) = {}
      PROVE  IsInjective(c)
  <2> SUFFICES ASSUME NEW i \in DOMAIN c, NEW j \in DOMAIN c, c[i] = c[j]
               PROVE  i = j
    BY Zenon DEF IsInjective
  <2>1. i \in Int /\ j \in Int /\ n \in Int
    BY <1>2, <1>4
  <2>2. CASE i \in 1 .. n /\ c[i] = o[i]
    <3>1. c[i] \in Range(o)
      BY <2>2, <1>2, Zenon DEF Range
    <3>2. ~ (j - n \in 1 .. k /\ c[j] = q[j - n])
      BY <3>1, <1>2, <1>9, Zenon DEF Range
    <3> QED
      BY <3>2, <2>2, <1>2, <1>6, <1>9, Zenon DEF IsInjective
  <2>3. CASE i - n \in 1 .. k /\ c[i] = q[i - n]
    <3>1. c[i] \in Range(q)
      BY <2>3, <1>2, Zenon DEF Range
    <3>2. ~ (j \in 1 .. n /\ c[j] = o[j])
      BY <3>1, <1>2, <1>9, Zenon DEF Range
    <3>3. j - n \in 1 .. k /\ q[j - n] = q[i - n]
      BY <3>2, <2>3, <1>6, Zenon
    <3>4. j - n = i - n
      BY <3>3, <2>3, <1>2, <1>9, Zenon DEF IsInjective
    <3> QED
      BY <3>4, <2>1
  <2> QED
    BY <2>2, <2>3, <1>6, Zenon
<1> QED
  BY <1>7, <1>8, <1>9, Zenon DEF c

(* The orders in which woken processes reach the run queue.                *)
LEMMA OrderFacts ==
  ASSUME NEW S, Cardinality(S) \in Nat, NEW o \in Orders(S)
  PROVE  IsSeq(o) /\ Range(o) = S /\ IsInjective(o)
<1>1. o \in [1 .. Cardinality(S) -> S] /\ IsInjective(o) /\ \A t \in S : \E s \in 1 .. Cardinality(S) : o[s] = t
  BY Zenon DEF Orders, Bijection, Injection, Surjection
<1>2. Range(o) = S
  BY <1>1, Zenon DEF Range
<1> QED
  BY <1>1, <1>2 DEF IsSeq

LEMMA PutFacts ==
  ASSUME NEW f, NEW x, NEW v
  PROVE  /\ IsMap(Put(f, x, v)) /\ DOMAIN Put(f, x, v) = DOMAIN f \cup {x}
         /\ Put(f, x, v)[x] = v
         /\ \A y \in DOMAIN f : y # x => Put(f, x, v)[y] = f[y]
BY Zenon DEF Put, IsMap

LEMMA WakePlaces ==
  ASSUME NEW rdy, NEW blk, NEW run, NEW alv, Countable(alv),
         Places(rdy, blk, run, alv), NEW E, NEW o \in Orders(WaitingFor(blk, E))
  PROVE  Places(o \o rdy, Wake(blk, E), run, alv)
<1>1. WaitingFor(blk, E) \subseteq DOMAIN blk /\ DOMAIN blk \subseteq alv
  BY Zenon DEF WaitingFor, Places
<1>2. Cardinality(WaitingFor(blk, E)) \in Nat
  BY <1>1, Zenon DEF Countable
<1>3. IsSeq(o) /\ Range(o) = WaitingFor(blk, E) /\ IsInjective(o)
  BY <1>2, OrderFacts, Zenon
<1>4. IsSeq(rdy) /\ IsInjective(rdy) /\ Range(o) \cap Range(rdy) = {}
  BY <1>1, <1>3, Zenon DEF Places
<1>5. IsSeq(o \o rdy) /\ Range(o \o rdy) = Range(o) \cup Range(rdy) /\ IsInjective(o \o rdy)
  BY <1>3, <1>4, ConcatFacts, Zenon
<1>6. IsMap(Wake(blk, E)) /\ DOMAIN Wake(blk, E) = DOMAIN blk \ WaitingFor(blk, E)
  BY WakeFacts, Zenon DEF Places
<1> HIDE DEF Orders
<1> QED
  BY <1>1, <1>3, <1>5, <1>6 DEF Places

LEMMA PutAway ==
  ASSUME NEW rdy, NEW blk, NEW p, NEW alv, Places(rdy, blk, p, alv), p # None, None \notin alv,
         NEW w
  PROVE  /\ Places(rdy, Put(blk, p, w), None, alv)
         /\ Places(Append(rdy, p), blk, None, alv)
         /\ Places(rdy, blk, None, alv \ {p})
<1>1. IsSeq(rdy) /\ p \notin Range(rdy) /\ p \notin DOMAIN blk /\ IsInjective(rdy)
  BY Zenon DEF Places
<1>2. IsSeq(Append(rdy, p)) /\ Range(Append(rdy, p)) = Range(rdy) \cup {p} /\ IsInjective(Append(rdy, p))
  BY <1>1, AppendFacts, Zenon
<1>3. IsMap(Put(blk, p, w)) /\ DOMAIN Put(blk, p, w) = DOMAIN blk \cup {p}
  BY PutFacts, Zenon
<1> QED
  BY <1>1, <1>2, <1>3, Zenon DEF Places

LEMMA SwitchPlaces ==
  ASSUME NEW rdy, NEW blk, NEW alv, NEW pend, NEW interrupted, NEW stop,
         Places(rdy, blk, None, alv), None \notin alv, stop.mode \in {"user", "idle"},
         SwitchTo(rdy, pend, interrupted, stop)
  PROVE  Places(ready', blk, running', alv) /\ CpuOK(cpu', running', pend)
<1>1. CASE rdy = <<>>
  BY <1>1, Zenon DEF SwitchTo, Places, CpuOK
<1>2. CASE rdy # <<>>
  <2> DEFINE p == Head(rdy)
  <2>1. ready' = Tail(rdy) /\ running' = p /\ cpu' = IF pend[p] = None THEN User(p) ELSE Repeat(p, interrupted)
    BY <1>2, Zenon DEF SwitchTo
  <2>2. IsSeq(rdy) /\ IsInjective(rdy)
    BY Zenon DEF Places
  <2>3. /\ IsSeq(Tail(rdy)) /\ Range(rdy) = Range(Tail(rdy)) \cup {p}
        /\ IsInjective(Tail(rdy)) /\ p \notin Range(Tail(rdy))
    BY <1>2, <2>2, TailFacts, Zenon
  <2>4. p # None /\ p \in alv
    BY <2>3, Zenon DEF Places
  <2> HIDE DEF p
  <2>5. Places(Tail(rdy), blk, p, alv)
    BY <2>3, <2>4, Zenon DEF Places
  <2>6. CpuOK(cpu', running', pend)
    BY <2>1, <2>4, Zenon DEF CpuOK, User, Repeat
  <2> QED
    BY <2>1, <2>5, <2>6, Zenon
<1> QED
  BY <1>1, <1>2, Zenon

Ops == {"subscribe", "unsubscribe", "publish", "deliver", "reply", "receive", "acknowledge",
        "select", "yield"}

(* Only these calls wait.                                                  *)
LEMMA WaitingCalls ==
  ASSUME NEW m, NEW p, NEW c, c.op \in Ops, syscall(m, p, c).res = "wait"
  PROVE  c.op \in {"deliver", "receive", "select"}
<1>1. CASE c.op = "subscribe"
  BY <1>1, Zenon DEF syscall, ipc_subscribe, InvalidTopic, subscribe, Result
<1>2. CASE c.op = "unsubscribe"
  BY <1>2, Zenon DEF syscall, unsubscribe, force_unsubscribe, Panic, Result
<1>3. CASE c.op = "publish"
  BY <1>3, Zenon DEF syscall, publish, InvalidTopic, Panic, Result
<1>4. CASE c.op = "reply"
  BY <1>4, Zenon DEF syscall, deliver_reply, InvalidTopic, PushReply, Panic, Result
<1>5. CASE c.op = "acknowledge"
  BY <1>5, Zenon DEF syscall, acknowledge, Panic, Result
<1>6. CASE c.op = "yield"
  BY <1>6, Zenon DEF syscall, Result
<1> QED
  BY <1>1, <1>2, <1>3, <1>4, <1>5, <1>6, Zenon DEF Ops

(* The calls a process makes are system calls.                             *)
LEMMA CallsAreOps ==
  ASSUME NEW p, NEW c \in CallsOf(p)
  PROVE  c.op \in Ops
BY DEF CallsOf, Ops

(* The process that makes a call, or whose call is repeated.               *)
Caller(p, stop) ==
  /\ p # None /\ running = p
  /\ stop.mode \in {"user", "idle"}

LEMMA HaltSchedule ==
  ASSUME ScheduleOK, Halt
  PROVE  ScheduleOK'
BY Zenon DEF ScheduleOK, Halt, CpuOK, Panicked, Places, PendingOK, IsSeq, IsMap

LEMMA PerformSchedule ==
  ASSUME ScheduleOK, NEW p, NEW c, NEW interrupted, NEW stop,
         Caller(p, stop), c.op \in Ops, Perform(p, c, interrupted, stop)
  PROVE  ScheduleOK'
<1> DEFINE r == syscall(ipc, p, c)
<1> USE KernelAssumption
<1>1. CASE r.res = "panic"
  BY <1>1, HaltSchedule, Zenon DEF Perform
<1>2. CASE r.res # "panic"
  <2>1. /\ pending' = [pending EXCEPT ![p] = IF r.res = "wait" THEN c ELSE None]
        /\ held' = [held EXCEPT ![p] = HeldAfter(p, c, r.res)]
        /\ alive' = alive
    BY <1>2, Zenon DEF Perform
  <2>2. PICK o \in Orders(WaitingFor(blocked, r.events)) :
           IF r.res = "wait"
           THEN /\ blocked' = Put(Wake(blocked, r.events), p, r.wait)
                /\ SwitchTo(o \o ready, pending, interrupted, stop)
           ELSE /\ blocked' = Wake(blocked, r.events)
                /\ IF c.op = "yield"
                   THEN SwitchTo(Append(o \o ready, p), pending', interrupted, stop)
                   ELSE ready' = o \o ready /\ cpu' = User(p) /\ UNCHANGED running
    BY <1>2, Zenon DEF Perform
  <2> DEFINE rdy == o \o ready
             blk == Wake(blocked, r.events)
  <2>3. /\ p \in alive /\ p \in Pids /\ None \notin alive /\ Countable(alive) /\ alive \in SUBSET Pids
        /\ Places(ready, blocked, p, alive) /\ p # None
    BY Zenon DEF ScheduleOK, Places, Caller
  <2>4. Places(rdy, blk, p, alive)
    BY <2>3, WakePlaces, Zenon
  <2>5. /\ DOMAIN pending = Pids /\ IsMap(pending)
        /\ \A q \in Pids : pending[q] # None => pending[q].op \in {"deliver", "receive", "select"}
    BY Zenon DEF ScheduleOK, PendingOK
  <2>6. r.res = "wait" => c.op \in {"deliver", "receive", "select"}
    BY WaitingCalls, Zenon
  <2> HIDE DEF r, rdy, blk
  <2>7. PendingOK(pending') /\ \A q \in Pids : q # p => pending'[q] = pending[q]
    BY <2>1, <2>3, <2>5, <2>6, Zenon DEF PendingOK, IsMap
  <2>8. DOMAIN held' = Pids /\ IsMap(held')
    BY <2>1, <2>3, Zenon DEF ScheduleOK, IsMap
  <2>9. Places(ready', blocked', running', alive) /\ CpuOK(cpu', running', pending')
    <3>1. CASE r.res = "wait"
      <4>1. Places(rdy, Put(blk, p, r.wait), None, alive)
        BY <2>3, <2>4, PutAway, Zenon
      <4>2. blocked' = Put(blk, p, r.wait) /\ SwitchTo(rdy, pending, interrupted, stop)
        BY <3>1, <2>2, Zenon DEF rdy, blk
      <4>3. Places(ready', blocked', running', alive) /\ CpuOK(cpu', running', pending)
        BY <4>1, <4>2, <2>3, SwitchPlaces, Zenon DEF Caller
      <4>4. running' # p
        <5>0. DOMAIN Put(blk, p, r.wait) = DOMAIN blk \cup {p}
          BY PutFacts, Zenon
        <5>1. p \in DOMAIN blocked'
          BY <4>2, <5>0, Zenon
        <5> QED
          BY <5>1, <4>3, <2>3, Zenon DEF Places
      <4>5. running' # None => pending'[running'] = pending[running']
        BY <4>3, <4>4, <2>3, <2>7, Zenon DEF Places
      <4> QED
        BY <4>3, <4>5, Zenon DEF CpuOK
    <3>2. CASE r.res # "wait" /\ c.op = "yield"
      <4>1. Places(Append(rdy, p), blk, None, alive)
        BY <2>3, <2>4, PutAway, Zenon
      <4>2. blocked' = blk /\ SwitchTo(Append(rdy, p), pending', interrupted, stop)
        BY <3>2, <2>2, Zenon DEF rdy, blk
      <4> QED
        BY <4>1, <4>2, <2>3, SwitchPlaces, Zenon DEF Caller
    <3>3. CASE r.res # "wait" /\ c.op # "yield"
      <4>1. blocked' = blk /\ ready' = rdy /\ cpu' = User(p) /\ running' = p
        BY <3>3, <2>2, Zenon DEF rdy, blk, Caller
      <4>2. pending'[p] = None
        BY <3>3, <2>1, <2>3, <2>5, Zenon
      <4> QED
        BY <4>1, <4>2, <2>4, Zenon DEF CpuOK, User
    <3> QED
      BY <3>1, <3>2, <3>3, Zenon
  <2> QED
    BY <2>1, <2>3, <2>7, <2>8, <2>9, Zenon DEF ScheduleOK
<1> QED
  BY <1>1, <1>2, Zenon

LEMMA KernelPublishSchedule ==
  ASSUME ScheduleOK, NEW topic, NEW next, KernelPublish(topic, next)
  PROVE  ScheduleOK'
<1> DEFINE r == publish(ipc, topic)
<1> USE KernelAssumption
<1>1. CASE r.res = "panic"
  BY <1>1, HaltSchedule, Zenon DEF KernelPublish
<1>2. CASE r.res # "panic"
  <2>1. blocked' = Wake(blocked, r.events) /\ pending' = pending /\ held' = held /\ alive' = alive
    BY <1>2, Zenon DEF KernelPublish
  <2>2. PICK o \in Orders(WaitingFor(blocked, r.events)) :
           IF next /\ running = None
           THEN SwitchTo(o \o ready, pending, None, Idle)
           ELSE ready' = o \o ready /\ UNCHANGED <<running, cpu>>
    BY <1>2, Zenon DEF KernelPublish
  <2>3. Places(o \o ready, blocked', running, alive) /\ None \notin alive
    BY <2>1, WakePlaces, Zenon DEF ScheduleOK
  <2> HIDE DEF r
  <2>4. Places(ready', blocked', running', alive) /\ CpuOK(cpu', running', pending)
    <3>1. CASE next /\ running = None
      BY <3>1, <2>2, <2>3, SwitchPlaces, Zenon DEF Idle
    <3>2. CASE ~(next /\ running = None)
      BY <3>2, <2>2, <2>3, Zenon DEF ScheduleOK
    <3> QED
      BY <3>1, <3>2, Zenon
  <2> QED
    BY <2>1, <2>4, Zenon DEF ScheduleOK
<1> QED
  BY <1>1, <1>2, Zenon

LEMMA TickSchedule ==
  ASSUME ScheduleOK, Tick
  PROVE  ScheduleOK'
<1> USE KernelAssumption
<1>1. SwitchTo(IF running = None THEN ready ELSE Append(ready, running), pending, cpu.pid, Idle)
      /\ UNCHANGED <<blocked, pending, held, alive>>
  BY Zenon DEF Tick
<1>2. Places(ready, blocked, running, alive) /\ None \notin alive
  BY Zenon DEF ScheduleOK
<1>3. Places(IF running = None THEN ready ELSE Append(ready, running), blocked, None, alive)
  BY <1>2, PutAway, Zenon
<1>4. Places(ready', blocked, running', alive) /\ CpuOK(cpu', running', pending)
  BY <1>1, <1>2, <1>3, SwitchPlaces, Zenon DEF Idle
<1> QED
  BY <1>1, <1>4, Zenon DEF ScheduleOK

LEMMA ExitSchedule ==
  ASSUME ScheduleOK, NEW p \in alive, Exit(p)
  PROVE  ScheduleOK'
<1> DEFINE unsub == UnsubscribeAll(ipc, p)
           disc  == Disconnect(unsub.m, p)
           told  == publish(disc.m, TerminatedTopic)
           b1    == Wake(blocked, unsub.events)
           b2    == Wake(b1, disc.events)
           b3    == Wake(b2, told.events)
<1> USE KernelAssumption
<1>1. CASE unsub.res = "panic" \/ told.res = "panic"
  BY <1>1, HaltSchedule, Zenon DEF Exit
<1>2. CASE ~(unsub.res = "panic" \/ told.res = "panic")
  <2>1. /\ running = p /\ blocked' = b3 /\ alive' = alive \ {p} /\ UNCHANGED <<pending, held>>
        /\ \E o1 \in Orders(WaitingFor(blocked, unsub.events)),
              o2 \in Orders(WaitingFor(b1, disc.events)),
              o3 \in Orders(WaitingFor(b2, told.events)) :
             SwitchTo(o3 \o o2 \o o1 \o ready, pending, None, Idle)
    BY <1>2, Zenon DEF Exit, Executing
  <2> HIDE DEF unsub, disc, told
  <2>2. PICK o1 \in Orders(WaitingFor(blocked, unsub.events)),
             o2 \in Orders(WaitingFor(b1, disc.events)),
             o3 \in Orders(WaitingFor(b2, told.events)) :
             SwitchTo(o3 \o o2 \o o1 \o ready, pending, None, Idle)
    BY <2>1, Zenon
  <2>3. /\ Places(ready, blocked, p, alive) /\ Countable(alive) /\ alive \in SUBSET Pids
        /\ None \notin alive /\ p # None
    BY <2>1, Zenon DEF ScheduleOK
  <2>4. Places(o1 \o ready, b1, p, alive)
    BY <2>3, WakePlaces, Zenon
  <2> HIDE DEF b1
  <2>5. Places(o2 \o (o1 \o ready), b2, p, alive)
    BY <2>3, <2>4, WakePlaces, Zenon
  <2> HIDE DEF b2
  <2>6. Places(o3 \o (o2 \o (o1 \o ready)), b3, p, alive)
    BY <2>3, <2>5, WakePlaces, Zenon
  <2> HIDE DEF b3
  <2>7. o3 \o o2 \o o1 \o ready = o3 \o (o2 \o (o1 \o ready))
    <3>1. Regrouped(o3, o2, o1, ready)
      BY ONLY ConcatAssoc, Zenon
    <3> QED
      BY ONLY <3>1, Zenon DEF Regrouped
  <2>8. Places(o3 \o o2 \o o1 \o ready, b3, None, alive \ {p}) /\ None \notin alive \ {p}
    BY <2>3, <2>6, <2>7, PutAway, Zenon
  <2>9. Places(ready', b3, running', alive \ {p}) /\ CpuOK(cpu', running', pending)
    BY <2>2, <2>8, SwitchPlaces DEF Idle
  <2>10. Countable(alive \ {p}) /\ alive \ {p} \in SUBSET Pids
    BY <2>3, Zenon DEF Countable
  <2> QED
    BY <2>1, <2>9, <2>10, Zenon DEF ScheduleOK
<1> QED
  BY <1>1, <1>2, Zenon

-----------------------------------------------------------------------------
(***************************************************************************)
(* The operations of the IPC manager on messages that are acknowledged     *)
(* keep its bookkeeping: delivering, receiving, selecting, acknowledging   *)
(* and the result of a delivery.                                           *)
(***************************************************************************)

(* A message with the acknowledge id a, which is not in use, is put at     *)
(* place l of the queue of mailbox s.                                      *)
MessageAdded(m, n, s, l, a) ==
  /\ Boxes(n) = Boxes(m) /\ l \notin Slots(m, s) /\ Slots(n, s) = Slots(m, s) \cup {l}
  /\ AckAt(n, s, l) = a /\ \A i \in Slots(m, s) : AckAt(n, s, i) = AckAt(m, s, i)
  /\ \A t \in Boxes(m) : t # s => Slots(n, t) = Slots(m, t) /\ \A i : AckAt(n, t, i) = AckAt(m, t, i)
  /\ a \in Nat /\ a < m.next_acknowledge_id /\ a \notin DOMAIN m.waiting_for_delivery
  /\ DOMAIN n.waiting_for_delivery = DOMAIN m.waiting_for_delivery \cup {a}
  /\ n.next_acknowledge_id = m.next_acknowledge_id

LEMMA QueuedAck ==
  ASSUME NEW m, NEW n, NEW hld, NEW s \in Boxes(m), NEW l, NEW a,
         AcksOK(m, hld), MessageAdded(m, n, s, l, a)
  PROVE  AcksOK(n, hld)
<1> DEFINE w == DOMAIN m.waiting_for_delivery
<1>1. /\ \A y \in w : y \in Nat /\ y < m.next_acknowledge_id
      /\ \A q \in Pids : hld[q] \subseteq w
      /\ \A q, z \in Pids : \A y \in hld[q] : y \in hld[z] => q = z
  BY Zenon DEF AcksOK
<1>known. \A t \in Boxes(m) : \A i \in Slots(m, t) : AckAt(m, t, i) # None => AckAt(m, t, i) \in w
  BY Zenon DEF AcksOK
<1>placed. \A y \in w : \/ \E t \in Boxes(m) : \E i \in Slots(m, t) : AckAt(m, t, i) = y
                        \/ \E q \in Pids : y \in hld[q]
  BY Zenon DEF AcksOK
<1>once. \A t, u \in Boxes(m) : \A i \in Slots(m, t), j \in Slots(m, u) :
           AckAt(m, t, i) # None /\ AckAt(m, t, i) = AckAt(m, u, j) => t = u /\ i = j
  BY Zenon DEF AcksOK
<1>apart. \A t \in Boxes(m) : \A i \in Slots(m, t) : \A q \in Pids : AckAt(m, t, i) \notin hld[q]
  BY Zenon DEF AcksOK
<1>2. /\ a \notin w /\ a # None /\ a \in Nat /\ a < m.next_acknowledge_id
      /\ DOMAIN n.waiting_for_delivery = w \cup {a}
      /\ n.next_acknowledge_id = m.next_acknowledge_id /\ Boxes(n) = Boxes(m)
  BY KernelAssumption, Zenon DEF MessageAdded
<1>3. \A t \in Boxes(m) : \A i \in Slots(n, t) :
        \/ t = s /\ i = l /\ AckAt(n, t, i) = a
        \/ i \in Slots(m, t) /\ AckAt(n, t, i) = AckAt(m, t, i)
  BY Zenon DEF MessageAdded
<1>4. /\ \A t \in Boxes(m) : \A i \in Slots(m, t) : i \in Slots(n, t) /\ AckAt(n, t, i) = AckAt(m, t, i)
      /\ l \in Slots(n, s) /\ AckAt(n, s, l) = a
  BY Zenon DEF MessageAdded
<1> HIDE DEF w
<1>5. \A t \in Boxes(m) : \A i \in Slots(n, t) : AckAt(n, t, i) # None => AckAt(n, t, i) \in w \cup {a}
  BY <1>known, <1>3, Zenon
<1>6. \A y \in w \cup {a} : \/ \E t \in Boxes(m) : \E i \in Slots(n, t) : AckAt(n, t, i) = y
                            \/ \E q \in Pids : y \in hld[q]
  <2>1. \E t \in Boxes(m) : \E i \in Slots(n, t) : AckAt(n, t, i) = a
    BY <1>4, Zenon
  <2>2. ASSUME NEW y \in w
        PROVE  \/ \E t \in Boxes(m) : \E i \in Slots(n, t) : AckAt(n, t, i) = y
               \/ \E q \in Pids : y \in hld[q]
    BY <1>placed, <1>4, Zenon
  <2> QED
    BY <2>1, <2>2, Zenon
<1>7. \A t, u \in Boxes(m) : \A i \in Slots(n, t), j \in Slots(n, u) :
        AckAt(n, t, i) # None /\ AckAt(n, t, i) = AckAt(n, u, j) => t = u /\ i = j
  <2> SUFFICES ASSUME NEW t \in Boxes(m), NEW u \in Boxes(m), NEW i \in Slots(n, t), NEW j \in Slots(n, u),
                      AckAt(n, t, i) # None, AckAt(n, t, i) = AckAt(n, u, j)
               PROVE  t = u /\ i = j
    BY Zenon
  <2>1. CASE t = s /\ i = l /\ AckAt(n, t, i) = a
    <3>1. ~(j \in Slots(m, u) /\ AckAt(n, u, j) = AckAt(m, u, j))
      BY <1>known, <1>2, <2>1, Zenon
    <3> QED
      BY <1>3, <2>1, <3>1, Zenon
  <2>2. CASE i \in Slots(m, t) /\ AckAt(n, t, i) = AckAt(m, t, i)
    <3>1. AckAt(n, u, j) # a
      BY <1>known, <1>2, <2>2, Zenon
    <3>2. j \in Slots(m, u) /\ AckAt(n, u, j) = AckAt(m, u, j)
      BY <1>3, <3>1, Zenon
    <3>3. AckAt(m, t, i) # None /\ AckAt(m, t, i) = AckAt(m, u, j)
      BY <2>2, <3>2, Zenon
    <3> QED
      BY <1>once, <2>2, <3>2, <3>3, Zenon
  <2> QED
    BY <1>3, <2>1, <2>2, Zenon
<1>8. \A t \in Boxes(m) : \A i \in Slots(n, t) : \A q \in Pids : AckAt(n, t, i) \notin hld[q]
  BY <1>1, <1>apart, <1>2, <1>3, Zenon
<1>9. /\ \A y \in w \cup {a} : y \in Nat /\ y < m.next_acknowledge_id
      /\ \A q \in Pids : hld[q] \subseteq w \cup {a}
  BY <1>1, <1>2, Zenon
<1> QED
  BY <1>1, <1>2, <1>5, <1>6, <1>7, <1>8, <1>9, Zenon DEF AcksOK

(* The process p that sent it is blocked, and no other sender wakes up.    *)
SenderAdded(m, n, blk, b, p, a) ==
  LET w == m.waiting_for_delivery
      v == n.waiting_for_delivery
  IN  /\ n.delivery_result = m.delivery_result
      /\ a \notin DOMAIN w /\ DOMAIN v = DOMAIN w \cup {a}
      /\ v[a].event = SenderEvent(a) /\ v[a].pid = p /\ \A y \in DOMAIN w : v[y] = w[y]
      /\ p \notin DOMAIN blk /\ p \in DOMAIN b /\ b[p] = {SenderEvent(a)}
      /\ \A q \in DOMAIN b : q # p => q \in DOMAIN blk /\ b[q] = blk[q]
      /\ \A q \in DOMAIN blk : (\E y : blk[q] = {SenderEvent(y)}) => q \in DOMAIN b

(* Process p, and no other, begins a deliver call.                         *)
BeginsDelivery(pend, pend2, p) ==
  /\ ~Delivering(pend, p) /\ Delivering(pend2, p)
  /\ \A q \in Pids : q # p => (Delivering(pend2, q) <=> Delivering(pend, q))

LEMMA SenderBlocks ==
  ASSUME NEW m, NEW n, NEW blk, NEW b, NEW pend, NEW pend2, NEW alv, NEW p \in Pids, NEW a,
         DOMAIN blk \subseteq Pids, SendersOK(m, blk, pend, alv),
         BeginsDelivery(pend, pend2, p), SenderAdded(m, n, blk, b, p, a)
  PROVE  SendersOK(n, b, pend2, alv)
<1>begins. /\ ~Delivering(pend, p) /\ Delivering(pend2, p)
           /\ \A q \in Pids : q # p => (Delivering(pend2, q) <=> Delivering(pend, q))
  BY Zenon DEF BeginsDelivery
<1> DEFINE w == m.waiting_for_delivery
           v == n.waiting_for_delivery
<1>1. \A y \in DOMAIN w : /\ w[y].event = SenderEvent(y) /\ w[y].pid \in DOMAIN blk
                          /\ blk[w[y].pid] = {SenderEvent(y)}
  BY Zenon DEF SendersOK
<1>sender. \A q \in DOMAIN blk : \A y : SenderEvent(y) \in blk[q] => y \in DOMAIN w /\ w[y].pid = q
  BY Zenon DEF SendersOK
<1>waits. \A q \in DOMAIN blk : Delivering(pend, q) <=> \E y \in DOMAIN w : SenderEvent(y) \in blk[q]
  BY Zenon DEF SendersOK
<1>results. /\ DOMAIN m.delivery_result \subseteq Pids
            /\ \A q \in DOMAIN m.delivery_result : m.delivery_result[q] # "wait"
  BY Zenon DEF SendersOK
<1>result. \A q \in Pids : q \in DOMAIN m.delivery_result <=>
             q \in alv /\ Delivering(pend, q) /\ q \notin DOMAIN blk
  BY Zenon DEF SendersOK
<1> HIDE DEF w, v
<1>2. /\ a \notin DOMAIN w /\ DOMAIN v = DOMAIN w \cup {a} /\ v[a].event = SenderEvent(a) /\ v[a].pid = p
      /\ n.delivery_result = m.delivery_result /\ \A y \in DOMAIN w : v[y] = w[y]
      /\ p \notin DOMAIN blk /\ p \in DOMAIN b /\ b[p] = {SenderEvent(a)}
      /\ \A q \in DOMAIN b : q # p => q \in DOMAIN blk /\ b[q] = blk[q]
      /\ \A q \in DOMAIN blk : (\E y : blk[q] = {SenderEvent(y)}) => q \in DOMAIN b
  BY Zenon DEF SenderAdded, w, v
<1>3. \A y \in DOMAIN w : w[y].pid \in DOMAIN b /\ w[y].pid # p
  BY <1>1, <1>2, Zenon
<1>4. \A q \in DOMAIN blk : Delivering(pend, q) => q \in DOMAIN b
  <2>1. ASSUME NEW q \in DOMAIN blk, NEW y \in DOMAIN w, SenderEvent(y) \in blk[q] PROVE q \in DOMAIN b
    <3>1. w[y].pid = q
      BY <1>sender, <2>1, Zenon
    <3> QED
      BY <1>3, <3>1, Zenon
  <2> QED
    BY <1>waits, <2>1, Zenon
<1>5. \A y \in DOMAIN v : /\ v[y].event = SenderEvent(y) /\ v[y].pid \in DOMAIN b
                          /\ b[v[y].pid] = {SenderEvent(y)}
  <2>1. ASSUME NEW y \in DOMAIN w
        PROVE  v[y].event = SenderEvent(y) /\ v[y].pid \in DOMAIN b /\ b[v[y].pid] = {SenderEvent(y)}
    <3>1. v[y] = w[y] /\ b[w[y].pid] = blk[w[y].pid]
      BY <1>2, <1>3, Zenon
    <3> QED
      BY <1>1, <1>3, <3>1, Zenon
  <2> QED
    BY <1>2, <2>1, Zenon
<1>6. \A q \in DOMAIN b : \A y : SenderEvent(y) \in b[q] => y \in DOMAIN v /\ v[y].pid = q
  <2> SUFFICES ASSUME NEW q \in DOMAIN b, NEW y, SenderEvent(y) \in b[q]
               PROVE  y \in DOMAIN v /\ v[y].pid = q
    BY Zenon
  <2>1. CASE q = p
    <3>1. y = a
      BY <1>2, <2>1, EventFacts, Zenon
    <3> QED
      BY <1>2, <2>1, <3>1, Zenon
  <2>2. CASE q # p
    <3>1. q \in DOMAIN blk /\ b[q] = blk[q]
      BY <1>2, <2>2, Zenon
    <3>2. y \in DOMAIN w /\ w[y].pid = q
      BY <1>sender, <3>1, Zenon
    <3> QED
      BY <1>2, <3>2, Zenon
  <2> QED
    BY <2>1, <2>2, Zenon
<1>7. \A q \in DOMAIN b : Delivering(pend2, q) <=> \E y \in DOMAIN v : SenderEvent(y) \in b[q]
  <2> SUFFICES ASSUME NEW q \in DOMAIN b
               PROVE  Delivering(pend2, q) <=> \E y \in DOMAIN v : SenderEvent(y) \in b[q]
    BY Zenon
  <2>1. CASE q = p
    BY <1>2, <1>begins, <2>1, Zenon
  <2>2. CASE q # p
    <3>1. q \in DOMAIN blk /\ b[q] = blk[q] /\ q \in Pids
      BY <1>2, <2>2, Zenon
    <3>2. (\E y \in DOMAIN v : SenderEvent(y) \in b[q]) <=> \E y \in DOMAIN w : SenderEvent(y) \in blk[q]
      BY <1>2, <1>sender, <3>1, Zenon
    <3> QED
      BY <1>begins, <1>waits, <2>2, <3>1, <3>2, Zenon
  <2> QED
    BY <2>1, <2>2, Zenon
<1>8. \A q \in Pids : q \in DOMAIN m.delivery_result <=>
        q \in alv /\ Delivering(pend2, q) /\ q \notin DOMAIN b
  <2> SUFFICES ASSUME NEW q \in Pids
               PROVE  q \in DOMAIN m.delivery_result <=> q \in alv /\ Delivering(pend2, q) /\ q \notin DOMAIN b
    BY Zenon
  <2>1. CASE q = p
    BY <1>2, <1>begins, <1>result, <2>1, Zenon
  <2>2. CASE q # p
    BY <1>2, <1>begins, <1>result, <1>4, <2>2, Zenon
  <2> QED
    BY <2>1, <2>2, Zenon
<1> QED
  BY <1>2, <1>results, <1>5, <1>6, <1>7, <1>8, Zenon DEF SendersOK, v

(* Process p no longer holds the message with acknowledge id a.            *)
GivesBack(p, a, hld, hld2) == \A q \in Pids : hld2[q] = IF q = p THEN hld[p] \ {a} ELSE hld[q]

LEMMA AckTaken ==
  ASSUME NEW m, NEW n, NEW hld, NEW hld2, NEW p \in Pids, NEW a \in hld[p],
         AcksOK(m, hld), GivesBack(p, a, hld, hld2), Boxes(n) = Boxes(m),
         \A t : Slots(n, t) = Slots(m, t) /\ \A i : AckAt(n, t, i) = AckAt(m, t, i),
         DOMAIN n.waiting_for_delivery = DOMAIN m.waiting_for_delivery \ {a},
         n.next_acknowledge_id = m.next_acknowledge_id
  PROVE  AcksOK(n, hld2)
<1> DEFINE w == DOMAIN m.waiting_for_delivery
<1>1. \A y \in w : y \in Nat /\ y < m.next_acknowledge_id
  BY Zenon DEF AcksOK
<1>known. \A t \in Boxes(m) : \A i \in Slots(m, t) : AckAt(m, t, i) # None => AckAt(m, t, i) \in w
  BY Zenon DEF AcksOK
<1>held. \A q \in Pids : hld[q] \subseteq w
  BY Zenon DEF AcksOK
<1>placed. \A y \in w : \/ \E t \in Boxes(m) : \E i \in Slots(m, t) : AckAt(m, t, i) = y
                        \/ \E q \in Pids : y \in hld[q]
  BY Zenon DEF AcksOK
<1>once. \A t, u \in Boxes(m) : \A i \in Slots(m, t), j \in Slots(m, u) :
           AckAt(m, t, i) # None /\ AckAt(m, t, i) = AckAt(m, u, j) => t = u /\ i = j
  BY Zenon DEF AcksOK
<1>apart. \A t \in Boxes(m) : \A i \in Slots(m, t) : \A q \in Pids : AckAt(m, t, i) \notin hld[q]
  BY Zenon DEF AcksOK
<1>alone. \A q, z \in Pids : \A y \in hld[q] : y \in hld[z] => q = z
  BY Zenon DEF AcksOK
<1>2. DOMAIN n.waiting_for_delivery = w \ {a}
  BY Zenon
<1> HIDE DEF w
<1>3. /\ \A q \in Pids : hld2[q] \subseteq hld[q] /\ a \notin hld2[q]
      /\ \A q \in Pids : \A y \in hld[q] : y # a => y \in hld2[q]
  BY <1>alone, Zenon DEF GivesBack
<1>4. \A t \in Boxes(m) : \A i \in Slots(m, t) : AckAt(m, t, i) # None => AckAt(m, t, i) \in w \ {a}
  BY <1>known, <1>apart, ZenonT(30)
<1>5. \A q \in Pids : hld2[q] \subseteq w \ {a}
  BY <1>held, <1>3, Zenon
<1>6. \A y \in w \ {a} : \/ \E t \in Boxes(m) : \E i \in Slots(m, t) : AckAt(m, t, i) = y
                         \/ \E q \in Pids : y \in hld2[q]
  BY <1>placed, <1>3, Zenon
<1>7. \A t \in Boxes(m) : \A i \in Slots(m, t) : \A q \in Pids : AckAt(m, t, i) \notin hld2[q]
  BY <1>apart, <1>3, Zenon
<1>8. \A q, z \in Pids : \A y \in hld2[q] : y \in hld2[z] => q = z
  BY <1>alone, <1>3, Zenon
<1>9. \A y \in w \ {a} : y \in Nat /\ y < n.next_acknowledge_id
  BY ONLY <1>1, n.next_acknowledge_id = m.next_acknowledge_id, Zenon
<1>10. \A t : Slots(n, t) = Slots(m, t) /\ \A i : AckAt(n, t, i) = AckAt(m, t, i)
  BY Zenon
<1>11. Boxes(n) = Boxes(m)
  OBVIOUS
<1> DEFINE v == DOMAIN n.waiting_for_delivery
<1>12. \A t \in Boxes(n) : \A i \in Slots(n, t) : AckAt(n, t, i) # None => AckAt(n, t, i) \in v
  BY ONLY <1>2, <1>4, <1>10, <1>11, Zenon
<1>13. \A y \in v : \/ \E t \in Boxes(n) : \E i \in Slots(n, t) : AckAt(n, t, i) = y
                    \/ \E q \in Pids : y \in hld2[q]
  BY ONLY <1>2, <1>6, <1>10, <1>11, ZenonT(30)
<1>14. \A t, u \in Boxes(n) : \A i \in Slots(n, t), j \in Slots(n, u) :
         AckAt(n, t, i) # None /\ AckAt(n, t, i) = AckAt(n, u, j) => t = u /\ i = j
  BY ONLY <1>once, <1>10, <1>11
<1>15. \A t \in Boxes(n) : \A i \in Slots(n, t) : \A q \in Pids : AckAt(n, t, i) \notin hld2[q]
  BY ONLY <1>7, <1>10, <1>11, Zenon
<1>16. /\ \A y \in v : y \in Nat /\ y < n.next_acknowledge_id
       /\ \A q \in Pids : hld2[q] \subseteq v
  BY ONLY <1>2, <1>5, <1>9, Zenon
<1> QED
  BY ONLY <1>8, <1>12, <1>13, <1>14, <1>15, <1>16, Zenon DEF AcksOK

(* The first message of mailbox s is taken by process p.                   *)
LEMMA Pop ==
  ASSUME NEW m, NEW blk, NEW pend, NEW hld, NEW alv, NEW p \in Pids, NEW s \in Boxes(m),
         NEW hld2, IpcOK(m, blk, pend, hld, alv), Box(m, s).queue # <<>>,
         \A q \in Pids : hld2[q] = IF q = p THEN hld[p] \cup ({AckAt(m, s, 1)} \ {None}) ELSE hld[q]
  PROVE  IpcOK(pop(m, s), blk, pend, hld2, alv)
<1> DEFINE n == pop(m, s)
           w == m.waiting_for_delivery
           x == AckAt(m, s, 1)
<1>1. ManagerOK(m)
  BY Zenon DEF IpcOK
<1>2. /\ OnlyMailboxes(m, n)
      /\ Box(n, s) = Popped(Box(m, s))
      /\ \A t \in Boxes(m) : t # s => Box(n, t) = Box(m, t)
  <2> DEFINE b == Popped(Box(m, s))
             z == Replace(m, s, b)
  <2>1. n = z
    BY Zenon DEF Box, pop, Replace
  <2>2. OneChanged(m, z, s, b)
    <3> HIDE DEF b
    <3> QED
      BY <1>1, OneMailbox, Zenon
  <2> HIDE DEF n, z
  <2> QED
    BY <2>1, <2>2, Zenon DEF OneChanged
<1>3. \A t \in Boxes(m) : BoxOK(Box(m, t))
  BY <1>1, Zenon DEF ManagerOK
<1> HIDE DEF n
<1>4. /\ IsMailbox(Box(n, s)) /\ Box(n, s).queue = Tail(Box(m, s).queue)
      /\ Box(n, s).kernel = Box(m, s).kernel /\ Box(n, s).event = Box(m, s).event
      /\ Box(n, s).pipe_mode = Box(m, s).pipe_mode
      /\ Box(n, s).peer = Box(m, s).peer
  BY <1>2, PoppedFields, Zenon
<1>5. /\ 1 \in Slots(m, s) /\ IsSeq(Box(n, s).queue)
      /\ \A i \in Slots(n, s) : /\ i + 1 \in Slots(m, s) /\ i + 1 # 1
                                /\ Box(n, s).queue[i] = Box(m, s).queue[i + 1]
      /\ \A i \in Slots(m, s) : i # 1 => /\ i - 1 \in Slots(n, s)
                                         /\ Box(n, s).queue[i - 1] = Box(m, s).queue[i]
      /\ Slots(n, s) \subseteq Int
  <2>1. IsSeq(Box(m, s).queue)
    BY <1>3, Zenon DEF BoxOK
  <2> QED
    <3> DEFINE q == Box(m, s).queue
    <3>1. IsSeq(q) /\ q # <<>>
      BY <2>1, Zenon
    <3> HIDE DEF q
    <3>2. /\ 1 \in DOMAIN q /\ IsSeq(Tail(q))
          /\ \A i \in DOMAIN Tail(q) : i + 1 \in DOMAIN q /\ i + 1 # 1 /\ Tail(q)[i] = q[i + 1]
          /\ \A i \in DOMAIN q : i # 1 => i - 1 \in DOMAIN Tail(q) /\ Tail(q)[i - 1] = q[i]
          /\ DOMAIN Tail(q) \subseteq Int
      BY <3>1, TailFacts
    <3> QED
      BY <1>4, <3>2, Zenon DEF q, Slots
<1>6. \A t \in Boxes(m) : BoxOK(Box(n, t))
  <2>1. BoxOK(Box(n, s))
    <3>1. BoxOK(Box(m, s))
      BY <1>3, Zenon
    <3> QED
      <4> DEFINE b == Box(n, s)
      <4>1. /\ IsMailbox(b) /\ IsSeq(b.queue) /\ b.pipe_mode \in {"None", "ConnectedTo"}
            /\ b.kernel \in BOOLEAN /\ b.event \in BOOLEAN
        BY <3>1, <1>4, <1>5, ZenonT(30) DEF BoxOK
      <4>2. \A i \in DOMAIN b.queue : /\ b.queue[i].ack \in Nat \cup {None}
                                      /\ b.pipe_mode # "None" => b.queue[i].ack # None
        <5>1. \A i \in DOMAIN Box(m, s).queue :
                /\ Box(m, s).queue[i].ack \in Nat \cup {None}
                /\ Box(m, s).pipe_mode # "None" => Box(m, s).queue[i].ack # None
          BY <3>1, Zenon DEF BoxOK
        <5>2. \A i \in DOMAIN b.queue : i + 1 \in DOMAIN Box(m, s).queue /\ b.queue[i] = Box(m, s).queue[i + 1]
          BY <1>5, Zenon DEF Slots
        <5>3. b.pipe_mode = Box(m, s).pipe_mode
          BY <1>4, Zenon
        <5> HIDE DEF b
        <5> SUFFICES ASSUME NEW i \in DOMAIN b.queue
                     PROVE  /\ b.queue[i].ack \in Nat \cup {None}
                            /\ b.pipe_mode # "None" => b.queue[i].ack # None
          BY Zenon
        <5>4. i + 1 \in DOMAIN Box(m, s).queue /\ b.queue[i] = Box(m, s).queue[i + 1]
          BY <5>2, Zenon
        <5> QED
          BY <5>1, <5>3, <5>4, Zenon
      <4> QED
        BY <4>1, <4>2, Zenon DEF BoxOK
  <2> QED
    BY <2>1, <1>2, <1>3, Zenon
<1>7. ManagerOK(n)
  BY <1>1, <1>2, <1>6, MailboxesManager, Zenon
<1>8. OwnersOK(n, alv)
  BY <1>2, <1>4, FrameOwners, Zenon DEF IpcOK
<1>9. AcksOK(n, hld2)
  <2>0. AcksOK(m, hld)
    BY Zenon DEF IpcOK
  <2>1. \A a \in DOMAIN w : a \in Nat /\ a < m.next_acknowledge_id
    BY <2>0, Zenon DEF AcksOK
  <2>known. \A t \in Boxes(m) : \A i \in Slots(m, t) : AckAt(m, t, i) # None => AckAt(m, t, i) \in DOMAIN w
    BY <2>0, Zenon DEF AcksOK
  <2>held. \A q \in Pids : hld[q] \subseteq DOMAIN w
    BY <2>0, Zenon DEF AcksOK
  <2>placed. \A a \in DOMAIN w : \/ \E t \in Boxes(m) : \E i \in Slots(m, t) : AckAt(m, t, i) = a
                                 \/ \E q \in Pids : a \in hld[q]
    BY <2>0, Zenon DEF AcksOK
  <2>once. \A t, u \in Boxes(m) : \A i \in Slots(m, t), j \in Slots(m, u) :
             AckAt(m, t, i) # None /\ AckAt(m, t, i) = AckAt(m, u, j) => t = u /\ i = j
    BY <2>0, Zenon DEF AcksOK
  <2>apart. \A t \in Boxes(m) : \A i \in Slots(m, t) : \A q \in Pids : AckAt(m, t, i) \notin hld[q]
    BY <2>0, Zenon DEF AcksOK
  <2>alone. \A q, v \in Pids : \A a \in hld[q] : a \in hld[v] => q = v
    BY <2>0, Zenon DEF AcksOK
  <2>2. n.waiting_for_delivery = w /\ n.next_acknowledge_id = m.next_acknowledge_id /\ Boxes(n) = Boxes(m)
    BY <1>2, Zenon DEF OnlyMailboxes
  <2>3. /\ \A i \in Slots(n, s) : i + 1 \in Slots(m, s) /\ i + 1 # 1 /\ AckAt(n, s, i) = AckAt(m, s, i + 1)
        /\ \A i \in Slots(m, s) : i # 1 => i - 1 \in Slots(n, s) /\ AckAt(n, s, i - 1) = AckAt(m, s, i)
        /\ \A t \in Boxes(m) : t # s => Slots(n, t) = Slots(m, t) /\ \A i \in Slots(m, t) : AckAt(n, t, i) = AckAt(m, t, i)
    BY <1>2, <1>5, Zenon DEF Slots, AckAt
  <2> HIDE DEF w, x
  <2>4. \A t \in Boxes(m) : \A i \in Slots(n, t) : \E j \in Slots(m, t) :
          AckAt(n, t, i) = AckAt(m, t, j) /\ (t = s => j # 1)
    BY <2>3, Zenon
  <2>5. \A t \in Boxes(m) : \A i \in Slots(n, t) : AckAt(n, t, i) # None => AckAt(n, t, i) # x
    <3> SUFFICES ASSUME NEW t \in Boxes(m), NEW i \in Slots(n, t), AckAt(n, t, i) # None,
                        AckAt(n, t, i) = AckAt(m, s, 1)
                 PROVE  FALSE
      BY Zenon DEF x
    <3>1. PICK j \in Slots(m, t) : AckAt(n, t, i) = AckAt(m, t, j) /\ (t = s => j # 1)
      BY <2>4, Zenon
    <3>2. AckAt(m, t, j) # None /\ AckAt(m, t, j) = AckAt(m, s, 1) /\ 1 \in Slots(m, s)
      BY <1>5, <3>1, Zenon
    <3>3. t = s /\ j = 1
      BY ONLY <2>once, <3>1, <3>2, t \in Boxes(m), s \in Boxes(m), SMT
    <3> QED
      BY <3>1, <3>3, Zenon
  <2>6. \A a \in DOMAIN w : \/ \E t \in Boxes(m) : \E i \in Slots(n, t) : AckAt(n, t, i) = a
                            \/ \E q \in Pids : a \in hld2[q]
    <3>1. ASSUME NEW q \in Pids, NEW a \in hld[q] PROVE a \in hld2[q]
      BY Zenon
    <3>2. ASSUME NEW a \in DOMAIN w, NEW t \in Boxes(m), NEW i \in Slots(m, t), AckAt(m, t, i) = a
          PROVE  \/ \E u \in Boxes(m) : \E j \in Slots(n, u) : AckAt(n, u, j) = a
                 \/ \E q \in Pids : a \in hld2[q]
      <4>1. CASE t = s /\ i = 1
        <5>1. a # None
          BY <2>1, KernelAssumption, Zenon
        <5>2. a \in hld2[p]
          BY <3>2, <4>1, <5>1, Zenon
        <5> QED
          BY <5>2, Zenon
      <4>2. CASE ~(t = s /\ i = 1)
        BY <3>2, <4>2, <2>3, ZenonT(30)
      <4> QED
        BY <4>1, <4>2, Zenon
    <3> QED
      BY <2>placed, <3>1, <3>2, Zenon
  <2>7. \A t, u \in Boxes(m) : \A i \in Slots(n, t), j \in Slots(n, u) :
          AckAt(n, t, i) # None /\ AckAt(n, t, i) = AckAt(n, u, j) => t = u /\ i = j
    <3> SUFFICES ASSUME NEW t \in Boxes(m), NEW u \in Boxes(m), NEW i \in Slots(n, t), NEW j \in Slots(n, u),
                        AckAt(n, t, i) # None, AckAt(n, t, i) = AckAt(n, u, j)
                 PROVE  t = u /\ i = j
      BY Zenon
    <3>0. \A v \in Boxes(m) : \A k, l \in Slots(m, v) :
            AckAt(m, v, k) # None /\ AckAt(m, v, k) = AckAt(m, v, l) => k = l
      BY ONLY <2>once, SMT
    <3>1. t = u
      <4>1. PICK k \in Slots(m, t) : AckAt(n, t, i) = AckAt(m, t, k)
        BY <2>4, Zenon
      <4>2. PICK l \in Slots(m, u) : AckAt(n, u, j) = AckAt(m, u, l)
        BY <2>4, Zenon
      <4>3. AckAt(m, t, k) # None /\ AckAt(m, t, k) = AckAt(m, u, l)
        BY <4>1, <4>2, Zenon
      <4> QED
        BY <2>once, <4>3, Zenon
    <3>2. CASE t = s
      <4>1. /\ i + 1 \in Slots(m, s) /\ AckAt(n, s, i) = AckAt(m, s, i + 1)
            /\ j + 1 \in Slots(m, s) /\ AckAt(n, s, j) = AckAt(m, s, j + 1)
        BY <2>3, <3>1, <3>2, Zenon
      <4>2. AckAt(m, s, i + 1) # None /\ AckAt(m, s, i + 1) = AckAt(m, s, j + 1)
        BY <3>1, <3>2, <4>1, Zenon
      <4>3. i + 1 = j + 1
        BY <3>0, <4>1, <4>2, Zenon
      <4>4. i \in Int /\ j \in Int
        BY <1>5, <3>1, <3>2, Zenon
      <4>5. i = j
        BY ONLY <4>3, <4>4
      <4> QED
        BY <3>1, <4>5
    <3>3. CASE t # s
      <4>1. i \in Slots(m, t) /\ j \in Slots(m, t) /\ AckAt(m, t, i) # None /\ AckAt(m, t, i) = AckAt(m, t, j)
        BY <2>3, <3>1, <3>3, Zenon
      <4> QED
        BY <3>0, <3>1, <4>1, Zenon
    <3> QED
      BY <3>2, <3>3, Zenon
  <2>8. \A t \in Boxes(m) : \A i \in Slots(n, t) : \A q \in Pids : AckAt(n, t, i) \notin hld2[q]
    <3>1. \A t \in Boxes(m) : \A i \in Slots(n, t) : \A q \in Pids : AckAt(n, t, i) \notin hld[q]
      BY <2>apart, <2>4, Zenon
    <3> QED
      BY <3>1, <2>5, Zenon DEF x
  <2>9. \A q \in Pids : hld2[q] \subseteq DOMAIN w
    <3>1. {AckAt(m, s, 1)} \ {None} \subseteq DOMAIN w
      BY <2>known, <1>5, ZenonT(30)
    <3> QED
      BY <2>held, <3>1, Zenon
  <2>10. \A q, v \in Pids : \A a \in hld2[q] : a \in hld2[v] => q = v
    <3>1. \A q \in Pids : AckAt(m, s, 1) \notin hld[q]
      BY <2>apart, <1>5, Zenon
    <3>2. ASSUME NEW q \in Pids, NEW a \in hld2[q] PROVE a \in hld[q] \/ (q = p /\ a = AckAt(m, s, 1))
      BY Zenon
    <3>3. ASSUME NEW q \in Pids, NEW v \in Pids, NEW a \in hld2[q], a \in hld2[v] PROVE q = v
      <4>1. /\ a \in hld[q] \/ (q = p /\ a = AckAt(m, s, 1))
            /\ a \in hld[v] \/ (v = p /\ a = AckAt(m, s, 1))
        BY <3>2, <3>3, Zenon
      <4> QED
        BY <2>alone, <3>1, <4>1, Zenon
    <3> QED
      BY <3>3, Zenon
  <2>11. \A t \in Boxes(m) : \A i \in Slots(n, t) : AckAt(n, t, i) # None => AckAt(n, t, i) \in DOMAIN w
    BY <2>known, <2>4, Zenon
  <2> QED
    BY <2>1, <2>2, <2>6, <2>7, <2>8, <2>9, <2>10, <2>11, ZenonT(30) DEF AcksOK, w
<1>10. WaitersOK(n, blk)
  BY <1>2, ZenonT(30) DEF NextId, IpcOK, WaitersOK, OnlyMailboxes
<1>11. SendersOK(n, blk, pend, alv)
  <2>1. /\ SendersOK(m, blk, pend, alv) /\ n.waiting_for_delivery = m.waiting_for_delivery
        /\ n.delivery_result = m.delivery_result
    BY <1>2, Zenon DEF IpcOK, OnlyMailboxes
  <2> QED
    BY <2>1, Zenon DEF SendersOK
<1>12. PipesOK(n, alv)
  <2> SUFFICES ASSUME NEW t \in Boxes(m), Box(n, t).pipe_mode = "ConnectedTo"
               PROVE  /\ Box(n, t).peer \in alv
                      /\ \A i \in Slots(n, t) : w[AckAt(n, t, i)].pid = Box(n, t).peer
    BY <1>2, ZenonT(30) DEF PipesOK, OnlyMailboxes
  <2>1. Box(m, t).pipe_mode = "ConnectedTo" /\ Box(n, t).peer = Box(m, t).peer
    BY <1>2, <1>4, Zenon
  <2>2. \A i \in Slots(n, t) : \E j \in Slots(m, t) : AckAt(n, t, i) = AckAt(m, t, j)
    <3>1. CASE t = s
      BY <3>1, <1>5, Zenon DEF Slots, AckAt
    <3>2. CASE t # s
      BY <3>2, <1>2, Zenon DEF Slots, AckAt
    <3> QED
      BY <3>1, <3>2, Zenon
  <2>3. /\ Box(m, t).peer \in alv
        /\ \A i \in Slots(m, t) : w[AckAt(m, t, i)].pid = Box(m, t).peer
    BY <2>1, Zenon DEF IpcOK, PipesOK
  <2> QED
    BY <2>1, <2>2, <2>3, Zenon
<1> QED
  BY <1>7, <1>8, <1>9, <1>10, <1>11, <1>12, Zenon DEF IpcOK, n

(* The processes that wait once call r of p ended.                         *)
After(r, blk, p) ==
  IF r.res = "wait" THEN Put(Wake(blk, r.events), p, r.wait) ELSE Wake(blk, r.events)

LEMMA Receive ==
  ASSUME NEW m, NEW blk, NEW pend, NEW hld, NEW alv, NEW p \in Pids, NEW s, NEW hld2,
         IsMap(blk), DOMAIN blk \subseteq Pids, IpcOK(m, blk, pend, hld, alv),
         p \in alv, p \notin DOMAIN blk, ~Delivering(pend, p),
         \A q \in Pids : hld2[q] = IF q = p /\ receive(m, p, s).res = "ok"
                                   THEN hld[p] \cup ({Head(Box(m, s).queue).ack} \ {None})
                                   ELSE hld[q]
  PROVE  LET r == receive(m, p, s)
         IN  IpcOK(r.m, After(r, blk, p), pend, hld2, alv)
<1> DEFINE r == receive(m, p, s)
           n == GetEvents(m, {s})
<1>1. Wake(blk, {}) = blk
  BY WakeNone, Zenon
<1>2. ASSUME \A q \in Pids : hld2[q] = hld[q], NEW k, IpcOK(k, blk, pend, hld, alv)
      PROVE  IpcOK(k, blk, pend, hld2, alv)
  BY <1>2, Zenon DEF IpcOK, AcksOK
<1>3. CASE s \notin Boxes(m) \/ ~process_owns(m, p, s)
  <2>1. r.m = m /\ r.res \notin {"ok", "wait"} /\ r.events = {}
    BY <1>3, Zenon DEF receive, Result, Boxes
  <2> HIDE DEF r
  <2>2. IpcOK(r.m, After(r, blk, p), pend, hld2, alv)
    <3>1. After(r, blk, p) = blk /\ \A q \in Pids : hld2[q] = hld[q]
      BY <2>1, <1>1, Zenon DEF After, r
    <3> QED
      BY <3>1, <2>1, <1>2, Zenon
  <2> QED
    BY <2>2, Zenon DEF r
<1>4. CASE s \in Boxes(m) /\ process_owns(m, p, s) /\ Box(m, s).queue = <<>>
  <2>1. r = Wait(n, {MailboxEvent(s)}, {})
    BY <1>4, Zenon DEF Box, receive, Boxes
  <2>2. r.m = n /\ r.res = "wait" /\ r.events = {} /\ r.wait = {MailboxEvent(t) : t \in {s}}
    BY <2>1 DEF Wait
  <2>3. /\ IpcOK(n, blk, pend, hld, alv) /\ Boxes(n) = Boxes(m)
        /\ Box(n, s).queue = <<>> /\ Box(n, s).event
    <3>1. IpcOK(n, blk, pend, hld, alv) /\ HaveEvents(m, n, {s})
      BY Events, Zenon
    <3> HIDE DEF n
    <3> QED
      BY <3>1, <1>4, Zenon DEF HaveEvents
  <2> HIDE DEF r, n
  <2>4. IpcOK(n, Put(blk, p, {MailboxEvent(t) : t \in {s}}), pend, hld, alv)
    BY <2>3, <1>4, WaitForMail, Zenon
  <2>5. \A q \in Pids : hld2[q] = hld[q]
    BY <2>2, Zenon DEF r
  <2>6. IpcOK(n, Put(blk, p, {MailboxEvent(t) : t \in {s}}), pend, hld2, alv)
    BY <2>4, <2>5, Zenon DEF IpcOK, AcksOK
  <2>7. IpcOK(r.m, After(r, blk, p), pend, hld2, alv)
    BY <2>2, <2>6, <1>1, Zenon DEF After
  <2> QED
    BY <2>7, Zenon DEF r
<1>5. CASE s \in Boxes(m) /\ process_owns(m, p, s) /\ Box(m, s).queue # <<>>
  <2>1. r = Result(pop(m, s), "ok", {})
    BY <1>5, Zenon DEF Box, receive, Boxes
  <2>2. r.m = pop(m, s) /\ r.res = "ok" /\ r.events = {}
    BY ONLY <2>1, SMT DEF Result
  <2> HIDE DEF r
  <2>3. IsSeq(Box(m, s).queue)
    BY <1>5, Zenon DEF IpcOK, ManagerOK, BoxOK
  <2>4. AckAt(m, s, 1) = Head(Box(m, s).queue).ack
    BY <2>3, <1>5, TailFacts, Zenon DEF AckAt
  <2>5. IpcOK(pop(m, s), blk, pend, hld2, alv)
    <3>1. \A q \in Pids : hld2[q] = IF q = p THEN hld[p] \cup ({AckAt(m, s, 1)} \ {None}) ELSE hld[q]
      BY <2>2, <2>4, Zenon DEF r
    <3> QED
      BY <1>5, <3>1, Pop, Zenon
  <2>6. IpcOK(r.m, After(r, blk, p), pend, hld2, alv)
    BY <2>2, <2>5, <1>1, Zenon DEF After
  <2> QED
    BY <2>6, Zenon DEF r
<1> QED
  BY <1>3, <1>4, <1>5, Zenon

LEMMA Select ==
  ASSUME NEW m, NEW blk, NEW pend, NEW hld, NEW alv, NEW p \in Pids, NEW subs, NEW blocking,
         IsMap(blk), DOMAIN blk \subseteq Pids, IpcOK(m, blk, pend, hld, alv),
         p \notin DOMAIN blk, ~Delivering(pend, p), select(m, subs, blocking).res # "panic"
  PROVE  LET r == select(m, subs, blocking)
         IN  IpcOK(r.m, After(r, blk, p), pend, hld, alv)
<1> DEFINE ready_ == {i \in DOMAIN subs : m.mailboxes[subs[i]].queue # <<>>}
           asked == {subs[i] : i \in {j \in DOMAIN subs : \A k \in ready_ : j < k}}
           n     == GetEvents(m, asked)
           r     == select(m, subs, blocking)
<1>1. /\ \A i \in DOMAIN subs : subs[i] \in Boxes(m)
      /\ \/ r.res # "wait" /\ r.m = n /\ r.events = {}
         \/ /\ ready_ = {} /\ r.res = "wait" /\ r.m = n /\ r.events = {}
            /\ r.wait = {MailboxEvent(s) : s \in asked}
  BY Zenon DEF select, Wait, Result, Panic, Boxes
<1>2. /\ asked \subseteq Boxes(m)
      /\ ready_ = {} => \A s \in asked : Box(m, s).queue = <<>>
  BY <1>1, Zenon DEF Box
<1> HIDE DEF ready_, asked
<1>3. IpcOK(n, blk, pend, hld, alv) /\ HaveEvents(m, n, asked)
  BY Events, Zenon
<1> HIDE DEF n, r
<1>4. Wake(blk, {}) = blk
  BY WakeNone, Zenon
<1>5. CASE r.res # "wait"
  <2>1. IpcOK(r.m, After(r, blk, p), pend, hld, alv)
    BY <1>1, <1>3, <1>4, <1>5, Zenon DEF After
  <2> QED
    BY <2>1, Zenon DEF r
<1>6. CASE r.res = "wait"
  <2>1. IpcOK(n, Put(blk, p, {MailboxEvent(s) : s \in asked}), pend, hld, alv)
    BY <1>1, <1>2, <1>3, <1>6, WaitForMail, Zenon DEF HaveEvents
  <2>2. IpcOK(r.m, After(r, blk, p), pend, hld, alv)
    BY <1>1, <1>4, <1>6, <2>1, Zenon DEF After
  <2> QED
    BY <2>2, Zenon DEF r
<1> QED
  BY <1>5, <1>6, Zenon

(* Process p acknowledges a message: the sender has a result and wakes up. *)
LEMMA Acknowledge ==
  ASSUME NEW m, NEW blk, NEW pend, NEW hld, NEW alv, NEW p \in Pids, NEW a \in hld[p], NEW positive,
         NEW hld2, IsMap(blk), DOMAIN blk \subseteq Pids, DOMAIN blk \subseteq alv,
         IpcOK(m, blk, pend, hld, alv), GivesBack(p, a, hld, hld2)
  PROVE  LET r == acknowledge(m, a, positive)
         IN  IpcOK(r.m, Wake(blk, r.events), pend, hld2, alv) /\ r.res = "ok"
<1> DEFINE w == m.waiting_for_delivery
           z == w[a].pid
           e == IF positive THEN "ok" ELSE "NegativeAcknowledgement"
           v == Drop(w, {a})
           u == Put(m.delivery_result, z, e)
           k == SetWaiting(m, v)
           n == SetResults(k, u)
           b == Wake(blk, {SenderEvent(a)})
           r == acknowledge(m, a, positive)
<1>0. \A q \in Pids : hld2[q] = IF q = p THEN hld[p] \ {a} ELSE hld[q]
  BY Zenon DEF GivesBack
<1>acks. AcksOK(m, hld) /\ SendersOK(m, blk, pend, alv)
  BY Zenon DEF IpcOK
<1>known. \A t \in Boxes(m) : \A i \in Slots(m, t) : AckAt(m, t, i) # None => AckAt(m, t, i) \in DOMAIN w
  BY <1>acks, Zenon DEF AcksOK
<1>held. \A q \in Pids : hld[q] \subseteq DOMAIN w
  BY <1>acks, Zenon DEF AcksOK
<1>apart. \A t \in Boxes(m) : \A i \in Slots(m, t) : \A q \in Pids : AckAt(m, t, i) \notin hld[q]
  BY <1>acks, Zenon DEF AcksOK
<1>2. \A x \in DOMAIN w : /\ w[x].event = SenderEvent(x) /\ w[x].pid \in DOMAIN blk
                          /\ blk[w[x].pid] = {SenderEvent(x)}
  BY <1>acks, Zenon DEF SendersOK
<1>sender. \A q \in DOMAIN blk : \A x : SenderEvent(x) \in blk[q] => x \in DOMAIN w /\ w[x].pid = q
  BY <1>acks, Zenon DEF SendersOK
<1>waits. \A q \in DOMAIN blk : Delivering(pend, q) <=> \E x \in DOMAIN w : SenderEvent(x) \in blk[q]
  BY <1>acks, Zenon DEF SendersOK
<1>results. /\ DOMAIN m.delivery_result \subseteq Pids
            /\ \A q \in DOMAIN m.delivery_result : m.delivery_result[q] # "wait"
  BY <1>acks, Zenon DEF SendersOK
<1>result. \A q \in Pids : q \in DOMAIN m.delivery_result <=>
             q \in alv /\ Delivering(pend, q) /\ q \notin DOMAIN blk
  BY <1>acks, Zenon DEF SendersOK
<1>3. a \in DOMAIN w
  BY <1>held, Zenon
<1>4. r = Result(n, "ok", {SenderEvent(a)})
  BY <1>2, <1>3, Zenon DEF acknowledge, SetWaiting, SetResults
<1>5. IsManager(m) /\ e # "wait"
  BY Zenon DEF IpcOK, ManagerOK
<1> HIDE DEF w, z, e
<1>6. /\ IsMap(v) /\ DOMAIN v = DOMAIN w \ {a} /\ \A x \in DOMAIN w \ {a} : v[x] = w[x]
      /\ IsMap(u) /\ DOMAIN u = DOMAIN m.delivery_result \cup {z} /\ u[z] = e
      /\ \A q \in DOMAIN m.delivery_result : q # z => u[q] = m.delivery_result[q]
  <2>1. IsMap(v) /\ DOMAIN v = DOMAIN w \ {a} /\ \A x \in DOMAIN w \ {a} : v[x] = w[x]
    BY Zenon DEF Drop, Restrict, IsMap
  <2>2. /\ IsMap(u) /\ DOMAIN u = DOMAIN m.delivery_result \cup {z} /\ u[z] = e
        /\ \A q \in DOMAIN m.delivery_result : q # z => u[q] = m.delivery_result[q]
    BY Zenon DEF Put, IsMap
  <2> QED
    BY <2>1, <2>2, Zenon
<1>7. /\ \A q \in DOMAIN b : q \in DOMAIN blk /\ b[q] = blk[q] /\ SenderEvent(a) \notin b[q]
      /\ \A q \in DOMAIN blk : SenderEvent(a) \notin blk[q] => q \in DOMAIN b
  BY Zenon DEF Wake, WaitingFor, Drop, Restrict
<1> HIDE DEF v, u, b
<1>8. /\ IsManager(n) /\ n.waiting_for_delivery = v /\ n.delivery_result = u
      /\ n.subscriptions = m.subscriptions /\ n.mailboxes = m.mailboxes
      /\ n.next_acknowledge_id = m.next_acknowledge_id
      /\ n.process_subscriptions = m.process_subscriptions
  <2>1. /\ IsManager(k) /\ k.waiting_for_delivery = v
        /\ k.subscriptions = m.subscriptions
        /\ k.mailboxes = m.mailboxes
        /\ k.delivery_result = m.delivery_result
        /\ k.next_acknowledge_id = m.next_acknowledge_id
        /\ k.process_subscriptions = m.process_subscriptions
    BY <1>5, SetWaitingFields, Zenon
  <2> HIDE DEF k
  <2>2. /\ IsManager(n) /\ n.delivery_result = u
        /\ n.subscriptions = k.subscriptions
        /\ n.mailboxes = k.mailboxes
        /\ n.waiting_for_delivery = k.waiting_for_delivery
        /\ n.next_acknowledge_id = k.next_acknowledge_id
        /\ n.process_subscriptions = k.process_subscriptions
    BY <2>1, SetResultsFields, Zenon
  <2> QED
    BY <2>1, <2>2, Zenon
<1> HIDE DEF k, n, r
<1>9. \A q \in DOMAIN blk : q \in DOMAIN b <=> q # z
  <2>1. ASSUME NEW q \in DOMAIN blk, q # z PROVE SenderEvent(a) \notin blk[q]
    BY <1>sender, <2>1, Zenon DEF z
  <2>2. z \in DOMAIN blk /\ SenderEvent(a) \in blk[z]
    BY <1>2, <1>3, Zenon DEF z
  <2>3. z \notin DOMAIN b
    BY <1>7, <2>2, Zenon
  <2> QED
    BY <1>7, <2>1, <2>3, Zenon
<1>10. Boxes(n) = Boxes(m) /\ \A t : Slots(n, t) = Slots(m, t) /\ \A i : AckAt(n, t, i) = AckAt(m, t, i)
  BY <1>8, ZenonT(30) DEF Box, Boxes, Slots, AckAt
<1>11. ManagerOK(n)
  <2>1. ManagerOK(m)
    BY Zenon DEF IpcOK
  <2>2. /\ NextId(n) = NextId(m) /\ Listed(n) = Listed(m) /\ Boxes(n) = Boxes(m)
        /\ \A t : Box(n, t) = Box(m, t)
    BY <1>8, <1>10, Zenon DEF NextId, Listed, Box
  <2> QED
    BY <1>6, <1>8, <2>1, <2>2, Zenon DEF ManagerOK
<1>12. OwnersOK(n, alv)
  BY <1>8, <1>10, ZenonT(30) DEF Box, IpcOK, OwnersOK
<1>13. AcksOK(n, hld2)
  BY <1>6, <1>8, <1>10, AckTaken, Zenon DEF IpcOK, w
<1>14. WaitersOK(n, b)
  BY <1>7, <1>8, <1>10, Zenon DEF Box, NextId, IpcOK, WaitersOK
<1>15. SendersOK(n, b, pend, alv)
  <2>1. \A x \in DOMAIN v : /\ v[x].event = SenderEvent(x) /\ v[x].pid \in DOMAIN b
                            /\ b[v[x].pid] = {SenderEvent(x)}
    <3> SUFFICES ASSUME NEW x \in DOMAIN w, x # a
                 PROVE  w[x].event = SenderEvent(x) /\ w[x].pid \in DOMAIN b /\ b[w[x].pid] = {SenderEvent(x)}
      BY <1>6, Zenon
    <3>1. w[x].event = SenderEvent(x) /\ w[x].pid \in DOMAIN blk /\ blk[w[x].pid] = {SenderEvent(x)}
      BY <1>2, Zenon
    <3>2. SenderEvent(a) \notin blk[w[x].pid]
      BY <3>1, EventFacts, Zenon
    <3> QED
      BY <1>7, <3>1, <3>2, Zenon
  <2>2. \A q \in DOMAIN b : \A x : SenderEvent(x) \in b[q] => x \in DOMAIN v /\ v[x].pid = q
    <3> SUFFICES ASSUME NEW q \in DOMAIN b, NEW x, SenderEvent(x) \in b[q] PROVE x \in DOMAIN v /\ v[x].pid = q
      BY Zenon
    <3>1. q \in DOMAIN blk /\ SenderEvent(x) \in blk[q] /\ x # a
      BY <1>7, Zenon
    <3>2. x \in DOMAIN w /\ w[x].pid = q
      BY <1>sender, <3>1, Zenon
    <3> QED
      BY <1>6, <3>1, <3>2, Zenon
  <2>3. \A q \in DOMAIN b : Delivering(pend, q) <=> \E x \in DOMAIN v : SenderEvent(x) \in b[q]
    <3> SUFFICES ASSUME NEW q \in DOMAIN b
                 PROVE  (\E x \in DOMAIN w : SenderEvent(x) \in blk[q]) <=> \E x \in DOMAIN v : SenderEvent(x) \in b[q]
      BY <1>waits, <1>7, Zenon
    <3>1. b[q] = blk[q] /\ SenderEvent(a) \notin b[q]
      BY <1>7, Zenon
    <3> QED
      BY <1>6, <3>1, Zenon
  <2>4. z \in DOMAIN blk /\ Delivering(pend, z)
    <3>1. z \in DOMAIN blk /\ SenderEvent(a) \in blk[z]
      BY <1>2, <1>3, Zenon DEF z
    <3> QED
      BY <1>waits, <1>3, <3>1, Zenon
  <2>5. /\ DOMAIN u \subseteq Pids
        /\ \A q \in Pids : q \in DOMAIN u <=> q \in alv /\ Delivering(pend, q) /\ q \notin DOMAIN b
    <3>1. z \in Pids /\ z \in alv
      BY <2>4, Zenon DEF IpcOK
    <3>2. DOMAIN u = DOMAIN m.delivery_result \cup {z}
      BY <1>6, Zenon
    <3> QED
      <4>1. DOMAIN u \subseteq Pids
        BY <1>results, <3>1, <3>2, Zenon
      <4>2. ASSUME NEW q \in Pids PROVE q \in DOMAIN u <=> q \in alv /\ Delivering(pend, q) /\ q \notin DOMAIN b
        <5>1. CASE q = z
          BY <1>9, <2>4, <3>1, <3>2, <5>1, Zenon
        <5>2. CASE q # z
          <6>1. q \in DOMAIN b <=> q \in DOMAIN blk
            BY <1>7, <1>9, <5>2, Zenon
          <6> QED
            BY <1>result, <3>2, <5>2, <6>1, Zenon
        <5> QED
          BY <5>1, <5>2
      <4> QED
        BY <4>1, <4>2, Zenon
  <2>6. \A q \in DOMAIN u : u[q] # "wait"
    BY <1>results, <1>5, <1>6, Zenon
  <2> QED
    BY <1>8, <2>1, <2>2, <2>3, <2>5, <2>6, ZenonT(30) DEF SendersOK
<1>16. PipesOK(n, alv)
  <2> SUFFICES ASSUME NEW t \in Boxes(m), Box(m, t).pipe_mode = "ConnectedTo", NEW i \in Slots(m, t)
               PROVE  v[AckAt(m, t, i)].pid = Box(m, t).peer
    <3>1. n.waiting_for_delivery = v /\ \A t : Box(n, t) = Box(m, t)
      BY <1>8, Zenon DEF Box
    <3>2. Boxes(n) = Boxes(m)
          /\ \A t : Slots(n, t) = Slots(m, t) /\ \A i : AckAt(n, t, i) = AckAt(m, t, i)
      BY <1>10, Zenon
    <3>3. \A t \in Boxes(m) : Box(m, t).pipe_mode = "ConnectedTo" => Box(m, t).peer \in alv
      BY Zenon DEF IpcOK, PipesOK
    <3> QED
      BY <3>1, <3>2, <3>3, Zenon DEF PipesOK
  <2>1. AckAt(m, t, i) # None
    BY ZenonT(30) DEF IpcOK, ManagerOK, BoxOK, AckAt, Slots
  <2>2. AckAt(m, t, i) \in DOMAIN w /\ AckAt(m, t, i) # a
    BY <1>known, <1>apart, <2>1, Zenon
  <2> QED
    BY <1>6, <2>2, ZenonT(30) DEF IpcOK, PipesOK, w
<1>17. IpcOK(n, b, pend, hld2, alv)
  BY <1>11, <1>12, <1>13, <1>14, <1>15, <1>16, Zenon DEF IpcOK
<1>18. r.m = n /\ r.res = "ok" /\ r.events = {SenderEvent(a)}
  BY <1>4, Zenon DEF Result
<1> QED
  BY <1>17, <1>18, Zenon DEF r, b

(* The deliver call that is repeated takes its result.                     *)
LEMMA AfterDelivery ==
  ASSUME NEW m, NEW blk, NEW pend, NEW pend2, NEW hld, NEW alv, NEW p \in Pids,
         IsMap(blk), DOMAIN blk \subseteq Pids, IpcOK(m, blk, pend, hld, alv),
         p \in DOMAIN m.delivery_result, p \notin DOMAIN blk, ~Delivering(pend2, p),
         \A q \in Pids : q # p => (Delivering(pend2, q) <=> Delivering(pend, q))
  PROVE  LET r == after_delivery(m, p)
         IN  IpcOK(r.m, Wake(blk, r.events), pend2, hld, alv) /\ r.res # "wait"
<1> DEFINE u == Drop(m.delivery_result, {p})
           n == SetResults(m, u)
           r == after_delivery(m, p)
<1>1. r = Result(n, m.delivery_result[p], {})
  BY Zenon DEF after_delivery, SetResults
<1>2. r.m = n /\ r.res = m.delivery_result[p] /\ r.events = {}
  BY ONLY <1>1, SMT DEF Result
<1>3. IsManager(m)
  BY Zenon DEF IpcOK, ManagerOK
<1>4. /\ IsMap(u) /\ DOMAIN u = DOMAIN m.delivery_result \ {p}
      /\ \A q \in DOMAIN u : u[q] = m.delivery_result[q]
  BY Zenon DEF Drop, Restrict, IsMap
<1> HIDE DEF u
<1>5. /\ IsManager(n) /\ n.delivery_result = u /\ n.waiting_for_delivery = m.waiting_for_delivery
      /\ n.subscriptions = m.subscriptions /\ n.mailboxes = m.mailboxes
      /\ n.next_acknowledge_id = m.next_acknowledge_id
      /\ n.process_subscriptions = m.process_subscriptions
  BY ONLY <1>3, SetResultsFields, SMT
<1> HIDE DEF n, r
<1>6. ManagerOK(n)
  <2>1. Listed(n) = Listed(m) /\ NextId(n) = NextId(m)
    BY <1>5, Zenon DEF Listed, NextId
  <2> QED
    BY <1>4, <1>5, <2>1, Zenon DEF IpcOK, ManagerOK, Boxes, Box
<1>7. OwnersOK(n, alv) /\ WaitersOK(n, blk) /\ PipesOK(n, alv)
  <2>1. OwnersOK(n, alv)
    BY <1>5, Zenon DEF Box, IpcOK, OwnersOK, Boxes
  <2>2. WaitersOK(n, blk)
    BY <1>5, Zenon DEF Box, NextId, IpcOK, WaitersOK, Boxes
  <2>3. PipesOK(n, alv)
    BY <1>5, SamePipes, Zenon DEF IpcOK
  <2> QED
    BY <2>1, <2>2, <2>3, Zenon
<1>8. AcksOK(n, hld)
  <2>1. /\ Boxes(n) = Boxes(m)
        /\ \A t \in Boxes(m) : /\ Slots(n, t) = Slots(m, t)
                               /\ \A i : AckAt(n, t, i) = AckAt(m, t, i)
    BY <1>5, Zenon DEF Boxes, Box, Slots, AckAt
  <2>2. AcksOK(m, hld)
    BY Zenon DEF IpcOK
  <2> QED
    BY <1>5, <2>1, <2>2, SameAcks, ZenonT(30)
<1>9. SendersOK(n, blk, pend2, alv) /\ m.delivery_result[p] # "wait"
  <2>1. SendersOK(m, blk, pend, alv)
    BY Zenon DEF IpcOK
  <2>2. DOMAIN u \subseteq Pids /\ \A q \in DOMAIN u : u[q] # "wait"
    BY <1>4, <2>1, Zenon DEF SendersOK
  <2>3. \A q \in DOMAIN blk : q \in Pids /\ q # p
    BY Zenon
  <2>4. \A q \in DOMAIN blk : Delivering(pend2, q) <=> Delivering(pend, q)
    BY <2>3, Zenon
  <2>5. \A q \in Pids : q \in DOMAIN u <=> q \in alv /\ Delivering(pend2, q) /\ q \notin DOMAIN blk
    BY <1>4, <2>1, Zenon DEF SendersOK
  <2>6. SendersFit(m.waiting_for_delivery, u, blk, pend2, alv)
    BY <2>1, <2>2, <2>4, <2>5, Zenon DEF SendersOK, SendersFit
  <2>7. SendersOK(n, blk, pend2, alv)
    BY <1>5, <2>6, SendersDepend, Zenon
  <2>8. m.delivery_result[p] # "wait"
    BY <2>1, Zenon DEF SendersOK
  <2> QED
    BY <2>7, <2>8, Zenon
<1>10. IpcOK(n, blk, pend2, hld, alv)
  BY <1>6, <1>7, <1>8, <1>9, Zenon DEF IpcOK
<1> QED
  BY <1>2, <1>9, <1>10, WakeNone, Zenon DEF r

(* A pipe is reserved for process p.                                       *)
LEMMA ConnectPipe ==
  ASSUME NEW m, NEW blk, NEW pend, NEW hld, NEW alv, NEW p \in alv, NEW s \in Boxes(m),
         IpcOK(m, blk, pend, hld, alv), Box(m, s).pipe_mode = "NotConnected"
  PROVE  LET n == Connect(m, s, p)
         IN  /\ IpcOK(n, blk, pend, hld, alv) /\ Boxes(n) = Boxes(m)
             /\ Box(n, s).pipe_mode = "ConnectedTo" /\ Box(n, s).peer = p
             /\ n.waiting_for_delivery = m.waiting_for_delivery
             /\ n.next_acknowledge_id = m.next_acknowledge_id
<1> DEFINE n == Connect(m, s, p)
<1>1. ManagerOK(m)
  BY Zenon DEF IpcOK
<1>2. /\ OnlyMailboxes(m, n)
      /\ Box(n, s) = Connected(Box(m, s), p)
      /\ \A t \in Boxes(m) : t # s => Box(n, t) = Box(m, t)
  <2> DEFINE b == Connected(Box(m, s), p)
             z == Replace(m, s, b)
  <2>1. n = z
    BY Zenon DEF Box, Connect, Replace
  <2>2. OneChanged(m, z, s, b)
    <3> HIDE DEF b
    <3> QED
      BY <1>1, OneMailbox, Zenon
  <2> HIDE DEF n, z
  <2> QED
    BY <2>1, <2>2, Zenon DEF OneChanged
<1> HIDE DEF n
<1>3. /\ IsMailbox(Box(n, s)) /\ Box(n, s).queue = Box(m, s).queue
      /\ Box(n, s).kernel = Box(m, s).kernel /\ Box(n, s).event = Box(m, s).event
      /\ Box(n, s).pipe_mode = "ConnectedTo" /\ Box(n, s).peer = p
  BY ONLY <1>2, ConnectedFields, SMT
<1>4. BoxOK(Box(m, s)) /\ Box(m, s).queue = <<>>
  BY <1>1, Zenon DEF ManagerOK, BoxOK
<1>5. \A t \in Boxes(m) : BoxOK(Box(n, t))
  <2>1. BoxOK(Box(n, s))
    BY <1>3, <1>4, Zenon DEF BoxOK
  <2> QED
    BY <2>1, <1>1, <1>2, Zenon DEF ManagerOK
<1>6. Boxes(n) = Boxes(m) /\ \A t \in Boxes(m) : Slots(n, t) = Slots(m, t) /\ \A i : AckAt(n, t, i) = AckAt(m, t, i)
  BY <1>2, <1>3, Zenon DEF OnlyMailboxes, Slots, AckAt
<1>7. ManagerOK(n)
  BY <1>1, <1>2, <1>5, MailboxesManager, Zenon
<1>8. OwnersOK(n, alv)
  BY <1>2, <1>3, FrameOwners, ZenonT(30) DEF IpcOK
<1>9. AcksOK(n, hld)
  BY <1>2, <1>6, SameAcks, Zenon DEF IpcOK, OnlyMailboxes
<1>10. WaitersOK(n, blk)
  <2>1. /\ Boxes(n) = Boxes(m) /\ NextId(n) = NextId(m)
        /\ \A t \in Boxes(m) : Box(n, t).queue = Box(m, t).queue /\ Box(n, t).event = Box(m, t).event
    BY <1>2, <1>3, Zenon DEF NextId, OnlyMailboxes
  <2> QED
    BY <2>1, ZenonT(30) DEF IpcOK, WaitersOK
<1>11. SendersOK(n, blk, pend, alv)
  BY <1>2, SameSenders, Zenon DEF IpcOK, OnlyMailboxes
<1>12. PipesOK(n, alv)
  <2>1. Slots(n, s) = {}
    BY <1>3, <1>4 DEF Slots
  <2>2. \A t \in Boxes(m) : t # s => Box(n, t) = Box(m, t)
    BY <1>2, Zenon
  <2> QED
    BY <1>2, <1>3, <1>6, <2>1, <2>2, ZenonT(30) DEF IpcOK, PipesOK, OnlyMailboxes
<1>13. IpcOK(n, blk, pend, hld, alv)
  BY <1>7, <1>8, <1>9, <1>10, <1>11, <1>12, Zenon DEF IpcOK
<1> QED
  BY <1>2, <1>3, <1>13, Zenon DEF n, OnlyMailboxes

(* A reliable message with the acknowledge id a, which is not in use, goes *)
(* into mailbox s, and its sender p waits.                                 *)
OpenTo(b, p) == b.pipe_mode = "None" \/ (b.pipe_mode = "ConnectedTo" /\ b.peer = p)

LEMMA Reliable ==
  ASSUME NEW m, NEW blk, NEW pend, NEW pend2, NEW hld, NEW alv, NEW p \in Pids, NEW s \in Boxes(m),
         NEW topic, NEW a \in Nat,
         IsMap(blk), DOMAIN blk \subseteq Pids, IpcOK(m, blk, pend, hld, alv),
         p \notin DOMAIN blk, BeginsDelivery(pend, pend2, p),
         a < m.next_acknowledge_id, a \notin DOMAIN m.waiting_for_delivery,
         OpenTo(Box(m, s), p)
  PROVE  LET r == PushReliable(m, s, p, topic, a)
         IN  \/ r = Result(m, "QueueFull", {})
             \/ r.res = "wait" /\ IpcOK(r.m, After(r, blk, p), pend2, hld, alv)
<1> DEFINE x  == [topic |-> topic, ack |-> a]
           k  == push(m, {s}, x)
           w  == m.waiting_for_delivery
           wa == [event |-> SenderEvent(a), pid |-> p]
           v  == Put(w, a, wa)
           n  == SetWaiting(k, v)
           E  == PushEvents(m, {s})
           b1 == Wake(blk, E)
           b  == Put(b1, p, {SenderEvent(a)})
           r  == PushReliable(m, s, p, topic, a)
           l  == Len(Box(m, s).queue) + 1
<1> USE KernelAssumption
<1>1. ManagerOK(m) /\ IsManager(m) /\ x.ack = a /\ wa.event = SenderEvent(a) /\ wa.pid = p
  BY ZenonT(30) DEF IpcOK, ManagerOK
<1> HIDE DEF wa, x
<1>2. /\ OnlyMailboxes(m, k)
      /\ \A t \in Boxes(m) : Box(k, t) = IF t \in {s} THEN Pushed(Box(m, t), x) ELSE Box(m, t)
  BY ONLY <1>1, PushFields, SMT
<1>3. ASSUME ~Full(m, s)
      PROVE  r.m = n /\ r.res = "wait" /\ r.events = E /\ r.wait = {SenderEvent(a)}
  <2>1. n = [push(m, {s}, x) EXCEPT !.waiting_for_delivery = Put(@, a, wa)]
    <3>1. k.waiting_for_delivery = w
      BY <1>2, Zenon DEF OnlyMailboxes
    <3> QED
      BY <3>1, Zenon DEF SetWaiting
  <2> HIDE DEF n, E, k
  <2> QED
    BY <1>3, <2>1, Zenon DEF PushReliable, Wait, x, wa, E
<1>4. Full(m, s) => r = Result(m, "QueueFull", {})
  BY Zenon DEF PushReliable
<1>5. /\ IsMap(v) /\ DOMAIN v = DOMAIN w \cup {a} /\ v[a] = wa
      /\ \A y \in DOMAIN w : v[y] = w[y]
  BY Zenon DEF Put, IsMap
<1>6. /\ DOMAIN b = DOMAIN b1 \cup {p} /\ b[p] = {SenderEvent(a)}
      /\ \A q \in DOMAIN b1 : q # p => b[q] = b1[q]
  <2> HIDE DEF b1
  <2> QED
    BY Zenon DEF Put
<1>7. /\ \A q \in DOMAIN b1 : q \in DOMAIN blk /\ b1[q] = blk[q] /\ blk[q] \cap E = {}
      /\ \A q \in DOMAIN blk : blk[q] \cap E = {} => q \in DOMAIN b1
  <2> HIDE DEF E
  <2> QED
    BY ZenonT(30) DEF Wake, WaitingFor, Drop, Restrict
<1> HIDE DEF k, v, b, b1, r
<1>8. /\ IsManager(n) /\ n.waiting_for_delivery = v /\ n.delivery_result = m.delivery_result
      /\ n.subscriptions = m.subscriptions /\ n.mailboxes = k.mailboxes
      /\ n.next_acknowledge_id = m.next_acknowledge_id
      /\ n.process_subscriptions = m.process_subscriptions
  <2>1. /\ IsManager(k) /\ k.delivery_result = m.delivery_result
        /\ k.subscriptions = m.subscriptions
        /\ k.next_acknowledge_id = m.next_acknowledge_id
        /\ k.process_subscriptions = m.process_subscriptions
    BY <1>2, Zenon DEF OnlyMailboxes
  <2> QED
    BY ONLY <2>1, SetWaitingFields, SMT
<1> HIDE DEF n
<1>9. Boxes(n) = Boxes(m) /\ IsMap(n.mailboxes)
  BY <1>2, <1>8, Zenon DEF OnlyMailboxes, Boxes
<1>10. /\ IsMailbox(Box(n, s)) /\ Box(n, s).queue = Append(Box(m, s).queue, x)
       /\ Box(n, s).kernel = Box(m, s).kernel /\ Box(n, s).event = FALSE
       /\ Box(n, s).pipe_mode = Box(m, s).pipe_mode
       /\ Box(n, s).peer = Box(m, s).peer
  <2>1. Box(n, s) = Pushed(Box(m, s), x)
    BY <1>2, <1>8, Zenon DEF Box
  <2> DEFINE y == Append(Box(m, s).queue, x)
             z == Pushed(Box(m, s), x)
  <2>2. /\ IsMailbox(z) /\ z.queue = y
        /\ z.kernel = Box(m, s).kernel /\ z.event = FALSE
        /\ z.pipe_mode = Box(m, s).pipe_mode /\ z.peer = Box(m, s).peer
    BY PushedFields, Zenon
  <2> HIDE DEF y, z
  <2>3. /\ IsMailbox(Box(n, s)) /\ Box(n, s).queue = y
        /\ Box(n, s).kernel = Box(m, s).kernel /\ Box(n, s).event = FALSE
        /\ Box(n, s).pipe_mode = Box(m, s).pipe_mode
        /\ Box(n, s).peer = Box(m, s).peer
    BY <2>1, <2>2, Zenon DEF z
  <2> QED
    BY <2>3, Zenon DEF y
<1>11. \A t \in Boxes(m) : t # s => Box(n, t) = Box(m, t)
  BY <1>2, <1>8, ZenonT(30) DEF Box
<1>12. /\ IsSeq(Box(n, s).queue) /\ Slots(n, s) = Slots(m, s) \cup {l} /\ l \notin Slots(m, s)
       /\ \A i \in Slots(m, s) : Box(n, s).queue[i] = Box(m, s).queue[i]
       /\ Box(n, s).queue[l] = x
  <2>1. IsSeq(Box(m, s).queue)
    BY <1>1, Zenon DEF ManagerOK, BoxOK
  <2> DEFINE q == Box(m, s).queue
             y == Append(q, x)
  <2>2. /\ IsSeq(y) /\ DOMAIN y = DOMAIN q \cup {Len(q) + 1} /\ Len(q) + 1 \notin DOMAIN q
        /\ \A i \in DOMAIN q : y[i] = q[i]
        /\ y[Len(q) + 1] = x
    BY <2>1, AppendFacts, Zenon
  <2>3. Box(n, s).queue = y
    BY <1>10, Zenon
  <2> HIDE DEF y
  <2> QED
    BY <2>2, <2>3, Zenon DEF Slots
<1> HIDE DEF l
<1>13. /\ Slots(n, s) = Slots(m, s) \cup {l} /\ l \notin Slots(m, s)
       /\ \A i \in Slots(m, s) : AckAt(n, s, i) = AckAt(m, s, i)
       /\ AckAt(n, s, l) = a
       /\ \A t \in Boxes(m) : t # s => Slots(n, t) = Slots(m, t) /\ \A i : AckAt(n, t, i) = AckAt(m, t, i)
  BY <1>1, <1>11, <1>12, ZenonT(30) DEF Slots, AckAt
<1>14. ManagerOK(n)
  <2>1. BoxOK(Box(m, s)) /\ a # None
    BY <1>1, Zenon DEF ManagerOK
  <2>2. \A i \in DOMAIN Box(n, s).queue :
          /\ Box(n, s).queue[i].ack \in Nat \cup {None}
          /\ Box(n, s).pipe_mode # "None" => Box(n, s).queue[i].ack # None
    BY <2>1, <1>1, <1>10, <1>12, ZenonT(30) DEF BoxOK, Slots
  <2>3. /\ IsMailbox(Box(n, s)) /\ IsSeq(Box(n, s).queue)
        /\ Box(n, s).kernel \in BOOLEAN /\ Box(n, s).event \in BOOLEAN
        /\ Box(n, s).pipe_mode \in {"None", "ConnectedTo"}
    BY <2>1, <1>10, <1>12, Zenon DEF BoxOK, OpenTo
  <2>4. BoxOK(Box(n, s))
    BY <2>2, <2>3, Zenon DEF BoxOK
  <2>5. \A t \in Boxes(m) : BoxOK(Box(n, t))
    BY <2>4, <1>1, <1>11, Zenon DEF ManagerOK
  <2> QED
    <3>1. Listed(n) = Listed(m) /\ NextId(n) = NextId(m)
      BY <1>8, Zenon DEF Listed, NextId
    <3> QED
      BY <2>5, <3>1, <1>1, <1>5, <1>8, <1>9, Zenon DEF ManagerOK
<1>15. OwnersOK(n, alv)
  <2>1. \A t \in Boxes(m) : Box(n, t).kernel = Box(m, t).kernel
    BY <1>10, <1>11, Zenon
  <2> QED
    BY <2>1, <1>8, <1>9, Zenon DEF IpcOK, OwnersOK
<1>16. AcksOK(n, hld)
  <2>1. MessageAdded(m, n, s, l, a)
    BY <1>5, <1>8, <1>9, <1>13, Zenon DEF MessageAdded
  <2> QED
    BY <2>1, QueuedAck, Zenon DEF IpcOK
<1>17. WaitersOK(n, b)
  <2> SUFFICES ASSUME NEW q \in DOMAIN b, NEW t, MailboxEvent(t) \in b[q]
               PROVE  /\ t \in Nat /\ t < NextId(m)
                      /\ t \in Boxes(m) => Box(n, t).queue = <<>> /\ Box(n, t).event
    BY <1>8, <1>9, Zenon DEF NextId, WaitersOK
  <2>1. q \in DOMAIN blk /\ MailboxEvent(t) \in blk[q] /\ MailboxEvent(t) \notin E
    <3> HIDE DEF E
    <3>4. MailboxEvent(t) # SenderEvent(a)
      BY EventFacts, Zenon
    <3> HIDE DEF b
    <3>1. q # p
      BY <3>4, <1>6, Zenon
    <3>2. q \in DOMAIN blk /\ b[q] = blk[q] /\ blk[q] \cap E = {}
      BY <3>1, <1>6, <1>7, Zenon
    <3> QED
      BY <3>2, Zenon
  <2>2. /\ t \in Nat /\ t < NextId(m)
        /\ t \in Boxes(m) => Box(m, t).queue = <<>> /\ Box(m, t).event
    BY <2>1, Zenon DEF IpcOK, WaitersOK
  <2>3. t \in Boxes(m) => t # s
    BY <2>1, <2>2, Zenon DEF Box, PushEvents
  <2> QED
    BY <2>2, <2>3, <1>11, Zenon
<1>18. SendersOK(n, b, pend2, alv)
  <2>1. \A y : SenderEvent(y) \notin E
    BY EventFacts, Zenon DEF PushEvents
  <2> HIDE DEF E
  <2>2. p \in DOMAIN b /\ \A q \in DOMAIN b : q # p => q \in DOMAIN blk /\ b[q] = blk[q]
    BY <1>6, <1>7, Zenon
  <2>3. \A q \in DOMAIN blk : (\E y : blk[q] = {SenderEvent(y)}) => q \in DOMAIN b
    <3>1. \A y : {SenderEvent(y)} \cap E = {}
      BY <2>1, Zenon
    <3> QED
      BY <3>1, <1>6, <1>7, Zenon
  <2>4. SendersOK(m, blk, pend, alv)
    BY Zenon DEF IpcOK
  <2> QED
    <3>1. v[a].event = SenderEvent(a) /\ v[a].pid = p
      BY <1>1, <1>5, Zenon
    <3>2. SenderAdded(m, n, blk, b, p, a)
      BY <2>2, <2>3, <3>1, <1>5, <1>6, <1>8, Zenon DEF SenderAdded
    <3> QED
      BY <3>2, <2>4, SenderBlocks, ZenonT(30)
<1>19. PipesOK(n, alv)
  <2> SUFFICES ASSUME NEW t \in Boxes(m), Box(n, t).pipe_mode = "ConnectedTo"
               PROVE  /\ Box(n, t).peer \in alv
                      /\ \A i \in Slots(n, t) : v[AckAt(n, t, i)].pid = Box(n, t).peer
    BY <1>8, <1>9, Zenon DEF PipesOK
  <2>1. Box(m, t).pipe_mode = "ConnectedTo" /\ Box(n, t).peer = Box(m, t).peer
    BY <1>10, <1>11, Zenon
  <2>2. /\ Box(m, t).peer \in alv
        /\ \A i \in Slots(m, t) : w[AckAt(m, t, i)].pid = Box(m, t).peer
    BY <2>1, Zenon DEF IpcOK, PipesOK
  <2>3. \A i \in Slots(m, t) : AckAt(m, t, i) \in DOMAIN w
    <3>1. \A i \in Slots(m, t) : AckAt(m, t, i) # None
      BY <1>1, <2>1, Zenon DEF ManagerOK, BoxOK, Slots, AckAt
    <3> QED
      BY <3>1, Zenon DEF IpcOK, AcksOK
  <2> HIDE DEF w
  <2>4. \A i \in Slots(m, t) : v[AckAt(m, t, i)].pid = Box(m, t).peer
    BY <2>2, <2>3, <1>5, ZenonT(30)
  <2>5. CASE t = s
    <3>1. /\ Slots(n, t) = Slots(m, t) \cup {l} /\ AckAt(n, t, l) = a
          /\ \A i \in Slots(m, t) : AckAt(n, t, i) = AckAt(m, t, i)
      BY <2>5, <1>13, Zenon
    <3>2. v[a].pid = p /\ Box(m, t).peer = p
      BY <2>1, <2>5, <1>1, <1>5, Zenon DEF OpenTo
    <3> QED
      BY <2>1, <2>2, <2>4, <3>1, <3>2, Zenon
  <2>6. CASE t # s
    BY <2>1, <2>2, <2>4, <2>6, <1>13, Zenon
  <2> QED
    BY <2>5, <2>6, Zenon
<1>20. IpcOK(n, b, pend2, hld, alv)
  BY <1>14, <1>15, <1>16, <1>17, <1>18, <1>19, Zenon DEF IpcOK
<1>21. CASE ~Full(m, s)
  <2>1. r.res = "wait" /\ r.m = n /\ After(r, blk, p) = b
    BY <1>3, <1>21, Zenon DEF After, b, b1
  <2> QED
    BY <2>1, <1>20, Zenon DEF r
<1> QED
  BY <1>4, <1>21, Zenon DEF r

(* The subscriptions found have mailboxes.                                 *)
LEMMA FindAll ==
  ASSUME NEW m, ManagerOK(m), NEW topic, NEW reliable
  PROVE  find_all(m.subscriptions, topic, reliable) \subseteq Boxes(m)
<1>1. IsSeq(m.subscriptions.targets) /\ Listed(m) = Boxes(m)
  BY Zenon DEF ManagerOK
<1>2. DOMAIN m.subscriptions.targets = 1 .. Len(m.subscriptions.targets)
  BY <1>1, SeqFacts, Zenon
<1>3. find_all(m.subscriptions, topic, reliable) \subseteq Listed(m)
  BY <1>2, Zenon DEF find_all, Listed
<1> QED
  BY <1>1, <1>3, Zenon

LEMMA Deliver ==
  ASSUME NEW m, NEW blk, NEW pend, NEW pend2, NEW hld, NEW alv, NEW p \in Pids,
         NEW topic, NEW reply_to,
         IsMap(blk), DOMAIN blk \subseteq Pids, IpcOK(m, blk, pend, hld, alv),
         p \in alv, p \notin DOMAIN blk, ~Delivering(pend, p), Delivering(pend2, p),
         \A q \in Pids : q # p => (Delivering(pend2, q) <=> Delivering(pend, q)),
         deliver(m, p, topic, reply_to).res # "panic"
  PROVE  LET r == deliver(m, p, topic, reply_to)
         IN  IpcOK(r.m, After(r, blk, p), IF r.res = "wait" THEN pend2 ELSE pend, hld, alv)
<1> DEFINE all == find_all(m.subscriptions, topic, TRUE)
           s   == CHOOSE x \in all : TRUE
           a   == m.next_acknowledge_id
           n   == [m EXCEPT !.next_acknowledge_id = @ + 1]
           c   == Connect(n, s, p)
           box == Box(m, s)
           r   == deliver(m, p, topic, reply_to)
<1>1. /\ IpcOK(n, blk, pend, hld, alv)
      /\ n.mailboxes = m.mailboxes /\ n.subscriptions = m.subscriptions
      /\ n.waiting_for_delivery = m.waiting_for_delivery
      /\ n.next_acknowledge_id = a + 1
  BY NextAck, Zenon
<1>2. /\ a \in Nat /\ a \notin DOMAIN m.waiting_for_delivery
      /\ ManagerOK(m)
      /\ \A t \in Boxes(m) : Box(m, t).pipe_mode \in {"None", "NotConnected", "ConnectedTo", "Disconnected"}
  <2>1. a \in Nat /\ \A x \in DOMAIN m.waiting_for_delivery : x \in Nat /\ x < a
    BY Zenon DEF IpcOK, AcksOK, ManagerOK
  <2>2. \A x \in DOMAIN m.waiting_for_delivery : x # a
    BY <2>1
  <2>3. ManagerOK(m)
    BY Zenon DEF IpcOK
  <2>4. \A t \in Boxes(m) : Box(m, t).pipe_mode \in {"None", "NotConnected", "ConnectedTo", "Disconnected"}
    BY <2>3, Zenon DEF ManagerOK, BoxOK
  <2> HIDE DEF a
  <2> QED
    BY <2>1, <2>2, <2>3, <2>4, Zenon
<1>3. all # {} => s \in all
  BY Zenon
<1>4. all \subseteq Boxes(m)
  BY <1>2, FindAll, Zenon
<1> HIDE DEF all
<1>5. \/ r = Result(m, "NoSubscriber", {})
      \/ r = incoming(n, reply_to)
      \/ all # {} /\ box.pipe_mode = "None" /\ r = PushReliable(n, s, p, topic, a)
      \/ all # {} /\ box.pipe_mode = "NotConnected" /\ r = PushReliable(c, s, p, topic, a)
      \/ all # {} /\ box.pipe_mode = "ConnectedTo" /\ box.peer = p /\ r = PushReliable(n, s, p, topic, a)
      \/ r = Result(n, "PipeReserved", {})
  <2>1. all # {} => box.pipe_mode \in {"None", "NotConnected", "ConnectedTo", "Disconnected"}
    BY <1>2, <1>3, <1>4, Zenon
  <2>2. r # Panic(m)
    BY DEF Panic, Result
  <2> HIDE DEF c, n, a
  <2> QED
    BY <2>1, <2>2, Zenon DEF Box, deliver, all, s, c, n, a
<1> HIDE DEF s, a, n, r
<1>begins. BeginsDelivery(pend, pend2, p)
  BY Zenon DEF BeginsDelivery
<1>same. ASSUME NEW k, NEW res, IpcOK(k, blk, pend, hld, alv), r = Result(k, res, {}), res # "wait"
         PROVE  IpcOK(r.m, After(r, blk, p), IF r.res = "wait" THEN pend2 ELSE pend, hld, alv)
  <2>1. IpcOK(r.m, Wake(blk, r.events), pend, hld, alv) /\ r.res = res
    <3> DEFINE z == Result(k, res, {})
    <3>1. IpcOK(z.m, Wake(blk, z.events), pend, hld, alv) /\ z.res = res
      <4>1. z.m = k /\ z.events = {} /\ z.res = res
        BY DEF Result
      <4> HIDE DEF z
      <4> QED
        BY <4>1, <1>same, WakeNone, Zenon
    <3>2. r = z
      BY <1>same, Zenon
    <3> HIDE DEF z
    <3> QED
      BY <3>1, <3>2, Zenon
  <2>2. r.res # "wait"
    BY <2>1, <1>same, Zenon
  <2>3. After(r, blk, p) = Wake(blk, r.events)
    BY <2>2, Zenon DEF After
  <2> QED
    BY <2>1, <2>2, <2>3, Zenon
<1>6. ASSUME NEW k, IpcOK(k, blk, pend, hld, alv), s \in Boxes(k),
             k.waiting_for_delivery = m.waiting_for_delivery, k.next_acknowledge_id = a + 1,
             OpenTo(Box(k, s), p),
             r = PushReliable(k, s, p, topic, a)
      PROVE  IpcOK(r.m, After(r, blk, p), IF r.res = "wait" THEN pend2 ELSE pend, hld, alv)
  <2>1. a < k.next_acknowledge_id
    <3>1. a \in Nat /\ k.next_acknowledge_id = a + 1
      BY <1>2, <1>6, Zenon
    <3> QED
      BY ONLY <3>1, SMT
  <2>2. \/ r = Result(k, "QueueFull", {})
        \/ r.res = "wait" /\ IpcOK(r.m, After(r, blk, p), pend2, hld, alv)
    <3>1. a \in Nat /\ a \notin DOMAIN k.waiting_for_delivery
      BY <1>2, <1>6, Zenon
    <3>2. \/ PushReliable(k, s, p, topic, a) = Result(k, "QueueFull", {})
          \/ /\ PushReliable(k, s, p, topic, a).res = "wait"
             /\ IpcOK(PushReliable(k, s, p, topic, a).m,
                      After(PushReliable(k, s, p, topic, a), blk, p), pend2, hld, alv)
      BY <1>6, <1>begins, <2>1, <3>1, Reliable, ZenonT(30)
    <3> QED
      BY <3>2, <1>6, Zenon
  <2>3. CASE r = Result(k, "QueueFull", {})
    BY <2>3, <1>6, <1>same, Zenon
  <2> QED
    BY <2>2, <2>3, ZenonT(30)
<1>7. CASE r = Result(m, "NoSubscriber", {})
  <2>1. IpcOK(r.m, After(r, blk, p), IF r.res = "wait" THEN pend2 ELSE pend, hld, alv)
    BY <1>7, <1>same, Zenon
  <2> QED
    BY <2>1, Zenon DEF r
<1>8. CASE r = Result(n, "PipeReserved", {})
  <2>1. IpcOK(r.m, After(r, blk, p), IF r.res = "wait" THEN pend2 ELSE pend, hld, alv)
    BY <1>1, <1>8, <1>same, Zenon
  <2> QED
    BY <2>1, Zenon DEF r
<1>9. CASE r = incoming(n, reply_to)
  <2>1. r.res # "panic"
    BY Zenon DEF r
  <2>2. IpcOK(r.m, Wake(blk, r.events), pend, hld, alv) /\ r.res # "wait"
    BY <1>1, <1>9, <2>1, Incoming, Zenon
  <2>3. IpcOK(r.m, After(r, blk, p), IF r.res = "wait" THEN pend2 ELSE pend, hld, alv)
    BY <2>2, Zenon DEF After
  <2> QED
    BY <2>3, Zenon DEF r
<1>10. CASE /\ all # {} /\ r = PushReliable(n, s, p, topic, a)
            /\ \/ box.pipe_mode = "None"
               \/ box.pipe_mode = "ConnectedTo" /\ box.peer = p
  <2>1. s \in Boxes(n)
    BY <1>1, <1>3, <1>4, <1>10, Zenon DEF Boxes
  <2>3. OpenTo(Box(n, s), p)
    BY <1>1, <1>10, Zenon DEF Box, OpenTo
  <2>2. IpcOK(r.m, After(r, blk, p), IF r.res = "wait" THEN pend2 ELSE pend, hld, alv)
    BY <1>1, <1>6, <1>10, <2>1, <2>3, Zenon
  <2> QED
    BY <2>2, Zenon DEF r
<1>11. CASE all # {} /\ box.pipe_mode = "NotConnected" /\ r = PushReliable(c, s, p, topic, a)
  <2>1. s \in Boxes(n)
    BY <1>1, <1>3, <1>4, <1>11, Zenon DEF Boxes
  <2>0. Box(n, s).pipe_mode = "NotConnected"
    BY <1>1, <1>11, ZenonT(30) DEF Box
  <2>2. /\ IpcOK(c, blk, pend, hld, alv) /\ Boxes(c) = Boxes(n)
        /\ Box(c, s).pipe_mode = "ConnectedTo" /\ Box(c, s).peer = p
        /\ c.waiting_for_delivery = n.waiting_for_delivery
        /\ c.next_acknowledge_id = n.next_acknowledge_id
    <3>1. p \in alv /\ IpcOK(n, blk, pend, hld, alv)
      BY <1>1, Zenon
    <3> HIDE DEF box
    <3> QED
      BY ONLY <3>1, <2>1, <2>0, ConnectPipe, SMT
  <2> HIDE DEF c
  <2>3. OpenTo(Box(c, s), p)
    BY <2>2, Zenon DEF OpenTo
  <2>4. IpcOK(r.m, After(r, blk, p), IF r.res = "wait" THEN pend2 ELSE pend, hld, alv)
    BY <1>1, <1>6, <1>11, <2>1, <2>2, <2>3, Zenon
  <2> QED
    BY <2>4, Zenon DEF r
<1> QED
  BY <1>5, <1>7, <1>8, <1>9, <1>10, <1>11, Zenon
=============================================================================
