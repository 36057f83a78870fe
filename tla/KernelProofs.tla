---------------------------- MODULE KernelProofs ----------------------------
(***************************************************************************)
(* The bookkeeping of the IPC manager and of the scheduler agree, whatever *)
(* the processes call: for any systems, programs and mailbox size.         *)
(***************************************************************************)
EXTENDS SubscriptionProofs

(* The system calls                                                        *)

LEMMA AfterDomain ==
  ASSUME NEW r, NEW blk, DOMAIN blk \subseteq Pids, NEW p \in Pids
  PROVE  DOMAIN After(r, blk, p) \subseteq Pids
BY Zenon DEF After, Put, Wake, Drop, Restrict

(* The same processes are in a deliver call, and hold the same messages.   *)
SameCalls(pend, pend2) == \A q \in Pids : Delivering(pend2, q) <=> Delivering(pend, q)
SameHeld(hld, hld2) == \A q \in Pids : hld2[q] = hld[q]

LEMMA Settle ==
  ASSUME NEW m, NEW blk, NEW pend, NEW pend2, NEW hld, NEW hld2, NEW alv, DOMAIN blk \subseteq Pids,
         IpcOK(m, blk, pend, hld, alv), SameCalls(pend, pend2), SameHeld(hld, hld2)
  PROVE  IpcOK(m, blk, pend2, hld2, alv)
<1>1. IpcOK(m, blk, pend2, hld, alv)
  BY Continue, Zenon DEF SameCalls
<1>2. AcksOK(m, hld) => AcksOK(m, hld2)
  BY Zenon DEF AcksOK, SameHeld
<1> QED
  BY <1>1, <1>2, Zenon DEF IpcOK

(* The state in which process p makes call c, or repeats it.               *)
Calling(p, c, blk, pend, hld, alv) ==
  /\ IsMap(blk) /\ DOMAIN blk \subseteq alv /\ alv \subseteq Pids
  /\ p \in alv /\ p \notin DOMAIN blk
  /\ c.op \in Ops /\ (c.op = "deliver" => c # None)
  /\ pend[p] \in {None, c}
  /\ c.op = "acknowledge" => c.ack \in hld[p]

(* What the call changes besides the manager and the blocked processes.    *)
Called(p, c, m, res, pend, pend2, hld, hld2) ==
  /\ \A q \in Pids : pend2[q] = IF q # p THEN pend[q] ELSE IF res = "wait" THEN c ELSE None
  /\ \A q \in Pids : hld2[q] =
       IF q # p THEN hld[q]
       ELSE IF c.op = "receive" /\ res = "ok"
       THEN hld[p] \cup ({Head(Box(m, c.sub).queue).ack} \ {None})
       ELSE IF c.op = "acknowledge" THEN hld[p] \ {c.ack}
       ELSE hld[p]

LEMMA QuietCalls ==
  ASSUME NEW m, NEW p, NEW c, NEW res, NEW blk, NEW pend, NEW pend2, NEW hld, NEW hld2, NEW alv,
         Calling(p, c, blk, pend, hld, alv), Called(p, c, m, res, pend, pend2, hld, hld2),
         c.op # "deliver"
  PROVE  SameCalls(pend, pend2) /\ ~Delivering(pend, p)
BY Zenon DEF Calling, Called, SameCalls, Delivering

(* The calls that never wait and leave the held messages alone.            *)
LEMMA SimpleCall ==
  ASSUME NEW m, NEW p, NEW c, NEW blk, NEW pend, NEW pend2, NEW hld, NEW hld2, NEW alv,
         Calling(p, c, blk, pend, hld, alv), IpcOK(m, blk, pend, hld, alv),
         Called(p, c, m, syscall(m, p, c).res, pend, pend2, hld, hld2),
         syscall(m, p, c).res # "panic",
         c.op \in {"subscribe", "unsubscribe", "publish", "reply", "yield"}
  PROVE  IpcOK(syscall(m, p, c).m, After(syscall(m, p, c), blk, p), pend2, hld2, alv)
<1> DEFINE r == syscall(m, p, c)
<1>1. /\ IsMap(blk) /\ DOMAIN blk \subseteq alv /\ DOMAIN blk \subseteq Pids
      /\ p \in alv /\ p \in Pids /\ c.op \in Ops
  BY Zenon DEF Calling
<1>2. IpcOK(r.m, Wake(blk, r.events), pend, hld, alv)
  <2>1. CASE r = InvalidTopic(m) \/ r = Result(m, "ok", {})
    <3>1. r.m = m /\ r.events = {}
      BY <2>1, SMTT(30) DEF InvalidTopic, Result
    <3> HIDE DEF r
    <3> QED
      BY <1>1, <3>1, WakeNone, Zenon
  <2>2. CASE c.op = "subscribe"
    <3>1. r = ipc_subscribe(m, p, c.name, c.flags)
      BY <2>2, Zenon DEF syscall
    <3> DEFINE f == IF ~(PREFIX \subseteq c.flags) THEN Exact(c.name) ELSE Prefix(c.name)
               g == RELIABLE \subseteq c.flags
               h == PIPE \subseteq c.flags
    <3>2. r = InvalidTopic(m) \/ r = subscribe(m, p, f, g, h)
      BY <3>1, Zenon DEF ipc_subscribe
    <3> HIDE DEF f, g, h, r
    <3>3. CASE r = subscribe(m, p, f, g, h)
      BY <1>1, <3>3, Subscribe, Zenon
    <3> QED
      BY <2>1, <3>2, <3>3, Zenon
  <2>3. CASE c.op = "unsubscribe"
    <3>1. r = unsubscribe(m, p, c.sub)
      BY <2>3, Zenon DEF syscall
    <3> HIDE DEF r
    <3> QED
      BY <1>1, <3>1, Unsubscribe, Zenon
  <2>4. CASE c.op = "publish"
    <3>1. r = publish(m, c.topic) \/ r = InvalidTopic(m)
      BY <2>4, Zenon DEF syscall
    <3>2. r.res # "panic"
      BY Zenon
    <3> HIDE DEF r
    <3>3. CASE r = publish(m, c.topic)
      BY <1>1, <3>2, <3>3, Publish, Zenon
    <3> QED
      BY <2>1, <3>1, <3>3, Zenon
  <2>5. CASE c.op = "reply"
    <3>1. r = deliver_reply(m, c.topic) \/ r = InvalidTopic(m)
      BY <2>5, Zenon DEF syscall
    <3>2. r.res # "panic"
      BY Zenon
    <3> HIDE DEF r
    <3>3. CASE r = deliver_reply(m, c.topic)
      BY <1>1, <3>2, <3>3, DeliverReply, Zenon
    <3> QED
      BY <2>1, <3>1, <3>3, Zenon
  <2>6. CASE c.op = "yield"
    <3>1. r = Result(m, "ok", {})
      BY <2>6, Zenon DEF syscall
    <3> QED
      BY <2>1, <3>1, Zenon
  <2> QED
    BY <2>2, <2>3, <2>4, <2>5, <2>6, Zenon
<1>3. r.res # "wait"
  BY <1>1, WaitingCalls, Zenon
<1>4. SameHeld(hld, hld2)
  BY Zenon DEF Called, SameHeld
<1>5. SameCalls(pend, pend2)
  BY QuietCalls, Zenon
<1> HIDE DEF r
<1>6. After(r, blk, p) = Wake(blk, r.events) /\ DOMAIN After(r, blk, p) \subseteq Pids
  BY <1>1, <1>3, AfterDomain, Zenon DEF After
<1>7. IpcOK(r.m, After(r, blk, p), pend2, hld2, alv)
  BY <1>2, <1>4, <1>5, <1>6, Settle, Zenon
<1> QED
  BY <1>7, Zenon DEF r

LEMMA MailCall ==
  ASSUME NEW m, NEW p, NEW c, NEW blk, NEW pend, NEW pend2, NEW hld, NEW hld2, NEW alv,
         Calling(p, c, blk, pend, hld, alv), IpcOK(m, blk, pend, hld, alv),
         Called(p, c, m, syscall(m, p, c).res, pend, pend2, hld, hld2),
         syscall(m, p, c).res # "panic",
         c.op \in {"receive", "acknowledge", "select"}
  PROVE  IpcOK(syscall(m, p, c).m, After(syscall(m, p, c), blk, p), pend2, hld2, alv)
<1> DEFINE r == syscall(m, p, c)
<1>1. /\ IsMap(blk) /\ DOMAIN blk \subseteq alv /\ DOMAIN blk \subseteq Pids
      /\ p \in alv /\ p \in Pids /\ c.op \in Ops /\ p \notin DOMAIN blk
      /\ c.op = "acknowledge" => c.ack \in hld[p]
  BY Zenon DEF Calling
<1>2. SameCalls(pend, pend2) /\ ~Delivering(pend, p)
  BY QuietCalls, Zenon
<1>3. IpcOK(r.m, After(r, blk, p), pend, hld2, alv)
  <2>1. CASE c.op = "receive"
    <3>1. r = receive(m, p, c.sub)
      BY <2>1, Zenon DEF syscall
    <3>2. \A q \in Pids : hld2[q] = IF q = p /\ r.res = "ok"
                                    THEN hld[p] \cup ({Head(Box(m, c.sub).queue).ack} \ {None})
                                    ELSE hld[q]
      BY <2>1, Zenon DEF Called
    <3> HIDE DEF r
    <3> QED
      BY <1>1, <1>2, <3>1, <3>2, Receive, ZenonT(30)
  <2>2. CASE c.op = "acknowledge"
    <3>1. r = acknowledge(m, c.ack, c.positive)
      BY <2>2, Zenon DEF syscall
    <3>2. \A q \in Pids : hld2[q] = IF q = p THEN hld[p] \ {c.ack} ELSE hld[q]
      BY <2>2, Zenon DEF Called
    <3> DEFINE a == c.ack
               e == c.positive
               s == acknowledge(m, a, e)
    <3>3. a \in hld[p] /\ GivesBack(p, a, hld, hld2)
      BY <1>1, <2>2, <3>2, Zenon DEF GivesBack
    <3>4. r = s
      BY <3>1, Zenon
    <3> HIDE DEF r, a, e
    <3>5. IpcOK(s.m, Wake(blk, s.events), pend, hld2, alv) /\ s.res = "ok"
      <4>1. IsMap(blk) /\ DOMAIN blk \subseteq Pids /\ DOMAIN blk \subseteq alv /\ p \in Pids
        BY <1>1, Zenon
      <4> HIDE DEF s
      <4>2. s = acknowledge(m, a, e)
        BY Zenon DEF s
      <4> QED
        BY ONLY <3>3, <4>1, <4>2, IpcOK(m, blk, pend, hld, alv), Acknowledge, Zenon
    <3> HIDE DEF s
    <3>6. IpcOK(r.m, Wake(blk, r.events), pend, hld2, alv) /\ r.res = "ok"
      BY <3>4, <3>5, Zenon
    <3>7. After(r, blk, p) = Wake(blk, r.events)
      BY <3>6, Zenon DEF After
    <3> QED
      BY <3>6, <3>7, Zenon
  <2>3. CASE c.op = "select"
    <3>1. r = select(m, c.subs, c.blocking)
      BY <2>3, Zenon DEF syscall
    <3>2. SameHeld(hld, hld2)
      BY <2>3, Zenon DEF Called, SameHeld
    <3>3. r.res # "panic"
      BY Zenon
    <3> HIDE DEF r
    <3>4. IpcOK(r.m, After(r, blk, p), pend, hld, alv)
      BY <1>1, <1>2, <3>1, <3>3, Select, Zenon
    <3>5. DOMAIN After(r, blk, p) \subseteq Pids
      BY <1>1, AfterDomain, Zenon
    <3>6. SameCalls(pend, pend)
      BY Zenon DEF SameCalls
    <3> QED
      BY <3>2, <3>4, <3>5, <3>6, Settle, Zenon
  <2> QED
    BY <2>1, <2>2, <2>3, Zenon
<1> HIDE DEF r
<1>4. DOMAIN After(r, blk, p) \subseteq Pids
  BY <1>1, AfterDomain, Zenon
<1>5. SameHeld(hld2, hld2)
  BY Zenon DEF SameHeld
<1>6. IpcOK(r.m, After(r, blk, p), pend2, hld2, alv)
  BY <1>2, <1>3, <1>4, <1>5, Settle, Zenon
<1> QED
  BY <1>6, Zenon DEF r

(* A deliver call that is repeated finds its result; a new one does not    *)
(* find an old result.                                                     *)
LEMMA DeliverCall ==
  ASSUME NEW m, NEW p, NEW c, NEW blk, NEW pend, NEW pend2, NEW hld, NEW hld2, NEW alv,
         Calling(p, c, blk, pend, hld, alv), IpcOK(m, blk, pend, hld, alv),
         Called(p, c, m, syscall(m, p, c).res, pend, pend2, hld, hld2),
         syscall(m, p, c).res # "panic", c.op = "deliver"
  PROVE  IpcOK(syscall(m, p, c).m, After(syscall(m, p, c), blk, p), pend2, hld2, alv)
<1> DEFINE r == syscall(m, p, c)
<1>1. /\ IsMap(blk) /\ DOMAIN blk \subseteq alv /\ DOMAIN blk \subseteq Pids
      /\ p \in alv /\ p \in Pids /\ c.op \in Ops /\ p \notin DOMAIN blk /\ c # None
      /\ pend[p] \in {None, c}
  BY Zenon DEF Calling
<1>2. /\ SameHeld(hld, hld2) /\ SameHeld(hld, hld)
      /\ \A q \in Pids : q # p => (Delivering(pend2, q) <=> Delivering(pend, q))
      /\ pend2[p] = IF r.res = "wait" THEN c ELSE None
  BY <1>1, Zenon DEF Called, SameHeld, Delivering
<1>3. r = IF p \in DOMAIN m.delivery_result THEN after_delivery(m, p)
          ELSE IF ~ValidTopic(c.topic) THEN InvalidTopic(m)
          ELSE deliver(m, p, c.topic, c.reply_to)
  BY Zenon DEF syscall, ipc_deliver, delivery_complete
<1>4. r.res # "panic"
  BY Zenon
<1> HIDE DEF r
<1>5. DOMAIN After(r, blk, p) \subseteq Pids
  BY <1>1, AfterDomain, Zenon
<1>6. CASE p \in DOMAIN m.delivery_result
  <2>1. r = after_delivery(m, p)
    BY <1>3, <1>6, Zenon
  <2>2. r.res # "wait"
    <3>1. r.res = m.delivery_result[p]
      BY <2>1, Zenon DEF after_delivery, Result
    <3> QED
      BY <1>6, <3>1, Zenon DEF IpcOK, SendersOK
  <2>3. ~Delivering(pend2, p)
    BY <1>2, <2>2, Zenon DEF Delivering
  <2>4. IpcOK(r.m, Wake(blk, r.events), pend2, hld, alv)
    BY <1>1, <1>2, <1>6, <2>1, <2>3, AfterDelivery, Zenon
  <2>5. After(r, blk, p) = Wake(blk, r.events) /\ SameCalls(pend2, pend2)
    BY <2>2, Zenon DEF After, SameCalls
  <2>6. IpcOK(r.m, After(r, blk, p), pend2, hld2, alv)
    BY <1>2, <1>5, <2>4, <2>5, Settle, Zenon
  <2> QED
    BY <2>6, Zenon DEF r
<1>7. CASE p \notin DOMAIN m.delivery_result
  <2>1. ~Delivering(pend, p)
    BY <1>1, <1>7, Zenon DEF IpcOK, SendersOK
  <2>2. CASE r.res # "wait"
    <3>1. SameCalls(pend, pend2)
      BY <1>1, <1>2, <2>1, <2>2, Zenon DEF SameCalls, Delivering
    <3>2. IpcOK(r.m, After(r, blk, p), pend, hld, alv)
      <4>1. CASE ValidTopic(c.topic)
        <5>1. r = deliver(m, p, c.topic, c.reply_to)
          BY <1>3, <1>7, <4>1, Zenon
        <5> DEFINE x == [q \in Pids |-> IF q = p THEN c ELSE pend[q]]
        <5>2. /\ Delivering(x, p)
              /\ \A q \in Pids : q # p => (Delivering(x, q) <=> Delivering(pend, q))
          BY <1>1, Zenon DEF Delivering
        <5> HIDE DEF x
        <5>3. IpcOK(r.m, After(r, blk, p), IF r.res = "wait" THEN x ELSE pend, hld, alv)
          BY <1>1, <1>4, <2>1, <5>1, <5>2, Deliver, Zenon
        <5> QED
          BY <2>2, <5>3, Zenon
      <4>2. CASE ~ValidTopic(c.topic)
        <5>1. r.m = m /\ r.events = {}
          BY <1>3, <1>7, <4>2, Zenon DEF InvalidTopic, Result
        <5>2. After(r, blk, p) = blk
          BY <1>1, <2>2, <5>1, WakeNone, Zenon DEF After
        <5> QED
          BY <5>1, <5>2, Zenon
      <4> QED
        BY <4>1, <4>2, Zenon
    <3>3. IpcOK(r.m, After(r, blk, p), pend2, hld2, alv)
      BY <1>2, <1>5, <3>1, <3>2, Settle, Zenon
    <3> QED
      BY <3>3, Zenon DEF r
  <2>3. CASE r.res = "wait"
    <3>1. r = deliver(m, p, c.topic, c.reply_to)
      BY <1>3, <1>7, <2>3, Zenon DEF InvalidTopic, Result
    <3>2. Delivering(pend2, p)
      BY <1>1, <1>2, <2>3, Zenon DEF Delivering
    <3>3. IpcOK(r.m, After(r, blk, p), IF r.res = "wait" THEN pend2 ELSE pend, hld, alv)
      BY <1>1, <1>2, <1>4, <2>1, <3>1, <3>2, Deliver, Zenon
    <3>4. SameCalls(pend2, pend2)
      BY Zenon DEF SameCalls
    <3>5. IpcOK(r.m, After(r, blk, p), pend2, hld2, alv)
      BY <1>2, <1>5, <2>3, <3>3, <3>4, Settle, Zenon
    <3> QED
      BY <3>5, Zenon DEF r
  <2> QED
    BY <2>2, <2>3, Zenon
<1> QED
  BY <1>6, <1>7, Zenon

LEMMA CallMail ==
  ASSUME NEW m, NEW p, NEW c, NEW blk, NEW pend, NEW pend2, NEW hld, NEW hld2, NEW alv,
         Calling(p, c, blk, pend, hld, alv), IpcOK(m, blk, pend, hld, alv),
         Called(p, c, m, syscall(m, p, c).res, pend, pend2, hld, hld2),
         syscall(m, p, c).res # "panic"
  PROVE  IpcOK(syscall(m, p, c).m, After(syscall(m, p, c), blk, p), pend2, hld2, alv)
<1>1. c.op \in Ops
  BY Zenon DEF Calling
<1>2. CASE c.op \in {"subscribe", "unsubscribe", "publish", "reply", "yield"}
  BY <1>2, SimpleCall, Zenon
<1>3. CASE c.op \in {"receive", "acknowledge", "select"}
  BY <1>3, MailCall, Zenon
<1>4. CASE c.op = "deliver"
  BY <1>4, DeliverCall, Zenon
<1> QED
  BY <1>1, <1>2, <1>3, <1>4, Zenon DEF Ops

-----------------------------------------------------------------------------
(* The actions                                                             *)

LEMMA HaltInv ==
  ASSUME KernelInv, Halt
  PROVE  KernelInv'
<1>1. ScheduleOK'
  BY HaltSchedule, Zenon DEF KernelInv
<1>2. IpcOK(ipc, blocked, pending, held, alive)'
  BY Zenon DEF Halt, KernelInv
<1> QED
  BY <1>1, <1>2, Zenon DEF KernelInv

LEMMA PerformInv ==
  ASSUME KernelInv, NEW p, NEW c, NEW interrupted, NEW stop, Caller(p, stop),
         Calling(p, c, blocked, pending, held, alive), Perform(p, c, interrupted, stop)
  PROVE  KernelInv'
<1> DEFINE r == syscall(ipc, p, c)
<1>1. CASE r.res = "panic"
  BY <1>1, HaltInv, Zenon DEF Perform
<1>2. CASE r.res # "panic"
  <2>1. ScheduleOK'
    BY PerformSchedule, Zenon DEF KernelInv, Calling
  <2>2. /\ ipc' = r.m /\ alive' = alive /\ blocked' = After(r, blocked, p)
        /\ pending' = [pending EXCEPT ![p] = IF r.res = "wait" THEN c ELSE None]
        /\ held' = [held EXCEPT ![p] = HeldAfter(p, c, r.res)]
    BY <1>2, Zenon DEF Perform, After
  <2>3. Called(p, c, ipc, r.res, pending, pending', held, held')
    <3>1. DOMAIN pending = Pids /\ DOMAIN held = Pids
      BY Zenon DEF KernelInv, ScheduleOK, PendingOK
    <3> HIDE DEF r
    <3> QED
      BY <2>2, <3>1, Zenon DEF Box, Called, HeldAfter
  <2>4. IpcOK(r.m, After(r, blocked, p), pending', held', alive)
    BY <1>2, <2>3, CallMail, Zenon DEF KernelInv
  <2>5. IpcOK(ipc, blocked, pending, held, alive)'
    BY <2>2, <2>4, Zenon
  <2> QED
    BY <2>1, <2>5, Zenon DEF KernelInv
<1> QED
  BY <1>1, <1>2, Zenon

LEMMA RunningPlace ==
  ASSUME KernelInv, running # None
  PROVE  /\ running \in alive /\ running \in Pids /\ running \notin DOMAIN blocked
         /\ IsMap(blocked) /\ DOMAIN blocked \subseteq alive /\ alive \subseteq Pids
BY Zenon DEF KernelInv, ScheduleOK, Places

LEMMA ExecutingPlace ==
  ASSUME KernelInv, NEW p \in alive, Executing(p)
  PROVE  running = p /\ p # None /\ pending[p] = None
<1>1. p # None /\ running = p /\ cpu.mode = "user"
  BY KernelAssumption, Zenon DEF KernelInv, ScheduleOK, Executing, User
<1> QED
  BY <1>1, Zenon DEF KernelInv, ScheduleOK, CpuOK

LEMMA SyscallInv ==
  ASSUME KernelInv, NEW p \in alive, Syscall(p)
  PROVE  KernelInv'
<1>1. Executing(p)
  BY Zenon DEF Syscall
<1>2. PICK c \in CallsOf(p) : Perform(p, c, p, Idle)
  BY Zenon DEF Syscall
<1>3. running = p /\ p # None /\ pending[p] = None
  BY <1>1, ExecutingPlace, Zenon
<1>4. /\ p \in Pids /\ p \notin DOMAIN blocked
      /\ IsMap(blocked) /\ DOMAIN blocked \subseteq alive /\ alive \subseteq Pids
  BY <1>3, RunningPlace, Zenon
<1>5. c.op \in Ops
  BY CallsAreOps, Zenon
<1>6. c.op = "acknowledge" => c.ack \in held[p]
  BY SMTT(30) DEF CallsOf
<1>7. c.op = "deliver" => c # None
  <2>1. None \notin Programs[p]
    BY <1>4, KernelAssumption, Zenon
  <2>2. c.op = "deliver" => c \in Programs[p]
    BY SMTT(30) DEF CallsOf
  <2> QED
    BY <2>1, <2>2, Zenon
<1>8. Calling(p, c, blocked, pending, held, alive)
  BY <1>3, <1>4, <1>5, <1>6, <1>7, Zenon DEF Calling
<1>9. Caller(p, Idle)
  BY <1>3, Zenon DEF Caller, Idle
<1> QED
  BY <1>2, <1>8, <1>9, PerformInv, Zenon

LEMMA RepeatInv ==
  ASSUME KernelInv, RepeatSyscall
  PROVE  KernelInv'
<1> DEFINE p == cpu.pid
           c == pending[p]
           stop == FallThrough(cpu.interrupted)
<1>1. running = p /\ running # None /\ c # None
  BY Zenon DEF KernelInv, ScheduleOK, CpuOK, RepeatSyscall
<1>2. /\ p \in alive /\ p \in Pids /\ p \notin DOMAIN blocked
      /\ IsMap(blocked) /\ DOMAIN blocked \subseteq alive /\ alive \subseteq Pids
  BY <1>1, RunningPlace, Zenon
<1>3. c.op \in {"deliver", "receive", "select"}
  BY <1>1, <1>2, Zenon DEF KernelInv, ScheduleOK, PendingOK
<1>4. Calling(p, c, blocked, pending, held, alive)
  BY <1>1, <1>2, <1>3, Zenon DEF Calling, Ops
<1>5. Caller(p, stop)
  BY <1>1, Zenon DEF Caller, FallThrough, Idle, User
<1>6. Perform(p, c, cpu.interrupted, stop)
  BY Zenon DEF RepeatSyscall
<1> HIDE DEF p, c, stop
<1> QED
  BY <1>4, <1>5, <1>6, PerformInv, Zenon

LEMMA PublishInv ==
  ASSUME KernelInv, NEW topic, NEW next, KernelPublish(topic, next)
  PROVE  KernelInv'
<1> DEFINE r == publish(ipc, topic)
<1>1. CASE r.res = "panic"
  BY <1>1, HaltInv, Zenon DEF KernelPublish
<1>2. CASE r.res # "panic"
  <2>1. ScheduleOK'
    BY KernelPublishSchedule, Zenon DEF KernelInv
  <2>2. /\ ipc' = r.m /\ blocked' = Wake(blocked, r.events)
        /\ pending' = pending /\ held' = held /\ alive' = alive
    BY <1>2, Zenon DEF KernelPublish
  <2>3. IsMap(blocked) /\ DOMAIN blocked \subseteq Pids
    BY Zenon DEF KernelInv, ScheduleOK, Places
  <2>4. IpcOK(r.m, Wake(blocked, r.events), pending, held, alive)
    BY <1>2, <2>3, Publish, Zenon DEF KernelInv
  <2>5. IpcOK(ipc, blocked, pending, held, alive)'
    BY <2>2, <2>4, Zenon
  <2> QED
    BY <2>1, <2>5, Zenon DEF KernelInv
<1> QED
  BY <1>1, <1>2, Zenon

LEMMA TickInv ==
  ASSUME KernelInv, Tick
  PROVE  KernelInv'
<1>1. ScheduleOK'
  BY TickSchedule, Zenon DEF KernelInv
<1>2. IpcOK(ipc, blocked, pending, held, alive)'
  BY Zenon DEF Tick, KernelInv
<1> QED
  BY <1>1, <1>2, Zenon DEF KernelInv

LEMMA WakeDomain ==
  ASSUME NEW blk, NEW E
  PROVE  IsMap(Wake(blk, E)) /\ DOMAIN Wake(blk, E) \subseteq DOMAIN blk
BY Zenon DEF Wake, Drop, Restrict, IsMap

LEMMA ExitInv ==
  ASSUME KernelInv, NEW p \in alive, Exit(p)
  PROVE  KernelInv'
<1> DEFINE unsub == UnsubscribeAll(ipc, p)
           disc == Disconnect(unsub.m, p)
           told == publish(disc.m, TerminatedTopic)
           b1 == Wake(blocked, unsub.events)
           b2 == Wake(b1, disc.events)
           b3 == Wake(b2, told.events)
           alv == alive \ {p}
<1>1. Executing(p)
  BY Zenon DEF Exit
<1>2. running = p /\ p # None /\ pending[p] = None
  BY <1>1, ExecutingPlace, Zenon
<1>3. /\ p \in Pids /\ p \notin DOMAIN blocked
      /\ IsMap(blocked) /\ DOMAIN blocked \subseteq alive /\ DOMAIN blocked \subseteq Pids
  BY <1>2, RunningPlace, Zenon
<1>4. CASE unsub.res = "panic" \/ told.res = "panic"
  BY <1>4, HaltInv, Zenon DEF Exit
<1>5. CASE ~(unsub.res = "panic" \/ told.res = "panic")
  <2>1. ScheduleOK'
    BY ExitSchedule, Zenon DEF KernelInv
  <2>2. /\ ipc' = told.m /\ blocked' = b3 /\ alive' = alv
        /\ pending' = pending /\ held' = held
    BY <1>5, Zenon DEF Exit
  <2>3. told.res # "panic"
    BY <1>5, Zenon
  <2>4. ~Delivering(pending, p)
    BY <1>2, Zenon DEF Delivering
  <2>5. MailOK(unsub.m, b1, pending, held, alive) /\ OwnersOK(unsub.m, alv)
    BY <1>3, UnsubscribeEverything, Zenon DEF KernelInv
  <2>6. IsMap(b1) /\ DOMAIN b1 \subseteq DOMAIN blocked
    BY WakeDomain, Zenon
  <2> HIDE DEF unsub, b1
  <2>7. IpcOK(disc.m, b2, pending, held, alv)
    BY <1>3, <2>4, <2>5, <2>6, DisconnectPipes, Zenon
  <2>8. IsMap(b2) /\ DOMAIN b2 \subseteq Pids
    <3>1. IsMap(b2) /\ DOMAIN b2 \subseteq DOMAIN b1
      BY WakeDomain, Zenon
    <3> QED
      BY <1>3, <2>6, <3>1, Zenon
  <2> HIDE DEF disc, b2, alv
  <2>9. IpcOK(told.m, b3, pending, held, alv)
    BY <2>3, <2>7, <2>8, Publish, Zenon
  <2> HIDE DEF told, b3
  <2>10. IpcOK(ipc, blocked, pending, held, alive)'
    BY <2>2, <2>9, Zenon
  <2> QED
    BY <2>1, <2>10, Zenon DEF KernelInv
<1> QED
  BY <1>4, <1>5, Zenon

LEMMA KernelInitial ==
  ASSUME KernelInit
  PROVE  KernelInv
<1>1. PICK ids \in Systems : /\ ready = Tail(ids) /\ running = Head(ids) /\ cpu = User(Head(ids))
                             /\ alive = Range(ids)
  BY Zenon DEF KernelInit
<1>2. IsSeq(ids) /\ ids # <<>> /\ IsInjective(ids) /\ None \notin Pids /\ Range(ids) \subseteq Pids
  BY KernelAssumption, Zenon DEF IsSeq, Pids
<1>3. /\ IsSeq(Tail(ids)) /\ Range(ids) = Range(Tail(ids)) \cup {Head(ids)}
      /\ IsInjective(Tail(ids)) /\ Head(ids) \notin Range(Tail(ids))
  BY <1>2, TailFacts, Zenon
<1>4. IsMap(<<>>) /\ DOMAIN <<>> = {}
  BY SMTT(30) DEF IsMap
<1>5. blocked = <<>> /\ pending = [q \in Pids |-> None] /\ held = [q \in Pids |-> {}]
  BY Zenon DEF KernelInit
<1>6. ScheduleOK
  <2>1. Countable(Range(ids))
    <3>1. DOMAIN ids = 1 .. Len(ids) /\ Len(ids) \in Nat
      BY <1>2, SeqFacts, Zenon
    <3>2. IsFiniteSet(DOMAIN ids)
      BY <3>1, FS_Interval, SMTT(30)
    <3>3. ids \in Surjection(DOMAIN ids, Range(ids))
      BY <1>2, <3>1, SeqFacts, Zenon DEF Surjection, Range, IsSeq
    <3>4. IsFiniteSet(Range(ids))
      BY <3>2, <3>3, FS_Surjection, Zenon
    <3> QED
      BY <3>4, FS_Subset, FS_CardinalityType, Zenon DEF Countable
  <2>2. Places(ready, blocked, running, alive)
    BY <1>1, <1>2, <1>3, <1>4, <1>5, Zenon DEF Places
  <2>3. PendingOK(pending) /\ DOMAIN held = Pids /\ IsMap(held)
    BY <1>5, Zenon DEF PendingOK, IsMap
  <2>4. CpuOK(cpu, running, pending)
    BY <1>1, <1>2, <1>3, <1>5, Zenon DEF CpuOK, User
  <2> QED
    BY <1>1, <1>2, <2>1, <2>2, <2>3, <2>4, Zenon DEF ScheduleOK
<1>7. IpcOK(ipc, blocked, pending, held, alive)
  <2> DEFINE m == Manager_new
  <2>1. /\ m.subscriptions.targets = <<>> /\ NextId(m) = 0
        /\ m.subscriptions = [targets |-> <<>>, next_subscription_id |-> 0]
        /\ m.mailboxes = <<>> /\ m.waiting_for_delivery = <<>> /\ m.delivery_result = <<>>
        /\ m.next_acknowledge_id = 0 /\ m.process_subscriptions = <<>> /\ IsManager(m)
    BY Zenon DEF NextId, Manager_new, List_new, IsManager
  <2> HIDE DEF m
  <2>2. MailOK(m, blocked, pending, held, alive)
    <3>1. IsSeq(<<>>)
      BY SMTT(30) DEF IsSeq, Range
    <3>2. Boxes(m) = {} /\ Listed(m) = {}
      BY <1>4, <2>1, Zenon DEF Boxes, Listed
    <3>3. ManagerOK(m)
      BY <1>4, <2>1, <3>1, <3>2, SMTT(30) DEF ManagerOK
    <3>4. \A q \in Pids : held[q] = {} /\ pending[q] = None
      BY <1>5, Zenon
    <3>5. AcksOK(m, held)
      BY <1>4, <2>1, <3>2, <3>4, Zenon DEF AcksOK
    <3>6. WaitersOK(m, blocked)
      BY <1>4, <1>5, Zenon DEF WaitersOK
    <3>7. SendersOK(m, blocked, pending, alive)
      BY <1>4, <1>5, <2>1, <3>4, Zenon DEF SendersOK, Delivering
    <3>8. PipesOK(m, alive)
      BY <3>2, Zenon DEF PipesOK
    <3> QED
      BY <3>3, <3>5, <3>6, <3>7, <3>8, Zenon DEF MailOK
  <2>3. ipc = AddMailbox(m, InitrdFilter, TRUE, KernelMailbox)
    BY Zenon DEF KernelInit, kernel_subscribe, m
  <2> DEFINE b == KernelMailbox
  <2>4. BoxOK(b) /\ b.queue = <<>> /\ b.kernel = TRUE /\ b.pipe_mode = "None"
    BY NewBoxes, Zenon
  <2> HIDE DEF b
  <2>5. MailOK(ipc, blocked, pending, held, alive) /\ Added(m, ipc, b)
    BY <2>2, <2>3, <2>4, AddBox, Zenon DEF b
  <2>6. OwnersOK(ipc, alive)
    <3>1. DOMAIN ipc.process_subscriptions = {}
      BY <1>4, <2>1, <2>5, Zenon DEF Added
    <3>2. \A s \in Boxes(ipc) : Box(ipc, s).kernel = TRUE
      BY <1>4, <2>1, <2>4, <2>5, Zenon DEF Added, Boxes
    <3> QED
      BY <3>1, <3>2, Zenon DEF OwnersOK
  <2> QED
    BY <2>5, <2>6, IpcParts, Zenon
<1> QED
  BY <1>6, <1>7, Zenon DEF KernelInv

-----------------------------------------------------------------------------
(* The theorems                                                            *)

LEMMA KernelStep ==
  ASSUME KernelInv, [KernelNext]_kernelVars
  PROVE  KernelInv'
<1>1. ASSUME NEW p \in alive, Syscall(p) PROVE KernelInv'
  BY <1>1, SyscallInv, Zenon
<1>2. ASSUME NEW p \in alive, Exit(p) PROVE KernelInv'
  BY <1>2, ExitInv, Zenon
<1>3. CASE RepeatSyscall
  BY <1>3, RepeatInv, Zenon
<1>4. CASE Tick
  BY <1>4, TickInv, Zenon
<1>5. CASE DynamicIrq
  BY <1>5, PublishInv, Zenon DEF DynamicIrq
<1>6. CASE KeyboardIrq
  BY <1>6, PublishInv, Zenon DEF KeyboardIrq
<1>7. CASE InterruptUnscheduled
  BY <1>7, HaltInv, Zenon DEF InterruptUnscheduled
<1>8. CASE UNCHANGED kernelVars
  <2>1. ScheduleOK'
    BY <1>8, Zenon DEF KernelInv, ScheduleOK, kernelVars, Places, PendingOK, CpuOK
  <2>2. IpcOK(ipc, blocked, pending, held, alive)'
    BY <1>8, Zenon DEF KernelInv, kernelVars
  <2> QED
    BY <2>1, <2>2, Zenon DEF KernelInv
<1> QED
  BY <1>1, <1>2, <1>3, <1>4, <1>5, <1>6, <1>7, <1>8, Zenon DEF KernelNext

(***************************************************************************)
(* The scheduler's queues, the manager's tables and the calls in progress  *)
(* agree after every system call, repeated call, termination and interrupt.*)
(***************************************************************************)
THEOREM KernelInvariant == KernelSpec => []KernelInv
<1>1. KernelInit => KernelInv
  BY KernelInitial, Zenon
<1>2. KernelInv /\ [KernelNext]_kernelVars => KernelInv'
  BY KernelStep, Zenon
<1> QED
  BY <1>1, <1>2, PTL DEF KernelSpec

(***************************************************************************)
(* subscribe, unsubscribe and Scheduler::terminate keep the subscription   *)
(* list, the mailboxes and process_subscriptions in step, for any number   *)
(* of processes and subscriptions.                                         *)
(***************************************************************************)
THEOREM KernelMailboxesOwned == KernelSpec => []MailboxesOwned
<1>1. KernelInv => MailboxesOwned
  <2> SUFFICES ASSUME KernelInv PROVE MailboxesOwned
    BY Zenon
  <2> DEFINE ps == ipc.process_subscriptions
             ids == Listed(ipc)
             own(s) == {p \in Pids : process_owns(ipc, p, s)}
  <2>1. ids = Boxes(ipc)
    BY Zenon DEF KernelInv, IpcOK, ManagerOK
  <2>2. /\ DOMAIN ps \subseteq alive /\ alive \subseteq Pids
        /\ \A p \in DOMAIN ps : ps[p] \subseteq Boxes(ipc)
        /\ \A s \in Boxes(ipc) : IF Box(ipc, s).kernel
                                 THEN \A p \in DOMAIN ps : s \notin ps[p]
                                 ELSE \E p \in DOMAIN ps : s \in ps[p]
        /\ \A p, q \in DOMAIN ps : \A s \in ps[p] : s \in ps[q] => p = q
    BY Zenon DEF KernelInv, IpcOK, OwnersOK, ScheduleOK
  <2>3. \A p \in Pids : Owned(ipc, p) = IF p \in DOMAIN ps THEN ps[p] ELSE {}
    BY Zenon DEF Owned
  <2>4. \A s : \A p : p \in own(s) <=> p \in DOMAIN ps /\ s \in ps[p]
    BY <2>2, <2>3, Zenon DEF process_owns
  <2> HIDE DEF ps, ids, own
  <2>5. ASSUME NEW s \in ids
        PROVE  IF Box(ipc, s).kernel THEN own(s) = {}
               ELSE Cardinality(own(s)) = 1 /\ own(s) \subseteq alive
    <3>1. CASE Box(ipc, s).kernel
      BY <2>1, <2>2, <2>4, <3>1, Zenon
    <3>2. CASE ~Box(ipc, s).kernel
      <4>1. PICK p \in DOMAIN ps : s \in ps[p]
        BY <2>1, <2>2, <3>2, Zenon
      <4>2. own(s) = {p}
        BY <2>2, <2>4, <4>1, SMTT(30)
      <4> QED
        BY <2>2, <3>2, <4>1, <4>2, FS_Singleton, Zenon
    <3> QED
      BY <3>1, <3>2, Zenon
  <2>6. \A p \in Pids : Owned(ipc, p) \subseteq ids
    BY <2>1, <2>2, <2>3, Zenon
  <2> QED
    BY <2>1, <2>5, <2>6, Zenon DEF Box, MailboxesOwned, ids, own, Listed, Boxes
<1> QED
  BY <1>1, KernelInvariant, PTL

(***************************************************************************)
(* receive and select never lose a wakeup: between the check of an empty   *)
(* mailbox and the next push, get_event's event stays registered.          *)
(***************************************************************************)
THEOREM KernelNoLostWakeup == KernelSpec => []NoLostWakeup
<1>1. KernelInv => NoLostWakeup
  BY Zenon DEF Box, KernelInv, IpcOK, WaitersOK, NoLostWakeup, Boxes
<1> QED
  BY <1>1, KernelInvariant, PTL

(***************************************************************************)
(* delivery_result has an entry exactly for the processes that are about   *)
(* to repeat a deliver call, so delivery_complete never takes a new        *)
(* delivery for an old one.                                                *)
(***************************************************************************)
THEOREM KernelResultForCaller == KernelSpec => []ResultForCaller
<1>1. KernelInv => ResultForCaller
  BY Zenon DEF KernelInv, IpcOK, SendersOK, ResultForCaller, Delivering
<1> QED
  BY <1>1, KernelInvariant, PTL

(***************************************************************************)
(* Every acknowledge id is in one queue or with one process, and its       *)
(* sender waits for it: the lookups of waiting_for_delivery in acknowledge *)
(* and in _force_unsubscribe find an entry, for any size of the mailboxes. *)
(***************************************************************************)
THEOREM KernelAckAccounting == KernelSpec => []AckAccounting
<1>1. KernelInv => AckAccounting
  <2> SUFFICES ASSUME KernelInv PROVE AckAccounting
    BY Zenon
  <2> DEFINE w == ipc.waiting_for_delivery
             boxes == DOMAIN ipc.mailboxes
  <2>1. \A S : \A a : a \in QueuedAcks(ipc, S) <=>
          a # None /\ \E s \in S : \E i \in Slots(ipc, s) : AckAt(ipc, s, i) = a
    BY SMTT(30) DEF Box, QueuedAcks, Slots, AckAt
  <2>2. /\ \A a \in DOMAIN w : a \in Nat
        /\ \A s \in boxes : \A i \in Slots(ipc, s) :
             AckAt(ipc, s, i) # None => AckAt(ipc, s, i) \in DOMAIN w
        /\ \A p \in Pids : held[p] \subseteq DOMAIN w
        /\ \A a \in DOMAIN w : \/ \E s \in boxes : \E i \in Slots(ipc, s) : AckAt(ipc, s, i) = a
                               \/ \E p \in Pids : a \in held[p]
        /\ \A s, t \in boxes : \A i \in Slots(ipc, s), j \in Slots(ipc, t) :
             AckAt(ipc, s, i) # None /\ AckAt(ipc, s, i) = AckAt(ipc, t, j) => s = t /\ i = j
        /\ \A s \in boxes : \A i \in Slots(ipc, s) : \A p \in Pids : AckAt(ipc, s, i) \notin held[p]
    BY Zenon DEF KernelInv, IpcOK, AcksOK, Boxes
  <2>3. SenderWaits
    BY Zenon DEF KernelInv, IpcOK, SendersOK, SenderWaits
  <2> HIDE DEF w, boxes
  <2>4. DOMAIN w = QueuedAcks(ipc, boxes) \cup UNION {held[p] : p \in Pids}
    <3>1. \A a \in DOMAIN w : a # None
      BY <2>2, KernelAssumption, ZenonT(30)
    <3>2. \A a \in DOMAIN w : a \in QueuedAcks(ipc, boxes) \/ a \in UNION {held[p] : p \in Pids}
      BY <2>1, <2>2, <3>1, SMTT(30)
    <3>3. \A a \in QueuedAcks(ipc, boxes) : a \in DOMAIN w
      BY <2>1, <2>2, SMTT(30)
    <3>4. \A a \in UNION {held[p] : p \in Pids} : a \in DOMAIN w
      BY <2>2, SMTT(30)
    <3> QED
      BY <3>2, <3>3, <3>4, Zenon
  <2>5. \A s, t \in boxes : s # t => QueuedAcks(ipc, {s}) \cap QueuedAcks(ipc, {t}) = {}
    BY <2>1, <2>2, SMTT(30)
  <2>6. \A p \in Pids : held[p] \cap QueuedAcks(ipc, boxes) = {}
    BY <2>1, <2>2, SMTT(30)
  <2> QED
    BY <2>3, <2>4, <2>5, <2>6, Zenon DEF AckAccounting, w, boxes
<1> QED
  BY <1>1, KernelInvariant, PTL

(***************************************************************************)
(* A pipe that deliver connected carries the messages of one living        *)
(* process, and terminate leaves no message in a pipe it disconnects.      *)
(***************************************************************************)
THEOREM KernelPipePrivate == KernelSpec => []PipePrivate
<1>1. KernelInv => PipePrivate
  <2> SUFFICES ASSUME KernelInv, NEW s \in DOMAIN ipc.mailboxes
               PROVE  /\ Box(ipc, s).pipe_mode = "ConnectedTo" =>
                           /\ Box(ipc, s).peer \in alive
                           /\ {ipc.waiting_for_delivery[a].pid : a \in QueuedAcks(ipc, {s})}
                                \subseteq {Box(ipc, s).peer}
                      /\ Box(ipc, s).pipe_mode \in {"NotConnected", "Disconnected"} =>
                           Box(ipc, s).queue = <<>>
    BY Zenon DEF Box, PipePrivate
  <2>1. \A a \in QueuedAcks(ipc, {s}) : \E i \in Slots(ipc, s) : AckAt(ipc, s, i) = a
    BY SMTT(30) DEF Box, QueuedAcks, Slots, AckAt
  <2>2. BoxOK(Box(ipc, s))
    BY Zenon DEF KernelInv, IpcOK, ManagerOK, Boxes
  <2>3. Box(ipc, s).pipe_mode = "ConnectedTo" =>
          /\ Box(ipc, s).peer \in alive
          /\ \A i \in Slots(ipc, s) :
               ipc.waiting_for_delivery[AckAt(ipc, s, i)].pid = Box(ipc, s).peer
    BY Zenon DEF KernelInv, IpcOK, PipesOK, Boxes
  <2>4. Box(ipc, s).pipe_mode \in {"NotConnected", "Disconnected"} =>
          Box(ipc, s).queue = <<>>
    BY <2>2, Zenon DEF BoxOK
  <2> QED
    BY <2>1, <2>3, <2>4, Zenon
<1> QED
  BY <1>1, KernelInvariant, PTL
=============================================================================
