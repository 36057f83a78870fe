------------------------- MODULE AbstractScheduler --------------------------
(***************************************************************************)
(* What the scheduler promises, without wait ids: a process is running, in *)
(* the ready queue, or blocked on a set of conditions, and the first of    *)
(* its conditions to come true makes it ready.  Module Scheduler           *)
(* implements this with wait tables in which the registrations of earlier  *)
(* waits stay behind.                                                      *)
(***************************************************************************)
EXTENDS Queues

CONSTANTS None, Events, Waits, TIME_SLICE, MIN_EXEC_TIME, MaxPid

VARIABLES
  ready,    \* the ready processes, next to run first
  current,  \* the running process, or None
  blocked,  \* blocked process -> the conditions it waits for
  slice,    \* remaining time slice, or None
  nextPid,  \* id of the next process
  timer     \* time until the timer interrupt, or None

absVars == <<ready, current, blocked, slice, nextPid, timer>>

Exists(p) == p \in Range(ready) \cup DOMAIN blocked

(* What p has to wait for when it asks for w: nothing if w names a process *)
(* that is over.  Waking processes changes nothing about which exist.      *)
Need(w, p) == IF \E d \in w.processes : d # p /\ ~Exists(d)
              THEN WaitForNone ELSE reduce(w)

(* The processes with a condition that satisfies Holds become ready, ahead *)
(* of the queue and in some order; rdy and blk are the resulting values.   *)
Orders(S) == Bijection(1 .. Cardinality(S), S)
WithTime(b) == {p \in DOMAIN b : 0 \in b[p].times}
WithEvent(b, E) == {p \in DOMAIN b : b[p].events \cap E # {}}
WithProcess(b, d) == {p \in DOMAIN b : d \in b[p].processes}
Without(b, S) == Restrict(b, DOMAIN b \ S)

(* The head of rdy runs next, with a new slice. *)
RunNext(rdy) ==
  IF rdy = <<>>
  THEN ready' = rdy /\ current' = None /\ slice' = None
  ELSE ready' = Tail(rdy) /\ current' = Head(rdy) /\ slice' = TIME_SLICE

(* Mutant: the timer is set for the end of the slice only.                 *)
ArmTimer_slice_only(old) ==
  timer' \in IF slice' = None THEN {old}
             ELSE {Earliest({slice', MIN_EXEC_TIME})}

(* Set the timer for the first instant something is due, but for no more   *)
(* than MIN_EXEC_TIME.  The instant of a wait that something else ended    *)
(* stays in the queue of sleepers, so the interrupt may also come sooner.  *)
ArmTimer(old) ==
  LET times == UNION {blocked'[p].times : p \in DOMAIN blocked'}
      ends  == (times \cup {slice'}) \ {None}
      due   == Earliest(ends \cup {MIN_EXEC_TIME})
  IN  timer' \in IF ends = {} THEN {old} \cup 1 .. MIN_EXEC_TIME
                 ELSE {due} \cup 1 .. due

-----------------------------------------------------------------------------

AbsInit ==
  /\ ready = <<1>> /\ current = None /\ blocked = <<>>
  /\ slice = None /\ nextPid = 2 /\ timer = 0

AbsSpawn(ok) ==
  /\ timer # 0 /\ current # None /\ nextPid <= MaxPid
  /\ nextPid' = nextPid + 1
  /\ ready' = IF ok THEN Append(ready, nextPid) ELSE ready
  /\ UNCHANGED <<current, blocked, slice, timer>>

(* The running process gives up the processor until w, the queue and the   *)
(* blocked processes being rdy and blk.                                    *)
Leave(rdy, blk, w) ==
  LET n == Need(w, current)
  IN  IF n = WaitForNone
      THEN RunNext(Append(rdy, current)) /\ blocked' = blk
      ELSE /\ RunNext(rdy)
           /\ blocked' = [p \in DOMAIN blk \cup {current} |->
                            IF p = current THEN n ELSE blk[p]]

AbsSyscallSwitch(E, w) ==
  /\ timer # 0 /\ current # None
  /\ \E o \in Orders(WithEvent(blocked, E)) :
       Leave(o \o ready, Without(blocked, WithEvent(blocked, E)), w)
  /\ ArmTimer(timer)
  /\ UNCHANGED nextPid

AbsRepeatSwitch(w) ==
  /\ current # None
  /\ w.times = {} /\ w.processes = {} /\ w.events # {}
  /\ Leave(ready, blocked, w)
  /\ UNCHANGED <<nextPid, timer>>

AbsTriggerEvents(E) ==
  /\ timer # 0
  /\ \E o \in Orders(WithEvent(blocked, E)) : ready' = o \o ready
  /\ blocked' = Without(blocked, WithEvent(blocked, E))
  /\ UNCHANGED <<current, slice, nextPid, timer>>

AbsTerminate(E) ==
  LET joined == WithProcess(blocked, current)
      b      == Without(blocked, joined)
      told   == WithEvent(b, E)
  IN  /\ current # None
      /\ \E o \in Orders(joined), o2 \in Orders(told) : RunNext(o2 \o o \o ready)
      /\ blocked' = Without(b, told)
      /\ UNCHANGED <<nextPid, timer>>

AbsTick ==
  /\ timer = 0
  /\ \E o \in Orders(WithTime(blocked)) :
       LET rdy == o \o ready
       IN  RunNext(IF current = None THEN rdy ELSE Append(rdy, current))
  /\ blocked' = Without(blocked, WithTime(blocked))
  /\ ArmTimer(None)
  /\ UNCHANGED nextPid

AbsDynamicIrq(E) ==
  /\ timer # 0
  /\ \E o \in Orders(WithEvent(blocked, E)) :
       LET rdy == o \o ready
       IN  IF current = None /\ rdy # <<>>
           THEN ready' = Tail(rdy) /\ current' = Head(rdy)
           ELSE ready' = rdy /\ current' = current
  /\ blocked' = Without(blocked, WithEvent(blocked, E))
  /\ UNCHANGED <<slice, nextPid, timer>>

AbsLater(t) == IF t = None \/ t = 0 THEN t ELSE t - 1

AbsElapse ==
  /\ timer # 0
  /\ blocked' = [p \in DOMAIN blocked |->
                   [blocked[p] EXCEPT !.times = {AbsLater(t) : t \in @}]]
  /\ slice' = AbsLater(slice)
  /\ timer' = AbsLater(timer)
  /\ UNCHANGED <<ready, current, nextPid>>

AbsOneOrNone == {{}} \cup {{e} : e \in Events}

AbsNext ==
  \/ \E ok \in BOOLEAN : AbsSpawn(ok)
  \/ \E E \in AbsOneOrNone, w \in Waits : AbsSyscallSwitch(E, w)
  \/ \E w \in Waits : AbsRepeatSwitch(w)
  \/ \E E \in SUBSET Events \ {{}} : AbsTriggerEvents(E)
  \/ \E E \in SUBSET Events : AbsTerminate(E)
  \/ \E E \in SUBSET Events : AbsDynamicIrq(E)
  \/ AbsTick
  \/ AbsElapse

AbsSpec == AbsInit /\ [][AbsNext]_absVars

(* Time passes however often the timer is set anew, and the hardware       *)
(* raises the interrupt it was armed for.  Nothing is assumed of the       *)
(* processes.                                                              *)
AbsFairSpec == AbsSpec /\ WF_absVars(AbsTick) /\ SF_absVars(AbsElapse)

-----------------------------------------------------------------------------

(* A process that sleeps is woken up, whatever the others do: whether they *)
(* compute, exit, block, or postpone the timer by switching.               *)
SleeperWakes ==
  \A p \in 1 .. MaxPid :
    (p \in DOMAIN blocked /\ blocked[p].times # {}) ~> p \notin DOMAIN blocked

=============================================================================
