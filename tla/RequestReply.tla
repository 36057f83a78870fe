---------------------------- MODULE RequestReply ----------------------------
(***************************************************************************)
(* Requests to a server over reliable IPC (libs/libd7/src/ipc/server.rs):  *)
(* a client subscribes to a reply topic of its own, delivers the request   *)
(* and is suspended until the server has replied and acknowledged; then it *)
(* receives the reply and unsubscribes.  The processes run on the kernel   *)
(* of module Kernel, with a program counter each; a call that blocks       *)
(* leaves the counter where it is until the kernel has repeated it.        *)
(***************************************************************************)
EXTENDS Kernel

CONSTANTS
  Server, Clients,
  ServiceName,       \* the topic of the server
  ReplyName(_, _),   \* the reply topic of a client's n-th request
  Requests           \* requests each client makes

VARIABLES
  pc,     \* process -> the call it makes next
  sub,    \* process -> its subscription
  count   \* client -> number of its current request

rpcVars == <<kernelVars, pc, sub, count>>

Topic(c) == ReplyName(c, count[c])

(* The reply topic inside request a: its sender is suspended meanwhile.    *)
ReplyTo(a) == Topic(ipc.waiting_for_delivery[a].pid)

(* The request the server works on: it takes one at a time (handle_topic). *)
Current == CHOOSE a \in held[Server] : TRUE

(* The calls p may make next.  The function that computes the response may *)
(* fail, and then the AcknowledgeContext is dropped, which sends a nack.   *)
(* Between requests the server may drop its subscription and stop.         *)
NextCalls(p) ==
  CASE pc[p] = "subscribe"   -> {[op |-> "subscribe", flags |-> RELIABLE,
                                  name |-> IF p = Server THEN ServiceName ELSE Topic(p)]}
    [] pc[p] = "deliver"     -> {[op |-> "deliver", topic |-> ServiceName, reply_to |-> Topic(p)]}
    [] pc[p] = "receive"     -> {[op |-> "receive", sub |-> sub[p]]} \cup
                                IF p = Server THEN {[op |-> "unsubscribe", sub |-> sub[p]]} ELSE {}
    [] pc[p] = "unsubscribe" -> {[op |-> "unsubscribe", sub |-> sub[p]]}
    [] pc[p] = "reply"       -> {[op |-> "reply", topic |-> ReplyTo(Current)],
                                 [op |-> "acknowledge", ack |-> Current, positive |-> FALSE]}
    [] pc[p] = "ack"         -> {[op |-> "acknowledge", ack |-> Current, positive |-> TRUE]}
    [] pc[p] = "nack"        -> {[op |-> "acknowledge", ack |-> Current, positive |-> FALSE]}
    [] pc[p] = "exit"        -> {}

(* Mutant: the server acknowledges without a reply.                        *)
After_no_reply(p, c, res) ==
  IF p = Server
  THEN CASE c.op \in {"subscribe", "acknowledge"} -> "receive"
         [] c.op = "receive" -> "ack"
         [] c.op = "unsubscribe" -> "exit"
  ELSE CASE c.op = "subscribe"   -> "deliver"
         [] c.op = "deliver"     -> IF res = "ok" THEN "receive" ELSE "unsubscribe"
         [] c.op = "receive"     -> "unsubscribe"
         [] c.op = "unsubscribe" -> IF count[p] = Requests THEN "exit" ELSE "subscribe"

(* Where p continues after its call c returned res.                        *)
After(p, c, res) ==
  IF p = Server
  THEN CASE c.op \in {"subscribe", "acknowledge"} -> "receive"
         [] c.op = "receive" -> "reply"
         [] c.op = "reply"   -> IF res = "ok" THEN "ack" ELSE "nack"
         [] c.op = "unsubscribe" -> "exit"
  ELSE CASE c.op = "subscribe"   -> "deliver"
         [] c.op = "deliver"     -> IF res = "ok" THEN "receive" ELSE "unsubscribe"
         [] c.op = "receive"     -> "unsubscribe"
         [] c.op = "unsubscribe" -> IF count[p] = Requests THEN "exit" ELSE "subscribe"

Advance(p, c) ==
  LET res == syscall(ipc, p, c).res
  IN  IF res = "wait" THEN UNCHANGED <<pc, sub, count>>
      ELSE /\ pc' = [pc EXCEPT ![p] = After(p, c, res)]
           /\ sub' = IF c.op = "subscribe"
                     THEN [sub EXCEPT ![p] = ipc.subscriptions.next_subscription_id]
                     ELSE sub
           /\ count' = IF c.op = "unsubscribe" /\ p \in Clients /\ count[p] < Requests
                       THEN [count EXCEPT ![p] = @ + 1] ELSE count

ProcessStep(p) ==
  /\ Executing(p)
  /\ \E c \in NextCalls(p) : Perform(p, c, p, Idle) /\ Advance(p, c)

RepeatStep ==
  /\ RepeatSyscall
  /\ Advance(cpu.pid, pending[cpu.pid])

ExitStep(p) == pc[p] = "exit" /\ Exit(p) /\ UNCHANGED <<pc, sub, count>>

TickStep == Tick /\ UNCHANGED <<pc, sub, count>>

RpcInit ==
  /\ KernelInit
  /\ pc = [p \in Pids |-> "subscribe"]
  /\ sub = [p \in Pids |-> None]
  /\ count = [c \in Clients |-> 1]

RpcNext ==
  \/ \E p \in alive : ProcessStep(p) \/ ExitStep(p)
  \/ RepeatStep
  \/ TickStep

RpcSpec == RpcInit /\ [][RpcNext]_rpcVars

(* A process that is scheduled again and again gets to its next call, the  *)
(* kernel finishes what it does, and the timer interrupts a process that   *)
(* keeps the processor.                                                    *)
RpcFairSpec ==
  /\ RpcSpec
  /\ \A p \in Clients \cup {Server} : SF_rpcVars(ProcessStep(p)) /\ SF_rpcVars(ExitStep(p))
  /\ WF_rpcVars(RepeatStep)
  /\ WF_rpcVars(TickStep)

-----------------------------------------------------------------------------

(* "C wakes up and receives the reply" (server.rs): when a delivery was    *)
(* acknowledged the reply is in the client's mailbox, so that the client   *)
(* does not block a second time.                                           *)
ReplyIsThere ==
  \A c \in Clients :
    c \in alive /\ pc[c] = "receive" =>
      Len(ipc.mailboxes[sub[c]].queue) = 1 /\ c \notin DOMAIN blocked

(* Every request returns, with the reply or an error, whatever the server  *)
(* answers and however the timer interrupts the processes.                 *)
RequestReturns == \A c \in Clients : pc[c] = "deliver" ~> pc[c] # "deliver"
=============================================================================
