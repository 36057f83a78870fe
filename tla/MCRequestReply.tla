--------------------------- MODULE MCRequestReply ---------------------------
(* A server and two clients. *)
EXTENDS RequestReply

MCInitrd == Exact(<<9>>)
MCIrq == <<1>>
MCKeyboard == <<2>>
MCTerminated == <<3>>
MCSystems == {<<1, 2, 3>>}
MCServiceName == <<4>>
MCReplyName(c, n) == <<5, c, n>>

Flagged(name) == [op |-> "subscribe", name |-> name, flags |-> RELIABLE]

MCPrograms == [p \in 1 .. 3 |->
  IF p = 1
  THEN {Flagged(MCServiceName), [op |-> "receive"], [op |-> "unsubscribe"], [op |-> "exit"],
        [op |-> "acknowledge", positive |-> TRUE], [op |-> "acknowledge", positive |-> FALSE]}
       \cup {[op |-> "reply", topic |-> MCReplyName(c, n)] : c \in 2 .. 3, n \in 1 .. Requests}
  ELSE UNION {{Flagged(MCReplyName(p, n)),
               [op |-> "deliver", topic |-> MCServiceName, reply_to |-> MCReplyName(p, n)]} :
                n \in 1 .. Requests}
       \cup {[op |-> "receive"], [op |-> "unsubscribe"], [op |-> "exit"]}]
=============================================================================
