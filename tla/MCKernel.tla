------------------------------ MODULE MCKernel ------------------------------
(* Systems of up to three processes.                                       *)
EXTENDS Kernel

MCInitrd == Exact(<<9>>)
MCIrq == <<1, 7>>
MCKeyboard == <<1, 8>>
MCTerminated == <<3>>
ServiceTopic == <<4>>
RequestTopic == <<4, 4>>
PipeTopic == <<6, 1>>
ReplyTopic(p) == <<5, p>>

Subscribe(name, flags) == [op |-> "subscribe", name |-> name, flags |-> flags]
Deliver(topic, reply_to) == [op |-> "deliver", topic |-> topic, reply_to |-> reply_to]
Receive == [op |-> "receive"]
Unsubscribe == [op |-> "unsubscribe"]
Acknowledge == {[op |-> "acknowledge", positive |-> b] : b \in BOOLEAN}
Select(blocking) == [op |-> "select", blocking |-> blocking]
Yield == [op |-> "yield"]
ExitCall == [op |-> "exit"]

(* 1 to 3: a server, and two clients that send it requests and read the    *)
(* initrd; each stops at any point.  4 to 6: a driver that selects between *)
(* its interrupt and requests, a process that watches terminations and     *)
(* interrupts, one that publishes.  7 to 9: the reader of a pipe, a writer *)
(* that terminates, a writer that watches terminations.  10: a process     *)
(* that polls its reply topic before it reads the initrd.                  *)
Client(p) == {Subscribe(ReplyTopic(p), RELIABLE), Deliver(ServiceTopic, ReplyTopic(p)),
              Deliver(<<9>>, ReplyTopic(p)), Deliver(<<9>>, None),
              Receive, Unsubscribe, ExitCall}

MCPrograms ==
  << {Subscribe(ServiceTopic, RELIABLE), Receive, Unsubscribe, ExitCall,
      [op |-> "reply", topic |-> ReplyTopic(2)]} \cup Acknowledge,
     Client(2),
     Client(3) \cup {Yield},
     {Subscribe(MCIrq, {}), Subscribe(ServiceTopic, RELIABLE \cup PREFIX),
      Select(TRUE), Select(FALSE), Receive, [op |-> "acknowledge", positive |-> TRUE]},
     {Subscribe(<<1>>, PREFIX), Subscribe(MCTerminated, {}), Receive, Unsubscribe, Yield},
     {[op |-> "publish", topic |-> MCIrq], Deliver(RequestTopic, None), ExitCall},
     {Subscribe(PipeTopic, PIPE), Subscribe(<<0>>, RELIABLE), Receive, Select(TRUE),
      Unsubscribe} \cup Acknowledge,
     {Deliver(PipeTopic, None), Yield, ExitCall},
     {Subscribe(MCTerminated, {}), Deliver(PipeTopic, None), Receive},
     {Subscribe(ReplyTopic(10), RELIABLE), Select(FALSE), Deliver(<<9>>, ReplyTopic(10)),
      Receive} >>

ServiceSystem == {<<1, 2, 3>>}
ServiceAndDriver == ServiceSystem \cup {<<4, 5, 6>>}
PipeSystem == {<<7, 8, 9>>}
PollingSystem == {<<10>>}
=============================================================================
