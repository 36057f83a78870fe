------------------------------ MODULE MCNetwork ------------------------------
(***************************************************************************)
(* The network daemon on small instances.  A behaviour runs one part of    *)
(* it, chosen at the start:                                                *)
(*   dhcp  getting online, with at most one DNS query on the side;         *)
(*   dns   two clients' queries, once the interface is online;             *)
(*   tcp   the TCP sockets of a server and of a client;                    *)
(*   wire  the formats of packets, for every input of the sets below.      *)
(***************************************************************************)
EXTENDS NetDaemon, TcpSockets, Wire

VARIABLE part

MCVars == <<part, netVars, tcpVars, wireVars>>

MCOffers == [s1 |-> "10.0.0.1", s2 |-> "10.0.0.2"]

MCRequestsOf ==
    [server |-> {"listen", "accept", "remove"},
     stream |-> {"connect", "recv", "send", "close", "shutdown", "abort", "get_state", "option", "remove"}]

(* Odd, even and empty payloads, sums with and without carry, and one that *)
(* is longer than the padding.                                             *)
MCPayloads == {<<>>, <<255>>, <<255, 255>>, <<0, 1, 128>>, [i \in 1..25 |-> 200 + i]}

(* Options with the codes of Pad and End in their bodies; 12 is not known. *)
MCOptions ==
    {[code |-> Pad, body |-> <<>>], [code |-> 53, body |-> <<2>>], [code |-> 1, body |-> <<255, 255, 255, 0>>],
     [code |-> 3, body |-> <<10, 0, 2, 2, 10, 0, 2, 3>>], [code |-> 12, body |-> <<0, 255>>]}
MCOptionLists == UNION {[1..n -> MCOptions] : n \in 0..3}

MCDomainNames == {<<<<97>>>>, <<<<98, 99>>, <<97>>>>}

(* In the other parts the wire holds one fixed packet.                     *)
MCInit ==
    /\ part \in {"dhcp", "dns", "tcp", "wire"}
    /\ NetInit /\ TcpInit /\ WireInit
    /\ part # "wire" => packet = [kind |-> "arp", op |-> 1, src_ip |-> Ip, dst_ip |-> ServerIp]

Others(p) ==
    /\ part = p /\ UNCHANGED part
    /\ p \notin {"dhcp", "dns"} => UNCHANGED netVars
    /\ p # "tcp" => UNCHANGED tcpVars
    /\ p # "wire" => UNCHANGED wireVars

DnsOnly == Routable /\ \A p \in net : p.kind \in {"query", "records", "nx", "error"}

MCNext ==
    \/ Others("dhcp") /\ NetNext /\ queries' <= 1
       /\ dns_client'["c1"].name # "b" /\ dns_client'["c2"].state = "idle"
    \/ Others("dns") /\ NetNext /\ UNCHANGED neighbour
       /\ (DnsOnly \/ UNCHANGED <<queries, lost, copies>>)
    \/ Others("tcp") /\ TcpNext
    \/ Others("wire") /\ WireNext

MCSpec ==
    /\ MCInit /\ [][MCNext]_MCVars
    /\ WF_MCVars(Others("dhcp") /\ NetStep)
    /\ WF_MCVars(Others("dns") /\ NetStep)
----------------------------------------------------------------------------
(***************************************************************************)
(* Nobody waits for ever while no packet is lost: the interface gets       *)
(* online, names are resolved, and neighbours get the MAC address.         *)
(***************************************************************************)
NetProgress == GetsOnline /\ DnsReturns /\ NeighbourLearns

(***************************************************************************)
(* What is sent is what the parsers of the other side find, under          *)
(* checksums they accept (src/libs/d7net).                                 *)
(***************************************************************************)
PacketsSurvive == PacketSurvives /\ ChecksumVerifies

(***************************************************************************)
(* The parsers of DHCP options and of DNS replies find all that a server   *)
(* put into its message; a name in which a pointer leads to a pointer is   *)
(* the one form of a reply that is not understood, and is a panic.         *)
(***************************************************************************)
MessagesParsed == OptionsParsed /\ ReplyParsed
==============================================================================
