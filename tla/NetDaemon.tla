------------------------------ MODULE NetDaemon ------------------------------
(***************************************************************************)
(* The network daemon (src/modules/daemon_net) without its TCP sockets:    *)
(* the DHCP client of the one interface, ARP and the DNS resolver, with    *)
(* the hosts on the wire.  Packets in transit are a set: they arrive in    *)
(* any order, may arrive more than once, and may be lost.                  *)
(***************************************************************************)
EXTENDS Integers, Sequences, FiniteSets

CONSTANTS
    Offers,         \* DHCP server -> the address it offers to this host
    Foreign,        \* an address of another host
    DnsClients, DnsNames, ReqIds,   \* ReqIds is u16, small so that ids collide
    NxNames,        \* the names that do not exist
    MaxLost, MaxCopies, MaxQueries \* bounds

VARIABLES
    state,          \* dhcp_client.state
    ipv4, routers,  \* settings
    arp_probe_ok,
    arp_table,      \* set of [ip, mac]; an ip occurs once
    pending_requests,   \* set of [id, name, client]; the client is its one ReplyCtx
    resolve_queue,  \* queue of netd/dns/resolve
    net,            \* packets in transit
    leases,         \* what the servers have granted to this host: [server, ip]
    dns_client,     \* client -> [state, name, answer]
    neighbour,      \* "idle", "asked" or "knows"
    lost, copies, queries,
    misled          \* a DHCP reply to another host was acted upon, or a server refused

netVars == <<state, ipv4, routers, arp_probe_ok, arp_table, pending_requests, resolve_queue, net,
             leases, dns_client, neighbour, lost, copies, queries, misled>>
settingVars == <<state, ipv4, routers, arp_probe_ok>>
dnsVars == <<pending_requests, dns_client>>

None == "none"
ZERO == "0.0.0.0"
Router == "router"
Neighbour == "neighbour"
Servers == DOMAIN Offers
OwnMac == "mac"
NoHw == "00:00"
RouterHw == "mac_router"
BROADCAST == "ff:ff"

Arp(op, src_hw, src_ip, dst_hw, dst_ip) ==
    [kind |-> "arp", op |-> op, src_hw |-> src_hw, src_ip |-> src_ip, dst_hw |-> dst_hw, dst_ip |-> dst_ip]
Dhcp(op, server, ip, ours) == [kind |-> op, server |-> server, ip |-> ip, ours |-> ours]
Dns(kind, id, name) == [kind |-> kind, id |-> id, name |-> name]

(* main up to the select loop: the interface, and send_discover.           *)
NetInit ==
    /\ state = "Discover" /\ ipv4 = None /\ routers = <<>> /\ arp_probe_ok = FALSE /\ arp_table = {}
    /\ pending_requests = {} /\ resolve_queue = <<>>
    /\ net = {[kind |-> "discover"]} /\ leases = {}
    /\ dns_client = [c \in DnsClients |-> [state |-> "idle", name |-> None, answer |-> <<>>]]
    /\ neighbour = "idle" /\ lost = 0 /\ copies = 0 /\ queries = 0 /\ misled = FALSE
----------------------------------------------------------------------------
(* Mutant: the router is not looked up.                                    *)
arp_probe_only(ip, rs) == {Arp("Request", OwnMac, ZERO, NoHw, ip)}

(* The packets arp_probe and arp_router publish once an address is set.    *)
arp_probe(ip, rs) ==
    {Arp("Request", OwnMac, ZERO, NoHw, ip)}
    \cup {Arp("Request", OwnMac, ip, NoHw, rs[i]) : i \in DOMAIN rs}

(* Mutant: the address of the offer is used without requesting it.         *)
on_dhcp_packet_offer(p, rest) ==
    IF state = "Discover" /\ p.kind = "offer" /\ p.server # None
    THEN /\ state' = "Operational" /\ ipv4' = p.ip /\ routers' = <<Router>> /\ arp_probe_ok' = TRUE
         /\ net' = rest \cup arp_probe(p.ip, <<Router>>) /\ UNCHANGED misled
    ELSE net' = rest /\ UNCHANGED <<settingVars, misled>>

(* Client::on_packet, accept_offer and Interface::on_dhcp_packet.  The     *)
(* transaction id is not looked at; a refusal is a todo!, the daemon ends. *)
(* rest is what stays on the wire, here and below.                         *)
on_dhcp_packet(p, rest) ==
    \/ /\ state = "Discover" /\ p.kind = "offer" /\ p.server # None
       /\ state' = "Request" /\ misled' = (misled \/ ~p.ours)
       /\ net' = rest \cup {[kind |-> "request", server |-> p.server, ip |-> p.ip]}
       /\ UNCHANGED <<ipv4, routers, arp_probe_ok>>
    \/ /\ state = "Request" /\ p.kind = "ack"
       /\ state' = "Operational" /\ misled' = (misled \/ ~p.ours)
       /\ ipv4' = p.ip /\ routers' = <<Router>> /\ arp_probe_ok' = TRUE
       /\ net' = rest \cup arp_probe(p.ip, <<Router>>)
    \/ /\ state = "Request" /\ p.kind = "nak"
       /\ state' = "todo" /\ misled' = TRUE /\ net' = rest /\ UNCHANGED <<ipv4, routers, arp_probe_ok>>
    \/ /\ ~(state = "Discover" /\ p.kind = "offer" /\ p.server # None)
       /\ ~(state = "Request" /\ p.kind \in {"ack", "nak"})
       /\ net' = rest /\ UNCHANGED <<settingVars, misled>>

(* Both branches of handle_arp_packet: a request by MAC address, which     *)
(* NetState::interface finds, or by IP address alone.                      *)
asks(p) == p.op = "Request" /\ p.dst_hw \in {NoHw, OwnMac, BROADCAST} /\ p.dst_ip = ipv4

handle_arp_packet(p, rest) ==
    IF p.src_ip = ZERO THEN net' = rest /\ UNCHANGED arp_table
    ELSE /\ arp_table' = {e \in arp_table : e.ip # p.src_ip} \cup {[ip |-> p.src_ip, mac |-> p.src_hw]}
         /\ net' = rest \cup IF arp_probe_ok /\ asks(p)
                             THEN {Arp("Reply", OwnMac, ipv4, p.src_hw, p.src_ip)} ELSE {}

(* Mutant: a reply is for the requests with its number.                    *)
answers_by_id(r, p) == r.id = p.id

(* The test of drain_filter in DnsResolver::on_packet.                     *)
answers(r, p) == r.id = p.id /\ r.name = p.name

(* DnsResolver::on_packet.  An error from the server is only logged.       *)
dns_on_packet(p, rest) ==
    /\ net' = rest
    /\ LET resolved(r) == p.kind # "error" /\ answers(r, p)
           done == {r.client : r \in {r \in pending_requests : resolved(r)}}
       IN  /\ pending_requests' = {r \in pending_requests : ~resolved(r)}
           /\ dns_client' = [c \in DnsClients |->
                IF c \in done
                THEN [dns_client[c] EXCEPT !.state = "answered", !.answer = <<p.kind, p.name>>]
                ELSE dns_client[c]]

(* on_packet: the daemon takes a packet; if keep, a duplicate of it stays  *)
(* on the wire.                                                            *)
on_packet(p, keep) ==
    LET rest == IF keep THEN net ELSE net \ {p}
    IN  /\ state # "todo"
        /\ \/ /\ p.kind \in {"offer", "ack", "nak"} /\ on_dhcp_packet(p, rest)
              /\ UNCHANGED <<arp_table, dnsVars>>
           \/ /\ p.kind = "arp" /\ p.src_hw # OwnMac /\ handle_arp_packet(p, rest)
              /\ UNCHANGED <<settingVars, dnsVars, misled>>
           \/ /\ p.kind \in {"records", "nx", "error"} /\ dns_on_packet(p, rest)
              /\ UNCHANGED <<settingVars, arp_table, misled>>
        /\ keep => copies < MaxCopies
        /\ copies' = IF keep THEN copies + 1 ELSE copies
        /\ UNCHANGED <<resolve_queue, leases, neighbour, lost, queries>>

(* try_send: the router is the first of the settings and has an ARP entry. *)
Routable == ipv4 # None /\ routers # <<>> /\ \E e \in arp_table : e.ip = Head(routers)

user_resolve(m, id) ==
    \/ /\ Routable
       /\ pending_requests' = pending_requests \cup {[id |-> id, name |-> m.name, client |-> m.client]}
       /\ net' = net \cup {Dns("query", id, m.name)} /\ UNCHANGED dns_client
    \/ /\ ~Routable
       /\ dns_client' = [dns_client EXCEPT ![m.client].state = "nack"]
       /\ UNCHANGED <<pending_requests, net>>

(* The arm of select! for netd/dns/resolve; id is random.                  *)
dns_resolve(id) ==
    /\ state # "todo" /\ resolve_queue # <<>>
    /\ resolve_queue' = Tail(resolve_queue) /\ user_resolve(Head(resolve_queue), id)
    /\ UNCHANGED <<settingVars, arp_table, leases, neighbour, lost, copies, queries, misled>>
----------------------------------------------------------------------------
(* The clients: ToSocketAddrs for (&str, u16), which blocks.               *)
resolve(c, name) ==
    /\ dns_client[c].state # "waiting" /\ queries < MaxQueries /\ queries' = queries + 1
    /\ dns_client' = [dns_client EXCEPT ![c] = [state |-> "waiting", name |-> name, answer |-> <<>>]]
    /\ resolve_queue' = Append(resolve_queue, [client |-> c, name |-> name])
    /\ UNCHANGED <<settingVars, arp_table, pending_requests, net, leases, neighbour, lost, copies, misled>>

daemonVars == <<settingVars, arp_table, dnsVars, resolve_queue>>

(* The other hosts.  A DHCP server answers what is for it, and refuses an  *)
(* address that is another host's.                                         *)
host_receive(p) ==
    /\ \/ /\ p.kind = "discover" /\ UNCHANGED <<leases, neighbour>>
          /\ net' = (net \ {p}) \cup {Dhcp("offer", s, Offers[s], TRUE) : s \in Servers}
       \/ /\ p.kind = "request" /\ UNCHANGED neighbour
          /\ LET granted == p.ip = Offers[p.server]
             IN  /\ leases' = IF granted THEN leases \cup {p.ip} ELSE leases
                 /\ net' = (net \ {p}) \cup {Dhcp(IF granted THEN "ack" ELSE "nak", p.server, p.ip, TRUE)}
       \/ /\ p.kind = "arp" /\ p.src_hw = OwnMac /\ UNCHANGED leases
          /\ neighbour' = IF p.op = "Reply" /\ p.src_ip = ipv4 THEN "knows" ELSE neighbour
          /\ net' = (net \ {p}) \cup IF p.op = "Request" /\ p.dst_ip = Router
                                     THEN {Arp("Reply", RouterHw, Router, OwnMac, p.src_ip)} ELSE {}
       \/ /\ p.kind = "query" /\ UNCHANGED <<leases, neighbour>>
          /\ \E kind \in {IF p.name \in NxNames THEN "nx" ELSE "records", "error"} :
                /\ kind = "error" => lost < MaxLost /\ Dns(kind, p.id, p.name) \notin net
                /\ net' = (net \ {p}) \cup {Dns(kind, p.id, p.name)}
    /\ lost' = IF \E q \in net' \ net : q.kind = "error" THEN lost + 1 ELSE lost
    /\ UNCHANGED <<daemonVars, copies, queries, misled>>

(* Replies to another host that are broadcast, one of them without the     *)
(* server id option.                                                       *)
foreign_dhcp ==
    /\ \E op \in {"offer", "ack"}, s \in {None, CHOOSE s \in Servers : TRUE} :
          LET p == Dhcp(op, s, Foreign, FALSE) IN p \notin net /\ net' = net \cup {p}
    /\ lost < MaxLost /\ lost' = lost + 1
    /\ UNCHANGED <<daemonVars, leases, neighbour, copies, queries, misled>>

(* A neighbour looks for this host, as ARP is used first and to refresh an *)
(* entry.                                                                  *)
neighbour_asks ==
    /\ neighbour = "idle" /\ ipv4 # None
    /\ neighbour' = "asked"
    /\ \E hw \in {NoHw, OwnMac, BROADCAST} :
          net' = net \cup {Arp("Request", "mac_neighbour", Neighbour, hw, ipv4)}
    /\ UNCHANGED <<daemonVars, leases, lost, copies, queries, misled>>

lose(p) ==
    /\ lost < MaxLost /\ lost' = lost + 1 /\ net' = net \ {p}
    /\ UNCHANGED <<daemonVars, leases, neighbour, copies, queries, misled>>

(* The steps that are fair: the daemon does not stop, and a packet that is *)
(* not lost arrives.                                                       *)
NetStep ==
    \/ \E p \in net : on_packet(p, FALSE) \/ host_receive(p)
    \/ \E id \in ReqIds : dns_resolve(id)

NetNext ==
    \/ NetStep
    \/ \E p \in net : on_packet(p, TRUE) \/ lose(p)
    \/ \E c \in DnsClients, n \in DnsNames : resolve(c, n)
    \/ foreign_dhcp \/ neighbour_asks

NetSpec == NetInit /\ [][NetNext]_netVars /\ WF_netVars(NetStep)
----------------------------------------------------------------------------
(***************************************************************************)
(* The address of the interface is one a DHCP server granted to this host, *)
(* however offers and acknowledgements of several servers are delayed,     *)
(* repeated or lost, unless a reply to another host was taken for ours,    *)
(* which the transaction id would tell.                                    *)
(***************************************************************************)
LeaseHeld == ipv4 # None /\ ~misled => ipv4 \in leases

(***************************************************************************)
(* Where the request of a client is.                                       *)
(***************************************************************************)
HeldAt(c) ==
    {<<"queue", i>> : i \in {i \in DOMAIN resolve_queue : resolve_queue[i].client = c}}
    \cup {<<"pending", r>> : r \in {r \in pending_requests : r.client = c}}

(***************************************************************************)
(* A client gets the answer to its own question, although the numbers of   *)
(* requests collide and late and repeated replies arrive; and a client     *)
(* that waits is in the queue or pending, once.                            *)
(***************************************************************************)
DnsAnswerMatches ==
    \A c \in DnsClients :
        LET d == dns_client[c]
        IN  /\ d.state = "answered" => d.answer = <<IF d.name \in NxNames THEN "nx" ELSE "records", d.name>>
            /\ IF d.state = "waiting" THEN \E h \in HeldAt(c) : HeldAt(c) = {h} ELSE HeldAt(c) = {}

(***************************************************************************)
(* A name is resolved or refused: a client does not wait for ever unless a *)
(* packet was lost or refused, for which there is no retry.                *)
(***************************************************************************)
DnsReturns ==
    \A c \in DnsClients : dns_client[c].state = "waiting" ~> dns_client[c].state # "waiting" \/ lost > 0

(***************************************************************************)
(* The interface gets online: once a server offers an address, an address  *)
(* and the MAC address of the router are found, unless a packet is lost.   *)
(***************************************************************************)
GetsOnline == (\E p \in net : p.kind = "offer") ~> Routable \/ lost > 0

(***************************************************************************)
(* A neighbour that asks for this host, by its IP address alone or also by *)
(* its MAC address, gets its MAC address.                                  *)
(***************************************************************************)
NeighbourLearns == neighbour = "asked" ~> neighbour = "knows" \/ lost > 0
=============================================================================
