----------------------------- MODULE TcpSockets -----------------------------
(***************************************************************************)
(* TCP sockets of the network daemon (tcp_handler.rs in daemon_net) and of *)
(* their clients (libd7/src/net/tcp): bindings, requests that are answered *)
(* at once or suspended until an event, and the segments from the wire.    *)
(* The state machine of a connection is the crate tcpstate; conn, backlog  *)
(* and data are what the daemon can tell of it.                            *)
(***************************************************************************)
EXTENDS Integers, Sequences, FiniteSets, SequencesExt, Functions

CONSTANTS
    RequestsOf,     \* client -> the requests it makes
    FixedPorts,     \* ports clients ask for
    RANGE_DYNAMIC,  \* ports that are assigned automatically
    Remotes,        \* peers
    MaxSockets, MaxSegments, MaxRequests, MaxTcpCrashes   \* bounds

ASSUME TcpAssumption == 0 \notin FixedPorts \cup RANGE_DYNAMIC

VARIABLES
    tcp,        \* [bindings, sockets, next_id, client, netd]: TcpHandler, its clients, "run", "panic" or "todo"
    pipes,      \* socket id -> queue of its subscription: [client, request]
    online,     \* send_inner finds the router
    segments, requests, tcp_crashes

tcpVars == <<tcp, pipes, online, segments, requests, tcp_crashes>>

TcpClients == DOMAIN RequestsOf
NoOne == "none"
Here == "host"
ANY == "0.0.0.0"
NoSocket == -1

Binding(local, port, remote) == [local |-> local, port |-> port, remote |-> remote]
match_any(port) == Binding(ANY, port, NoOne)

NewSocket(port, conn) ==
    [port |-> port, conn |-> conn, backlog |-> {}, data |-> FALSE, send_error |-> FALSE,
     suspended |-> {}, ready |-> <<>>]

TcpInit ==
    /\ tcp = [bindings |-> <<>>, sockets |-> <<>>, next_id |-> 0, netd |-> "run",
              client |-> [c \in TcpClients |-> [state |-> "idle", socket |-> NoSocket]]]
    /\ pipes = [id \in 0..MaxSockets - 1 |-> <<>>] /\ online = FALSE /\ segments = 0 /\ requests = 0 /\ tcp_crashes = 0

Lookup(bindings, b) == IF b \in DOMAIN bindings THEN bindings[b] ELSE NoSocket

(* Mutant: a binding without a remote is preferred.                        *)
socket_for_any_first(bindings, b) ==
    LET tries == <<match_any(b.port), b, Binding(ANY, b.port, b.remote)>>
        found == SelectSeq([i \in DOMAIN tries |-> Lookup(bindings, tries[i])], LAMBDA x : x # NoSocket)
    IN  IF found = <<>> THEN NoSocket ELSE Head(found)

(* The exact binding, then without the remote, with the remote and any     *)
(* local address, and without a remote and any local address.              *)
socket_for(bindings, b) ==
    LET tries == <<b, Binding(b.local, b.port, NoOne), Binding(ANY, b.port, b.remote), match_any(b.port)>>
        found == SelectSeq([i \in DOMAIN tries |-> Lookup(bindings, tries[i])], LAMBDA x : x # NoSocket)
    IN  IF found = <<>> THEN NoSocket ELSE Head(found)

(* Whatever is drawn, and after ten draws the first that is free: one of   *)
(* the free ports, or none.                                                *)
pick_free_port(bindings) == {p \in RANGE_DYNAMIC : socket_for(bindings, match_any(p)) = NoSocket}

(* The arm of select! for netd/newsocket/tcp and new_user_socket.  With no *)
(* free port the client gets an error.                                     *)
new_user_socket(c, port) ==
    /\ tcp.netd = "run" /\ tcp.client[c].state = "idle" /\ tcp.next_id < MaxSockets
    /\ \E p \in IF port # 0 THEN {port} ELSE pick_free_port(tcp.bindings) :
         LET id == tcp.next_id
         IN  tcp' = [tcp EXCEPT
                    !.next_id = id + 1,
                    !.sockets = (id :> NewSocket(p, "closed")) @@ @,
                    !.bindings = (match_any(p) :> id) @@ @,
                    !.client[c] = [state |-> "open", socket |-> id]]
    /\ UNCHANGED <<pipes, online, segments, requests, tcp_crashes>>

(* A request through the pipe of the socket; the client blocks.            *)
request(c, r) ==
    /\ tcp.client[c].state = "open" /\ requests < MaxRequests /\ requests' = requests + 1
    /\ tcp' = [tcp EXCEPT !.client[c].state = "waiting"]
    /\ pipes' = [pipes EXCEPT ![tcp.client[c].socket] = Append(@, [client |-> c, request |-> r])]
    /\ UNCHANGED <<online, segments, tcp_crashes>>
----------------------------------------------------------------------------
(* What the calls of tcpstate do: the outcomes of a request, with what the *)
(* state machine becomes, whether it sends a segment and whom it accepts.  *)
Outcome(res, s, sends, from) == [res |-> res, s |-> s, sends |-> sends, from |-> from]
Failed(s) == {Outcome("error", s, FALSE, NoOne)}

tcp_call(s, r) ==
    CASE r = "connect" /\ s.conn = "closed" -> {Outcome("continue", [s EXCEPT !.conn = "syn"], TRUE, NoOne)}
      [] r = "listen" /\ s.conn = "closed"  -> {Outcome("ok", [s EXCEPT !.conn = "listen"], FALSE, NoOne)}
      [] r = "accept" /\ s.conn = "listen"  ->
            IF s.backlog = {} THEN {Outcome("retry", s, FALSE, NoOne)}
            ELSE {Outcome("ok", [s EXCEPT !.backlog = @ \ {from}], TRUE, from) : from \in s.backlog}
      [] r = "recv" /\ s.conn = "open"      ->
            {IF s.data THEN Outcome("ok", [s EXCEPT !.data = FALSE], FALSE, NoOne)
             ELSE Outcome("retry", s, FALSE, NoOne)}
      [] r = "send" /\ s.conn = "open"      -> {Outcome("ok", s, TRUE, NoOne)}
      [] r = "get_state"                    -> {Outcome("ok", s, FALSE, NoOne)}
      [] r = "shutdown" /\ s.conn = "open"  -> {Outcome("ok", s, TRUE, NoOne)}
      [] r = "abort" /\ s.conn # "closed"   ->
            {Outcome("ok", [s EXCEPT !.conn = "closed"], s.conn = "open", NoOne)}
      [] r = "close" /\ s.conn # "closed"   -> {Outcome("ok", [s EXCEPT !.conn = "closed"], TRUE, NoOne)}
      [] OTHER -> Failed(s)

(* UserData::event: the suspended requests become ready.  tcpstate gives   *)
(* each one a cookie of its own and calls event once for it.               *)
event(s, result) ==
    [s EXCEPT !.suspended = {}, !.ready = @ \o SetToSeq({[r |-> x, result |-> result] : x \in s.suspended})]

on_segment(s, from) ==
    CASE s.conn = "listen" -> {event([s EXCEPT !.backlog = @ \cup {from}], "ok")}
      [] s.conn = "syn"    -> {event([s EXCEPT !.conn = "open"], "ok"), event([s EXCEPT !.conn = "closed"], "error")}
      [] s.conn = "open"   -> {event([s EXCEPT !.data = TRUE], "ok"), event([s EXCEPT !.conn = "closed"], "error")}
      [] OTHER -> {s}
----------------------------------------------------------------------------
(* ReplyCtx::reply, which fails when the client is gone; every caller but  *)
(* the one for Remove expects it to succeed.                               *)
Reply(T, c) ==
    IF T.client[c].state = "crashed" THEN [T EXCEPT !.netd = "panic"]
    ELSE [T EXCEPT !.client[c].state = "open"]

remove_socket(T, id, c) ==
    [T EXCEPT !.sockets = Restrict(@, DOMAIN @ \ {id}),
              !.bindings = Restrict(@, {b \in DOMAIN @ : @[b] # id}),
              !.client[c] = IF @.state = "crashed" THEN @ ELSE [state |-> "idle", socket |-> NoSocket]]

(* The rest of user_socket_event_inner after the call: the socket that was *)
(* accepted, and the suspension or the reply.  UserData::send keeps its    *)
(* error in the socket.                                                    *)
Finish(T, id, c, r, o) ==
    LET s == [o.s EXCEPT !.send_error = @ \/ (o.sends /\ ~online),
                         !.suspended = IF o.res \in {"retry", "continue"}
                                       THEN @ \cup {[mode |-> o.res, request |-> r, client |-> c]} ELSE @]
        T1 == [T EXCEPT !.sockets[id] = s]
        T2 == IF o.from = NoOne THEN T1
              ELSE [T1 EXCEPT !.sockets = (T.next_id :> NewSocket(s.port, "open")) @@ @,
                              !.bindings = (Binding(ANY, s.port, o.from) :> T.next_id) @@ @,
                              !.next_id = @ + 1]
    IN  IF o.res \in {"retry", "continue"} THEN T2 ELSE Reply(T2, c)

(* GetOption and SetOption are not written: todo! ends the daemon.         *)
user_socket_event_inner(T, id, r, c) ==
    IF r = "remove" THEN {remove_socket(T, id, c)}
    ELSE IF T.sockets[id].send_error
    THEN {Reply([T EXCEPT !.sockets[id].send_error = FALSE], c)}
    ELSE IF r = "option" THEN {[T EXCEPT !.netd = "todo"]}
    ELSE {Finish(T, id, c, r, o) : o \in tcp_call(T.sockets[id], r)}

(* Mutant: a request to be retried waits for the next event instead.       *)
process_event_waits(T, id, e, failed) ==
    IF ~failed /\ e.r.mode = "retry" /\ e.result = "ok"
    THEN {[T EXCEPT !.sockets[id].suspended = @ \cup {e.r}]}
    ELSE {Reply(T, e.r.client)}

(* The body of the loop in process_events.                                 *)
process_event(T, id, e, failed) ==
    IF ~failed /\ e.r.mode = "retry" /\ e.result = "ok"
    THEN user_socket_event_inner(T, id, e.r.request, e.r.client)
    ELSE {Reply(T, e.r.client)}

(* The loop of process_events, with the error of a send taken before it.   *)
process_events(T, id) ==
    LET ready == T.sockets[id].ready
        T0 == [T EXCEPT !.sockets[id].ready = <<>>, !.sockets[id].send_error = FALSE]
    IN  IF ready = <<>> THEN {T}
        ELSE FoldLeft(LAMBDA Ts, e : UNION {process_event(X, id, e, T.sockets[id].send_error) : X \in Ts},
                      {T0}, ready)

user_socket_event(id) ==
    /\ tcp.netd = "run" /\ id \in DOMAIN tcp.sockets /\ pipes[id] # <<>>
    /\ LET m == Head(pipes[id])
       IN  /\ m.request = "accept" => tcp.next_id < MaxSockets
           /\ \E T \in user_socket_event_inner(tcp, id, m.request, m.client) :
                tcp' \in IF m.request = "remove" THEN {T} ELSE process_events(T, id)
    /\ pipes' = [pipes EXCEPT ![id] = Tail(@)]
    /\ UNCHANGED <<online, segments, requests, tcp_crashes>>

(* handle_packet for a segment to this host.  A segment for no socket is   *)
(* dropped, response_to_closed is not sent.                                *)
handle_packet(port, from) ==
    /\ tcp.netd = "run" /\ segments < MaxSegments /\ segments' = segments + 1
    /\ LET id == socket_for(tcp.bindings, Binding(Here, port, from))
       IN  /\ id # NoSocket
           /\ IF id \notin DOMAIN tcp.sockets THEN tcp' = [tcp EXCEPT !.netd = "panic"]
              ELSE \E s \in on_segment(tcp.sockets[id], from) :
                     /\ tcp' \in process_events([tcp EXCEPT !.sockets[id] = s], id)
                     /\ tcp'.next_id <= MaxSockets
    /\ UNCHANGED <<pipes, online, requests, tcp_crashes>>

(* The interface gets its address and finds the router.                    *)
get_online == ~online /\ online' = TRUE /\ UNCHANGED <<tcp, pipes, segments, requests, tcp_crashes>>

(* A client is terminated; its socket is not removed.                      *)
client_crash(c) ==
    /\ tcp.client[c].state # "crashed" /\ tcp_crashes < MaxTcpCrashes /\ tcp_crashes' = tcp_crashes + 1
    /\ tcp' = [tcp EXCEPT !.client[c].state = "crashed"]
    /\ UNCHANGED <<pipes, online, segments, requests>>

TcpNext ==
    \/ \E c \in TcpClients, port \in {0} \cup FixedPorts : new_user_socket(c, port)
    \/ \E c \in TcpClients : \E r \in RequestsOf[c] : request(c, r)
    \/ \E id \in DOMAIN tcp.sockets : user_socket_event(id)
    \/ \E port \in FixedPorts \cup RANGE_DYNAMIC, from \in Remotes : handle_packet(port, from)
    \/ get_online
    \/ \E c \in TcpClients : client_crash(c)

TcpSpec == TcpInit /\ [][TcpNext]_tcpVars
----------------------------------------------------------------------------
(***************************************************************************)
(* A suspended request is one that cannot go on: an accept waits only with *)
(* no connection in the backlog, a recv only without data on an open       *)
(* connection, a connect only until the handshake ends.                    *)
(***************************************************************************)
TcpNoLostEvent ==
    tcp.netd = "run" =>
        \A id \in DOMAIN tcp.sockets : \A x \in tcp.sockets[id].suspended :
            LET s == tcp.sockets[id]
            IN  CASE x.request = "accept"  -> s.conn = "listen" /\ s.backlog = {}
                  [] x.request = "recv"    -> s.conn = "open" /\ ~s.data
                  [] x.request = "connect" -> s.conn = "syn"
                  [] OTHER -> FALSE

(***************************************************************************)
(* Every request is answered or held in one place: a client that waits has *)
(* its request in the pipe of its socket or suspended there, once, for a   *)
(* condition that does not hold, and no event is left over when a handler  *)
(* returns.  The daemon ends only because a client is gone when it is      *)
(* answered, or asks for an option: none of its other expectations fails,  *)
(* whatever sockets are removed and whatever segments arrive.              *)
(***************************************************************************)
TcpRequestTracked ==
    /\ tcp.netd = "panic" => \E c \in TcpClients : tcp.client[c].state = "crashed"
    /\ TcpNoLostEvent
    /\ tcp.netd = "run" =>
        /\ \A id \in DOMAIN tcp.sockets : tcp.sockets[id].ready = <<>>
        /\ \A c \in TcpClients :
             LET id == tcp.client[c].socket
             IN  tcp.client[c].state = "waiting" =>
                    /\ id \in DOMAIN tcp.sockets
                    /\ Cardinality({i \in DOMAIN pipes[id] : pipes[id][i].client = c})
                       + Cardinality({x \in tcp.sockets[id].suspended : x.client = c}) = 1

(***************************************************************************)
(* A segment goes to the connection accepted from its sender if there is   *)
(* one, otherwise to the socket bound to its port, and never to a socket   *)
(* that was removed.                                                       *)
(***************************************************************************)
DemuxExact ==
    \A port \in FixedPorts \cup RANGE_DYNAMIC, from \in Remotes :
        LET id == socket_for(tcp.bindings, Binding(Here, port, from))
            exact == Binding(ANY, port, from)
        IN  /\ id # NoSocket => id \in DOMAIN tcp.sockets /\ tcp.sockets[id].port = port
            /\ exact \in DOMAIN tcp.bindings => id = tcp.bindings[exact]
            /\ match_any(port) \in DOMAIN tcp.bindings => id # NoSocket

=============================================================================
