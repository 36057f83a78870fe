-------------------------------- MODULE Wire --------------------------------
(***************************************************************************)
(* The packet formats of src/libs/d7net, as bytes: the checksum, Ethernet, *)
(* ARP, IPv4, UDP and TCP headers, the options of DHCP and the names of    *)
(* DNS.  A message is a sequence of bytes, numbered from 1; offsets in the *)
(* messages themselves count from 0.                                       *)
(***************************************************************************)
EXTENDS Integers, Sequences, FiniteSets, SequencesExt

CONSTANTS
    Payloads,   \* payloads of packets
    PortNumbers,
    OptionLists,    \* DHCP options of a reply: sequences of [code, body]
    DomainNames,    \* sequences of labels, which are sequences of bytes
    MaxNames        \* bound: names in a DNS message

VARIABLES
    packet,     \* a packet that is sent, or NoPacket
    message,    \* a DNS message
    names,      \* the names in it: where, the labels, how many come before a pointer, and
                \* whether parse_reply reads the name and a pointer in it leads to a pointer
    records     \* the records in it that the client supports

wireVars == <<packet, message, names, records>>

be16(n) == <<(n \div 256) % 256, n % 256>>
word(a, b) == (a * 256) + b
Zeros(n) == [i \in 1..n |-> 0]
Slice(s, from, to) == SubSeq(s, from + 1, to)       \* s[from..to]

(* One turn of the loop: addition with the carry added back.               *)
add_word(sum, v) == IF sum + v >= 65536 THEN ((sum + v) % 65536) + 1 ELSE sum + v

RECURSIVE sum_words(_, _, _)
sum_words(sum, data, i) ==
    IF i > Len(data) THEN sum
    ELSE sum_words(add_word(sum, word(data[i], IF i < Len(data) THEN data[i + 1] ELSE 0)), data, i + 2)

inet_checksum(data) == 65535 - sum_words(0, data, 1)

Broadcast == [i \in 1..6 |-> 255]
Mac == <<82, 84, 0, 18, 52, 86>>
Ip == <<10, 0, 2, 15>>
ServerIp == <<10, 0, 2, 255>>
UDP == 17
TCP == 6

(* Frame::to_bytes, and the loop after it that pads the packet.            *)
frame_to_bytes(dst, src, ethertype, payload) ==
    LET f == dst \o src \o ethertype \o payload IN f \o Zeros(IF Len(f) < 64 THEN 64 - Len(f) ELSE 0)

frame_from_bytes(b) ==
    [dst |-> Slice(b, 0, 6), src |-> Slice(b, 6, 12), ethertype |-> Slice(b, 12, 14), payload |-> Slice(b, 14, Len(b))]

arp_to_bytes(p) == <<0, 1, 8, 0, 6, 4, 0, p.op>> \o p.src_hw \o p.src_ip \o p.dst_hw \o p.dst_ip

arp_from_bytes(b) ==
    [op |-> b[8], src_hw |-> Slice(b, 8, 14), src_ip |-> Slice(b, 14, 18),
     dst_hw |-> Slice(b, 18, 24), dst_ip |-> Slice(b, 24, 28)]

(* Header::to_bytes of IPv4, with the checksum put in at bytes 10 and 11.  *)
ipv4_to_bytes(protocol, src, dst, payload_len) ==
    LET head == <<69, 0>> \o be16(20 + payload_len) \o Zeros(4) \o <<64, protocol>>
        rest == src \o dst
    IN  head \o be16(inet_checksum(head \o <<0, 0>> \o rest)) \o rest

(* Mutant: the payload is all that follows the header.                     *)
ipv4_from_bytes_all(b) ==
    [protocol |-> b[10], src |-> Slice(b, 12, 16), dst |-> Slice(b, 16, 20), payload |-> Slice(b, 20, Len(b))]

ipv4_from_bytes(b) ==
    [protocol |-> b[10], src |-> Slice(b, 12, 16), dst |-> Slice(b, 16, 20),
     payload |-> Slice(b, 20, word(b[3], b[4]))]

pseudo_header(src, dst, protocol, len) == src \o dst \o <<0, protocol>> \o be16(len)

(* build of the builder for UDP.                                           *)
udp_build(src, dst, src_port, dst_port, payload) ==
    LET len == 8 + Len(payload)
        head == be16(src_port) \o be16(dst_port) \o be16(len)
        sum == inet_checksum(pseudo_header(src, dst, UDP, len) \o head \o <<0, 0>> \o payload)
    IN  ipv4_to_bytes(UDP, src, dst, len) \o head \o be16(sum) \o payload

udp_from_bytes(b) ==
    [src |-> word(b[1], b[2]), dst |-> word(b[3], b[4]), payload |-> Slice(b, 8, word(b[5], b[6]))]

(* SegmentHeader::to_bytes: no options, and the offset says so.            *)
tcp_to_bytes(h, sum) ==
    be16(h.src_port) \o be16(h.dst_port) \o h.sequence \o h.ack_number \o
    be16(((20 \div 4) * 4096) + h.flags) \o be16(1024) \o be16(sum) \o <<0, 0>>

(* build of the builder for TCP.                                           *)
tcp_build(src, dst, h, payload) ==
    LET len == 20 + Len(payload)
        sum == inet_checksum(pseudo_header(src, dst, TCP, len) \o tcp_to_bytes(h, 0) \o payload)
    IN  ipv4_to_bytes(TCP, src, dst, len) \o tcp_to_bytes(h, sum) \o payload

(* SegmentOptions::from_bytes: FALSE where it panics.                      *)
RECURSIVE segment_options(_)
segment_options(o) ==
    CASE o = <<>> \/ o[1] = 0 -> TRUE
      [] o[1] = 1 -> segment_options(Tail(o))
      [] o[1] = 2 -> o[2] = 4 /\ segment_options(SubSeq(o, 5, Len(o)))
      [] OTHER -> FALSE

Panic == [err |-> "panic"]

(* Segment::from_bytes: the payload starts behind the options.             *)
tcp_from_bytes(b) ==
    LET offset == (b[13] \div 16) * 4
    IN  IF ~segment_options(Slice(b, 20, offset)) THEN Panic
        ELSE [header  |-> [src_port |-> word(b[1], b[2]), dst_port |-> word(b[3], b[4]),
                           sequence |-> Slice(b, 4, 8), ack_number |-> Slice(b, 8, 12), flags |-> b[14] % 32],
              payload |-> Slice(b, offset, Len(b))]

(* The other side may put options, whole words, behind the header.         *)
remote_build(src, dst, h, options, payload) ==
    LET head == tcp_to_bytes(h, 0)
        segment == [head EXCEPT ![13] = @ + (Len(options) * 4)] \o options \o payload
    IN  ipv4_to_bytes(TCP, src, dst, Len(segment)) \o segment
----------------------------------------------------------------------------
(* DhcpOption::to_bytes, for the options the client sends; a server        *)
(* writes its options the same way.  Pad and End have no body.             *)
Pad == 0
End == 255
Known == {1, 3, 6, 51, 53, 54, 55}
option_to_bytes(o) == IF o.code \in {Pad, End} THEN <<o.code>> ELSE <<o.code, Len(o.body)>> \o o.body

(* DhcpOption::from_bytes: an option that is not known loses its body.     *)
option_from_bytes(b, i) ==
    IF b[i] \in {Pad, End} THEN [code |-> b[i], body |-> <<>>, size |-> 1]
    ELSE [code |-> IF b[i] \in Known THEN b[i] ELSE -1,
          body |-> IF b[i] \in Known THEN SubSeq(b, i + 2, i + 1 + b[i + 1]) ELSE <<>>,
          size |-> 2 + b[i + 1]]

MAGIC_COOKIE == <<99, 130, 83, 99>>
BODY == 44 + 64 + 128

(* Payload::to_bytes, and the same by a server.                            *)
dhcp_to_bytes(p) ==
    <<p.op, 1, 6, 0>> \o p.xid \o Zeros(4) \o p.client_ip \o p.your_ip \o p.server_ip \o Zeros(4) \o
    Mac \o Zeros(10 + 64 + 128) \o MAGIC_COOKIE \o FlattenSeq([n \in DOMAIN p.options |-> option_to_bytes(p.options[n])]) \o <<End>>

(* The loop of Payload::from_bytes over the options, up to End.            *)
RECURSIVE options_from_bytes(_, _)
options_from_bytes(b, i) ==
    LET o == option_from_bytes(b, i)
    IN  IF o.code = End THEN <<>>
        ELSE <<[code |-> o.code, body |-> o.body]>> \o options_from_bytes(b, i + o.size)

dhcp_from_bytes(b) ==
    [op |-> b[1], xid |-> Slice(b, 4, 8), client_ip |-> Slice(b, 12, 16), your_ip |-> Slice(b, 16, 20),
     server_ip |-> Slice(b, 20, 24), options |-> options_from_bytes(b, BODY + 4 + 1)]

(* Payload::request.                                                       *)
dhcp_request(xid, client_ip, server_ip) ==
    [op |-> 1, xid |-> xid, client_ip |-> client_ip, your_ip |-> Zeros(4), server_ip |-> server_ip,
     options |-> << [code |-> 53, body |-> <<3>>], [code |-> 50, body |-> client_ip],
                    [code |-> 54, body |-> server_ip], [code |-> 55, body |-> <<1, 3, 6>>] >>]
----------------------------------------------------------------------------
(* The loop of make_question over the segments of a name.                  *)
label_bytes(labels) == FlattenSeq([i \in DOMAIN labels |-> <<Len(labels[i])>> \o labels[i]])
make_name(labels) == label_bytes(labels) \o <<0>>

IsPointer(byte) == byte >= 64

(* Mutant: the length counts the labels behind a pointer too.              *)
read_label_counts(r, data) ==
    LET jump == IsPointer(data[r.index])
        i    == IF jump THEN (word(data[r.index], data[r.index + 1]) % 16384) + 1 ELSE r.index
        n    == data[i]
        c    == r.in_compressed \/ jump
    IN  IF n >= 64 THEN [r EXCEPT !.done = TRUE, !.panic = TRUE]
        ELSE [index |-> i + 1 + n, in_compressed |-> c, done |-> n = 0, panic |-> FALSE,
              labels |-> IF n = 0 THEN r.labels ELSE Append(r.labels, SubSeq(data, i + 1, i + n)),
              size |-> r.size + (IF jump /\ ~r.in_compressed THEN 2 ELSE 0) + 1 + n]

(* One turn of the loop of read_name: a pointer is followed once, and the  *)
(* assertion fails when it leads to another one.                           *)
read_label(r, data) ==
    LET jump == IsPointer(data[r.index])
        i    == IF jump THEN (word(data[r.index], data[r.index + 1]) % 16384) + 1 ELSE r.index
        n    == data[i]
        c    == r.in_compressed \/ jump
    IN  IF n >= 64 THEN [r EXCEPT !.done = TRUE, !.panic = TRUE]
        ELSE [index |-> i + 1 + n, in_compressed |-> c, done |-> n = 0, panic |-> FALSE,
              labels |-> IF n = 0 THEN r.labels ELSE Append(r.labels, SubSeq(data, i + 1, i + n)),
              size |-> r.size + (IF jump /\ ~r.in_compressed THEN 2 ELSE 0) + (IF c THEN 0 ELSE 1 + n)]

RECURSIVE read_labels(_, _)
read_labels(r, data) == IF r.done THEN r ELSE read_labels(read_label(r, data), data)

read_name(index, data) ==
    read_labels([index |-> index, in_compressed |-> FALSE, done |-> FALSE, panic |-> FALSE, labels |-> <<>>,
                 size |-> 0], data)

A == 1
CNAME == 5
MX == 15
AAAA == 28
Supported == {A, AAAA, MX}

(* One turn of parse_reply over the answers: records of a type it does not *)
(* support, or of a class that is not Internet, are skipped.               *)
parse_record(r, data) ==
    LET name  == read_name(r.i, data)
        at    == r.i + name.size
        qtype == word(data[at], data[at + 1])
        class == word(data[at + 2], data[at + 3])
        len   == word(data[at + 8], data[at + 9])
        start == at + 10
        used  == class = 1 /\ qtype \in Supported
        mx    == read_name(start + 2, data)
        value == IF qtype = MX THEN mx.labels ELSE SubSeq(data, start, start + len - 1)
    IN  IF name.panic \/ (used /\ qtype = MX /\ mx.panic) THEN [r EXCEPT !.panic = TRUE]
        ELSE [i |-> start + len, panic |-> FALSE,
              records |-> IF used THEN Append(r.records, [name |-> name.labels, type |-> qtype, value |-> value])
                          ELSE r.records]

RECURSIVE parse_records(_, _, _)
parse_records(count_an, r, data) ==
    IF count_an = 0 \/ r.panic THEN r ELSE parse_records(count_an - 1, parse_record(r, data), data)

Bit(n, k) == (n \div (2 ^ k)) % 2 = 1

parse_reply(data) ==
    LET flags == word(data[3], data[4])
        query == read_name(13, data)
        first == 13 + query.size + 4
        reply(rs) == [req_id |-> word(data[1], data[2]), query |-> query.labels, records |-> rs]
        all == parse_records(word(data[7], data[8]), [i |-> first, panic |-> FALSE, records |-> <<>>], data)
    IN  CASE ~Bit(flags, 15) \/ Bit(flags, 9) \/ ~Bit(flags, 7) -> [err |-> "flags"]
          [] flags % 16 = 0 -> IF all.panic THEN Panic ELSE reply(all.records)
          [] flags % 16 = 3 -> reply(<<"NxDomain">>)
          [] OTHER -> [err |-> "rcode"]
----------------------------------------------------------------------------
(* The places in the message from which the labels of rest are spelled: a  *)
(* label, or a pointer.                                                    *)
Targets(rest) ==
    UNION {{[at |-> n.at + Len(label_bytes(SubSeq(n.labels, 1, k))), chained |-> n.chained \/ k = n.plain] :
                k \in {k \in 0..n.plain : SubSeq(n.labels, k + 1, Len(n.labels)) = rest}} : n \in names}

(* The ways a server writes a name: labels, and then the end, or a pointer *)
(* to the place of the rest of it.                                         *)
Encodings(labels) ==
    {[bytes |-> make_name(labels), plain |-> Len(labels), chained |-> FALSE]} \cup
    UNION {{[bytes |-> label_bytes(SubSeq(labels, 1, k)) \o be16(49152 + t.at - 1), plain |-> k, chained |-> t.chained] :
                t \in Targets(SubSeq(labels, k + 1, Len(labels)))} : k \in 0..Len(labels) - 1}

Placed(at, labels, e, read) ==
    [at |-> at, labels |-> labels, plain |-> e.plain, chained |-> e.chained, read |-> read]

(* A server sends a reply to a question: it repeats the question and then  *)
(* adds records to it, one by one.                                         *)
add_record(labels, type, class, value) ==
    \E e \in Encodings(labels) :
        LET at   == Len(message) + 1
            head == e.bytes \o be16(type) \o be16(class) \o Zeros(4)
            send(body, more) ==
                /\ message' = [message EXCEPT ![8] = @ + 1] \o head \o be16(Len(body)) \o body
                /\ names' = names \cup {Placed(at, labels, e, TRUE)} \cup more
        IN  /\ Cardinality(names) < MaxNames
            /\ IF type = A THEN send(Ip, {})
               ELSE \E v \in Encodings(value) :
                        IF type = MX
                        THEN send(be16(10) \o v.bytes, {Placed(at + Len(head) + 4, value, v, TRUE)})
                        ELSE send(v.bytes, {Placed(at + Len(head) + 2, value, v, FALSE)})
            /\ records' = IF class = 1 /\ type \in Supported
                          THEN Append(records, [name |-> labels, type |-> type, value |-> IF type = A THEN Ip ELSE value])
                          ELSE records
            /\ UNCHANGED packet

(* None, those the parser knows, and selective acknowledgements behind     *)
(* them.                                                                   *)
TcpOptions == {<<>>, <<2, 4, 5, 180>>, <<1, 1, 1, 0>>, <<2, 4, 5, 180, 1, 1, 4, 2>>}

Packets ==
    [kind : {"udp"}, src_port : PortNumbers, dst_port : PortNumbers, payload : Payloads] \cup
    [kind : {"tcp"}, header : [src_port : PortNumbers, dst_port : PortNumbers, sequence : {<<255, 255, 255, 255>>},
                               ack_number : {<<0, 0, 0, 0>>, <<128, 0, 0, 1>>}, flags : {2, 18, 31}],
     options : TcpOptions, payload : Payloads] \cup
    [kind : {"arp"}, op : {1, 2}, src_ip : {Ip, Zeros(4)}, dst_ip : {ServerIp}] \cup
    [kind : {"dhcp"}, options : OptionLists]

NoPacket == [kind |-> "none"]
Flags == 32768 + 256 + 128

(* Either one packet is on the wire, or the reply to a question for a      *)
(* name is written.                                                        *)
WireInit ==
    /\ records = <<>>
    /\ \/ packet \in Packets /\ message = <<>> /\ names = {}
       \/ \E n \in DomainNames, rcode \in {0, 3} :
            /\ packet = NoPacket
            /\ message = be16(7) \o be16(Flags + rcode) \o be16(1) \o Zeros(6) \o make_name(n) \o be16(A) \o be16(1)
            /\ names = {Placed(13, n, [plain |-> Len(n), chained |-> FALSE], TRUE)}

WireNext ==
    /\ packet = NoPacket /\ message[4] % 16 = 0
    /\ \E n \in DomainNames :
        \/ \E class \in {1, 3} : add_record(n, A, class, <<>>)
        \/ \E type \in {CNAME, MX}, v \in DomainNames : add_record(n, type, 1, v)

(* A packet arrives as it was sent, through the headers, the padding to 64 *)
(* bytes and the parsers of the other side (Frame, Packet and Segment in   *)
(* src/libs/d7net): ports, flags, numbers and all of the payload, and      *)
(* nothing of the padding or the options.  A TCP segment of the other side *)
(* whose options go beyond the maximum segment size is a panic.            *)
PacketSurvives ==
    LET sent(ethertype, payload) == frame_from_bytes(frame_to_bytes(Broadcast, Mac, ethertype, payload)).payload
    IN  /\ packet.kind = "udp" =>
            LET ip == ipv4_from_bytes(sent(<<8, 0>>, udp_build(Ip, ServerIp, packet.src_port, packet.dst_port, packet.payload)))
            IN  /\ ip.protocol = UDP /\ ip.src = Ip /\ ip.dst = ServerIp
                /\ udp_from_bytes(ip.payload) = [src |-> packet.src_port, dst |-> packet.dst_port, payload |-> packet.payload]
        /\ packet.kind = "tcp" =>
            /\ tcp_from_bytes(ipv4_from_bytes(sent(<<8, 0>>, tcp_build(Ip, ServerIp, packet.header, packet.payload))).payload)
                = [header |-> packet.header, payload |-> packet.payload]
            /\ tcp_from_bytes(ipv4_from_bytes(sent(<<8, 0>>,
                   remote_build(ServerIp, Ip, packet.header, packet.options, packet.payload))).payload)
                = IF Len(packet.options) > 4 THEN Panic ELSE [header |-> packet.header, payload |-> packet.payload]
        /\ packet.kind = "arp" =>
            LET p == [op |-> packet.op, src_hw |-> Mac, src_ip |-> packet.src_ip, dst_hw |-> Zeros(6), dst_ip |-> packet.dst_ip]
            IN  arp_from_bytes(sent(<<8, 6>>, arp_to_bytes(p))) = p

(* The sum of the words of data, as a number: the reference for            *)
(* inet_checksum, whose arithmetic is modulo 65535.                        *)
RECURSIVE total(_, _)
total(data, i) ==
    IF i > Len(data) THEN 0
    ELSE word(data[i], IF i < Len(data) THEN data[i + 1] ELSE 0) + total(data, i + 2)

(* The checksums a receiver verifies come out right: over the header of    *)
(* IPv4, and over the pseudo header with the UDP or TCP segment, the words *)
(* sum to a multiple of 65535, also for a payload of odd length            *)
(* (inet_checksum).                                                        *)
ChecksumVerifies ==
    packet.kind \in {"udp", "tcp"} =>
        LET b == IF packet.kind = "udp" THEN udp_build(Ip, ServerIp, packet.src_port, packet.dst_port, packet.payload)
                 ELSE tcp_build(Ip, ServerIp, packet.header, packet.payload)
            segment == Slice(b, 20, Len(b))
        IN  /\ total(Slice(b, 0, 20), 1) % 65535 = 0
            /\ total(pseudo_header(Ip, ServerIp, b[10], Len(segment)) \o segment, 1) % 65535 = 0

(* The DHCP parser finds every option of a message, in order, whatever     *)
(* bytes are in their bodies (an address may hold the codes of Pad and     *)
(* End) and however many options it does not know come between them; the   *)
(* same holds for the request the client itself writes.                    *)
OptionsParsed ==
    packet.kind = "dhcp" =>
        LET seen(o) == [code |-> IF o.code \in Known \cup {Pad} THEN o.code ELSE -1,
                        body |-> IF o.code \in Known THEN o.body ELSE <<>>]
            offer == [op |-> 2, xid |-> <<1, 2, 3, 4>>, client_ip |-> Zeros(4), your_ip |-> Ip, server_ip |-> ServerIp,
                      options |-> packet.options]
        IN  \A p \in {offer, dhcp_request(<<255, 0, 255, 0>>, Ip, ServerIp)} :
                dhcp_from_bytes(dhcp_to_bytes(p)) = [p EXCEPT !.options = [n \in DOMAIN p.options |-> seen(p.options[n])]]

(* parse_reply finds in a reply the question and the records the server    *)
(* put there, with names that are compressed in every way but one: a name  *)
(* that ends in a pointer is read through it, and the record goes on       *)
(* behind the pointer and not behind the labels it points to (read_name).  *)
(* It panics exactly when a name it reads has a pointer to a pointer.      *)
ReplyParsed ==
    message # <<>> =>
        LET asked == CHOOSE n \in names : n.at = 13
        IN  parse_reply(message) =
                IF \E n \in names : n.read /\ n.chained THEN Panic
                ELSE [req_id |-> 7, query |-> asked.labels,
                      records |-> IF message[4] % 16 = 0 THEN records ELSE <<"NxDomain">>]
=============================================================================
