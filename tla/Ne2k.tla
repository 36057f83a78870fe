-------------------------------- MODULE Ne2k --------------------------------
(***************************************************************************)
(* The NE2000 driver (src/modules/driver_ne2k) and its card.  The card     *)
(* puts packets into a ring of pages and moves CURR; the driver reads them *)
(* and moves BNRY, which the card never passes.  The card runs while the   *)
(* driver does, so every access to a register is a step of its own.  Pages *)
(* are numbered from PSTART = 0.                                           *)
(***************************************************************************)
EXTENDS Naturals, Sequences, FiniteSets

CONSTANTS
    PSTOP,        \* end of the ring; the pages for sending follow it
    MaxReceived,  \* bound: packets that arrive
    MaxSent       \* bound: packets to send

ASSUME Ne2kAssumption == PSTOP \in Nat /\ PSTOP > 2

PSTART == 0

VARIABLES
    card_pages,   \* memory of the card: the packet in each page
    CURR, BNRY,   \* registers of the ring
    ISR,          \* interrupt status register, without the flags that do nothing
    ne_irq,       \* an irq message waits for the driver
    next_packet,  \* where the driver reads next
    ne_pc,        \* where the driver is
    ne_status,    \* the status this turn of notify_irq works on
    curr,         \* its copy of CURR
    header,       \* header it has read
    ne_result,    \* packets read by this notify_irq
    ne_delivered, \* packets given to netd
    ne_received,  \* packets that arrived
    ne_sent,      \* packets sent, as the card saw them
    clobbered     \* a packet was written over unread ones by send

ne2kVars == <<card_pages, CURR, BNRY, ISR, ne_irq, next_packet, ne_pc, ne_status, curr, header,
              ne_result, ne_delivered, ne_received, ne_sent, clobbered>>

Ring == PSTART..PSTOP - 1
Wrapped(page) == IF page >= PSTOP THEN page - PSTOP ELSE page
PacketPages(first, n) == {Wrapped(first + i) : i \in 0..n - 1}
NoPage == [id |-> 0, part |-> 0, next |-> 0]
ERRORS == {"RX_BUFFER_FULL", "TX_ERROR", "RX_ERROR"}

(* reset: an empty ring whose boundary is one page behind.                 *)
Ne2kInit ==
    /\ card_pages = [p \in Ring |-> NoPage]
    /\ CURR = PSTART + 1 /\ BNRY = PSTART
    /\ next_packet = PSTART + 1
    /\ ISR = {} /\ ne_irq = FALSE
    /\ ne_pc = "select" /\ ne_status = {} /\ curr = 0 /\ header = NoPage
    /\ ne_result = <<>> /\ ne_delivered = <<>> /\ ne_received = 0 /\ ne_sent = <<>>
    /\ clobbered = FALSE

(***************************************************************************)
(* The card.  The header of a packet has the place of the next one.  A     *)
(* packet that would reach the boundary is dropped, which the card may     *)
(* report.  The interrupts that reset enables raise an irq message.        *)
(***************************************************************************)
card_receive(n) ==
    LET id == ne_received + 1
        next == Wrapped(CURR + n)
    IN /\ ne_received < MaxReceived
       /\ ne_received' = id
       /\ \/ /\ BNRY \notin PacketPages(CURR, n)
             /\ card_pages' = [p \in Ring |->
                      IF p \in PacketPages(CURR, n)
                      THEN [id |-> id, part |-> Wrapped(p + PSTOP - CURR), next |-> next]
                      ELSE card_pages[p]]
             /\ CURR' = next
             /\ ISR' = ISR \cup {"RX_OK"}
             /\ ne_irq' = TRUE
          \/ /\ BNRY \in PacketPages(CURR, n)
             /\ \E flags \in {{}, {"RX_BUFFER_FULL"}, {"RX_BUFFER_FULL", "RESET"}} :
                    ISR' = ISR \cup flags /\ ne_irq' = (ne_irq \/ flags # {})
             /\ UNCHANGED <<card_pages, CURR>>
       /\ UNCHANGED <<BNRY, next_packet, ne_pc, ne_status, curr, header, ne_result, ne_delivered,
                      ne_sent, clobbered>>

Ne2kKeeps == UNCHANGED <<ne_received, ne_delivered, ne_sent, clobbered>>

(* A packet arrives damaged.                                               *)
card_error ==
    /\ ISR' = ISR \cup {"RX_ERROR"} /\ ne_irq' = TRUE
    /\ UNCHANGED <<card_pages, CURR, BNRY, next_packet, ne_pc, ne_status, curr, header, ne_result>>
    /\ Ne2kKeeps

(* The driver takes an irq message and enters notify_irq.                  *)
ne_select ==
    /\ ne_pc = "select" /\ ne_irq
    /\ ne_irq' = FALSE /\ ne_pc' = "isr"
    /\ UNCHANGED <<card_pages, CURR, BNRY, ISR, next_packet, ne_status, curr, header, ne_result>>
    /\ Ne2kKeeps

(***************************************************************************)
(* The end of a turn of notify_irq: TX_OK and RESET are panics, and so are *)
(* all the errors together; contains(ERRORS) is false for one or two, and  *)
(* nothing clears them.                                                    *)
(***************************************************************************)
AfterPackets(status) ==
    IF "TX_OK" \in status \/ "RESET" \in status \/ ERRORS \subseteq status THEN "panic" ELSE "isr"

(* The loop of notify_irq: an empty status ends it, and the packets go to  *)
(* netd.                                                                   *)
read_isr ==
    /\ ne_pc = "isr"
    /\ \/ /\ ISR = {}
          /\ ne_pc' = "select" /\ ne_delivered' = ne_delivered \o ne_result /\ ne_result' = <<>>
          /\ UNCHANGED ne_status
       \/ /\ "RX_OK" \in ISR
          /\ ne_pc' = "curr" /\ ne_status' = ISR /\ UNCHANGED <<ne_delivered, ne_result>>
       \/ /\ ISR # {} /\ "RX_OK" \notin ISR
          /\ ne_pc' = AfterPackets(ISR) /\ UNCHANGED <<ne_status, ne_delivered, ne_result>>
    /\ UNCHANGED <<card_pages, CURR, BNRY, ISR, ne_irq, next_packet, curr, header,
                   ne_received, ne_sent, clobbered>>

(* read_packets: CURR is read once, before the loop.                       *)
read_curr ==
    /\ ne_pc = "curr"
    /\ curr' = CURR /\ ne_pc' = "loop"
    /\ UNCHANGED <<card_pages, CURR, BNRY, ISR, ne_irq, next_packet, ne_status, header, ne_result>>
    /\ Ne2kKeeps

(* A page that is not the first of a packet, or not of a packet at all, is *)
(* no header: what the driver does next is not determined.                 *)
read_header ==
    /\ ne_pc = "loop" /\ curr # next_packet
    /\ header' = card_pages[next_packet]
    /\ ne_pc' = IF header'.id = 0 \/ header'.part # 0 THEN "lost" ELSE "body"
    /\ UNCHANGED <<card_pages, CURR, BNRY, ISR, ne_irq, next_packet, ne_status, curr, ne_result>>
    /\ Ne2kKeeps

(* The body is what is in the pages of the packet when it is read.         *)
read_body ==
    LET n == Wrapped(header.next + PSTOP - next_packet)
    IN /\ ne_pc = "body"
       /\ ne_result' = Append(ne_result, {card_pages[p].id : p \in PacketPages(next_packet, n)})
       /\ next_packet' = IF header.next >= PSTOP THEN PSTART ELSE header.next
       /\ ne_pc' = "bnry"
       /\ UNCHANGED <<card_pages, CURR, BNRY, ISR, ne_irq, ne_status, curr, header>> /\ Ne2kKeeps

(* Mutant: the boundary is moved up to all the packets found, at once.     *)
write_bnry_curr ==
    /\ ne_pc = "bnry"
    /\ BNRY' = IF curr = PSTART THEN PSTOP - 1 ELSE curr - 1
    /\ ne_pc' = "write_curr"
    /\ UNCHANGED <<card_pages, CURR, ISR, ne_irq, next_packet, ne_status, curr, header, ne_result>>
    /\ Ne2kKeeps

write_bnry ==
    /\ ne_pc = "bnry"
    /\ BNRY' = IF next_packet = PSTART THEN PSTOP - 1 ELSE next_packet - 1
    /\ ne_pc' = "write_curr"
    /\ UNCHANGED <<card_pages, CURR, ISR, ne_irq, next_packet, ne_status, curr, header, ne_result>>
    /\ Ne2kKeeps

(* CURR is written with the copy: packets that arrived since are dropped.  *)
write_curr ==
    /\ ne_pc = "write_curr"
    /\ CURR' = curr /\ ne_pc' = "loop"
    /\ UNCHANGED <<card_pages, BNRY, ISR, ne_irq, next_packet, ne_status, curr, header, ne_result>>
    /\ Ne2kKeeps

clear_isr ==
    /\ ne_pc = "loop" /\ curr = next_packet
    /\ ISR' = ISR \ {"RX_OK"} /\ ne_pc' = AfterPackets(ne_status) /\ ne_status' = {}
    /\ UNCHANGED <<card_pages, CURR, BNRY, ne_irq, next_packet, curr, header, ne_result>>
    /\ Ne2kKeeps

(***************************************************************************)
(* send: the packet is written to page 0x40, which is PSTART, and sent     *)
(* from there; the driver waits for TX_OK, and for ever if the card says   *)
(* TX_ERROR instead.  TX_OK raises no irq message.                         *)
(***************************************************************************)
Unread == IF CURR = next_packet THEN {}
          ELSE PacketPages(next_packet, Wrapped(CURR + PSTOP - next_packet))

send_write(n) ==
    /\ ne_pc = "select" /\ Len(ne_sent) < MaxSent
    /\ card_pages' = [p \in Ring |-> IF p < n THEN NoPage ELSE card_pages[p]]
    /\ clobbered' = (clobbered \/ \E p \in Unread : p < n)
    /\ ne_pc' = "transmit"
    /\ UNCHANGED <<CURR, BNRY, ISR, ne_irq, next_packet, ne_status, curr, header, ne_result,
                   ne_delivered, ne_received, ne_sent>>

card_transmitted ==
    /\ ne_pc = "transmit"
    /\ \/ /\ ne_sent' = Append(ne_sent, card_pages[PSTART] = NoPage)
          /\ ISR' = ISR \cup {"TX_OK"} /\ ne_pc' = "sent" /\ UNCHANGED ne_irq
       \/ /\ UNCHANGED ne_sent
          /\ ISR' = ISR \cup {"TX_ERROR"} /\ ne_pc' = "unsent" /\ ne_irq' = TRUE
    /\ UNCHANGED <<card_pages, CURR, BNRY, next_packet, ne_status, curr, header, ne_result,
                   ne_delivered, ne_received, clobbered>>

send_done ==
    /\ ne_pc = "sent"
    /\ ISR' = ISR \ {"TX_OK"} /\ ne_pc' = "select"
    /\ UNCHANGED <<card_pages, CURR, BNRY, ne_irq, next_packet, ne_status, curr, header, ne_result>>
    /\ Ne2kKeeps

(* The driver, and the card where the driver waits for it.                 *)
Ne2kDriver ==
    \/ ne_select \/ read_isr \/ read_curr \/ read_header \/ read_body \/ write_bnry
    \/ write_curr \/ clear_isr \/ card_transmitted \/ send_done

Ne2kNext ==
    \/ \E n \in {1, 2} : card_receive(n) \/ send_write(n)
    \/ card_error \/ Ne2kDriver

Ne2kSpec == Ne2kInit /\ [][Ne2kNext]_ne2kVars /\ WF_ne2kVars(Ne2kDriver)
----------------------------------------------------------------------------
(***************************************************************************)
(* What read_packets hands to netd are whole packets, in the order they    *)
(* arrived and none twice, although CURR is rewritten while the card       *)
(* receives; as long as send has not overwritten an unread packet.  A      *)
(* packet may be lost on the way: one that does not fit, or that arrived   *)
(* between the read and the write of CURR.  notify_irq panics for RESET    *)
(* and for all the errors at once, and never for the TX_OK of a send.      *)
(***************************************************************************)
Ne2kInOrder ==
    /\ ne_pc = "panic" => "RESET" \in ISR \/ ERRORS \subseteq ISR
    /\ ~clobbered =>
          LET all == ne_delivered \o ne_result
          IN /\ ne_pc # "lost"
             /\ \A i \in DOMAIN all : Cardinality(all[i]) = 1
             /\ \A i, j \in DOMAIN all : i < j =>
                    \A x \in all[i], y \in all[j] : x < y

(***************************************************************************)
(* The driver is back in its main loop: the chain of headers met the copy  *)
(* of CURR, the interrupts are acknowledged and the packet is sent; unless *)
(* the card has reported an error or a reset, which nothing clears:        *)
(* notify_irq then reads the status for ever, and send waits for ever.     *)
(***************************************************************************)
Ne2kIdle == ne_pc \in {"select", "lost"} \/ ISR \cap (ERRORS \cup {"RESET"}) # {}
=============================================================================
