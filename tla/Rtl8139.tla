------------------------------ MODULE Rtl8139 ------------------------------
(***************************************************************************)
(* The RTL8139 driver (src/modules/driver_rtl8139) and its card: four      *)
(* buffers for sending, which the card takes in turn, and a ring for       *)
(* receiving, written at cbr by the card and read at rx_offset by the      *)
(* driver.  Offsets count the least packet with its header.  The card runs *)
(* while the driver does, so every access to a register is a step.         *)
(***************************************************************************)
EXTENDS Naturals, Sequences

CONSTANTS
    TX_BUFFER_COUNT,  \* buffers for sending
    RX_BUFFER_SIZE,   \* units of the ring
    Overhang,         \* units behind the ring, PACKET_SIZE_MAX
    MaxRtlSent,       \* bound: packets to send
    MaxRtlReceived    \* bound: packets that arrive

ASSUME RtlAssumption ==
    /\ TX_BUFFER_COUNT \in Nat \ {0}
    /\ RX_BUFFER_SIZE \in Nat /\ Overhang \in Nat /\ RX_BUFFER_SIZE > Overhang

VARIABLES
    tx,            \* packet in each buffer
    OWN,           \* the card has read the buffer: the driver may use it
    tx_next,       \* next buffer to try
    card_tx,       \* next buffer the card sends
    rtl_sent,      \* packets on the wire
    tx_queue,      \* packets the driver was asked to send
    tx_pc,         \* "idle", "status", "copy", "start" or "panic", and the buffer
    tx_try,        \* buffers that select_buffer found in use
    skipped,       \* select_buffer took a buffer behind tx_next
    rx,            \* memory of the ring: headers and bodies of packets
    cbr, capr,     \* where the card writes, what it knows to be read
    rx_offset,     \* where the driver reads
    rx_header,     \* header read by receive
    rtl_isr,       \* interrupt status register
    rtl_irq,       \* an irq message waits
    rtl_pc,        \* where notify_irq is
    rtl_status,    \* status read by notify_irq
    rtl_delivered, \* packets given to netd
    rtl_received,  \* packets that arrived
    stale          \* receive took what it had read before for a packet

rtlTxVars == <<tx, OWN, tx_next, card_tx, rtl_sent, tx_queue, tx_pc, tx_try, skipped>>
rtlRingVars == <<rx, cbr, capr, rx_offset, rx_header, rtl_delivered, rtl_received, stale>>
rtlIrqVars == <<rtl_isr, rtl_irq, rtl_pc, rtl_status>>
rtlVars == <<rtlTxVars, rtlRingVars, rtlIrqVars>>

Buffers == 0..TX_BUFFER_COUNT - 1
Cells == 0..RX_BUFFER_SIZE + Overhang - 1
Zero == [kind |-> "zero", id |-> 0, len |-> 0]
Idle == [at |-> "idle", buffer |-> 0]

(* new and reset.                                                          *)
RtlInit ==
    /\ tx = [b \in Buffers |-> 0] /\ OWN = [b \in Buffers |-> TRUE]
    /\ tx_next = 0 /\ card_tx = 0 /\ rtl_sent = <<>> /\ tx_queue = 0
    /\ tx_pc = Idle /\ tx_try = 0 /\ skipped = FALSE
    /\ rx = [c \in Cells |-> Zero] /\ cbr = 0 /\ capr = 0 /\ rx_offset = 0 /\ rx_header = Zero
    /\ rtl_isr = {} /\ rtl_irq = FALSE /\ rtl_pc = "idle" /\ rtl_status = {}
    /\ rtl_delivered = <<>> /\ rtl_received = 0 /\ stale = FALSE

----------------------------------------------------------------------------

(* send is called, outside of notify_irq.                                  *)
rtl_send ==
    /\ tx_pc = Idle /\ rtl_pc = "idle" /\ tx_queue < MaxRtlSent
    /\ tx_queue' = tx_queue + 1 /\ tx_try' = 0
    /\ tx_pc' = [at |-> "status", buffer |-> tx_next]
    /\ UNCHANGED <<tx, OWN, tx_next, card_tx, rtl_sent, skipped, rtlRingVars, rtlIrqVars>>

(***************************************************************************)
(* select_buffer reads one status register after the other, from tx_next   *)
(* on, until it finds a free buffer; none free is a panic of send.         *)
(***************************************************************************)
select_buffer ==
    LET b == tx_pc.buffer
    IN /\ tx_pc.at = "status"
       /\ \/ /\ OWN[b]
             /\ tx_pc' = [at |-> "copy", buffer |-> b]
             /\ tx_next' = (b + 1) % TX_BUFFER_COUNT
             /\ skipped' = (skipped \/ tx_try # 0)
             /\ UNCHANGED tx_try
          \/ /\ ~OWN[b] /\ tx_try + 1 < TX_BUFFER_COUNT
             /\ tx_try' = tx_try + 1
             /\ tx_pc' = [at |-> "status", buffer |-> (b + 1) % TX_BUFFER_COUNT]
             /\ UNCHANGED <<tx_next, skipped>>
          \/ /\ ~OWN[b] /\ tx_try + 1 = TX_BUFFER_COUNT
             /\ tx_pc' = [at |-> "panic", buffer |-> 0]
             /\ UNCHANGED <<tx_try, tx_next, skipped>>
       /\ UNCHANGED <<tx, OWN, card_tx, rtl_sent, tx_queue, rtlRingVars, rtlIrqVars>>

(* The packet is copied to the buffer; the write of its status register    *)
(* clears OWN.                                                             *)
rtl_copy ==
    /\ tx_pc.at = "copy"
    /\ tx' = [tx EXCEPT ![tx_pc.buffer] = tx_queue]
    /\ tx_pc' = [tx_pc EXCEPT !.at = "start"]
    /\ UNCHANGED <<OWN, tx_next, card_tx, rtl_sent, tx_queue, tx_try, skipped, rtlRingVars, rtlIrqVars>>

rtl_start ==
    /\ tx_pc.at = "start"
    /\ OWN' = [OWN EXCEPT ![tx_pc.buffer] = FALSE]
    /\ tx_pc' = Idle
    /\ UNCHANGED <<tx, tx_next, card_tx, rtl_sent, tx_queue, tx_try, skipped, rtlRingVars, rtlIrqVars>>

(***************************************************************************)
(* The card sets a flag of the ISR: RXOK, "NOTICE" for one that notify_irq *)
(* only logs (TXOK, the overflows, LENGTH_CHANGE), or "ERROR" for one that *)
(* ends in a todo!() (RXERR, TXERR, LINK_CHANGE, SYSTEM_ERROR).            *)
(***************************************************************************)
card_flag(flag) ==
    /\ rtl_isr' = rtl_isr \cup {flag} /\ rtl_irq' = TRUE
    /\ UNCHANGED <<rtl_pc, rtl_status>>

card_report ==
    /\ \E flag \in {"ERROR", "NOTICE"} : card_flag(flag)
    /\ UNCHANGED <<rtlTxVars, rtlRingVars>>

(* The card sends the buffers in turn and sets OWN and TXOK.               *)
card_transmit ==
    /\ ~OWN[card_tx]
    /\ rtl_sent' = Append(rtl_sent, tx[card_tx])
    /\ OWN' = [OWN EXCEPT ![card_tx] = TRUE]
    /\ card_tx' = (card_tx + 1) % TX_BUFFER_COUNT
    /\ card_flag("NOTICE")
    /\ UNCHANGED <<tx, tx_next, tx_queue, tx_pc, tx_try, skipped, rtlRingVars>>

----------------------------------------------------------------------------
(***************************************************************************)
(* The card writes a packet of n units, past the end of the ring if it     *)
(* must, when the units it knows to be free suffice; else the packet is    *)
(* dropped and the overflow reported.                                      *)
(***************************************************************************)
RingUsed == (cbr + RX_BUFFER_SIZE - capr) % RX_BUFFER_SIZE

card_store(n) ==
    LET id == rtl_received + 1
    IN /\ rtl_received < MaxRtlReceived
       /\ RingUsed + n < RX_BUFFER_SIZE
       /\ rtl_received' = id
       /\ rx' = [c \in Cells |-> CASE c = cbr -> [kind |-> "header", id |-> id, len |-> n]
                                   [] c \in cbr + 1..cbr + n - 1 -> [kind |-> "body", id |-> id, len |-> 0]
                                   [] OTHER -> rx[c]]
       /\ cbr' = (cbr + n) % RX_BUFFER_SIZE
       /\ card_flag("RXOK")
       /\ UNCHANGED <<rtlTxVars, capr, rx_offset, rx_header, rtl_delivered, stale>>

card_overflow(n) ==
    /\ rtl_received < MaxRtlReceived /\ RingUsed + n >= RX_BUFFER_SIZE
    /\ card_flag("NOTICE")
    /\ UNCHANGED <<rtlTxVars, rtlRingVars>>

(* The driver takes an irq message; notify_irq reads the status.           *)
rtl_take_irq ==
    /\ rtl_irq /\ rtl_pc = "idle" /\ tx_pc = Idle
    /\ rtl_irq' = FALSE /\ rtl_pc' = "first"
    /\ UNCHANGED <<rtl_isr, rtl_status, rtlTxVars, rtlRingVars>>

rtl_first_status ==
    /\ rtl_pc = "first"
    /\ rtl_status' = rtl_isr /\ rtl_pc' = IF rtl_isr = {} THEN "idle" ELSE "receive"
    /\ UNCHANGED <<rtl_isr, rtl_irq, rtlTxVars, rtlRingVars>>

(* The flags that are looked at after RXOK.                                *)
AfterReceive == IF "ERROR" \in rtl_status THEN "panic" ELSE "again"

(***************************************************************************)
(* receive: nothing when the place was never written.  A header left from  *)
(* the last time around the ring is taken for a new one; bytes that are no *)
(* header leave the driver lost.                                           *)
(***************************************************************************)
receive ==
    LET cell == rx[rx_offset]
    IN /\ rtl_pc = "receive"
       /\ \/ /\ "RXOK" \notin rtl_status \/ cell.kind = "zero"
             /\ rtl_pc' = AfterReceive
             /\ UNCHANGED <<rx_header, stale>>
          \/ /\ "RXOK" \in rtl_status /\ cell.kind # "zero"
             /\ rtl_pc' = IF cell.kind = "header" THEN "capr" ELSE "lost"
             /\ rx_header' = cell
             /\ stale' = (stale \/ rx_offset = cbr)
       /\ UNCHANGED <<rx, cbr, capr, rx_offset, rtl_delivered, rtl_received, rtl_isr, rtl_irq,
                      rtl_status, rtlTxVars>>

receive_offset(n) == (rx_offset + n) % RX_BUFFER_SIZE

(* The card is told the offset from before this packet.                    *)
rtl_write_capr ==
    /\ rtl_pc = "capr"
    /\ capr' = rx_offset /\ rx_offset' = receive_offset(rx_header.len)
    /\ rtl_delivered' = Append(rtl_delivered, rx_header.id)
    /\ rtl_pc' = AfterReceive
    /\ UNCHANGED <<rx, cbr, rx_header, rtl_received, stale, rtl_isr, rtl_irq, rtl_status, rtlTxVars>>

(* The status is read again, and what was read is acknowledged.            *)
rtl_read_again ==
    /\ rtl_pc = "again"
    /\ rtl_status' = rtl_isr /\ rtl_pc' = "ack"
    /\ UNCHANGED <<rtl_isr, rtl_irq, rtlTxVars, rtlRingVars>>

rtl_ack ==
    /\ rtl_pc = "ack"
    /\ rtl_isr' = rtl_isr \ rtl_status /\ rtl_pc' = IF rtl_status = {} THEN "idle" ELSE "receive"
    /\ UNCHANGED <<rtl_irq, rtl_status, rtlTxVars, rtlRingVars>>

RtlDriver ==
    \/ select_buffer \/ rtl_copy \/ rtl_start \/ rtl_take_irq \/ rtl_first_status
    \/ receive \/ rtl_write_capr \/ rtl_read_again \/ rtl_ack

RtlNext ==
    \/ rtl_send \/ RtlDriver \/ card_transmit \/ card_report
    \/ \E n \in {1, 2} : card_store(n) \/ card_overflow(n)

RtlSpec == RtlInit /\ [][RtlNext]_rtlVars /\ WF_rtlVars(RtlDriver) /\ WF_rtlVars(card_transmit)
----------------------------------------------------------------------------
(***************************************************************************)
(* Every packet send accepted is on the wire once, or in one buffer that   *)
(* the card has still to send, or on its way to a buffer: select_buffer    *)
(* never gives out a buffer the card has not read.  And the packets leave  *)
(* in the order of the calls, until select_buffer has found the buffer at  *)
(* tx_next in use and one behind it free: the card finished both between   *)
(* the two reads, and it will not turn to the second one before the first  *)
(* is filled again.                                                        *)
(***************************************************************************)
OnTheWire == {rtl_sent[i] : i \in 1..Len(rtl_sent)}

TxInOrder ==
    /\ \A i, k \in 1..Len(rtl_sent) : rtl_sent[i] = rtl_sent[k] => i = k
    /\ \A b, c \in Buffers : ~OWN[b] =>
           tx[b] \notin OnTheWire /\ (~OWN[c] /\ tx[b] = tx[c] => b = c)
    /\ \A p \in 1..tx_queue : \/ p \in OnTheWire \/ \E b \in Buffers : ~OWN[b] /\ tx[b] = p
                              \/ p = tx_queue /\ tx_pc # Idle
    /\ ~skipped => rtl_sent = [i \in 1..Len(rtl_sent) |-> i]

(***************************************************************************)
(* Every packet send accepted is sent, unless the driver has panicked, or  *)
(* select_buffer has left a buffer out and the card waits for that one.    *)
(***************************************************************************)
TxIdle == tx_pc.at = "panic" \/ rtl_pc = "panic" \/ skipped \/ 1..tx_queue \subseteq OnTheWire

(***************************************************************************)
(* The packets given to netd are the ones the card stored, in order and    *)
(* each once, however the interrupts and the arrivals interleave and as    *)
(* often as the ring wraps around; until receive, called with nothing left *)
(* to read, takes what is left in the ring for a packet.                   *)
(***************************************************************************)
RxInOrder == ~stale => rtl_pc # "lost" /\ rtl_delivered = [i \in 1..Len(rtl_delivered) |-> i]
=============================================================================
