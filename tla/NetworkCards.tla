---------------------------- MODULE NetworkCards ----------------------------
(***************************************************************************)
(* The two network cards, and what the rest of the system relies on from   *)
(* either of their drivers.                                                *)
(***************************************************************************)
EXTENDS Ne2k, Rtl8139

(***************************************************************************)
(* Packets pass both network cards whole, in order and none twice: what    *)
(* the drivers receive (ne2k.rs, rtl8139.rs) and what the rtl8139 sends;   *)
(* up to the three steps of the drivers that end it, which the parts name  *)
(* (clobbered, skipped and stale).                                         *)
(***************************************************************************)
PacketsInOrder == Ne2kInOrder /\ TxInOrder /\ RxInOrder

=============================================================================
