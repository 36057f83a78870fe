------------------------------ MODULE FlatMap ------------------------------
(***************************************************************************)
(* What a page table promises: a mapping from pages to frames that changes *)
(* in one page at a time.                                                  *)
(***************************************************************************)
CONSTANTS
    FlatPages,   \* virtual pages
    FlatFrames,  \* physical frames
    Unmapped     \* the value of a page with no frame

VARIABLE mapping

FlatInit ==
    /\ mapping \in [FlatPages -> FlatFrames \cup {Unmapped}]
    /\ \A p, q \in FlatPages : mapping[p] # Unmapped /\ mapping[q] # Unmapped => p = q

FlatNext ==
    \E page \in FlatPages, frame \in FlatFrames \cup {Unmapped} :
        mapping' = [mapping EXCEPT ![page] = frame]

FlatSpec == FlatInit /\ [][FlatNext]_mapping
=============================================================================
