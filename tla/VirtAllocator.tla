--------------------------- MODULE VirtAllocator ---------------------------
(***************************************************************************)
(* The kernel's allocator of virtual address ranges                        *)
(* (src/src/memory/virt): a first-fit free list of blocks, sorted by       *)
(* address.  Addresses count pages from START_ADDR.  An area is freed when *)
(* its owner drops the Allocation, so areas holds the live ones.           *)
(***************************************************************************)
EXTENDS Naturals, FiniteSets, Sequences, SequencesExt, FiniteSetsExt

CONSTANTS
    SIZE,       \* pages between START_ADDR and END_ADDR
    MaxRequest  \* bound: pages asked for by one allocation

ASSUME VirtAssumption == SIZE \in Nat \ {0} /\ MaxRequest \in 1..SIZE

VARIABLES
    free_list,  \* FREE_LIST
    areas       \* the Allocations that have not been dropped

virtVars == <<free_list, areas>>

Block == [start : 0..SIZE, end : 0..SIZE]
size_pages(block) == block.end - block.start
page_starts(block) == block.start .. block.end - 1

VirtInit ==
    /\ free_list = <<[start |-> 0, end |-> SIZE]>>
    /\ areas = {}

(***************************************************************************)
(* allocate: the first block that is large enough is removed when it fits  *)
(* exactly and otherwise loses its first pages.  With no such block the    *)
(* kernel panics, so there is no step.  Requests are for at least one      *)
(* page: one for none, which memory_slice makes for an empty range at the  *)
(* start of a page, gets the address of the first block, and free panics   *)
(* when it is dropped.                                                     *)
(***************************************************************************)
Fitting(n) == {i \in DOMAIN free_list : size_pages(free_list[i]) >= n}
FirstFit(n) == Min(Fitting(n))
NewArea(n) == LET start == free_list[FirstFit(n)].start IN [start |-> start, end |-> start + n]

(* Mutant: a block that is one page too large is taken whole.              *)
virt_taken_whole(n) ==
    LET i == FirstFit(n)
    IN IF size_pages(free_list[i]) <= n + 1
       THEN RemoveAt(free_list, i)
       ELSE [free_list EXCEPT ![i] = [start |-> @.start + n, end |-> @.end]]

virt_taken(n) ==
    LET i == FirstFit(n)
    IN IF size_pages(free_list[i]) = n
       THEN RemoveAt(free_list, i)
       ELSE [free_list EXCEPT ![i] = [start |-> @.start + n, end |-> @.end]]

virt_allocate(n) ==
    /\ Fitting(n) # {}
    /\ free_list' = virt_taken(n)
    /\ areas' = areas \cup {NewArea(n)}

(***************************************************************************)
(* free: the place of the block by binary search, then the block joins its *)
(* left neighbour, or else its right one, or becomes a block of its own.   *)
(* A block that starts at the same address is reported as a double free.   *)
(***************************************************************************)
LowerBlocks(list, addr) == Cardinality({i \in DOMAIN list : list[i].start < addr})

virt_freed(list, area) ==
    LET i == LowerBlocks(list, area.start)
    IN CASE i > 0 /\ list[i].end = area.start ->
                [list EXCEPT ![i] = [start |-> @.start, end |-> @.end + size_pages(area)]]
         [] ~(i > 0 /\ list[i].end = area.start)
            /\ i < Len(list) /\ list[i + 1].start = area.end ->
                [list EXCEPT ![i + 1] = [start |-> area.start, end |-> @.end]]
         [] OTHER -> InsertAt(list, i + 1, area)

virt_free(area) ==
    /\ \A i \in DOMAIN free_list : free_list[i].start # area.start
    /\ free_list' = virt_freed(free_list, area)
    /\ areas' = areas \ {area}

VirtNext ==
    \/ \E n \in 1..MaxRequest : virt_allocate(n)
    \/ \E area \in areas : virt_free(area)

VirtSpec == VirtInit /\ [][VirtNext]_virtVars
----------------------------------------------------------------------------
FreePages == UNION {page_starts(free_list[i]) : i \in DOMAIN free_list}

(***************************************************************************)
(* The blocks are never empty ("Range start..end, never empty"), sorted    *)
(* and disjoint: what the binary search and the look at the two neighbours *)
(* in free rely on.                                                        *)
(***************************************************************************)
FreeListSorted ==
    /\ \A i \in DOMAIN free_list : free_list[i] \in Block /\ size_pages(free_list[i]) > 0
    /\ \A i, j \in DOMAIN free_list : i < j => free_list[i].end <= free_list[j].start

(***************************************************************************)
(* Every page is in exactly one place: in one block of the free list or in *)
(* one live area.  No area overlaps another, none is lost when blocks are  *)
(* split and joined, and the list stays sorted.                            *)
(***************************************************************************)
VirtAccounting ==
    /\ FreeListSorted
    /\ FreePages \cup UNION {page_starts(a) : a \in areas} = 0..SIZE - 1
    /\ \A a, b \in areas : a # b => page_starts(a) \cap page_starts(b) = {}
    /\ \A a \in areas : page_starts(a) \cap FreePages = {}
=============================================================================
