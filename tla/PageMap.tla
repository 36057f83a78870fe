------------------------------ MODULE PageMap ------------------------------
(***************************************************************************)
(* The page tables of the kernel and of every process                      *)
(* (src/src/memory/paging/mapper.rs): one huge page holds all the tables   *)
(* of an address space, new ones are taken in order, and only 2 MiB pages  *)
(* are mapped, so that a page is found by three indices.  An entry of a P4 *)
(* or P3 table is the number of a table, one of a P2 table a frame.        *)
(***************************************************************************)
EXTENDS Naturals

CONSTANTS
    Index,            \* indices into a table, 512 in the hardware
    Pages,            \* the pages that are used, each given by three indices
    PageFrames,       \* frames a page may be mapped to
    TableFrame,       \* the frame that holds the tables
    TablePage,        \* the page at which the tables see themselves
    MAX_PAGE_TABLES,  \* tables in the huge page
    Garbage           \* an entry in memory that the mapper never wrote

ASSUME PageMapAssumption ==
    /\ Pages \subseteq Index \X Index \X Index /\ TablePage \in Pages
    /\ PageFrames \subseteq Nat \ {0} /\ TableFrame \in PageFrames
    /\ MAX_PAGE_TABLES \in Nat /\ MAX_PAGE_TABLES >= 3

VARIABLES
    tables,      \* contents of the huge page
    table_count  \* tables in use, the ones behind the huge page included

pageMapVars == <<tables, table_count>>

Unused == 0
ZeroTable == [i \in Index |-> Unused]

PageMapInit ==
    /\ table_count = 3
    /\ tables = [t \in 0..MAX_PAGE_TABLES - 1 |->
                    CASE t = 0 -> [ZeroTable EXCEPT ![TablePage[1]] = 1]
                      [] t = 1 -> [ZeroTable EXCEPT ![TablePage[2]] = 2]
                      [] t = 2 -> [ZeroTable EXCEPT ![TablePage[3]] = TableFrame]
                      [] OTHER -> [i \in Index |-> Garbage]]

(* An entry of a table: behind the huge page is the memory of others.      *)
entry(t, i) == IF t < MAX_PAGE_TABLES THEN tables[t][i] ELSE Garbage

(* The frame of a page, or Unused.                                         *)
translate(page) ==
    LET p3 == tables[0][page[1]]
        p2 == entry(p3, page[2])
    IN IF p3 = Unused \/ p2 = Unused THEN Unused ELSE entry(p2, page[3])

Translation == [page \in Pages |-> translate(page)]

(* Mutant: a table that is added is not cleared.                           *)
map_to_dirty(page, frame) ==
    LET new3 == tables[0][page[1]] = Unused
        p3 == IF new3 THEN table_count ELSE tables[0][page[1]]
        new2 == new3 \/ tables[p3][page[2]] = Unused
        p2 == IF ~new2 THEN tables[p3][page[2]]
              ELSE IF new3 THEN table_count + 1 ELSE table_count
    IN /\ table_count' = table_count + (IF new3 THEN 2 ELSE IF new2 THEN 1 ELSE 0)
       /\ tables' = [t \in DOMAIN tables |->
            CASE t = 0 -> [tables[0] EXCEPT ![page[1]] = p3]
              [] t = p3 -> [tables[p3] EXCEPT ![page[2]] = p2]
              [] t = p2 -> [tables[p2] EXCEPT ![page[3]] = frame]
              [] OTHER -> tables[t]]

(***************************************************************************)
(* map_to: missing tables are taken from the huge page, cleared and        *)
(* entered in their parents, and the entry is overwritten.  Nothing checks *)
(* table_count against MAX_PAGE_TABLES: a table behind the huge page is    *)
(* entered as any other, and what is written to it goes to the memory of   *)
(* others.                                                                 *)
(***************************************************************************)
map_to(page, frame) ==
    LET new3 == tables[0][page[1]] = Unused
        p3 == IF new3 THEN table_count ELSE tables[0][page[1]]
        new2 == new3 \/ tables[p3][page[2]] = Unused
        p2 == IF ~new2 THEN tables[p3][page[2]]
              ELSE IF new3 THEN table_count + 1 ELSE table_count
        old3 == IF new3 THEN ZeroTable ELSE tables[p3]
        old2 == IF new2 THEN ZeroTable ELSE tables[p2]
    IN /\ table_count' = table_count + (IF new3 THEN 2 ELSE IF new2 THEN 1 ELSE 0)
       /\ tables' = [t \in DOMAIN tables |->
            CASE t = 0 -> [tables[0] EXCEPT ![page[1]] = p3]
              [] t = p3 -> [old3 EXCEPT ![page[2]] = p2]
              [] t = p2 -> [old2 EXCEPT ![page[3]] = frame]
              [] OTHER -> tables[t]]

(* unmap: panics when a table on the way is missing, else clears the entry *)
(* and keeps the tables.                                                   *)
unmap(page) ==
    LET p3 == tables[0][page[1]]
        p2 == tables[p3][page[2]]
    IN /\ p3 # Unused /\ p2 # Unused
       /\ tables' = [tables EXCEPT ![p2][page[3]] = Unused]
       /\ UNCHANGED table_count

(* The mapper is followed up to the step that takes a table behind the     *)
(* huge page: what the walk finds later is up to the owner of that memory. *)
PageMapNext ==
    /\ table_count <= MAX_PAGE_TABLES
    /\ \E page \in Pages :
        \/ \E frame \in PageFrames : map_to(page, frame)
        \/ unmap(page)

PageMapSpec == PageMapInit /\ [][PageMapNext]_pageMapVars
----------------------------------------------------------------------------
Flat == INSTANCE FlatMap WITH FlatPages <- Pages, FlatFrames <- PageFrames,
                              Unmapped <- Unused, mapping <- Translation

(***************************************************************************)
(* As long as the tables fit in the huge page, the three-level walk        *)
(* behaves as one mapping: mapping or unmapping a page changes that page   *)
(* and no other, also when the step adds tables in memory that was never   *)
(* cleared.  The call of map_to that runs out of tables does not notice,   *)
(* but every page that was mapped before it stays mapped to its frame.     *)
(***************************************************************************)
ImplementsFlatMap ==
    /\ Flat!FlatInit
    /\ [][IF table_count' <= MAX_PAGE_TABLES THEN Flat!FlatNext
          ELSE \A page \in Pages : translate(page) # Unused => translate(page)' = translate(page)]_Translation
=============================================================================
