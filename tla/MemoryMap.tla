----------------------------- MODULE MemoryMap -----------------------------
(***************************************************************************)
(* The boot-time memory map: src/src/memory/map.rs reads the entries the   *)
(* BIOS left, keeps the whole pages of usable memory in a fixed table of   *)
(* merged ranges (area.rs), maps all memory to the higher half (mod.rs)    *)
(* and gives the first range to the physical allocator                     *)
(* (phys/allocator.rs).  Addresses count units smaller than a page, as     *)
(* the entries need not be aligned.                                        *)
(***************************************************************************)
EXTENDS Naturals, FiniteSets, FiniteSetsExt

CONSTANTS
    Unit,                   \* units in a page (Page::SIZE)
    MAX_OK_ENTRIES,         \* places in the table
    MEMORY_RESERVED_BELOW,  \* kernel memory, below this
    HEAP_START, HEAP_SIZE,  \* the reserved heap
    Limit,                  \* end of physical memory
    MaxE820,                \* bound: entries read
    NoRange                 \* None

ASSUME MemoryMapAssumption ==
    /\ Unit \in Nat \ {0} /\ MAX_OK_ENTRIES \in Nat \ {0}
    /\ \A a \in {MEMORY_RESERVED_BELOW, HEAP_START, HEAP_SIZE} : a \in Nat /\ a % Unit = 0
    /\ MEMORY_RESERVED_BELOW <= HEAP_START

VARIABLES
    e820,          \* entries read so far
    allocatable,   \* the table of ranges
    max_memory,    \* highest end of an entry
    mapped_frames, \* frames mapped to the higher half
    phys_block,    \* the block of the physical allocator, or NoRange
    boot           \* "reading", "running" or "panic"

mapVars == <<e820, allocatable, max_memory, mapped_frames, phys_block, boot>>

Slots == 1..MAX_OK_ENTRIES
range(a, b) == [start |-> a, end |-> b]

MapInit ==
    /\ e820 = {} /\ max_memory = 0
    /\ allocatable = [i \in Slots |-> NoRange]
    /\ mapped_frames = {} /\ phys_block = NoRange /\ boot = "reading"

page_align(address, upwards) ==
    IF address % Unit = 0 THEN address
    ELSE IF upwards THEN (address + Unit) - (address % Unit)
    ELSE address - (address % Unit)

can_merge(self, other) ==
    \/ self.start <= other.start /\ other.start <= self.end
    \/ self.start <= other.end /\ other.end <= self.end

merge(self, other) ==
    range(Min({self.start, other.start}), Max({self.end, other.end}))

(* The parts of a range below and above an address, if any: a set of at    *)
(* most one range.                                                         *)
below(self, addr) ==
    IF addr <= self.start THEN {} ELSE {range(self.start, Min({self.end, addr}))}

above(self, addr) ==
    IF addr >= self.end THEN {} ELSE {range(Max({self.start, addr}), self.end)}

(* Mutant: the entry replaces the range it could be merged with.           *)
write_entry_replaces(table, entry) ==
    LET same == {i \in Slots : table[i] # NoRange /\ can_merge(table[i], entry)}
        free == {i \in Slots : table[i] = NoRange}
    IN IF same # {} THEN {[table EXCEPT ![Min(same)] = entry]}
       ELSE IF free # {} THEN {[table EXCEPT ![Min(free)] = entry]}
       ELSE {}

(* The table after write_entry, or no table: the panic on a full one.      *)
write_entry(table, entry) ==
    LET same == {i \in Slots : table[i] # NoRange /\ can_merge(table[i], entry)}
        free == {i \in Slots : table[i] = NoRange}
    IN IF same # {} THEN {[table EXCEPT ![Min(same)] = merge(@, entry)]}
       ELSE IF free # {} THEN {[table EXCEPT ![Min(free)] = entry]}
       ELSE {}

write_entries(tables, entries) ==
    IF entries = {} THEN tables
    ELSE UNION {write_entry(t, e) : t \in tables, e \in entries}

split_and_write_entry(table, entry) ==
    LET ok == above(entry, MEMORY_RESERVED_BELOW)
        low == UNION {below(e, HEAP_START) : e \in ok}
        high == UNION {above(e, HEAP_START + HEAP_SIZE) : e \in ok}
    IN write_entries(write_entries({table}, low), high)

(***************************************************************************)
(* One turn of the loop of load_memory_map.  The BIOS reports disjoint     *)
(* entries, in any order; usable is type 1 or 4 with the ACPI bit set.     *)
(***************************************************************************)
read_item(e_start, e_end, usable) ==
    LET start == page_align(e_start, TRUE)
        end == page_align(e_end, FALSE)
        tables == IF start = end \/ ~usable THEN {allocatable}
                  ELSE split_and_write_entry(allocatable, range(start, end))
    IN /\ boot = "reading" /\ Cardinality(e820) < MaxE820
       /\ \A e \in e820 : e_end <= e.start \/ e.end <= e_start
       /\ e820' = e820 \cup {[start |-> e_start, end |-> e_end, usable |-> usable]}
       /\ max_memory' = Max({max_memory, e_end})
       /\ IF tables = {} THEN boot' = "panic" /\ UNCHANGED allocatable
          ELSE allocatable' \in tables /\ UNCHANGED boot
       /\ UNCHANGED <<mapped_frames, phys_block>>

next_pow2(n) == Min({p \in {1, 2, 4, 8, 16, 32} : p >= n})

(* phys::init: the first area only, half the next power of two of it.      *)
phys_init(areas) ==
    LET first == areas[Min({i \in Slots : areas[i] # NoRange})]
    IN range(first.start, first.start + (next_pow2(first.end - first.start) \div 2))

(***************************************************************************)
(* The rest of memory::init: the sizes are summed (a range that ends       *)
(* before it starts overflows), every frame up to max_memory is mapped and *)
(* the physical allocator is given its block (no block: blocks[..1] is     *)
(* uninitialised, and nothing is said of it).                              *)
(***************************************************************************)
memory_init ==
    /\ boot = "reading"
    /\ \E i \in Slots : allocatable[i] # NoRange
    /\ IF \E i \in Slots : allocatable[i] # NoRange /\ allocatable[i].end < allocatable[i].start
       THEN boot' = "panic" /\ UNCHANGED <<mapped_frames, phys_block>>
       ELSE /\ boot' = "running"
            /\ mapped_frames' = 0..(max_memory \div Unit)
            /\ phys_block' = phys_init(allocatable)
    /\ UNCHANGED <<e820, allocatable, max_memory>>

MapNext ==
    \/ \E a, b \in 0..Limit, usable \in BOOLEAN : a < b /\ read_item(a, b, usable)
    \/ memory_init

MapSpec == MapInit /\ [][MapNext]_mapVars
----------------------------------------------------------------------------
PagesOf(r) == {p \in 0..(Limit \div Unit) : r.start <= p * Unit /\ (p + 1) * Unit <= r.end}
Reserved == PagesOf(range(0, MEMORY_RESERVED_BELOW))
            \cup PagesOf(range(HEAP_START, HEAP_START + HEAP_SIZE))
Filled == {i \in Slots : allocatable[i] # NoRange}

(***************************************************************************)
(* The block of the physical allocator is usable memory outside the        *)
(* reserved areas, all of it mapped to the higher half, where phys_to_virt *)
(* looks for it.                                                           *)
(***************************************************************************)
PhysBlockUsable ==
    phys_block # NoRange =>
        /\ PagesOf(phys_block) \subseteq mapped_frames \ Reserved
        /\ PagesOf(phys_block) \subseteq UNION {PagesOf(e) : e \in {e \in e820 : e.usable}}
        /\ phys_block.end <= Limit

(***************************************************************************)
(* Whatever the order of the entries, the table of load_memory_map covers  *)
(* exactly the pages that lie inside one usable entry and outside the      *)
(* reserved areas, and no page twice; the block of the physical allocator  *)
(* is a part of that.                                                      *)
(***************************************************************************)
MapExact ==
    boot # "panic" =>
        /\ UNION {PagesOf(allocatable[i]) : i \in Filled}
               = (UNION {PagesOf(e) : e \in {e \in e820 : e.usable}}) \ Reserved
        /\ \A i, j \in Filled : i # j => PagesOf(allocatable[i]) \cap PagesOf(allocatable[j]) = {}
        /\ PhysBlockUsable
=============================================================================
