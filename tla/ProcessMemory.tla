--------------------------- MODULE ProcessMemory ---------------------------
(***************************************************************************)
(* Who owns which memory: the frames of the physical allocator, the page   *)
(* table, stack, image and dynamic memory of each process                  *)
(* (src/src/multitasking/process.rs), the windows through which a system   *)
(* call reads and writes the memory of its caller, kernel stacks, and the  *)
(* heap that libd7 builds on mem_alloc.  A page table is its mapping, see  *)
(* PageMap.  The system calls run one at a time with interrupts disabled;  *)
(* their slices are separate steps because the translations of the pages   *)
(* are cached by the processor in between.                                 *)
(***************************************************************************)
EXTENDS VirtAllocator

CONSTANTS
    Pids,           \* processes
    Frames,         \* frames of the physical allocator, numbers
    LowFrames,      \* frames below MEMORY_RESERVED_BELOW: tables, DMA, screen
    StackPages,     \* pages of the process stack, from PROCESS_STACK
    ImagePages,     \* pages of the executable image
    RawPages,       \* pages a program passes to mem_alloc and mem_dealloc
    HeapPages,      \* bound: pages of the heap of libd7, from PROCESS_DYNAMIC_MEMORY
    DevicePages,    \* pages a driver passes to mmap_physical
    PageUnits,      \* bytes of a page, in the unit of heap requests
    Requests,       \* sizes of heap requests
    DeviceLengths,  \* sizes of device memory to map
    Arguments,      \* arguments of system calls in memory: first page and pages
    MaxStacks,      \* bound: kernel stacks
    NoFrame         \* no frame

ASSUME ProcessMemoryAssumption ==
    /\ Frames \subseteq Nat /\ LowFrames \subseteq Nat /\ Frames \cap LowFrames = {}
    /\ PageUnits \in Nat \ {0}

VARIABLES
    free_frames,  \* PHYS_ALLOCATOR: frames that are not allocated
    process,      \* processes of the scheduler
    page_tables,  \* frames of page tables; a PageMap is never freed
    stacks,       \* kernel stacks: which page holds which frame
    PAGE_MAP,     \* kernel page table, the part from START_ADDR to END_ADDR
    tlb,          \* translations of those pages cached by the processor
    call,         \* the system call that holds a slice
    heap          \* BlockAllocator of each process

memoryVars == <<free_frames, process, page_tables, stacks, PAGE_MAP, tlb, call, heap>>

CommonPages == {0, 1}   \* the descriptor tables, and PROCESS_COMMON_CODE
UserPages == CommonPages \cup StackPages \cup ImagePages \cup RawPages
             \cup HeapPages \cup DevicePages
NoProcess == [alive |-> FALSE]
NoCall == [pid |-> 0]
Idle == call = NoCall
Alive == {p \in Pids : process[p] # NoProcess}
Unmapped == [frame |-> NoFrame, writable |-> FALSE]
EmptyTlb == [k \in 0..SIZE - 1 |-> NoFrame]
Mapped(frame, writable) == [frame |-> frame, writable |-> writable]

MemoryInit ==
    /\ VirtInit
    /\ free_frames = Frames
    /\ process = [p \in Pids |-> NoProcess]
    /\ page_tables = {}
    /\ stacks = {}
    /\ PAGE_MAP = [k \in 0..SIZE - 1 |-> NoFrame]
    /\ tlb = EmptyTlb
    /\ call = NoCall
    /\ heap = [p \in Pids |-> [used_bytes |-> 0, capacity_bytes |-> 0]]

(***************************************************************************)
(* The physical allocator: some free frames, adjacent ones for a layout of *)
(* several pages.  Which ones is the choice of the buddy allocator; the    *)
(* model takes the lowest.                                                 *)
(***************************************************************************)
Room(free, n) == {f \in free : f..f + n - 1 \subseteq free}
Allocated(free, n) == LET f == Min(Room(free, n)) IN f..f + n - 1

(***************************************************************************)
(* load_elf and create_process: frames for the image, the stack and the    *)
(* page table.  When one of them fails the earlier ones are dropped.       *)
(***************************************************************************)
SpawnFrames ==
    LET n == Cardinality(ImagePages)
        k == Cardinality(StackPages)
        image == IF Cardinality(free_frames) < n THEN {} ELSE
                     CHOOSE s \in kSubset(n, free_frames) :
                         \A f \in s, g \in free_frames \ s : f < g
        rest == free_frames \ image
        stack == IF Room(rest, k) = {} THEN {} ELSE Allocated(rest, k)
        last == rest \ stack
    IN IF image = {} \/ stack = {} \/ last = {} THEN {}
       ELSE {[image |-> image, stack |-> stack, table |-> Min(last)]}

(* The n-th frame of an allocation backs the n-th page of its range.       *)
Backing(pages, frames, page) ==
    SetToSortSeq(frames, <)[Cardinality({q \in pages : q <= page})]

create_process(f) ==
    [alive |-> TRUE, stack |-> f.stack, image |-> f.image, dynamic |-> {},
     table |-> [page \in UserPages |->
         CASE page \in CommonPages -> Mapped(page, page = 0)
           [] page \in StackPages -> Mapped(Backing(StackPages, f.stack, page), TRUE)
           [] page \in ImagePages -> Mapped(Backing(ImagePages, f.image, page), FALSE)
           [] OTHER -> Unmapped]]

spawn(p) ==
    IF SpawnFrames = {} THEN UNCHANGED <<free_frames, process, page_tables, heap>>
    ELSE LET f == CHOOSE f \in SpawnFrames : TRUE
         IN /\ process' = [process EXCEPT ![p] = create_process(f)]
            /\ free_frames' = free_frames \ (f.image \cup f.stack \cup {f.table})
            /\ page_tables' = page_tables \cup {f.table}
            /\ heap' = [heap EXCEPT ![p] = [used_bytes |-> 0, capacity_bytes |-> 0]]

(* The first process is started by the kernel from the initial RAM disk.   *)
spawn_first(p) ==
    /\ Idle /\ Alive = {}
    /\ spawn(p)
    /\ UNCHANGED <<stacks, PAGE_MAP, tlb, call, virtVars>>

(* Mutant: the image is not dropped with the process.                      *)
drop_process_keeps_image(p) ==
    /\ free_frames' = free_frames \cup process[p].stack \cup process[p].dynamic
    /\ process' = [process EXCEPT ![p] = NoProcess]

(* terminate drops the Process: its stack, image and dynamic memory are    *)
(* freed, the frame of its page table is not.                              *)
drop_process(p) ==
    /\ free_frames' = free_frames \cup process[p].stack \cup process[p].image
                                  \cup process[p].dynamic
    /\ process' = [process EXCEPT ![p] = NoProcess]

terminate(p) ==
    /\ Idle /\ p \in Alive
    /\ drop_process(p)
    /\ UNCHANGED <<page_tables, stacks, PAGE_MAP, tlb, call, heap, virtVars>>

(***************************************************************************)
(* memory_alloc and memory_dealloc go through the pages in order and stop  *)
(* at the first one they refuse, leaving the earlier ones as they are: a   *)
(* page that is mapped and not dynamic, or no frame left.                  *)
(***************************************************************************)
alloc_page(acc, page, writable) ==
    LET frame == acc.proc.table[page].frame
        fresh == Min(acc.free)
    IN CASE acc.err -> acc
         [] ~acc.err /\ frame \in acc.proc.dynamic ->
                [acc EXCEPT !.proc.table[page].writable = writable]
         [] ~acc.err /\ frame = NoFrame /\ acc.free # {} ->
                [acc EXCEPT !.free = @ \ {fresh},
                            !.proc.table[page] = Mapped(fresh, writable),
                            !.proc.dynamic = @ \cup {fresh}]
         [] OTHER -> [acc EXCEPT !.err = TRUE]

(* Mutant: the freed page stays in the page table.                         *)
dealloc_page_mapped(acc, page) ==
    LET frame == acc.proc.table[page].frame
    IN CASE acc.err \/ frame = NoFrame -> acc
         [] ~acc.err /\ frame \in acc.proc.dynamic ->
                [acc EXCEPT !.free = @ \cup {frame}, !.proc.dynamic = @ \ {frame}]
         [] OTHER -> [acc EXCEPT !.err = TRUE]

dealloc_page(acc, page) ==
    LET frame == acc.proc.table[page].frame
    IN CASE acc.err \/ frame = NoFrame -> acc
         [] ~acc.err /\ frame \in acc.proc.dynamic ->
                [acc EXCEPT !.free = @ \cup {frame},
                            !.proc.table[page] = Unmapped,
                            !.proc.dynamic = @ \ {frame}]
         [] OTHER -> [acc EXCEPT !.err = TRUE]

Pass(p) == [free |-> free_frames, proc |-> process[p], err |-> FALSE]

memory_alloc(p, pages, writable) ==
    FoldLeft(LAMBDA acc, page : alloc_page(acc, page, writable), Pass(p),
             SetToSortSeq(pages, <))

memory_dealloc(p, pages) ==
    FoldLeft(dealloc_page, Pass(p), SetToSortSeq(pages, <))

Apply(p, acc) ==
    /\ free_frames' = acc.free
    /\ process' = [process EXCEPT ![p] = acc.proc]

mem_alloc(p, pages, writable) ==
    /\ Idle /\ p \in Alive
    /\ Apply(p, memory_alloc(p, pages, writable))
    /\ UNCHANGED <<page_tables, stacks, PAGE_MAP, tlb, call, heap, virtVars>>

mem_dealloc(p, pages) ==
    /\ Idle /\ p \in Alive
    /\ Apply(p, memory_dealloc(p, pages))
    /\ UNCHANGED <<page_tables, stacks, PAGE_MAP, tlb, call, heap, virtVars>>

(***************************************************************************)
(* mmap_physical maps the frames from phys_addr to phys_addr + len, the    *)
(* last one included, whatever was mapped there before.  The drivers map   *)
(* the first frame, with the screen and the DMA buffers.                   *)
(***************************************************************************)
mmap_physical(p, page, len) ==
    LET n == (len \div PageUnits) + 1
    IN /\ Idle /\ p \in Alive
       /\ page..page + n - 1 \subseteq UserPages
       /\ process' = [process EXCEPT ![p].table = [q \in UserPages |->
              IF q \in page..page + n - 1 THEN Mapped(q - page, TRUE) ELSE @[q]]]
       /\ UNCHANGED <<free_frames, page_tables, stacks, PAGE_MAP, tlb, call, heap, virtVars>>

(***************************************************************************)
(* BlockAllocator of libd7: linear, never frees.  When the capacity is     *)
(* exceeded it asks for as much again and for what is missing, in whole    *)
(* pages; when the kernel refuses, the sizes stay as they are.             *)
(***************************************************************************)
RoundUp(n) == ((n + PageUnits - 1) \div PageUnits) * PageUnits

block_allocate(p, size) ==
    LET ba == heap[p]
        available == ba.capacity_bytes - ba.used_bytes
        more == IF available < size THEN RoundUp(ba.capacity_bytes + size - available) ELSE 0
        first == Min(HeapPages) + (ba.capacity_bytes \div PageUnits)
        pages == first..first + (more \div PageUnits) - 1
        acc == memory_alloc(p, pages, TRUE)
    IN /\ Idle /\ p \in Alive
       /\ pages \subseteq HeapPages
       /\ Apply(p, acc)
       /\ heap' = IF acc.err THEN heap
                  ELSE [heap EXCEPT ![p] = [used_bytes |-> ba.used_bytes + size,
                                            capacity_bytes |-> ba.capacity_bytes + more]]
       /\ UNCHANGED <<page_tables, stacks, PAGE_MAP, tlb, call, virtVars>>

(***************************************************************************)
(* memory_slice, memory_slice_mut: the pages of the caller that hold the   *)
(* argument are mapped one by one into a new area of the kernel.  A page   *)
(* that is not mapped ends the process; the area is dropped, the entries   *)
(* written so far stay.  No entry is flushed from the TLB.                 *)
(***************************************************************************)
slice_entries(frame, good, start) ==
    [k \in DOMAIN PAGE_MAP |-> IF k - start \in good THEN frame[k - start] ELSE PAGE_MAP[k]]

memory_slice(p, first, n) ==
    LET frame == [i \in 0..n - 1 |-> process[p].table[first + i].frame]
        good == {i \in 0..n - 1 : \A j \in 0..i : frame[j] # NoFrame}
        start == NewArea(n).start
    IN /\ Fitting(n) # {}
       /\ first..first + n - 1 \subseteq UserPages
       /\ PAGE_MAP' = slice_entries(frame, good, start)
       /\ IF good = 0..n - 1
          THEN virt_allocate(n) /\ UNCHANGED <<free_frames, process>>
          ELSE /\ free_list' = virt_freed(virt_taken(n), NewArea(n))
               /\ drop_process(p)
               /\ UNCHANGED areas

Slice(p, kind, nth, first, n) ==
    IF process'[p] = NoProcess THEN NoCall
    ELSE [pid |-> p, kind |-> kind, nth |-> nth, first |-> first, area |-> NewArea(n),
          state |-> "mapped"]

(* Calls by the slices they take: one (print, subscribe, receive, select,  *)
(* log), two (publish, deliver, reply), and exec, which starts a process   *)
(* while it holds the second.                                              *)
Slices(kind) == IF kind = "one" THEN 1 ELSE 2

(* The entry to the kernel and the return from it load a page table, which *)
(* empties the TLB.                                                        *)
BeginCall(p, kind, first, n) ==
    /\ Idle /\ p \in Alive
    /\ memory_slice(p, first, n)
    /\ call' = Slice(p, kind, 1, first, n)
    /\ UNCHANGED <<page_tables, stacks, tlb, heap>>

NextSlice(first, n) ==
    /\ ~Idle /\ call.state = "dropped"
    /\ memory_slice(call.pid, first, n)
    /\ call' = Slice(call.pid, call.kind, call.nth + 1, first, n)
    /\ tlb' = IF call' = NoCall THEN EmptyTlb ELSE tlb
    /\ UNCHANGED <<page_tables, stacks, heap>>

(* The kernel reads or writes the slice: pages that are not in the TLB are *)
(* looked up in PAGE_MAP.                                                  *)
UseSlice(child) ==
    /\ ~Idle /\ call.state = "mapped"
    /\ tlb' = [k \in DOMAIN tlb |-> IF k \in page_starts(call.area) /\ tlb[k] = NoFrame
                                    THEN PAGE_MAP[k] ELSE tlb[k]]
    /\ call' = [call EXCEPT !.state = "used"]
    /\ IF call.kind = "exec" /\ call.nth = 2 THEN child \notin Alive /\ spawn(child)
       ELSE child = call.pid /\ UNCHANGED <<free_frames, process, page_tables, heap>>
    /\ UNCHANGED <<stacks, PAGE_MAP, virtVars>>

DropSlice ==
    /\ ~Idle /\ call.state = "used"
    /\ virt_free(call.area)
    /\ call' = IF call.nth = Slices(call.kind) THEN NoCall
               ELSE [call EXCEPT !.state = "dropped"]
    /\ tlb' = IF call' = NoCall THEN EmptyTlb ELSE tlb
    /\ UNCHANGED <<free_frames, process, page_tables, stacks, PAGE_MAP, heap>>

(***************************************************************************)
(* alloc_stack: an area with a guard page below the stack, a frame mapped  *)
(* to every other page of it and the TLB flushed.  The area goes out of    *)
(* scope, and is freed, when the function returns.                         *)
(***************************************************************************)
alloc_stack(n) ==
    LET area == NewArea(n + 1)
        pages == area.start + 1..area.end - 1
        frames == CHOOSE s \in kSubset(n, free_frames) :
                      \A f \in s, g \in free_frames \ s : f < g
    IN /\ Idle /\ Cardinality(stacks) < MaxStacks
       /\ Fitting(n + 1) # {} /\ Cardinality(free_frames) >= n
       /\ free_frames' = free_frames \ frames
       /\ PAGE_MAP' = [k \in DOMAIN PAGE_MAP |->
              IF k \in pages THEN Backing(pages, frames, k) ELSE PAGE_MAP[k]]
       /\ tlb' = EmptyTlb
       /\ stacks' = stacks \cup {[k \in pages |-> Backing(pages, frames, k)]}
       /\ free_list' = virt_freed(virt_taken(n + 1), area)
       /\ UNCHANGED <<areas, process, page_tables, call, heap>>

Ranges(pages) == {s \in SUBSET pages : s # {} /\ s = Min(s)..Max(s)}

MemoryNext ==
    \/ \E p \in Pids : spawn_first(p) \/ terminate(p)
    \/ \E p \in Pids, pages \in Ranges(RawPages), w \in BOOLEAN : mem_alloc(p, pages, w)
    \/ \E p \in Pids, pages \in Ranges(RawPages) : mem_dealloc(p, pages)
    \/ \E p \in Pids, page \in DevicePages, len \in DeviceLengths : mmap_physical(p, page, len)
    \/ \E p \in Pids, size \in Requests : block_allocate(p, size)
    \/ \E p \in Pids, kind \in {"one", "two", "exec"}, a \in Arguments :
            BeginCall(p, kind, a[1], a[2])
    \/ \E a \in Arguments : NextSlice(a[1], a[2])
    \/ \E child \in Pids : UseSlice(child)
    \/ DropSlice
    \/ alloc_stack(1)

MemorySpec == MemoryInit /\ [][MemoryNext]_<<memoryVars, virtVars>>
----------------------------------------------------------------------------
OwnedBy(p) == process[p].stack \cup process[p].image \cup process[p].dynamic
StackFrames == UNION {{s[k] : k \in DOMAIN s} : s \in stacks}

(***************************************************************************)
(* Every frame of the physical allocator has one owner: it is free, or     *)
(* backs one page table, one kernel stack or one process.  No frame is     *)
(* freed twice or lost when a call fails half-way or a process ends, but   *)
(* for the frames of page tables.                                          *)
(***************************************************************************)
FramesAccounted ==
    LET owners == <<free_frames, page_tables, StackFrames>>
                  \o [i \in 1..Cardinality(Alive) |-> OwnedBy(SetToSortSeq(Alive, <)[i])]
    IN /\ \A i, j \in DOMAIN owners : i # j => owners[i] \cap owners[j] = {}
       /\ UNION Range(owners) = Frames
       /\ \A p \in Alive : process[p].stack \cap process[p].dynamic = {}
                           /\ process[p].image \cap (process[p].stack \cup process[p].dynamic) = {}

(***************************************************************************)
(* All of the heap that libd7 believes it has is mapped, writable and owned *)
(* by the process, also after requests that the kernel refused half-way.   *)
(***************************************************************************)
HeapBacked ==
    \A p \in Alive :
        /\ heap[p].used_bytes <= heap[p].capacity_bytes
        /\ \A i \in 0..(heap[p].capacity_bytes \div PageUnits) - 1 :
              LET entry == process[p].table[Min(HeapPages) + i]
              IN entry.writable /\ entry.frame \in process[p].dynamic

(***************************************************************************)
(* While a slice is held the kernel's page table maps it to the memory of  *)
(* the caller.                                                             *)
(***************************************************************************)
SliceMapped ==
    ~Idle /\ call.state \in {"mapped", "used"} =>
        \A k \in page_starts(call.area) :
            PAGE_MAP[k] = process[call.pid].table[call.first + k - call.area.start].frame

(***************************************************************************)
(* What is mapped for a process is its own: a page of a process is backed  *)
(* by memory of that process or by low memory and never by a frame that    *)
(* was freed or given to somebody else, its heap is there, and the kernel  *)
(* sees it through the slices of its calls.                                *)
(***************************************************************************)
MappedIsOwned ==
    /\ \A p \in Alive : \A page \in UserPages :
           process[p].table[page].frame \in OwnedBy(p) \cup LowFrames \cup {NoFrame}
    /\ HeapBacked
    /\ SliceMapped

(***************************************************************************)
(* What the kernel reads through a slice is the memory that the caller     *)
(* passed: the doc of memory_slice.                                        *)
(***************************************************************************)
SliceReadsCaller ==
    ~Idle /\ call.state = "used" =>
        \A k \in page_starts(call.area) :
            tlb[k] = process[call.pid].table[call.first + k - call.area.start].frame

(***************************************************************************)
(* The pages of a kernel stack keep their frames: "The stacks allocated by *)
(* this can never be deallocated."                                         *)
(***************************************************************************)
StacksKept == \A s \in stacks : \A k \in DOMAIN s : PAGE_MAP[k] = s[k]
=============================================================================
