----------------------------- MODULE KernelHeap -----------------------------
(***************************************************************************)
(* The kernel's heap (src/src/memory/rust_heap.rs): pages cut into slots   *)
(* of one size (BlockLLAllocator, external), kept in an AllocationSet      *)
(* (src/src/memory/phys/list.rs), a linked list of pages that each hold a  *)
(* bounded number of them; large requests go to the physical allocator.    *)
(* Sizes count units of MIN_ALLOC.                                         *)
(***************************************************************************)
EXTENDS Naturals, FiniteSets, Sequences, SequencesExt, FiniteSetsExt, Functions, Bags

CONSTANTS
    PageSize,    \* units in a page
    MIN_BUDDY,   \* requests of this size get pages of their own
    Capacity,    \* allocators that fit in one page of the AllocationSet
    HeapFrames,  \* pages of the physical allocator
    Sizes        \* sizes of requests

ASSUME HeapAssumption ==
    /\ Capacity \in Nat \ {0} /\ HeapFrames \subseteq Nat
    /\ \A s \in Sizes : s \in 1..PageSize /\ MIN_BUDDY <= PageSize

VARIABLES
    set,          \* AllocationSet: pages from the head, each a sequence of allocators
    set_frames,   \* frames of the pages of the set
    heap_free,    \* frames the physical allocator has left
    objects       \* bag of the live objects of the kernel

heapVars == <<set, set_frames, heap_free, objects>>

HeapInit ==
    /\ set = <<>> /\ set_frames = {}
    /\ heap_free = HeapFrames
    /\ objects = EmptyBag

next_power_of_two(n) == Min({p \in {1, 2, 4, 8, 16} : p >= n})

(* BlockLLAllocator: a page, its slot size and the slots in use.           *)
new_block_ll(frame, size) == [frame |-> frame, item_size |-> size, used |-> {}]
is_full(b) == Cardinality(b.used) = PageSize \div b.item_size
free_slot(b) == Min({i \in 0..(PageSize \div b.item_size) - 1 : i \notin b.used})

Places == {<<i, j>> \in (DOMAIN set) \X (0..Capacity) : j \in DOMAIN set[i]}
Before(p, q) == p[1] < q[1] \/ (p[1] = q[1] /\ p[2] < q[2])
At(p) == set[p[1]][p[2]]

(* The places iterate_mut_first stops at: the first that satisfies a test. *)
iterate_mut_first(found) == {p \in found : \A q \in found : ~Before(q, p)}

(* try_push: the first page of the list with a place left.                 *)
try_push(list) == {i \in DOMAIN list : Len(list[i]) < Capacity}

(* Mutant: the new page is not linked to the ones before it.               *)
push_unlinked(value) ==
    LET frame == Min(heap_free \ {value.frame})
        room == try_push(set)
    IN /\ room # {} \/ heap_free \ {value.frame} # {}
       /\ set' = IF room # {} THEN [set EXCEPT ![Min(room)] = Append(@, value)] ELSE <<<<value>>>>
       /\ set_frames' = IF room # {} THEN set_frames ELSE set_frames \cup {frame}
       /\ heap_free' = heap_free \ IF room # {} THEN {value.frame} ELSE {value.frame, frame}

(* push: into that page, or into a new page at the head of the list.       *)
push(value) ==
    IF try_push(set) # {}
    THEN /\ set' = [set EXCEPT ![Min(try_push(set))] = Append(@, value)]
         /\ heap_free' = heap_free \ {value.frame}
         /\ UNCHANGED set_frames
    ELSE LET frame == Min(heap_free \ {value.frame})
         IN /\ heap_free \ {value.frame} # {}
            /\ set' = <<<<value>>>> \o set
            /\ set_frames' = set_frames \cup {frame}
            /\ heap_free' = heap_free \ {value.frame, frame}

(***************************************************************************)
(* SmallAlloc::allocate: the first allocator of the rounded size with a    *)
(* free slot, else a new one on a new page.                                *)
(***************************************************************************)
small_allocate(req) ==
    LET size == next_power_of_two(req)
        found == iterate_mut_first({p \in Places : At(p).item_size = size /\ ~is_full(At(p))})
        place == CHOOSE p \in found : TRUE
        slot == free_slot(At(place))
        new == new_block_ll(Min(heap_free), size)
    IN IF found # {}
       THEN /\ set' = [set EXCEPT ![place[1]][place[2]].used = @ \cup {slot}]
            /\ objects' = objects (+) SetToBag({[req |-> req, frame |-> At(place).frame,
                                                 first |-> slot * size]})
            /\ UNCHANGED <<set_frames, heap_free>>
       ELSE /\ heap_free # {}
            /\ push([new EXCEPT !.used = {free_slot(new)}])
            /\ objects' = objects (+) SetToBag({[req |-> req, frame |-> new.frame, first |-> 0]})

(***************************************************************************)
(* SmallAlloc::deallocate looks for an allocator whose slot size is the    *)
(* size asked for, not rounded, and does nothing when there is none.       *)
(***************************************************************************)
small_deallocate(object) ==
    LET found == iterate_mut_first({p \in Places : /\ At(p).item_size = object.req
                                                   /\ At(p).frame = object.frame})
    IN set' = [i \in DOMAIN set |-> [j \in DOMAIN set[i] |->
                  IF <<i, j>> \in found
                  THEN [set[i][j] EXCEPT !.used = @ \ {object.first \div object.req}]
                  ELSE set[i][j]]]

(* GlobAlloc::alloc and dealloc.                                           *)
heap_alloc(req) ==
    IF req >= MIN_BUDDY
    THEN /\ heap_free # {}
         /\ heap_free' = heap_free \ {Min(heap_free)}
         /\ objects' = objects (+) SetToBag({[req |-> req, frame |-> Min(heap_free), first |-> 0]})
         /\ UNCHANGED <<set, set_frames>>
    ELSE small_allocate(req)

heap_dealloc(object) ==
    /\ objects' = objects (-) SetToBag({object})
    /\ IF object.req >= MIN_BUDDY
       THEN heap_free' = heap_free \cup {object.frame} /\ UNCHANGED <<set, set_frames>>
       ELSE small_deallocate(object) /\ UNCHANGED <<set_frames, heap_free>>

HeapNext ==
    \/ \E req \in Sizes : heap_alloc(req)
    \/ \E object \in BagToSet(objects) : heap_dealloc(object)

HeapSpec == HeapInit /\ [][HeapNext]_heapVars
----------------------------------------------------------------------------
Units(object) == object.first..object.first + object.req - 1
UsedSlots(p) == {[frame |-> At(p).frame, first |-> i * At(p).item_size] : i \in At(p).used}

(***************************************************************************)
(* Two live objects of the kernel never share memory.                      *)
(***************************************************************************)
ObjectsDisjoint ==
    /\ \A a \in BagToSet(objects) : CopiesIn(a, objects) = 1
    /\ \A a, b \in BagToSet(objects) : a # b /\ a.frame = b.frame => Units(a) \cap Units(b) = {}

(***************************************************************************)
(* The list of pages loses no allocator, and an object whose size is a     *)
(* power of two gives its slot back: every live small object has its slot, *)
(* every used slot of the sizes that cannot leak belongs to a live object, *)
(* and every frame is free, a page of the set, an allocator's or an        *)
(* object's.                                                               *)
(***************************************************************************)
SlotsAccounted ==
    LET small == {[frame |-> o.frame, first |-> o.first] : o \in {o \in BagToSet(objects) : o.req < MIN_BUDDY}}
        used == UNION {UsedSlots(p) : p \in Places}
        exact == {p \in Places : \A s \in Sizes :
                      s < MIN_BUDDY /\ next_power_of_two(s) = At(p).item_size => s = At(p).item_size}
    IN /\ small \subseteq used
       /\ UNION {UsedSlots(p) : p \in exact} \subseteq small
       /\ HeapFrames = heap_free \cup set_frames \cup {At(p).frame : p \in Places}
                       \cup {o.frame : o \in BagToSet(objects)}
       /\ \A p, q \in Places : p # q => At(p).frame # At(q).frame
       /\ Cardinality(set_frames) = Len(set)

(***************************************************************************)
(* The heap hands out memory once and finds again what is given back.      *)
(***************************************************************************)
HeapAccounted == ObjectsDisjoint /\ SlotsAccounted
=============================================================================
