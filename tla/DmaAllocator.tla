---------------------------- MODULE DmaAllocator ----------------------------
(***************************************************************************)
(* The allocator of low memory for device buffers                          *)
(* (src/src/memory/allocators/dma_allocator.rs) behind the dma_allocate    *)
(* and dma_free system calls.  A block is the unit of size.                *)
(***************************************************************************)
EXTENDS Naturals, FiniteSets, FiniteSetsExt

CONSTANTS
    DMA_BLOCKS,     \* blocks of DMA memory
    BlockBytes,     \* DMA_BLOCK_SIZE
    MaxDma          \* largest request, in bytes

ASSUME DmaAssumption == DMA_BLOCKS \in Nat \ {0} /\ BlockBytes \in Nat \ {0} /\ MaxDma \in Nat

VARIABLES
    blocks,     \* the state of each block
    regions,    \* regions handed out
    dma_panic   \* the request allocate panicked on, or 0

dmaVars == <<blocks, regions, dma_panic>>

DmaInit == blocks = [b \in 0..DMA_BLOCKS - 1 |-> "Free"] /\ regions = {} /\ dma_panic = 0

round_up_block(s) == (s + (BlockBytes - 1)) \div BlockBytes

(* The starts the loop of allocate accepts: it never tries the last one.   *)
free_runs(n) ==
    {start \in 0..DMA_BLOCKS : /\ start < DMA_BLOCKS - n
                               /\ \A offset \in 0..n - 1 : blocks[start + offset] = "Free"}

(***************************************************************************)
(* The dma_allocate call (dma_free is ignored: nothing is given back).     *)
(***************************************************************************)
dma_allocate(len) ==
    LET n == round_up_block(len)
        start == Min(free_runs(n))
    IN /\ dma_panic = 0
       /\ IF n > DMA_BLOCKS \/ free_runs(n) = {}
          THEN dma_panic' = len /\ UNCHANGED <<blocks, regions>>
          ELSE /\ blocks' = [b \in DOMAIN blocks |->
                                IF b \in start..start + n - 1 THEN "Used" ELSE blocks[b]]
               /\ regions' = regions \cup {[start |-> start, len |-> len]}
               /\ UNCHANGED dma_panic

DmaNext == \E len \in 1..MaxDma : dma_allocate(len)

DmaSpec == DmaInit /\ [][DmaNext]_dmaVars
----------------------------------------------------------------------------
Bytes(r) == (r.start * BlockBytes)..(r.start * BlockBytes + r.len - 1)

(***************************************************************************)
(* No byte of DMA memory belongs to two regions or lies outside it, and    *)
(* allocate gives up only when the bytes left, one block of them apart,    *)
(* could not hold the request.                                             *)
(***************************************************************************)
DmaRegions ==
    /\ \A r \in regions : Bytes(r) \subseteq 0..(DMA_BLOCKS * BlockBytes - 1)
    /\ \A r, q \in regions : r # q => Bytes(r) \cap Bytes(q) = {}
    /\ dma_panic # 0 =>
           dma_panic + BlockBytes > BlockBytes * Cardinality({b \in DOMAIN blocks : blocks[b] = "Free"})
=============================================================================
