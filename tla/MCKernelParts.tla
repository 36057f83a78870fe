--------------------------- MODULE MCKernelParts ---------------------------
(***************************************************************************)
(* Parts of the kernel on small instances: its memory, the list of         *)
(* subscriptions, the scheduler as it sleeps and wakes, and the start of   *)
(* the other cores.  They share no state: a behaviour runs one of them,    *)
(* chosen at the start.                                                    *)
(***************************************************************************)
EXTENDS ProcessMemory, PageMap, MemoryMap, KernelHeap, DmaAllocator, SubscriptionList,
        AbstractScheduler, Smp

CONSTANT e1

VARIABLE part

MCVars == <<part, memoryVars, virtVars, pageMapVars, mapVars, heapVars, dmaVars, list, absVars,
            smpVars>>

MCPages == {<<0, 0, 0>>, <<0, 0, 1>>, <<0, 1, 0>>, <<1, 0, 0>>, <<1, 1, 1>>}
MCTablePage == <<0, 0, 1>>
MCArguments == {<<2, 1>>, <<4, 2>>}
MCEvents == {e1}
MCWaits == {WaitForNone, WaitForTime(0), WaitForTime(2), WaitForEvent(e1),
            [times |-> {1}, processes |-> {}, events |-> {e1}]}

MCInit ==
    /\ part \in {"virt", "process", "pages", "map", "heap", "dma", "list", "sleep", "smp"}
    /\ MemoryInit /\ PageMapInit /\ MapInit /\ HeapInit /\ DmaInit /\ ListInit /\ AbsInit /\ SmpInit

Others(p) ==
    /\ part = p /\ UNCHANGED part
    /\ p \notin {"virt", "process"} => UNCHANGED virtVars
    /\ p # "process" => UNCHANGED memoryVars
    /\ p # "pages" => UNCHANGED pageMapVars
    /\ p # "map" => UNCHANGED mapVars
    /\ p # "heap" => UNCHANGED heapVars
    /\ p # "dma" => UNCHANGED dmaVars
    /\ p # "list" => UNCHANGED list
    /\ p # "sleep" => UNCHANGED absVars
    /\ p # "smp" => UNCHANGED smpVars

MCNext ==
    \/ Others("virt") /\ VirtNext
    \/ Others("process") /\ MemoryNext
    \/ Others("pages") /\ PageMapNext
    \/ Others("map") /\ MapNext
    \/ Others("heap") /\ HeapNext
    \/ Others("dma") /\ DmaNext
    \/ Others("list") /\ ListNext
    \/ Others("sleep") /\ AbsNext
    \/ Others("smp") /\ SmpNext

MCSpec ==
    /\ MCInit /\ [][MCNext]_MCVars
    /\ WF_MCVars(Others("sleep") /\ AbsTick)
    /\ SF_MCVars(Others("sleep") /\ AbsElapse)
----------------------------------------------------------------------------
(***************************************************************************)
(* The allocators of the kernel hand out memory once: the heap (SmallAlloc *)
(* and AllocationSet) and the DMA area.                                    *)
(***************************************************************************)
AllocatorsExclusive == HeapAccounted /\ DmaRegions
=============================================================================
