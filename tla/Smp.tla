--------------------------------- MODULE Smp ---------------------------------
(***************************************************************************)
(* Starting the other processor cores (src/src/smp/mod.rs): the boot core  *)
(* hands each one a stack through AP_FREE_STACK, and counts those that are *)
(* ready.  start_all is written but not called by rust_main yet.           *)
(***************************************************************************)
EXTENDS Integers, Sequences, FiniteSets

CONSTANTS
    Cores,      \* number of cores besides the boot core
    MaxPolls,   \* turns of the loop that waits for a core
    StackTops   \* addresses alloc_stack may return

ASSUME SmpAssumption == Cores \in Nat /\ MaxPolls \in Nat \ {0} /\ 0 \notin StackTops

VARIABLES
    bsp_pc,         \* "start", "wakeup", "poll", "wait", "done" or "panic"
    starting,       \* core start_one is called for
    polls,
    AP_FREE_STACK,  \* 0, or the address of a stack
    AP_READY_COUNT,
    offered,        \* core -> the stack start_one allocated for it, or 0
    ap_pc,          \* core -> "off", "startup", "main", "ready" or "panic"
    ap_stack,       \* core -> the stack it runs on, or 0
    ap_call         \* core -> the core start_one was called for when it took its stack

smpVars == <<bsp_pc, starting, polls, AP_FREE_STACK, AP_READY_COUNT, offered, ap_pc, ap_stack, ap_call>>

SmpInit ==
    /\ bsp_pc = "start" /\ starting = 1 /\ polls = 0
    /\ AP_FREE_STACK = 0 /\ AP_READY_COUNT = 0
    /\ offered = [c \in 1..Cores |-> 0] /\ ap_pc = [c \in 1..Cores |-> "off"]
    /\ ap_stack = [c \in 1..Cores |-> 0] /\ ap_call = [c \in 1..Cores |-> 0]

(***************************************************************************)
(* The loop of start_all up to the wakeup: the assertion on AP_FREE_STACK, *)
(* alloc_stack and the store.  alloc_stack releases the addresses when it  *)
(* returns (see ProcessMemory), so it may return those of an earlier core. *)
(***************************************************************************)
set_up_stack ==
    /\ bsp_pc = "start"
    /\ \/ starting > Cores /\ bsp_pc' = "wait" /\ UNCHANGED <<AP_FREE_STACK, offered>>
       \/ starting <= Cores /\ AP_FREE_STACK # 0 /\ bsp_pc' = "panic" /\ UNCHANGED <<AP_FREE_STACK, offered>>
       \/ /\ starting <= Cores /\ AP_FREE_STACK = 0
          /\ bsp_pc' = "wakeup" /\ AP_FREE_STACK' \in StackTops
          /\ offered' = [offered EXCEPT ![starting] = AP_FREE_STACK']
    /\ UNCHANGED <<starting, polls, AP_READY_COUNT, ap_pc, ap_stack, ap_call>>

(* apic_wakeup_processor.                                                  *)
apic_wakeup_processor ==
    /\ bsp_pc = "wakeup" /\ bsp_pc' = "poll" /\ polls' = 0
    /\ ap_pc' = [ap_pc EXCEPT ![starting] = "startup"]
    /\ UNCHANGED <<starting, AP_FREE_STACK, AP_READY_COUNT, offered, ap_stack, ap_call>>

(* Mutant: the next core is started without waiting for this one.          *)
poll_once ==
    /\ bsp_pc = "poll" /\ bsp_pc' = "start" /\ starting' = starting + 1
    /\ UNCHANGED <<polls, AP_FREE_STACK, AP_READY_COUNT, offered, ap_pc, ap_stack, ap_call>>

poll ==
    /\ bsp_pc = "poll"
    /\ IF AP_FREE_STACK = 0
       THEN bsp_pc' = "start" /\ starting' = starting + 1 /\ UNCHANGED polls
       ELSE /\ polls' = polls + 1 /\ UNCHANGED starting
            /\ bsp_pc' = IF polls' = MaxPolls THEN "panic" ELSE "poll"
    /\ UNCHANGED <<AP_FREE_STACK, AP_READY_COUNT, offered, ap_pc, ap_stack, ap_call>>

wait_ready ==
    /\ bsp_pc = "wait" /\ AP_READY_COUNT >= Cores /\ bsp_pc' = "done"
    /\ UNCHANGED <<starting, polls, AP_FREE_STACK, AP_READY_COUNT, offered, ap_pc, ap_stack, ap_call>>

(* rust_ap_get_stack: the swap and the assertion after it.                 *)
ap_take_stack(c) ==
    /\ ap_pc[c] = "startup"
    /\ ap_stack' = [ap_stack EXCEPT ![c] = AP_FREE_STACK] /\ AP_FREE_STACK' = 0
    /\ ap_pc' = [ap_pc EXCEPT ![c] = IF AP_FREE_STACK = 0 THEN "panic" ELSE "main"]
    /\ ap_call' = [ap_call EXCEPT ![c] = starting]
    /\ UNCHANGED <<bsp_pc, starting, polls, AP_READY_COUNT, offered>>

(* rust_ap_main up to ap_mark_ready.                                       *)
ap_mark_ready(c) ==
    /\ ap_pc[c] = "main" /\ ap_pc' = [ap_pc EXCEPT ![c] = "ready"]
    /\ AP_READY_COUNT' = AP_READY_COUNT + 1
    /\ UNCHANGED <<bsp_pc, starting, polls, AP_FREE_STACK, offered, ap_stack, ap_call>>

Bsp == set_up_stack \/ apic_wakeup_processor \/ poll \/ wait_ready

SmpNext == Bsp \/ \E c \in 1..Cores : ap_take_stack(c) \/ ap_mark_ready(c)

SmpSpec == SmpInit /\ [][SmpNext]_smpVars
----------------------------------------------------------------------------
(***************************************************************************)
(* Every core takes the stack that the call of start_one for this core has *)
(* stored, during that call: a slow core never takes the one of the next,  *)
(* and the assertions of ap_take_stack and start_one never fail, however   *)
(* the cores interleave; the boot core panics only when its wait has timed *)
(* out, and when start_all returns, every core has finished its            *)
(* initialization.  Whether the memory behind the address stays the core's *)
(* own is the question of StacksKept, in ProcessMemory: it does not.       *)
(***************************************************************************)
StackHandover ==
    /\ \A c \in 1..Cores :
         /\ ap_pc[c] # "panic"
         /\ ap_pc[c] \in {"main", "ready"} => ap_call[c] = c /\ ap_stack[c] = offered[c]
    /\ bsp_pc = "panic" => polls = MaxPolls
    /\ bsp_pc = "done" => \A c \in 1..Cores : ap_pc[c] = "ready"
=============================================================================
