-------------------------- MODULE AllocatorProofs ---------------------------
(***************************************************************************)
(* The allocators of the kernel: the free list of address ranges and the   *)
(* DMA memory.  Each part extends one specification and uses nothing of    *)
(* the other.                                                              *)
(***************************************************************************)
EXTENDS VirtAllocator, DmaAllocator, SequenceTheorems, FiniteSetTheorems, WellFoundedInduction,
        TLAPS

-----------------------------------------------------------------------------
(***************************************************************************)
(* The free list of the kernel's address ranges, for an address space and  *)
(* requests of any size: every page is in one block or in one live area.   *)
(* The pages are counted one by one in the invariant, and the blocks are   *)
(* kept sorted, which is what the search in free needs.                    *)
(***************************************************************************)

IsBlock(b) == b \in Block /\ b.start < b.end
In(b, p) == b.start <= p /\ p < b.end

IsFreeList(l) ==
    /\ l \in Seq(Block)
    /\ \A i \in 1..Len(l) : IsBlock(l[i])
    /\ \A i, j \in 1..Len(l) : i < j => l[i].end <= l[j].start

Free(l, p) == \E i \in 1..Len(l) : In(l[i], p)
Used(A, p) == \E a \in A : In(a, p)

(* Blocks and areas share the pages.                                       *)
Partition(l, A) ==
    /\ \A a \in A : IsBlock(a)
    /\ \A p \in 0..SIZE - 1 : Free(l, p) \/ Used(A, p)
    /\ \A p \in 0..SIZE - 1 : ~(Free(l, p) /\ Used(A, p))
    /\ \A a, b \in A : a # b => a.end <= b.start \/ b.end <= a.start

VirtIInv == IsFreeList(free_list) /\ Partition(free_list, areas)
----------------------------------------------------------------------------
(***************************************************************************)
(* What removing and inserting an element make of a sequence.              *)
(***************************************************************************)
LEMMA RemoveAtFacts ==
    ASSUME NEW S, NEW s \in Seq(S), NEW i \in 1..Len(s)
    PROVE  /\ RemoveAt(s, i) \in Seq(S)
           /\ Len(RemoveAt(s, i)) = Len(s) - 1
           /\ \A k \in 1..Len(s) - 1 : RemoveAt(s, i)[k] = IF k < i THEN s[k] ELSE s[k + 1]
<1> DEFINE a == SubSeq(s, 1, i - 1)
           b == SubSeq(s, i + 1, Len(s))
<1>1. Len(s) \in Nat /\ DOMAIN s = 1..Len(s)
  BY LenProperties, Zenon
<1>2. a \in Seq(S) /\ Len(a) = i - 1 /\ \A k \in 1..i - 1 : a[k] = s[k]
  BY <1>1, SMTT(30)
<1>3. b \in Seq(S) /\ Len(b) = Len(s) - i /\ \A k \in 1..Len(s) - i : b[k] = s[i + k]
  <2>1. \A k \in i + 1..Len(s) : s[k] \in S
    BY <1>1, SMTT(30)
  <2>2. /\ b \in Seq(S) /\ Len(b) = IF i + 1 <= Len(s) THEN Len(s) - (i + 1) + 1 ELSE 0
        /\ \A k \in 1..Len(s) - (i + 1) + 1 : b[k] = s[(i + 1) + k - 1]
    BY <1>1, <2>1, SubSeqProperties, SMTT(30)
  <2> HIDE DEF b
  <2>3. Len(b) = Len(s) - i
    <3>1. Len(b) = IF i + 1 <= Len(s) THEN Len(s) - (i + 1) + 1 ELSE 0
      BY <2>2, Zenon
    <3>2. Len(s) \in Nat /\ i \in Nat /\ i <= Len(s)
      BY <1>1, SMTT(30)
    <3>3. CASE i + 1 <= Len(s)
      BY <3>1, <3>2, <3>3, SMTT(30)
    <3>4. CASE ~(i + 1 <= Len(s))
      BY <3>1, <3>2, <3>4, SMTT(30)
    <3> QED BY <3>3, <3>4, Zenon
  <2>4. ASSUME NEW k \in 1..Len(s) - i PROVE b[k] = s[i + k]
    <3>1. k \in 1..Len(s) - (i + 1) + 1 /\ (i + 1) + k - 1 = i + k
      BY <1>1, SMTT(30)
    <3> QED BY <2>2, <3>1, Zenon
  <2> QED BY <2>2, <2>3, <2>4, Zenon
<1> HIDE DEF a, b
<1>4. /\ a \o b \in Seq(S) /\ Len(a \o b) = Len(a) + Len(b)
      /\ \A k \in 1..Len(a) + Len(b) : (a \o b)[k] = IF k <= Len(a) THEN a[k] ELSE b[k - Len(a)]
  BY <1>2, <1>3, ConcatProperties, Zenon
<1>5. RemoveAt(s, i) = a \o b
  BY Zenon DEF RemoveAt, a, b
<1>6. \A k \in i..Len(s) - 1 : b[k - (i - 1)] = s[k + 1]
  <2> SUFFICES ASSUME NEW k \in i..Len(s) - 1 PROVE b[k - (i - 1)] = s[k + 1]
    BY Zenon
  <2>1. k - (i - 1) \in 1..Len(s) - i /\ i + (k - (i - 1)) = k + 1
    BY <1>1, SMTT(30)
  <2> QED BY <1>3, <2>1, Zenon
<1>7. Len(a \o b) = Len(s) - 1
  BY <1>1, <1>2, <1>3, <1>4, SMTT(30)
<1>8. ASSUME NEW k \in 1..Len(s) - 1 PROVE (a \o b)[k] = IF k < i THEN s[k] ELSE s[k + 1]
  <2>1. CASE k < i
    BY <1>1, <1>2, <1>3, <1>4, <2>1, SMTT(30)
  <2>2. CASE k >= i
    <3>1. (a \o b)[k] = b[k - (i - 1)]
      BY <1>1, <1>2, <1>3, <1>4, <2>2, SMTT(30)
    <3>2. k \in i..Len(s) - 1 /\ ~(k < i)
      BY <1>1, <2>2, SMTT(30)
    <3> QED BY <1>6, <3>1, <3>2, Zenon
  <2>3. k < i \/ k >= i
    BY <1>1, SMTT(30)
  <2> QED BY <2>1, <2>2, <2>3, Zenon
<1> QED BY <1>4, <1>5, <1>7, <1>8, Zenon

(* t is s with e inserted at position i.                                   *)
HasInserted(t, S, s, i, e) ==
    /\ t \in Seq(S) /\ Len(t) = Len(s) + 1
    /\ \A k \in 1..Len(s) + 1 : t[k] = IF k < i THEN s[k] ELSE IF k = i THEN e ELSE s[k - 1]

LEMMA InsertAtFacts ==
    ASSUME NEW S, NEW s \in Seq(S), NEW i \in 1..Len(s) + 1, NEW e \in S
    PROVE  HasInserted(InsertAt(s, i, e), S, s, i, e)
<1> DEFINE a == SubSeq(s, 1, i - 1)
           b == SubSeq(s, i, Len(s))
           c == a \o <<e>>
<1>1. Len(s) \in Nat /\ DOMAIN s = 1..Len(s)
  BY LenProperties, Zenon
<1>2. a \in Seq(S) /\ Len(a) = i - 1 /\ \A k \in 1..i - 1 : a[k] = s[k]
  BY <1>1, SMTT(30)
<1>3. b \in Seq(S) /\ Len(b) = Len(s) - i + 1 /\ \A k \in 1..Len(s) - i + 1 : b[k] = s[i + k - 1]
  BY <1>1, SMTT(30)
<1> HIDE DEF a, b
<1>4. c \in Seq(S) /\ Len(c) = i /\ (\A k \in 1..i - 1 : c[k] = s[k]) /\ c[i] = e
  BY <1>1, <1>2, SMTT(30)
<1> HIDE DEF c
<1>5. /\ c \o b \in Seq(S) /\ Len(c \o b) = Len(c) + Len(b)
      /\ \A k \in 1..Len(c) + Len(b) : (c \o b)[k] = IF k <= Len(c) THEN c[k] ELSE b[k - Len(c)]
  BY <1>3, <1>4, ConcatProperties, Zenon
<1>6. InsertAt(s, i, e) = c \o b
  BY Zenon DEF InsertAt, a, b, c
<1>7. /\ c \o b \in Seq(S) /\ Len(c \o b) = Len(s) + 1
      /\ \A k \in 1..Len(s) + 1 : (c \o b)[k] = IF k < i THEN s[k] ELSE IF k = i THEN e ELSE s[k - 1]
  BY <1>1, <1>3, <1>4, <1>5, SMTT(30)
<1> QED BY <1>6, <1>7, Zenon DEF HasInserted

(***************************************************************************)
(* A nonempty set of naturals has a least element, which Min finds.        *)
(***************************************************************************)
LEMMA MinFacts ==
    ASSUME NEW T, T \subseteq Nat, T # {}
    PROVE  Min(T) \in T /\ \A u \in T : Min(T) <= u
<1>1. \E R : IsWellFoundedOn(R, Nat) /\ \A u, t \in Nat : <<u, t>> \in R <=> u < t
  <2>1. \A u, t \in Nat : <<u, t>> \in OpToRel(<, Nat) <=> u < t
    BY Zenon DEF OpToRel
  <2> QED BY <2>1, NatLessThanWellFounded, Zenon
<1>2. PICK R : IsWellFoundedOn(R, Nat) /\ \A u, t \in Nat : <<u, t>> \in R <=> u < t
  BY <1>1, Zenon
<1>3. IsWellFoundedOn(R, Nat)
  BY <1>2, Zenon
<1>4. \E t \in T : \A u \in T : ~(<<u, t>> \in R)
  BY ONLY <1>3, T \subseteq Nat, T # {}, WFMin, Zenon
<1>5. PICK t \in T : \A u \in T : ~(<<u, t>> \in R)
  BY <1>4, Zenon
<1>6. \A u \in T : ~(u < t)
  BY <1>2, <1>5, Zenon
<1>7. \A u \in T : t <= u
  BY ONLY <1>6, T \subseteq Nat, t \in T, SMTT(30)
<1> QED BY <1>7, Zenon DEF Min

(***************************************************************************)
(* The place that the binary search of free finds in a sorted list: behind *)
(* the blocks that start below the address.                                *)
(***************************************************************************)
LEMMA LowerBlocksFacts ==
    ASSUME NEW l, IsFreeList(l), NEW addr \in Nat
    PROVE  /\ LowerBlocks(l, addr) \in 0..Len(l)
           /\ \A i \in 1..Len(l) : l[i].start < addr <=> i <= LowerBlocks(l, addr)
<1> DEFINE n == Len(l)
           S == {i \in 1..n : l[i].start < addr}
           T == {i \in 1..n + 1 : i \notin S}
           m == Min(T)
<1>1. n \in Nat /\ DOMAIN l = 1..n
  BY LenProperties, Zenon DEF IsFreeList
<1>2. \A i \in 1..n : l[i].start \in Nat /\ l[i].end \in Nat /\ l[i].start < l[i].end
  BY VirtAssumption, SMTT(30) DEF IsFreeList, IsBlock, Block
<1>3. n + 1 \in T /\ T \subseteq Nat
  BY <1>1, SMTT(30)
<1>4. m \in T /\ \A u \in T : m <= u
  BY <1>3, MinFacts, Zenon
<1> HIDE DEF m
<1>5. m \in 1..n + 1 /\ m \notin S
  BY <1>4, Zenon
<1>6. \A i \in 1..n : i < m => i \in S
  BY <1>1, <1>4, <1>5, SMTT(30)
<1>7. \A i \in 1..n : i \in S => i < m
  <2> SUFFICES ASSUME NEW i \in 1..n, l[i].start < addr, ~(i < m) PROVE FALSE
    BY Zenon
  <2>1. i # m
    BY <1>5, Zenon
  <2>2. m \in 1..n /\ m < i
    BY <1>1, <1>5, <2>1, SMTT(30)
  <2>3. l[m].end <= l[i].start
    BY <2>2, Zenon DEF IsFreeList
  <2>4. l[m].start < addr
    BY <1>2, <2>2, <2>3, SMTT(30)
  <2> QED BY <1>5, <2>2, <2>4, Zenon
<1>8. S = 1..m - 1
  BY <1>1, <1>5, <1>6, <1>7, SMTT(30)
<1>9. Cardinality(1..m - 1) = m - 1
  <2>1. Cardinality(1..m - 1) = IF 1 > m - 1 THEN 0 ELSE (m - 1) - 1 + 1
    <3>1. 1 \in Int /\ m - 1 \in Int
      BY <1>1, <1>5, SMTT(30)
    <3> QED BY ONLY <3>1, FS_Interval, Zenon
  <2> QED BY <1>1, <1>5, <2>1, SMTT(30)
<1>10. LowerBlocks(l, addr) = m - 1
  BY <1>1, <1>8, <1>9, Zenon DEF LowerBlocks
<1> QED BY <1>1, <1>5, <1>6, <1>7, <1>10, SMTT(30)

(***************************************************************************)
(* A step that takes an area from the pages of the free list keeps the     *)
(* partition, and so does one that gives an area back.                     *)
(***************************************************************************)
LEMMA PartitionTaken ==
    ASSUME NEW l, NEW m, NEW A, Partition(l, A), NEW b, IsBlock(b),
           \A p \in 0..SIZE - 1 : Free(m, p) <=> Free(l, p) /\ ~In(b, p),
           \A p \in 0..SIZE - 1 : In(b, p) => Free(l, p)
    PROVE  Partition(m, A \cup {b})
<1>1. \A p : Used(A \cup {b}, p) <=> Used(A, p) \/ In(b, p)
  BY Zenon DEF Used
<1>2. ASSUME NEW a \in A PROVE a.end <= b.start \/ b.end <= a.start
  <2> DEFINE p == IF a.start <= b.start THEN b.start ELSE a.start
  <2>1. SUFFICES ASSUME a.end > b.start, b.end > a.start PROVE FALSE
    BY VirtAssumption, SMTT(30) DEF Partition, IsBlock, Block
  <2>2. p \in 0..SIZE - 1 /\ In(a, p) /\ In(b, p)
    BY <2>1, VirtAssumption, SMTT(30) DEF Partition, IsBlock, Block, In
  <2> QED BY <2>2, Zenon DEF Partition, Used
<1>3. \A a \in A \cup {b} : IsBlock(a)
  BY Zenon DEF Partition
<1>4. \A a, c \in A \cup {b} : a # c => a.end <= c.start \/ c.end <= a.start
  BY <1>2, Zenon DEF Partition
<1> QED BY <1>1, <1>3, <1>4, Zenon DEF Partition

LEMMA PartitionFreed ==
    ASSUME NEW l, NEW m, NEW A, Partition(l, A), NEW b \in A,
           \A p \in 0..SIZE - 1 : Free(m, p) <=> Free(l, p) \/ In(b, p)
    PROVE  Partition(m, A \ {b})
<1>1. ASSUME NEW p \in 0..SIZE - 1 PROVE Used(A, p) <=> Used(A \ {b}, p) \/ In(b, p)
  BY Zenon DEF Used
<1>2. ASSUME NEW p \in 0..SIZE - 1 PROVE ~(Used(A \ {b}, p) /\ In(b, p))
  <2> SUFFICES ASSUME NEW a \in A, a # b, In(a, p), In(b, p) PROVE FALSE
    BY Zenon DEF Used
  <2>1. a.end <= b.start \/ b.end <= a.start
    BY Zenon DEF Partition
  <2> QED BY <2>1, VirtAssumption, SMTT(30) DEF Partition, IsBlock, Block, In
<1>3. /\ \A a \in A \ {b} : IsBlock(a)
      /\ \A a, c \in A \ {b} : a # c => a.end <= c.start \/ c.end <= a.start
  BY Zenon DEF Partition
<1> QED BY <1>1, <1>2, <1>3, Zenon DEF Partition

(***************************************************************************)
(* The elements of a free list.                                            *)
(***************************************************************************)
LEMMA ListFacts ==
    ASSUME NEW l, IsFreeList(l)
    PROVE  /\ Len(l) \in Nat /\ DOMAIN l = 1..Len(l)
           /\ \A i \in 1..Len(l) :
                  /\ l[i] = [start |-> l[i].start, end |-> l[i].end]
                  /\ l[i].start \in 0..SIZE /\ l[i].end \in 0..SIZE /\ l[i].start < l[i].end
                  /\ l[i].start \in Nat /\ l[i].end \in Nat /\ l[i].start <= SIZE /\ l[i].end <= SIZE
<1>1. Len(l) \in Nat /\ DOMAIN l = 1..Len(l)
  BY LenProperties, Zenon DEF IsFreeList
<1> QED BY <1>1, VirtAssumption, SMTT(30) DEF IsFreeList, IsBlock, Block

(***************************************************************************)
(* allocate takes the pages of the new area, and no others, from the list. *)
(***************************************************************************)
LEMMA AllocateStep ==
    ASSUME VirtIInv, NEW n \in 1..MaxRequest, virt_allocate(n)
    PROVE  VirtIInv'
<1> DEFINE l == free_list
           i == FirstFit(n)
           b == NewArea(n)
           m == virt_taken(n)
<1>1. /\ Len(l) \in Nat /\ DOMAIN l = 1..Len(l) /\ n \in Nat /\ n > 0 /\ SIZE \in Nat
      /\ \A k \in 1..Len(l) :
             /\ l[k] = [start |-> l[k].start, end |-> l[k].end]
             /\ l[k].start \in 0..SIZE /\ l[k].end \in 0..SIZE /\ l[k].start < l[k].end
             /\ l[k].start \in Nat /\ l[k].end \in Nat
  BY ListFacts, VirtAssumption, SMTT(30) DEF VirtIInv
<1>0. /\ Len(l) \in Nat /\ n \in Nat /\ n > 0 /\ SIZE \in Nat
      /\ \A k \in 1..Len(l) : l[k].start \in Nat /\ l[k].end \in Nat /\ l[k].start < l[k].end
  BY <1>1, Zenon
<1>11. \A j, k \in 1..Len(l) : j < k => l[j].end <= l[k].start
  BY Zenon DEF VirtIInv, IsFreeList
<1>2. i \in 1..Len(l) /\ l[i].end - l[i].start >= n
  <2>1. Fitting(n) \subseteq Nat /\ Fitting(n) # {}
    BY <1>1, SMTT(30) DEF Fitting, virt_allocate
  <2>2. i \in Fitting(n)
    BY <2>1, MinFacts, Zenon DEF FirstFit
  <2> QED BY <1>1, <2>2, Zenon DEF Fitting, size_pages
<1>3. b = [start |-> l[i].start, end |-> l[i].start + n]
  BY Zenon DEF NewArea
<1>4. m = IF l[i].end - l[i].start = n THEN RemoveAt(l, i)
          ELSE [l EXCEPT ![i] = [start |-> l[i].start + n, end |-> l[i].end]]
  BY <1>1, <1>2, Zenon DEF virt_taken, size_pages
<1> HIDE DEF i, b, m
<1>5. IsBlock(b)
  BY <1>1, <1>2, <1>3, SMTT(30) DEF IsBlock, Block
<1>6. \A p \in Nat : In(b, p) => In(l[i], p)
  BY <1>1, <1>2, <1>3, SMTT(30) DEF In
<1>7. \A p \in 0..SIZE - 1 : In(b, p) => Free(l, p)
  BY <1>1, <1>2, <1>6, SMTT(30) DEF Free
<1>8. \A p \in Nat, k \in 1..Len(l) : k # i /\ In(l[k], p) => ~In(l[i], p)
  <2> SUFFICES ASSUME NEW p \in Nat, NEW k \in 1..Len(l), k # i, In(l[k], p), In(l[i], p)
               PROVE  FALSE
    BY Zenon
  <2>1. l[k].end <= l[i].start \/ l[i].end <= l[k].start
    <3>1. k < i \/ i < k
      BY <1>1, <1>2, SMTT(30)
    <3> QED BY <1>2, <3>1, Zenon DEF VirtIInv, IsFreeList
  <2> QED BY <1>1, <1>2, <2>1, SMTT(30) DEF In
<1>9. IsFreeList(m) /\ \A p \in 0..SIZE - 1 : Free(m, p) <=> Free(l, p) /\ ~In(b, p)
  <2>1. CASE l[i].end - l[i].start = n
    <3>1. /\ m \in Seq(Block) /\ Len(m) = Len(l) - 1
          /\ \A k \in 1..Len(l) - 1 : m[k] = IF k < i THEN l[k] ELSE l[k + 1]
      BY <1>2, <1>4, <2>1, RemoveAtFacts, Zenon DEF VirtIInv, IsFreeList
    <3>2. \A k \in 1..Len(m) : IsBlock(m[k])
      <4>1. Len(l) \in Nat /\ Len(m) = Len(l) - 1
        BY <1>1, <3>1, Zenon
      <4>2. \A k \in 1..Len(m) : k \in 1..Len(l) - 1 /\ k \in 1..Len(l) /\ k + 1 \in 1..Len(l)
        BY ONLY <4>1, SMTT(30)
      <4>3. \A j \in 1..Len(l) : IsBlock(l[j])
        BY Zenon DEF VirtIInv, IsFreeList
      <4> QED BY <3>1, <4>2, <4>3, Zenon
    <3>7. ASSUME NEW k \in 1..Len(m)
          PROVE  \E x \in 1..Len(l) : x # i /\ m[k] = l[x] /\ x = IF k < i THEN k ELSE k + 1
      <4>1. CASE k < i
        <5>1. k \in 1..Len(l) - 1 /\ k \in 1..Len(l) /\ k # i
          BY <1>0, <1>2, <3>1, <4>1, SMTT(30)
        <5>2. m[k] = l[k]
          BY <3>1, <4>1, <5>1, Zenon
        <5> QED BY <4>1, <5>1, <5>2, Zenon
      <4>2. CASE ~(k < i)
        <5>1. k \in 1..Len(l) - 1 /\ k + 1 \in 1..Len(l) /\ k + 1 # i
          BY <1>0, <1>2, <3>1, <4>2, SMTT(30)
        <5>2. m[k] = l[k + 1]
          BY <3>1, <4>2, <5>1, Zenon
        <5> QED BY <4>2, <5>1, <5>2, Zenon
      <4> QED BY <4>1, <4>2, Zenon
    <3>3. ASSUME NEW j \in 1..Len(m), NEW k \in 1..Len(m), j < k PROVE m[j].end <= m[k].start
      <4>1. PICK x \in 1..Len(l) : x # i /\ m[j] = l[x] /\ x = IF j < i THEN j ELSE j + 1
        BY <3>7, Zenon
      <4>2. PICK y \in 1..Len(l) : y # i /\ m[k] = l[y] /\ y = IF k < i THEN k ELSE k + 1
        BY <3>7, Zenon
      <4>3. x < y
        BY <1>2, <3>1, <3>3, <1>0, <4>1, <4>2, SMTT(30)
      <4> QED BY <1>11, <4>1, <4>2, <4>3, Zenon
    <3>4. \A p \in Nat : In(b, p) <=> In(l[i], p)
      BY <1>1, <1>2, <1>3, <2>1, SMTT(30) DEF In
    <3>5. ASSUME NEW p \in 0..SIZE - 1, Free(m, p) PROVE Free(l, p) /\ ~In(b, p)
      <4>1. PICK k \in 1..Len(m) : In(m[k], p)
        BY <3>5, Zenon DEF Free
      <4>2. PICK j \in 1..Len(l) : j # i /\ m[k] = l[j]
        BY <3>7, Zenon
      <4>3. p \in Nat /\ In(l[j], p)
        BY <1>0, <4>1, <4>2, SMTT(30)
      <4>4. ~In(l[i], p)
        BY <1>8, <4>2, <4>3, Zenon
      <4> QED BY <3>4, <4>3, <4>4, Zenon DEF Free
    <3>6. ASSUME NEW p \in 0..SIZE - 1, Free(l, p), ~In(b, p) PROVE Free(m, p)
      <4>1. PICK j \in 1..Len(l) : In(l[j], p)
        BY <3>6, Zenon DEF Free
      <4>5. p \in Nat
        BY <1>1, SMTT(30)
      <4>2. j # i
        BY <3>4, <3>6, <4>1, <4>5, Zenon
      <4>3. \E k \in 1..Len(l) - 1 : m[k] = l[j]
        <5>1. CASE j < i
          <6>1. j \in 1..Len(l) - 1
            BY <1>0, <1>2, <5>1, SMTT(30)
          <6>2. m[j] = l[j]
            BY <3>1, <5>1, <6>1, Zenon
          <6> QED BY <6>1, <6>2, Zenon
        <5>2. CASE j > i
          <6>1. j - 1 \in 1..Len(l) - 1 /\ ~(j - 1 < i) /\ (j - 1) + 1 = j
            BY <1>1, <1>2, <5>2, SMTT(30)
          <6> QED BY <3>1, <6>1, Zenon
        <5> QED BY <1>1, <1>2, <4>2, <5>1, <5>2, SMTT(30)
      <4> QED BY <3>1, <4>1, <4>3, Zenon DEF Free
    <3> QED BY <3>1, <3>2, <3>3, <3>5, <3>6, Zenon DEF IsFreeList
  <2>2. CASE l[i].end - l[i].start # n
    <3> DEFINE e == [start |-> l[i].start + n, end |-> l[i].end]
    <3>1. e \in Block /\ e.start < e.end
      BY <1>1, <1>2, <2>2, SMTT(30) DEF Block
    <3>2. m = [l EXCEPT ![i] = e]
      BY <1>4, <2>2, Zenon
    <3>3. m \in Seq(Block) /\ Len(m) = Len(l) /\ \A k \in 1..Len(l) : m[k] = IF k = i THEN e ELSE l[k]
      <4> HIDE DEF e
      <4> QED BY <1>1, <1>2, <3>1, <3>2, SMTT(30) DEF VirtIInv, IsFreeList
    <3>4. \A p \in Nat : In(e, p) <=> In(l[i], p) /\ ~In(b, p)
      BY <1>1, <1>2, <1>3, SMTT(30) DEF In
    <3>5. ASSUME NEW j \in 1..Len(m), NEW k \in 1..Len(m), j < k PROVE m[j].end <= m[k].start
      <4>1. j \in 1..Len(l) /\ k \in 1..Len(l) /\ l[j].end <= l[k].start
        BY <1>11, <3>3, <3>5, Zenon
      <4>2. m[j].end = l[j].end
        BY <3>3, <4>1, SMTT(30)
      <4>3. m[k].start >= l[k].start
        BY <1>0, <3>3, <4>1, SMTT(30)
      <4>4. m[k].start \in Nat
        <5>1. m[k] \in Block
          BY <3>3, ElementOfSeq, Zenon
        <5> QED BY ONLY <5>1, <1>0, SMTT(30) DEF Block
      <4>5. l[j].end \in Nat /\ l[k].start \in Nat
        BY <1>0, <4>1, Zenon
      <4> QED BY ONLY <4>1, <4>2, <4>3, <4>4, <4>5, SMTT(30)
    <3>6. \A k \in 1..Len(m) : IsBlock(m[k])
      BY <3>1, <3>3, SMTT(30) DEF VirtIInv, IsFreeList, IsBlock
    <3> HIDE DEF e
    <3>7. ASSUME NEW p \in 0..SIZE - 1 PROVE Free(m, p) <=> Free(l, p) /\ ~In(b, p)
      <4>1. p \in Nat
        BY <1>0, SMTT(30)
      <4>2. ASSUME Free(m, p) PROVE Free(l, p) /\ ~In(b, p)
        <5>1. PICK k \in 1..Len(l) : In(m[k], p)
          BY <3>3, <4>2, Zenon DEF Free
        <5>2. CASE k = i
          BY <3>3, <3>4, <4>1, <5>1, <5>2, Zenon DEF Free
        <5>3. CASE k # i
          BY <1>6, <1>8, <3>3, <4>1, <5>1, <5>3, Zenon DEF Free
        <5> QED BY <5>2, <5>3, Zenon
      <4>3. ASSUME Free(l, p), ~In(b, p) PROVE Free(m, p)
        <5>1. PICK k \in 1..Len(l) : In(l[k], p)
          BY <4>3, Zenon DEF Free
        <5>2. In(m[k], p)
          BY <3>3, <3>4, <4>1, <4>3, <5>1, Zenon
        <5> QED BY <3>3, <5>1, <5>2, Zenon DEF Free
      <4> QED BY <4>2, <4>3, Zenon
    <3> QED BY <3>3, <3>5, <3>6, <3>7, Zenon DEF IsFreeList
  <2> QED BY <2>1, <2>2, Zenon
<1>10. Partition(m, areas \cup {b})
  BY <1>5, <1>7, <1>9, PartitionTaken, Zenon DEF VirtIInv
<1> QED BY <1>9, <1>10, Zenon DEF VirtIInv, virt_allocate, m, b

(***************************************************************************)
(* The two ways in which free gives an area back: a neighbouring block is  *)
(* extended over it, or it becomes a block between its neighbours.         *)
(***************************************************************************)
LEMMA Joined ==
    ASSUME NEW l, IsFreeList(l), NEW b, NEW j \in 1..Len(l), NEW e, IsBlock(e),
           \A p \in Nat : In(e, p) <=> In(l[j], p) \/ In(b, p),
           \A k \in 1..Len(l) : k < j => l[k].end <= e.start,
           \A k \in 1..Len(l) : k > j => e.end <= l[k].start,
           NEW m, m = [l EXCEPT ![j] = e]
    PROVE  IsFreeList(m) /\ \A p \in 0..SIZE - 1 : Free(m, p) <=> Free(l, p) \/ In(b, p)
<1>1. Len(l) \in Nat /\ SIZE \in Nat
  BY ListFacts, VirtAssumption, Zenon
<1>2. m \in Seq(Block) /\ Len(m) = Len(l) /\ \A k \in 1..Len(l) : m[k] = IF k = j THEN e ELSE l[k]
  BY SMTT(30) DEF IsFreeList, IsBlock
<1>3. \A k \in 1..Len(m) : IsBlock(m[k])
  BY <1>2, Zenon DEF IsFreeList
<1>4. ASSUME NEW x \in 1..Len(m), NEW y \in 1..Len(m), x < y PROVE m[x].end <= m[y].start
  <2>1. x \in 1..Len(l) /\ y \in 1..Len(l) /\ l[x].end <= l[y].start
    BY <1>2, <1>4, Zenon DEF IsFreeList
  <2>2. CASE x = j
    BY <1>1, <1>2, <1>4, <2>1, <2>2, SMTT(30)
  <2>3. CASE y = j
    BY <1>1, <1>2, <1>4, <2>1, <2>3, SMTT(30)
  <2> QED BY <1>2, <2>1, <2>2, <2>3, Zenon
<1>5. ASSUME NEW p \in 0..SIZE - 1 PROVE Free(m, p) <=> Free(l, p) \/ In(b, p)
  <2>1. p \in Nat
    BY <1>1, SMTT(30)
  <2>2. ASSUME Free(m, p) PROVE Free(l, p) \/ In(b, p)
    <3>1. PICK k \in 1..Len(l) : In(m[k], p)
      BY <1>2, <2>2, Zenon DEF Free
    <3> QED BY <1>2, <2>1, <3>1, Zenon DEF Free
  <2>3. ASSUME Free(l, p) PROVE Free(m, p)
    <3>1. PICK k \in 1..Len(l) : In(l[k], p)
      BY <2>3, Zenon DEF Free
    <3>2. In(m[k], p)
      BY <1>2, <2>1, <3>1, Zenon
    <3> QED BY <1>2, <3>1, <3>2, Zenon DEF Free
  <2>4. ASSUME In(b, p) PROVE Free(m, p)
    <3>1. In(m[j], p)
      BY <1>2, <2>1, <2>4, Zenon
    <3> QED BY <1>2, <3>1, Zenon DEF Free
  <2> QED BY <2>2, <2>3, <2>4, Zenon
<1> QED BY <1>2, <1>3, <1>4, <1>5, Zenon DEF IsFreeList

LEMMA Inserted ==
    ASSUME NEW l, IsFreeList(l), NEW b, IsBlock(b), NEW j \in 1..Len(l) + 1,
           \A k \in 1..Len(l) : k < j => l[k].end <= b.start,
           \A k \in 1..Len(l) : k >= j => b.end <= l[k].start,
           NEW m, m = InsertAt(l, j, b)
    PROVE  IsFreeList(m) /\ \A p \in 0..SIZE - 1 : Free(m, p) <=> Free(l, p) \/ In(b, p)
<1>1. Len(l) \in Nat
  BY ListFacts, Zenon
<1>2. /\ m \in Seq(Block) /\ Len(m) = Len(l) + 1
      /\ \A k \in 1..Len(l) + 1 : m[k] = IF k < j THEN l[k] ELSE IF k = j THEN b ELSE l[k - 1]
  <2>1. l \in Seq(Block) /\ b \in Block
    BY Zenon DEF IsFreeList, IsBlock
  <2>2. HasInserted(m, Block, l, j, b)
    BY <2>1, InsertAtFacts, Zenon
  <2> QED BY <2>2, Zenon DEF HasInserted
<1>3. m[j] = b
  BY <1>1, <1>2, SMTT(30)
<1>4. ASSUME NEW k \in 1..Len(m), k # j
      PROVE  \E x \in 1..Len(l) : m[k] = l[x] /\ x = IF k < j THEN k ELSE k - 1
  <2>1. CASE k < j
    <3>1. k \in 1..Len(l) /\ m[k] = l[k]
      BY <1>1, <1>2, <2>1, SMTT(30)
    <3> QED BY <2>1, <3>1, Zenon
  <2>2. CASE ~(k < j)
    <3>1. k - 1 \in 1..Len(l) /\ k \in 1..Len(l) + 1
      BY <1>1, <1>2, <1>4, <2>2, SMTT(30)
    <3>2. m[k] = l[k - 1]
      BY <1>2, <1>4, <2>2, <3>1, Zenon
    <3> QED BY <2>2, <3>1, <3>2, Zenon
  <2> QED BY <2>1, <2>2, Zenon
<1>5. \A k \in 1..Len(m) : IsBlock(m[k])
  BY <1>3, <1>4, Zenon DEF IsFreeList
<1>6. ASSUME NEW x \in 1..Len(m), NEW y \in 1..Len(m), x < y PROVE m[x].end <= m[y].start
  <2>1. CASE x = j
    <3>1. PICK v \in 1..Len(l) : m[y] = l[v] /\ v = IF y < j THEN y ELSE y - 1
      BY <1>1, <1>2, <1>4, <1>6, <2>1, SMTT(30)
    <3>2. v >= j
      BY <1>1, <1>2, <1>6, <2>1, <3>1, SMTT(30)
    <3> QED BY <1>3, <2>1, <3>1, <3>2, Zenon
  <2>2. CASE y = j
    <3>1. PICK u \in 1..Len(l) : m[x] = l[u] /\ u = IF x < j THEN x ELSE x - 1
      BY <1>1, <1>2, <1>4, <1>6, <2>2, SMTT(30)
    <3>2. u < j
      BY <1>1, <1>2, <1>6, <2>2, <3>1, Zenon
    <3> QED BY <1>3, <2>2, <3>1, <3>2, Zenon
  <2>3. CASE x # j /\ y # j
    <3>1. PICK u \in 1..Len(l) : m[x] = l[u] /\ u = IF x < j THEN x ELSE x - 1
      BY <1>4, <2>3, Zenon
    <3>2. PICK v \in 1..Len(l) : m[y] = l[v] /\ v = IF y < j THEN y ELSE y - 1
      BY <1>4, <2>3, Zenon
    <3>3. u < v
      BY <1>1, <1>2, <1>6, <2>3, <3>1, <3>2, SMTT(30)
    <3> QED BY <3>1, <3>2, <3>3, Zenon DEF IsFreeList
  <2> QED BY <2>1, <2>2, <2>3, Zenon
<1>7. ASSUME NEW p \in 0..SIZE - 1 PROVE Free(m, p) <=> Free(l, p) \/ In(b, p)
  <2>1. ASSUME Free(m, p) PROVE Free(l, p) \/ In(b, p)
    <3>1. PICK k \in 1..Len(m) : In(m[k], p)
      BY <2>1, Zenon DEF Free
    <3> QED BY <1>3, <1>4, <3>1, Zenon DEF Free
  <2>2. ASSUME Free(l, p) PROVE Free(m, p)
    <3>1. PICK k \in 1..Len(l) : In(l[k], p)
      BY <2>2, Zenon DEF Free
    <3>2. CASE k < j
      <4>1. k \in 1..Len(m) /\ m[k] = l[k]
        BY <1>1, <1>2, <3>2, SMTT(30)
      <4> QED BY <3>1, <4>1, Zenon DEF Free
    <3>3. CASE ~(k < j)
      <4>1. k + 1 \in 1..Len(l) + 1 /\ ~(k + 1 < j) /\ k + 1 # j /\ (k + 1) - 1 = k
        BY <1>1, <3>3, SMTT(30)
      <4>2. k + 1 \in 1..Len(m) /\ m[k + 1] = l[k]
        BY <1>2, <4>1, Zenon
      <4> QED BY <3>1, <4>2, Zenon DEF Free
    <3> QED BY <3>2, <3>3, Zenon
  <2>3. ASSUME In(b, p) PROVE Free(m, p)
    <3>1. j \in 1..Len(m)
      BY <1>2, Zenon
    <3> QED BY <1>3, <2>3, <3>1, Zenon DEF Free
  <2> QED BY <2>1, <2>2, <2>3, Zenon
<1> QED BY <1>2, <1>5, <1>6, <1>7, Zenon DEF IsFreeList

(***************************************************************************)
(* free gives the pages of the area, and no others, to the list.  No block *)
(* overlaps the area, so those that start below it end there at the latest *)
(* and the others start behind it.                                         *)
(***************************************************************************)
LEMMA FreeStep ==
    ASSUME VirtIInv, NEW area \in areas, virt_free(area)
    PROVE  VirtIInv'
<1> DEFINE l == free_list
           i == LowerBlocks(l, area.start)
           m == virt_freed(l, area)
<1>1. /\ Len(l) \in Nat /\ SIZE \in Nat
      /\ \A k \in 1..Len(l) :
             /\ l[k].start \in Nat /\ l[k].end \in Nat /\ l[k].start < l[k].end
             /\ l[k].start <= SIZE /\ l[k].end <= SIZE
  BY ListFacts, VirtAssumption, Zenon DEF VirtIInv
<1>2. /\ IsBlock(area) /\ area.start \in Nat /\ area.end \in Nat
      /\ area.start < area.end /\ area.end <= SIZE
  BY VirtAssumption, SMTT(30) DEF VirtIInv, Partition, IsBlock, Block
<1>3. IsFreeList(l) /\ Partition(l, areas)
  BY Zenon DEF VirtIInv
<1>4. i \in 0..Len(l) /\ \A k \in 1..Len(l) : l[k].start < area.start <=> k <= i
  BY <1>2, <1>3, LowerBlocksFacts, Zenon
<1>5. ASSUME NEW k \in 1..Len(l) PROVE l[k].end <= area.start \/ area.end <= l[k].start
  <2> SUFFICES ASSUME l[k].end > area.start, area.end > l[k].start PROVE FALSE
    BY <1>1, <1>2, SMTT(30)
  <2> DEFINE p == IF l[k].start <= area.start THEN area.start ELSE l[k].start
  <2>1. p \in 0..SIZE - 1 /\ In(l[k], p) /\ In(area, p)
    BY <1>1, <1>2, SMTT(30) DEF In
  <2> HIDE DEF p
  <2>2. Free(l, p) /\ Used(areas, p)
    BY <2>1, Zenon DEF Free, Used
  <2> QED BY <1>3, <2>1, <2>2, Zenon DEF Partition
<1> HIDE DEF i
<1>6. \A k \in 1..Len(l) : k <= i => l[k].end <= area.start
  BY <1>1, <1>2, <1>4, <1>5, SMTT(30)
<1>7. \A k \in 1..Len(l) : k > i => area.end <= l[k].start
  BY <1>1, <1>2, <1>4, <1>5, SMTT(30)
<1>8. IsFreeList(m) /\ \A p \in 0..SIZE - 1 : Free(m, p) <=> Free(l, p) \/ In(area, p)
  <2>1. CASE i > 0 /\ l[i].end = area.start
    <3> DEFINE e == [start |-> l[i].start, end |-> l[i].end + (area.end - area.start)]
    <3>1. i \in 1..Len(l)
      BY <1>1, <1>4, <2>1, SMTT(30)
    <3>2. m = [l EXCEPT ![i] = e]
      BY <2>1, <3>1, Zenon DEF virt_freed, size_pages, i
    <3>3. e = [start |-> l[i].start, end |-> area.end]
      BY <1>1, <1>2, <2>1, <3>1, SMTT(30)
    <3>4. IsBlock(e)
      BY <1>1, <1>2, <2>1, <3>1, <3>3, SMTT(30) DEF IsBlock, Block
    <3>5. \A p \in Nat : In(e, p) <=> In(l[i], p) \/ In(area, p)
      BY <1>1, <1>2, <2>1, <3>1, <3>3, SMTT(30) DEF In
    <3>6. \A k \in 1..Len(l) : k < i => l[k].end <= e.start
      BY <1>3, <3>1, <3>3, Zenon DEF IsFreeList
    <3>7. \A k \in 1..Len(l) : k > i => e.end <= l[k].start
      BY <1>7, <3>3, Zenon
    <3> HIDE DEF e
    <3> QED BY <1>3, <3>1, <3>2, <3>4, <3>5, <3>6, <3>7, Joined, Zenon
  <2>2. CASE ~(i > 0 /\ l[i].end = area.start) /\ i < Len(l) /\ l[i + 1].start = area.end
    <3> DEFINE j == i + 1
               e == [start |-> area.start, end |-> l[j].end]
    <3>1. j \in 1..Len(l)
      BY <1>1, <1>4, <2>2, SMTT(30)
    <3>2. m = [l EXCEPT ![j] = e]
      BY <2>2, <3>1, Zenon DEF virt_freed, i
    <3>3. l[j].start = area.end
      BY <2>2, Zenon
    <3>4. IsBlock(e)
      BY <1>1, <1>2, <3>1, <3>3, SMTT(30) DEF IsBlock, Block
    <3>5. \A p \in Nat : In(e, p) <=> In(l[j], p) \/ In(area, p)
      BY <1>1, <1>2, <3>1, <3>3, SMTT(30) DEF In
    <3>6. \A k \in 1..Len(l) : k < j => l[k].end <= e.start
      BY <1>1, <1>4, <1>6, SMTT(30)
    <3>7. \A k \in 1..Len(l) : k > j => e.end <= l[k].start
      BY <1>3, <3>1, Zenon DEF IsFreeList
    <3> HIDE DEF e, j
    <3> QED BY <1>3, <3>1, <3>2, <3>4, <3>5, <3>6, <3>7, Joined, Zenon
  <2>3. CASE /\ ~(i > 0 /\ l[i].end = area.start)
             /\ ~(i < Len(l) /\ l[i + 1].start = area.end)
    <3>1. m = InsertAt(l, i + 1, area)
      BY <2>3, Zenon DEF virt_freed, i
    <3>2. i + 1 \in 1..Len(l) + 1
      BY <1>1, <1>4, SMTT(30)
    <3>3. /\ \A k \in 1..Len(l) : k < i + 1 => l[k].end <= area.start
          /\ \A k \in 1..Len(l) : k >= i + 1 => area.end <= l[k].start
      BY <1>1, <1>4, <1>6, <1>7, SMTT(30)
    <3> QED BY <1>2, <1>3, <3>1, <3>2, <3>3, Inserted, Zenon
  <2> QED BY <2>1, <2>2, <2>3, Zenon
<1> HIDE DEF m
<1>9. Partition(m, areas \ {area})
  BY <1>3, <1>8, PartitionFreed, Zenon
<1> QED BY <1>8, <1>9, Zenon DEF VirtIInv, virt_free, m

(***************************************************************************)
(* The invariant says what VirtAccounting says of sets of pages.           *)
(***************************************************************************)
LEMMA PagesAccounted ==
    ASSUME VirtIInv
    PROVE  VirtAccounting
<1>1. /\ Len(free_list) \in Nat /\ DOMAIN free_list = 1..Len(free_list) /\ SIZE \in Nat
      /\ \A k \in 1..Len(free_list) :
             /\ free_list[k].start \in Nat /\ free_list[k].end \in Nat
             /\ free_list[k].start < free_list[k].end /\ free_list[k].end <= SIZE
  BY ListFacts, VirtAssumption, Zenon DEF VirtIInv
<1>2. \A a \in areas : a.start \in Nat /\ a.end \in Nat /\ a.start < a.end /\ a.end <= SIZE
  BY VirtAssumption, SMTT(30) DEF VirtIInv, Partition, IsBlock, Block
<1>3. FreeListSorted
  BY <1>1, SMTT(30) DEF VirtIInv, IsFreeList, IsBlock, FreeListSorted, size_pages
<1>4. \A p : p \in FreePages <=> p \in 0..SIZE - 1 /\ Free(free_list, p)
  <2>1. \A k \in 1..Len(free_list) : \A p :
            p \in page_starts(free_list[k]) <=> p \in 0..SIZE - 1 /\ In(free_list[k], p)
    BY <1>1, SMTT(30) DEF page_starts, In
  <2> QED BY <1>1, <2>1, Zenon DEF FreePages, Free
<1>5. \A a \in areas : \A p : p \in page_starts(a) <=> p \in 0..SIZE - 1 /\ In(a, p)
  BY <1>1, <1>2, SMTT(30) DEF page_starts, In
<1>6. FreePages \cup UNION {page_starts(a) : a \in areas} = 0..SIZE - 1
  BY <1>4, <1>5, SMTT(30) DEF VirtIInv, Partition, Used
<1>7. ASSUME NEW a \in areas, NEW b \in areas, a # b PROVE page_starts(a) \cap page_starts(b) = {}
  <2>1. a.end <= b.start \/ b.end <= a.start
    BY <1>7, Zenon DEF VirtIInv, Partition
  <2> QED BY <1>2, <2>1, SMTT(30) DEF page_starts
<1>8. \A a \in areas : page_starts(a) \cap FreePages = {}
  BY <1>4, <1>5, Zenon DEF VirtIInv, Partition, Used
<1> QED BY <1>3, <1>6, <1>7, <1>8, Zenon DEF VirtAccounting

(***************************************************************************)
(* For every size of the address space and of the requests: allocations    *)
(* and drops in any order leave every page in exactly one place, in one    *)
(* block of the sorted free list or in one live area.                      *)
(***************************************************************************)
THEOREM VirtPagesAccounted == VirtSpec => []VirtAccounting
<1>1. VirtInit => VirtIInv
  <2> SUFFICES ASSUME VirtInit PROVE VirtIInv
    BY Zenon
  <2> DEFINE b == [start |-> 0, end |-> SIZE]
  <2>1. b \in Block /\ b.start = 0 /\ b.end = SIZE /\ SIZE \in Nat /\ SIZE > 0
    BY VirtAssumption, SMTT(30) DEF Block
  <2> HIDE DEF b
  <2>2. free_list = <<b>> /\ areas = {}
    BY Zenon DEF VirtInit, b
  <2>3. Len(free_list) = 1 /\ free_list[1] = b /\ free_list \in Seq(Block)
    BY <2>1, <2>2, SMTT(30)
  <2>4. IsFreeList(free_list)
    BY <2>1, <2>3, SMTT(30) DEF IsFreeList, IsBlock
  <2>5. \A p \in 0..SIZE - 1 : Free(free_list, p)
    BY <2>1, <2>3, SMTT(30) DEF Free, In
  <2> QED BY <2>2, <2>4, <2>5, Zenon DEF VirtIInv, Partition, Used
<1>2. VirtIInv /\ [VirtNext]_virtVars => VirtIInv'
  <2> SUFFICES ASSUME VirtIInv, [VirtNext]_virtVars PROVE VirtIInv'
    BY Zenon
  <2>1. ASSUME NEW n \in 1..MaxRequest, virt_allocate(n) PROVE VirtIInv'
    BY <2>1, AllocateStep, Zenon
  <2>2. ASSUME NEW area \in areas, virt_free(area) PROVE VirtIInv'
    BY <2>2, FreeStep, Zenon
  <2>3. CASE UNCHANGED virtVars
    BY <2>3, Zenon DEF VirtIInv, virtVars, IsFreeList, Partition, Free, Used
  <2> QED BY <2>1, <2>2, <2>3, Zenon DEF VirtNext
<1>3. VirtIInv => VirtAccounting
  BY PagesAccounted, Zenon
<1> QED BY <1>1, <1>2, <1>3, PTL DEF VirtSpec

-----------------------------------------------------------------------------
(***************************************************************************)
(* The DMA allocator, for any number and size of blocks.  Nothing is given *)
(* back, so the blocks in use are a prefix of the memory.                  *)
(***************************************************************************)
Regions == [start : Nat, len : Nat \ {0}]

(* The first k blocks are in use, by regions that do not share a block.    *)
UsedPrefix(k) ==
    /\ k \in 0..DMA_BLOCKS
    /\ blocks = [b \in 0..DMA_BLOCKS - 1 |-> IF b < k THEN "Used" ELSE "Free"]
    /\ regions \subseteq Regions
    /\ \A r \in regions : r.start + round_up_block(r.len) <= k
    /\ \A r, q \in regions : r # q => \/ r.start + round_up_block(r.len) <= q.start
                                      \/ q.start + round_up_block(q.len) <= r.start
    /\ dma_panic \in Nat
    /\ dma_panic # 0 => DMA_BLOCKS - k <= round_up_block(dma_panic)

DmaInv == \E k \in Nat : UsedPrefix(k)

(* A request is rounded up to whole blocks, by less than a block.          *)
LEMMA RoundUp ==
    ASSUME NEW len \in Nat
    PROVE  /\ round_up_block(len) \in Nat
           /\ len <= round_up_block(len) * BlockBytes
           /\ round_up_block(len) * BlockBytes < len + BlockBytes
           /\ len # 0 => round_up_block(len) # 0
<1> DEFINE d == len + (BlockBytes - 1)
<1>1. d \in Nat /\ BlockBytes \in Nat /\ BlockBytes > 0
  BY DmaAssumption, SMTT(30)
<1>2. \A m, b \in Nat : b > 0 => /\ m \div b \in Nat
                                 /\ (m \div b) * b <= m
                                 /\ m < (m \div b) * b + b
  BY SMTT(30)
<1>3. /\ d \div BlockBytes \in Nat /\ (d \div BlockBytes) * BlockBytes <= d
      /\ d < (d \div BlockBytes) * BlockBytes + BlockBytes
  BY <1>1, <1>2, SMTT(30)
<1>4. round_up_block(len) = d \div BlockBytes
  BY SMTT(30) DEF round_up_block
<1> QED
  BY <1>1, <1>3, <1>4, SMTT(30)

(* allocate takes the first block after the ones in use.                   *)
LEMMA FirstFree ==
    ASSUME NEW k \in Nat, UsedPrefix(k), NEW n \in Nat \ {0}
    PROVE  /\ k < DMA_BLOCKS - n => free_runs(n) # {} /\ Min(free_runs(n)) = k
           /\ free_runs(n) # {} => k < DMA_BLOCKS - n
<1>1. DMA_BLOCKS \in Nat /\ k \in 0..DMA_BLOCKS
  BY DmaAssumption, Zenon DEF UsedPrefix
<1>2. \A b \in 0..DMA_BLOCKS - 1 : blocks[b] = "Free" <=> k <= b
  BY <1>1, SMTT(30) DEF UsedPrefix
<1>3. ASSUME NEW start \in free_runs(n)
      PROVE  start \in Nat /\ k <= start /\ start < DMA_BLOCKS - n
  <2>1. start \in Nat /\ start < DMA_BLOCKS - n /\ start \in 0..DMA_BLOCKS - 1 /\ 0 \in 0..n - 1
    BY <1>1, SMTT(30) DEF free_runs
  <2>2. blocks[start + 0] = "Free" /\ start + 0 = start
    BY <2>1, SMTT(30) DEF free_runs
  <2> QED
    BY <1>2, <2>1, <2>2, Zenon
<1>4. ASSUME k < DMA_BLOCKS - n
      PROVE  k \in free_runs(n)
  <2>1. \A offset \in 0..n - 1 : k + offset \in 0..DMA_BLOCKS - 1 /\ k <= k + offset
    BY <1>1, <1>4, SMTT(30)
  <2>2. \A offset \in 0..n - 1 : blocks[k + offset] = "Free"
    BY <1>2, <2>1, Zenon
  <2> QED
    BY <1>1, <1>4, <2>2, Zenon DEF free_runs
<1>5. ASSUME k < DMA_BLOCKS - n
      PROVE  Min(free_runs(n)) = k
  <2> DEFINE m == Min(free_runs(n))
  <2>1. m \in free_runs(n) /\ \A y \in free_runs(n) : m <= y
    BY <1>3, <1>4, <1>5, Zenon DEF Min
  <2>2. m \in Nat /\ k <= m /\ m <= k
    BY <1>3, <1>4, <1>5, <2>1, Zenon
  <2> QED
    BY <2>2, SMTT(30)
<1>6. free_runs(n) # {} => k < DMA_BLOCKS - n
  <2>1. ASSUME NEW start \in free_runs(n)
        PROVE  k < DMA_BLOCKS - n
    <3>1. start \in Nat /\ k <= start /\ start < DMA_BLOCKS - n
      BY <1>3, Zenon
    <3> QED
      BY <1>1, <3>1, SMTT(30)
  <2> QED
    BY <2>1, Zenon
<1> QED
  BY <1>4, <1>5, <1>6, Zenon

LEMMA DmaInitial ==
    ASSUME DmaInit
    PROVE  DmaInv
<1>1. UsedPrefix(0)
  BY DmaAssumption, SMTT(30) DEF DmaInit, UsedPrefix, Regions
<1> QED
  BY <1>1, Zenon DEF DmaInv

LEMMA DmaAllocateStep ==
    ASSUME NEW k \in Nat, UsedPrefix(k), NEW len \in 1..MaxDma, dma_allocate(len)
    PROVE  DmaInv'
<1> DEFINE n == round_up_block(len)
<1>1. /\ len \in Nat /\ len # 0 /\ n \in Nat \ {0} /\ DMA_BLOCKS \in Nat /\ k \in 0..DMA_BLOCKS
      /\ blocks = [b \in 0..DMA_BLOCKS - 1 |-> IF b < k THEN "Used" ELSE "Free"]
      /\ regions \subseteq Regions /\ dma_panic = 0
  <2>1. len \in Nat /\ len # 0 /\ DMA_BLOCKS \in Nat
    BY DmaAssumption, SMTT(30)
  <2> QED
    BY <2>1, RoundUp, Zenon DEF UsedPrefix, dma_allocate
<1> HIDE DEF n
<1>2. CASE n > DMA_BLOCKS \/ free_runs(n) = {}
  <2>1. dma_panic' = len /\ UNCHANGED <<blocks, regions>>
    BY <1>2, Zenon DEF dma_allocate, n
  <2>2. free_runs(n) = {} => DMA_BLOCKS - k <= n
    BY <1>1, FirstFree, SMTT(30)
  <2>3. DMA_BLOCKS - k <= n
    BY <1>1, <1>2, <2>2
  <2>4. UsedPrefix(k)'
    BY <1>1, <2>1, <2>3, Zenon DEF UsedPrefix, round_up_block, n
  <2> QED
    BY <2>4, Zenon DEF DmaInv
<1>3. CASE ~(n > DMA_BLOCKS \/ free_runs(n) = {})
  <2> DEFINE new == [start |-> k, len |-> len]
  <2>1. k < DMA_BLOCKS - n /\ Min(free_runs(n)) = k
    BY <1>1, <1>3, FirstFree, Zenon
  <2>2. /\ blocks' = [b \in DOMAIN blocks |-> IF b \in k..k + n - 1 THEN "Used" ELSE blocks[b]]
        /\ regions' = regions \cup {new} /\ dma_panic' = dma_panic
    BY <1>3, <2>1, Zenon DEF dma_allocate, n
  <2>3. k + n \in 0..DMA_BLOCKS /\ k <= k + n /\ k + n \in Nat
    BY <1>1, <2>1, SMTT(30)
  <2>4. blocks' = [b \in 0..DMA_BLOCKS - 1 |-> IF b < k + n THEN "Used" ELSE "Free"]
    <3>1. ASSUME NEW b \in 0..DMA_BLOCKS - 1
          PROVE  blocks'[b] = IF b < k + n THEN "Used" ELSE "Free"
      BY <1>1, <2>2, SMTT(30)
    <3>2. blocks' = [b \in 0..DMA_BLOCKS - 1 |-> blocks'[b]]
      BY <1>1, <2>2, SMTT(30)
    <3> QED
      BY <3>1, <3>2, Zenon
  <2>5. new \in Regions /\ new.start = k /\ new.len = len
    BY <1>1, SMTT(30) DEF Regions
  <2> HIDE DEF new
  <2>6. \A r \in regions : r.start + round_up_block(r.len) <= k
    BY Zenon DEF UsedPrefix
  <2>7. ASSUME NEW r \in regions
        PROVE  r.start + round_up_block(r.len) <= k + n
    <3>1. r.start \in Nat /\ round_up_block(r.len) \in Nat
      <4>1. r \in Regions
        BY <1>1, Zenon
      <4>2. r.start \in Nat /\ r.len \in Nat
        BY ONLY <4>1, SMTT(30) DEF Regions
      <4> QED BY <4>2, RoundUp, Zenon
    <3> QED
      BY <1>1, <2>6, <3>1, SMTT(30)
  <2>8. new.start + round_up_block(new.len) <= k + n
    BY <1>1, <2>5 DEF n
  <2>9. ASSUME NEW r \in regions', NEW q \in regions', r # q
        PROVE  \/ r.start + round_up_block(r.len) <= q.start
               \/ q.start + round_up_block(q.len) <= r.start
    BY <2>2, <2>5, <2>6, <2>9, Zenon DEF UsedPrefix
  <2>10. UsedPrefix(k + n)'
    BY <1>1, <2>2, <2>3, <2>4, <2>5, <2>7, <2>8, <2>9, Zenon DEF UsedPrefix, round_up_block
  <2> QED
    BY <2>3, <2>10, Zenon DEF DmaInv
<1> QED
  BY <1>2, <1>3, Zenon

(* Regions that share no block share no byte.                              *)
LEMMA BlocksToBytes ==
    ASSUME NEW r \in Regions
    PROVE  \A x \in Bytes(r) : /\ x \in Nat /\ r.start * BlockBytes <= x
                               /\ x < (r.start + round_up_block(r.len)) * BlockBytes
<1>1. /\ r.start \in Nat /\ r.len \in Nat \ {0} /\ BlockBytes \in Nat \ {0}
      /\ round_up_block(r.len) \in Nat /\ r.len <= round_up_block(r.len) * BlockBytes
  BY DmaAssumption, RoundUp, SMTT(30) DEF Regions
<1>2. \A s, n, b \in Nat : (s + n) * b = s * b + n * b /\ s * b \in Nat /\ n * b \in Nat
  BY SMTT(30)
<1>3. /\ (r.start + round_up_block(r.len)) * BlockBytes
           = r.start * BlockBytes + round_up_block(r.len) * BlockBytes
      /\ r.start * BlockBytes \in Nat /\ round_up_block(r.len) * BlockBytes \in Nat
  BY <1>1, <1>2, SMTT(30)
<1> QED
  BY <1>1, <1>3, SMTT(30) DEF Bytes

LEMMA PrefixRegions ==
    ASSUME NEW k \in Nat, UsedPrefix(k)
    PROVE  DmaRegions
<1>1. DMA_BLOCKS \in Nat /\ BlockBytes \in Nat \ {0} /\ k \in 0..DMA_BLOCKS /\ regions \subseteq Regions
  BY DmaAssumption, Zenon DEF UsedPrefix
<1>2. \A m, n, b \in Nat : m <= n => m * b <= n * b /\ m * b \in Nat /\ n * b \in Nat
  BY SMTT(30)
<1>3. \A r \in regions : r.start \in Nat /\ r.start + round_up_block(r.len) \in Nat
  BY <1>1, RoundUp, SMTT(30) DEF Regions
<1>4. ASSUME NEW r \in regions
      PROVE  Bytes(r) \subseteq 0..(DMA_BLOCKS * BlockBytes - 1)
  <2> DEFINE e == r.start + round_up_block(r.len)
  <2>1. e \in Nat /\ e <= k
    BY <1>3, Zenon DEF UsedPrefix
  <2>2. e <= DMA_BLOCKS
    BY <1>1, <2>1, SMTT(30)
  <2> HIDE DEF e
  <2>3. e * BlockBytes <= DMA_BLOCKS * BlockBytes /\ e * BlockBytes \in Nat /\ DMA_BLOCKS * BlockBytes \in Nat
    BY <1>1, <1>2, <2>1, <2>2, SMTT(30)
  <2>4. \A x \in Bytes(r) : x \in Nat /\ x < e * BlockBytes
    BY <1>1, BlocksToBytes, Zenon DEF e
  <2> QED
    BY <2>3, <2>4, SMTT(30)
<1>5. ASSUME NEW r \in regions, NEW q \in regions, r.start + round_up_block(r.len) <= q.start
      PROVE  Bytes(r) \cap Bytes(q) = {}
  <2> DEFINE e == r.start + round_up_block(r.len)
  <2>1. e \in Nat /\ q.start \in Nat /\ e <= q.start
    BY <1>3, <1>5, Zenon
  <2> HIDE DEF e
  <2>2. e * BlockBytes <= q.start * BlockBytes /\ e * BlockBytes \in Nat /\ q.start * BlockBytes \in Nat
    BY <1>1, <1>2, <2>1, SMTT(30)
  <2>3. \A x \in Bytes(r) : x \in Nat /\ x < e * BlockBytes
    BY <1>1, BlocksToBytes, Zenon DEF e
  <2>4. \A x \in Bytes(q) : q.start * BlockBytes <= x
    BY <1>1, BlocksToBytes, Zenon
  <2> QED
    BY <2>2, <2>3, <2>4, SMTT(30)
<1>6. \A r, q \in regions : r # q => Bytes(r) \cap Bytes(q) = {}
  <2>1. \A r, q \in regions : Bytes(r) \cap Bytes(q) = Bytes(q) \cap Bytes(r)
    BY Zenon
  <2> QED
    BY <1>5, <2>1, Zenon DEF UsedPrefix
<1>7. ASSUME dma_panic # 0
      PROVE  dma_panic + BlockBytes > BlockBytes * Cardinality({b \in DOMAIN blocks : blocks[b] = "Free"})
  <2> DEFINE n == round_up_block(dma_panic)
  <2>1. dma_panic \in Nat /\ DMA_BLOCKS - k <= n
    BY <1>7, Zenon DEF UsedPrefix
  <2>2. n \in Nat /\ n * BlockBytes < dma_panic + BlockBytes
    BY <2>1, RoundUp, Zenon
  <2> HIDE DEF n
  <2>3. {b \in DOMAIN blocks : blocks[b] = "Free"} = k..DMA_BLOCKS - 1
    <3>1. /\ DOMAIN blocks = 0..DMA_BLOCKS - 1
          /\ \A b \in 0..DMA_BLOCKS - 1 : blocks[b] = "Free" <=> k <= b
      BY <1>1, SMTT(30) DEF UsedPrefix
    <3> QED
      BY <1>1, <3>1, SMTT(30)
  <2>4. Cardinality(k..DMA_BLOCKS - 1) = DMA_BLOCKS - k
    <3>1. Cardinality(k..DMA_BLOCKS - 1) = IF k > DMA_BLOCKS - 1 THEN 0 ELSE (DMA_BLOCKS - 1) - k + 1
      BY <1>1, FS_Interval, SMTT(30)
    <3> QED
      BY <1>1, <3>1, SMTT(30)
  <2>5. DMA_BLOCKS - k \in Nat
    BY <1>1, SMTT(30)
  <2>6. (DMA_BLOCKS - k) * BlockBytes <= n * BlockBytes
    BY <1>1, <1>2, <2>1, <2>2, <2>5, SMTT(30)
  <2>7. BlockBytes * (DMA_BLOCKS - k) = (DMA_BLOCKS - k) * BlockBytes
    BY <1>1, <2>5, SMTT(30)
  <2>8. BlockBytes * (DMA_BLOCKS - k) < dma_panic + BlockBytes
    <3>1. \A a, b, c \in Nat : a <= b /\ b < c => a < c
      BY SMTT(30)
    <3>2. (DMA_BLOCKS - k) * BlockBytes \in Nat /\ n * BlockBytes \in Nat /\ dma_panic + BlockBytes \in Nat
      BY <1>1, <2>1, <2>2, <2>5, SMTT(30)
    <3> QED
      BY <2>2, <2>6, <2>7, <3>1, <3>2, Zenon
  <2> QED
    BY <1>1, <2>1, <2>3, <2>4, <2>5, <2>8, Zenon
<1> QED
  BY <1>4, <1>6, <1>7, Zenon DEF DmaRegions

(***************************************************************************)
(* The memory for device buffers is handed out once, whatever the requests *)
(* of dma_allocate, and the search of allocate, which never tries the last *)
(* place, gives up only when less than a block more than the request is    *)
(* left.                                                                   *)
(***************************************************************************)
THEOREM DmaMemoryExclusive == DmaSpec => []DmaRegions
<1>1. DmaInit => DmaInv
  BY DmaInitial, Zenon
<1>2. DmaInv /\ [DmaNext]_dmaVars => DmaInv'
  <2>1. ASSUME NEW k \in Nat, UsedPrefix(k), DmaNext
        PROVE  DmaInv'
    BY <2>1, DmaAllocateStep, Zenon DEF DmaNext
  <2>2. ASSUME NEW k \in Nat, UsedPrefix(k), UNCHANGED dmaVars
        PROVE  UsedPrefix(k)'
    BY <2>2, Zenon DEF UsedPrefix, dmaVars, round_up_block
  <2> QED
    BY <2>1, <2>2, Zenon DEF DmaInv
<1>3. DmaInv => DmaRegions
  BY PrefixRegions, Zenon DEF DmaInv
<1> QED
  BY <1>1, <1>2, <1>3, PTL DEF DmaSpec
=============================================================================
