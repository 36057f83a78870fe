--------------------------- MODULE HardwareProofs ---------------------------
(***************************************************************************)
(* What the hardware walks through memory by itself: the page tables of    *)
(* the processor and the rings of the network cards.  Each part extends    *)
(* one specification and uses nothing of the other.                        *)
(***************************************************************************)
EXTENDS PageMap, NetworkCards, FiniteSetTheorems, TLAPS

-----------------------------------------------------------------------------
(***************************************************************************)
(* The page tables implement one flat mapping from pages to frames while   *)
(* they fit in their huge page, for any number of indices, pages, frames   *)
(* and tables.                                                             *)
(***************************************************************************)

(* The slots of the P4 table that lead to a P3 table, the slots of those   *)
(* that lead to a P2 table, the tables they lead to, and an entry of a P2  *)
(* table.                                                                  *)
t3(i) == tables[0][i]
t2(s) == tables[tables[0][s[1]]][s[2]]
Entry(s, k) == tables[tables[tables[0][s[1]]][s[2]]][k]
Used3 == {i \in Index : t3(i) # Unused}
Used2 == {s \in Index \X Index : s[1] \in Used3 /\ t2(s) # Unused}

(***************************************************************************)
(* The tables form a tree in which no table is entered twice, and all of   *)
(* them are below the counter: this is what keeps a new table, which is    *)
(* taken from the end, apart from all the others.                          *)
(***************************************************************************)
TablesOK ==
    /\ table_count \in 3..MAX_PAGE_TABLES
    /\ DOMAIN tables = 0..MAX_PAGE_TABLES - 1
    /\ \A t \in 0..MAX_PAGE_TABLES - 1 : tables[t] = [i \in Index |-> tables[t][i]]
    /\ \A i \in Index : t3(i) \in 0..table_count - 1
    /\ \A s \in Index \X Index : s[1] \in Used3 => t2(s) \in 0..table_count - 1
    /\ \A s \in Used2 : \A k \in Index : Entry(s, k) \in PageFrames \cup {Unused}
    /\ \A i, k \in Used3 : t3(i) = t3(k) => i = k
    /\ \A s, u \in Used2 : t2(s) = t2(u) => s = u
    /\ \A i \in Used3, s \in Used2 : t3(i) # t2(s)

(* Where map_to finds, or puts, the tables of a page.                      *)
P3Of(page) == IF page[1] \in Used3 THEN t3(page[1]) ELSE table_count
P2Of(page) == IF <<page[1], page[2]>> \in Used2 THEN t2(<<page[1], page[2]>>)
              ELSE IF page[1] \in Used3 THEN table_count ELSE table_count + 1

(* How many tables map_to takes for a page.                                *)
Taken(page) == IF page[1] \notin Used3 THEN 2
               ELSE IF <<page[1], page[2]>> \notin Used2 THEN 1 ELSE 0

(* The tables of a page are two different ones and no table of another     *)
(* slot, and inside the huge page if the tables map_to takes fit.          *)
LEMMA TablesOfPage ==
  ASSUME TablesOK, NEW page \in Pages
  PROVE  /\ P3Of(page) \in Nat \ {0} /\ P2Of(page) \in Nat \ {0}
         /\ table_count + Taken(page) <= MAX_PAGE_TABLES =>
               P3Of(page) \in 1..MAX_PAGE_TABLES - 1 /\ P2Of(page) \in 1..MAX_PAGE_TABLES - 1
         /\ P3Of(page) # P2Of(page)
         /\ \A i \in Used3 : i # page[1] => t3(i) # P3Of(page)
         /\ \A i \in Used3 : t3(i) # P2Of(page)
         /\ \A s \in Used2 : s # <<page[1], page[2]>> => t2(s) # P2Of(page)
         /\ \A s \in Used2 : t2(s) # P3Of(page)
         /\ \A i \in Used3 : t3(i) \in 1..MAX_PAGE_TABLES - 1
         /\ \A s \in Used2 : t2(s) \in 1..MAX_PAGE_TABLES - 1
         /\ 0 \in 0..MAX_PAGE_TABLES - 1
         /\ table_count \in Nat
<1> DEFINE i == page[1]
           j == page[2]
           s == <<i, j>>
<1>1. i \in Index /\ j \in Index /\ s \in Index \X Index /\ MAX_PAGE_TABLES \in Nat
  BY PageMapAssumption, Zenon
<1>2. table_count \in Nat /\ 1 <= table_count /\ table_count <= MAX_PAGE_TABLES
  BY <1>1, SMTT(30) DEF TablesOK
<1>3. i \notin Used3 => s \notin Used2
  BY Zenon DEF Used2
<1>4. Taken(page) = IF i \notin Used3 THEN 2 ELSE IF s \notin Used2 THEN 1 ELSE 0
  BY Zenon DEF Taken
<1> HIDE DEF s, i, j
<1>5. \A k \in Used3 : k \in Index /\ t3(k) \in 1..table_count - 1
  BY <1>2, SMTT(30) DEF TablesOK, Used3, Unused
<1>6. \A u \in Used2 : u[1] \in Used3 /\ u \in Index \X Index /\ t2(u) \in 1..table_count - 1
  BY <1>2 DEF TablesOK, Used2, Unused
<1>7. /\ P3Of(page) = IF i \in Used3 THEN t3(i) ELSE table_count
      /\ P2Of(page) = IF s \in Used2 THEN t2(s)
                      ELSE IF i \in Used3 THEN table_count ELSE table_count + 1
  BY Zenon DEF P3Of, P2Of, s, i, j
<1>8. /\ \A a, b \in Used3 : t3(a) = t3(b) => a = b
      /\ \A a, b \in Used2 : t2(a) = t2(b) => a = b
      /\ \A a \in Used3, b \in Used2 : t3(a) # t2(b)
  BY Zenon DEF TablesOK
<1>9. 0 \in 0..MAX_PAGE_TABLES - 1
  BY <1>1, <1>2, SMTT(30)
<1>10. /\ P3Of(page) \in Nat \ {0} /\ P2Of(page) \in Nat \ {0}
       /\ table_count + Taken(page) <= MAX_PAGE_TABLES =>
             P3Of(page) \in 1..MAX_PAGE_TABLES - 1 /\ P2Of(page) \in 1..MAX_PAGE_TABLES - 1
  BY ONLY <1>1, <1>2, <1>3, <1>4, <1>5, <1>6, <1>7, SMTT(30)
<1>11. P3Of(page) # P2Of(page)
  BY ONLY <1>1, <1>2, <1>3, <1>4, <1>5, <1>6, <1>7, <1>8, SMTT(30)
<1>12. /\ \A k \in Used3 : k # i => t3(k) # P3Of(page)
       /\ \A k \in Used3 : t3(k) # P2Of(page)
  BY ONLY <1>1, <1>2, <1>3, <1>4, <1>5, <1>6, <1>7, <1>8, SMTT(30)
<1>13. /\ \A u \in Used2 : u # s => t2(u) # P2Of(page)
       /\ \A u \in Used2 : t2(u) # P3Of(page)
  BY ONLY <1>1, <1>2, <1>3, <1>4, <1>5, <1>6, <1>7, <1>8, SMTT(30)
<1>14. /\ \A k \in Used3 : t3(k) \in 1..MAX_PAGE_TABLES - 1
       /\ \A u \in Used2 : t2(u) \in 1..MAX_PAGE_TABLES - 1
  BY ONLY <1>1, <1>2, <1>5, <1>6, SMTT(30)
<1> QED
  BY <1>2, <1>9, <1>10, <1>11, <1>12, <1>13, <1>14, Zenon DEF s, i, j

(* What map_to computes, with the tables it finds or takes by their names. *)
Old3(page) == IF page[1] \notin Used3 THEN ZeroTable ELSE tables[P3Of(page)]
Old2(page) == IF <<page[1], page[2]>> \notin Used2 THEN ZeroTable ELSE tables[P2Of(page)]

LEMMA MapForm ==
  ASSUME NEW page \in Pages, NEW frame \in PageFrames, map_to(page, frame)
  PROVE  /\ table_count' = table_count + Taken(page)
         /\ tables' = [t \in DOMAIN tables |->
               CASE t = 0 -> [tables[0] EXCEPT ![page[1]] = P3Of(page)]
                 [] t = P3Of(page) -> [Old3(page) EXCEPT ![page[2]] = P2Of(page)]
                 [] t = P2Of(page) -> [Old2(page) EXCEPT ![page[3]] = frame]
                 [] OTHER -> tables[t]]
<1> DEFINE i == page[1]
           j == page[2]
           s == <<i, j>>
           p3 == P3Of(page)
           p2 == P2Of(page)
           old3 == Old3(page)
           old2 == Old2(page)
<1>1. i \in Index /\ j \in Index /\ page[3] \in Index /\ s \in Index \X Index
  BY PageMapAssumption, Zenon
<1>2. /\ i \notin Used3 <=> tables[0][i] = Unused
      /\ i \in Used3 => p3 = tables[0][i]
      /\ i \notin Used3 => p3 = table_count /\ s \notin Used2
      /\ s \in Used2 => p2 = tables[p3][j]
      /\ s \notin Used2 => p2 = IF i \in Used3 THEN table_count ELSE table_count + 1
      /\ i \in Used3 => (s \notin Used2 <=> tables[p3][j] = Unused)
  BY <1>1, Zenon DEF Used3, Used2, P3Of, P2Of, t3, t2
<1>3. /\ table_count' = table_count + (IF i \notin Used3 THEN 2 ELSE IF s \notin Used2 THEN 1 ELSE 0)
      /\ tables' = [t \in DOMAIN tables |->
            CASE t = 0 -> [tables[0] EXCEPT ![i] = p3]
              [] t = p3 -> [old3 EXCEPT ![j] = p2]
              [] t = p2 -> [old2 EXCEPT ![page[3]] = frame]
              [] OTHER -> tables[t]]
  <2> DEFINE new3 == tables[0][page[1]] = Unused
             q3 == IF new3 THEN table_count ELSE tables[0][page[1]]
             new2 == new3 \/ tables[q3][page[2]] = Unused
             q2 == IF ~new2 THEN tables[q3][page[2]]
                   ELSE IF new3 THEN table_count + 1 ELSE table_count
             clear3 == IF new3 THEN ZeroTable ELSE tables[q3]
             clear2 == IF new2 THEN ZeroTable ELSE tables[q2]
  <2>1. /\ table_count' = table_count + (IF new3 THEN 2 ELSE IF new2 THEN 1 ELSE 0)
        /\ tables' = [t \in DOMAIN tables |->
             CASE t = 0 -> [tables[0] EXCEPT ![i] = q3]
               [] t = q3 -> [clear3 EXCEPT ![j] = q2]
               [] t = q2 -> [clear2 EXCEPT ![page[3]] = frame]
               [] OTHER -> tables[t]]
    BY Zenon DEF map_to
  <2> HIDE DEF p3, p2, s
  <2>2. (new3 <=> i \notin Used3) /\ q3 = p3
    BY <1>2, Zenon
  <2> HIDE DEF q3, new3
  <2>3. (new2 <=> s \notin Used2) /\ q2 = p2
    BY <1>2, <2>2, Zenon
  <2> HIDE DEF q2, new2
  <2>4. clear3 = old3 /\ clear2 = old2
    BY <2>2, <2>3, Zenon DEF Old3, Old2, p3, p2, s
  <2> HIDE DEF clear3, clear2, old3, old2, i, j
  <2> QED
    BY <2>1, <2>2, <2>3, <2>4, SMTT(30)
<1> QED
  BY <1>3, Zenon DEF Taken

(* What map_to writes: the slots of the page, and a cleared table where    *)
(* there was none.                                                         *)
LEMMA MapWrites ==
  ASSUME TablesOK, NEW page \in Pages, NEW frame \in PageFrames, map_to(page, frame),
         table_count' <= MAX_PAGE_TABLES
  PROVE  /\ table_count' = table_count + Taken(page)
         /\ DOMAIN tables' = 0..MAX_PAGE_TABLES - 1
         /\ \A t \in 0..MAX_PAGE_TABLES - 1 : tables'[t] = [k \in Index |-> tables'[t][k]]
         /\ \A k \in Index : tables'[0][k] = IF k = page[1] THEN P3Of(page) ELSE t3(k)
         /\ \A k \in Index : tables'[P3Of(page)][k] =
               IF k = page[2] THEN P2Of(page)
               ELSE IF page[1] \in Used3 THEN t2(<<page[1], k>>) ELSE Unused
         /\ \A k \in Index : tables'[P2Of(page)][k] =
               IF k = page[3] THEN frame
               ELSE IF <<page[1], page[2]>> \in Used2 THEN Entry(<<page[1], page[2]>>, k) ELSE Unused
         /\ \A t \in 1..MAX_PAGE_TABLES - 1 :
               t # P3Of(page) /\ t # P2Of(page) => tables'[t] = tables[t]
<1> DEFINE i == page[1]
           j == page[2]
           s == <<i, j>>
           p3 == P3Of(page)
           p2 == P2Of(page)
           old3 == Old3(page)
           old2 == Old2(page)
<1>1. i \in Index /\ j \in Index /\ page[3] \in Index /\ s \in Index \X Index
  BY PageMapAssumption, Zenon
<1>2. /\ i \in Used3 => p3 = tables[0][i]
      /\ s \in Used2 => i \in Used3 /\ p2 = tables[p3][j]
      /\ old3 = IF i \notin Used3 THEN ZeroTable ELSE tables[p3]
      /\ old2 = IF s \notin Used2 THEN ZeroTable ELSE tables[p2]
  BY <1>1, Zenon DEF Used3, Used2, P3Of, P2Of, t3, t2, Old3, Old2
<1>3. /\ table_count' = table_count + Taken(page)
      /\ tables' = [t \in DOMAIN tables |->
            CASE t = 0 -> [tables[0] EXCEPT ![i] = p3]
              [] t = p3 -> [old3 EXCEPT ![j] = p2]
              [] t = p2 -> [old2 EXCEPT ![page[3]] = frame]
              [] OTHER -> tables[t]]
  BY MapForm, Zenon
<1> HIDE DEF p3, p2, s, i, j, old3, old2
<1>4. /\ p3 \in 1..MAX_PAGE_TABLES - 1 /\ p2 \in 1..MAX_PAGE_TABLES - 1 /\ p3 # p2
      /\ 0 \in 0..MAX_PAGE_TABLES - 1
  BY <1>3, TablesOfPage, Zenon DEF p3, p2
<1>5. DOMAIN tables = 0..MAX_PAGE_TABLES - 1
  BY Zenon DEF TablesOK
<1>6. \A t \in 0..MAX_PAGE_TABLES - 1 : tables[t] = [k \in Index |-> tables[t][k]]
  BY Zenon DEF TablesOK
<1>7. /\ tables'[0] = [tables[0] EXCEPT ![i] = p3]
      /\ tables'[p3] = [old3 EXCEPT ![j] = p2]
      /\ tables'[p2] = [old2 EXCEPT ![page[3]] = frame]
      /\ \A t \in 1..MAX_PAGE_TABLES - 1 : t # p3 /\ t # p2 => tables'[t] = tables[t]
  BY <1>3, <1>4, <1>5, SMTT(30)
<1>8. /\ DOMAIN tables[0] = Index
      /\ DOMAIN old3 = Index /\ DOMAIN old2 = Index
      /\ old3 = [k \in Index |-> old3[k]] /\ old2 = [k \in Index |-> old2[k]]
  <2>1. /\ ZeroTable = [k \in Index |-> ZeroTable[k]]
        /\ tables[p3] = [k \in Index |-> tables[p3][k]]
        /\ tables[p2] = [k \in Index |-> tables[p2][k]]
        /\ tables[0] = [k \in Index |-> tables[0][k]]
    BY <1>4, <1>6, SMTT(30) DEF ZeroTable
  <2>2. old3 = ZeroTable \/ old3 = tables[p3]
    BY <1>2, Zenon
  <2>3. old2 = ZeroTable \/ old2 = tables[p2]
    BY <1>2, Zenon
  <2>4. old3 = [k \in Index |-> old3[k]] /\ old2 = [k \in Index |-> old2[k]]
    BY <2>1, <2>2, <2>3, Zenon
  <2> QED
    BY <2>1, <2>4, Zenon
<1>9. /\ \A k \in Index : old3[k] = IF i \in Used3 THEN t2(<<i, k>>) ELSE Unused
      /\ \A k \in Index : old2[k] = IF s \in Used2 THEN Entry(s, k) ELSE Unused
  BY <1>2, Zenon DEF ZeroTable, t2, Entry, s
<1>10. DOMAIN tables' = 0..MAX_PAGE_TABLES - 1
  BY <1>3, <1>5, Zenon
<1>11. \A t \in 0..MAX_PAGE_TABLES - 1 : tables'[t] = [k \in Index |-> tables'[t][k]]
  <2> SUFFICES ASSUME NEW t \in 0..MAX_PAGE_TABLES - 1
               PROVE  tables'[t] = [k \in Index |-> tables'[t][k]]
    BY Zenon
  <2>1. ASSUME NEW f, f = [k \in Index |-> f[k]], NEW a \in Index, NEW b,
               tables'[t] = [f EXCEPT ![a] = b]
        PROVE  tables'[t] = [k \in Index |-> tables'[t][k]]
    <3>1. [f EXCEPT ![a] = b] = [k \in Index |-> [f EXCEPT ![a] = b][k]]
      BY <2>1, Zenon
    <3> QED
      BY <2>1, <3>1, Zenon
  <2>2. CASE t # 0 /\ t # p3 /\ t # p2
    BY <2>2, <1>7, <1>6, SMTT(30)
  <2>3. CASE t = 0
    BY <2>1, <2>3, <1>1, <1>4, <1>6, <1>7, Zenon
  <2>4. CASE t = p3
    BY <2>1, <2>4, <1>1, <1>7, <1>8, Zenon
  <2>5. CASE t = p2
    BY <2>1, <2>5, <1>1, <1>7, <1>8, Zenon
  <2> QED
    BY <2>2, <2>3, <2>4, <2>5, Zenon
<1>12. \A k \in Index : tables'[0][k] = IF k = i THEN p3 ELSE t3(k)
  BY <1>7, <1>8, Zenon DEF t3
<1>13. \A k \in Index : tables'[p3][k] =
          IF k = j THEN p2 ELSE IF i \in Used3 THEN t2(<<i, k>>) ELSE Unused
  BY <1>7, <1>8, <1>9, Zenon
<1>14. \A k \in Index : tables'[p2][k] =
          IF k = page[3] THEN frame ELSE IF s \in Used2 THEN Entry(s, k) ELSE Unused
  BY <1>7, <1>8, <1>9, Zenon
<1> QED
  BY <1>3, <1>7, <1>10, <1>11, <1>12, <1>13, <1>14, Zenon DEF p3, p2, s, i, j

(* What the walk finds after map_to: the page's frame, and for every other *)
(* slot what it found before.                                              *)
LEMMA MapLookups ==
  ASSUME TablesOK, NEW page \in Pages, NEW frame \in PageFrames, map_to(page, frame),
         table_count' <= MAX_PAGE_TABLES
  PROVE  /\ Used3' = Used3 \cup {page[1]} /\ Used2' = Used2 \cup {<<page[1], page[2]>>}
         /\ \A k \in Index : t3(k)' = IF k = page[1] THEN P3Of(page) ELSE t3(k)
         /\ \A s \in Index \X Index : s[1] \in Used3' =>
               t2(s)' = IF s = <<page[1], page[2]>> THEN P2Of(page)
                        ELSE IF s[1] \in Used3 THEN t2(s) ELSE Unused
         /\ \A s \in Used2', k \in Index :
               Entry(s, k)' = IF s = <<page[1], page[2]>> /\ k = page[3] THEN frame
                              ELSE IF s \in Used2 THEN Entry(s, k) ELSE Unused
<1> DEFINE i == page[1]
           j == page[2]
           ij == <<i, j>>
           p3 == P3Of(page)
           p2 == P2Of(page)
<1>1. i \in Index /\ j \in Index /\ page[3] \in Index /\ ij \in Index \X Index
  BY PageMapAssumption, Zenon
<1>2. /\ p3 \in 1..MAX_PAGE_TABLES - 1 /\ p2 \in 1..MAX_PAGE_TABLES - 1
      /\ \A k \in Used3 : k # i => t3(k) # p3
      /\ \A k \in Used3 : t3(k) # p2
      /\ \A s \in Used2 : s # ij => t2(s) # p2
      /\ \A s \in Used2 : t2(s) # p3
      /\ \A k \in Used3 : t3(k) \in 1..MAX_PAGE_TABLES - 1
      /\ \A s \in Used2 : t2(s) \in 1..MAX_PAGE_TABLES - 1
  <2>1. table_count + Taken(page) <= MAX_PAGE_TABLES
    BY MapForm, Zenon
  <2> QED
    BY <2>1, TablesOfPage, Zenon
<1>3. /\ \A k \in Index : tables'[0][k] = IF k = i THEN p3 ELSE t3(k)
      /\ \A k \in Index : tables'[p3][k] =
            IF k = j THEN p2 ELSE IF i \in Used3 THEN t2(<<i, k>>) ELSE Unused
      /\ \A k \in Index : tables'[p2][k] =
            IF k = page[3] THEN frame ELSE IF ij \in Used2 THEN Entry(ij, k) ELSE Unused
      /\ \A t \in 1..MAX_PAGE_TABLES - 1 : t # p3 /\ t # p2 => tables'[t] = tables[t]
  BY MapWrites, Zenon
<1>4. \A s \in Index \X Index : s = <<s[1], s[2]>> /\ s[1] \in Index /\ s[2] \in Index
                                /\ (s = ij <=> s[1] = i /\ s[2] = j)
  OBVIOUS
<1> HIDE DEF p3, p2, ij, i, j
<1>5. \A k \in Index : t3(k)' = IF k = i THEN p3 ELSE t3(k)
  BY <1>3, Zenon DEF t3
<1>6. p3 # Unused /\ p2 # Unused
  BY <1>2 DEF Unused
<1>7. Used3' = Used3 \cup {i}
  BY <1>1, <1>5, <1>6, Zenon DEF Used3
<1>8. ASSUME NEW s \in Index \X Index, s[1] \in Used3'
      PROVE  t2(s)' = IF s = ij THEN p2 ELSE IF s[1] \in Used3 THEN t2(s) ELSE Unused
  <2>1. t2(s)' = tables'[t3(s[1])'][s[2]]
    BY Zenon DEF t2, t3
  <2>2. CASE s[1] = i
    <3>1. t2(s)' = tables'[p3][s[2]]
      BY <2>1, <2>2, <1>1, <1>5, Zenon
    <3>2. t2(s) = t2(<<i, s[2]>>)
      BY <2>2, <1>4, Zenon
    <3> QED
      BY <3>1, <3>2, <2>2, <1>3, <1>4, Zenon
  <2>3. CASE s[1] # i
    <3>1. s[1] \in Used3 /\ s[1] \in Index /\ s # ij
      BY <2>3, <1>4, <1>7, <1>8, Zenon
    <3>2. t3(s[1])' = t3(s[1]) /\ tables'[t3(s[1])] = tables[t3(s[1])]
      BY <3>1, <2>3, <1>2, <1>3, <1>5, Zenon
    <3>3. t2(s)' = t2(s)
      BY <2>1, <3>2, Zenon DEF t2, t3
    <3> QED
      BY <3>1, <3>3, Zenon
  <2> QED
    BY <2>2, <2>3, Zenon
<1>9. Used2' = Used2 \cup {ij}
  <2>1. ASSUME NEW s \in Index \X Index
        PROVE  s \in Used2' <=> s \in Used2 \cup {ij}
    <3>1. s \in Used2' <=> s[1] \in Used3' /\ t2(s)' # Unused
      BY Zenon DEF Used2, Unused
    <3>2. s \in Used2 <=> s[1] \in Used3 /\ t2(s) # Unused
      BY Zenon DEF Used2
    <3>3. ij[1] = i
      BY Zenon DEF ij
    <3> QED
      BY <3>1, <3>2, <3>3, <1>6, <1>7, <1>8, Zenon
  <2>2. Used2' \subseteq Index \X Index /\ Used2 \cup {ij} \subseteq Index \X Index
    BY <1>1, Zenon DEF Used2
  <2> QED
    BY <2>1, <2>2, Zenon
<1>10. ASSUME NEW s \in Used2', NEW k \in Index
       PROVE  Entry(s, k)' = IF s = ij /\ k = page[3] THEN frame
                             ELSE IF s \in Used2 THEN Entry(s, k) ELSE Unused
  <2>1. Entry(s, k)' = tables'[t2(s)'][k] /\ Entry(s, k) = tables[t2(s)][k]
    BY Zenon DEF Entry, t2
  <2>2. s \in Index \X Index /\ s[1] \in Used3'
    BY Zenon DEF Used2
  <2>3. CASE s = ij
    <3>1. t2(s)' = p2
      BY <1>8, <2>2, <2>3, Zenon
    <3> QED
      BY <3>1, <2>1, <2>3, <1>3, Zenon
  <2>4. CASE s # ij
    <3>1. s \in Used2 /\ s[1] \in Used3
      BY <2>4, <1>9, Zenon DEF Used2
    <3>2. t2(s)' = t2(s)
      BY <1>8, <2>2, <2>4, <3>1, Zenon
    <3>3. tables'[t2(s)] = tables[t2(s)]
      BY <3>1, <2>4, <1>2, <1>3, Zenon
    <3> QED
      BY <3>1, <3>2, <3>3, <2>1, <2>4, Zenon
  <2> QED
    BY <2>3, <2>4, Zenon
<1> QED
  BY <1>5, <1>7, <1>8, <1>9, <1>10, Zenon DEF p3, p2, ij, i, j

LEMMA MapKeepsTables ==
  ASSUME TablesOK, NEW page \in Pages, NEW frame \in PageFrames, map_to(page, frame),
         table_count' <= MAX_PAGE_TABLES
  PROVE  TablesOK'
<1> DEFINE i == page[1]
           ij == <<page[1], page[2]>>
           p3 == P3Of(page)
           p2 == P2Of(page)
           n == table_count
           m == table_count'
<1>1. i \in Index /\ ij \in Index \X Index /\ ij[1] = i
  BY PageMapAssumption, Zenon
<1>2. /\ n \in Nat /\ p3 # p2
      /\ \A k \in Used3 : k # i => t3(k) # p3
      /\ \A k \in Used3 : t3(k) # p2
      /\ \A s \in Used2 : s # ij => t2(s) # p2
      /\ \A s \in Used2 : t2(s) # p3
      /\ p3 \in Nat \ {0} /\ p2 \in Nat \ {0}
  BY TablesOfPage
<1>3. /\ Used3' = Used3 \cup {i} /\ Used2' = Used2 \cup {ij}
      /\ \A k \in Index : t3(k)' = IF k = i THEN p3 ELSE t3(k)
      /\ \A s \in Index \X Index : s[1] \in Used3' =>
            t2(s)' = IF s = ij THEN p2 ELSE IF s[1] \in Used3 THEN t2(s) ELSE Unused
      /\ \A s \in Used2', k \in Index :
            Entry(s, k)' = IF s = ij /\ k = page[3] THEN frame
                           ELSE IF s \in Used2 THEN Entry(s, k) ELSE Unused
  BY MapLookups, Zenon
<1>4. /\ m = n + (IF i \notin Used3 THEN 2 ELSE IF ij \notin Used2 THEN 1 ELSE 0)
      /\ i \notin Used3 => ij \notin Used2
  BY MapWrites, Zenon DEF Used2, Taken
<1>5. /\ p3 = IF i \in Used3 THEN t3(i) ELSE n
      /\ p2 = IF ij \in Used2 THEN t2(ij) ELSE IF i \in Used3 THEN n ELSE n + 1
  BY Zenon DEF P3Of, P2Of
<1>6. /\ n \in 3..MAX_PAGE_TABLES
      /\ \A k \in Index : t3(k) \in 0..n - 1
      /\ \A s \in Index \X Index : s[1] \in Used3 => t2(s) \in 0..n - 1
      /\ \A s \in Used2 : \A k \in Index : Entry(s, k) \in PageFrames \cup {Unused}
      /\ \A k, l \in Used3 : t3(k) = t3(l) => k = l
      /\ \A s, u \in Used2 : t2(s) = t2(u) => s = u
      /\ \A k \in Used3, s \in Used2 : t3(k) # t2(s)
  BY Zenon DEF TablesOK
<1>7. MAX_PAGE_TABLES \in Nat /\ m <= MAX_PAGE_TABLES
  BY PageMapAssumption, Zenon
<1>8. /\ Used3 \subseteq Index /\ Used2 \subseteq Index \X Index
      /\ \A s \in Used2 : s[1] \in Used3
  BY Zenon DEF Used2, Used3
<1> HIDE DEF i, ij, p3, p2, n, m
<1>9. m \in 3..MAX_PAGE_TABLES
  BY ONLY <1>4, <1>6, <1>7, SMTT(30)
<1>10. m \in Nat /\ n <= m /\ 1 <= n
  BY ONLY <1>4, <1>6, <1>7, SMTT(30)
<1>11. p3 \in 0..m - 1 /\ p2 \in 0..m - 1
  BY ONLY <1>1, <1>2, <1>4, <1>5, <1>6, <1>8, <1>10, SMTT(30)
<1>12. \A k \in Index : t3(k)' \in 0..m - 1
  BY ONLY <1>2, <1>3, <1>6, <1>10, <1>11, SMTT(30)
<1>13. ASSUME NEW s \in Index \X Index, s[1] \in Used3'
       PROVE  t2(s)' \in 0..m - 1
  BY ONLY <1>13, <1>2, <1>3, <1>6, <1>10, <1>11, SMTT(30) DEF Unused
<1>14. ASSUME NEW s \in Used2', NEW k \in Index
       PROVE  Entry(s, k)' \in PageFrames \cup {Unused}
  BY ONLY <1>14, <1>3, <1>6, frame \in PageFrames, SMTT(30)
<1>15. ASSUME NEW k \in Used3', NEW l \in Used3', t3(k)' = t3(l)'
       PROVE  k = l
  BY <1>15, <1>1, <1>2, <1>3, <1>6, <1>8, SMTT(30)
<1>16. \A s \in Used2' : t2(s)' = IF s = ij THEN p2 ELSE t2(s)
  BY <1>1, <1>3, <1>8, Zenon
<1>17. ASSUME NEW s \in Used2', NEW u \in Used2', t2(s)' = t2(u)'
       PROVE  s = u
  BY <1>16, <1>17, <1>2, <1>3, <1>6, SMTT(30)
<1>18. ASSUME NEW k \in Used3', NEW s \in Used2'
       PROVE  t3(k)' # t2(s)'
  BY <1>16, <1>1, <1>2, <1>3, <1>6, <1>8, SMTT(30)
<1>19. /\ DOMAIN tables' = 0..MAX_PAGE_TABLES - 1
       /\ \A t \in 0..MAX_PAGE_TABLES - 1 : tables'[t] = [k \in Index |-> tables'[t][k]]
  BY MapWrites, Zenon
<1>20. \A s \in Used2' : \A k \in Index : Entry(s, k)' \in PageFrames \cup {Unused}
  BY <1>14, Zenon
<1> QED
  BY <1>9, <1>12, <1>13, <1>15, <1>17, <1>18, <1>19, <1>20, Zenon DEF TablesOK, m, Unused

(* unmap clears one entry of a P2 table and leaves the tree as it is.      *)
LEMMA UnmapLookups ==
  ASSUME TablesOK, NEW page \in Pages, unmap(page)
  PROVE  /\ Used3' = Used3 /\ Used2' = Used2 /\ <<page[1], page[2]>> \in Used2
         /\ \A k \in Index : t3(k)' = t3(k)
         /\ \A s \in Index \X Index : s[1] \in Used3 => t2(s)' = t2(s)
         /\ \A s \in Used2, k \in Index :
               Entry(s, k)' = IF s = <<page[1], page[2]>> /\ k = page[3] THEN Unused
                              ELSE Entry(s, k)
         /\ DOMAIN tables' = DOMAIN tables
         /\ \A t \in 0..MAX_PAGE_TABLES - 1 : tables'[t] = [k \in Index |-> tables'[t][k]]
<1> DEFINE ij == <<page[1], page[2]>>
           p2 == t2(ij)
<1>1. ij \in Index \X Index /\ page[3] \in Index /\ ij[1] = page[1] /\ ij[2] = page[2]
  BY PageMapAssumption, Zenon
<1>2. ij \in Used2 /\ tables' = [tables EXCEPT ![p2][page[3]] = Unused]
  BY <1>1, Zenon DEF unmap, Used2, Used3, t2, t3
<1>3. /\ p2 \in 1..MAX_PAGE_TABLES - 1 /\ 0 \in 0..MAX_PAGE_TABLES - 1
      /\ \A k \in Used3 : t3(k) \in 1..MAX_PAGE_TABLES - 1
      /\ \A s \in Used2 : t2(s) \in 1..MAX_PAGE_TABLES - 1
  BY <1>2, TablesOfPage, Zenon
<1>4. /\ \A s, u \in Used2 : t2(s) = t2(u) => s = u
      /\ \A k \in Used3, s \in Used2 : t3(k) # t2(s)
      /\ DOMAIN tables = 0..MAX_PAGE_TABLES - 1
      /\ \A t \in 0..MAX_PAGE_TABLES - 1 : tables[t] = [k \in Index |-> tables[t][k]]
  BY Zenon DEF TablesOK
<1> HIDE DEF ij, p2
<1>5. /\ DOMAIN tables' = DOMAIN tables
      /\ \A t \in 0..MAX_PAGE_TABLES - 1 : t # p2 => tables'[t] = tables[t]
      /\ tables'[p2] = [tables[p2] EXCEPT ![page[3]] = Unused]
  BY <1>2, <1>3, <1>4, SMTT(30)
<1>6. tables[p2] = [k \in Index |-> tables[p2][k]]
  BY <1>3, <1>4, SMTT(30)
<1>7. tables'[p2] = [k \in Index |-> IF k = page[3] THEN Unused ELSE tables[p2][k]]
  BY <1>5, <1>6, Zenon
<1>8. \A t \in 0..MAX_PAGE_TABLES - 1 : tables'[t] = [k \in Index |-> tables'[t][k]]
  <2> SUFFICES ASSUME NEW t \in 0..MAX_PAGE_TABLES - 1
               PROVE  tables'[t] = [k \in Index |-> tables'[t][k]]
    BY Zenon
  <2>1. CASE t = p2
    BY <2>1, <1>7, Zenon
  <2>2. CASE t # p2
    BY <2>2, <1>4, <1>5, Zenon
  <2> QED
    BY <2>1, <2>2, Zenon
<1>9. \A k \in Index : t3(k)' = t3(k)
  BY <1>3, <1>5, SMTT(30) DEF t3
<1>10. Used3' = Used3
  BY <1>9, Zenon DEF Used3, Unused
<1>11. ASSUME NEW s \in Index \X Index, s[1] \in Used3
       PROVE  t2(s)' = t2(s)
  <2>1. t3(s[1])' = t3(s[1])
    BY <1>9, Zenon
  <2>2. t3(s[1]) # p2 /\ t3(s[1]) \in 0..MAX_PAGE_TABLES - 1
    BY <1>2, <1>3, <1>4, <1>11, SMTT(30) DEF p2
  <2> QED
    BY <2>1, <2>2, <1>5, Zenon DEF t2, t3
<1>12. Used2' = Used2
  BY <1>10, <1>11, Zenon DEF Used2, Unused
<1>13. ASSUME NEW s \in Used2, NEW k \in Index
       PROVE  Entry(s, k)' = IF s = ij /\ k = page[3] THEN Unused ELSE Entry(s, k)
  <2>1. t2(s)' = t2(s)
    BY <1>11, Zenon DEF Used2
  <2>2. Entry(s, k)' = tables'[t2(s)][k] /\ Entry(s, k) = tables[t2(s)][k]
    BY <2>1, Zenon DEF Entry, t2
  <2>3. CASE s = ij
    BY <2>2, <2>3, <1>7, Zenon DEF p2
  <2>4. CASE s # ij
    <3>1. t2(s) # p2 /\ t2(s) \in 0..MAX_PAGE_TABLES - 1
      BY <2>4, <1>2, <1>3, <1>4, SMTT(30) DEF p2
    <3> QED
      BY <3>1, <2>2, <2>4, <1>5, Zenon
  <2> QED
    BY <2>3, <2>4, Zenon
<1> QED
  BY <1>2, <1>5, <1>8, <1>9, <1>10, <1>11, <1>12, <1>13, Zenon DEF ij

LEMMA UnmapKeepsTables ==
  ASSUME TablesOK, NEW page \in Pages, unmap(page)
  PROVE  TablesOK'
<1>1. /\ Used3' = Used3 /\ Used2' = Used2
      /\ \A k \in Index : t3(k)' = t3(k)
      /\ \A s \in Index \X Index : s[1] \in Used3 => t2(s)' = t2(s)
      /\ \A s \in Used2, k \in Index :
            Entry(s, k)' = IF s = <<page[1], page[2]>> /\ k = page[3] THEN Unused
                           ELSE Entry(s, k)
      /\ DOMAIN tables' = DOMAIN tables
      /\ \A t \in 0..MAX_PAGE_TABLES - 1 : tables'[t] = [k \in Index |-> tables'[t][k]]
  BY UnmapLookups, Zenon
<1>2. table_count' = table_count
  BY Zenon DEF unmap
<1>3. /\ Used3 \subseteq Index /\ Used2 \subseteq Index \X Index
      /\ \A s \in Used2 : s[1] \in Used3
  BY Zenon DEF Used3, Used2
<1>4. \A s \in Used2 : \A k \in Index : Entry(s, k)' \in PageFrames \cup {Unused}
  <2>1. \A s \in Used2 : \A k \in Index : Entry(s, k) \in PageFrames \cup {Unused}
    BY Zenon DEF TablesOK
  <2> QED
    BY <1>1, <2>1, Zenon
<1>5. table_count' \in 3..MAX_PAGE_TABLES
  BY <1>2, Zenon DEF TablesOK
<1>6. /\ \A i \in Index : t3(i)' \in 0..table_count' - 1
      /\ \A s \in Index \X Index : s[1] \in Used3' => t2(s)' \in 0..table_count' - 1
  BY <1>1, <1>2 DEF TablesOK
<1>7. /\ \A i, k \in Used3' : t3(i)' = t3(k)' => i = k
      /\ \A s, u \in Used2' : t2(s)' = t2(u)' => s = u
      /\ \A i \in Used3', s \in Used2' : t3(i)' # t2(s)'
  <2>1. \A i \in Used3 : t3(i)' = t3(i)
    BY <1>1, <1>3, Zenon
  <2>2. \A s \in Used2 : t2(s)' = t2(s)
    BY <1>1, <1>3, Zenon
  <2>3. /\ \A i, k \in Used3 : t3(i) = t3(k) => i = k
        /\ \A s, u \in Used2 : t2(s) = t2(u) => s = u
        /\ \A i \in Used3, s \in Used2 : t3(i) # t2(s)
    BY Zenon DEF TablesOK
  <2> QED
    BY ONLY <1>1, <2>1, <2>2, <2>3, SMTT(30)
<1> QED
  BY <1>1, <1>4, <1>5, <1>6, <1>7, Zenon DEF TablesOK, Unused

(* At the start one page is mapped, the one through which the tables see   *)
(* themselves.                                                             *)
LEMMA InitTables ==
  ASSUME PageMapInit
  PROVE  /\ TablesOK
         /\ Used2 = {<<TablePage[1], TablePage[2]>>}
         /\ \A k \in Index : Entry(<<TablePage[1], TablePage[2]>>, k) =
                             IF k = TablePage[3] THEN TableFrame ELSE Unused
<1> DEFINE a == TablePage[1]
           b == TablePage[2]
           c == TablePage[3]
           N == MAX_PAGE_TABLES
<1>1. a \in Index /\ b \in Index /\ c \in Index /\ <<a, b>> \in Index \X Index
  BY PageMapAssumption, Zenon
<1>2. N \in Nat /\ 3 <= N
  BY PageMapAssumption, SMTT(30)
<1>3. /\ DOMAIN tables = 0..N - 1
      /\ tables[0] = [k \in Index |-> IF k = a THEN 1 ELSE Unused]
      /\ tables[1] = [k \in Index |-> IF k = b THEN 2 ELSE Unused]
      /\ tables[2] = [k \in Index |-> IF k = c THEN TableFrame ELSE Unused]
      /\ \A t \in 3..N - 1 : tables[t] = [k \in Index |-> Garbage]
  <2>1. /\ DOMAIN tables = 0..N - 1
        /\ tables[0] = [ZeroTable EXCEPT ![a] = 1]
        /\ tables[1] = [ZeroTable EXCEPT ![b] = 2]
        /\ tables[2] = [ZeroTable EXCEPT ![c] = TableFrame]
        /\ \A t \in 3..N - 1 : tables[t] = [k \in Index |-> Garbage]
    <3> DEFINE first == [ZeroTable EXCEPT ![a] = 1]
               second == [ZeroTable EXCEPT ![b] = 2]
               third == [ZeroTable EXCEPT ![c] = TableFrame]
               dirty == [k \in Index |-> Garbage]
    <3>1. tables = [t \in 0..N - 1 |-> CASE t = 0 -> first [] t = 1 -> second [] t = 2 -> third
                                         [] OTHER -> dirty]
      BY Zenon DEF PageMapInit
    <3>2. /\ 0 \in 0..N - 1 /\ 1 \in 0..N - 1 /\ 2 \in 0..N - 1
          /\ \A t \in 3..N - 1 : t \in 0..N - 1 /\ t # 0 /\ t # 1 /\ t # 2
      BY <1>2, SMTT(30)
    <3> HIDE DEF first, second, third, dirty
    <3>3. /\ DOMAIN tables = 0..N - 1 /\ tables[0] = first /\ tables[1] = second /\ tables[2] = third
          /\ \A t \in 3..N - 1 : tables[t] = dirty
      BY <3>1, <3>2, SMTT(30)
    <3> QED
      BY <3>3, Zenon DEF first, second, third, dirty
  <2>2. tables[0] = [k \in Index |-> IF k = a THEN 1 ELSE Unused]
    BY <1>1, <2>1, Zenon DEF ZeroTable
  <2>3. tables[1] = [k \in Index |-> IF k = b THEN 2 ELSE Unused]
    BY <1>1, <2>1, Zenon DEF ZeroTable
  <2>4. tables[2] = [k \in Index |-> IF k = c THEN TableFrame ELSE Unused]
    BY <1>1, <2>1, Zenon DEF ZeroTable
  <2> QED
    BY <2>1, <2>2, <2>3, <2>4, Zenon
<1>4. \A t \in 0..N - 1 : tables[t] = [k \in Index |-> tables[t][k]]
  <2> SUFFICES ASSUME NEW t \in 0..N - 1
               PROVE  tables[t] = [k \in Index |-> tables[t][k]]
    BY Zenon
  <2>1. CASE t = 0
    BY <2>1, <1>3, Zenon
  <2>2. CASE t = 1
    BY <2>2, <1>3, Zenon
  <2>3. CASE t = 2
    BY <2>3, <1>3, Zenon
  <2>4. CASE t \in 3..N - 1
    BY <2>4, <1>3, SMTT(30)
  <2> QED
    BY <1>2, <2>1, <2>2, <2>3, <2>4, SMTT(30)
<1> HIDE DEF a, b, c, N
<1>5. \A k \in Index : t3(k) = IF k = a THEN 1 ELSE 0
  BY <1>3, Zenon DEF t3, Unused
<1>6. Used3 = {a}
  BY <1>1, <1>5, SMTT(30) DEF Used3, Unused
<1>7. \A s \in Index \X Index : s[1] = a => t2(s) = IF s[2] = b THEN 2 ELSE 0
  <2> SUFFICES ASSUME NEW s \in Index \X Index, s[1] = a
               PROVE  t2(s) = IF s[2] = b THEN 2 ELSE 0
    BY Zenon
  <2>1. t2(s) = tables[t3(s[1])][s[2]] /\ t3(s[1]) = 1 /\ s[2] \in Index
    BY <1>1, <1>5, Zenon DEF t2, t3
  <2> QED
    BY <2>1, <1>3, SMTT(30) DEF Unused
<1>8. Used2 = {<<a, b>>}
  <2>1. ASSUME NEW s \in Index \X Index
        PROVE  s \in Used2 <=> s = <<a, b>>
    BY <1>1, <1>6, <1>7, SMTT(30) DEF Used2, Unused
  <2> QED
    BY <2>1, <1>1, Zenon DEF Used2
<1>9. \A k \in Index : Entry(<<a, b>>, k) = IF k = c THEN TableFrame ELSE Unused
  <2>1. t2(<<a, b>>) = 2
    BY <1>1, <1>7, Zenon
  <2>2. \A k \in Index : Entry(<<a, b>>, k) = tables[2][k]
    BY <2>1, Zenon DEF Entry, t2
  <2>3. \A k \in Index : tables[2][k] = IF k = c THEN TableFrame ELSE Unused
    BY <1>3, Zenon
  <2> QED
    BY <2>2, <2>3, Zenon
<1>10. table_count \in 3..N
  BY <1>2, SMTT(30) DEF PageMapInit
<1>11. table_count = 3
  BY Zenon DEF PageMapInit
<1>12. /\ \A i \in Index : t3(i) \in 0..table_count - 1
       /\ \A s \in Index \X Index : s[1] \in Used3 => t2(s) \in 0..table_count - 1
  BY <1>5, <1>6, <1>7, <1>11, SMTT(30)
<1>13. /\ \A i, k \in Used3 : t3(i) = t3(k) => i = k
       /\ \A s, u \in Used2 : t2(s) = t2(u) => s = u
       /\ \A i \in Used3, s \in Used2 : t3(i) # t2(s)
  <2>1. t3(a) = 1 /\ t2(<<a, b>>) = 2
    BY <1>1, <1>5, <1>7, Zenon
  <2> QED
    BY <2>1, <1>6, <1>8, SMTT(30)
<1>14. \A s \in Used2 : \A k \in Index : Entry(s, k) \in PageFrames \cup {Unused}
  BY <1>8, <1>9, PageMapAssumption, Zenon
<1> QED
  BY <1>3, <1>4, <1>8, <1>9, <1>10, <1>12, <1>13, <1>14, Zenon DEF TablesOK, N, a, b, c

LEMMA TablesInvariant == PageMapSpec => [](table_count <= MAX_PAGE_TABLES => TablesOK)
<1> DEFINE Inv == table_count <= MAX_PAGE_TABLES => TablesOK
<1>1. PageMapInit => Inv
  BY InitTables, Zenon
<1>2. Inv /\ [PageMapNext]_pageMapVars => Inv'
  <2> SUFFICES ASSUME Inv, [PageMapNext]_pageMapVars, (table_count <= MAX_PAGE_TABLES)' PROVE TablesOK'
    BY Zenon
  <2>1. CASE PageMapNext
    <3>1. TablesOK
      BY <2>1, Zenon DEF PageMapNext
    <3> QED
      BY <2>1, <3>1, MapKeepsTables, UnmapKeepsTables, Zenon DEF PageMapNext
  <2>2. CASE UNCHANGED pageMapVars
    <3>1. tables' = tables /\ table_count' = table_count
      BY <2>2, Zenon DEF pageMapVars
    <3>2. /\ \A i : t3(i)' = t3(i)
          /\ \A s : t2(s)' = t2(s)
          /\ \A s, k : Entry(s, k)' = Entry(s, k)
      BY <3>1, Zenon DEF t3, t2, Entry
    <3>3. Used3' = Used3 /\ Used2' = Used2
      BY <3>2, Zenon DEF Used3, Used2, Unused
    <3>4. TablesOK
      BY <3>1, Zenon
    <3> QED
      BY <3>1, <3>2, <3>3, <3>4, Zenon DEF TablesOK, Unused
  <2> QED
    BY <2>1, <2>2, Zenon
<1> QED
  BY <1>1, <1>2, PTL DEF PageMapSpec

(* translate in terms of the slots, while the tables are inside the huge   *)
(* page.                                                                   *)
LEMMA TranslateEntry ==
  ASSUME NEW page \in Pages
  PROVE  /\ TablesOK => translate(page) = IF <<page[1], page[2]>> \in Used2
                                          THEN Entry(<<page[1], page[2]>>, page[3]) ELSE Unused
         /\ TablesOK' => translate(page)' = IF <<page[1], page[2]>> \in Used2'
                                            THEN Entry(<<page[1], page[2]>>, page[3])' ELSE Unused
         /\ <<page[1], page[2]>> \in Index \X Index /\ page[3] \in Index
         /\ page = <<page[1], page[2], page[3]>>
<1>1. page[1] \in Index /\ page[2] \in Index /\ page[3] \in Index
      /\ page = <<page[1], page[2], page[3]>>
  BY PageMapAssumption, SMTT(30)
<1>2. ASSUME TablesOK
      PROVE  /\ t3(page[1]) < MAX_PAGE_TABLES
             /\ page[1] \in Used3 => t2(<<page[1], page[2]>>) < MAX_PAGE_TABLES
  <2>1. table_count \in Nat /\ table_count <= MAX_PAGE_TABLES /\ MAX_PAGE_TABLES \in Nat
    BY <1>2, PageMapAssumption, SMTT(30) DEF TablesOK
  <2>2. /\ t3(page[1]) \in 0..table_count - 1
        /\ page[1] \in Used3 => t2(<<page[1], page[2]>>) \in 0..table_count - 1
    BY <1>1, <1>2, Zenon DEF TablesOK
  <2> QED
    BY ONLY <2>1, <2>2, SMTT(30)
<1>3. ASSUME TablesOK'
      PROVE  /\ t3(page[1])' < MAX_PAGE_TABLES
             /\ page[1] \in Used3' => t2(<<page[1], page[2]>>)' < MAX_PAGE_TABLES
  <2>1. table_count' \in Nat /\ table_count' <= MAX_PAGE_TABLES /\ MAX_PAGE_TABLES \in Nat
    BY <1>3, PageMapAssumption, SMTT(30) DEF TablesOK
  <2>2. /\ t3(page[1])' \in 0..table_count' - 1
        /\ page[1] \in Used3' => t2(<<page[1], page[2]>>)' \in 0..table_count' - 1
    BY <1>1, <1>3, Zenon DEF TablesOK
  <2> QED
    BY ONLY <2>1, <2>2, SMTT(30)
<1>4. TablesOK => translate(page) = IF <<page[1], page[2]>> \in Used2
                                    THEN Entry(<<page[1], page[2]>>, page[3]) ELSE Unused
  BY <1>1, <1>2, Zenon DEF translate, entry, Used2, Used3, Entry, t2, t3
<1>5. TablesOK' => translate(page)' = IF <<page[1], page[2]>> \in Used2'
                                      THEN Entry(<<page[1], page[2]>>, page[3])' ELSE Unused
  BY <1>1, <1>3, Zenon DEF translate, entry, Used2, Used3, Entry, t2, t3
<1> QED
  BY <1>1, <1>4, <1>5, Zenon

LEMMA InitFlat == PageMapInit => Flat!FlatInit
<1> SUFFICES ASSUME PageMapInit PROVE Flat!FlatInit
  BY Zenon
<1>1. \A s \in Used2 : \A k \in Index : Entry(s, k) \in PageFrames \cup {Unused}
  BY InitTables, Zenon DEF TablesOK
<1>2. Translation \in [Pages -> PageFrames \cup {Unused}]
  <2>1. ASSUME NEW p \in Pages PROVE translate(p) \in PageFrames \cup {Unused}
    <3>1. /\ translate(p) = IF <<p[1], p[2]>> \in Used2 THEN Entry(<<p[1], p[2]>>, p[3]) ELSE Unused
          /\ p[3] \in Index
      BY InitTables, TranslateEntry, Zenon
    <3> QED
      BY <1>1, <3>1, Zenon
  <2> QED
    BY <2>1, Zenon DEF Translation
<1>3. ASSUME NEW p \in Pages, translate(p) # Unused
      PROVE  p = TablePage
  <2>1. <<p[1], p[2]>> = <<TablePage[1], TablePage[2]>> /\ p[3] = TablePage[3]
    BY <1>3, TranslateEntry, InitTables, Zenon
  <2>2. TablePage = <<TablePage[1], TablePage[2], TablePage[3]>>
    BY TranslateEntry, PageMapAssumption, Zenon
  <2>3. p = <<p[1], p[2], p[3]>>
    BY TranslateEntry, Zenon
  <2> QED
    BY <2>1, <2>2, <2>3, Zenon
<1>4. \A p, q \in Pages : Translation[p] # Unused /\ Translation[q] # Unused => p = q
  BY <1>3, Zenon DEF Translation
<1> QED
  BY <1>2, <1>4, Zenon DEF Flat!FlatInit, Translation

LEMMA MapStep ==
  ASSUME TablesOK, NEW page \in Pages, NEW frame \in PageFrames, map_to(page, frame),
         table_count' <= MAX_PAGE_TABLES
  PROVE  Translation' = [Translation EXCEPT ![page] = frame]
<1>1. /\ Used2' = Used2 \cup {<<page[1], page[2]>>}
      /\ \A s \in Used2', k \in Index :
            Entry(s, k)' = IF s = <<page[1], page[2]>> /\ k = page[3] THEN frame
                           ELSE IF s \in Used2 THEN Entry(s, k) ELSE Unused
  BY MapLookups, Zenon
<1>a. TablesOK'
  BY MapKeepsTables, Zenon
<1>2. ASSUME NEW p \in Pages
      PROVE  translate(p)' = IF p = page THEN frame ELSE translate(p)
  <2> DEFINE s == <<p[1], p[2]>>
             u == <<page[1], page[2]>>
  <2>1. /\ translate(p) = IF s \in Used2 THEN Entry(s, p[3]) ELSE Unused
        /\ p[3] \in Index
    BY TranslateEntry, Zenon
  <2>2. translate(p)' = IF s \in Used2' THEN Entry(s, p[3])' ELSE Unused
    BY <1>a, TranslateEntry, Zenon
  <2>3. p = page <=> s = u /\ p[3] = page[3]
    <3>1. p = <<p[1], p[2], p[3]>> /\ page = <<page[1], page[2], page[3]>>
      BY TranslateEntry, Zenon
    <3> QED
      BY <3>1, Zenon
  <2> HIDE DEF s, u
  <2>4. /\ Used2' = Used2 \cup {u}
        /\ \A x \in Used2', k \in Index :
              Entry(x, k)' = IF x = u /\ k = page[3] THEN frame
                             ELSE IF x \in Used2 THEN Entry(x, k) ELSE Unused
    BY <1>1, Zenon DEF u
  <2> QED
    BY <2>1, <2>2, <2>3, <2>4, Zenon
<1>3. Translation' = [p \in Pages |-> translate(p)']
  BY Zenon DEF Translation
<1> QED
  BY <1>2, <1>3, Zenon DEF Translation

LEMMA UnmapStep ==
  ASSUME TablesOK, NEW page \in Pages, unmap(page)
  PROVE  Translation' = [Translation EXCEPT ![page] = Unused]
<1>a. TablesOK'
  BY UnmapKeepsTables, Zenon
<1>1. ASSUME NEW p \in Pages
      PROVE  translate(p)' = IF p = page THEN Unused ELSE translate(p)
  <2> DEFINE s == <<p[1], p[2]>>
             u == <<page[1], page[2]>>
  <2>1. /\ translate(p) = IF s \in Used2 THEN Entry(s, p[3]) ELSE Unused
        /\ translate(p)' = IF s \in Used2' THEN Entry(s, p[3])' ELSE Unused
        /\ p[3] \in Index
    BY <1>a, TranslateEntry, Zenon
  <2>2. p = page <=> s = u /\ p[3] = page[3]
    <3>1. p = <<p[1], p[2], p[3]>> /\ page = <<page[1], page[2], page[3]>>
      BY TranslateEntry, Zenon
    <3> QED
      BY <3>1, Zenon
  <2>3. /\ Used2' = Used2
        /\ \A x \in Used2, k \in Index :
              Entry(x, k)' = IF x = u /\ k = page[3] THEN Unused ELSE Entry(x, k)
    BY UnmapLookups, Zenon
  <2> HIDE DEF s, u
  <2> QED
    BY <2>1, <2>2, <2>3, Zenon
<1>2. Translation' = [p \in Pages |-> translate(p)']
  BY Zenon DEF Translation
<1> QED
  BY <1>1, <1>2, Zenon DEF Translation

(* The call of map_to that runs out of tables only adds to the tables that *)
(* lead to pages that are mapped.                                          *)
LEMMA OverrunStep ==
  ASSUME TablesOK, NEW page \in Pages, NEW frame \in PageFrames, map_to(page, frame),
         ~(table_count' <= MAX_PAGE_TABLES), NEW q \in Pages, translate(q) # Unused
  PROVE  translate(q)' = translate(q)
<1> DEFINE ij == <<page[1], page[2]>>
           p3 == P3Of(page)
           p2 == P2Of(page)
           s == <<q[1], q[2]>>
<1>1. s \in Used2 /\ s \in Index \X Index /\ q[1] \in Used3 /\ q[1] \in Index /\ q[2] \in Index
  BY TranslateEntry, Zenon DEF Used2, Used3
<1>2. ij \notin Used2
  <2>1. table_count' = table_count + Taken(page) /\ table_count \in 3..MAX_PAGE_TABLES
    BY MapForm, Zenon DEF TablesOK
  <2>2. MAX_PAGE_TABLES \in Nat
    BY PageMapAssumption, Zenon
  <2>3. Taken(page) # 0
    BY <2>1, <2>2, SMTT(30)
  <2> QED
    BY <2>3, Zenon DEF Taken, Used2
<1>3. /\ t3(q[1]) \in 1..MAX_PAGE_TABLES - 1 /\ t2(s) \in 1..MAX_PAGE_TABLES - 1
      /\ 0 \in 0..MAX_PAGE_TABLES - 1
      /\ t3(q[1]) # p2 /\ t2(s) # p2 /\ t2(s) # p3 /\ p3 # 0
      /\ q[1] # page[1] => t3(q[1]) # p3
  <2>1. s # ij
    BY <1>1, <1>2, Zenon
  <2> HIDE DEF s, ij
  <2>2. p3 \in Nat \ {0}
    BY TablesOfPage, Zenon
  <2>3. p3 # 0
    BY <2>2, Zenon
  <2> QED
    BY <1>1, <2>1, <2>3, TablesOfPage, Zenon DEF ij
<1>4. /\ DOMAIN tables = 0..MAX_PAGE_TABLES - 1
      /\ \A t \in 0..MAX_PAGE_TABLES - 1 : tables[t] = [k \in Index |-> tables[t][k]]
  BY Zenon DEF TablesOK
<1>5. tables' = [t \in DOMAIN tables |->
        CASE t = 0 -> [tables[0] EXCEPT ![page[1]] = p3]
          [] t = p3 -> [Old3(page) EXCEPT ![page[2]] = p2]
          [] t = p2 -> [Old2(page) EXCEPT ![page[3]] = frame]
          [] OTHER -> tables[t]]
  BY MapForm, Zenon
<1>6. q[1] = page[1] => p3 = t3(q[1]) /\ Old3(page) = tables[p3] /\ q[2] # page[2]
  BY <1>1, <1>2, Zenon DEF P3Of, Old3
<1> HIDE DEF ij, p3, p2
<1>7. tables'[0] = [tables[0] EXCEPT ![page[1]] = p3]
  <2>1. 0 \in DOMAIN tables
    BY <1>3, <1>4, Zenon
  <2> DEFINE new0 == [tables[0] EXCEPT ![page[1]] = p3]
             new3 == [Old3(page) EXCEPT ![page[2]] = p2]
             new2 == [Old2(page) EXCEPT ![page[3]] = frame]
  <2>2. tables' = [t \in DOMAIN tables |->
          CASE t = 0 -> new0 [] t = p3 -> new3 [] t = p2 -> new2 [] OTHER -> tables[t]]
    BY <1>5, Zenon
  <2>3. p3 # 0 /\ p2 # 0
    BY TablesOfPage, SMTT(30) DEF p3, p2
  <2> HIDE DEF new0, new3, new2
  <2>4. tables'[0] = new0
    BY ONLY <2>1, <2>2, <2>3, SMTT(30)
  <2> QED
    BY <2>4, Zenon DEF new0
<1>8. t3(q[1])' = t3(q[1])
  <2>1. tables[0] = [k \in Index |-> tables[0][k]]
    BY <1>3, <1>4, Zenon
  <2> QED
    BY <1>1, <1>6, <1>7, <2>1, Zenon DEF t3
<1>9. tables'[t2(s)] = tables[t2(s)]
  BY <1>3, <1>4, <1>5, SMTT(30)
<1>10. tables'[t3(q[1])][q[2]] = tables[t3(q[1])][q[2]]
  <2>1. CASE q[1] = page[1]
    <3>1. tables'[t3(q[1])] = [tables[p3] EXCEPT ![page[2]] = p2]
      BY <1>3, <1>4, <1>5, <1>6, <2>1, SMTT(30)
    <3>2. p3 \in 0..MAX_PAGE_TABLES - 1
      BY <1>3, <1>6, <2>1, SMTT(30)
    <3>3. tables[p3] = [k \in Index |-> tables[p3][k]]
      BY <1>4, <3>2, Zenon
    <3> QED
      BY <1>1, <1>6, <2>1, <3>1, <3>3, Zenon
  <2>2. CASE q[1] # page[1]
    <3>1. tables'[t3(q[1])] = tables[t3(q[1])]
      BY <1>3, <1>4, <1>5, <2>2, SMTT(30)
    <3> QED
      BY <3>1, Zenon
  <2> QED
    BY <2>1, <2>2, Zenon
<1>11. t2(s) = tables[t3(q[1])][q[2]] /\ t2(s) # Unused /\ t3(q[1]) # Unused
  BY <1>1, Zenon DEF t2, t3, Used2, Used3
<1>12. t3(q[1]) < MAX_PAGE_TABLES /\ t2(s) < MAX_PAGE_TABLES
  BY <1>3, PageMapAssumption, SMTT(30)
<1>13. translate(q) = tables[t2(s)][q[3]]
  BY <1>11, <1>12, Zenon DEF translate, entry, t3
<1>14. translate(q)' = tables'[t2(s)][q[3]]
  BY <1>8, <1>10, <1>11, <1>12, Zenon DEF translate, entry, t3, Unused
<1> QED
  BY <1>9, <1>13, <1>14, Zenon

(***************************************************************************)
(* The page tables behave as one mapping while they fit in the huge page,  *)
(* whatever the number of indices, pages, frames and tables: map_to and    *)
(* unmap change the page they are given and no other, also when map_to     *)
(* takes tables from memory that was never cleared; and the call that runs *)
(* out of tables leaves every page that was mapped as it was.              *)
(***************************************************************************)
THEOREM PageMapImplementsFlat == PageMapSpec => ImplementsFlatMap
<1> DEFINE Step == IF table_count' <= MAX_PAGE_TABLES THEN Flat!FlatNext
                   ELSE \A page \in Pages :
                          translate(page) # Unused => translate(page)' = translate(page)
<1>1. PageMapInit => Flat!FlatInit
  BY InitFlat, Zenon
<1>2. (table_count <= MAX_PAGE_TABLES => TablesOK) /\ [PageMapNext]_pageMapVars => [Step]_Translation
  <2> SUFFICES ASSUME table_count <= MAX_PAGE_TABLES => TablesOK, [PageMapNext]_pageMapVars
               PROVE  [Step]_Translation
    BY Zenon
  <2>1. CASE PageMapNext
    <3>1. TablesOK
      BY <2>1, Zenon DEF PageMapNext
    <3>2. ASSUME NEW page \in Pages, NEW frame \in PageFrames, map_to(page, frame)
          PROVE  Step
      <4>1. CASE table_count' <= MAX_PAGE_TABLES
        BY <3>1, <3>2, <4>1, MapStep, Zenon DEF Flat!FlatNext
      <4>2. CASE ~(table_count' <= MAX_PAGE_TABLES)
        BY <3>1, <3>2, <4>2, OverrunStep, Zenon
      <4> QED
        BY <4>1, <4>2, Zenon
    <3>3. ASSUME NEW page \in Pages, unmap(page)
          PROVE  Step
      <4>1. table_count' <= MAX_PAGE_TABLES
        BY <2>1, <3>3, Zenon DEF PageMapNext, unmap
      <4>2. Flat!FlatNext
        BY <3>1, <3>3, UnmapStep, Zenon DEF Flat!FlatNext
      <4> QED
        BY <4>1, <4>2, Zenon
    <3> QED
      BY <2>1, <3>2, <3>3, Zenon DEF PageMapNext
  <2>2. CASE UNCHANGED pageMapVars
    BY <2>2, Zenon DEF pageMapVars, Translation, translate, entry
  <2> QED
    BY <2>1, <2>2, Zenon
<1>3. PageMapSpec => [](table_count <= MAX_PAGE_TABLES => TablesOK)
  BY TablesInvariant, Zenon
<1> QED
  BY <1>1, <1>2, <1>3, PTL DEF PageMapSpec, ImplementsFlatMap

-----------------------------------------------------------------------------
(***************************************************************************)
(* Packets pass the network cards in order, each once, for rings of any    *)
(* size and any number of packets.                                         *)
(***************************************************************************)

(***************************************************************************)
(* Places in a ring of n are counted on without end and taken modulo n.    *)
(***************************************************************************)
LEMMA RingFacts ==
    ASSUME NEW n \in Nat, n > 0
    PROVE  \A x \in Nat : /\ (x % n) \in 0..n - 1
                          /\ \E q \in Nat : x = q * n + (x % n)
<1>1. \A x \in Nat : (x % n) \in 0..n - 1 /\ x \div n \in Nat /\ x = (x \div n) * n + (x % n)
  OBVIOUS
<1> QED BY <1>1, Zenon

(* Places less than a ring apart are apart in it.                          *)
LEMMA RingApart ==
    ASSUME NEW n \in Nat, n > 0, NEW x \in Nat, NEW y \in Nat, x <= y, y < x + n, x % n = y % n
    PROVE  x = y
<1>1. PICK q \in Nat : x = q * n + (x % n)
  BY RingFacts, Zenon
<1>2. PICK p \in Nat : y = p * n + (y % n)
  BY RingFacts, Zenon
<1>3. y - x = (p - q) * n
  BY <1>1, <1>2, SMTT(30)
<1>4. p - q \in Int /\ (p - q >= 1 => (p - q) * n >= n) /\ (p - q <= -1 => (p - q) * n <= -n)
  BY SMTT(30)
<1> QED BY <1>3, <1>4, SMTT(30)

(* The k-th place after (x % n).                                             *)
LEMMA RingStep ==
    ASSUME NEW n \in Nat, n > 0, NEW x \in Nat, NEW k \in 0..n
    PROVE  (x + k) % n = IF (x % n) + k >= n THEN (x % n) + k - n ELSE (x % n) + k
<1> DEFINE r == IF (x % n) + k >= n THEN (x % n) + k - n ELSE (x % n) + k
<1>1. PICK q \in Nat : x = q * n + (x % n)
  BY RingFacts, Zenon
<1>2. (x % n) \in 0..n - 1
  BY RingFacts, Zenon
<1>3. r \in 0..n - 1
  BY <1>2
<1>4. \E p \in Nat : x + k = p * n + r
  <2>1. CASE (x % n) + k >= n
    <3>1. x + k = (q + 1) * n + r
      BY <1>1, <1>2, <2>1, SMTT(30)
    <3> QED BY <3>1, q + 1 \in Nat, Zenon, SMTT(30)
  <2>2. CASE ~((x % n) + k >= n)
    <3>1. x + k = q * n + r
      BY <1>1, <1>2, <2>2, SMTT(30)
    <3> QED BY <3>1, Zenon
  <2> QED BY <2>1, <2>2, Zenon
<1>5. PICK p \in Nat : x + k = p * n + r
  BY <1>4, Zenon
<1>6. PICK m \in Nat : x + k = m * n + ((x + k) % n)
  <2>1. x + k \in Nat
    OBVIOUS
  <2> QED BY <2>1, RingFacts, Zenon
<1>7. (x + k) % n \in 0..n - 1
  <2>1. x + k \in Nat
    BY SMTT(30)
  <2> QED BY <2>1, RingFacts, Zenon
<1>8. r - ((x + k) % n) = (m - p) * n
  BY <1>3, <1>5, <1>6, <1>7, SMTT(30)
<1>9. m - p \in Int /\ (m - p >= 1 => (m - p) * n >= n) /\ (m - p <= -1 => (m - p) * n <= -n)
  OBVIOUS
<1> QED BY <1>3, <1>7, <1>8, <1>9, SMTT(30)

(* Once around.                                                            *)
LEMMA RingTurn ==
    ASSUME NEW n \in Nat, n > 0, NEW x \in Nat
    PROVE  (x + n) % n = x % n
<1>1. n \in 0..n
  OBVIOUS
<1>2. (x + n) % n = IF (x % n) + n >= n THEN (x % n) + n - n ELSE (x % n) + n
  BY <1>1, RingStep, Zenon
<1>3. (x % n) \in 0..n - 1
  BY RingFacts, Zenon
<1> QED BY <1>2, <1>3, SMTT(30)

(* Going on from a place of the ring is going on from where it comes from. *)
LEMMA RingPlus ==
    ASSUME NEW n \in Nat, n > 0, NEW x \in Nat, NEW k \in 0..n
    PROVE  ((x % n) + k) % n = (x + k) % n
<1>1. (x % n) \in Nat /\ (x % n) % n = x % n
  BY RingFacts, SMTT(30)
<1>2. (x + k) % n = IF (x % n) + k >= n THEN (x % n) + k - n ELSE (x % n) + k
  BY RingStep, Zenon
<1>3. ((x % n) + k) % n = IF ((x % n) % n) + k >= n THEN ((x % n) % n) + k - n ELSE ((x % n) % n) + k
  BY <1>1, RingStep, Zenon
<1> QED BY <1>1, <1>2, <1>3, Zenon

-----------------------------------------------------------------------------
(***************************************************************************)
(* The receiving half of the RTL8139, for a ring of any size.  The card    *)
(* was told of place a, the driver reads at r and the card writes at w;    *)
(* the headers of the packets between are at the places in H, each one     *)
(* names the next, and the last one is that of the last packet stored.     *)
(***************************************************************************)
Links(x, w, H) ==
    LET h == rx[x % RX_BUFFER_SIZE]
        next == x + h.len
    IN /\ h.kind = "header" /\ h.len \in {1, 2} /\ next <= w
       /\ next < w => next \in H /\ rx[next % RX_BUFFER_SIZE].id = h.id + 1
       /\ next = w => h.id = rtl_received

Counted(s) == s \in Seq(Nat) /\ s = [i \in 1..Len(s) |-> i]

RowOfPackets(a, r, w, H) ==
    /\ a <= r /\ r <= w /\ w < a + RX_BUFFER_SIZE
    /\ capr = a % RX_BUFFER_SIZE /\ rx_offset = r % RX_BUFFER_SIZE /\ cbr = w % RX_BUFFER_SIZE
    /\ H \subseteq r..w - 1 /\ \A x \in H : Links(x, w, H)
    /\ rtl_received \in Nat /\ Counted(rtl_delivered)
    /\ r < w => r \in H /\ rx[rx_offset].id = Len(rtl_delivered) + 1
    /\ r = w => Len(rtl_delivered) = rtl_received
    /\ rtl_pc = "capr" => r < w /\ rx_header = rx[rx_offset]

RxInv == ~stale => /\ rtl_pc # "lost"
                   /\ \E a, r, w \in Nat : \E H \in SUBSET Nat : RowOfPackets(a, r, w, H)

(* The next number keeps a sequence counted.                               *)
LEMMA CountedAppend ==
    ASSUME NEW s, Counted(s)
    PROVE  Counted(Append(s, Len(s) + 1)) /\ Len(Append(s, Len(s) + 1)) = Len(s) + 1 /\ Len(s) \in Nat
BY DEF Counted

(* The card sees how far apart two places less than a ring apart are.      *)
LEMMA RingDistance ==
    ASSUME NEW n \in Nat, n > 0, NEW x \in Nat, NEW y \in Nat, x <= y, y < x + n
    PROVE  ((y % n) + n - (x % n)) % n = y - x
<1> DEFINE d == y - x
<1>1. d \in 0..n /\ d < n /\ x + d = y /\ d \in Nat
  OBVIOUS
<1> HIDE DEF d
<1>2. y % n = IF (x % n) + d >= n THEN (x % n) + d - n ELSE (x % n) + d
  BY <1>1, RingStep, Zenon
<1>3. (x % n) \in 0..n - 1
  BY RingFacts, Zenon
<1>4. d % n = d /\ (d + n) % n = d
  <2>1. d % n = d
    BY ONLY n \in Nat, n > 0, <1>1, SMTT(30)
  <2> QED BY <1>1, <2>1, RingTurn, Zenon
<1>5. (y % n) + n - (x % n) = d \/ (y % n) + n - (x % n) = d + n
  BY ONLY n \in Nat, <1>1, <1>2, <1>3, SMTT(30)
<1> QED BY <1>4, <1>5, Zenon DEF d

(* Storing a packet leaves the headers alone that are not read yet.        *)
LEMMA StoredCells ==
    ASSUME NEW a \in Nat, NEW w \in Nat, NEW n \in {1, 2}, cbr = w % RX_BUFFER_SIZE,
           w + n < a + RX_BUFFER_SIZE, card_store(n)
    PROVE  /\ rx'[w % RX_BUFFER_SIZE] = [kind |-> "header", id |-> rtl_received + 1, len |-> n]
           /\ \A x \in a..w - 1 : rx'[x % RX_BUFFER_SIZE] = rx[x % RX_BUFFER_SIZE]
<1> DEFINE S == RX_BUFFER_SIZE
<1>1. S \in Nat /\ Overhang \in Nat /\ S > 0
  BY RtlAssumption, SMTT(30)
<1>2. \A x \in Nat : x % S \in 0..S - 1
  BY <1>1, RingFacts, Zenon
<1>3. \A x \in Nat : x % S \in Cells
  BY ONLY <1>1, <1>2, SMTT(30) DEF Cells
<1>4. rx' = [c \in Cells |-> CASE c = cbr -> [kind |-> "header", id |-> rtl_received + 1, len |-> n]
                                [] c \in cbr + 1..cbr + n - 1 ->
                                       [kind |-> "body", id |-> rtl_received + 1, len |-> 0]
                                [] OTHER -> rx[c]]
  BY Zenon DEF card_store
<1>5. cbr \notin cbr + 1..cbr + n - 1
  <2>1. cbr \in Int
    BY ONLY <1>2, cbr = w % RX_BUFFER_SIZE, SMTT(30)
  <2> QED BY ONLY <2>1, SMTT(30)
<1>6. rx'[w % S] = [kind |-> "header", id |-> rtl_received + 1, len |-> n]
  BY ONLY <1>3, <1>4, <1>5, cbr = w % RX_BUFFER_SIZE, w \in Nat, Zenon
<1>7. ASSUME NEW x \in a..w - 1 PROVE rx'[x % S] = rx[x % S]
  <2>1. /\ x \in Nat /\ x <= w /\ w < x + S /\ x # w
        /\ w + 1 \in Nat /\ x <= w + 1 /\ x # w + 1 /\ (n = 2 => w + 1 < x + S)
    BY ONLY <1>1, a \in Nat, w \in Nat, n \in {1, 2}, w + n < a + RX_BUFFER_SIZE, x \in a..w - 1, SMTT(30)
  <2>2. x % S # cbr
    BY <1>1, <2>1, RingApart, Zenon
  <2>3. n = 2 => x % S # (w + 1) % S
    BY <1>1, <2>1, RingApart, Zenon
  <2>4. (w + 1) % S = IF (w % S) + 1 >= S THEN (w % S) + 1 - S ELSE (w % S) + 1
    <3>1. 1 \in 0..S
      BY ONLY <1>1, SMTT(30)
    <3> QED BY <1>1, <3>1, RingStep, Zenon
  <2>5. w % S \in 0..S - 1 /\ x % S \in 0..S - 1
    BY <1>2, <2>1, Zenon
  <2>6. x % S \notin cbr + 1..cbr + n - 1
    BY ONLY <1>1, <2>3, <2>4, <2>5, cbr = w % RX_BUFFER_SIZE, n \in {1, 2}, SMTT(30)
  <2> QED BY ONLY <1>3, <1>4, <2>1, <2>2, <2>6, Zenon
<1> QED BY <1>6, <1>7, Zenon

LEMMA CardStoreStep ==
    ASSUME RxInv, NEW n \in {1, 2}, card_store(n)
    PROVE  RxInv'
<1> DEFINE S == RX_BUFFER_SIZE
<1> SUFFICES ASSUME ~stale' PROVE rtl_pc' # "lost" /\ \E a, r, w \in Nat : \E H \in SUBSET Nat : RowOfPackets(a, r, w, H)'
  BY Zenon DEF RxInv
<1>1. /\ rtl_delivered' = rtl_delivered /\ rx_offset' = rx_offset /\ capr' = capr /\ rtl_pc' = rtl_pc
      /\ rx_header' = rx_header /\ stale' = stale /\ rtl_received' = rtl_received + 1
      /\ cbr' = (cbr + n) % S /\ RingUsed + n < S
  BY Zenon DEF card_store, card_flag
<1>2. PICK a, r, w \in Nat, H \in SUBSET Nat : RowOfPackets(a, r, w, H)
  BY <1>1, Zenon DEF RxInv
<1>3. S \in Nat /\ S > 0 /\ a <= r /\ r <= w /\ w < a + S /\ H \subseteq r..w - 1
  BY <1>2, RtlAssumption, SMTT(30) DEF RowOfPackets
<1>4. cbr = w % S /\ capr = a % S /\ rx_offset = r % S
  BY <1>2, Zenon DEF RowOfPackets
<1>5. RingUsed = w - a
  <2>1. a <= w
    BY ONLY <1>3, a \in Nat, r \in Nat, w \in Nat, SMTT(30)
  <2> QED BY <1>3, <1>4, <2>1, RingDistance, Zenon DEF RingUsed
<1>6. w + n \in Nat /\ w + n < a + S /\ n \in 0..S
  BY ONLY <1>1, <1>3, <1>5, a \in Nat, r \in Nat, w \in Nat, n \in {1, 2}, SMTT(30)
<1>7. cbr' = (w + n) % S
  BY <1>1, <1>3, <1>4, <1>6, RingPlus, Zenon
<1>8. /\ rx'[w % S] = [kind |-> "header", id |-> rtl_received + 1, len |-> n]
      /\ \A x \in a..w - 1 : rx'[x % S] = rx[x % S]
  BY <1>4, <1>6, StoredCells, Zenon
<1>a. rx'[w % S].kind = "header" /\ rx'[w % S].id = rtl_received + 1 /\ rx'[w % S].len = n
  BY ONLY <1>8, SMTT(30)
<1>9. \A x \in r..w - 1 : x \in a..w - 1
  BY ONLY <1>3, a \in Nat, r \in Nat, w \in Nat, SMTT(30)
<1>10. \A x \in H : rx'[x % S] = rx[x % S]
  BY <1>3, <1>8, <1>9, Zenon
<1> DEFINE G == H \cup {w}
<1>11. G \subseteq r..(w + n) - 1 /\ G \in SUBSET Nat
  BY ONLY <1>3, r \in Nat, w \in Nat, H \in SUBSET Nat, n \in {1, 2}, SMTT(30)
<1>12. ASSUME NEW x \in H PROVE Links(x, w + n, G)'
  <2> DEFINE h == rx[x % S]
             next == x + h.len
  <2>1. /\ h.kind = "header" /\ h.len \in {1, 2} /\ next <= w
        /\ next < w => next \in H /\ rx[next % S].id = h.id + 1
        /\ next = w => h.id = rtl_received
    BY <1>2, Zenon DEF RowOfPackets, Links
  <2>2. rx'[x % S] = h
    BY <1>10, Zenon
  <2>a. h.len \in {1, 2} /\ next <= w /\ next = x + h.len /\ x \in Nat
    BY <2>1, Zenon
  <2> HIDE DEF h, next
  <2>3. next \in Nat /\ (next < w \/ next = w) /\ next < w + n /\ next # w + n /\ next <= w + n
    BY ONLY <2>a, w \in Nat, n \in {1, 2}, SMTT(30)
  <2>4. CASE next < w
    <3>1. next \in H /\ rx'[next % S] = rx[next % S] /\ rx[next % S].id = h.id + 1
      BY <1>10, <2>1, <2>4, Zenon
    <3> QED BY <2>1, <2>2, <2>3, <3>1, Zenon DEF Links, next
  <2>5. CASE next = w
    <3>1. next \in G /\ rx'[next % S].id = h.id + 1
      BY <1>a, <2>1, <2>5, Zenon
    <3> QED BY <2>1, <2>2, <2>3, <3>1, Zenon DEF Links, next
  <2> QED BY <2>3, <2>4, <2>5, Zenon
<1>13. Links(w, w + n, G)'
  <2>1. rx'[w % S].kind = "header" /\ rx'[w % S].len = n /\ rx'[w % S].id = rtl_received'
    BY <1>1, <1>a, Zenon
  <2>2. w + n <= w + n /\ ~(w + n < w + n)
    BY ONLY w \in Nat, n \in {1, 2}, SMTT(30)
  <2> QED BY <2>1, <2>2, Zenon DEF Links
<1>14. r < w + n /\ ~(r = w + n) /\ r \in G /\ rx'[rx_offset].id = Len(rtl_delivered) + 1
  <2>1. r < w + n /\ r # w + n /\ (r < w \/ r = w)
    BY ONLY <1>3, r \in Nat, w \in Nat, n \in {1, 2}, SMTT(30)
  <2>2. CASE r < w
    BY <1>2, <1>4, <1>10, <2>1, <2>2, Zenon DEF RowOfPackets
  <2>3. CASE r = w
    BY <1>2, <1>4, <1>a, <2>1, <2>3, Zenon DEF RowOfPackets
  <2> QED BY <2>1, <2>2, <2>3, Zenon
<1>15. rtl_pc = "capr" => rx_header = rx'[rx_offset]
  BY <1>2, <1>4, <1>10, Zenon DEF RowOfPackets
<1>16. a <= r /\ r <= w + n /\ rtl_received' \in Nat /\ Counted(rtl_delivered)
  <2>1. rtl_received \in Nat /\ Counted(rtl_delivered)
    BY <1>2, Zenon DEF RowOfPackets
  <2> QED BY <1>1, <1>3, <2>1, SMTT(30)
<1>17. Counted(rtl_delivered)' /\ Len(rtl_delivered)' = Len(rtl_delivered)
  BY <1>1, <1>16, Zenon DEF Counted
<1> HIDE DEF G, S
<1>18. \A x \in G : Links(x, w + n, G)'
  BY <1>12, <1>13, Zenon DEF G
<1>19. RowOfPackets(a, r, w + n, G)'
  BY <1>1, <1>4, <1>6, <1>7, <1>11, <1>14, <1>15, <1>16, <1>17, <1>18, Zenon DEF RowOfPackets, S
<1> QED BY <1>1, <1>6, <1>11, <1>19, Zenon DEF RxInv

LEMMA ReceiveStep ==
    ASSUME RxInv, receive
    PROVE  RxInv'
<1> SUFFICES ASSUME ~stale' PROVE rtl_pc' # "lost" /\ \E a, r, w \in Nat : \E H \in SUBSET Nat : RowOfPackets(a, r, w, H)'
  BY Zenon DEF RxInv
<1>1. /\ rtl_delivered' = rtl_delivered /\ rx_offset' = rx_offset /\ capr' = capr /\ cbr' = cbr /\ rx' = rx
      /\ rtl_received' = rtl_received
  BY Zenon DEF receive
<1>a. ~stale
  BY Zenon DEF receive
<1>2. PICK a, r, w \in Nat, H \in SUBSET Nat : RowOfPackets(a, r, w, H)
  BY <1>a, Zenon DEF RxInv
<1>3. \A x \in H : Links(x, w, H)'
  BY <1>1, <1>2, Zenon DEF RowOfPackets, Links
<1>4. Counted(rtl_delivered)'
  BY <1>1, <1>2, Zenon DEF RowOfPackets, Counted
<1>5. rtl_pc' # "lost" /\ (rtl_pc' = "capr" => r < w /\ rx_header' = rx[rx_offset])
  <2>1. CASE rtl_pc' = AfterReceive
    BY <2>1, Zenon DEF AfterReceive
  <2>2. CASE /\ rtl_pc' = IF rx[rx_offset].kind = "header" THEN "capr" ELSE "lost"
             /\ rx_header' = rx[rx_offset] /\ stale' = (stale \/ rx_offset = cbr)
    <3>1. r # w
      BY <1>2, <2>2, Zenon DEF RowOfPackets
    <3>2. r <= w
      BY <1>2, Zenon DEF RowOfPackets
    <3>3. r < w
      BY ONLY <3>1, <3>2, r \in Nat, w \in Nat, SMTT(30)
    <3>4. rx[rx_offset].kind = "header"
      BY <1>2, <3>3, Zenon DEF RowOfPackets, Links
    <3> QED BY <2>2, <3>3, <3>4, Zenon
  <2> QED BY <2>1, <2>2, Zenon DEF receive
<1>6. RowOfPackets(a, r, w, H)'
  BY <1>1, <1>2, <1>3, <1>4, <1>5, Zenon DEF RowOfPackets
<1> QED BY <1>5, <1>6, Zenon

LEMMA WriteCaprStep ==
    ASSUME RxInv, rtl_write_capr
    PROVE  RxInv'
<1> DEFINE S == RX_BUFFER_SIZE
<1> SUFFICES ASSUME ~stale' PROVE rtl_pc' # "lost" /\ \E a, r, w \in Nat : \E H \in SUBSET Nat : RowOfPackets(a, r, w, H)'
  BY Zenon DEF RxInv
<1>1. /\ rtl_delivered' = Append(rtl_delivered, rx_header.id)
      /\ rx_offset' = (rx_offset + rx_header.len) % S /\ capr' = rx_offset /\ cbr' = cbr /\ rx' = rx
      /\ rtl_received' = rtl_received /\ ~stale /\ rtl_pc = "capr"
  BY Zenon DEF rtl_write_capr, receive_offset
<1>2. rtl_pc' # "lost" /\ rtl_pc' # "capr"
  BY Zenon DEF rtl_write_capr, AfterReceive
<1>3. PICK a, r, w \in Nat, H \in SUBSET Nat : RowOfPackets(a, r, w, H)
  BY <1>1, Zenon DEF RxInv
<1>4. S \in Nat /\ S > 0 /\ a <= r /\ r <= w /\ w < a + S /\ H \subseteq r..w - 1
  BY <1>3, RtlAssumption, SMTT(30) DEF RowOfPackets
<1>5. /\ cbr = w % S /\ rx_offset = r % S /\ r < w /\ r \in H /\ rx_header = rx[r % S]
      /\ rx_header.id = Len(rtl_delivered) + 1 /\ Counted(rtl_delivered) /\ rtl_received \in Nat
  BY <1>1, <1>3, Zenon DEF RowOfPackets
<1>b. rx_header.len \in {1, 2}
  BY <1>3, <1>5, Zenon DEF RowOfPackets, Links
<1>c. PICK len \in {1, 2} : rx_header.len = len
  BY <1>b, Zenon
<1> DEFINE q == r + len
           G == {x \in H : x >= q}
<1>6. /\ len \in {1, 2} /\ q <= w
      /\ q < w => q \in H /\ rx[q % S].id = Len(rtl_delivered) + 1 + 1
      /\ q = w => Len(rtl_delivered) + 1 = rtl_received
  <2>1. Links(r, w, H)
    BY <1>3, <1>5, Zenon DEF RowOfPackets
  <2>2. /\ r + rx_header.len <= w
        /\ r + rx_header.len < w => /\ r + rx_header.len \in H
                                   /\ rx[(r + rx_header.len) % S].id = rx_header.id + 1
        /\ r + rx_header.len = w => rx_header.id = rtl_received
    BY <1>5, <2>1, Zenon DEF Links
  <2> QED BY <1>5, <1>c, <2>2, Zenon
<1>7. len \in {1, 2} /\ q <= w /\ q = r + len
  BY <1>6, Zenon
<1> HIDE DEF q, S
<1>8. q \in Nat /\ r <= q /\ len \in 0..S /\ w < r + S
  BY ONLY <1>4, <1>7, a \in Nat, r \in Nat, w \in Nat, SMTT(30)
<1>9. rx_offset' = q % S
  BY <1>1, <1>4, <1>5, <1>7, <1>8, <1>c, RingPlus, ZenonT(60)
<1>10. /\ Counted(rtl_delivered)' /\ Len(rtl_delivered') = Len(rtl_delivered) + 1
  BY <1>1, <1>5, CountedAppend, Zenon
<1>11. G \subseteq q..w - 1 /\ G \in SUBSET Nat
  <2>1. \A x \in r..w - 1 : x >= q => x \in q..w - 1 /\ x \in Nat
    BY ONLY <1>8, r \in Nat, w \in Nat, SMTT(30)
  <2> QED BY <1>4, <2>1, Zenon
<1>12. ASSUME NEW x \in G PROVE Links(x, w, G)'
  <2> DEFINE h == rx[x % S]
             next == x + h.len
  <2>1. /\ h.kind = "header" /\ h.len \in {1, 2} /\ next <= w
        /\ next < w => next \in H /\ rx[next % S].id = h.id + 1
        /\ next = w => h.id = rtl_received
    BY <1>3, Zenon DEF RowOfPackets, Links, S
  <2>2. h.len \in {1, 2} /\ x \in Nat /\ x >= q
    BY <2>1, Zenon
  <2>3. next >= q
    <3> HIDE DEF h
    <3> QED BY ONLY <2>2, <1>8, SMTT(30) DEF next
  <2>4. next < w => next \in G
    BY <2>1, <2>3, Zenon
  <2>5. rx'[x % S] = h /\ (next < w => rx'[next % S].id = h.id + 1) /\ (next = w => h.id = rtl_received')
    BY <1>1, <2>1, Zenon
  <2> HIDE DEF G, h
  <2> QED BY <2>1, <2>4, <2>5, Zenon DEF Links, S
<1>13. q < w => q \in G /\ rx'[rx_offset'].id = Len(rtl_delivered') + 1
  <2>1. q >= q
    BY ONLY <1>8, SMTT(30)
  <2> QED BY <1>1, <1>6, <1>9, <1>10, <2>1, Zenon
<1> HIDE DEF G
<1>14. q = w => Len(rtl_delivered') = rtl_received'
  BY <1>1, <1>6, <1>10, Zenon
<1>15. RowOfPackets(r, q, w, G)'
  BY <1>1, <1>2, <1>5, <1>7, <1>8, <1>9, <1>10, <1>11, <1>12, <1>13, <1>14, Zenon DEF RowOfPackets, S
<1> QED BY <1>2, <1>8, <1>11, <1>15, Zenon

(***************************************************************************)
(* The packets receive (rtl8139.rs) gives to netd are those that arrived,  *)
(* in order and each once, as often as the ring wraps around and however   *)
(* the card runs beside the driver, for a ring of any size and any number  *)
(* of packets; until receive is called with nothing left to read and takes *)
(* what is left in the ring for a packet.                                  *)
(***************************************************************************)
THEOREM RtlReceivesInOrder == RtlSpec => []RxInOrder
<1>1. RtlInit => RxInv
  <2> SUFFICES ASSUME RtlInit PROVE RowOfPackets(0, 0, 0, {}) /\ rtl_pc # "lost"
    BY Zenon DEF RxInv
  <2>1. 0 % RX_BUFFER_SIZE = 0 /\ 0 <= 0 /\ 0 < 0 + RX_BUFFER_SIZE /\ ~(0 < 0)
    BY RtlAssumption, SMTT(30)
  <2>2. Counted(<<>>) /\ Len(<<>>) = 0
    BY SMTT(30) DEF Counted
  <2> QED BY <2>1, <2>2, Zenon DEF RtlInit, RowOfPackets
<1>2. RxInv /\ [RtlNext]_rtlVars => RxInv'
  <2> SUFFICES ASSUME RxInv, [RtlNext]_rtlVars PROVE RxInv'
    BY Zenon
  <2>1. ASSUME UNCHANGED rtlRingVars, rtl_pc' = rtl_pc \/ rtl_pc' \notin {"capr", "lost"} PROVE RxInv'
    <3> SUFFICES ASSUME ~stale' PROVE rtl_pc' # "lost" /\ \E a, r, w \in Nat : \E H \in SUBSET Nat : RowOfPackets(a, r, w, H)'
      BY Zenon DEF RxInv
    <3>1. /\ rtl_delivered' = rtl_delivered /\ rx_offset' = rx_offset /\ capr' = capr /\ cbr' = cbr /\ rx' = rx
          /\ rtl_received' = rtl_received /\ rx_header' = rx_header /\ stale' = stale
      BY <2>1, Zenon DEF rtlRingVars
    <3>2. PICK a, r, w \in Nat, H \in SUBSET Nat : RowOfPackets(a, r, w, H)
      BY <3>1, Zenon DEF RxInv
    <3>3. \A x \in H : Links(x, w, H)'
      BY <3>1, <3>2, Zenon DEF RowOfPackets, Links
    <3>4. Counted(rtl_delivered)' /\ rtl_pc' # "lost"
      BY <2>1, <3>1, <3>2, Zenon DEF RxInv, RowOfPackets, Counted
    <3>5. RowOfPackets(a, r, w, H)'
      BY <2>1, <3>1, <3>2, <3>3, <3>4, Zenon DEF RowOfPackets
    <3> QED BY <3>4, <3>5, Zenon
  <2>2. rtl_send \/ select_buffer \/ rtl_copy \/ rtl_start \/ card_transmit \/ card_report
          \/ (\E n \in {1, 2} : card_overflow(n)) \/ rtl_take_irq \/ rtl_first_status
          \/ rtl_read_again \/ rtl_ack \/ UNCHANGED rtlVars
        => UNCHANGED rtlRingVars /\ (rtl_pc' = rtl_pc \/ rtl_pc' \notin {"capr", "lost"})
    BY Zenon DEF rtl_send, select_buffer, rtl_copy, rtl_start, card_transmit, card_report, card_flag,
                 card_overflow, rtl_take_irq, rtl_first_status, rtl_read_again, rtl_ack, rtlVars, rtlIrqVars
  <2> QED BY <2>1, <2>2, CardStoreStep, ReceiveStep, WriteCaprStep, Zenon DEF RtlNext, RtlDriver
<1>3. RxInv => RxInOrder
  BY Zenon DEF RxInv, RowOfPackets, RxInOrder, Counted
<1> QED BY <1>1, <1>2, <1>3, PTL DEF RtlSpec

-----------------------------------------------------------------------------
(***************************************************************************)
(* The sending half, for any number of buffers.  Whatever buffer           *)
(* select_buffer takes, each packet of the calls so far is on the wire, in *)
(* a buffer of the card's, or with the driver, and in one of these places  *)
(* only.                                                                   *)
(***************************************************************************)
TxTypeOK ==
    /\ OWN \in [Buffers -> BOOLEAN] /\ tx \in [Buffers -> Nat] /\ rtl_sent \in Seq(Nat)
    /\ tx_queue \in Nat /\ tx_try \in Nat /\ tx_next \in Buffers /\ card_tx \in Buffers
    /\ tx_pc \in [at : {"idle", "status", "copy", "start", "panic"}, buffer : Buffers]
    /\ tx_pc.at = "idle" => tx_pc = Idle

Waits(p) == \E b \in Buffers : ~OWN[b] /\ tx[b] = p
InHand == tx_pc.at \in {"status", "copy", "start"}

TxOnce ==
    /\ \A i, k \in 1..Len(rtl_sent) : rtl_sent[i] = rtl_sent[k] => i = k
    /\ \A b, c \in Buffers : ~OWN[b] /\ ~OWN[c] /\ tx[b] = tx[c] => b = c
    /\ \A p \in OnTheWire : p \in 1..tx_queue /\ ~Waits(p)
    /\ \A b \in Buffers : ~OWN[b] => tx[b] \in 1..tx_queue
    /\ \A p \in 1..tx_queue : p \in OnTheWire \/ Waits(p) \/ (p = tx_queue /\ tx_pc # Idle)
    /\ InHand => tx_queue # 0 /\ tx_queue \notin OnTheWire /\ ~Waits(tx_queue)
    /\ tx_pc.at \in {"copy", "start"} => OWN[tx_pc.buffer]
    /\ tx_pc.at = "start" => tx[tx_pc.buffer] = tx_queue

(* Both parts are kept by every step.                                      *)
LEMMA TxTypeStep ==
    ASSUME TxTypeOK, [RtlNext]_rtlVars
    PROVE  TxTypeOK'
<1>1. TX_BUFFER_COUNT \in Nat /\ TX_BUFFER_COUNT > 0
  BY RtlAssumption, SMTT(30)
<1>2. \A x \in Nat : x % TX_BUFFER_COUNT \in Buffers
  BY <1>1, RingFacts, Zenon DEF Buffers
<1>3. \A b \in Buffers : b \in Nat /\ b + 1 \in Nat
  BY <1>1, SMTT(30) DEF Buffers
<1>4. 0 \in Buffers
  BY <1>1, SMTT(30) DEF Buffers
<1>5. CASE UNCHANGED rtlTxVars
  BY <1>5, Zenon DEF rtlTxVars, TxTypeOK
<1>6. CASE rtl_send
  BY <1>6, SMTT(30) DEF rtl_send, TxTypeOK, Idle
<1>7. CASE select_buffer
  <2>1. tx_pc.buffer \in Buffers /\ tx_pc.buffer + 1 \in Nat /\ (tx_pc.buffer + 1) % TX_BUFFER_COUNT \in Buffers
    <3>1. tx_pc.buffer \in Buffers
      BY SMTT(30) DEF TxTypeOK
    <3> QED BY <1>2, <1>3, <3>1, Zenon
  <2>2. UNCHANGED <<tx, OWN, card_tx, rtl_sent, tx_queue>> /\ tx_next' \in Buffers /\ tx_try' \in Nat
    <3>1. tx_next' = tx_next \/ tx_next' = (tx_pc.buffer + 1) % TX_BUFFER_COUNT
      BY <1>7, Zenon DEF select_buffer
    <3>2. tx_try' = tx_try \/ tx_try' = tx_try + 1
      BY <1>7, Zenon DEF select_buffer
    <3>3. UNCHANGED <<tx, OWN, card_tx, rtl_sent, tx_queue>>
      BY <1>7, Zenon DEF select_buffer
    <3>4. tx_try' \in Nat
      BY <3>2, SMTT(30) DEF TxTypeOK
    <3> QED BY <2>1, <3>1, <3>3, <3>4, Zenon DEF TxTypeOK
  <2>3. \E b \in Buffers : \E at \in {"status", "copy", "panic"} : tx_pc' = [at |-> at, buffer |-> b]
    BY <1>4, <1>7, <2>1, Zenon DEF select_buffer
  <2>4. PICK b \in Buffers, at \in {"status", "copy", "panic"} : tx_pc' = [at |-> at, buffer |-> b]
    BY <2>3, Zenon
  <2>5. /\ tx_pc' \in [at : {"idle", "status", "copy", "start", "panic"}, buffer : Buffers]
        /\ tx_pc'.at # "idle"
    BY ONLY <2>4, SMTT(30)
  <2> QED BY <2>2, <2>5, Zenon DEF TxTypeOK
<1>8. CASE rtl_copy
  BY <1>8, SMTT(30) DEF rtl_copy, TxTypeOK
<1>9. CASE rtl_start
  BY <1>4, <1>9, SMTT(30) DEF rtl_start, TxTypeOK, Idle
<1>10. CASE card_transmit
  <2>1. (card_tx + 1) % TX_BUFFER_COUNT \in Buffers
    BY <1>2, <1>3, Zenon DEF TxTypeOK
  <2>2. rtl_sent' \in Seq(Nat) /\ OWN' \in [Buffers -> BOOLEAN]
    BY <1>10, SMTT(30) DEF card_transmit, TxTypeOK
  <2> QED BY <1>10, <2>1, <2>2, Zenon DEF card_transmit, TxTypeOK
<1>11. (\E n \in {1, 2} : card_store(n) \/ card_overflow(n)) \/ card_report \/ rtl_take_irq \/ rtl_first_status
          \/ receive \/ rtl_write_capr \/ rtl_read_again \/ rtl_ack \/ UNCHANGED rtlVars
        => UNCHANGED rtlTxVars
  BY Zenon DEF card_store, card_overflow, card_report, rtl_take_irq, rtl_first_status, receive,
               rtl_write_capr, rtl_read_again, rtl_ack, rtlVars
<1> QED BY <1>5, <1>6, <1>7, <1>8, <1>9, <1>10, <1>11, Zenon DEF RtlNext, RtlDriver

LEMMA TxOnceSend ==
    ASSUME TxTypeOK, TxOnce, rtl_send \/ select_buffer \/ rtl_copy \/ rtl_start
    PROVE  TxOnce'
<1>1. rtl_sent' = rtl_sent /\ OnTheWire' = OnTheWire
  <2>1. rtl_sent' = rtl_sent
    BY Zenon DEF rtl_send, select_buffer, rtl_copy, rtl_start
  <2> QED BY <2>1, Zenon DEF OnTheWire
<1>2. tx_queue \in Nat /\ tx_pc.buffer \in Buffers
  BY SMTT(30) DEF TxTypeOK
<1>3. CASE rtl_send
  <2>1. /\ tx_queue' = tx_queue + 1 /\ tx' = tx /\ OWN' = OWN
        /\ tx_pc'.at = "status" /\ tx_pc' # Idle
    BY <1>3, SMTT(30) DEF rtl_send, Idle
  <2>2. /\ 1..tx_queue \subseteq 1..tx_queue' /\ tx_queue' \notin 1..tx_queue /\ tx_queue' # 0
        /\ \A p \in 1..tx_queue' : p \in 1..tx_queue \/ p = tx_queue'
    BY ONLY <1>2, <2>1, SMTT(30)
  <2>3. \A p : Waits(p)' <=> Waits(p)
    BY <2>1, Zenon DEF Waits
  <2>4. \A p : Waits(p) => p \in 1..tx_queue
    BY Zenon DEF TxOnce, Waits
  <2>5. \A p \in 1..tx_queue : p \in OnTheWire \/ Waits(p)
    BY <1>3, Zenon DEF TxOnce, rtl_send
  <2>6. tx_queue' \notin OnTheWire /\ ~Waits(tx_queue')
    BY <2>2, <2>4, Zenon DEF TxOnce
  <2>7. ~Waits(tx_queue)' /\ tx_pc'.at \notin {"copy", "start"} /\ tx_pc'.at # "start"
    BY <2>1, <2>3, <2>6, Zenon
  <2>8. \A p \in OnTheWire' : p \in 1..tx_queue' /\ ~Waits(p)'
    BY <1>1, <2>2, <2>3, Zenon DEF TxOnce
  <2>9. \A b \in Buffers : ~OWN'[b] => tx'[b] \in 1..tx_queue'
    BY <2>1, <2>2, Zenon DEF TxOnce
  <2>10. \A p \in 1..tx_queue' : p \in OnTheWire' \/ Waits(p)' \/ (p = tx_queue' /\ tx_pc' # Idle)
    BY <1>1, <2>1, <2>2, <2>3, <2>5, Zenon
  <2> QED BY <1>1, <2>1, <2>2, <2>6, <2>7, <2>8, <2>9, <2>10, Zenon DEF TxOnce
<1>4. CASE select_buffer
  <2>1. tx_queue' = tx_queue /\ tx' = tx /\ OWN' = OWN /\ tx_pc.at = "status"
    BY <1>4, Zenon DEF select_buffer
  <2>2. \A p : Waits(p)' <=> Waits(p)
    BY <2>1, Zenon DEF Waits
  <2>3. tx_pc'.at # "start" /\ tx_pc' # Idle /\ (tx_pc'.at = "copy" => OWN[tx_pc'.buffer])
    BY <1>4, SMTT(30) DEF select_buffer, Idle
  <2>4. tx_queue # 0 /\ tx_queue \notin OnTheWire /\ ~Waits(tx_queue)
    BY <2>1, Zenon DEF TxOnce, InHand
  <2>5. tx_pc'.at \in {"copy", "start"} => OWN'[tx_pc'.buffer]
    BY <2>1, <2>3, Zenon
  <2>6. tx_queue' # 0 /\ tx_queue' \notin OnTheWire' /\ ~Waits(tx_queue)'
    BY <1>1, <2>1, <2>2, <2>4, Zenon
  <2>7. \A p \in 1..tx_queue : p \in OnTheWire' \/ Waits(p)' \/ (p = tx_queue /\ tx_pc' # Idle)
    BY <1>1, <2>2, <2>3, Zenon DEF TxOnce
  <2> QED BY <1>1, <2>1, <2>2, <2>3, <2>5, <2>6, <2>7, Zenon DEF TxOnce
<1>5. CASE rtl_copy
  <2> DEFINE b == tx_pc.buffer
  <2>1. /\ tx_queue' = tx_queue /\ tx' = [tx EXCEPT ![b] = tx_queue] /\ OWN' = OWN /\ tx_pc.at = "copy"
        /\ tx_pc'.at = "start" /\ tx_pc'.buffer = b /\ tx_pc' # Idle /\ tx_pc # Idle
    BY <1>5, SMTT(30) DEF rtl_copy, Idle, TxTypeOK
  <2>2. OWN[b] /\ tx_queue # 0 /\ tx_queue \notin OnTheWire /\ ~Waits(tx_queue)
    BY <2>1, Zenon DEF TxOnce, InHand
  <2>3. tx \in [Buffers -> Nat]
    BY Zenon DEF TxTypeOK
  <2>4. \A c \in Buffers : ~OWN[c] => tx'[c] = tx[c]
    BY <1>2, <2>1, <2>2, <2>3, Zenon
  <2>5. tx'[b] = tx_queue
    BY <1>2, <2>1, <2>3, Zenon
  <2>6. \A p : Waits(p)' <=> Waits(p)
    BY <2>1, <2>4, Zenon DEF Waits
  <2>7. tx_queue' # 0 /\ tx_queue' \notin OnTheWire' /\ ~Waits(tx_queue)'
    BY <1>1, <2>1, <2>2, <2>6, Zenon
  <2>8. \A c, d \in Buffers : ~OWN'[c] /\ ~OWN'[d] /\ tx'[c] = tx'[d] => c = d
    BY <2>1, <2>4, ZenonT(60) DEF TxOnce
  <2>9. \A c \in Buffers : ~OWN'[c] => tx'[c] \in 1..tx_queue'
    BY <2>1, <2>4, Zenon DEF TxOnce
  <2>10. \A p \in OnTheWire' : p \in 1..tx_queue' /\ ~Waits(p)'
    BY <1>1, <2>1, <2>6, Zenon DEF TxOnce
  <2>11. \A p \in 1..tx_queue' : p \in OnTheWire' \/ Waits(p)' \/ (p = tx_queue' /\ tx_pc' # Idle)
    BY <1>1, <2>1, <2>6, Zenon DEF TxOnce
  <2>12. OWN'[tx_pc'.buffer] /\ tx'[tx_pc'.buffer] = tx_queue'
    BY <2>1, <2>2, <2>5, Zenon
  <2> QED BY <1>1, <2>7, <2>8, <2>9, <2>10, <2>11, <2>12, Zenon DEF TxOnce
<1>6. CASE rtl_start
  <2> DEFINE b == tx_pc.buffer
  <2>1. /\ tx_queue' = tx_queue /\ OWN' = [OWN EXCEPT ![b] = FALSE] /\ tx' = tx /\ tx_pc.at = "start"
        /\ tx_pc' = Idle
    BY <1>6, Zenon DEF rtl_start
  <2>2. OWN[b] /\ tx[b] = tx_queue /\ tx_queue # 0 /\ tx_queue \notin OnTheWire /\ ~Waits(tx_queue)
    BY <2>1, Zenon DEF TxOnce, InHand
  <2>3. OWN \in [Buffers -> BOOLEAN]
    BY Zenon DEF TxTypeOK
  <2>4. ~OWN'[b] /\ \A c \in Buffers : c # b => OWN'[c] = OWN[c]
    BY <1>2, <2>1, <2>3, Zenon
  <2>5. \A p : Waits(p)' <=> Waits(p) \/ p = tx_queue
    BY <1>2, <2>1, <2>2, <2>4, Zenon DEF Waits
  <2>6. \A c, d \in Buffers : ~OWN'[c] /\ ~OWN'[d] /\ tx[c] = tx[d] => c = d
    <3> SUFFICES ASSUME NEW c \in Buffers, NEW d \in Buffers, ~OWN'[c], ~OWN'[d], tx[c] = tx[d] PROVE c = d
      BY Zenon
    <3>1. c = b \/ (~OWN[c] /\ tx[c] # tx_queue)
      BY <2>2, <2>4, Zenon DEF Waits
    <3>2. d = b \/ (~OWN[d] /\ tx[d] # tx_queue)
      BY <2>2, <2>4, Zenon DEF Waits
    <3> QED BY <2>2, <3>1, <3>2, Zenon DEF TxOnce
  <2>7. tx_queue \in 1..tx_queue
    BY ONLY <1>2, <2>2, SMTT(30)
  <2>8. \A c \in Buffers : ~OWN'[c] => tx[c] \in 1..tx_queue
    BY <2>2, <2>4, <2>7, Zenon DEF TxOnce
  <2>9. \A p \in OnTheWire : p \in 1..tx_queue /\ ~Waits(p)'
    BY <2>2, <2>5, Zenon DEF TxOnce
  <2>10. \A p \in 1..tx_queue : p \in OnTheWire \/ Waits(p)'
    BY <2>5, Zenon DEF TxOnce
  <2>11. tx_pc'.at = "idle" /\ ~InHand'
    BY <2>1, SMTT(30) DEF Idle, InHand
  <2>12. tx_pc'.at \notin {"copy", "start"} /\ tx_pc'.at # "start"
    BY <2>11, Zenon
  <2> QED BY <1>1, <2>1, <2>6, <2>8, <2>9, <2>10, <2>11, <2>12, Zenon DEF TxOnce
<1> QED BY <1>3, <1>4, <1>5, <1>6, Zenon

LEMMA TxOnceTransmit ==
    ASSUME TxTypeOK, TxOnce, card_transmit
    PROVE  TxOnce'
<1> DEFINE b == card_tx
           n == Len(rtl_sent)
<1>1. /\ ~OWN[b] /\ rtl_sent' = Append(rtl_sent, tx[b]) /\ OWN' = [OWN EXCEPT ![b] = TRUE]
      /\ tx' = tx /\ tx_queue' = tx_queue /\ tx_pc' = tx_pc
  BY Zenon DEF card_transmit
<1>2. b \in Buffers /\ OWN \in [Buffers -> BOOLEAN] /\ rtl_sent \in Seq(Nat) /\ tx[b] \in Nat
  BY Zenon DEF TxTypeOK
<1>3. OWN'[b] /\ \A c \in Buffers : c # b => OWN'[c] = OWN[c]
  BY <1>1, <1>2, Zenon
<1>4. Waits(tx[b]) /\ tx[b] \in 1..tx_queue /\ tx[b] \notin OnTheWire
  BY <1>1, <1>2, Zenon DEF TxOnce, Waits
<1>5. /\ n \in Nat /\ Len(rtl_sent') = n + 1 /\ rtl_sent'[n + 1] = tx[b]
      /\ \A i \in 1..n : rtl_sent'[i] = rtl_sent[i]
  BY ONLY <1>1, <1>2, SMTT(30)
<1> HIDE DEF n
<1>6. \A i : i \in 1..n + 1 <=> i \in 1..n \/ i = n + 1
  BY ONLY <1>5, SMTT(30)
<1>7. OnTheWire' = OnTheWire \cup {tx[b]}
  <2>1. \A p : p \in OnTheWire' <=> \E i \in 1..n + 1 : p = rtl_sent'[i]
    BY <1>5, Zenon DEF OnTheWire
  <2>2. \A p : p \in OnTheWire <=> \E i \in 1..n : p = rtl_sent[i]
    BY Zenon DEF OnTheWire, n
  <2>3. ASSUME NEW p, p \in OnTheWire'
        PROVE  p \in OnTheWire \/ p = tx[b]
    <3>1. PICK i \in 1..n + 1 : p = rtl_sent'[i]
      BY <2>1, <2>3, Zenon
    <3>2. CASE i \in 1..n
      BY <1>5, <2>2, <3>1, <3>2, Zenon
    <3>3. CASE i = n + 1
      BY <1>5, <3>1, <3>3, Zenon
    <3> QED BY <1>6, <3>1, <3>2, <3>3, Zenon
  <2>4. ASSUME NEW p, p \in OnTheWire
        PROVE  p \in OnTheWire'
    <3>1. PICK i \in 1..n : p = rtl_sent[i]
      BY <2>2, <2>4, Zenon
    <3>2. i \in 1..n + 1 /\ p = rtl_sent'[i]
      BY <1>5, <1>6, <3>1, Zenon
    <3> QED BY <2>1, <3>2, Zenon
  <2>5. tx[b] \in OnTheWire'
    <3>1. n + 1 \in 1..n + 1
      BY <1>6, Zenon
    <3> QED BY <1>5, <2>1, <3>1, Zenon
  <2> HIDE DEF b
  <2> QED BY <2>3, <2>4, <2>5, Zenon
<1>8. \A i, k \in 1..Len(rtl_sent') : rtl_sent'[i] = rtl_sent'[k] => i = k
  <2>1. \A i \in 1..n : rtl_sent[i] # tx[b]
    BY <1>4, Zenon DEF OnTheWire, n
  <2>2. \A i, k \in 1..n : rtl_sent[i] = rtl_sent[k] => i = k
    BY Zenon DEF TxOnce, n
  <2> QED BY <1>5, <1>6, <2>1, <2>2, Zenon
<1>9. \A c, d \in Buffers : ~OWN'[c] /\ ~OWN'[d] /\ tx'[c] = tx'[d] => c = d
  BY <1>1, <1>3, Zenon DEF TxOnce
<1>10. \A p : Waits(p)' <=> Waits(p) /\ p # tx[b]
  <2>1. \A c \in Buffers : ~OWN'[c] <=> ~OWN[c] /\ c # b
    BY <1>3, Zenon
  <2>2. \A c \in Buffers : ~OWN[c] /\ c # b => tx[c] # tx[b]
    BY <1>1, <1>2, Zenon DEF TxOnce
  <2> QED BY <1>1, <2>1, <2>2, Zenon DEF Waits
<1>11. \A p \in OnTheWire' : p \in 1..tx_queue' /\ ~Waits(p)'
  BY <1>1, <1>4, <1>7, <1>10, Zenon DEF TxOnce
<1>12. \A c \in Buffers : ~OWN'[c] => tx'[c] \in 1..tx_queue'
  BY <1>1, <1>3, Zenon DEF TxOnce
<1>13. \A p \in 1..tx_queue' : p \in OnTheWire' \/ Waits(p)' \/ (p = tx_queue' /\ tx_pc' # Idle)
  BY <1>1, <1>7, <1>10, Zenon DEF TxOnce
<1>14. InHand' => tx_queue' # 0 /\ tx_queue' \notin OnTheWire' /\ ~Waits(tx_queue)'
  <2>1. InHand' <=> InHand
    BY <1>1, Zenon DEF InHand
  <2>2. InHand => tx_queue # 0 /\ tx_queue \notin OnTheWire /\ ~Waits(tx_queue) /\ tx_queue # tx[b]
    BY <1>4, Zenon DEF TxOnce
  <2>3. Waits(tx_queue)' => Waits(tx_queue)
    BY <1>1, <1>10, Zenon
  <2> HIDE DEF b
  <2> QED BY <1>1, <1>7, <2>1, <2>2, <2>3, Zenon
<1>15. tx_pc'.at \in {"copy", "start"} => OWN'[tx_pc'.buffer]
  <2>1. tx_pc.buffer \in Buffers
    BY SMTT(30) DEF TxTypeOK
  <2> QED BY <1>1, <1>3, <2>1, Zenon DEF TxOnce
<1>16. tx_pc'.at = "start" => tx'[tx_pc'.buffer] = tx_queue'
  BY <1>1, Zenon DEF TxOnce
<1> QED BY <1>8, <1>9, <1>11, <1>12, <1>13, <1>14, <1>15, <1>16, Zenon DEF TxOnce

(***************************************************************************)
(* While select_buffer has left out no buffer: the driver has started to   *)
(* send s packets and the card has sent k, packets k + 1 to s are in the   *)
(* buffers that follow card_tx, in order, and the other buffers are free.  *)
(***************************************************************************)
BuffersHold(k, s) ==
    /\ OWN \in [Buffers -> BOOLEAN] /\ tx \in [Buffers -> Nat]
    /\ \A j \in k..s - 1 : ~OWN[j % TX_BUFFER_COUNT] /\ tx[j % TX_BUFFER_COUNT] = j + 1
    /\ \A j \in s..k + TX_BUFFER_COUNT - 1 : OWN[j % TX_BUFFER_COUNT]

Sending(k, s) ==
    \/ tx_pc = Idle /\ tx_queue = s /\ tx_next = s % TX_BUFFER_COUNT
    \/ /\ tx_pc.at = "status" /\ tx_queue = s + 1 /\ tx_next = s % TX_BUFFER_COUNT
       /\ tx_try \in Nat /\ (tx_try = 0 => tx_pc.buffer = s % TX_BUFFER_COUNT)
    \/ /\ tx_pc \in {[at |-> "copy", buffer |-> s % TX_BUFFER_COUNT],
                     [at |-> "start", buffer |-> s % TX_BUFFER_COUNT]}
       /\ tx_queue = s + 1 /\ tx_next = (s + 1) % TX_BUFFER_COUNT /\ s < k + TX_BUFFER_COUNT
       /\ tx_pc.at = "start" => tx[s % TX_BUFFER_COUNT] = s + 1
    \/ tx_pc.at = "panic"

TxState(k, s) ==
    /\ k <= s /\ s <= k + TX_BUFFER_COUNT
    /\ Counted(rtl_sent) /\ Len(rtl_sent) = k /\ card_tx = k % TX_BUFFER_COUNT
    /\ BuffersHold(k, s) /\ Sending(k, s)

TxInv == TxTypeOK /\ TxOnce /\ (~skipped => \E k, s \in Nat : TxState(k, s))

(* The steps of send and of the card keep the invariant.                   *)
LEMMA TxStep ==
    ASSUME NEW k \in Nat, NEW s \in Nat, TxState(k, s)
    PROVE  /\ rtl_send => TxState(k, s)'
           /\ select_buffer /\ ~skipped' => TxState(k, s)'
           /\ rtl_copy => TxState(k, s)'
           /\ rtl_start => TxState(k, s + 1)'
           /\ card_transmit => TxState(k + 1, s)'
<1> DEFINE N == TX_BUFFER_COUNT
<1>1. N \in Nat /\ N > 0 /\ Buffers = 0..N - 1 /\ k <= s /\ s <= k + N /\ card_tx = k % N
  BY RtlAssumption DEF Buffers, TxState
<1>2. \A x \in Nat : x % N \in Buffers
  BY <1>1, RingFacts, Zenon
<1>3. \A x, y \in Nat : x <= y /\ y < x + N /\ x % N = y % N => x = y
  BY <1>1, RingApart, Zenon
<1>4. BuffersHold(k, s) /\ Sending(k, s) /\ Counted(rtl_sent) /\ Len(rtl_sent) = k
  BY Zenon DEF TxState
<1> HIDE DEF N
<1>5. ASSUME rtl_send PROVE TxState(k, s)'
  <2>1. tx_pc = Idle /\ tx_pc.at = "idle"
    BY <1>5, SMTT(30) DEF rtl_send, Idle
  <2>2. tx_queue = s /\ tx_next = s % N
    BY <1>4, <2>1, SMTT(30) DEF Sending, N
  <2>3. /\ UNCHANGED <<tx, OWN, card_tx, rtl_sent>> /\ tx_queue' = s + 1 /\ tx_next' = s % N
        /\ tx_try' = 0 /\ tx_pc' = [at |-> "status", buffer |-> s % N]
    BY <1>5, <2>2, Zenon DEF rtl_send
  <2>4. tx_pc'.at = "status" /\ tx_pc'.buffer = s % N
    BY ONLY <2>3, SMTT(30)
  <2>5. Sending(k, s)'
    BY <2>3, <2>4, Zenon DEF Sending, N
  <2> QED BY <2>3, <2>5, Zenon DEF TxState, BuffersHold, Counted
<1>9. ASSUME select_buffer, ~skipped' PROVE TxState(k, s)'
  <2>1. UNCHANGED <<tx, OWN, card_tx, rtl_sent, tx_queue>> /\ tx_pc.at = "status" /\ tx_pc # Idle
    BY <1>9, SMTT(30) DEF select_buffer, Idle
  <2>2. /\ tx_queue = s + 1 /\ tx_next = s % N /\ tx_try \in Nat
        /\ tx_try = 0 => tx_pc.buffer = s % N
    BY <1>4, <2>1, SMTT(30) DEF Sending, N
  <2>3. CASE /\ OWN[tx_pc.buffer] /\ tx_pc' = [at |-> "copy", buffer |-> tx_pc.buffer]
             /\ tx_next' = (tx_pc.buffer + 1) % N /\ skipped' = (skipped \/ tx_try # 0)
    <3>1. tx_pc.buffer = s % N
      BY <1>9, <2>2, <2>3, Zenon
    <3>2. s < k + N
      <4>1. s = k + N => k \in k..s - 1 /\ s % N = k % N
        <5>1. s = k + N => k \in k..s - 1
          BY ONLY <1>1, k \in Nat, SMTT(30)
        <5>2. (k + N) % N = k % N
          BY <1>1, RingTurn, Zenon
        <5> QED BY <5>1, <5>2, Zenon
      <4>2. s # k + N
        BY <1>4, <2>3, <3>1, <4>1, ZenonT(60) DEF BuffersHold, N
      <4> QED BY ONLY <1>1, <4>2, k \in Nat, s \in Nat, SMTT(30)
    <3>3. tx_next' = (s + 1) % N
      <4>1. 1 \in 0..N
        BY ONLY <1>1, SMTT(30)
      <4> QED BY <1>1, <2>3, <3>1, <4>1, RingPlus, Zenon
    <3>4. tx_pc' = [at |-> "copy", buffer |-> s % N] /\ tx_pc'.at # "start"
      BY ONLY <2>3, <3>1, SMTT(30)
    <3>5. Sending(k, s)'
      BY <2>1, <2>2, <3>2, <3>3, <3>4, Zenon DEF Sending, N
    <3> QED BY <2>1, <3>5, Zenon DEF TxState, BuffersHold, Counted
  <2>4. CASE /\ tx_try' = tx_try + 1 /\ UNCHANGED tx_next
             /\ tx_pc' = [at |-> "status", buffer |-> (tx_pc.buffer + 1) % N]
    <3>1. tx_try' \in Nat /\ tx_try' # 0
      BY ONLY <2>2, <2>4, SMTT(30)
    <3>2. tx_pc'.at = "status"
      BY ONLY <2>4, SMTT(30)
    <3>3. Sending(k, s)'
      BY <2>1, <2>2, <2>4, <3>1, <3>2, Zenon DEF Sending, N
    <3> QED BY <2>1, <3>3, Zenon DEF TxState, BuffersHold, Counted
  <2>5. CASE tx_pc' = [at |-> "panic", buffer |-> 0]
    <3>1. Sending(k, s)'
      BY <2>5, Zenon DEF Sending
    <3> QED BY <2>1, <3>1, Zenon DEF TxState, BuffersHold, Counted
  <2> QED BY <1>9, <2>3, <2>4, <2>5, Zenon DEF select_buffer, N
<1>6. ASSUME rtl_copy PROVE TxState(k, s)'
  <2>1. /\ tx_pc = [at |-> "copy", buffer |-> s % N] /\ tx_queue = s + 1
        /\ tx_next = (s + 1) % N /\ s < k + N
    BY <1>4, <1>6, SMTT(30) DEF rtl_copy, Sending, Idle, N
  <2>2. /\ tx' = [tx EXCEPT ![s % N] = s + 1] /\ UNCHANGED <<OWN, tx_next, card_tx, rtl_sent, tx_queue>>
        /\ tx_pc' = [at |-> "start", buffer |-> s % N]
    BY <1>6, <2>1, Zenon DEF rtl_copy
  <2>3. tx' \in [Buffers -> Nat] /\ tx'[s % N] = s + 1
    BY <1>2, <1>4, <2>2, SMTT(30) DEF BuffersHold
  <2>4. ASSUME NEW j \in k..s - 1 PROVE tx'[j % N] = tx[j % N]
    <3>1. j \in Nat /\ j <= s /\ s < j + N /\ j # s
      BY <1>1, <2>1, SMTT(30)
    <3>2. j % N # s % N
      BY <1>3, <3>1, Zenon
    <3> QED BY <1>2, <1>4, <2>2, <3>1, <3>2, Zenon DEF BuffersHold
  <2>5. BuffersHold(k, s)'
    BY <1>4, <2>2, <2>3, <2>4, Zenon DEF BuffersHold, N
  <2>6. Sending(k, s)'
    BY <2>1, <2>2, <2>3, Zenon DEF Sending, N
  <2> QED BY <2>2, <2>5, <2>6, Zenon DEF TxState
<1>7. ASSUME rtl_start PROVE TxState(k, s + 1)'
  <2>1. /\ tx_pc = [at |-> "start", buffer |-> s % N] /\ tx_queue = s + 1
        /\ tx_next = (s + 1) % N /\ s < k + N /\ tx[s % N] = s + 1
    BY <1>4, <1>7, SMTT(30) DEF rtl_start, Sending, Idle, N
  <2>2. /\ OWN' = [OWN EXCEPT ![s % N] = FALSE] /\ tx_pc' = Idle
        /\ UNCHANGED <<tx, tx_next, card_tx, rtl_sent, tx_queue>>
    BY <1>7, <2>1, Zenon DEF rtl_start
  <2>3. OWN' \in [Buffers -> BOOLEAN]
    BY <1>4, <2>2, Zenon DEF BuffersHold
  <2>4. ASSUME NEW j \in k..(s + 1) - 1 PROVE ~OWN'[j % N] /\ tx'[j % N] = j + 1
    <3>1. CASE j = s
      BY <1>2, <1>4, <2>1, <2>2, <3>1, Zenon DEF BuffersHold
    <3>2. CASE j # s
      <4>1. j \in k..s - 1
        BY <3>2, SMTT(30)
      <4>2. ~OWN[j % N] /\ tx[j % N] = j + 1 /\ j % N \in Buffers
        BY <1>2, <1>4, <4>1, j \in Nat, Zenon DEF BuffersHold, N
      <4> QED BY <1>4, <2>2, <4>2, Zenon DEF BuffersHold
    <3> QED BY <3>1, <3>2, Zenon
  <2>5. ASSUME NEW j \in s + 1..k + N - 1 PROVE OWN'[j % N]
    <3>1. j \in Nat /\ s <= j /\ j < s + N /\ j # s /\ j \in s..k + N - 1
      BY <1>1, SMTT(30)
    <3>2. OWN[j % N] /\ j % N # s % N /\ j % N \in Buffers
      BY <1>2, <1>3, <1>4, <3>1, Zenon DEF BuffersHold, N
    <3> QED BY <1>4, <2>2, <3>2, Zenon DEF BuffersHold
  <2>6. BuffersHold(k, s + 1)'
    BY <1>4, <2>2, <2>3, <2>4, <2>5, Zenon DEF BuffersHold, N
  <2>7. Sending(k, s + 1)'
    BY <2>1, <2>2, Zenon DEF Sending, N
  <2>8. k <= s + 1 /\ s + 1 <= k + N
    BY <1>1, <2>1, SMTT(30)
  <2> QED BY <1>1, <1>4, <2>2, <2>6, <2>7, <2>8, Zenon DEF TxState, N
<1>8. ASSUME card_transmit PROVE TxState(k + 1, s)'
  <2>1. k < s
    <3>1. k = s => k \in s..k + N - 1
      BY <1>1, SMTT(30)
    <3>2. ~OWN[k % N]
      BY <1>1, <1>8, Zenon DEF card_transmit
    <3>3. k # s
      BY <1>4, <3>1, <3>2, Zenon DEF BuffersHold, N
    <3> QED BY <1>1, <3>3, SMTT(30)
  <2>2. /\ rtl_sent' = Append(rtl_sent, k + 1) /\ OWN' = [OWN EXCEPT ![k % N] = TRUE]
        /\ card_tx' = ((k % N) + 1) % N /\ UNCHANGED <<tx, tx_next, tx_queue, tx_pc, tx_try>>
    <3>1. k \in k..s - 1
      BY <2>1, SMTT(30)
    <3>2. tx[k % N] = k + 1
      BY <1>4, <3>1, Zenon DEF BuffersHold, N
    <3> QED BY <1>1, <1>8, <3>2, Zenon DEF card_transmit, N
  <2>3. card_tx' = (k + 1) % N
    <3>1. 1 \in 0..N
      BY <1>1
    <3> QED BY <1>1, <2>2, <3>1, RingPlus, Zenon
  <2>4. Counted(rtl_sent)' /\ Len(rtl_sent') = k + 1
    BY <1>4, <2>2, CountedAppend, Zenon
  <2>5. OWN' \in [Buffers -> BOOLEAN]
    BY <1>4, <2>2, Zenon DEF BuffersHold
  <2>6. ASSUME NEW j \in k + 1..s - 1 PROVE ~OWN'[j % N] /\ tx'[j % N] = j + 1
    <3>1. j \in Nat /\ k <= j /\ j < k + N /\ j # k /\ j \in k..s - 1
      BY <1>1, SMTT(30)
    <3>2. ~OWN[j % N] /\ tx[j % N] = j + 1 /\ j % N # k % N /\ j % N \in Buffers
      BY <1>2, <1>3, <1>4, <3>1, Zenon DEF BuffersHold, N
    <3> QED BY <1>4, <2>2, <3>2, Zenon DEF BuffersHold
  <2>7. ASSUME NEW j \in s..k + 1 + N - 1 PROVE OWN'[j % N]
    <3>1. CASE j = k + N
      <4>1. j % N = k % N
        BY <1>1, <3>1, RingTurn, Zenon
      <4> QED BY <1>2, <1>4, <2>2, <4>1, Zenon DEF BuffersHold
    <3>2. CASE j # k + N
      <4>1. j \in Nat /\ j \in s..k + N - 1
        BY <1>1, <3>2, SMTT(30)
      <4>2. OWN[j % N] /\ j % N \in Buffers
        BY <1>2, <1>4, <4>1, Zenon DEF BuffersHold, N
      <4> QED BY <1>4, <2>2, <4>2, Zenon DEF BuffersHold
    <3> QED BY <3>1, <3>2, Zenon
  <2>8. BuffersHold(k + 1, s)'
    BY <1>4, <2>2, <2>5, <2>6, <2>7, Zenon DEF BuffersHold, N
  <2>9. k + 1 <= s /\ s <= k + 1 + N /\ (s < k + N => s < k + 1 + N)
    BY <1>1, <2>1, SMTT(30)
  <2>10. Sending(k + 1, s)'
    BY <1>4, <2>2, <2>9, Zenon DEF Sending, N
  <2> QED BY <2>3, <2>4, <2>8, <2>9, <2>10, Zenon DEF TxState, N
<1> QED BY <1>5, <1>6, <1>7, <1>8, <1>9, Zenon

(***************************************************************************)
(* The packets send (rtl8139.rs) was asked to send go out once each and    *)
(* none is lost, for any number of buffers and however the card runs       *)
(* beside the driver: it never gets a buffer that the card has not read.   *)
(* They go out in order until select_buffer leaves a buffer out.           *)
(***************************************************************************)
THEOREM RtlSendsInOrder == RtlSpec => []TxInOrder
<1> DEFINE N == TX_BUFFER_COUNT
<1>1. RtlInit => TxInv
  <2> SUFFICES ASSUME RtlInit PROVE TxInv
    BY Zenon
  <2>1. N \in Nat /\ N > 0 /\ 0 \in Buffers /\ 0 % N = 0
    BY RtlAssumption, SMTT(30) DEF Buffers
  <2>2. \A x \in Nat : x % N \in Buffers
    BY <2>1, RingFacts, Zenon DEF Buffers
  <2>3. /\ tx = [b \in Buffers |-> 0] /\ OWN = [b \in Buffers |-> TRUE] /\ rtl_sent = <<>>
        /\ tx_queue = 0 /\ tx_try = 0 /\ tx_next = 0 /\ card_tx = 0 /\ tx_pc = Idle
    BY Zenon DEF RtlInit
  <2>4. tx \in [Buffers -> Nat] /\ OWN \in [Buffers -> BOOLEAN] /\ \A b \in Buffers : OWN[b]
    BY <2>3, Zenon
  <2>5. /\ tx_pc \in [at : {"idle", "status", "copy", "start", "panic"}, buffer : Buffers]
        /\ tx_pc.at = "idle" /\ tx_pc.at \notin {"status", "copy", "start"}
    BY <2>1, <2>3, SMTT(30) DEF Idle
  <2>6. Counted(<<>>) /\ Len(<<>>) = 0 /\ 1..0 = {} /\ 1..Len(<<>>) = {} /\ <<>> \in Seq(Nat)
    BY SMTT(30) DEF Counted
  <2>7. TxTypeOK
    BY <2>1, <2>3, <2>4, <2>5, <2>6, Zenon DEF TxTypeOK
  <2>8. OnTheWire = {}
    BY <2>3, <2>6, Zenon DEF OnTheWire
  <2>9. TxOnce
    BY <2>3, <2>4, <2>5, <2>6, <2>8, Zenon DEF TxOnce, InHand
  <2>10. /\ 0..0 - 1 = {} /\ 0..0 + N - 1 \subseteq Nat /\ 0 <= 0 /\ 0 <= 0 + N
    BY <2>1, SMTT(30)
  <2>11. BuffersHold(0, 0)
    BY <2>2, <2>4, <2>10, Zenon DEF BuffersHold
  <2>12. TxState(0, 0)
    BY <2>1, <2>3, <2>6, <2>10, <2>11, Zenon DEF TxState, Sending
  <2> QED BY <2>7, <2>9, <2>12, Zenon DEF TxInv
<1>2. TxInv /\ [RtlNext]_rtlVars => TxInv'
  <2> SUFFICES ASSUME TxInv, [RtlNext]_rtlVars PROVE TxInv'
    BY Zenon
  <2>1. TxTypeOK /\ TxTypeOK' /\ TxOnce
    BY TxTypeStep, Zenon DEF TxInv
  <2>2. CASE UNCHANGED rtlTxVars
    <3>1. /\ tx' = tx /\ OWN' = OWN /\ tx_next' = tx_next /\ card_tx' = card_tx /\ skipped' = skipped
          /\ rtl_sent' = rtl_sent /\ tx_queue' = tx_queue /\ tx_pc' = tx_pc /\ tx_try' = tx_try
      BY <2>2, Zenon DEF rtlTxVars
    <3>2. ASSUME NEW k \in Nat, NEW s \in Nat, TxState(k, s) PROVE TxState(k, s)'
      <4>1. BuffersHold(k, s)' /\ Sending(k, s)'
        <5>1. BuffersHold(k, s)'
          BY <3>1, <3>2, Zenon DEF TxState, BuffersHold
        <5>2. Sending(k, s)'
          BY <3>1, <3>2, Zenon DEF TxState, Sending
        <5> QED BY <5>1, <5>2, Zenon
      <4> QED BY <3>1, <3>2, <4>1, Zenon DEF TxState, Counted
    <3>3. OnTheWire' = OnTheWire /\ (InHand' <=> InHand) /\ \A p : Waits(p)' <=> Waits(p)
      <4>1. OnTheWire' = OnTheWire
        BY <3>1, Zenon DEF OnTheWire
      <4> QED BY <3>1, <4>1, Zenon DEF InHand, Waits
    <3>4. TxOnce'
      BY <2>1, <3>1, <3>3, Zenon DEF TxOnce
    <3> QED BY <2>1, <3>1, <3>2, <3>4, Zenon DEF TxInv
  <2>3. (\E n \in {1, 2} : card_store(n) \/ card_overflow(n)) \/ card_report \/ rtl_take_irq \/ rtl_first_status
          \/ receive \/ rtl_write_capr \/ rtl_read_again \/ rtl_ack \/ UNCHANGED rtlVars
        => UNCHANGED rtlTxVars
    BY Zenon DEF card_store, card_overflow, card_report, rtl_take_irq, rtl_first_status, receive,
                 rtl_write_capr, rtl_read_again, rtl_ack, rtlVars
  <2>4. ASSUME rtl_send \/ select_buffer \/ rtl_copy \/ rtl_start \/ card_transmit PROVE TxInv'
    <3>1. TxOnce'
      BY <2>1, <2>4, TxOnceSend, TxOnceTransmit, Zenon
    <3>2. ASSUME ~skipped' PROVE \E k, s \in Nat : TxState(k, s)'
      <4>1. rtl_send \/ rtl_copy \/ rtl_start \/ card_transmit => skipped' = skipped
        BY Zenon DEF rtl_send, rtl_copy, rtl_start, card_transmit
      <4>2. select_buffer => ~skipped
        BY <3>2, Zenon DEF select_buffer
      <4>3. ~skipped
        BY <2>4, <3>2, <4>1, <4>2, Zenon
      <4>4. PICK k, s \in Nat : TxState(k, s)
        BY <4>3, Zenon DEF TxInv
      <4>5. k + 1 \in Nat /\ s + 1 \in Nat
        BY ONLY k \in Nat, s \in Nat, SMTT(30)
      <4> QED BY <2>4, <3>2, <4>4, <4>5, TxStep, Zenon
    <3> QED BY <2>1, <3>1, <3>2, Zenon DEF TxInv
  <2> QED BY <2>2, <2>3, <2>4, Zenon DEF RtlNext, RtlDriver
<1>3. TxInv => TxInOrder
  <2> SUFFICES ASSUME TxInv PROVE TxInOrder
    BY Zenon
  <2>1. \A b, c \in Buffers : ~OWN[b] => tx[b] \notin OnTheWire /\ (~OWN[c] /\ tx[b] = tx[c] => b = c)
    BY Zenon DEF TxInv, TxOnce, Waits
  <2>2. \A p \in 1..tx_queue : \/ p \in OnTheWire \/ \E b \in Buffers : ~OWN[b] /\ tx[b] = p
                               \/ p = tx_queue /\ tx_pc # Idle
    BY Zenon DEF TxInv, TxOnce, Waits
  <2>3. ~skipped => rtl_sent = [i \in 1..Len(rtl_sent) |-> i]
    BY Zenon DEF TxInv, TxState, Counted
  <2>4. \A i, k \in 1..Len(rtl_sent) : rtl_sent[i] = rtl_sent[k] => i = k
    BY Zenon DEF TxInv, TxOnce
  <2> QED BY <2>1, <2>2, <2>3, <2>4, Zenon DEF TxInOrder
<1> QED BY <1>1, <1>2, <1>3, PTL DEF RtlSpec

-----------------------------------------------------------------------------
(***************************************************************************)
(* The ring of the NE2000, of any size.  Its places are counted on without *)
(* end: the boundary is at b, the driver reads at r, its copy of CURR is   *)
(* at c and the card writes at w.  From r to w there are packets, one      *)
(* after the other, with rising numbers, and c is at the end of one.       *)
(***************************************************************************)
Page(x) == card_pages[x % PSTOP]

Packet(x, n, w) ==
    /\ x + n <= w /\ Page(x).next = (x + n) % PSTOP /\ Page(x).id \in 1..ne_received
    /\ \A y \in x..x + n - 1 : Page(y).id = Page(x).id /\ (y # x => Page(y).part # 0)
    /\ x + n < w => Page(x + n).part = 0 /\ Page(x).id < Page(x + n).id

Row(r, w) == \A x \in r..w - 1 : Page(x).part = 0 => \E n \in {1, 2} : Packet(x, n, w)

Places(b, r, c, w) ==
    /\ b < r /\ r <= c /\ c <= w /\ w <= b + PSTOP
    /\ BNRY = b % PSTOP /\ next_packet = r % PSTOP /\ CURR = w % PSTOP
    /\ ne_pc \in {"loop", "body", "bnry", "write_curr"} => curr = c % PSTOP
    /\ ne_pc = "body" => r < c /\ header = Page(r)
    /\ ne_pc # "lost"

(* Whole packets with rising numbers up to m.                              *)
Rising(all, m) ==
    /\ all \in Seq(SUBSET Nat)
    /\ \A i \in 1..Len(all) : \E y \in 1..m : all[i] = {y}
    /\ \A i, j \in 1..Len(all) : i < j => \A x \in all[i], y \in all[j] : x < y

Read(r, w) ==
    /\ ne_delivered \in Seq(SUBSET Nat) /\ ne_result \in Seq(SUBSET Nat)
    /\ Rising(ne_delivered \o ne_result, ne_received)
    /\ r < w => /\ Page(r).part = 0
                /\ \A i \in 1..Len(ne_delivered \o ne_result) :
                      \A y \in (ne_delivered \o ne_result)[i] : y < Page(r).id

RingState(b, r, c, w) ==
    /\ Places(b, r, c, w) /\ Row(r, w) /\ Read(r, w)
    /\ c < w => Page(c).part = 0

(***************************************************************************)
(* TX_OK is in the ISR only while send waits for it, and the reset and the *)
(* errors that a turn of notify_irq works on are still in the ISR.         *)
(***************************************************************************)
IsrInv ==
    /\ "TX_OK" \in ISR => ne_pc = "sent"
    /\ "TX_OK" \notin ne_status
    /\ \A f \in ERRORS \cup {"RESET"} : f \in ne_status => f \in ISR
    /\ ne_pc = "panic" => "RESET" \in ISR \/ ERRORS \subseteq ISR

Ne2kInv ==
    /\ IsrInv /\ ne_received \in Nat
    /\ ~clobbered => \E b, r, c, w \in Nat : RingState(b, r, c, w)

(* Going on by at most a ring, as Wrapped does it.                         *)
LEMMA WrappedIs ==
    ASSUME NEW x \in Nat, NEW k \in 0..PSTOP
    PROVE  Wrapped((x % PSTOP) + k) = (x + k) % PSTOP
<1>1. PSTOP \in Nat /\ PSTOP > 0
  BY Ne2kAssumption, SMTT(30)
<1>2. (x + k) % PSTOP = IF (x % PSTOP) + k >= PSTOP THEN (x % PSTOP) + k - PSTOP ELSE (x % PSTOP) + k
  BY <1>1, RingStep, Zenon
<1>3. (x % PSTOP) \in 0..PSTOP - 1
  BY <1>1, RingFacts, Zenon
<1> QED BY <1>1, <1>2, <1>3, SMTT(30) DEF Wrapped

(* How far it is from one place to a later one.                            *)
LEMMA Distance ==
    ASSUME NEW x \in Nat, NEW k \in 0..PSTOP - 1
    PROVE  Wrapped(((x + k) % PSTOP) + PSTOP - (x % PSTOP)) = k
<1>1. PSTOP \in Nat /\ PSTOP > 0 /\ k \in 0..PSTOP
  BY Ne2kAssumption, SMTT(30)
<1>2. (x + k) % PSTOP = IF (x % PSTOP) + k >= PSTOP THEN (x % PSTOP) + k - PSTOP ELSE (x % PSTOP) + k
  BY <1>1, RingStep, Zenon
<1>3. (x % PSTOP) \in 0..PSTOP - 1
  BY <1>1, RingFacts, Zenon
<1> QED BY <1>1, <1>2, <1>3, SMTT(30) DEF Wrapped

(* The pages of n places from x on.                                        *)
LEMMA PagesFrom ==
    ASSUME NEW x \in Nat, NEW n \in 0..PSTOP
    PROVE  \A p : p \in PacketPages(x % PSTOP, n) <=> \E i \in 0..n - 1 : p = (x + i) % PSTOP
<1>1. \A i \in 0..n - 1 : Wrapped((x % PSTOP) + i) = (x + i) % PSTOP
  <2>1. \A i \in 0..n - 1 : i \in 0..PSTOP
    BY Ne2kAssumption, SMTT(30)
  <2> QED BY <2>1, WrappedIs, Zenon
<1> QED BY <1>1, Zenon DEF PacketPages

(* Places of the ring, and places less than a ring apart.                  *)
LEMMA RingPages ==
    /\ \A x \in Nat : x % PSTOP \in Ring
    /\ \A x, y \in Nat : x <= y /\ y < x + PSTOP /\ x % PSTOP = y % PSTOP => x = y
<1>1. PSTOP \in Nat /\ PSTOP > 0
  BY Ne2kAssumption, SMTT(30)
<1>2. \A x \in Nat : x % PSTOP \in Ring
  BY <1>1, RingFacts, Zenon DEF Ring, PSTART
<1>3. \A x, y \in Nat : x <= y /\ y < x + PSTOP /\ x % PSTOP = y % PSTOP => x = y
  BY <1>1, RingApart, Zenon
<1> QED BY <1>2, <1>3, Zenon

(***************************************************************************)
(* card_receive: a packet that is not dropped ends at or before the        *)
(* boundary, so that nothing between r and w is overwritten.               *)
(***************************************************************************)
Stored(b, r, w, n) ==
    /\ w + n <= b + PSTOP /\ CURR' = (w + n) % PSTOP
    /\ \A x \in r..w - 1 : Page(x)' = Page(x)
    /\ \A x \in w..w + n - 1 : Page(x)'.id = ne_received + 1 /\ (x # w => Page(x)'.part # 0)
    /\ Page(w)'.part = 0 /\ Page(w)'.next = (w + n) % PSTOP

LEMMA StoredPages ==
    ASSUME NEW b \in Nat, NEW r \in Nat, NEW c \in Nat, NEW w \in Nat, RingState(b, r, c, w),
           NEW n \in {1, 2}, card_receive(n), ~(BNRY \in PacketPages(CURR, n))
    PROVE  Stored(b, r, w, n)
<1>1. /\ b < r /\ r <= w /\ w <= b + PSTOP /\ BNRY = b % PSTOP /\ CURR = w % PSTOP
      /\ PSTOP \in Nat /\ PSTOP > 2 /\ n \in 0..PSTOP
  BY Ne2kAssumption, SMTT(30) DEF RingState, Places
<1>2. \A p : p \in PacketPages(CURR, n) <=> \E i \in 0..n - 1 : p = (w + i) % PSTOP
  BY <1>1, PagesFrom, Zenon
<1>3. w + n <= b + PSTOP
  <2>1. ASSUME NEW i \in 0..n - 1 PROVE w + i # b + PSTOP
    <3>1. (b + PSTOP) % PSTOP = b % PSTOP
      <4>1. PSTOP > 0
        BY <1>1, SMTT(30)
      <4> QED BY <1>1, <4>1, RingTurn, Zenon
    <3> QED BY <1>1, <1>2, <3>1, Zenon
  <2> QED BY <1>1, <2>1
<1>4. /\ CURR' = Wrapped(CURR + n)
      /\ card_pages' = [p \in Ring |-> IF p \in PacketPages(CURR, n)
                                       THEN [id |-> ne_received + 1, part |-> Wrapped(p + PSTOP - CURR),
                                             next |-> Wrapped(CURR + n)]
                                       ELSE card_pages[p]]
  BY Zenon DEF card_receive
<1>5. Wrapped(CURR + n) = (w + n) % PSTOP
  BY <1>1, WrappedIs, Zenon
<1>6. ASSUME NEW x \in r..w - 1 PROVE Page(x)' = Page(x)
  <2>1. x \in Nat
    BY <1>1, SMTT(30)
  <2>3. x % PSTOP \in Ring
    BY <2>1, RingPages, Zenon
  <2>2. ASSUME NEW i \in 0..n - 1 PROVE x % PSTOP # (w + i) % PSTOP
    <3>1. w + i \in Nat /\ x <= w + i /\ w + i < x + PSTOP /\ x # w + i
      BY <1>1, <1>3, SMTT(30)
    <3> QED BY <2>1, <3>1, RingPages, Zenon
  <2> QED BY <1>2, <1>4, <2>2, <2>3, Zenon DEF Page
<1>7. ASSUME NEW i \in 0..n - 1
      PROVE  Page(w + i)' = [id |-> ne_received + 1, part |-> i, next |-> (w + n) % PSTOP]
  <2>1. w + i \in Nat /\ i \in 0..PSTOP - 1
    BY <1>1, SMTT(30)
  <2>3. (w + i) % PSTOP \in Ring
    BY <2>1, RingPages, Zenon
  <2>2. Wrapped(((w + i) % PSTOP) + PSTOP - (w % PSTOP)) = i
    BY <2>1, Distance, Zenon
  <2> QED BY <1>1, <1>2, <1>4, <1>5, <2>2, <2>3, Zenon DEF Page
<1>8. ASSUME NEW x \in w..w + n - 1
      PROVE  Page(x)'.id = ne_received + 1 /\ (x # w => Page(x)'.part # 0)
  <2>1. x - w \in 0..n - 1 /\ w + (x - w) = x /\ (x # w => x - w # 0)
    BY SMTT(30)
  <2>2. Page(x)' = [id |-> ne_received + 1, part |-> x - w, next |-> (w + n) % PSTOP]
    BY <1>7, <2>1, Zenon
  <2> QED BY <2>1, <2>2, SMTT(30)
<1>9. Page(w)'.part = 0 /\ Page(w)'.next = (w + n) % PSTOP
  <2>1. 0 \in 0..n - 1 /\ w + 0 = w
    BY SMTT(30)
  <2>2. Page(w)' = [id |-> ne_received + 1, part |-> 0, next |-> (w + n) % PSTOP]
    BY <1>7, <2>1, Zenon
  <2> QED BY <2>2, SMTT(30)
<1> QED BY <1>3, <1>4, <1>5, <1>6, <1>8, <1>9, Zenon DEF Stored

LEMMA CardReceiveStep ==
    ASSUME NEW b \in Nat, NEW r \in Nat, NEW c \in Nat, NEW w \in Nat, RingState(b, r, c, w),
           NEW n \in {1, 2}, card_receive(n), ne_received \in Nat
    PROVE  RingState(b, r, c, w)' \/ RingState(b, r, c, w + n)'
<1>1. /\ ne_received' = ne_received + 1
      /\ UNCHANGED <<BNRY, next_packet, ne_pc, curr, header, ne_result, ne_delivered>>
  BY Zenon DEF card_receive
<1>2. /\ b < r /\ r <= c /\ c <= w /\ w <= b + PSTOP /\ PSTOP \in Nat
      /\ \A y \in 1..ne_received : y \in 1..ne_received + 1
  BY Ne2kAssumption, SMTT(30) DEF RingState, Places
<1>3. Rising(ne_delivered \o ne_result, ne_received)'
  <2> DEFINE all == ne_delivered \o ne_result
  <2>1. all' = all
    BY <1>1, Zenon
  <2>2. Rising(all, ne_received)
    BY Zenon DEF RingState, Read
  <2> HIDE DEF all
  <2>3. Rising(all, ne_received + 1)
    BY <1>2, <2>2, Zenon DEF Rising
  <2>4. Rising(all', ne_received')
    BY <1>1, <2>1, <2>3, Zenon
  <2> QED BY <2>4, Zenon DEF all, Rising
<1>4. CASE BNRY \in PacketPages(CURR, n)
  <2>1. card_pages' = card_pages /\ CURR' = CURR
    BY <1>4, Zenon DEF card_receive
  <2>2. \A x : Page(x)' = Page(x)
    BY <2>1, Zenon DEF Page
  <2>3. ASSUME NEW x, NEW k, Packet(x, k, w) PROVE Packet(x, k, w)'
    BY <1>1, <1>2, <2>2, <2>3, Zenon DEF Packet
  <2>4. Row(r, w)'
    BY <2>2, <2>3, Zenon DEF Row, RingState
  <2>5. Places(b, r, c, w)'
    BY <1>1, <2>1, <2>2, Zenon DEF Places, RingState
  <2>6. Read(r, w)'
    BY <1>1, <1>3, <2>2, Zenon DEF Read, RingState
  <2> QED BY <2>2, <2>4, <2>5, <2>6, Zenon DEF RingState
<1>5. CASE ~(BNRY \in PacketPages(CURR, n))
  <2>10. Stored(b, r, w, n)
    BY <1>5, StoredPages, Zenon
  <2>1. /\ w + n <= b + PSTOP /\ CURR' = (w + n) % PSTOP
        /\ \A x \in r..w - 1 : Page(x)' = Page(x)
    BY <2>10, Zenon DEF Stored
  <2>2. /\ \A x \in w..w + n - 1 : Page(x)'.id = ne_received + 1 /\ (x # w => Page(x)'.part # 0)
        /\ Page(w)'.part = 0 /\ Page(w)'.next = (w + n) % PSTOP /\ Page(w)'.id = ne_received + 1
    <3>1. w \in w..w + n - 1
      BY SMTT(30)
    <3> QED BY <2>10, <3>1, Zenon DEF Stored
  <2>3. Packet(w, n, w + n)'
    <3>1. w + n <= w + n /\ ne_received + 1 \in 1..ne_received + 1 /\ ~(w + n < w + n)
      BY SMTT(30)
    <3> QED BY <1>1, <2>2, <3>1, Zenon DEF Packet
  <2>4. ASSUME NEW x \in r..w - 1, NEW k \in {1, 2}, Packet(x, k, w) PROVE Packet(x, k, w + n)'
    <3>1. x + k <= w /\ x..x + k - 1 \subseteq r..w - 1 /\ x \in r..w - 1 /\ x + k <= w + n
      BY <2>4, SMTT(30) DEF Packet
    <3>2. Page(x)'.next = (x + k) % PSTOP /\ Page(x)'.id \in 1..ne_received'
      BY <1>1, <1>2, <2>1, <2>4, <3>1, Zenon DEF Packet
    <3>3. \A y \in x..x + k - 1 : Page(y)'.id = Page(x)'.id /\ (y # x => Page(y)'.part # 0)
      BY <2>1, <2>4, <3>1, Zenon DEF Packet
    <3>4. Page(x + k)'.part = 0 /\ Page(x)'.id < Page(x + k)'.id
      <4>1. CASE x + k < w
        <5>1. x + k \in r..w - 1
          BY <4>1, SMTT(30)
        <5> QED BY <2>1, <2>4, <4>1, <5>1, Zenon DEF Packet
      <4>2. CASE x + k = w
        <5>1. Page(w)'.part = 0 /\ Page(w)'.id = ne_received + 1
          BY <2>2, Zenon
        <5>2. Page(x)'.id \in 1..ne_received
          BY <2>1, <2>4, Zenon DEF Packet
        <5> QED BY <4>2, <5>1, <5>2, SMTT(30)
      <4> QED BY <3>1, <4>1, <4>2, SMTT(30)
    <3> QED BY <3>1, <3>2, <3>3, <3>4, Zenon DEF Packet
  <2>5. Row(r, w + n)'
    <3>1. ASSUME NEW x \in r..(w + n) - 1, Page(x)'.part = 0 PROVE \E k \in {1, 2} : Packet(x, k, w + n)'
      <4>1. CASE x \in r..w - 1
        BY <2>1, <2>4, <3>1, <4>1, Zenon DEF Row, RingState
      <4>2. CASE x \in w..w + n - 1
        BY <2>2, <2>3, <3>1, <4>2, Zenon
      <4> QED BY <1>2, <4>1, <4>2, SMTT(30)
    <3> QED BY <3>1, Zenon DEF Row
  <2>6. Places(b, r, c, w + n)'
    <3>1. c <= w + n /\ (ne_pc = "body" => r \in r..w - 1)
      BY <1>2, SMTT(30) DEF RingState, Places
    <3>2. ne_pc = "body" => Page(r)' = Page(r)
      BY <2>1, <3>1, Zenon
    <3> QED BY <1>1, <2>1, <3>1, <3>2, Zenon DEF Places, RingState
  <2>7. r < w => r \in r..w - 1 /\ Page(r)' = Page(r)
    <3>1. r < w => r \in r..w - 1
      BY SMTT(30)
    <3> QED BY <2>1, <3>1, Zenon
  <2>8. Read(r, w + n)'
    <3>1. CASE r < w
      BY <1>1, <1>3, <2>7, <3>1, Zenon DEF Read, RingState
    <3>2. CASE r = w
      <4>1. Page(r)'.part = 0 /\ Page(r)'.id = ne_received + 1
        BY <2>2, <3>2, Zenon
      <4>2. \A y \in 1..ne_received : y < ne_received + 1
        BY SMTT(30)
      <4>3. ASSUME NEW i \in 1..Len(ne_delivered \o ne_result), NEW y \in (ne_delivered \o ne_result)[i]
            PROVE  y < ne_received + 1
        <5> DEFINE all == ne_delivered \o ne_result
        <5>1. Rising(all, ne_received)
          BY Zenon DEF RingState, Read
        <5> HIDE DEF all
        <5>2. \E z \in 1..ne_received : all[i] = {z}
          BY <5>1, Zenon DEF Rising, all
        <5>3. y \in 1..ne_received
          BY <5>2, Zenon DEF all
        <5> QED BY <4>2, <5>3, Zenon
      <4> QED BY <1>1, <1>3, <4>1, <4>3, Zenon DEF Read, RingState
    <3> QED BY <1>2, <3>1, <3>2, SMTT(30)
  <2>9. c < w + n => Page(c)'.part = 0
    <3>1. CASE c < w
      <4>1. c \in r..w - 1
        BY <1>2, <3>1, SMTT(30)
      <4> QED BY <2>1, <3>1, <4>1, Zenon DEF RingState
    <3>2. CASE c = w
      BY <2>2, <3>2, Zenon
    <3> QED BY <1>2, <3>1, <3>2
  <2> QED BY <2>5, <2>6, <2>8, <2>9, Zenon DEF RingState
<1> QED BY <1>4, <1>5, Zenon

(* A packet before the copy of CURR ends at it or before it.               *)
LEMMA EndsBefore ==
    ASSUME NEW x \in Nat, NEW n \in {1, 2}, NEW c \in Nat, NEW w \in Nat, Packet(x, n, w), x < c, c <= w,
           c < w => Page(c).part = 0
    PROVE  x + n <= c
<1>1. ASSUME c < x + n PROVE FALSE
  <2>1. c \in x..x + n - 1 /\ c # x
    BY <1>1, SMTT(30)
  <2>2. x + n <= w
    BY Zenon DEF Packet
  <2>3. c < w
    BY <1>1, <2>2, SMTT(30)
  <2> QED BY <2>1, <2>3, Zenon DEF Packet
<1> QED BY <1>1, SMTT(30)

(* The packet at the place the driver reads.                               *)
LEMMA FirstPacket ==
    ASSUME NEW b \in Nat, NEW r \in Nat, NEW c \in Nat, NEW w \in Nat, RingState(b, r, c, w), r < c
    PROVE  Page(r).part = 0 /\ \E n \in {1, 2} : Packet(r, n, w) /\ r + n <= c
<1>1. c <= w /\ (c < w => Page(c).part = 0)
  BY Zenon DEF RingState, Places
<1>2. r < w /\ r \in r..w - 1
  BY <1>1, SMTT(30)
<1>3. Page(r).part = 0
  BY <1>2, Zenon DEF RingState, Read
<1>4. PICK n \in {1, 2} : Packet(r, n, w)
  BY <1>2, <1>3, Zenon DEF RingState, Row
<1>5. r + n <= c
  BY <1>1, <1>4, EndsBefore, Zenon
<1> QED BY <1>3, <1>4, <1>5, Zenon

(***************************************************************************)
(* The steps that move none of the four places.                            *)
(***************************************************************************)
LEMMA PlacesKept ==
    ASSUME NEW b \in Nat, NEW r \in Nat, NEW c \in Nat, NEW w \in Nat, RingState(b, r, c, w),
           UNCHANGED <<card_pages, CURR, BNRY, next_packet, ne_received>>
    PROVE  /\ Row(r, w)' /\ (c < w => Page(c)'.part = 0) /\ Page(r)' = Page(r)
           /\ UNCHANGED <<ne_delivered, ne_result>> => Read(r, w)'
<1>1. \A x : Page(x)' = Page(x)
  BY Zenon DEF Page
<1>2. ASSUME NEW x, NEW k, Packet(x, k, w) PROVE Packet(x, k, w)'
  BY <1>1, <1>2, Zenon DEF Packet
<1>3. Row(r, w)'
  BY <1>1, <1>2, Zenon DEF Row, RingState
<1>4. UNCHANGED <<ne_delivered, ne_result>> => Read(r, w)'
  <2> SUFFICES ASSUME UNCHANGED <<ne_delivered, ne_result>> PROVE Read(r, w)'
    BY Zenon
  <2> QED BY <1>1, Zenon DEF RingState, Read
<1> QED BY <1>1, <1>3, <1>4, Zenon DEF RingState

LEMMA ReadIsrStep ==
    ASSUME NEW b \in Nat, NEW r \in Nat, NEW c \in Nat, NEW w \in Nat, RingState(b, r, c, w), read_isr
    PROVE  RingState(b, r, c, w)'
<1>1. /\ UNCHANGED <<card_pages, CURR, BNRY, next_packet, curr, header, ne_received>>
      /\ \/ ne_delivered' = ne_delivered \o ne_result /\ ne_result' = <<>>
         \/ UNCHANGED <<ne_delivered, ne_result>>
  BY Zenon DEF read_isr
<1>2. ne_pc' \in {"select", "curr", "isr", "panic"}
  BY Zenon DEF read_isr, AfterPackets
<1>3. Row(r, w)' /\ (c < w => Page(c)'.part = 0) /\ Page(r)' = Page(r)
  BY <1>1, PlacesKept, Zenon
<1>4. Places(b, r, c, w)'
  BY <1>1, <1>2, Zenon DEF Places, RingState
<1>5. ne_delivered \in Seq(SUBSET Nat) /\ ne_result \in Seq(SUBSET Nat)
  BY Zenon DEF RingState, Read
<1>6. ne_delivered' \in Seq(SUBSET Nat) /\ ne_result' \in Seq(SUBSET Nat)
      /\ ne_delivered' \o ne_result' = ne_delivered \o ne_result
  <2>1. /\ <<>> \in Seq(SUBSET Nat)
        /\ \A a, d \in Seq(SUBSET Nat) : a \o d \in Seq(SUBSET Nat) /\ (a \o d) \o <<>> = a \o d
    BY SMTT(30)
  <2>2. CASE ne_delivered' = ne_delivered \o ne_result /\ ne_result' = <<>>
    BY <1>5, <2>1, <2>2, Zenon
  <2>3. CASE UNCHANGED <<ne_delivered, ne_result>>
    BY <1>5, <2>3, Zenon
  <2> QED BY <1>1, <2>2, <2>3, Zenon
<1>7. Read(r, w)'
  BY <1>1, <1>3, <1>6, Zenon DEF RingState, Read
<1> QED BY <1>3, <1>4, <1>7, Zenon DEF RingState

LEMMA ReadHeaderStep ==
    ASSUME NEW b \in Nat, NEW r \in Nat, NEW c \in Nat, NEW w \in Nat, RingState(b, r, c, w), read_header
    PROVE  RingState(b, r, c, w)'
<1>1. /\ ne_pc = "loop" /\ curr # next_packet /\ header' = card_pages[next_packet]
      /\ UNCHANGED <<card_pages, CURR, BNRY, next_packet, curr, ne_received, ne_delivered, ne_result>>
  BY Zenon DEF read_header, Ne2kKeeps
<1>2. r < c /\ header' = Page(r)
  <2>1. r <= c /\ next_packet = r % PSTOP /\ curr = c % PSTOP
    BY <1>1, Zenon DEF RingState, Places
  <2>2. r # c
    BY <1>1, <2>1, Zenon
  <2> QED BY <1>1, <2>1, <2>2, SMTT(30) DEF Page
<1>3. Page(r).part = 0 /\ \E n \in {1, 2} : Packet(r, n, w) /\ r + n <= c
  BY <1>2, FirstPacket, Zenon
<1>4. Page(r).part = 0 /\ Page(r).id # 0
  <2>1. Page(r).id \in 1..ne_received
    BY <1>3, Zenon DEF Packet
  <2> QED BY <1>3, <2>1, SMTT(30)
<1>5. ne_pc' = "body"
  BY <1>2, <1>4, Zenon DEF read_header
<1>6. Row(r, w)' /\ (c < w => Page(c)'.part = 0) /\ Page(r)' = Page(r) /\ Read(r, w)'
  BY <1>1, PlacesKept, Zenon
<1>7. Places(b, r, c, w)'
  BY <1>1, <1>2, <1>5, <1>6, Zenon DEF Places, RingState
<1> QED BY <1>6, <1>7, Zenon DEF RingState

(***************************************************************************)
(* read_body: the packet is the one whose header was read, whole.          *)
(***************************************************************************)
LEMMA BodyRead ==
    ASSUME NEW b \in Nat, NEW r \in Nat, NEW c \in Nat, NEW w \in Nat, RingState(b, r, c, w), read_body,
           NEW n \in {1, 2}, Packet(r, n, w)
    PROVE  ne_result' = Append(ne_result, {Page(r).id}) /\ next_packet' = (r + n) % PSTOP
<1>1. /\ ne_pc = "body" /\ header = Page(r) /\ next_packet = r % PSTOP /\ header.next = (r + n) % PSTOP
      /\ PSTOP \in Nat /\ PSTOP > 2
  BY Ne2kAssumption, Zenon DEF read_body, RingState, Places, Packet
<1>2. Wrapped(header.next + PSTOP - next_packet) = n
  <2>1. n \in 0..PSTOP - 1
    BY <1>1, SMTT(30)
  <2> QED BY <1>1, <2>1, Distance, Zenon
<1>3. \A p : p \in PacketPages(next_packet, n) <=> \E i \in 0..n - 1 : p = (r + i) % PSTOP
  <2>1. n \in 0..PSTOP
    BY <1>1, SMTT(30)
  <2>2. \A p : p \in PacketPages(r % PSTOP, n) <=> \E i \in 0..n - 1 : p = (r + i) % PSTOP
    BY <2>1, PagesFrom, Zenon
  <2> QED BY <1>1, <2>2, Zenon
<1>4. {card_pages[p].id : p \in PacketPages(next_packet, n)} = {Page(r).id}
  <2>1. \A i \in 0..n - 1 : r + i \in r..r + n - 1
    BY SMTT(30)
  <2>2. \A i \in 0..n - 1 : card_pages[(r + i) % PSTOP].id = Page(r).id
    BY <2>1, Zenon DEF Packet, Page
  <2>3. 0 \in 0..n - 1
    BY SMTT(30)
  <2> QED BY <1>3, <2>2, <2>3, Zenon
<1>5. ~((r + n) % PSTOP >= PSTOP)
  BY <1>1, SMTT(30)
<1> QED BY <1>1, <1>2, <1>4, <1>5, Zenon DEF read_body

LEMMA RisingAppend ==
    ASSUME NEW all, NEW m \in Nat, Rising(all, m), NEW id \in 1..m, \A i \in 1..Len(all) : \A y \in all[i] : y < id
    PROVE  /\ Rising(Append(all, {id}), m)
           /\ \A i \in 1..Len(Append(all, {id})) : \A y \in Append(all, {id})[i] : y \in Nat /\ y <= id
<1> DEFINE new == Append(all, {id})
<1>1. all \in Seq(SUBSET Nat) /\ {id} \in SUBSET Nat
  <2>1. id \in Nat
    BY SMTT(30)
  <2> QED BY <2>1, Zenon DEF Rising
<1>2. /\ new \in Seq(SUBSET Nat) /\ Len(all) \in Nat /\ Len(new) = Len(all) + 1
      /\ \A i \in 1..Len(all) : new[i] = all[i]
      /\ new[Len(all) + 1] = {id}
  BY <1>1, SMTT(30)
<1> HIDE DEF new
<1>3. \A i \in 1..Len(new) : i \in 1..Len(all) \/ i = Len(all) + 1
  BY <1>2, SMTT(30)
<1>4. \A i, j \in 1..Len(new) : i < j => i \in 1..Len(all)
  BY <1>2, SMTT(30)
<1>5. \A i \in 1..Len(new) : \E y \in 1..m : new[i] = {y}
  BY <1>2, <1>3, Zenon DEF Rising
<1>6. \A i, j \in 1..Len(new) : i < j => \A x \in new[i], y \in new[j] : x < y
  <2> SUFFICES ASSUME NEW i \in 1..Len(new), NEW j \in 1..Len(new), i < j, NEW x \in new[i], NEW y \in new[j]
               PROVE  x < y
    BY Zenon
  <2>1. i \in 1..Len(all) /\ x \in all[i]
    BY <1>2, <1>4, Zenon
  <2>2. CASE j \in 1..Len(all)
    BY <1>2, <2>1, <2>2, Zenon DEF Rising
  <2>3. CASE j = Len(all) + 1
    BY <1>2, <2>1, <2>3, Zenon
  <2> QED BY <1>3, <2>2, <2>3, Zenon
<1>7. \A i \in 1..Len(new) : \A y \in new[i] : y \in Nat /\ y <= id
  <2> SUFFICES ASSUME NEW i \in 1..Len(new), NEW y \in new[i] PROVE y \in Nat /\ y <= id
    BY Zenon
  <2>1. y \in 1..m
    BY <1>5, Zenon
  <2>2. y < id \/ y = id
    BY <1>2, <1>3, Zenon
  <2> QED BY <2>1, <2>2, SMTT(30)
<1>8. Rising(new, m)
  BY <1>2, <1>5, <1>6, Zenon DEF Rising
<1> QED BY <1>7, <1>8, Zenon DEF new

LEMMA ReadBodyStep ==
    ASSUME NEW b \in Nat, NEW r \in Nat, NEW c \in Nat, NEW w \in Nat, RingState(b, r, c, w), read_body,
           ne_received \in Nat
    PROVE  \E n \in {1, 2} : RingState(b, r + n, c, w)'
<1>1. /\ ne_pc = "body" /\ ne_pc' = "bnry"
      /\ UNCHANGED <<card_pages, CURR, BNRY, curr, ne_received, ne_delivered>>
  BY Zenon DEF read_body, Ne2kKeeps
<1>2. /\ b < r /\ r < c /\ c <= w /\ w <= b + PSTOP /\ BNRY = b % PSTOP /\ CURR = w % PSTOP
      /\ curr = c % PSTOP
  BY <1>1, Zenon DEF RingState, Places
<1>3. \E n \in {1, 2} : Packet(r, n, w) /\ r + n <= c
  BY <1>2, FirstPacket, Zenon
<1>4. PICK n \in {1, 2} : Packet(r, n, w) /\ r + n <= c
  BY <1>3, Zenon
<1>5. ne_result' = Append(ne_result, {Page(r).id}) /\ next_packet' = (r + n) % PSTOP
  BY <1>4, BodyRead, Zenon
<1>6. \A x : Page(x)' = Page(x)
  BY <1>1, Zenon DEF Page
<1>7. Places(b, r + n, c, w)'
  <2>1. b < r + n /\ r + n <= c /\ c <= w /\ w <= b + PSTOP
    BY <1>2, <1>4, SMTT(30)
  <2>2. ne_pc' # "body" /\ ne_pc' = "bnry"
    BY <1>1, Zenon
  <2> QED BY <1>1, <1>2, <1>5, <2>1, <2>2, Zenon DEF Places
<1>8. Row(r + n, w)'
  <2>1. \A x \in r + n..w - 1 : x \in r..w - 1
    BY SMTT(30)
  <2>2. ASSUME NEW x, NEW k, Packet(x, k, w) PROVE Packet(x, k, w)'
    BY <1>1, <1>6, <2>2, Zenon DEF Packet
  <2> QED BY <1>6, <2>1, <2>2, Zenon DEF Row, RingState
<1>9. Read(r + n, w)'
  <2> DEFINE all == ne_delivered \o ne_result
             id == Page(r).id
  <2>1. ne_delivered \in Seq(SUBSET Nat) /\ ne_result \in Seq(SUBSET Nat) /\ Rising(all, ne_received)
    BY Zenon DEF RingState, Read
  <2>2. id \in 1..ne_received /\ id \in Nat
    <3>1. id \in 1..ne_received
      BY <1>4, Zenon DEF Packet
    <3> QED BY <3>1, SMTT(30)
  <2>3. \A i \in 1..Len(all) : \A y \in all[i] : y < id
    <3>1. r < w
      BY <1>2, SMTT(30)
    <3> QED BY <3>1, Zenon DEF RingState, Read
  <2>4. /\ ne_result' \in Seq(SUBSET Nat) /\ ne_delivered' \in Seq(SUBSET Nat)
        /\ ne_delivered' \o ne_result' = Append(all, {id})
    <3>1. {id} \in SUBSET Nat
      BY <2>2, Zenon
    <3>2. \A d, e \in Seq(SUBSET Nat) : \A x \in SUBSET Nat :
              Append(e, x) \in Seq(SUBSET Nat) /\ d \o Append(e, x) = Append(d \o e, x)
      BY SMTT(30)
    <3> QED BY <1>1, <1>5, <2>1, <3>1, <3>2, Zenon
  <2> HIDE DEF all, id
  <2>5. /\ Rising(Append(all, {id}), ne_received)
        /\ \A i \in 1..Len(Append(all, {id})) : \A y \in Append(all, {id})[i] : y \in Nat /\ y <= id
    BY <2>1, <2>2, <2>3, RisingAppend, Zenon
  <2>6. ASSUME r + n < w
        PROVE  /\ Page(r + n)'.part = 0
               /\ \A i \in 1..Len(Append(all, {id})) : \A y \in Append(all, {id})[i] : y < Page(r + n)'.id
    <3>1. Page(r + n).part = 0 /\ id < Page(r + n).id
      BY <1>4, <2>6, Zenon DEF Packet, id
    <3>2. r + n \in r..w - 1
      BY <2>6, SMTT(30)
    <3>3. PICK k \in {1, 2} : Packet(r + n, k, w)
      BY <3>1, <3>2, Zenon DEF RingState, Row
    <3>4. Page(r + n).id \in 1..ne_received
      BY <3>3, Zenon DEF Packet
    <3>5. \A y \in Nat : y <= id => y < Page(r + n).id
      BY <2>2, <3>1, <3>4, SMTT(30)
    <3> QED BY <1>6, <2>5, <3>1, <3>5, Zenon
  <2> QED BY <1>1, <2>4, <2>5, <2>6, Zenon DEF Read
<1>10. c < w => Page(c)'.part = 0
  BY <1>6, Zenon DEF RingState
<1> QED BY <1>7, <1>8, <1>9, <1>10, Zenon DEF RingState

(***************************************************************************)
(* write_bnry and write_curr: the boundary follows the driver; the card    *)
(* goes back to the copy of CURR, and the row ends there.                  *)
(***************************************************************************)
LEMMA WriteBnryStep ==
    ASSUME NEW b \in Nat, NEW r \in Nat, NEW c \in Nat, NEW w \in Nat, RingState(b, r, c, w), write_bnry
    PROVE  r - 1 \in Nat /\ RingState(r - 1, r, c, w)'
<1>1. /\ ne_pc = "bnry" /\ ne_pc' = "write_curr"
      /\ BNRY' = IF next_packet = PSTART THEN PSTOP - 1 ELSE next_packet - 1
      /\ UNCHANGED <<card_pages, CURR, next_packet, curr, header, ne_received, ne_delivered, ne_result>>
  BY Zenon DEF write_bnry, Ne2kKeeps
<1>2. /\ b < r /\ r <= c /\ c <= w /\ w <= b + PSTOP /\ next_packet = r % PSTOP /\ CURR = w % PSTOP
      /\ curr = c % PSTOP /\ PSTOP \in Nat /\ PSTOP > 2
  BY <1>1, Ne2kAssumption, Zenon DEF RingState, Places
<1>3. r - 1 \in Nat /\ r - 1 < r /\ w <= (r - 1) + PSTOP /\ (r - 1) + 1 = r /\ 1 \in 0..PSTOP
  BY <1>2, SMTT(30)
<1>4. BNRY' = (r - 1) % PSTOP
  <2>1. Wrapped(((r - 1) % PSTOP) + 1) = r % PSTOP
    BY <1>3, WrappedIs, Zenon
  <2>2. ((r - 1) % PSTOP) \in 0..PSTOP - 1
    BY <1>2, <1>3, SMTT(30)
  <2> QED BY <1>1, <1>2, <2>1, <2>2, SMTT(30) DEF Wrapped, PSTART
<1>5. \A x : Page(x)' = Page(x)
  BY <1>1, Zenon DEF Page
<1>6. ASSUME NEW x, NEW k, Packet(x, k, w) PROVE Packet(x, k, w)'
  BY <1>1, <1>5, <1>6, Zenon DEF Packet
<1>7. Row(r, w)' /\ Read(r, w)' /\ (c < w => Page(c)'.part = 0)
  BY <1>1, <1>5, <1>6, Zenon DEF Row, Read, RingState
<1>8. Places(r - 1, r, c, w)'
  <2>1. ne_pc' # "body"
    BY <1>1, Zenon
  <2> QED BY <1>1, <1>2, <1>3, <1>4, <2>1, Zenon DEF Places
<1> QED BY <1>3, <1>7, <1>8, Zenon DEF RingState

LEMMA WriteCurrStep ==
    ASSUME NEW b \in Nat, NEW r \in Nat, NEW c \in Nat, NEW w \in Nat, RingState(b, r, c, w), write_curr
    PROVE  RingState(b, r, c, c)'
<1>1. /\ ne_pc = "write_curr" /\ ne_pc' = "loop" /\ CURR' = curr
      /\ UNCHANGED <<card_pages, BNRY, next_packet, curr, header, ne_received, ne_delivered, ne_result>>
  BY Zenon DEF write_curr, Ne2kKeeps
<1>2. /\ b < r /\ r <= c /\ c <= w /\ w <= b + PSTOP /\ BNRY = b % PSTOP /\ next_packet = r % PSTOP
      /\ curr = c % PSTOP /\ PSTOP \in Nat /\ (c < w => Page(c).part = 0)
  BY <1>1, Ne2kAssumption, Zenon DEF RingState, Places
<1>3. \A x : Page(x)' = Page(x)
  BY <1>1, Zenon DEF Page
<1>4. c <= c /\ c <= b + PSTOP /\ ~(c < c)
  BY <1>2, SMTT(30)
<1>5. ASSUME NEW x \in r..c - 1, Page(x).part = 0 PROVE \E n \in {1, 2} : Packet(x, n, c)'
  <2>1. x \in Nat /\ x < c /\ x \in r..w - 1
    BY <1>2, SMTT(30)
  <2>2. PICK n \in {1, 2} : Packet(x, n, w)
    BY <1>5, <2>1, Zenon DEF Row, RingState
  <2>3. x + n <= c
    BY <1>2, <2>1, <2>2, EndsBefore, Zenon
  <2>4. x + n < c => x + n < w
    BY <1>2, <2>1, SMTT(30)
  <2> QED BY <1>1, <1>3, <2>2, <2>3, <2>4, Zenon DEF Packet
<1>6. Row(r, c)'
  BY <1>3, <1>5, Zenon DEF Row
<1>7. Read(r, c)'
  <2>1. r < c => r < w
    BY <1>2, SMTT(30)
  <2> QED BY <1>1, <1>3, <2>1, Zenon DEF Read, RingState
<1>8. Places(b, r, c, c)'
  <2>1. ne_pc' # "body"
    BY <1>1, Zenon
  <2> QED BY <1>1, <1>2, <1>4, <2>1, Zenon DEF Places
<1> QED BY <1>4, <1>6, <1>7, <1>8, Zenon DEF RingState

(* read_curr takes the copy; the other steps touch neither the ring nor    *)
(* the packets.                                                            *)
Unrelated == ne_select \/ clear_isr \/ card_transmitted \/ send_done \/ card_error

LEMMA OtherSteps ==
    ASSUME NEW b \in Nat, NEW r \in Nat, NEW c \in Nat, NEW w \in Nat, RingState(b, r, c, w)
    PROVE  /\ read_curr => RingState(b, r, w, w)'
           /\ Unrelated \/ UNCHANGED ne2kVars => RingState(b, r, c, w)'
<1>1. b < r /\ r <= c /\ c <= w /\ w <= b + PSTOP
  BY Zenon DEF RingState, Places
<1>2. r <= w /\ w <= w /\ ~(w < w)
  BY <1>1, SMTT(30)
<1>3. ASSUME read_curr PROVE RingState(b, r, w, w)'
  <2>1. /\ curr' = CURR /\ ne_pc' = "loop"
        /\ UNCHANGED <<card_pages, CURR, BNRY, next_packet, ne_received, ne_delivered, ne_result>>
    BY <1>3, Zenon DEF read_curr, Ne2kKeeps
  <2>2. Row(r, w)' /\ Read(r, w)'
    BY <2>1, PlacesKept, Zenon
  <2>3. ne_pc' # "body"
    BY <2>1, Zenon
  <2>4. Places(b, r, w, w)'
    BY <1>1, <1>2, <2>1, <2>3, Zenon DEF Places, RingState
  <2> QED BY <1>2, <2>2, <2>4, Zenon DEF RingState
<1>4. ASSUME Unrelated \/ UNCHANGED ne2kVars PROVE RingState(b, r, c, w)'
  <2>1. UNCHANGED <<card_pages, CURR, BNRY, next_packet, curr, header, ne_received, ne_delivered, ne_result>>
    BY <1>4, Zenon DEF Unrelated, ne_select, clear_isr, card_transmitted, send_done, card_error, ne2kVars, Ne2kKeeps
  <2>2. Row(r, w)' /\ (c < w => Page(c)'.part = 0) /\ Page(r)' = Page(r) /\ Read(r, w)'
    BY <2>1, PlacesKept, Zenon
  <2>3. ne_pc' \in {"isr", "select", "panic", "sent", "unsent"} \/ ne_pc' = ne_pc
    BY <1>4, Zenon DEF Unrelated, ne_select, clear_isr, AfterPackets, card_transmitted, send_done, card_error, ne2kVars
  <2>4. Places(b, r, c, w)'
    <3>1. CASE ne_pc' \in {"isr", "select", "panic", "sent", "unsent"}
      BY <2>1, <3>1, Zenon DEF Places, RingState
    <3>2. CASE ne_pc' = ne_pc
      BY <2>1, <2>2, <3>2, Zenon DEF Places, RingState
    <3> QED BY <2>3, <3>1, <3>2, Zenon
  <2> QED BY <2>2, <2>4, Zenon DEF RingState
<1> QED BY <1>3, <1>4, Zenon

(* send writes over no page of the row, or has set clobbered.              *)
LEMMA SendWriteStep ==
    ASSUME NEW b \in Nat, NEW r \in Nat, NEW c \in Nat, NEW w \in Nat, RingState(b, r, c, w),
           NEW n \in {1, 2}, send_write(n), ~clobbered'
    PROVE  RingState(b, r, c, w)'
<1>1. /\ ne_pc' = "transmit" /\ ~(\E p \in Unread : p < n)
      /\ card_pages' = [p \in Ring |-> IF p < n THEN NoPage ELSE card_pages[p]]
      /\ UNCHANGED <<CURR, BNRY, next_packet, curr, header, ne_received, ne_delivered, ne_result>>
  BY Zenon DEF send_write
<1>2. /\ b < r /\ r <= c /\ c <= w /\ w <= b + PSTOP /\ next_packet = r % PSTOP /\ CURR = w % PSTOP
      /\ PSTOP \in Nat
  BY Ne2kAssumption, Zenon DEF RingState, Places
<1>3. ASSUME NEW x \in r..w - 1 PROVE Page(x)' = Page(x)
  <2>1. /\ x \in Nat /\ r <= w /\ w < r + PSTOP /\ r # w /\ w - r \in 0..PSTOP - 1 /\ w - r \in 0..PSTOP
        /\ r + (w - r) = w /\ x - r \in 0..(w - r) - 1 /\ r + (x - r) = x
    BY <1>2, SMTT(30)
  <2>2. CURR # next_packet
    BY <1>2, <2>1, RingPages, Zenon
  <2>3. Wrapped(CURR + PSTOP - next_packet) = w - r
    <3>1. Wrapped(((r + (w - r)) % PSTOP) + PSTOP - (r % PSTOP)) = w - r
      BY <2>1, Distance, Zenon
    <3> QED BY <1>2, <2>1, <3>1, Zenon
  <2>4. Unread = PacketPages(r % PSTOP, w - r)
    BY <1>2, <2>2, <2>3, Zenon DEF Unread
  <2>5. \A p : p \in PacketPages(r % PSTOP, w - r) <=> \E i \in 0..(w - r) - 1 : p = (r + i) % PSTOP
    BY <2>1, PagesFrom, Zenon
  <2>6. x % PSTOP \in Unread
    BY <2>1, <2>4, <2>5, Zenon
  <2>7. x % PSTOP \in Ring
    BY <2>1, RingPages, Zenon
  <2> QED BY <1>1, <2>6, <2>7, Zenon DEF Page
<1>4. ASSUME NEW x \in r..w - 1, NEW k \in {1, 2}, Packet(x, k, w) PROVE Packet(x, k, w)'
  <2>1. x + k <= w
    BY <1>4, Zenon DEF Packet
  <2>2. x..x + k - 1 \subseteq r..w - 1 /\ (x + k < w => x + k \in r..w - 1)
    BY <2>1, SMTT(30)
  <2> QED BY <1>1, <1>3, <1>4, <2>2, Zenon DEF Packet
<1>5. Row(r, w)'
  BY <1>3, <1>4, Zenon DEF Row, RingState
<1>6. (r < w => r \in r..w - 1) /\ (c < w => c \in r..w - 1)
  BY <1>2, SMTT(30)
<1>7. Read(r, w)'
  BY <1>1, <1>3, <1>6, Zenon DEF Read, RingState
<1>8. c < w => Page(c)'.part = 0
  BY <1>3, <1>6, Zenon DEF RingState
<1>9. Places(b, r, c, w)'
  <2>1. ne_pc' \notin {"loop", "body", "bnry", "write_curr"}
    BY <1>1, Zenon
  <2> QED BY <1>1, <2>1, Zenon DEF Places, RingState
<1> QED BY <1>5, <1>7, <1>8, <1>9, Zenon DEF RingState

(* The interrupts of the NE2000.                                           *)
LEMMA IsrStep ==
    ASSUME IsrInv, [Ne2kNext]_ne2kVars
    PROVE  IsrInv'
<1>1. "RESET" # "TX_OK" /\ "TX_OK" \notin ERRORS /\ "RX_OK" \notin ERRORS
  BY SMTT(30) DEF ERRORS
<1>2. CASE \E n \in {1, 2} : card_receive(n)
  <2>1. PICK flags \in {{"RX_OK"}, {}, {"RX_BUFFER_FULL"}, {"RX_BUFFER_FULL", "RESET"}} :
            ISR' = ISR \cup flags /\ ne_pc' = ne_pc /\ ne_status' = ne_status
    BY <1>2, Zenon DEF card_receive
  <2> QED BY <2>1, Zenon DEF IsrInv
<1>3. CASE card_error
  BY <1>3, Zenon DEF card_error, IsrInv
<1>4. CASE card_transmitted
  BY <1>1, <1>4, Zenon DEF card_transmitted, IsrInv
<1>5. CASE send_done
  BY <1>1, <1>5, Zenon DEF send_done, IsrInv
<1>6. CASE clear_isr
  <2>1. ISR' = ISR \ {"RX_OK"} /\ ne_status' = {} /\ ne_pc' = AfterPackets(ne_status) /\ "TX_OK" \notin ISR
    BY <1>6, Zenon DEF clear_isr, IsrInv
  <2>2. \A f \in ERRORS \cup {"RESET"} : f \in ne_status => f \in ISR'
    BY <1>1, <2>1, Zenon DEF IsrInv
  <2>3. ne_pc' = "panic" => "RESET" \in ISR' \/ ERRORS \subseteq ISR'
    BY <2>1, <2>2, Zenon DEF AfterPackets, IsrInv
  <2> QED BY <2>1, <2>3, Zenon DEF IsrInv
<1>7. CASE read_isr
  <2>1. ISR' = ISR /\ ne_status' \in {ne_status, ISR} /\ ne_pc' \in {"select", "curr", AfterPackets(ISR)}
        /\ "TX_OK" \notin ISR
    BY <1>7, Zenon DEF read_isr, IsrInv
  <2>2. ne_pc' = "panic" => "RESET" \in ISR \/ ERRORS \subseteq ISR
    BY <2>1, Zenon DEF AfterPackets
  <2> QED BY <2>1, <2>2, Zenon DEF IsrInv
<1>8. CASE UNCHANGED ne2kVars
  BY <1>8, Zenon DEF ne2kVars, IsrInv
<1>9. ASSUME (\E n \in {1, 2} : send_write(n)) \/ ne_select \/ read_curr \/ read_header \/ read_body \/ write_bnry
              \/ write_curr
      PROVE  ISR' = ISR /\ ne_status' = ne_status /\ ne_pc # "sent" /\ ne_pc' # "panic"
  BY <1>9, Zenon DEF send_write, ne_select, read_curr, read_header, read_body, write_bnry, write_curr
<1> QED BY <1>2, <1>3, <1>4, <1>5, <1>6, <1>7, <1>8, <1>9, Zenon DEF Ne2kNext, Ne2kDriver, IsrInv

LEMMA Ne2kInvStep ==
    ASSUME Ne2kInv, [Ne2kNext]_ne2kVars
    PROVE  Ne2kInv'
<1>1. IsrInv' /\ ne_received' \in Nat
  <2>1. ne_received' \in {ne_received, ne_received + 1}
    BY Zenon DEF Ne2kNext, Ne2kDriver, card_receive, card_error, send_write, ne_select, read_isr, read_curr,
          read_header, read_body, write_bnry, write_curr, clear_isr, card_transmitted, send_done, Ne2kKeeps, ne2kVars
  <2>2. IsrInv /\ ne_received \in Nat
    BY Zenon DEF Ne2kInv
  <2>3. ne_received' \in Nat
    BY <2>1, <2>2, SMTT(30)
  <2> QED BY <2>2, <2>3, IsrStep, Zenon
<1>2. ASSUME ~clobbered' PROVE \E b, r, c, w \in Nat : RingState(b, r, c, w)'
  <2>1. ~clobbered
    BY <1>2, Zenon DEF Ne2kNext, Ne2kDriver, card_receive, send_write, ne_select, read_isr, read_curr, read_header,
          read_body, write_bnry, write_curr, clear_isr, card_error, card_transmitted, send_done, Ne2kKeeps, ne2kVars
  <2>2. PICK b, r, c, w \in Nat : RingState(b, r, c, w)
    BY <2>1, Zenon DEF Ne2kInv
  <2>3. ASSUME NEW n \in {1, 2}, card_receive(n) PROVE \E v \in Nat : RingState(b, r, c, v)'
    <3>1. w + n \in Nat
      OBVIOUS
    <3> QED BY <2>2, <2>3, <3>1, CardReceiveStep, Zenon DEF Ne2kInv
  <2>4. ASSUME NEW n \in {1, 2}, send_write(n) PROVE RingState(b, r, c, w)'
    BY <1>2, <2>2, <2>4, SendWriteStep, Zenon
  <2>5. ASSUME read_body PROVE \E q \in Nat : RingState(b, q, c, w)'
    <3>1. \A n \in {1, 2} : r + n \in Nat
      OBVIOUS
    <3> QED BY <2>2, <2>5, <3>1, ReadBodyStep, Zenon DEF Ne2kInv
  <2>6. read_isr => RingState(b, r, c, w)'
    BY <2>2, ReadIsrStep, Zenon DEF Ne2kInv
  <2>7. read_header => RingState(b, r, c, w)'
    BY <2>2, ReadHeaderStep, Zenon
  <2>8. write_bnry => r - 1 \in Nat /\ RingState(r - 1, r, c, w)'
    BY <2>2, WriteBnryStep, Zenon
  <2>9. write_curr => RingState(b, r, c, c)'
    BY <2>2, WriteCurrStep, Zenon
  <2>10. /\ read_curr => RingState(b, r, w, w)'
         /\ Unrelated \/ UNCHANGED ne2kVars => RingState(b, r, c, w)'
    BY <2>2, OtherSteps, Zenon
  <2> QED BY <2>3, <2>4, <2>5, <2>6, <2>7, <2>8, <2>9, <2>10, Zenon DEF Ne2kNext, Ne2kDriver, Unrelated
<1> QED BY <1>1, <1>2, Zenon DEF Ne2kInv

(***************************************************************************)
(* What read_packets (ne2k.rs) hands to netd are whole packets, in the     *)
(* order they arrived and none twice, for a ring of any size: moving CURR  *)
(* back to the copy while the card receives drops packets, but never cuts  *)
(* one or makes the driver take the middle of one for a header.            *)
(***************************************************************************)
THEOREM Ne2kReceivesInOrder == Ne2kSpec => []Ne2kInOrder
<1>1. Ne2kInit => Ne2kInv
  <2> SUFFICES ASSUME Ne2kInit PROVE Ne2kInv
    BY Zenon
  <2>1. /\ BNRY = 0 % PSTOP /\ next_packet = 1 % PSTOP /\ CURR = 1 % PSTOP /\ 0 < 1 /\ 1 <= 1 /\ ~(1 < 1)
        /\ 1 <= 0 + PSTOP /\ 1..1 - 1 = {}
    BY Ne2kAssumption, SMTT(30) DEF Ne2kInit, PSTART
  <2>2. ne_pc = "select"
    BY Zenon DEF Ne2kInit
  <2>3. Places(0, 1, 1, 1)
    BY <2>1, <2>2, Zenon DEF Places
  <2>4. Rising(ne_delivered \o ne_result, ne_received) /\ ne_delivered \in Seq(SUBSET Nat) /\ ne_result \in Seq(SUBSET Nat)
    BY DEF Ne2kInit, Rising
  <2>5. RingState(0, 1, 1, 1)
    BY <2>1, <2>3, <2>4, Zenon DEF RingState, Row, Read
  <2>6. IsrInv /\ ne_received \in Nat
    BY <2>2, Zenon DEF Ne2kInit, IsrInv
  <2> QED BY <2>5, <2>6, Zenon DEF Ne2kInv
<1>2. Ne2kInv => Ne2kInOrder
  <2>0. Ne2kInv => (ne_pc = "panic" => "RESET" \in ISR \/ ERRORS \subseteq ISR)
    BY Zenon DEF Ne2kInv, IsrInv
  <2> SUFFICES ASSUME Ne2kInv, ~clobbered
               PROVE  LET all == ne_delivered \o ne_result
                      IN /\ ne_pc # "lost"
                         /\ \A i \in DOMAIN all : Cardinality(all[i]) = 1
                         /\ \A i, j \in DOMAIN all : i < j => \A x \in all[i], y \in all[j] : x < y
    BY <2>0, Zenon DEF Ne2kInOrder
  <2> DEFINE all == ne_delivered \o ne_result
  <2>1. PICK b, r, c, w \in Nat : RingState(b, r, c, w)
    BY Zenon DEF Ne2kInv
  <2>2. ne_pc # "lost"
    BY <2>1, Zenon DEF RingState, Places
  <2>3. Rising(all, ne_received)
    BY <2>1, Zenon DEF RingState, Read
  <2> HIDE DEF all
  <2>4. DOMAIN all = 1..Len(all)
    BY <2>3 DEF Rising
  <2>5. \A y : Cardinality({y}) = 1
    BY FS_Singleton, Zenon
  <2>6. \A i \in DOMAIN all : Cardinality(all[i]) = 1
    BY <2>3, <2>4, <2>5, Zenon DEF Rising
  <2>7. \A i, j \in DOMAIN all : i < j => \A x \in all[i], y \in all[j] : x < y
    BY <2>3, <2>4, Zenon DEF Rising
  <2> QED BY <2>2, <2>6, <2>7, Zenon DEF all
<1> QED BY <1>1, <1>2, Ne2kInvStep, PTL DEF Ne2kSpec

(***************************************************************************)
(* Packets pass both cards whole, in order and none twice: read_packets of *)
(* ne2k.rs, receive and send of rtl8139.rs, with a card that fills and     *)
(* empties the rings at its own pace, up to the steps that the properties  *)
(* name (clobbered, skipped and stale).                                    *)
(***************************************************************************)
THEOREM PacketsPassInOrder == Ne2kSpec /\ RtlSpec => []PacketsInOrder
<1>1. Ne2kInOrder /\ TxInOrder /\ RxInOrder => PacketsInOrder
  BY Zenon DEF PacketsInOrder
<1> QED BY <1>1, Ne2kReceivesInOrder, RtlSendsInOrder, RtlReceivesInOrder, PTL

=============================================================================
