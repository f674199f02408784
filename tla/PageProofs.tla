----------------------------- MODULE PageProofs -----------------------------
(***************************************************************************)
(* What the operators of the page allocator (default_pmm.c), of the heap   *)
(* (kmalloc.c) and of a page table (pmm.c, vmm.c) do, for every number of  *)
(* pages, of processes and of addresses.                                   *)
(*                                                                         *)
(* A list of free blocks is described by the set of pages it covers:       *)
(* allocation takes a row of pages out of that set, freeing puts one in,   *)
(* and the blocks stay in order and apart. The ring of the heap is         *)
(* described by its blocks and their sizes in units, likewise; from this   *)
(* follows what kmalloc and kfree do.                                      *)
(*                                                                         *)
(* What processes have is described by places. A place is what may hold a  *)
(* page: a stack, a directory, a page table, an entry of one. Sound says   *)
(* that every page is free, the kernel's or in exactly one place, and that *)
(* the count of a page is that of the entries that map it. Every operation *)
(* on one entry or one area is shown to change one place, or none, and to  *)
(* keep Sound. MemoryProofs builds on them.                                *)
(***************************************************************************)
EXTENDS Memory, FiniteSetTheorems, SequenceTheorems, WellFoundedInduction, TLAPS

\* A set of numbers has a least one.
LEMMA Least ==
  ASSUME NEW T, T \subseteq Nat, T # {}
  PROVE  \E m \in T : \A k \in T : m <= k
<1>1. PICK R : IsWellFoundedOn(R, Nat) /\ \A k, m \in Nat : <<k, m>> \in R <=> k < m
  <2> DEFINE R == OpToRel(<, Nat)
  <2>1. IsWellFoundedOn(R, Nat)
    BY NatLessThanWellFounded, Zenon
  <2> QED BY <2>1 DEF OpToRel
<1>2. IsWellFoundedOn(R, Nat)
  BY <1>1
<1>3. \E m \in T : \A k \in T : ~ (<<k, m>> \in R)
  BY <1>2, WFMin, Zenon
<1>4. PICK m \in T : \A k \in T : ~ (<<k, m>> \in R)
  BY <1>3
<1>5. ASSUME NEW k \in T PROVE m <= k
  <2>1. k \in Nat /\ m \in Nat
    OBVIOUS
  <2>2. ~(k < m)
    BY <1>1, <1>4, <2>1
  <2> QED BY <2>1, <2>2
<1> QED BY <1>5

\* So Min is the least one.
LEMMA MinOf ==
  ASSUME NEW T, T \subseteq Nat, T # {}
  PROVE  Min(T) \in T /\ \A k \in T : Min(T) <= k
<1>1. \E m \in T : \A k \in T : m <= k
  BY Least
<1> QED BY <1>1, Zenon DEF Min

-----------------------------------------------------------------------------
(* Lists with an entry more, less or changed.                              *)

\* RemoveAt moves the entries behind down.
LEMMA RemoveIs ==
  ASSUME NEW S, NEW s \in Seq(S), NEW i \in DOMAIN s
  PROVE  /\ RemoveAt(s, i) \in Seq(S)
         /\ Len(RemoveAt(s, i)) = Len(s) - 1
         /\ \A j \in 1 .. Len(s) - 1 : RemoveAt(s, i)[j] = IF j < i THEN s[j] ELSE s[j + 1]
<1> DEFINE front == SubSeq(s, 1, i - 1)
           back  == SubSeq(s, i + 1, Len(s))
<1>1. RemoveAt(s, i) = front \o back
  BY DEF RemoveAt
<1>2. front \in Seq(S) /\ Len(front) = i - 1 /\ \A j \in 1 .. i - 1 : front[j] = s[j]
  BY SubSeqProperties
<1>3. /\ back \in Seq(S) /\ Len(back) = Len(s) - i
      /\ \A j \in 1 .. Len(s) - i : back[j] = s[i + j]
  BY SubSeqProperties
<1>4. i \in 1 .. Len(s) /\ Len(s) \in Nat
  OBVIOUS
<1> HIDE DEF front, back
<1>5. /\ front \o back \in Seq(S)
      /\ Len(front \o back) = Len(front) + Len(back)
      /\ \A j \in 1 .. Len(front) + Len(back) :
           (front \o back)[j] = IF j <= Len(front) THEN front[j] ELSE back[j - Len(front)]
  BY <1>2, <1>3, ConcatProperties, Zenon
<1>6. Len(front) + Len(back) = Len(s) - 1
  BY <1>2, <1>3, <1>4
<1>7. ASSUME NEW j \in 1 .. Len(s) - 1
      PROVE  (front \o back)[j] = IF j < i THEN s[j] ELSE s[j + 1]
  <2>1. CASE j < i
    BY <1>2, <1>4, <1>5, <1>6, <2>1
  <2>2. CASE ~(j < i)
    <3>1. j - (i - 1) \in 1 .. Len(s) - i /\ i + (j - (i - 1)) = j + 1 /\ ~(j <= i - 1)
      BY <1>4, <2>2
    <3>2. back[j - (i - 1)] = s[j + 1]
      BY <1>3, <3>1
    <3>3. (front \o back)[j] = back[j - (i - 1)]
      BY <1>2, <1>5, <1>6, <3>1
    <3> QED BY <2>2, <3>2, <3>3
  <2> QED BY <2>1, <2>2
<1> QED BY <1>1, <1>5, <1>6, <1>7

\* InsertAt moves the entries from its place on up.
LEMMA InsertIs ==
  ASSUME NEW S, NEW s \in Seq(S), NEW i \in 1 .. Len(s) + 1, NEW e \in S
  PROVE  /\ InsertAt(s, i, e) \in Seq(S)
         /\ Len(InsertAt(s, i, e)) = Len(s) + 1
         /\ \A j \in 1 .. Len(s) + 1 :
              InsertAt(s, i, e)[j] = IF j < i THEN s[j] ELSE IF j = i THEN e ELSE s[j - 1]
<1> DEFINE front == SubSeq(s, 1, i - 1)
           back  == SubSeq(s, i, Len(s))
           left  == front \o <<e>>
<1>0. Len(s) \in Nat /\ i \in Nat /\ 1 <= i /\ i <= Len(s) + 1
  OBVIOUS
<1>1. InsertAt(s, i, e) = left \o back
  BY DEF InsertAt
<1>2. front \in Seq(S) /\ Len(front) = i - 1 /\ \A j \in 1 .. i - 1 : front[j] = s[j]
  BY SubSeqProperties
<1>3. /\ back \in Seq(S) /\ Len(back) = Len(s) - i + 1
      /\ \A j \in 1 .. Len(s) - i + 1 : back[j] = s[i + j - 1]
  BY SubSeqProperties
<1> HIDE DEF front, back
<1>4. left \in Seq(S) /\ Len(left) = i /\ left[i] = e /\ \A j \in 1 .. i - 1 : left[j] = s[j]
  BY <1>0, <1>2
<1> HIDE DEF left
<1>5. /\ left \o back \in Seq(S)
      /\ Len(left \o back) = Len(left) + Len(back)
      /\ \A j \in 1 .. Len(left) + Len(back) :
           (left \o back)[j] = IF j <= Len(left) THEN left[j] ELSE back[j - Len(left)]
  BY <1>3, <1>4, ConcatProperties, Zenon
<1>6. Len(left) + Len(back) = Len(s) + 1
  BY <1>0, <1>3, <1>4
<1>7. ASSUME NEW j \in 1 .. Len(s) + 1
      PROVE  (left \o back)[j] = IF j < i THEN s[j] ELSE IF j = i THEN e ELSE s[j - 1]
  <2>1. CASE j <= i
    BY <1>0, <1>4, <1>5, <1>6, <2>1
  <2>2. CASE ~(j <= i)
    <3>1. j - i \in 1 .. Len(s) - i + 1 /\ i + (j - i) - 1 = j - 1 /\ ~(j < i) /\ j # i
      BY <1>0, <2>2
    <3>2. back[j - i] = s[j - 1]
      BY <1>3, <3>1
    <3>3. (left \o back)[j] = back[j - i]
      BY <1>4, <1>5, <1>6, <2>2
    <3> QED BY <3>1, <3>2, <3>3
  <2> QED BY <2>1, <2>2
<1> QED BY <1>1, <1>5, <1>6, <1>7

\* ReplaceAt changes one entry.
LEMMA ReplaceIs ==
  ASSUME NEW S, NEW s \in Seq(S), NEW i \in DOMAIN s, NEW e \in S
  PROVE  /\ ReplaceAt(s, i, e) \in Seq(S)
         /\ Len(ReplaceAt(s, i, e)) = Len(s)
         /\ \A j \in 1 .. Len(s) : ReplaceAt(s, i, e)[j] = IF j = i THEN e ELSE s[j]
  BY DEF ReplaceAt

\* Append puts the entry last.
LEMMA AppendIs ==
  ASSUME NEW S, NEW s \in Seq(S), NEW e \in S
  PROVE  /\ Append(s, e) \in Seq(S)
         /\ Len(Append(s, e)) = Len(s) + 1
         /\ \A j \in 1 .. Len(s) + 1 : Append(s, e)[j] = IF j <= Len(s) THEN s[j] ELSE e
  OBVIOUS

-----------------------------------------------------------------------------
(* Numbers and pages in a row.                                             *)
LEMMA RowSize ==
  ASSUME NEW b \in Nat, NEW n \in Nat
  PROVE  IsFiniteSet(b .. b + n - 1) /\ Cardinality(b .. b + n - 1) = n
<1>1. CASE n = 0
  <2>1. b .. b + n - 1 = {}
    BY <1>1
  <2> QED BY <1>1, <2>1, FS_EmptySet
<1>2. CASE n > 0
  <2>1. b + n - 1 \in Nat /\ b <= b + n - 1 /\ (b + n - 1) - b + 1 = n
    BY <1>2
  <2> QED BY <2>1, FS_Interval
<1> QED BY <1>1, <1>2

-----------------------------------------------------------------------------
(* The list of free blocks.                                                *)
PageBlocks == [base : Nat, n : Nat \ {0}]

ListOK(s) ==
  /\ s \in Seq(PageBlocks)
  /\ \A i \in DOMAIN s : s[i].base + s[i].n <= NPages
  /\ \A i, j \in DOMAIN s : i < j => s[i].base + s[i].n < s[j].base

\* The pages of the blocks of a list.
Cover(s) == UNION {Span(s[i]) : i \in DOMAIN s}

AreaOK(a) ==
  /\ DOMAIN a = {"list", "nr", "ok"} /\ a.ok
  /\ ListOK(a.list) /\ a.nr = Cardinality(Cover(a.list))

\* What a block of the list consists of.
LEMMA BlockFields ==
  ASSUME NEW s \in Seq(PageBlocks)
  PROVE  \A i \in DOMAIN s : s[i].base \in Nat /\ s[i].n \in Nat /\ s[i].n > 0 /\ s[i] = Block(s[i].base, s[i].n)
<1>1. \A i \in DOMAIN s : s[i] \in PageBlocks
  OBVIOUS
<1>2. \A x \in PageBlocks : x.base \in Nat /\ x.n \in Nat /\ x.n > 0 /\ x = Block(x.base, x.n)
  BY DEF PageBlocks, Block
<1> QED BY <1>1, <1>2

\* A page is in a block when it lies between its ends.
LEMMA CoverIs ==
  ASSUME NEW s, ListOK(s)
  PROVE  /\ \A p : p \in Cover(s) <=> \E i \in DOMAIN s : p \in Nat /\ s[i].base <= p /\ p < s[i].base + s[i].n
         /\ Cover(s) \subseteq Pages
         /\ IsFiniteSet(Cover(s))
<1>1. \A i \in DOMAIN s : s[i].base \in Nat /\ s[i].n \in Nat /\ s[i].n > 0 /\ s[i].base + s[i].n <= NPages
  BY BlockFields DEF ListOK
<1>2. NPages \in Nat
  BY PagesAssumption
<1>3. \A p : \A i \in DOMAIN s : p \in Span(s[i]) <=> p \in Nat /\ s[i].base <= p /\ p < s[i].base + s[i].n
  BY <1>1 DEF Span
<1>4. \A p : p \in Cover(s) <=> \E i \in DOMAIN s : p \in Span(s[i])
  BY DEF Cover
<1>5. Cover(s) \subseteq Pages
  BY <1>1, <1>2, <1>3, <1>4 DEF Pages
<1>6. IsFiniteSet(Pages)
  BY <1>2, FS_Interval DEF Pages
<1> QED BY <1>3, <1>4, <1>5, <1>6, FS_Subset

\* Such an area is exact.
LEMMA ExactArea ==
  ASSUME NEW a, AreaOK(a)
  PROVE  AreaExact(a)
<1>1. \A i \in 1 .. Len(a.list) - 1 : i \in DOMAIN a.list /\ i + 1 \in DOMAIN a.list /\ i < i + 1
  BY DEF AreaOK, ListOK
<1>2. \A i \in DOMAIN a.list : a.list[i].n > 0
  BY BlockFields DEF AreaOK, ListOK
<1>3. FreeIn(a) = Cover(a.list)
  BY DEF FreeIn, Cover
<1>4. a.ok
  BY DEF AreaOK
<1> QED BY <1>1, <1>2, <1>3, <1>4 DEF AreaExact, AreaOK, ListOK

Row(b, n) == b .. b + n - 1

\* Pages taken from a set, or added to it, are as many fewer, or more.
LEMMA CountRow ==
  ASSUME NEW S, IsFiniteSet(S), NEW b \in Nat, NEW n \in Nat
  PROVE  /\ Row(b, n) \subseteq S =>
              Cardinality(S \ Row(b, n)) = Cardinality(S) - n /\ Cardinality(S) - n \in Nat
         /\ Row(b, n) \cap S = {} => Cardinality(S \cup Row(b, n)) = Cardinality(S) + n
<1> DEFINE R == Row(b, n)
<1>1. IsFiniteSet(R) /\ Cardinality(R) = n
  BY RowSize DEF Row
<1>2. IsFiniteSet(S \ R) /\ Cardinality(S) \in Nat /\ Cardinality(S \ R) \in Nat /\ Cardinality({}) = 0
  BY FS_Difference, FS_CardinalityType, FS_EmptySet
<1> HIDE DEF R
<1>3. ASSUME R \subseteq S PROVE Cardinality(S \ R) = Cardinality(S) - n /\ Cardinality(S) - n \in Nat
  <2>1. Cardinality((S \ R) \cup R) = Cardinality(S \ R) + Cardinality(R) - Cardinality((S \ R) \cap R)
    BY <1>1, <1>2, FS_Union
  <2>2. (S \ R) \cup R = S /\ (S \ R) \cap R = {}
    BY <1>3
  <2>3. Cardinality(S) = Cardinality(S \ R) + n - 0
    BY <1>1, <1>2, <2>1, <2>2, Zenon
  <2> QED BY <1>1, <1>2, <2>3
<1>4. ASSUME R \cap S = {} PROVE Cardinality(S \cup R) = Cardinality(S) + n
  <2>1. Cardinality(S \cup R) = Cardinality(S) + Cardinality(R) - Cardinality(S \cap R)
    BY <1>1, FS_Union
  <2>2. S \cap R = {}
    BY <1>4
  <2>3. Cardinality(S \cup R) = Cardinality(S) + n - 0
    BY <1>1, <1>2, <2>1, <2>2, Zenon
  <2> QED BY <1>1, <1>2, <2>3
<1> QED BY <1>3, <1>4 DEF R

\* default_alloc_pages takes pages from the start of a block.
LEMMA CarveList ==
  ASSUME NEW s, ListOK(s), NEW i \in DOMAIN s, NEW size \in Nat \ {0}, s[i].n >= size,
         NEW t, t = IF s[i].n > size THEN ReplaceAt(s, i, Block(s[i].base + size, s[i].n - size))
                    ELSE RemoveAt(s, i)
  PROVE  /\ ListOK(t) /\ Row(s[i].base, size) \subseteq Cover(s)
         /\ Cover(t) = Cover(s) \ Row(s[i].base, size)
<1> DEFINE b == s[i].base
           n == s[i].n
           e == Block(b + size, n - size)
<1>1. s \in Seq(PageBlocks) /\ DOMAIN s = 1 .. Len(s) /\ Len(s) \in Nat
  BY DEF ListOK
<1>0. s \in Seq(PageBlocks)
  BY DEF ListOK
<1>9. ASSUME NEW x \in PageBlocks
      PROVE  /\ ReplaceAt(s, i, x) \in Seq(PageBlocks) /\ Len(ReplaceAt(s, i, x)) = Len(s)
             /\ \A j \in 1 .. Len(s) : ReplaceAt(s, i, x)[j] = IF j = i THEN x ELSE s[j]
  BY <1>0, ReplaceIs
<1>2. \A j \in DOMAIN s : s[j].base \in Nat /\ s[j].n \in Nat /\ s[j].n > 0 /\ s[j].base + s[j].n <= NPages
  BY <1>1, BlockFields DEF ListOK
<1>3. \A j, l \in DOMAIN s : j < l => s[j].base + s[j].n < s[l].base
  BY DEF ListOK
<1>4. /\ \A p : p \in Cover(s) <=> \E j \in DOMAIN s : p \in Nat /\ s[j].base <= p /\ p < s[j].base + s[j].n
      /\ \A p : p \in Row(b, size) <=> p \in Nat /\ b <= p /\ p < b + size
  BY <1>2, CoverIs DEF Row
<1>5. Row(b, size) \subseteq Cover(s)
  BY <1>2, <1>4
<1>6. NPages \in Nat /\ b \in Nat /\ n \in Nat /\ b + n <= NPages /\ n >= size /\ size > 0
  BY <1>2, PagesAssumption
<1>7. CASE n > size
  <2>1. e \in PageBlocks /\ e.base = b + size /\ e.n = n - size
    BY <1>6, <1>7 DEF PageBlocks, Block
  <2>2. t = ReplaceAt(s, i, e)
    BY <1>7
  <2> HIDE DEF e
  <2>3. t \in Seq(PageBlocks) /\ Len(t) = Len(s) /\ \A j \in 1 .. Len(s) : t[j] = IF j = i THEN e ELSE s[j]
    BY <1>9, <2>1, <2>2
  <2>4. DOMAIN t = DOMAIN s
    BY <1>1, <2>3
  <2> HIDE DEF b, n
  <2>5. /\ t[i].base = b + size /\ t[i].n = n - size
        /\ \A j \in DOMAIN s : j # i => t[j].base = s[j].base /\ t[j].n = s[j].n
    BY <1>1, <2>1, <2>3
  <2>6. /\ \A j \in DOMAIN t : t[j].base + t[j].n <= NPages
        /\ \A j, l \in DOMAIN t : j < l => t[j].base + t[j].n < t[l].base
    BY <1>2, <1>3, <1>6, <1>7, <2>4, <2>5 DEF b, n
  <2>7. ListOK(t)
    BY <2>3, <2>6 DEF ListOK
  <2>8. \A p : p \in Cover(t) <=> \E j \in DOMAIN s : p \in Nat /\ t[j].base <= p /\ p < t[j].base + t[j].n
    BY <2>4, <2>7, CoverIs
  <2>9. ASSUME NEW p, p \in Cover(t) PROVE p \in Cover(s) \ Row(b, size)
    <3>1. PICK j \in DOMAIN s : p \in Nat /\ t[j].base <= p /\ p < t[j].base + t[j].n
      BY <2>8, <2>9
    <3>2. CASE j = i
      BY <1>4, <1>6, <1>7, <2>5, <3>1, <3>2 DEF b, n
    <3>3. CASE j # i
      <4>1. s[j].base <= p /\ p < s[j].base + s[j].n /\ i \in Int /\ j \in Int
        BY <1>1, <2>5, <3>1, <3>3
      <4>2. s[j].base + s[j].n < b \/ b + n < s[j].base
        BY <1>3, <3>3, <4>1 DEF b, n
      <4>3. p \notin Row(b, size)
        BY <1>2, <1>4, <1>6, <3>1, <4>1, <4>2
      <4> QED BY <1>4, <3>1, <4>1, <4>3
    <3> QED BY <3>2, <3>3
  <2>10. ASSUME NEW p, p \in Cover(s) \ Row(b, size) PROVE p \in Cover(t)
    <3>1. PICK j \in DOMAIN s : p \in Nat /\ s[j].base <= p /\ p < s[j].base + s[j].n
      BY <1>4, <2>10
    <3>2. CASE j = i
      BY <1>4, <1>6, <1>7, <2>5, <2>8, <2>10, <3>1, <3>2 DEF b, n
    <3>3. CASE j # i
      BY <2>5, <2>8, <3>1, <3>3
    <3> QED BY <3>2, <3>3
  <2>11. Cover(t) = Cover(s) \ Row(b, size)
    BY <2>9, <2>10
  <2> QED BY <1>5, <2>7, <2>11 DEF b
<1>8. CASE n = size
  <2>1. t = RemoveAt(s, i)
    BY <1>6, <1>8, SMTT(30)
  <2>2. /\ t \in Seq(PageBlocks) /\ Len(t) = Len(s) - 1
        /\ \A j \in 1 .. Len(s) - 1 : t[j] = IF j < i THEN s[j] ELSE s[j + 1]
    BY <1>1, <2>1, RemoveIs
  <2>3. DOMAIN t = 1 .. Len(s) - 1 /\ i \in 1 .. Len(s)
    <3>1. DOMAIN t = 1 .. Len(t)
      BY <2>2, LenProperties, Zenon
    <3> QED BY <1>1, <2>2, <3>1, Zenon
  <2> DEFINE at(j) == IF j < i THEN j ELSE j + 1
  <2> HIDE DEF b, n
  <2>4. \A j \in DOMAIN t : at(j) \in DOMAIN s /\ at(j) # i /\ t[j] = s[at(j)]
    <3> SUFFICES ASSUME NEW j \in 1 .. Len(s) - 1
                 PROVE  at(j) \in 1 .. Len(s) /\ at(j) # i /\ t[j] = s[at(j)]
      BY <1>1, <2>3, Zenon
    <3>1. t[j] = IF j < i THEN s[j] ELSE s[j + 1]
      BY <2>2
    <3>2. Len(s) \in Nat /\ i \in 1 .. Len(s)
      BY <1>1, <2>3
    <3> HIDE DEF at
    <3>3. t[j] = s[at(j)]
      BY <3>1, Zenon DEF at
    <3> QED BY <3>2, <3>3 DEF at
  <2>5. \A j, l \in DOMAIN t : j < l => at(j) < at(l)
    BY <2>3
  <2>6. \A j \in DOMAIN s : j # i => \E l \in DOMAIN t : at(l) = j
    <3> SUFFICES ASSUME NEW j \in DOMAIN s, j # i PROVE \E l \in DOMAIN t : at(l) = j
      OBVIOUS
    <3>1. CASE j < i
      BY <1>1, <2>3, <3>1
    <3>2. CASE j > i
      <4>1. j - 1 \in DOMAIN t /\ at(j - 1) = j
        BY <1>1, <2>3, <3>2
      <4> QED BY <4>1
    <3> QED BY <1>1, <2>3, <3>1, <3>2
  <2> HIDE DEF at, b, n
  <2>7. /\ \A j \in DOMAIN t : t[j].base + t[j].n <= NPages
        /\ \A j, l \in DOMAIN t : j < l => t[j].base + t[j].n < t[l].base
    BY <1>2, <1>3, <2>4, <2>5
  <2>8. ListOK(t)
    BY <2>2, <2>7 DEF ListOK
  <2>9. \A p : p \in Cover(t) <=> \E j \in DOMAIN t : p \in Nat /\ t[j].base <= p /\ p < t[j].base + t[j].n
    BY <2>8, CoverIs
  <2>10. ASSUME NEW p, p \in Cover(t) PROVE p \in Cover(s) \ Row(b, size)
    <3>1. PICK l \in DOMAIN t : p \in Nat /\ t[l].base <= p /\ p < t[l].base + t[l].n
      BY <2>9, <2>10
    <3> DEFINE j == at(l)
    <3>2. j \in DOMAIN s /\ j # i /\ s[j].base <= p /\ p < s[j].base + s[j].n
      BY <2>4, <3>1
    <3> HIDE DEF j
    <3>3. s[j].base + s[j].n < b \/ b + n < s[j].base
      BY <1>1, <1>3, <3>2 DEF b, n
    <3>4. p \notin Row(b, size)
      BY <1>2, <1>4, <1>6, <3>1, <3>2, <3>3
    <3> QED BY <1>4, <3>1, <3>2, <3>4
  <2>11. ASSUME NEW p, p \in Cover(s) \ Row(b, size) PROVE p \in Cover(t)
    <3>1. PICK j \in DOMAIN s : p \in Nat /\ s[j].base <= p /\ p < s[j].base + s[j].n
      BY <1>4, <2>11
    <3>2. j # i
      BY <1>4, <1>6, <1>8, <2>11, <3>1 DEF b, n
    <3>3. PICK l \in DOMAIN t : at(l) = j
      BY <2>6, <3>2
    <3> QED BY <2>4, <2>9, <3>1, <3>3
  <2>12. Cover(t) = Cover(s) \ Row(b, size)
    BY <2>10, <2>11
  <2> QED BY <1>5, <2>8, <2>12 DEF b
<1> QED BY <1>6, <1>7, <1>8

\* Free(a): what is free; Row: what a call gets or gives.
Free(a) == Cover(a.list)

\* default_alloc_pages takes free pages in a row, and finds a page if there is one.
LEMMA AllocIs ==
  ASSUME NEW a, AreaOK(a), NEW size \in Nat \ {0}, NEW r, r = AllocPages(a, size)
  PROVE  /\ r.page = NoPage => r.area = a /\ (size = 1 => Free(a) = {})
         /\ r.page # NoPage => /\ r.page \in Pages /\ Row(r.page, size) \subseteq Free(a)
                               /\ AreaOK(r.area) /\ Free(r.area) = Free(a) \ Row(r.page, size)
<1> DEFINE s == a.list
           F == Fitting(a, size)
           none == size > a.nr \/ F = {}
           i == Min(F)
<1>1. ListOK(s) /\ a.nr = Cardinality(Cover(s))
  BY DEF AreaOK
<1>2. s \in Seq(PageBlocks) /\ DOMAIN s = 1 .. Len(s) /\ Len(s) \in Nat
  BY <1>1 DEF ListOK
<1>3. \A j \in DOMAIN s : s[j].base \in Nat /\ s[j].n \in Nat /\ s[j].n > 0 /\ s[j].base + s[j].n <= NPages
  BY <1>1, <1>2, BlockFields DEF ListOK
<1>4. F = {j \in DOMAIN s : s[j].n >= size}
  BY DEF Fitting
<1>5. NPages \in Nat /\ NoPage = NPages /\ Pages = 0 .. NPages - 1
  BY PagesAssumption DEF NoPage, Pages
<1>6. IsFiniteSet(Cover(s)) /\ Cardinality(Cover(s)) \in Nat
  BY <1>1, CoverIs, FS_CardinalityType
<1>7. CASE none
  <2>1. r.page = NoPage /\ r.area = a
    BY <1>7 DEF AllocPages
  <2>2. ASSUME size = 1 PROVE Cover(s) = {}
    <3>1. CASE size > a.nr
      <4>1. Cardinality(Cover(s)) = 0
        BY <1>1, <1>6, <2>2, <3>1
      <4> QED BY <1>6, <4>1, FS_EmptySet
    <3>2. CASE F = {}
      <4>1. DOMAIN s = {}
        BY <1>3, <1>4, <2>2, <3>2
      <4> QED BY <4>1 DEF Cover
    <3> QED BY <1>7, <3>1, <3>2
  <2> QED BY <2>1, <2>2 DEF Free
<1>8. CASE ~none
  <2>1. r = [area |-> Carve(a, i, size), page |-> s[i].base]
    BY <1>8 DEF AllocPages
  <2>2. F \subseteq Nat /\ F # {}
    BY <1>2, <1>4, <1>8
  <2>3. i \in F
    BY <2>2, MinOf
  <2> HIDE DEF F, i
  <2>4. i \in DOMAIN s /\ s[i].n >= size
    BY <1>4, <2>3
  <2> DEFINE t == IF s[i].n > size THEN ReplaceAt(s, i, Block(s[i].base + size, s[i].n - size))
                  ELSE RemoveAt(s, i)
             n == a.nr - size
  <2>5. /\ ListOK(t) /\ Row(s[i].base, size) \subseteq Cover(s)
        /\ Cover(t) = Cover(s) \ Row(s[i].base, size)
    BY <1>1, <2>4, CarveList
  <2>6. r.area = [[a EXCEPT !.nr = n] EXCEPT !.list = t]
    <3>1. Carve(a, i, size) = [a EXCEPT !.nr = n, !.list = t]
      BY DEF Carve, t
    <3>2. [a EXCEPT !.nr = n, !.list = t] = [[a EXCEPT !.nr = n] EXCEPT !.list = t]
      BY SMT
    <3> QED BY <2>1, <3>1, <3>2
  <2>7. s[i].base \in Nat /\ s[i].n \in Nat /\ s[i].base + s[i].n <= NPages
    BY <1>3, <2>4
  <2> HIDE DEF t
  <2>8. n = Cardinality(Cover(t))
    <3>1. Cardinality(Cover(s) \ Row(s[i].base, size)) = Cardinality(Cover(s)) - size
      BY <1>6, <2>5, <2>7, CountRow
    <3> QED BY <1>1, <2>5, <3>1
  <2> HIDE DEF n
  <2>9. AreaOK(r.area) /\ r.area.list = t
    <3>1. DOMAIN a = {"list", "nr", "ok"} /\ a.ok
      BY DEF AreaOK
    <3>2. DOMAIN r.area = {"list", "nr", "ok"} /\ r.area.list = t /\ r.area.nr = n /\ r.area.ok
      BY <2>6, <3>1
    <3> QED BY <2>5, <2>8, <3>1, <3>2, Zenon DEF AreaOK
  <2>10. r.page = s[i].base /\ r.page \in Pages /\ r.page # NoPage
    BY <1>3, <1>5, <2>1, <2>4
  <2> QED BY <2>5, <2>9, <2>10 DEF Free
<1> QED BY <1>7, <1>8

-----------------------------------------------------------------------------
(* Loops.                                                                  *)

\* A turn of one of them, the loop and what it does not change in c.
Turned(c, s, i) ==
  CASE c[1] = "absorb" -> Absorb(s, c[2][i])
    [] c[1] = "ring"   -> c[2][s]
    [] c[1] = "unmap"  -> RemovePte(s, c[2], c[3] + i - 1)
    [] c[1] = "exit"   -> DropTable(s, c[2], Dir(c[3] + i - 1))
    [] c[1] = "unmaps" -> UnmapRange(s, c[2], c[3][i])
    [] c[1] = "exits"  -> ExitRange(s, c[2], c[3][i])
    [] c[1] = "copy"   -> CopyPage(s, c[2], c[3], c[4] + i - 1)
    [] c[1] = "dup"    -> DupArea(s, c[2], c[3], c[4][Len(c[4]) - i + 1])
    [] c[1] = "load"   -> LoadPage(s, c[2], c[3], c[3].start + i - 1)
    [] c[1] = "segs"   -> LoadSegment(s, c[2], c[3][i])
    [] c[1] = "stack"  -> PgdirAllocPage(s, c[2], Top - i, Old)

Turning(c, k, n, f) == [i \in 0 .. n |-> IF i = 0 THEN k ELSE Turned(c, f[i - 1], i)]

\* Every one of the loops is a function: else some turn would be the first without one.
LEMMA TurnsExist ==
  ASSUME NEW c, NEW k, NEW n \in Nat
  PROVE  \E f : f = Turning(c, k, n, f)
<1> DEFINE Step(f, m) == IF m = 0 THEN k ELSE Turned(c, f[m - 1], m)
           Defined(l) == \E f : f = [m \in 0 .. l |-> Step(f, m)]
           T == {l \in Nat : ~Defined(l)}
<1>1. T = {}
  <2> SUFFICES ASSUME T # {} PROVE FALSE
    OBVIOUS
  <2>1. PICK l \in T : \A j \in T : l <= j
    BY Least
  <2>2. CASE l = 0
    <3> DEFINE g == [m \in 0 .. l |-> k]
    <3>1. g = [m \in 0 .. l |-> Step(g, m)]
      BY <2>2
    <3> QED BY <2>1, <3>1
  <2>3. CASE l # 0
    <3>1. l - 1 \in Nat /\ l - 1 \notin T
      <4>1. l \in Nat /\ T \subseteq Nat
        OBVIOUS
      <4> HIDE DEF T
      <4> QED BY <2>1, <2>3, <4>1
    <3>2. PICK f : f = [m \in 0 .. l - 1 |-> Step(f, m)]
      BY <3>1
    <3> DEFINE g == [m \in 0 .. l |-> IF m < l THEN f[m] ELSE Step(f, l)]
    <3>3. ASSUME NEW m \in 0 .. l PROVE g[m] = Step(g, m)
      <4>1. CASE m < l
        <5>1. m \in 0 .. l - 1 /\ g[m] = f[m] /\ f[m] = Step(f, m)
          BY <3>1, <3>2, <4>1
        <5>2. m # 0 => m - 1 \in 0 .. l /\ m - 1 < l /\ g[m - 1] = f[m - 1]
          BY <3>1, <4>1
        <5> QED BY <5>1, <5>2
      <4>2. CASE ~(m < l)
        <5>1. m = l /\ g[m] = Step(f, l)
          BY <3>1, <4>2
        <5>2. l - 1 \in 0 .. l /\ l - 1 < l /\ g[l - 1] = f[l - 1]
          BY <3>1
        <5> QED BY <2>3, <5>1, <5>2
      <4> QED BY <4>1, <4>2
    <3>4. g = [m \in 0 .. l |-> Step(g, m)]
      <4>1. DOMAIN g = 0 .. l
        OBVIOUS
      <4> QED BY <3>3
    <3> QED BY <2>1, <3>4
  <2> QED BY <2>2, <2>3
<1>2. Defined(n)
  BY <1>1
<1> QED BY <1>2 DEF Turning

\* What holds before the first turn and after each if before it, holds after the last.
LEMMA Upward ==
  ASSUME NEW P, NEW n \in Nat, P[0], \A i \in 1 .. n : P[i - 1] => P[i]
  PROVE  P[n]
<1> DEFINE T == {i \in Nat : i <= n /\ ~P[i]}
<1>1. T = {}
  <2> SUFFICES ASSUME T # {} PROVE FALSE
    OBVIOUS
  <2>1. PICK i \in T : \A j \in T : i <= j
    BY Least
  <2>2. i \in Nat /\ i <= n /\ ~P[i] /\ i # 0
    BY <2>1
  <2>3. i - 1 \notin T /\ i - 1 \in Nat /\ i - 1 <= n
    <3> HIDE DEF T
    <3> QED BY <2>1, <2>2
  <2>4. P[i - 1] /\ i \in 1 .. n
    BY <2>2, <2>3
  <2> QED BY <2>2, <2>4
<1> QED BY <1>1

\* The first loop of default_free_pages, turn by turn.
LEMMA AbsorbTurns ==
  ASSUME NEW s, NEW k, Len(s) \in Nat
  PROVE  \E x : /\ x[0] = k
                /\ \A i \in 1 .. Len(s) : x[i] = Absorb(x[i - 1], s[i])
                /\ x[Len(s)] = Merge(k, s)
<1> DEFINE n == Len(s)
           Made(f) == [i \in 0 .. n |-> IF i = 0 THEN k ELSE Absorb(f[i - 1], s[i])]
           x == CHOOSE f : f = Made(f)
<1>1. PICK f : f = Turning(<<"absorb", s>>, k, n, f)
  BY TurnsExist
<1>2. f = Made(f)
  BY <1>1 DEF Turning, Turned
<1>3. x = Made(x)
  BY <1>2, Zenon
<1>4. Merge(k, s) = x[n]
  BY Zenon DEF Loop, Merge
<1> HIDE DEF x
<1>5. x[0] = k /\ \A i \in 1 .. n : x[i] = Absorb(x[i - 1], s[i])
  BY <1>3
<1> QED BY <1>4, <1>5, Zenon

-----------------------------------------------------------------------------
(* The first loop of default_free_pages: after i turns the freed block m    *)
(* and the blocks it did not take in are the pages freed and those of the   *)
(* first i blocks of the list s, and m touches no block, seen or not yet.   *)
Merged(m, s, i, b, size) ==
  /\ DOMAIN m = {"base", "n", "rest"}
  /\ m.base \in Nat /\ m.n \in Nat \ {0} /\ m.base + m.n <= NPages
  /\ ListOK(m.rest)
  /\ \A j \in DOMAIN m.rest : m.rest[j].base + m.rest[j].n < m.base \/ m.base + m.n < m.rest[j].base
  /\ \A l \in DOMAIN s : l > i =>
       /\ s[l].base + s[l].n <= m.base \/ m.base + m.n <= s[l].base
       /\ \A j \in DOMAIN m.rest : m.rest[j].base + m.rest[j].n < s[l].base
  /\ \A p \in Nat :
       (p \in Cover(m.rest) \/ (m.base <= p /\ p < m.base + m.n))
          <=> (b <= p /\ p < b + size) \/ \E l \in DOMAIN s : l <= i /\ s[l].base <= p /\ p < s[l].base + s[l].n

\* A turn of the first loop keeps it.
LEMMA AbsorbKeeps ==
  ASSUME NEW s, ListOK(s), NEW i \in Nat, i < Len(s), NEW b \in Nat, NEW size \in Nat,
         NEW m, Merged(m, s, i, b, size), NEW t, t = Absorb(m, s[i + 1])
  PROVE  Merged(t, s, i + 1, b, size)
<1> DEFINE e == s[i + 1]
<1>1. s \in Seq(PageBlocks) /\ DOMAIN s = 1 .. Len(s) /\ Len(s) \in Nat /\ i + 1 \in DOMAIN s
  BY DEF ListOK
<1>2. \A l \in DOMAIN s : s[l].base \in Nat /\ s[l].n \in Nat /\ s[l].n > 0 /\ s[l].base + s[l].n <= NPages
  BY <1>1, BlockFields DEF ListOK
<1>3. \A l \in DOMAIN s : l \in Nat /\ (l > i + 1 => l > i /\ e.base + e.n < s[l].base)
  BY <1>1 DEF ListOK
<1>4. /\ e.base \in Nat /\ e.n \in Nat /\ e.n > 0 /\ e.base + e.n <= NPages
      /\ NPages \in Nat
  BY <1>1, <1>2, PagesAssumption
<1>5. /\ m.base \in Nat /\ m.n \in Nat /\ m.n > 0 /\ m.base + m.n <= NPages /\ ListOK(m.rest)
      /\ DOMAIN m = {"base", "n", "rest"}
      /\ \A j \in DOMAIN m.rest : m.rest[j].base + m.rest[j].n < m.base \/ m.base + m.n < m.rest[j].base
  BY DEF Merged
<1>6. /\ \A l \in DOMAIN s : l > i => s[l].base + s[l].n <= m.base \/ m.base + m.n <= s[l].base
      /\ \A l \in DOMAIN s : l > i => \A j \in DOMAIN m.rest : m.rest[j].base + m.rest[j].n < s[l].base
  BY DEF Merged
<1>7. m.rest \in Seq(PageBlocks) /\ DOMAIN m.rest = 1 .. Len(m.rest) /\ Len(m.rest) \in Nat
  BY <1>5 DEF ListOK
<1>8. \A j \in DOMAIN m.rest : m.rest[j].base \in Nat /\ m.rest[j].n \in Nat /\ m.rest[j].n > 0
                                 /\ m.rest[j].base + m.rest[j].n <= NPages
  BY <1>5, <1>7, BlockFields DEF ListOK
<1>9. /\ e.base + e.n <= m.base \/ m.base + m.n <= e.base
      /\ \A j \in DOMAIN m.rest : m.rest[j].base + m.rest[j].n < e.base
  BY <1>1, <1>6
<1>10. \A p \in Nat : (p \in Cover(m.rest) \/ (m.base <= p /\ p < m.base + m.n) \/ (e.base <= p /\ p < e.base + e.n))
          <=> (b <= p /\ p < b + size) \/ \E l \in DOMAIN s : l <= i + 1 /\ s[l].base <= p /\ p < s[l].base + s[l].n
  <2>1. \A p \in Nat : (p \in Cover(m.rest) \/ (m.base <= p /\ p < m.base + m.n))
          <=> (b <= p /\ p < b + size) \/ \E l \in DOMAIN s : l <= i /\ s[l].base <= p /\ p < s[l].base + s[l].n
    BY DEF Merged
  <2>2. \A l \in DOMAIN s : l <= i + 1 <=> (l <= i \/ l = i + 1)
    BY <1>3
  <2> HIDE DEF e
  <2>3. e = s[i + 1]
    BY DEF e
  <2> QED BY <1>1, <2>1, <2>2, <2>3, Zenon
<1>11. t = CASE m.base + m.n = e.base -> [m EXCEPT !.n = @ + e.n]
             [] e.base + e.n = m.base -> [m EXCEPT !.base = e.base, !.n = @ + e.n]
             [] OTHER                 -> [m EXCEPT !.rest = Append(@, e)]
  BY DEF Absorb
<1> HIDE DEF e
<1>15. m.base \in Nat /\ m.n \in Nat \ {0} /\ e.base \in Nat /\ e.n \in Nat
  BY <1>4, <1>5
<1>12. CASE m.base + m.n = e.base
  <2>1. DOMAIN t = {"base", "n", "rest"} /\ t.base = m.base /\ t.n = m.n + e.n /\ t.rest = m.rest
    <3>1. t = [m EXCEPT !.n = @ + e.n]
      <4> DEFINE u == [m EXCEPT !.n = @ + e.n]
                 v == [m EXCEPT !.base = e.base, !.n = @ + e.n]
                 w == [m EXCEPT !.rest = Append(@, e)]
      <4>1. t = CASE m.base + m.n = e.base -> u [] e.base + e.n = m.base -> v [] OTHER -> w
        BY <1>11, Zenon
      <4>2. u = [m EXCEPT !.n = @ + e.n]
        OBVIOUS
      <4> HIDE DEF u, v, w
      <4>4. e.base + e.n # m.base
        BY <1>4, <1>12, <1>15, SMTT(30)
      <4>3. t = u
        BY <1>12, <4>1, <4>4
      <4> QED BY <4>2, <4>3, Zenon
    <3> QED BY <1>5, <3>1
  <2>2. \A j \in DOMAIN t.rest : t.rest[j].base + t.rest[j].n < t.base \/ t.base + t.n < t.rest[j].base
    <3> SUFFICES ASSUME NEW j \in DOMAIN m.rest PROVE m.rest[j].base + m.rest[j].n < m.base
      BY <2>1
    <3>1. m.rest[j].base \in Nat /\ m.rest[j].n \in Nat /\ m.rest[j].n > 0 /\ m.rest[j].base + m.rest[j].n < e.base
      BY <1>8, <1>9
    <3>2. m.rest[j].base + m.rest[j].n < m.base \/ m.base + m.n < m.rest[j].base
      BY <1>5
    <3> QED BY <1>4, <1>5, <1>12, <3>1, <3>2, SMTT(30)
  <2>3. \A l \in DOMAIN s : l > i + 1 => s[l].base + s[l].n <= t.base \/ t.base + t.n <= s[l].base
    <3> SUFFICES ASSUME NEW l \in DOMAIN s, l > i + 1 PROVE m.base + (m.n + e.n) <= s[l].base
      BY <2>1
    <3>1. s[l].base \in Nat /\ e.base + e.n < s[l].base
      BY <1>2, <1>3
    <3> QED BY <1>4, <1>5, <1>12, <3>1, SMTT(30)
  <2>4. \A p \in Nat : (p \in Cover(t.rest) \/ (t.base <= p /\ p < t.base + t.n))
           <=> (b <= p /\ p < b + size) \/ \E l \in DOMAIN s : l <= i + 1 /\ s[l].base <= p /\ p < s[l].base + s[l].n
    <3>1. \A p \in Nat : (t.base <= p /\ p < t.base + t.n)
                            <=> (m.base <= p /\ p < m.base + m.n) \/ (e.base <= p /\ p < e.base + e.n)
      BY <1>4, <1>5, <1>12, <2>1, SMTT(30)
    <3> QED BY <1>10, <2>1, <3>1, Zenon
  <2>5. t.base \in Nat /\ t.n \in Nat \ {0} /\ t.base + t.n <= NPages
    BY <1>4, <1>5, <1>12, <2>1, SMTT(30)
  <2>6. \A l \in DOMAIN s : l > i + 1 => \A j \in DOMAIN t.rest : t.rest[j].base + t.rest[j].n < s[l].base
    BY <1>3, <1>6, <2>1
  <2> QED BY <1>5, <2>1, <2>2, <2>3, <2>4, <2>5, <2>6 DEF Merged
<1>13. CASE m.base + m.n # e.base /\ e.base + e.n = m.base
  <2>1. DOMAIN t = {"base", "n", "rest"} /\ t.base = e.base /\ t.n = m.n + e.n /\ t.rest = m.rest
    <3>1. t = [m EXCEPT !.base = e.base, !.n = m.n + e.n]
      BY <1>11, <1>13
    <3> QED BY <1>5, <3>1
  <2>2. \A j \in DOMAIN t.rest : t.rest[j].base + t.rest[j].n < t.base \/ t.base + t.n < t.rest[j].base
    BY <1>9, <2>1
  <2>3. \A l \in DOMAIN s : l > i + 1 => s[l].base + s[l].n <= t.base \/ t.base + t.n <= s[l].base
    <3> SUFFICES ASSUME NEW l \in DOMAIN s, l > i + 1 PROVE e.base + (m.n + e.n) <= s[l].base
      BY <2>1
    <3>1. s[l].base \in Nat /\ e.base + e.n < s[l].base /\ s[l].n \in Nat
      BY <1>2, <1>3
    <3>2. s[l].base + s[l].n <= m.base \/ m.base + m.n <= s[l].base
      BY <1>3, <1>6
    <3>3. \A a, x, c, y, d, z \in Nat : a + x = c /\ a + x < d /\ (d + z <= c \/ c + y <= d) => a + (y + x) <= d
      OBVIOUS
    <3> QED BY <1>15, <1>13, <3>1, <3>2, <3>3, SMTT(30)
  <2>4. \A p \in Nat : (p \in Cover(t.rest) \/ (t.base <= p /\ p < t.base + t.n))
           <=> (b <= p /\ p < b + size) \/ \E l \in DOMAIN s : l <= i + 1 /\ s[l].base <= p /\ p < s[l].base + s[l].n
    <3>1. \A p \in Nat : (t.base <= p /\ p < t.base + t.n)
                            <=> (m.base <= p /\ p < m.base + m.n) \/ (e.base <= p /\ p < e.base + e.n)
      <4>1. \A p, a, x, c, y \in Nat : a + x = c => ((a <= p /\ p < a + (y + x)) <=> (c <= p /\ p < c + y) \/ (a <= p /\ p < a + x))
        OBVIOUS
      <4> QED BY <1>15, <1>13, <2>1, <4>1
    <3> QED BY <1>10, <2>1, <3>1, Zenon
  <2>5. t.base \in Nat /\ t.n \in Nat \ {0} /\ t.base + t.n <= NPages
    <3>1. e.base + (m.n + e.n) = m.base + m.n /\ m.n + e.n \in Nat \ {0}
      <4>1. \A a, x, c \in Nat : \A y \in Nat \ {0} : a + x = c => a + (y + x) = c + y /\ y + x \in Nat \ {0}
        OBVIOUS
      <4> QED BY <1>15, <1>13, <4>1, SMTT(30)
    <3> QED BY <1>4, <1>5, <2>1, <3>1
  <2>6. \A l \in DOMAIN s : l > i + 1 => \A j \in DOMAIN t.rest : t.rest[j].base + t.rest[j].n < s[l].base
    BY <1>3, <1>6, <2>1
  <2> QED BY <1>5, <2>1, <2>2, <2>3, <2>4, <2>5, <2>6 DEF Merged
<1>14. CASE m.base + m.n # e.base /\ e.base + e.n # m.base
  <2>1. DOMAIN t = {"base", "n", "rest"} /\ t.base = m.base /\ t.n = m.n /\ t.rest = Append(m.rest, e)
    BY <1>5, <1>11, <1>14
  <2>2. e \in PageBlocks
    BY <1>1 DEF e
  <2>3. /\ t.rest \in Seq(PageBlocks) /\ Len(t.rest) = Len(m.rest) + 1
        /\ \A j \in 1 .. Len(m.rest) + 1 : t.rest[j] = IF j <= Len(m.rest) THEN m.rest[j] ELSE e
    BY <1>7, <2>1, <2>2, AppendIs
  <2>4. /\ DOMAIN t.rest = 1 .. Len(m.rest) + 1
        /\ \A j \in DOMAIN t.rest : (j \in DOMAIN m.rest /\ t.rest[j] = m.rest[j]) \/ (j = Len(m.rest) + 1 /\ t.rest[j] = e)
    <3>1. DOMAIN t.rest = 1 .. Len(t.rest)
      BY <2>3, LenProperties, Zenon
    <3>2. DOMAIN t.rest = 1 .. Len(m.rest) + 1
      BY <2>3, <3>1
    <3>3. ASSUME NEW j \in 1 .. Len(m.rest) + 1
          PROVE  (j \in DOMAIN m.rest /\ t.rest[j] = m.rest[j]) \/ (j = Len(m.rest) + 1 /\ t.rest[j] = e)
      BY <1>7, <2>3
    <3> QED BY <3>2, <3>3, Zenon
  <2>5. ListOK(t.rest)
    <3>1. \A j \in DOMAIN t.rest : t.rest[j].base + t.rest[j].n <= NPages
      BY <1>4, <1>8, <2>4
    <3>2. ASSUME NEW j \in DOMAIN t.rest, NEW l \in DOMAIN t.rest, j < l
          PROVE  t.rest[j].base + t.rest[j].n < t.rest[l].base
      <4>1. j \in DOMAIN m.rest /\ t.rest[j] = m.rest[j]
        BY <1>7, <2>4, <3>2
      <4>2. CASE l \in DOMAIN m.rest
        <5>1. t.rest[l] = m.rest[l]
          BY <1>7, <2>4, <4>2
        <5>2. m.rest[j].base + m.rest[j].n < m.rest[l].base
          <6>1. ListOK(m.rest)
            BY <1>5
          <6> QED BY <3>2, <4>1, <4>2, <6>1 DEF ListOK
        <5> QED BY <4>1, <5>1, <5>2
      <4>3. CASE l \notin DOMAIN m.rest
        BY <1>9, <2>4, <4>1, <4>3
      <4> QED BY <4>2, <4>3
    <3> QED BY <2>3, <3>1, <3>2 DEF ListOK
  <2>6. e.base + e.n < m.base \/ m.base + m.n < e.base
    BY <1>4, <1>5, <1>9, <1>14, SMTT(30)
  <2>7. \A j \in DOMAIN t.rest : t.rest[j].base + t.rest[j].n < t.base \/ t.base + t.n < t.rest[j].base
    BY <1>5, <2>1, <2>4, <2>6
  <2>8. \A l \in DOMAIN s : l > i + 1 => s[l].base + s[l].n <= t.base \/ t.base + t.n <= s[l].base
    BY <1>3, <1>6, <2>1
  <2>9. \A l \in DOMAIN s : l > i + 1 => \A j \in DOMAIN t.rest : t.rest[j].base + t.rest[j].n < s[l].base
    BY <1>3, <1>6, <2>4
  <2>10. \A p \in Nat : (p \in Cover(t.rest) \/ (t.base <= p /\ p < t.base + t.n))
           <=> (b <= p /\ p < b + size) \/ \E l \in DOMAIN s : l <= i + 1 /\ s[l].base <= p /\ p < s[l].base + s[l].n
    <3>1. \A p \in Nat : p \in Cover(t.rest) <=> p \in Cover(m.rest) \/ (e.base <= p /\ p < e.base + e.n)
      <4>1. \A p \in Nat : p \in Cover(t.rest) <=> \E j \in DOMAIN t.rest : t.rest[j].base <= p /\ p < t.rest[j].base + t.rest[j].n
        BY <2>5, CoverIs
      <4>2. \A p \in Nat : p \in Cover(m.rest) <=> \E j \in DOMAIN m.rest : m.rest[j].base <= p /\ p < m.rest[j].base + m.rest[j].n
        BY <1>5, CoverIs
      <4>3. Len(m.rest) + 1 \in DOMAIN t.rest /\ t.rest[Len(m.rest) + 1] = e
        BY <1>7, <2>3, <2>4, SMTT(30)
      <4>4. \A j \in DOMAIN m.rest : j \in DOMAIN t.rest /\ t.rest[j] = m.rest[j]
        BY <1>7, <2>3, <2>4, SMTT(30)
      <4> QED BY <2>4, <4>1, <4>2, <4>3, <4>4, ZenonT(60)
    <3> QED BY <1>10, <2>1, <3>1, Zenon
  <2>11. t.base \in Nat /\ t.n \in Nat \ {0} /\ t.base + t.n <= NPages
    BY <1>5, <2>1
  <2> QED BY <2>1, <2>5, <2>7, <2>8, <2>9, <2>10, <2>11 DEF Merged
<1> QED BY <1>12, <1>13, <1>14

\* t is s with e before its entry i.
Longer(t, s, i, e, S) ==
  /\ t \in Seq(S) /\ Len(t) = Len(s) + 1
  /\ \A j \in 1 .. Len(s) + 1 : t[j] = IF j < i THEN s[j] ELSE IF j = i THEN e ELSE s[j - 1]

\* A list with a number more that lies beyond the others.
LEMMA InsertLonger ==
  ASSUME NEW S, NEW s \in Seq(S), NEW i \in 1 .. Len(s) + 1, NEW e \in S
  PROVE  Longer(InsertAt(s, i, e), s, i, e, S)
  BY InsertIs DEF Longer

\* The block that is merged goes where the order of addresses wants it.
LEMMA PutBackIs ==
  ASSUME NEW r, ListOK(r), NEW e \in PageBlocks, e.base + e.n <= NPages,
         \A j \in DOMAIN r : r[j].base + r[j].n < e.base \/ e.base + e.n < r[j].base,
         NEW at \in 1 .. Len(r) + 1,
         \A j \in DOMAIN r : j < at => ~(e.base + e.n <= r[j].base),
         at \in DOMAIN r => e.base + e.n <= r[at].base,
         NEW t, t = InsertAt(r, at, e)
  PROVE  ListOK(t) /\ \A p : p \in Cover(t) <=> p \in Cover(r) \/ (p \in Nat /\ e.base <= p /\ p < e.base + e.n)
<1>1. r \in Seq(PageBlocks) /\ DOMAIN r = 1 .. Len(r) /\ Len(r) \in Nat
  BY DEF ListOK
<1>2. \A j \in DOMAIN r : r[j].base \in Nat /\ r[j].n \in Nat /\ r[j].n > 0 /\ r[j].base + r[j].n <= NPages
  BY <1>1, BlockFields DEF ListOK
<1>3. e.base \in Nat /\ e.n \in Nat /\ e.n > 0 /\ NPages \in Nat
  BY PagesAssumption DEF PageBlocks
<1>4. /\ t \in Seq(PageBlocks) /\ Len(t) = Len(r) + 1
      /\ \A j \in 1 .. Len(r) + 1 : t[j] = IF j < at THEN r[j] ELSE IF j = at THEN e ELSE r[j - 1]
  <2>1. \A x \in PageBlocks : Longer(InsertAt(r, at, x), r, at, x, PageBlocks)
    BY <1>1, InsertLonger
  <2> QED BY <2>1 DEF Longer
<1>5. DOMAIN t = 1 .. Len(r) + 1
  <2>1. DOMAIN t = 1 .. Len(t)
    BY <1>4, LenProperties, Zenon
  <2> QED BY <1>4, <2>1
<1> DEFINE from(j) == IF j < at THEN j ELSE j - 1
<1>6. ASSUME NEW j \in DOMAIN t, j # at
      PROVE  from(j) \in DOMAIN r /\ t[j] = r[from(j)] /\ (from(j) < at <=> j < at)
  BY <1>1, <1>4, <1>5, <1>6
<1>7. t[at] = e /\ at \in DOMAIN t
  BY <1>4, <1>5
<1>8. \A j, l \in DOMAIN t : j # at /\ l # at /\ j < l => from(j) < from(l)
  BY <1>5
<1>9. \A j \in DOMAIN r : \E l \in DOMAIN t : l # at /\ from(l) = j
  <2> SUFFICES ASSUME NEW j \in DOMAIN r PROVE \E l \in DOMAIN t : l # at /\ from(l) = j
    OBVIOUS
  <2>1. CASE j < at
    <3>1. j \in DOMAIN t /\ j # at /\ from(j) = j
      BY <1>1, <1>5, <2>1
    <3> QED BY <3>1
  <2>2. CASE ~(j < at)
    <3>1. j + 1 \in DOMAIN t /\ j + 1 # at /\ from(j + 1) = j
      BY <1>1, <1>5, <2>2
    <3> QED BY <3>1
  <2> QED BY <2>1, <2>2
<1> HIDE DEF from
<1>10. \A j \in DOMAIN r : j < at => r[j].base + r[j].n < e.base
  BY <1>2, <1>3
<1>11. ASSUME NEW j \in DOMAIN r, ~(j < at) PROVE e.base + e.n < r[j].base
  <2>1. at \in DOMAIN r /\ j \in Nat /\ at \in Nat
    BY <1>1, <1>11
  <2>2. e.base + e.n <= r[at].base
    BY <2>1
  <2>3. j = at \/ r[at].base + r[at].n < r[j].base
    BY <1>11, <2>1 DEF ListOK
  <2>4. e.base + e.n <= r[j].base
    BY <1>2, <1>3, <2>1, <2>2, <2>3, SMTT(30)
  <2>5. r[j].base + r[j].n < e.base \/ e.base + e.n < r[j].base
    OBVIOUS
  <2> QED BY <1>2, <1>3, <2>4, <2>5
<1>12. ASSUME NEW j \in DOMAIN t, NEW l \in DOMAIN t, j < l
       PROVE  t[j].base + t[j].n < t[l].base
  <2>0. j \in Nat /\ l \in Nat /\ at \in Nat
    BY <1>1, <1>5
  <2>1. CASE j = at
    <3>1. from(l) \in DOMAIN r /\ t[l] = r[from(l)] /\ ~(from(l) < at)
      BY <1>6, <1>12, <2>0, <2>1
    <3> QED BY <1>7, <1>11, <2>1, <3>1
  <2>2. CASE l = at
    <3>1. from(j) \in DOMAIN r /\ t[j] = r[from(j)] /\ from(j) < at
      BY <1>6, <1>12, <2>0, <2>2
    <3> QED BY <1>7, <1>10, <2>2, <3>1
  <2>3. CASE j # at /\ l # at
    <3>1. from(j) \in DOMAIN r /\ t[j] = r[from(j)] /\ from(l) \in DOMAIN r /\ t[l] = r[from(l)] /\ from(j) < from(l)
      BY <1>6, <1>8, <1>12, <2>3
    <3> QED BY <3>1 DEF ListOK
  <2> QED BY <2>1, <2>2, <2>3
<1>13. \A j \in DOMAIN t : t[j].base + t[j].n <= NPages
  <2> SUFFICES ASSUME NEW j \in DOMAIN t PROVE t[j].base + t[j].n <= NPages
    OBVIOUS
  <2>1. j # at => from(j) \in DOMAIN r /\ t[j] = r[from(j)]
    BY <1>6
  <2> QED BY <1>2, <1>7, <2>1
<1>14. ListOK(t)
  BY <1>4, <1>12, <1>13 DEF ListOK
<1>15. /\ \A p : p \in Cover(t) <=> \E j \in DOMAIN t : p \in Nat /\ t[j].base <= p /\ p < t[j].base + t[j].n
       /\ \A p : p \in Cover(r) <=> \E j \in DOMAIN r : p \in Nat /\ r[j].base <= p /\ p < r[j].base + r[j].n
  BY <1>14, CoverIs
<1>16. ASSUME NEW p
       PROVE  p \in Cover(t) <=> p \in Cover(r) \/ (p \in Nat /\ e.base <= p /\ p < e.base + e.n)
  <2>1. p \in Cover(t) => p \in Cover(r) \/ (p \in Nat /\ e.base <= p /\ p < e.base + e.n)
    <3> SUFFICES ASSUME NEW j \in DOMAIN t, p \in Nat, t[j].base <= p, p < t[j].base + t[j].n, j # at
                 PROVE  p \in Cover(r)
      BY <1>7, <1>15, Zenon
    <3>1. from(j) \in DOMAIN r /\ t[j] = r[from(j)]
      BY <1>6
    <3> QED BY <1>15, <3>1
  <2>2. p \in Cover(r) => p \in Cover(t)
    <3> SUFFICES ASSUME NEW j \in DOMAIN r, p \in Nat, r[j].base <= p, p < r[j].base + r[j].n
                 PROVE  p \in Cover(t)
      BY <1>15, Zenon
    <3>1. PICK l \in DOMAIN t : l # at /\ from(l) = j
      BY <1>9
    <3>2. t[l] = r[j]
      BY <1>6, <3>1
    <3> QED BY <1>15, <3>2
  <2>3. (p \in Nat /\ e.base <= p /\ p < e.base + e.n) => p \in Cover(t)
    BY <1>7, <1>15, Zenon
  <2> QED BY <2>1, <2>2, <2>3
<1> QED BY <1>14, <1>16

\* default_free_pages makes the pages free, and keeps the list in order, merged and counted.
LEMMA FreeIs ==
  ASSUME NEW a, AreaOK(a), NEW b \in Nat, NEW size \in Nat \ {0}, Row(b, size) \subseteq Pages,
         Row(b, size) \cap Free(a) = {}, NEW t, t = FreePages(a, b, size)
  PROVE  AreaOK(t) /\ Free(t) = Free(a) \cup Row(b, size)
<1> DEFINE s       == a.list
           sane    == \A i \in DOMAIN s : s[i].base \notin b .. b + size - 1
           m0      == [base |-> b, n |-> size, rest |-> <<>>]
           m       == Merge(m0, s)
           c       == [a EXCEPT !.ok = @ /\ sane]
<1>1. ListOK(s) /\ a.nr = Cardinality(Cover(s)) /\ DOMAIN a = {"list", "nr", "ok"} /\ a.ok
  BY DEF AreaOK
<1>2. s \in Seq(PageBlocks) /\ DOMAIN s = 1 .. Len(s) /\ Len(s) \in Nat
  BY <1>1 DEF ListOK
<1>3. \A j \in DOMAIN s : s[j].base \in Nat /\ s[j].n \in Nat /\ s[j].n > 0 /\ s[j].base + s[j].n <= NPages
  BY <1>1, <1>2, BlockFields DEF ListOK
<1>4. \A p : p \in Cover(s) <=> \E j \in DOMAIN s : p \in Nat /\ s[j].base <= p /\ p < s[j].base + s[j].n
  BY <1>1, CoverIs
<1>5. b + size <= NPages /\ NPages \in Nat
  <2>1. b + size - 1 \in Row(b, size)
    BY DEF Row
  <2> QED BY <2>1, PagesAssumption DEF Pages
<1>6. \A j \in DOMAIN s : s[j].base + s[j].n <= b \/ b + size <= s[j].base
  <2> SUFFICES ASSUME NEW j \in DOMAIN s, ~(s[j].base + s[j].n <= b), ~(b + size <= s[j].base) PROVE FALSE
    OBVIOUS
  <2>1. s[j].base \in Nat /\ s[j].n \in Nat /\ s[j].n > 0
    BY <1>3
  <2>2. CASE s[j].base <= b
    <3>1. b \in Cover(s) /\ b \in Row(b, size)
      BY <1>4, <2>1, <2>2 DEF Row
    <3> QED BY <3>1 DEF Free
  <2>3. CASE b <= s[j].base
    <3>1. s[j].base \in Cover(s) /\ s[j].base \in Row(b, size)
      BY <1>4, <2>1, <2>3 DEF Row
    <3> QED BY <3>1 DEF Free
  <2> QED BY <2>1, <2>2, <2>3
<1>7. sane
  <2>1. \A j \in DOMAIN s : s[j].base \in Cover(s)
    BY <1>3, <1>4
  <2> QED BY <2>1 DEF Free, Row
<1>8. Merged(m, s, Len(s), b, size)
  <2>1. PICK x : /\ x[0] = m0
                 /\ \A i \in 1 .. Len(s) : x[i] = Absorb(x[i - 1], s[i])
                 /\ x[Len(s)] = m
    BY <1>2, AbsorbTurns
  <2> HIDE DEF m
  <2>2. Merged(m0, s, 0, b, size)
    <3>1. DOMAIN m0 = {"base", "n", "rest"} /\ m0.base = b /\ m0.n = size /\ m0.rest = <<>>
      OBVIOUS
    <3> HIDE DEF m0
    <3>2. ListOK(<<>>) /\ Cover(<<>>) = {} /\ DOMAIN <<>> = {}
      BY DEF ListOK, Cover
    <3>3. ~ \E l \in DOMAIN s : l <= 0
      BY <1>2
    <3> QED BY <1>5, <1>6, <3>1, <3>2, <3>3 DEF Merged
  <2> DEFINE P == [i \in 0 .. Len(s) |-> Merged(x[i], s, i, b, size)]
  <2>3. P[0]
    BY <1>2, <2>1, <2>2
  <2>4. ASSUME NEW i \in 1 .. Len(s), P[i - 1] PROVE P[i]
    <3>1. i - 1 \in Nat /\ i - 1 < Len(s) /\ (i - 1) + 1 = i /\ i - 1 \in 0 .. Len(s) /\ i \in 0 .. Len(s)
      BY <1>2
    <3>2. Merged(x[i - 1], s, i - 1, b, size)
      BY <2>4, <3>1
    <3>3. x[i] = Absorb(x[i - 1], s[i])
      BY <2>1
    <3>4. Merged(x[i], s, i, b, size)
      BY <1>1, <3>1, <3>2, <3>3, AbsorbKeeps
    <3> QED BY <3>1, <3>4
  <2> HIDE DEF P
  <2>5. P[Len(s)]
    BY <1>2, <2>3, <2>4, Upward
  <2>6. Len(s) \in 0 .. Len(s)
    BY <1>2
  <2> QED BY <2>1, <2>5, <2>6 DEF P
<1>9. t = PutBack(c, m, Place(m), size)
  BY Zenon DEF FreePages
<1> HIDE DEF m
<1> DEFINE r  == m.rest
           e  == Block(m.base, m.n)
           at == Place(m)
           B  == Behind(m)
           u  == InsertAt(r, at, e)
<1>10. /\ m.base \in Nat /\ m.n \in Nat \ {0} /\ m.base + m.n <= NPages /\ ListOK(r)
       /\ \A j \in DOMAIN r : r[j].base + r[j].n < m.base \/ m.base + m.n < r[j].base
       /\ \A p \in Nat : (p \in Cover(r) \/ (m.base <= p /\ p < m.base + m.n))
            <=> (b <= p /\ p < b + size) \/ \E l \in DOMAIN s : l <= Len(s) /\ s[l].base <= p /\ p < s[l].base + s[l].n
  BY <1>8 DEF Merged
<1>11. r \in Seq(PageBlocks) /\ DOMAIN r = 1 .. Len(r) /\ Len(r) \in Nat
  BY <1>10 DEF ListOK
<1>12. /\ at \in 1 .. Len(r) + 1
       /\ \A j \in DOMAIN r : j < at => ~(m.base + m.n <= r[j].base)
       /\ at \in DOMAIN r => m.base + m.n <= r[at].base
  <2>0. B = {j \in DOMAIN r : m.base + m.n <= r[j].base}
    BY DEF Behind
  <2>1. CASE B = {}
    <3>1. at = Len(r) + 1
      BY <2>1 DEF Place
    <3> HIDE DEF at, r, B
    <3> QED BY <1>11, <2>0, <2>1, <3>1
  <2>2. CASE B # {}
    <3>1. at = Min(B) /\ B \subseteq Nat
      BY <1>11, <2>0, <2>2 DEF Place
    <3>2. at \in B /\ \A j \in B : at <= j
      <4> HIDE DEF at, B
      <4> QED BY <2>2, <3>1, MinOf
    <3> HIDE DEF at, r, B
    <3> QED BY <1>11, <2>0, <3>2
  <2> QED BY <2>1, <2>2
<1>13. e \in PageBlocks /\ e.base = m.base /\ e.n = m.n
  BY <1>10 DEF PageBlocks, Block
<1> HIDE DEF at, e, r, c, sane
<1>14. ListOK(u) /\ \A p : p \in Cover(u) <=> p \in Cover(r) \/ (p \in Nat /\ m.base <= p /\ p < m.base + m.n)
  BY <1>10, <1>12, <1>13, PutBackIs
<1>15. \A p : p \in Cover(u) <=> p \in Cover(s) \/ p \in Row(b, size)
  <2>1. \A l \in DOMAIN s : l <= Len(s)
    BY <1>2
  <2>2. \A p \in Nat : p \in Cover(u) <=> (b <= p /\ p < b + size) \/ p \in Cover(s)
    BY <1>4, <1>10, <1>14, <2>1, Zenon
  <2>3. \A p : p \in Row(b, size) <=> p \in Nat /\ b <= p /\ p < b + size
    BY DEF Row
  <2>4. \A p : p \in Cover(u) => p \in Nat
    BY <1>14, CoverIs, PagesAssumption DEF Pages
  <2>5. \A p : p \in Cover(s) => p \in Nat
    BY <1>4
  <2> QED BY <2>2, <2>3, <2>4, <2>5, Zenon
<1>16. t = [list |-> u, nr |-> c.nr + size, ok |-> c.ok /\ (at <= Len(r) => m.base + m.n # r[at].base)]
  BY <1>9, Zenon DEF PutBack, at, r, e
<1>17. c.nr = a.nr /\ c.ok
  <2>1. c.nr = a.nr /\ c.ok = (a.ok /\ sane)
    BY <1>1 DEF c
  <2> QED BY <1>1, <1>7, <2>1 DEF sane
<1>18. at <= Len(r) => m.base + m.n # r[at].base
  <2> SUFFICES ASSUME at <= Len(r) PROVE m.base + m.n # r[at].base
    OBVIOUS
  <2>1. at \in DOMAIN r
    BY <1>11, <1>12
  <2>2. r[at].base \in Nat /\ r[at].n \in Nat /\ (r[at].base + r[at].n < m.base \/ m.base + m.n < r[at].base)
    BY <1>10, <1>11, <2>1, BlockFields
  <2>3. m.base + m.n <= r[at].base /\ r[at].base \in Nat /\ r[at].n \in Nat
    BY <1>10, <1>11, <1>12, <2>1, BlockFields
  <2> QED BY <1>10, <2>2, <2>3
<1> HIDE DEF u
<1>19. DOMAIN t = {"list", "nr", "ok"} /\ t.list = u /\ t.nr = c.nr + size /\ t.ok
  <2> DEFINE ok == c.ok /\ (at <= Len(r) => m.base + m.n # r[at].base)
             n  == c.nr + size
  <2>1. ok
    BY <1>17, <1>18
  <2>2. t = [list |-> u, nr |-> n, ok |-> ok]
    BY <1>16
  <2> HIDE DEF ok, n
  <2>3. DOMAIN t = {"list", "nr", "ok"} /\ t.list = u /\ t.nr = n /\ t.ok
    BY <2>1, <2>2
  <2> QED BY <2>3 DEF n
<1>20. Cover(u) = Cover(s) \cup Row(b, size)
  BY <1>15
<1>21. Cardinality(Cover(u)) = a.nr + size
  <2>1. IsFiniteSet(Cover(s)) /\ Row(b, size) \cap Cover(s) = {}
    BY <1>1, CoverIs DEF Free
  <2>2. Cardinality(Cover(s) \cup Row(b, size)) = Cardinality(Cover(s)) + size
    BY <2>1, CountRow
  <2> QED BY <1>1, <1>20, <2>2, Zenon
<1>22. t.nr = Cardinality(Cover(u))
  BY <1>17, <1>19, <1>21
<1> QED BY <1>14, <1>19, <1>20, <1>22, Zenon DEF AreaOK, Free

-----------------------------------------------------------------------------
(* The ring of free blocks of the heap.                                    *)

\* The end of the last page that the heap may have.
HeapTop == PageUnits * (NPages + 1)

\* The blocks lie apart, and each leads to the next above it, or the last one to the arena.
SlobOK(s) ==
  /\ DOMAIN s.next = FreeBlocks(s) /\ s.at \in FreeBlocks(s)
  /\ FreeBlocks(s) \subseteq Nat /\ Arena \in FreeBlocks(s) /\ s.units[Arena] = 1
  /\ \A x \in FreeBlocks(s) : s.units[x] \in Nat \ {0} /\ x + s.units[x] <= HeapTop
  /\ \A x, y \in FreeBlocks(s) : x < y => x + s.units[x] < y
  /\ \A x \in FreeBlocks(s) : s.next[x] \in FreeBlocks(s) /\ (s.next[x] > x \/ s.next[x] = Arena)
  /\ \A x, y \in FreeBlocks(s) : x < y => s.next[x] > x /\ s.next[x] <= y

SlobUnits(s) == UNION {Row(x, s.units[x]) : x \in FreeBlocks(s)}

\* These are numbers.
LEMMA HeapTopNat == HeapTop \in Nat /\ PageUnits \in Nat /\ PageUnits > 2 /\ NPages \in Nat
<1>1. PageUnits \in Nat /\ PageUnits > 2 /\ NPages \in Nat
  BY HeapAssumption, PagesAssumption
<1> QED BY <1>1 DEF HeapTop

\* A set of numbers with a bound has a greatest one.
LEMMA Greatest ==
  ASSUME NEW n \in Nat, NEW T, T \subseteq 0 .. n, T # {}
  PROVE  \E m \in T : \A k \in T : k <= m
<1> DEFINE U == {n - k : k \in T}
<1>1. U \subseteq Nat /\ U # {}
  <2>1. \A k \in T : n - k \in Nat
    OBVIOUS
  <2> QED BY <2>1, Zenon
<1>2. PICK u \in U : \A x \in U : u <= x
  BY <1>1, Least
<1>3. PICK m \in T : u = n - m
  BY <1>2
<1>4. ASSUME NEW k \in T PROVE k <= m
  <2>1. n - m <= n - k
    BY <1>2, <1>3
  <2>2. k \in Int /\ m \in Int
    OBVIOUS
  <2> QED BY <2>1, <2>2
<1> QED BY <1>4

\* The free blocks are finitely many, and one at least.
LEMMA SlobBlocks ==
  ASSUME NEW s, SlobOK(s)
  PROVE  /\ FreeBlocks(s) \subseteq 0 .. HeapTop
         /\ IsFiniteSet(FreeBlocks(s)) /\ Cardinality(FreeBlocks(s)) \in Nat \ {0}
<1>1. HeapTop \in Nat
  BY HeapTopNat
<1>2. FreeBlocks(s) \subseteq 0 .. HeapTop
  <2> SUFFICES ASSUME NEW x \in FreeBlocks(s) PROVE x \in 0 .. HeapTop
    OBVIOUS
  <2>1. x \in Nat /\ s.units[x] \in Nat /\ x + s.units[x] <= HeapTop
    BY DEF SlobOK
  <2> QED BY <1>1, <2>1
<1>3. IsFiniteSet(0 .. HeapTop)
  BY <1>1, FS_Interval
<1>4. IsFiniteSet(FreeBlocks(s)) /\ Cardinality(FreeBlocks(s)) \in Nat
  BY <1>2, <1>3, FS_Subset, FS_CardinalityType
<1>5. FreeBlocks(s) # {}
  BY DEF SlobOK
<1> QED BY <1>2, <1>4, <1>5, FS_EmptySet

\* Whoever follows the links comes to every block.
LEMMA ClosedIsAll ==
  ASSUME NEW s, SlobOK(s), NEW G, G \subseteq FreeBlocks(s), G # {}, \A x \in G : s.next[x] \in G
  PROVE  G = FreeBlocks(s)
<1> DEFINE F == FreeBlocks(s)
           T == F \ G
<1>1. F \subseteq 0 .. HeapTop /\ HeapTop \in Nat
  BY SlobBlocks, HeapTopNat
<1>2. Arena \in G
  <2>1. PICK m \in G : \A k \in G : k <= m
    <3>1. G \subseteq 0 .. HeapTop
      BY <1>1
    <3> QED BY <1>1, <3>1, Greatest
  <2>2. s.next[m] \in G /\ s.next[m] <= m /\ m \in Nat /\ s.next[m] \in Nat
    BY <1>1, <2>1
  <2>3. s.next[m] > m \/ s.next[m] = Arena
    BY <2>1 DEF SlobOK
  <2> QED BY <2>2, <2>3
<1>3. T = {}
  <2> SUFFICES ASSUME T # {} PROVE FALSE
    OBVIOUS
  <2>1. T \subseteq Nat
    BY <1>1
  <2>2. PICK y \in T : \A x \in T : y <= x
    BY <2>1, Least
  <2>3. y \in F /\ y \in Nat /\ y # Arena /\ y > 0
    BY <1>2, <2>1, <2>2 DEF Arena
  <2> DEFINE B == {x \in F : x < y}
  <2>4. Arena \in B /\ B \subseteq 0 .. HeapTop
    BY <1>1, <1>2, <2>3 DEF Arena
  <2>5. PICK x \in B : \A z \in B : z <= x
    BY <1>1, <2>4, Greatest
  <2>6. x \in F /\ x < y /\ x \in Nat
    BY <1>1, <2>5
  <2>7. x \in G
    BY <2>2, <2>3, <2>6
  <2>8. s.next[x] > x /\ s.next[x] <= y /\ s.next[x] \in F /\ s.next[x] \in Nat
    <3>1. s.next[x] > x /\ s.next[x] <= y /\ s.next[x] \in F
      BY <2>3, <2>6 DEF SlobOK
    <3> QED BY <1>1, <3>1
  <2>9. s.next[x] = y
    BY <2>3, <2>5, <2>6, <2>8
  <2> QED BY <2>2, <2>7, <2>9
<1> QED BY <1>3

\* What the ring is, place by place.
LEMMA RingTurns ==
  ASSUME NEW s, SlobOK(s)
  PROVE  LET N == Cardinality(FreeBlocks(s)) IN
         /\ DOMAIN Ring(s) = 0 .. N
         /\ Ring(s)[0] = s.at
         /\ \A i \in 1 .. N : Ring(s)[i] = s.next[Ring(s)[i - 1]]
         /\ \A i \in 0 .. N : Ring(s)[i] \in FreeBlocks(s)
<1> DEFINE N == Cardinality(FreeBlocks(s))
           Made(f) == [i \in 0 .. N |-> IF i = 0 THEN s.at ELSE s.next[f[i - 1]]]
           x == Ring(s)
<1>1. N \in Nat
  BY SlobBlocks
<1> HIDE DEF N
<1>2. PICK f : f = Turning(<<"ring", s.next>>, s.at, N, f)
  BY <1>1, TurnsExist
<1>3. f = Made(f)
  BY <1>2 DEF Turning, Turned
<1>4. x = Made(x)
  BY <1>3, Zenon DEF Ring, N
<1> HIDE DEF x
<1>5. DOMAIN x = 0 .. N /\ x[0] = s.at /\ \A i \in 1 .. N : x[i] = s.next[x[i - 1]]
  BY <1>1, <1>4
<1>6. ASSUME NEW i \in 0 .. N PROVE x[i] \in FreeBlocks(s)
  <2> DEFINE In(j) == x[j] \in FreeBlocks(s)
             P == [j \in 0 .. i |-> In(j)]
  <2>0. x[0] \in FreeBlocks(s) /\ 0 \in 0 .. i /\ i \in 0 .. i
    BY <1>5 DEF SlobOK
  <2>1. P[0]
    BY <2>0, Zenon
  <2>2. ASSUME NEW j \in 1 .. i, P[j - 1] PROVE P[j]
    <3>0. j \in 1 .. N /\ j - 1 \in 0 .. i /\ j \in 0 .. i
      BY <1>1
    <3>1. x[j - 1] \in FreeBlocks(s)
      BY <2>2, <3>0, Zenon
    <3>2. x[j] \in FreeBlocks(s)
      BY <1>5, <3>0, <3>1 DEF SlobOK
    <3> QED BY <3>0, <3>2, Zenon
  <2> HIDE DEF P
  <2>3. P[i]
    BY <2>1, <2>2, Upward
  <2> QED BY <2>0, <2>3, Zenon DEF P
<1> QED BY <1>5, <1>6 DEF N, x

\* slobfree leads round to itself, past every block.
LEMMA RingAll ==
  ASSUME NEW s, SlobOK(s)
  PROVE  {Ring(s)[i] : i \in 1 .. Cardinality(FreeBlocks(s))} = FreeBlocks(s)
<1> DEFINE F == FreeBlocks(s)
           N == Cardinality(F)
           x == Ring(s)
<1>1. N \in Nat /\ IsFiniteSet(F)
  BY SlobBlocks
<1>2. DOMAIN x = 0 .. N /\ \A i \in 0 .. N : x[i] \in F
  BY RingTurns
<1>3. \A i \in 1 .. N : x[i] = s.next[x[i - 1]]
  BY RingTurns
<1> HIDE DEF x, N, F
<1>4. IsFiniteSet(0 .. N) /\ Cardinality(0 .. N) = N + 1
  <2>1. 0 .. N = 0 .. 0 + (N + 1) - 1
    BY <1>1
  <2> QED BY <1>1, <2>1, RowSize
<1>5. PICK i0, j0 \in 0 .. N : i0 # j0 /\ x[i0] = x[j0]
  <2> DEFINE f == [i \in 0 .. N |-> x[i]]
  <2>1. f \in [0 .. N -> F]
    BY <1>2
  <2>2. N < N + 1 /\ Cardinality(F) < Cardinality(0 .. N)
    BY <1>1, <1>4 DEF N
  <2> HIDE DEF f
  <2>3. \E i, j \in 0 .. N : i # j /\ f[i] = f[j]
    BY <1>1, <1>4, <2>1, <2>2, FS_PigeonHole
  <2> QED BY <2>3 DEF f
<1>6. PICK i, j \in 0 .. N : i < j /\ x[i] = x[j]
  BY <1>5
<1> DEFINE G == {x[m] : m \in i + 1 .. j}
<1>7. G \subseteq F /\ G # {}
  <2>1. \A m \in i + 1 .. j : m \in 0 .. N
    BY <1>1
  <2>2. j \in i + 1 .. j
    BY <1>1, <1>6
  <2> QED BY <1>2, <2>1, <2>2, Zenon
<1>8. ASSUME NEW y \in G PROVE s.next[y] \in G
  <2>1. PICK m \in i + 1 .. j : y = x[m]
    OBVIOUS
  <2>2. CASE m < j
    <3>1. m + 1 \in i + 1 .. j /\ m + 1 \in 1 .. N /\ m + 1 - 1 = m
      BY <1>1, <2>2
    <3>2. x[m + 1] = s.next[y]
      BY <1>3, <2>1, <3>1
    <3> QED BY <3>1, <3>2
  <2>3. CASE m = j
    <3>1. i + 1 \in i + 1 .. j /\ i + 1 \in 1 .. N /\ i + 1 - 1 = i
      BY <1>1, <1>6
    <3>2. x[i + 1] = s.next[y]
      BY <1>3, <1>6, <2>1, <2>3, <3>1
    <3> QED BY <3>1, <3>2
  <2> QED BY <2>1, <2>2, <2>3
<1>9. G = F
  <2> HIDE DEF G
  <2> QED BY <1>7, <1>8, ClosedIsAll DEF F
<1>10. \A m \in i + 1 .. j : m \in 1 .. N
  BY <1>1
<1>11. {x[m] : m \in 1 .. N} = F
  BY <1>2, <1>9, <1>10
<1> QED BY <1>11 DEF x, N, F

\* SlobOK in two: where the blocks are, and how they are linked.
Apart(L, u) ==
  /\ L \subseteq Nat
  /\ \A x \in L : u[x] \in Nat \ {0} /\ x + u[x] <= HeapTop
  /\ \A x, y \in L : x < y => x + u[x] < y

Linked(L, v) ==
  /\ L \subseteq Nat /\ Arena \in L
  /\ \A x \in L : v[x] \in L /\ (v[x] > x \/ v[x] = Arena)
  /\ \A x, y \in L : x < y => v[x] > x /\ v[x] <= y

UnitsOf(L, u) == UNION {Row(x, u[x]) : x \in L}

\* The two make SlobOK.
LEMMA SlobParts ==
  ASSUME NEW s
  PROVE  /\ SlobOK(s) <=> /\ DOMAIN s.next = FreeBlocks(s) /\ s.at \in FreeBlocks(s) /\ s.units[Arena] = 1
                          /\ Apart(FreeBlocks(s), s.units) /\ Linked(FreeBlocks(s), s.next)
         /\ SlobUnits(s) = UnitsOf(FreeBlocks(s), s.units)
<1>1. SlobUnits(s) = UnitsOf(FreeBlocks(s), s.units)
  BY DEF SlobUnits, UnitsOf
<1>2. ASSUME SlobOK(s)
      PROVE  /\ DOMAIN s.next = FreeBlocks(s) /\ s.at \in FreeBlocks(s) /\ s.units[Arena] = 1
             /\ Apart(FreeBlocks(s), s.units) /\ Linked(FreeBlocks(s), s.next)
  <2> HIDE DEF FreeBlocks
  <2> QED BY <1>2, Zenon DEF SlobOK, Apart, Linked
<1>3. ASSUME DOMAIN s.next = FreeBlocks(s), s.at \in FreeBlocks(s), s.units[Arena] = 1,
             Apart(FreeBlocks(s), s.units), Linked(FreeBlocks(s), s.next)
      PROVE  SlobOK(s)
  BY <1>3, Zenon DEF SlobOK, Apart, Linked
<1> QED BY <1>1, <1>2, <1>3

\* A unit is in a block when it lies between its ends.
LEMMA UnitsIs ==
  ASSUME NEW L, NEW u, Apart(L, u)
  PROVE  \A a : a \in UnitsOf(L, u) <=> a \in Nat /\ \E x \in L : x <= a /\ a < x + u[x]
<1>1. \A x \in L : x \in Nat /\ u[x] \in Nat
  BY DEF Apart
<1>2. \A a : \A x \in L : a \in Row(x, u[x]) <=> a \in Nat /\ x <= a /\ a < x + u[x]
  BY <1>1 DEF Row
<1>3. \A a : a \in UnitsOf(L, u) <=> \E x \in L : a \in Row(x, u[x])
  BY DEF UnitsOf
<1> QED BY <1>2, <1>3, Zenon

\* What lies in a row.
LEMMA RowIs ==
  ASSUME NEW b \in Nat, NEW n \in Nat
  PROVE  \A a : a \in Row(b, n) <=> a \in Nat /\ b <= a /\ a < b + n
  BY DEF Row

\* A block less.
LEMMA ApartWithout ==
  ASSUME NEW L, NEW u, Apart(L, u), NEW c \in L, NEW w, \A x \in L \ {c} : w[x] = u[x]
  PROVE  Apart(L \ {c}, w) /\ UnitsOf(L \ {c}, w) = UnitsOf(L, u) \ Row(c, u[c])
<1>1. Apart(L \ {c}, w)
  BY DEF Apart
<1>2. \A x \in L : x \in Nat /\ u[x] \in Nat
  BY DEF Apart
<1>3. /\ \A a : a \in UnitsOf(L, u) <=> a \in Nat /\ \E x \in L : x <= a /\ a < x + u[x]
      /\ \A a : a \in UnitsOf(L \ {c}, w) <=> a \in Nat /\ \E x \in L \ {c} : x <= a /\ a < x + w[x]
      /\ \A a : a \in Row(c, u[c]) <=> a \in Nat /\ c <= a /\ a < c + u[c]
  BY <1>1, <1>2, UnitsIs, RowIs
<1>4. ASSUME NEW a \in Nat, NEW x \in L, x # c, x <= a, a < x + u[x], c <= a, a < c + u[c] PROVE FALSE
  <2>1. x + u[x] < c \/ c + u[c] < x
    BY <1>2, <1>4 DEF Apart
  <2> QED BY <1>2, <1>4, <2>1
<1>5. UnitsOf(L \ {c}, w) = UnitsOf(L, u) \ Row(c, u[c])
  BY <1>3, <1>4, SMTT(30)
<1> QED BY <1>1, <1>5

\* A block more, which touches none.
LEMMA ApartWith ==
  ASSUME NEW L, NEW u, Apart(L, u), NEW b \in Nat, NEW n \in Nat \ {0}, b + n <= HeapTop,
         \A y \in L : y + u[y] < b \/ b + n < y,
         NEW w, w[b] = n, \A x \in L : w[x] = u[x]
  PROVE  Apart(L \cup {b}, w) /\ UnitsOf(L \cup {b}, w) = UnitsOf(L, u) \cup Row(b, n)
<1>1. \A x \in L : x \in Nat /\ u[x] \in Nat /\ u[x] > 0
  BY DEF Apart
<1>2. Apart(L \cup {b}, w)
  <2>1. \A x \in L \cup {b} : w[x] \in Nat \ {0} /\ x + w[x] <= HeapTop
    BY DEF Apart
  <2>2. ASSUME NEW x \in L \cup {b}, NEW y \in L \cup {b}, x < y PROVE x + w[x] < y
    <3>1. CASE x \in L /\ y \in L
      BY <2>2, <3>1 DEF Apart
    <3>2. CASE x = b /\ y \in L
      BY <1>1, <2>2, <3>2
    <3>3. CASE x \in L /\ y = b
      BY <1>1, <2>2, <3>3
    <3> QED BY <2>2, <3>1, <3>2, <3>3
  <2>3. L \cup {b} \subseteq Nat
    BY DEF Apart
  <2> QED BY <2>1, <2>2, <2>3 DEF Apart
<1>3. /\ \A a : a \in UnitsOf(L, u) <=> a \in Nat /\ \E x \in L : x <= a /\ a < x + u[x]
      /\ \A a : a \in UnitsOf(L \cup {b}, w) <=> a \in Nat /\ \E x \in L \cup {b} : x <= a /\ a < x + w[x]
      /\ \A a : a \in Row(b, n) <=> a \in Nat /\ b <= a /\ a < b + n
  BY <1>2, UnitsIs, RowIs
<1>4. UnitsOf(L \cup {b}, w) = UnitsOf(L, u) \cup Row(b, n)
  <2>1. \A a : a \in UnitsOf(L \cup {b}, w) <=> a \in UnitsOf(L, u) \/ a \in Row(b, n)
    BY <1>3
  <2> QED BY <2>1
<1> QED BY <1>2, <1>4

\* A block is taken out of the ring.
LEMMA LinkedWithout ==
  ASSUME NEW L, NEW v, Linked(L, v), NEW p \in L, NEW c \in L, c # Arena, v[p] = c,
         NEW w, w[p] = v[c], \A x \in L \ {p, c} : w[x] = v[x]
  PROVE  p # c /\ p < c /\ Linked(L \ {c}, w)
<1>1. \A x \in L : x \in Nat /\ v[x] \in L /\ v[x] \in Nat /\ (v[x] > x \/ v[x] = Arena)
  BY DEF Linked
<1>2. p < c /\ p # c
  BY <1>1
<1>3. v[c] # c
  BY <1>1
<1>4. ASSUME NEW x \in L, x # p, x # c PROVE v[x] # c
  <2>1. CASE x < p
    <3>1. v[x] <= p
      BY <2>1 DEF Linked
    <3> QED BY <1>1, <1>2, <3>1
  <2>2. CASE p < x
    <3>1. v[p] <= x
      BY <2>2 DEF Linked
    <3> QED BY <1>1, <3>1
  <2> QED BY <1>1, <1>4, <2>1, <2>2
<1>5. ASSUME NEW x \in L \ {c}
      PROVE  w[x] \in L \ {c} /\ (w[x] > x \/ w[x] = Arena)
  <2>1. CASE x = p
    BY <1>1, <1>2, <1>3, <2>1
  <2>2. CASE x # p
    BY <1>1, <1>4, <2>2
  <2> QED BY <2>1, <2>2
<1>6. ASSUME NEW x \in L \ {c}, NEW y \in L \ {c}, x < y
      PROVE  w[x] > x /\ w[x] <= y
  <2>1. CASE x = p
    <3>1. c <= y /\ c < y
      <4>1. v[p] <= y
        BY <1>6, <2>1 DEF Linked
      <4> QED BY <1>1, <1>6, <4>1
    <3>2. v[c] > c /\ v[c] <= y
      BY <3>1 DEF Linked
    <3> QED BY <1>1, <1>2, <2>1, <3>2
  <2>2. CASE x # p
    <3>1. w[x] = v[x]
      BY <2>2
    <3> QED BY <1>6, <3>1 DEF Linked
  <2> QED BY <2>1, <2>2
<1>7. L \ {c} \subseteq Nat /\ Arena \in L \ {c}
  BY DEF Linked
<1> QED BY <1>2, <1>5, <1>6, <1>7 DEF Linked

\* A block comes into the ring after the block below it.
LEMMA LinkedWith ==
  ASSUME NEW L, NEW v, Linked(L, v), NEW p \in L, NEW b \in Nat, p < b, \A y \in L : y <= p \/ y > b,
         NEW w, w[p] = b, w[b] = v[p], \A x \in L \ {p} : w[x] = v[x]
  PROVE  Linked(L \cup {b}, w)
<1>1. \A x \in L : x \in Nat /\ v[x] \in L /\ v[x] \in Nat /\ (v[x] > x \/ v[x] = Arena)
  BY DEF Linked
<1>2. b \notin L /\ p # b /\ Arena \in L
  BY <1>1 DEF Linked
<1>3. v[p] > b \/ v[p] = Arena
  BY <1>1
<1>4. ASSUME NEW x \in L \cup {b}
      PROVE  w[x] \in L \cup {b} /\ (w[x] > x \/ w[x] = Arena)
  BY <1>1, <1>2, <1>3
<1>5. ASSUME NEW x \in L \cup {b}, NEW y \in L \cup {b}, x < y
      PROVE  w[x] > x /\ w[x] <= y
  <2>1. CASE x = p
    BY <1>1, <1>5, <2>1
  <2>2. CASE x = b
    <3>1. y \in L /\ p < y
      BY <1>1, <1>5, <2>2
    <3>2. v[p] > p /\ v[p] <= y
      BY <3>1 DEF Linked
    <3> QED BY <1>1, <1>3, <2>2, <3>2
  <2>3. CASE x # p /\ x # b
    <3>1. x \in L /\ w[x] = v[x]
      BY <2>3
    <3>2. CASE y \in L
      BY <1>5, <3>1, <3>2 DEF Linked
    <3>3. CASE y = b
      <4>1. x < p
        BY <1>1, <1>5, <2>3, <3>1, <3>3
      <4>2. v[x] > x /\ v[x] <= p
        BY <3>1, <4>1 DEF Linked
      <4> QED BY <1>1, <3>1, <3>3, <4>2
    <3> QED BY <3>2, <3>3
  <2> QED BY <2>1, <2>2, <2>3
<1>6. L \cup {b} \subseteq Nat
  BY <1>1
<1> QED BY <1>2, <1>4, <1>5, <1>6 DEF Linked

\* slob_alloc takes the units from the block that is found.
LEMMA UnlinkIs ==
  ASSUME NEW s, SlobOK(s), NEW prev \in FreeBlocks(s), NEW cur, cur = s.next[prev],
         NEW n \in Nat, n > 1, s.units[cur] >= n, NEW t, t = Unlink(s, prev, cur, n)
  PROVE  /\ SlobOK(t) /\ cur \in Nat /\ Row(cur, n) \subseteq SlobUnits(s)
         /\ SlobUnits(t) = SlobUnits(s) \ Row(cur, n)
<1> DEFINE F == FreeBlocks(s)
           u == s.units
           v == s.next
           c2 == cur + n
           rest == IF u[cur] = n THEN {} ELSE {c2}
           L == (F \ {cur}) \cup rest
<1>1. /\ DOMAIN v = F /\ s.at \in F /\ u[Arena] = 1
      /\ Apart(F, u) /\ Linked(F, v) /\ SlobUnits(s) = UnitsOf(F, u)
  BY SlobParts
<1>2. /\ t.at = prev
      /\ t.units = [b \in L |-> IF b \in rest THEN u[cur] - n ELSE u[b]]
      /\ t.next = [b \in L |-> CASE b \in rest -> v[cur]
                                 [] b = prev -> IF rest = {} THEN v[cur] ELSE c2
                                 [] OTHER -> v[b]]
  BY DEF Unlink
<1>3. cur \in F /\ cur \in Nat /\ u[cur] \in Nat /\ u[cur] > 0 /\ cur # Arena /\ cur + u[cur] <= HeapTop
  <2>1. cur \in F
    BY <1>1 DEF Linked
  <2> QED BY <1>1, <2>1 DEF Apart
<1> HIDE DEF F, u, v
<1> DEFINE w0 == [x \in F \ {cur} |-> u[x]]
           v0 == [x \in F \ {cur} |-> IF x = prev THEN v[cur] ELSE v[x]]
<1>4. Apart(F \ {cur}, w0) /\ UnitsOf(F \ {cur}, w0) = UnitsOf(F, u) \ Row(cur, u[cur])
  <2>1. \A x \in F \ {cur} : w0[x] = u[x]
    OBVIOUS
  <2> HIDE DEF w0
  <2>2. Apart(F, u) /\ cur \in F
    BY <1>1, <1>3
  <2>3. Apart(F \ {cur}, w0)
    BY <2>1, <2>2 DEF Apart
  <2>4. UnitsOf(F \ {cur}, w0) = UnitsOf(F, u) \ Row(cur, u[cur])
    BY <2>1, <2>2, ApartWithout
  <2> QED BY <2>3, <2>4
<1>5. prev \in F /\ v[prev] = cur
  BY DEF F, v
<1>6. prev # cur /\ prev < cur /\ Linked(F \ {cur}, v0)
  <2>1. prev # cur
    BY <1>1, <1>3, <1>5 DEF Linked
  <2>2. v0[prev] = v[cur] /\ \A x \in F \ {prev, cur} : v0[x] = v[x]
    BY <1>5, <2>1
  <2> HIDE DEF v0
  <2> QED BY <1>1, <1>3, <1>5, <2>2, LinkedWithout
<1>7. Row(cur, u[cur]) \subseteq UnitsOf(F, u) /\ \A a : a \in Row(cur, n) => a \in Row(cur, u[cur])
  <2>1. \A a : a \in Row(cur, n) => a \in Row(cur, u[cur])
    BY <1>3 DEF Row, u
  <2> QED BY <1>3, <2>1 DEF UnitsOf
<1>8. CASE u[cur] = n
  <2>1. rest = {} /\ L = F \ {cur}
    BY <1>8
  <2> HIDE DEF L, rest
  <2>2. t.at = prev /\ t.units = w0
    BY <1>2, <2>1
  <2>3. DOMAIN t.next = L /\ \A b \in L : t.next[b] = IF b = prev THEN v[cur] ELSE v[b]
    BY <1>2, <2>1
  <2>4. Linked(L, t.next)
    <3>1. t.next[prev] = v[cur] /\ \A x \in F \ {prev, cur} : t.next[x] = v[x]
      BY <1>5, <1>6, <2>1, <2>3
    <3>2. Linked(F \ {cur}, t.next)
      BY <1>1, <1>3, <1>5, <3>1, LinkedWithout
    <3> QED BY <2>1, <3>2
  <2>5. FreeBlocks(t) = L
    BY <2>1, <2>2 DEF FreeBlocks
  <2>6. Apart(L, t.units) /\ UnitsOf(L, t.units) = UnitsOf(F, u) \ Row(cur, n)
    BY <1>4, <1>8, <2>1, <2>2
  <2>7. t.units[Arena] = 1 /\ prev \in L
    <3>1. Arena \in F
      BY <1>1 DEF Linked
    <3> QED BY <1>1, <1>3, <1>5, <1>6, <2>1, <2>2, <3>1
  <2>8. SlobOK(t) /\ SlobUnits(t) = UnitsOf(L, t.units)
    BY <2>2, <2>3, <2>4, <2>5, <2>6, <2>7, SlobParts
  <2> QED BY <1>1, <1>3, <1>7, <1>8, <2>6, <2>8
<1>9. CASE u[cur] # n
  <2>1. rest = {c2} /\ L = (F \ {cur}) \cup {c2}
    BY <1>9
  <2>0. u[cur] > n /\ c2 \in Nat /\ u[cur] - n \in Nat \ {0} /\ c2 + (u[cur] - n) = cur + u[cur] /\ cur < c2
    BY <1>3, <1>9 DEF u
  <2> HIDE DEF L, rest, c2
  <2>3. \A y \in F : y \in Nat /\ u[y] \in Nat /\ u[y] > 0
    <3>1. Apart(F, u)
      BY <1>1
    <3>2. F \subseteq Nat
      BY <3>1 DEF Apart
    <3>3. \A y \in F : u[y] \in Nat \ {0}
      BY <3>1 DEF Apart
    <3> QED BY <3>2, <3>3
  <2>2. \A y \in F \ {cur} : y + u[y] < cur \/ cur + u[cur] < y
    <3>1. \A x, y \in F : x < y => x + u[x] < y
      BY <1>1 DEF Apart
    <3> QED BY <1>3, <2>3, <3>1
  <2>4. c2 \notin F \ {cur}
    BY <2>0, <2>2, <2>3, <1>3
  <2>5. /\ t.at = prev /\ DOMAIN t.units = L /\ DOMAIN t.next = L
        /\ \A b \in L : t.units[b] = IF b = c2 THEN u[cur] - n ELSE u[b]
        /\ \A b \in L : b # prev => t.next[b] = IF b = c2 THEN v[cur] ELSE v[b]
    BY <1>2, <2>1
  <2>6. t.next[prev] = c2
    <3>1. prev \in L /\ prev \notin rest /\ rest # {}
      BY <1>5, <1>6, <2>1, <2>4
    <3> QED BY <1>2, <3>1
  <2>7. Apart(L, t.units) /\ UnitsOf(L, t.units) = (UnitsOf(F, u) \ Row(cur, u[cur])) \cup Row(c2, u[cur] - n)
    <3>1. t.units[c2] = u[cur] - n /\ \A x \in F \ {cur} : t.units[x] = w0[x]
      BY <2>1, <2>4, <2>5
    <3>2. \A y \in F \ {cur} : y + w0[y] < c2 \/ c2 + (u[cur] - n) < y
      BY <1>3, <2>0, <2>2, <2>3
    <3> HIDE DEF w0
    <3>3. c2 + (u[cur] - n) <= HeapTop
      BY <1>3, <2>0
    <3> DEFINE G == F \ {cur}
    <3>5. Apart(G, w0) /\ UnitsOf(G, w0) = UnitsOf(F, u) \ Row(cur, u[cur]) /\ L = G \cup {c2}
      BY <1>4, <2>1
    <3> HIDE DEF G
    <3>4. Apart(G \cup {c2}, t.units) /\ UnitsOf(G \cup {c2}, t.units) = UnitsOf(G, w0) \cup Row(c2, u[cur] - n)
      <4>1. \A y \in G : y + w0[y] < c2 \/ c2 + (u[cur] - n) < y
        BY <3>2 DEF G
      <4>2. \A x \in G : t.units[x] = w0[x]
        BY <3>1 DEF G
      <4>3. t.units[c2] = u[cur] - n
        BY <3>1
      <4> DEFINE m == u[cur] - n
      <4>4. Apart(G, w0) /\ c2 \in Nat /\ m \in Nat \ {0} /\ c2 + m <= HeapTop /\ t.units[c2] = m
        BY <2>0, <3>3, <3>5, <4>3
      <4>5. \A y \in G : y + w0[y] < c2 \/ c2 + m < y
        BY <4>1
      <4> HIDE DEF m
      <4>6. Apart(G \cup {c2}, t.units) /\ UnitsOf(G \cup {c2}, t.units) = UnitsOf(G, w0) \cup Row(c2, m)
        BY <4>2, <4>4, <4>5, ApartWith
      <4> QED BY <4>6 DEF m
    <3> QED BY <3>4, <3>5
  <2>8. Linked(L, t.next)
    <3>1. v0[prev] = v[cur]
      BY <1>5, <1>6
    <3>2. t.next[c2] = v0[prev] /\ \A x \in (F \ {cur}) \ {prev} : t.next[x] = v0[x]
      BY <1>5, <1>6, <2>1, <2>4, <2>5, <3>1
    <3>3. prev < c2
      BY <1>3, <1>1, <1>5, <1>6, <2>0 DEF Linked
    <3>4. \A y \in F \ {cur} : y <= prev \/ y > c2
      <4> SUFFICES ASSUME NEW y \in F \ {cur}, ~(y <= prev) PROVE y > c2
        OBVIOUS
      <4>1. y \in Nat /\ prev \in Nat
        BY <1>1, <1>5 DEF Linked
      <4>2. v[prev] <= y
        BY <1>1, <1>5, <4>1 DEF Linked
      <4>3. cur + u[cur] < y
        BY <1>3, <1>5, <2>2, <2>3, <4>1, <4>2
      <4> QED BY <1>3, <2>0, <4>1, <4>3
    <3> HIDE DEF v0
    <3> DEFINE G == F \ {cur}
    <3>5. prev \in G /\ Linked(G, v0) /\ L = G \cup {c2}
      BY <1>5, <1>6, <2>1
    <3>6. (\A y \in G : y <= prev \/ y > c2) /\ \A x \in G \ {prev} : t.next[x] = v0[x]
      BY <3>2, <3>4
    <3> HIDE DEF G
    <3>7. Linked(G \cup {c2}, t.next)
      <4> DEFINE w == t.next
      <4>1. w[prev] = c2 /\ w[c2] = v0[prev] /\ \A x \in G \ {prev} : w[x] = v0[x]
        BY <2>6, <3>2, <3>6
      <4>2. Linked(G, v0) /\ prev \in G /\ c2 \in Nat /\ prev < c2 /\ \A y \in G : y <= prev \/ y > c2
        BY <2>0, <3>3, <3>5, <3>6
      <4> HIDE DEF w
      <4>3. Linked(G \cup {c2}, w)
        BY <4>1, <4>2, LinkedWith
      <4> QED BY <4>3 DEF w
    <3> QED BY <3>5, <3>7
  <2>9. FreeBlocks(t) = L
    BY <2>5 DEF FreeBlocks
  <2>10. t.units[Arena] = 1 /\ prev \in L
    <3>1. Arena \in F /\ Arena # c2
      BY <1>1, <2>0, <1>3 DEF Linked, Arena
    <3> QED BY <1>1, <1>3, <1>5, <1>6, <2>1, <2>5, <3>1
  <2>11. SlobOK(t) /\ SlobUnits(t) = UnitsOf(L, t.units)
    BY <2>5, <2>7, <2>8, <2>9, <2>10, SlobParts
  <2>12. UnitsOf(L, t.units) = UnitsOf(F, u) \ Row(cur, n)
    <3>1. \A a : a \in Row(cur, u[cur]) <=> a \in Row(cur, n) \/ a \in Row(c2, u[cur] - n)
      BY <1>3, <2>0 DEF Row, c2
    <3>2. \A a : ~(a \in Row(cur, n) /\ a \in Row(c2, u[cur] - n))
      BY <1>3, <2>0 DEF Row, c2
    <3> QED BY <1>7, <2>7, <3>1, <3>2
  <2> QED BY <1>1, <1>3, <1>7, <2>11, <2>12
<1> QED BY <1>8, <1>9

\* slob_free puts units into the ring after the block below them, joined with their neighbours.
LEMMA LinkInIs ==
  ASSUME NEW s, SlobOK(s), NEW cur \in FreeBlocks(s), NEW b \in Nat, NEW n \in Nat \ {0},
         b > 1, b + n <= HeapTop, Row(b, n) \cap SlobUnits(s) = {},
         cur < b, \A y \in FreeBlocks(s) : y <= cur \/ y > b,
         NEW t, t = LinkIn(s, cur, b, n)
  PROVE  SlobOK(t) /\ SlobUnits(t) = SlobUnits(s) \cup Row(b, n)
<1> DEFINE F == FreeBlocks(s)
           u == s.units
           v == s.next
           nx == v[cur]
           up == b + n = nx
           down == cur + u[cur] = b
           size == IF up THEN n + u[nx] ELSE n
           succ == IF up THEN v[nx] ELSE nx
           L == (F \ (IF up THEN {nx} ELSE {})) \cup (IF down THEN {} ELSE {b})
<1>1. /\ DOMAIN v = F /\ s.at \in F /\ u[Arena] = 1
      /\ Apart(F, u) /\ Linked(F, v) /\ SlobUnits(s) = UnitsOf(F, u)
  BY SlobParts
<1>2. /\ t.at = cur
      /\ t.units = [x \in L |-> CASE x = b -> size
                                  [] x = cur /\ down -> u[cur] + size
                                  [] OTHER -> u[x]]
      /\ t.next = [x \in L |-> CASE x = b -> succ
                                 [] x = cur -> IF down THEN succ ELSE b
                                 [] OTHER -> v[x]]
  BY DEF LinkIn
<1>3. cur \in F /\ \A y \in F : y <= cur \/ y > b
  BY DEF F
<1> HIDE DEF F, u, v
<1>4. \A x \in F : x \in Nat /\ u[x] \in Nat /\ u[x] > 0 /\ x + u[x] <= HeapTop
  BY <1>1 DEF Apart
<1>5. \A x, y \in F : x < y => x + u[x] < y
  BY <1>1 DEF Apart
<1>6. Arena \in F /\ b \notin F /\ cur # b
  <2>1. Arena \in F
    BY <1>1 DEF Linked
  <2> QED BY <1>3, <1>4, <2>1
<1>7. ASSUME NEW a, a \in Row(b, n), NEW x \in F, x <= a, a < x + u[x] PROVE FALSE
  <2>1. a \in Nat
    BY <1>7 DEF Row
  <2>2. a \in Row(x, u[x])
    BY <1>4, <1>7, <2>1 DEF Row
  <2>3. a \in UnitsOf(F, u)
    BY <1>7, <2>2 DEF UnitsOf
  <2> QED BY <1>1, <1>7, <2>3
<1>8. cur + u[cur] <= b
  <2>1. b \in Row(b, n)
    BY DEF Row
  <2> QED BY <1>3, <1>4, <1>7, <2>1
<1>9. ASSUME NEW y \in F, y > cur PROVE y >= b + n
  <2>1. y > b
    BY <1>3, <1>4, <1>9
  <2>2. y \in Nat /\ u[y] > 0 /\ u[y] \in Nat
    BY <1>4
  <2>3. y \in Row(b, n) => FALSE
    BY <1>7, <2>2
  <2> QED BY <2>1, <2>2, <2>3 DEF Row
<1>10. nx \in F /\ (nx > cur \/ nx = Arena) /\ \A y \in F : cur < y => nx > cur /\ nx <= y
  BY <1>1, <1>3 DEF Linked
<1>11. up => nx > cur /\ nx # Arena /\ nx # cur
  BY <1>4, <1>10, <1>3 DEF Arena
<1> HIDE DEF nx
<1> DEFINE F1 == IF up THEN F \ {nx} ELSE F
           v1 == [x \in F1 |-> IF x = cur THEN succ ELSE v[x]]
           u1 == [x \in F1 |-> u[x]]
<1>12. Apart(F1, u1) /\ UnitsOf(F1, u1) = IF up THEN UnitsOf(F, u) \ Row(nx, u[nx]) ELSE UnitsOf(F, u)
  <2>1. \A x \in F1 : u1[x] = u[x]
    OBVIOUS
  <2> HIDE DEF u1
  <2>2. CASE up
    <3>1. Apart(F, u) /\ nx \in F /\ F1 = F \ {nx}
      BY <1>1, <1>10, <2>2
    <3> HIDE DEF F1, up
    <3>2. Apart(F \ {nx}, u1)
      BY <2>1, <3>1 DEF Apart
    <3>3. UnitsOf(F \ {nx}, u1) = UnitsOf(F, u) \ Row(nx, u[nx])
      BY <2>1, <3>1, ApartWithout
    <3> QED BY <2>2, <3>1, <3>2, <3>3
  <2>3. CASE ~up
    <3>1. Apart(F, u) /\ F1 = F
      BY <1>1, <2>3
    <3> HIDE DEF F1, up
    <3>2. Apart(F, u1) /\ UnitsOf(F, u1) = UnitsOf(F, u)
      BY <2>1, <3>1 DEF Apart, UnitsOf
    <3> QED BY <2>3, <3>1, <3>2
  <2> QED BY <2>2, <2>3
<1>13. Linked(F1, v1) /\ cur \in F1 /\ v1[cur] = succ
  <2>1. CASE up
    <3>1. F1 = F \ {nx} /\ cur \in F1 /\ succ = v[nx]
      BY <1>3, <1>11, <2>1
    <3>2. v1[cur] = v[nx] /\ \A x \in F \ {cur, nx} : v1[x] = v[x]
      BY <3>1
    <3>3. Linked(F, v) /\ cur \in F /\ nx \in F /\ nx # Arena /\ v[cur] = nx
      BY <1>1, <1>3, <1>10, <1>11, <2>1 DEF nx
    <3> HIDE DEF v1, F1, succ, up
    <3>4. Linked(F \ {nx}, v1)
      BY <3>2, <3>3, LinkedWithout
    <3> QED BY <3>1, <3>2, <3>4
  <2>2. CASE ~up
    <3>1. F1 = F /\ succ = v[cur]
      BY <2>2 DEF nx
    <3>2. \A x \in F : v1[x] = v[x]
      BY <3>1
    <3> HIDE DEF v1, F1, succ, up
    <3> QED BY <1>1, <1>3, <3>1, <3>2 DEF Linked
  <2> QED BY <2>1, <2>2
<1>14. /\ t.at = cur /\ DOMAIN t.units = L /\ DOMAIN t.next = L
       /\ \A x \in L : t.units[x] = IF x = b THEN size ELSE IF x = cur /\ down THEN u[cur] + size ELSE u[x]
       /\ \A x \in L : t.next[x] = IF x = b THEN succ ELSE IF x = cur THEN (IF down THEN succ ELSE b) ELSE v[x]
  <2> HIDE DEF L, size, succ, up, down
  <2>1. \A x : ~(x = b /\ x = cur)
    BY <1>6
  <2> QED BY <1>2, <2>1
<1>15. L = IF down THEN F1 ELSE F1 \cup {b}
  OBVIOUS
<1>16. FreeBlocks(t) = L
  BY <1>14 DEF FreeBlocks
<1>17. size \in Nat \ {0} /\ b + size <= HeapTop /\ \A y \in F1 : y > cur => b + size < y
  <2>1. CASE up
    <3>1. size = n + u[nx] /\ b + size = nx + u[nx] /\ nx \in F
      BY <1>4, <1>10, <2>1
    <3>2. ASSUME NEW y \in F \ {nx}, y > cur PROVE nx + u[nx] < y
      <4>1. nx <= y /\ nx < y
        BY <1>3, <1>4, <1>10, <3>2
      <4> QED BY <1>5, <1>10, <4>1
    <3>3. F1 = F \ {nx}
      BY <2>1
    <3> HIDE DEF F1, size, up
    <3> QED BY <1>4, <3>1, <3>2, <3>3
  <2>2. CASE ~up
    <3>1. size = n /\ F1 = F
      BY <2>2
    <3>2. ASSUME NEW y \in F, y > cur PROVE b + n < y
      <4>1. y >= b + n /\ nx > cur /\ nx >= b + n /\ nx <= y
        BY <1>3, <1>4, <1>9, <1>10, <3>2
      <4>2. nx # b + n /\ nx \in Nat
        BY <1>4, <1>10, <2>2
      <4> QED BY <1>4, <4>1, <4>2
    <3> HIDE DEF F1, size, up
    <3> QED BY <3>1, <3>2
  <2> QED BY <2>1, <2>2
<1>18. \A y \in F1 : y \in F /\ u1[y] = u[y]
  OBVIOUS
<1>19. cur # Arena => down \/ ~down
  OBVIOUS
<1>20. Linked(L, t.next) /\ cur \in L
  <2>1. CASE down
    <3>1. \A x \in F1 : x # b
      BY <1>6
    <3>2. L = F1 /\ \A x \in F1 : t.next[x] = v1[x]
      BY <1>14, <1>15, <2>1, <3>1
    <3> HIDE DEF L, F1, v1
    <3> QED BY <1>13, <3>2 DEF Linked
  <2>2. CASE ~down
    <3>1. L = F1 \cup {b} /\ b \notin F1
      BY <1>6, <1>15, <2>2
    <3>2. t.next[b] = succ
      BY <1>14, <3>1
    <3>3. t.next[cur] = b
      BY <1>6, <1>13, <1>14, <2>2, <3>1
    <3>4. \A x \in F1 \ {cur} : t.next[x] = v1[x]
      BY <1>14, <3>1
    <3>5. \A y \in F1 : y <= cur \/ y > b
      BY <1>3
    <3> DEFINE w == t.next
    <3> HIDE DEF L, F1, v1, w, succ
    <3>6. w[cur] = b /\ w[b] = v1[cur] /\ \A x \in F1 \ {cur} : w[x] = v1[x]
      BY <1>13, <3>2, <3>3, <3>4 DEF w
    <3>7. Linked(F1 \cup {b}, w)
      BY <1>13, <3>5, <3>6, LinkedWith
    <3> QED BY <1>13, <3>1, <3>7 DEF w
  <2> QED BY <2>1, <2>2
<1> DEFINE G == IF up THEN UnitsOf(F, u) \ Row(nx, u[nx]) ELSE UnitsOf(F, u)
<1>21. Apart(L, t.units) /\ UnitsOf(L, t.units) = UnitsOf(F, u) \cup Row(b, n)
  <2>0. up => \A a : a \in Row(b, size) <=> a \in Row(b, n) \/ a \in Row(nx, u[nx])
    <3> SUFFICES ASSUME up PROVE \A a : a \in Row(b, size) <=> a \in Row(b, n) \/ a \in Row(nx, u[nx])
      OBVIOUS
    <3>1. size = n + u[nx] /\ b + n = nx /\ nx \in Nat /\ u[nx] \in Nat
      BY <1>4, <1>10
    <3> HIDE DEF size, up
    <3> QED BY <3>1 DEF Row
  <2>3. G \cup Row(b, size) = UnitsOf(F, u) \cup Row(b, n)
    <3>1. CASE up
      <4>1. Row(nx, u[nx]) \subseteq UnitsOf(F, u)
        BY <1>10 DEF UnitsOf
      <4> HIDE DEF size, up
      <4> QED BY <2>0, <3>1, <4>1
    <3>2. CASE ~up
      BY <3>2
    <3> QED BY <3>1, <3>2
  <2>1. CASE ~down
    <3>1. L = F1 \cup {b} /\ b \notin F1
      BY <1>6, <1>15, <2>1
    <3>2. t.units[b] = size
      BY <1>14, <3>1
    <3>3. \A x \in F1 : t.units[x] = u1[x]
      BY <1>14, <2>1, <3>1
    <3>4. \A y \in F1 : y + u1[y] < b \/ b + size < y
      <4> SUFFICES ASSUME NEW y \in F1, ~(y > cur) PROVE y + u[y] < b
        BY <1>17, <1>18
      <4>1. y \in F /\ y <= cur /\ y \in Nat /\ cur \in Nat /\ u[y] \in Nat /\ u[cur] \in Nat
        BY <1>3, <1>4, <1>18
      <4>2. y < cur \/ y = cur
        BY <4>1
      <4>3. y < cur => y + u[y] < cur
        BY <1>3, <1>5, <4>1
      <4>4. cur + u[cur] < b /\ cur < b
        BY <1>3, <1>4, <1>8, <2>1
      <4> QED BY <4>1, <4>2, <4>3, <4>4
    <3> DEFINE w == t.units
    <3> HIDE DEF L, F1, u1, w, size, G
    <3>5. w[b] = size /\ \A x \in F1 : w[x] = u1[x]
      BY <3>2, <3>3 DEF w
    <3>6. Apart(F1 \cup {b}, w) /\ UnitsOf(F1 \cup {b}, w) = UnitsOf(F1, u1) \cup Row(b, size)
      BY <1>12, <1>17, <3>4, <3>5, ApartWith
    <3> QED BY <1>12, <2>3, <3>1, <3>6 DEF w, G
  <2>2. CASE down
    <3> DEFINE F2 == F1 \ {cur}
               u2 == [x \in F2 |-> u[x]]
               m == u[cur] + size
    <3>1. L = F1 /\ b \notin F1
      BY <1>6, <1>15, <2>2
    <3>2. Apart(F1, u1) /\ cur \in F1 /\ \A x \in F2 : u2[x] = u1[x]
      BY <1>12, <1>13
    <3>3. Apart(F2, u2) /\ UnitsOf(F2, u2) = UnitsOf(F1, u1) \ Row(cur, u1[cur])
      <4> HIDE DEF F1, u1, u2
      <4>1. Apart(F2, u2)
        BY <3>2 DEF Apart
      <4>2. UnitsOf(F2, u2) = UnitsOf(F1, u1) \ Row(cur, u1[cur])
        BY <3>2, ApartWithout
      <4> QED BY <4>1, <4>2
    <3>4. u1[cur] = u[cur] /\ u[cur] \in Nat /\ cur \in Nat
      BY <1>3, <1>4, <1>18, <3>2
    <3>5. m \in Nat \ {0} /\ cur + m = b + size /\ cur + m <= HeapTop
      <4>1. size \in Nat
        BY <1>17
      <4> HIDE DEF size
      <4>2. cur + (u[cur] + size) = b + size
        <5>1. cur + u[cur] = b /\ cur \in Nat /\ u[cur] \in Nat /\ b \in Nat
          BY <2>2, <3>4
        <5>2. PICK w \in Nat : w = u[cur]
          BY <5>1
        <5> HIDE DEF down, up
        <5>3. cur + (w + size) = b + size
          <6>1. cur + w = b
            BY <5>1, <5>2
          <6> QED BY <4>1, <5>1, <6>1
        <5> QED BY <5>2, <5>3
      <4> QED BY <1>17, <3>4, <4>2
    <3>6. t.units[cur] = m /\ \A x \in F2 : t.units[x] = u2[x]
      BY <1>6, <1>14, <2>2, <3>1, <3>2
    <3>7. \A y \in F2 : y + u2[y] < cur \/ cur + m < y
      <4> SUFFICES ASSUME NEW y \in F2 PROVE y + u[y] < cur \/ cur + m < y
        OBVIOUS
      <4>1. y \in F1 /\ y # cur /\ y \in F /\ y \in Nat
        BY <1>4, <1>18
      <4>2. y > cur => b + size < y
        BY <1>17, <4>1
      <4>3. y < cur => y + u[y] < cur
        BY <1>3, <1>5, <4>1
      <4> HIDE DEF m, size
      <4> QED BY <3>4, <3>5, <4>1, <4>2, <4>3
    <3> DEFINE w == t.units
    <3>8. F2 \cup {cur} = L
      BY <3>1, <3>2
    <3> HIDE DEF L, F2, F1, u1, u2, w, size, m
    <3>9. w[cur] = m /\ \A x \in F2 : w[x] = u2[x]
      BY <3>6 DEF w
    <3>10. Apart(F2 \cup {cur}, w) /\ UnitsOf(F2 \cup {cur}, w) = UnitsOf(F2, u2) \cup Row(cur, m)
      BY <3>3, <3>4, <3>5, <3>7, <3>9, ApartWith
    <3>11. \A a : a \in Row(cur, m) <=> a \in Row(cur, u[cur]) \/ a \in Row(b, size)
      <4>1. cur + m = b + size /\ cur + u[cur] = b /\ size \in Nat /\ m \in Nat
        BY <1>17, <2>2, <3>5
      <4> QED BY <3>4, <4>1 DEF Row
    <3>12. Row(cur, u[cur]) \subseteq UnitsOf(F1, u1)
      BY <3>2, <3>4 DEF UnitsOf
    <3>13. UnitsOf(L, w) = UnitsOf(F1, u1) \cup Row(b, size)
      BY <3>3, <3>4, <3>8, <3>10, <3>11, <3>12
    <3>14. UnitsOf(F1, u1) = G
      BY <1>12
    <3> HIDE DEF G
    <3> QED BY <2>3, <3>8, <3>10, <3>13, <3>14 DEF w
  <2> QED BY <2>1, <2>2
<1>22. t.units[Arena] = 1 /\ Arena \in L
  <2>1. Arena \in F1 /\ Arena # b
    BY <1>6, <1>11
  <2>2. ~(Arena = cur /\ down)
    BY <1>1 DEF Arena
  <2> QED BY <1>1, <1>14, <1>15, <2>1, <2>2
<1>23. SlobOK(t) /\ SlobUnits(t) = UnitsOf(L, t.units)
  <2> HIDE DEF L
  <2> QED BY <1>14, <1>16, <1>20, <1>21, <1>22, SlobParts
<1> QED BY <1>1, <1>21, <1>23

\* The block that slob_free stops at is the last below the units given back.
LEMMA BeforeIs ==
  ASSUME NEW s, SlobOK(s), NEW b \in Nat, b > 1, b \notin SlobUnits(s), NEW cur, cur = Before(s, b)
  PROVE  cur \in FreeBlocks(s) /\ cur < b /\ \A y \in FreeBlocks(s) : y <= cur \/ y > b
<1> DEFINE F == FreeBlocks(s)
           v == s.next
           N == Cardinality(F)
           ring == Ring(s)
           Gap(x) == \/ b > x /\ b < v[x]
                     \/ x >= v[x] /\ (b > x \/ b < v[x])
           T == {i \in DOMAIN ring : Gap(ring[i])}
<1>1. /\ F \subseteq 0 .. HeapTop /\ HeapTop \in Nat /\ Arena \in F /\ Arena = 0
      /\ \A x \in F : s.units[x] \in Nat /\ s.units[x] > 0
      /\ \A x \in F : v[x] \in F /\ (v[x] > x \/ v[x] = Arena)
      /\ \A x, y \in F : x < y => v[x] > x /\ v[x] <= y
  BY SlobBlocks, HeapTopNat DEF SlobOK, Arena
<1>2. \A x \in F : x \in Nat /\ v[x] \in Nat
  BY <1>1
<1>3. \A y \in F : y # b
  <2>1. \A y \in F : y \in Row(y, s.units[y])
    BY <1>1, <1>2 DEF Row
  <2> QED BY <2>1 DEF SlobUnits
<1>4. DOMAIN ring = 0 .. N /\ (\A i \in 0 .. N : ring[i] \in F) /\ {ring[i] : i \in 1 .. N} = F
  BY RingTurns, RingAll
<1>5. N \in Nat
  BY SlobBlocks
<1>6. cur = ring[Min(T)]
  BY Zenon DEF Before
<1> HIDE DEF F, v, ring, N
<1>7. T # {}
  <2> DEFINE B == {y \in F : y < b}
  <2>1. Arena \in B /\ B \subseteq 0 .. HeapTop
    <3>1. Arena < b
      BY <1>1
    <3> QED BY <1>1, <3>1
  <2>2. PICK x \in B : \A y \in B : y <= x
    BY <1>1, <2>1, Greatest
  <2>3. x \in F /\ x < b /\ x \in Nat
    BY <1>2, <2>2
  <2>4. Gap(x)
    <3>1. CASE v[x] > x
      <4>1. v[x] \in F /\ v[x] \notin B
        BY <1>1, <1>2, <2>2, <2>3, <3>1
      <4>2. v[x] > b
        BY <1>2, <1>3, <4>1
      <4> QED BY <2>3, <4>2
    <3>2. CASE v[x] = Arena
      BY <1>1, <2>3, <3>2
    <3> QED BY <1>1, <2>3, <3>1, <3>2
  <2>5. PICK i \in 1 .. N : ring[i] = x
    BY <1>4, <2>3
  <2>6. i \in DOMAIN ring
    BY <1>4, <1>5, <2>5
  <2> HIDE DEF Gap
  <2> QED BY <2>4, <2>5, <2>6
<1>8. Min(T) \in T
  <2>1. T \subseteq Nat
    BY <1>4, <1>5
  <2> HIDE DEF T
  <2> QED BY <1>7, <2>1, MinOf
<1>9. cur \in F /\ Gap(cur)
  <2>1. Min(T) \in DOMAIN ring /\ Gap(ring[Min(T)])
    <3> HIDE DEF Gap
    <3> QED BY <1>8
  <2> HIDE DEF T, Gap
  <2> QED BY <1>4, <1>6, <2>1
<1>10. ASSUME NEW y \in F PROVE cur < b /\ (y <= cur \/ y > b)
  <2>1. cur \in Nat /\ v[cur] \in Nat /\ y \in Nat /\ y # b
    BY <1>2, <1>3, <1>9
  <2>2. v[cur] > cur \/ v[cur] = 0
    BY <1>1, <1>9
  <2>3. cur < y => v[cur] > cur /\ v[cur] <= y
    BY <1>1, <1>9
  <2> QED BY <1>9, <2>1, <2>2, <2>3
<1> QED BY <1>1, <1>9, <1>10 DEF F

\* slob_free, in all.
LEMMA SlobFreeIs ==
  ASSUME NEW s, SlobOK(s), NEW b \in Nat, NEW n \in Nat \ {0}, b > 1, b + n <= HeapTop,
         Row(b, n) \cap SlobUnits(s) = {}, NEW t, t = SlobFree(s, b, n)
  PROVE  SlobOK(t) /\ SlobUnits(t) = SlobUnits(s) \cup Row(b, n)
<1> DEFINE cur == Before(s, b)
<1>1. t = LinkIn(s, cur, b, n)
  BY DEF SlobFree
<1>2. b \notin SlobUnits(s)
  <2>1. b \in Row(b, n)
    BY DEF Row
  <2> QED BY <2>1
<1>3. cur \in FreeBlocks(s) /\ cur < b /\ \A y \in FreeBlocks(s) : y <= cur \/ y > b
  BY <1>2, BeforeIs
<1> HIDE DEF cur
<1> QED BY <1>1, <1>3, LinkInIs

\* The blocks of the ring lie apart: units in a row that are all free are in one block.
LEMMA RowInOne ==
  ASSUME NEW s, SlobOK(s), NEW b \in Nat, NEW n \in Nat \ {0}, Row(b, n) \subseteq SlobUnits(s)
  PROVE  \E x \in FreeBlocks(s) : s.units[x] >= n
<1> DEFINE F == FreeBlocks(s)
           u == s.units
<1>1. Apart(F, u) /\ SlobUnits(s) = UnitsOf(F, u)
  BY SlobParts
<1> HIDE DEF F, u
<1>2. /\ \A a : a \in UnitsOf(F, u) <=> a \in Nat /\ \E x \in F : x <= a /\ a < x + u[x]
      /\ \A x \in F : x \in Nat /\ u[x] \in Nat
      /\ \A x, y \in F : x < y => x + u[x] < y
  <2>1. \A a : a \in UnitsOf(F, u) <=> a \in Nat /\ \E x \in F : x <= a /\ a < x + u[x]
    BY <1>1, UnitsIs
  <2> QED BY <1>1, <2>1 DEF Apart
<1>3. b \in Row(b, n)
  BY DEF Row
<1>4. PICK x \in F : x <= b /\ b < x + u[x]
  BY <1>1, <1>2, <1>3
<1>5. x + u[x] \notin UnitsOf(F, u)
  <2> SUFFICES ASSUME NEW y \in F, y <= x + u[x], x + u[x] < y + u[y] PROVE FALSE
    BY <1>2
  <2>1. x \in Nat /\ y \in Nat /\ u[x] \in Nat /\ u[y] \in Nat
    BY <1>2
  <2>2. (x < y => x + u[x] < y) /\ (y < x => y + u[y] < x)
    BY <1>2
  <2> QED BY <2>1, <2>2
<1>6. x + u[x] \notin Row(b, n)
  BY <1>1, <1>5
<1>7. u[x] >= n
  BY <1>2, <1>4, <1>6 DEF Row
<1> QED BY <1>7 DEF F, u

HeapFields == {"area", "slob", "grown", "got", "halt"}

\* The part of slob_alloc that takes units from the first block that is large enough.
LEMMA TakeFromIs ==
  ASSUME NEW h, DOMAIN h = HeapFields, SlobOK(h.slob), NEW n \in Nat, n > 1, Roomy(h.slob, n) # {},
         NEW t, t = TakeFrom(h, n)
  PROVE  /\ DOMAIN t = HeapFields /\ t.area = h.area /\ t.grown = h.grown /\ t.halt = h.halt
         /\ t.got \in Nat /\ SlobOK(t.slob) /\ Row(t.got, n) \subseteq SlobUnits(h.slob)
         /\ SlobUnits(t.slob) = SlobUnits(h.slob) \ Row(t.got, n)
<1> DEFINE s == h.slob
           R == Roomy(s, n)
           i == Min(R)
           N == Cardinality(FreeBlocks(s))
           prev == Ring(s)[i - 1]
           cur == Ring(s)[i]
<1>1. R = {j \in 1 .. N : s.units[Ring(s)[j]] >= n} /\ N \in Nat
  BY SlobBlocks DEF Roomy
<1>2. R \subseteq Nat /\ R # {}
  BY <1>1
<1>3. i \in R
  <2> HIDE DEF R
  <2> QED BY <1>2, MinOf
<1>4. t = [h EXCEPT !.got = cur, !.slob = Unlink(s, prev, cur, n)]
  BY DEF TakeFrom
<1> HIDE DEF i, R
<1>5. i \in 1 .. N /\ i - 1 \in 0 .. N /\ s.units[cur] >= n
  BY <1>1, <1>3
<1>6. prev \in FreeBlocks(s) /\ cur = s.next[prev]
  BY <1>5, RingTurns
<1> HIDE DEF prev, cur, N
<1> DEFINE r == Unlink(s, prev, cur, n)
<1>7. /\ SlobOK(r) /\ cur \in Nat /\ Row(cur, n) \subseteq SlobUnits(s)
      /\ SlobUnits(r) = SlobUnits(s) \ Row(cur, n)
  BY <1>5, <1>6, UnlinkIs
<1> HIDE DEF r
<1>8. DOMAIN t = HeapFields /\ t.area = h.area /\ t.grown = h.grown /\ t.halt = h.halt /\ t.got = cur /\ t.slob = r
  BY <1>4 DEF HeapFields, r
<1> QED BY <1>7, <1>8

-----------------------------------------------------------------------------
(* The pages of the heap.                                                  *)
PageRow(p)   == Row(PageAddr(p), PageUnits)
PagesUnits(g) == {Arena} \cup UNION {PageRow(p) : p \in g}

\* Where the units of a page are.
LEMMA PageAddrs ==
  ASSUME NEW p \in Pages
  PROVE  /\ PageAddr(p) \in Nat /\ PageAddr(p) > 1 /\ PageAddr(p) + PageUnits <= HeapTop
         /\ PageAddr(p) % PageUnits = 0
         /\ \A q \in Pages : p < q => PageAddr(p) + PageUnits <= PageAddr(q)
         /\ \A q \in Pages : PageAddr(p) = PageAddr(q) => p = q
<1>1. PageUnits \in Nat /\ PageUnits > 2 /\ NPages \in Nat /\ p \in Nat /\ p < NPages /\ \A q \in Pages : q \in Nat
  BY HeapTopNat DEF Pages
<1>2. \A n, x, y \in Nat : x <= y => n * x <= n * y
  OBVIOUS
<1>3. \A n, x \in Nat : n * (x + 1) = n * x + n /\ n * x \in Nat
  OBVIOUS
<1>4. PageAddr(p) \in Nat /\ PageAddr(p) > 1
  BY <1>1, <1>3 DEF PageAddr
<1>5. PageUnits * (p + 1) + PageUnits = PageUnits * ((p + 1) + 1)
  BY <1>1, <1>3
<1>6. \A y \in Nat : p + 1 <= y => PageUnits * (p + 1) + PageUnits <= PageUnits * (y + 1)
  <2> SUFFICES ASSUME NEW y \in Nat, p + 1 <= y
               PROVE  PageUnits * (p + 1) + PageUnits <= PageUnits * (y + 1)
    OBVIOUS
  <2>1. PageUnits * ((p + 1) + 1) <= PageUnits * (y + 1)
    BY <1>1, <1>2
  <2> QED BY <1>5, <2>1
<1>7. PageAddr(p) + PageUnits <= HeapTop
  BY <1>1, <1>6 DEF PageAddr, HeapTop
<1>8. \A q \in Pages : p < q => PageAddr(p) + PageUnits <= PageAddr(q)
  BY <1>1, <1>6 DEF PageAddr
<1>9. PageAddr(p) % PageUnits = 0
  BY <1>1 DEF PageAddr
<1>10. ASSUME NEW q \in Pages, PageAddr(p) = PageAddr(q) PROVE p = q
  <2>1. \A x \in Nat : p < x => PageUnits * (p + 1) < PageUnits * (x + 1)
    BY <1>1, <1>3, <1>6
  <2>2. \A x \in Nat : x < p => PageUnits * (x + 1) < PageUnits * (p + 1)
    <3> SUFFICES ASSUME NEW x \in Nat, x < p PROVE PageUnits * (x + 1) < PageUnits * (p + 1)
      OBVIOUS
    <3>1. PageUnits * ((x + 1) + 1) <= PageUnits * (p + 1)
      BY <1>1, <1>2
    <3>2. PageUnits * (x + 1) + PageUnits = PageUnits * ((x + 1) + 1) /\ PageUnits * (x + 1) \in Nat
      BY <1>1, <1>3
    <3> QED BY <1>1, <1>3, <3>1, <3>2
  <2>3. q \in Nat
    BY <1>1
  <2> QED BY <1>1, <1>10, <2>1, <2>2, <2>3 DEF PageAddr
<1> QED BY <1>4, <1>7, <1>8, <1>9, <1>10

\* Two pages have no unit in common.
LEMMA PageRowsApart ==
  ASSUME NEW p \in Pages, NEW q \in Pages, p # q
  PROVE  PageRow(p) \cap PageRow(q) = {}
<1>1. p \in Nat /\ q \in Nat /\ PageUnits \in Nat
  BY HeapTopNat DEF Pages
<1>2. (p < q => PageAddr(p) + PageUnits <= PageAddr(q)) /\ (q < p => PageAddr(q) + PageUnits <= PageAddr(p))
  BY PageAddrs
<1>3. PageAddr(p) \in Nat /\ PageAddr(q) \in Nat
  BY PageAddrs
<1> QED BY <1>1, <1>2, <1>3 DEF PageRow, Row

\* What a page more brings to the heap.
LEMMA PagesUnitsIs ==
  ASSUME NEW g, g \subseteq Pages
  PROVE  /\ \A a : a \in PagesUnits(g) => a \in Nat /\ (a = Arena \/ (a > 1 /\ a < HeapTop))
         /\ \A p \in Pages \ g : PageRow(p) \cap PagesUnits(g) = {} /\ PagesUnits(g \cup {p}) = PagesUnits(g) \cup PageRow(p)
<1>1. \A p \in Pages : \A a : a \in PageRow(p) => a \in Nat /\ a > 1 /\ a < HeapTop
  <2> SUFFICES ASSUME NEW p \in Pages, NEW a \in PageRow(p) PROVE a \in Nat /\ a > 1 /\ a < HeapTop
    OBVIOUS
  <2>1. PageAddr(p) \in Nat /\ PageAddr(p) > 1 /\ PageAddr(p) + PageUnits <= HeapTop /\ HeapTop \in Nat /\ PageUnits \in Nat
    BY PageAddrs, HeapTopNat
  <2> QED BY <2>1 DEF PageRow, Row
<1>2. \A a : a \in PagesUnits(g) <=> a = Arena \/ \E p \in g : a \in PageRow(p)
  BY DEF PagesUnits
<1>3. \A a : a \in PagesUnits(g) => a \in Nat /\ (a = Arena \/ (a > 1 /\ a < HeapTop))
  BY <1>1, <1>2 DEF Arena
<1>4. ASSUME NEW p \in Pages \ g PROVE PageRow(p) \cap PagesUnits(g) = {}
  <2> SUFFICES ASSUME NEW a \in PageRow(p), a \in PagesUnits(g) PROVE FALSE
    OBVIOUS
  <2>1. a # Arena
    BY <1>1 DEF Arena
  <2>2. PICK q \in g : a \in PageRow(q)
    BY <1>2, <2>1
  <2> QED BY <2>2, PageRowsApart
<1>5. ASSUME NEW p \in Pages \ g PROVE PagesUnits(g \cup {p}) = PagesUnits(g) \cup PageRow(p)
  BY DEF PagesUnits
<1> QED BY <1>3, <1>4, <1>5

\* What slob_alloc is given, U being the units that others use.
HeapCopy(h, U) ==
  /\ DOMAIN h = HeapFields /\ AreaOK(h.area) /\ SlobOK(h.slob)
  /\ h.grown \subseteq Pages /\ h.grown \cap Free(h.area) = {}
  /\ SlobUnits(h.slob) \cap U = {} /\ SlobUnits(h.slob) \cup U = PagesUnits(h.grown)

\* slob_alloc: n units that nobody used, and perhaps a page more for the heap.
LEMMA SlobAllocIs ==
  ASSUME NEW h, NEW U, HeapCopy(h, U), h.halt = "none", NEW n \in Nat, n > 1, n <= PageUnits,
         NEW t, t = SlobAlloc(h, n)
  PROVE  /\ DOMAIN t = HeapFields /\ t.halt \in {"none", "no page"}
         /\ t.halt = "none" =>
              /\ t.got \in Nat /\ Row(t.got, n) \cap U = {}
              /\ HeapCopy(t, U \cup Row(t.got, n))
              /\ t.grown \cup Free(t.area) = h.grown \cup Free(h.area)
<1> DEFINE s == h.slob
           a == AllocPages(h.area, 1)
<1>1. /\ DOMAIN h = HeapFields /\ AreaOK(h.area) /\ SlobOK(s)
      /\ h.grown \subseteq Pages /\ h.grown \cap Free(h.area) = {}
      /\ SlobUnits(s) \cap U = {} /\ SlobUnits(s) \cup U = PagesUnits(h.grown)
  BY DEF HeapCopy
<1>2. t = IF Roomy(s, n) # {} THEN TakeFrom(h, n)
          ELSE IF a.page = NoPage THEN [h EXCEPT !.halt = "no page"] ELSE TakeFrom(Grow(h, a), n)
  BY DEF SlobAlloc
<1> HIDE DEF s, a
<1>3. ASSUME NEW k, DOMAIN k = HeapFields, k.halt = "none", AreaOK(k.area), SlobOK(k.slob),
             k.grown \subseteq Pages, k.grown \cap Free(k.area) = {},
             SlobUnits(k.slob) \cap U = {}, SlobUnits(k.slob) \cup U = PagesUnits(k.grown),
             k.grown \cup Free(k.area) = h.grown \cup Free(h.area),
             Roomy(k.slob, n) # {}, t = TakeFrom(k, n)
      PROVE  /\ DOMAIN t = HeapFields /\ t.halt = "none" /\ t.got \in Nat /\ Row(t.got, n) \cap U = {}
             /\ HeapCopy(t, U \cup Row(t.got, n))
             /\ t.grown \cup Free(t.area) = h.grown \cup Free(h.area)
  <2>1. /\ DOMAIN t = HeapFields /\ t.area = k.area /\ t.grown = k.grown /\ t.halt = k.halt
        /\ t.got \in Nat /\ SlobOK(t.slob) /\ Row(t.got, n) \subseteq SlobUnits(k.slob)
        /\ SlobUnits(t.slob) = SlobUnits(k.slob) \ Row(t.got, n)
    BY <1>3, TakeFromIs
  <2>2. Row(t.got, n) \cap U = {}
    BY <1>3, <2>1
  <2>3. SlobUnits(t.slob) \cap (U \cup Row(t.got, n)) = {}
    BY <1>3, <2>1
  <2>4. SlobUnits(t.slob) \cup (U \cup Row(t.got, n)) = PagesUnits(t.grown)
    BY <1>3, <2>1
  <2>5. AreaOK(t.area) /\ t.grown \subseteq Pages /\ t.grown \cap Free(t.area) = {}
    BY <1>3, <2>1
  <2> QED BY <1>3, <2>1, <2>2, <2>3, <2>4, <2>5 DEF HeapCopy
<1>4. CASE Roomy(s, n) # {}
  <2>1. t = TakeFrom(h, n)
    BY <1>2, <1>4
  <2> QED BY <1>1, <1>3, <1>4, <2>1 DEF s
<1>5. CASE Roomy(s, n) = {} /\ a.page = NoPage
  <2>1. t = [h EXCEPT !.halt = "no page"]
    BY <1>2, <1>5
  <2>2. DOMAIN t = HeapFields /\ t.halt = "no page"
    BY <1>1, <2>1 DEF HeapFields
  <2> QED BY <2>2
<1>6. CASE Roomy(s, n) = {} /\ a.page # NoPage
  <2> DEFINE p == a.page
             r == SlobFree(s, PageAddr(p), PageUnits)
             k == Grow(h, a)
  <2>1. t = TakeFrom(k, n)
    BY <1>2, <1>6
  <2>2. /\ p \in Pages /\ Row(p, 1) \subseteq Free(h.area) /\ AreaOK(a.area)
        /\ Free(a.area) = Free(h.area) \ Row(p, 1)
    BY <1>1, <1>6, AllocIs DEF a
  <2>3. Row(p, 1) = {p}
    BY <2>2 DEF Row, Pages
  <2> HIDE DEF p
  <2>4. /\ PageRow(p) \cap PagesUnits(h.grown) = {} /\ PagesUnits(h.grown \cup {p}) = PagesUnits(h.grown) \cup PageRow(p)
        /\ p \notin h.grown
    <3>1. p \notin h.grown
      BY <1>1, <2>2, <2>3
    <3> QED BY <1>1, <2>2, <3>1, PagesUnitsIs
  <2>5. PageAddr(p) \in Nat /\ PageAddr(p) > 1 /\ PageAddr(p) + PageUnits <= HeapTop /\ PageUnits \in Nat \ {0}
    BY <2>2, PageAddrs, HeapTopNat
  <2>6. Row(PageAddr(p), PageUnits) \cap SlobUnits(s) = {}
    BY <1>1, <2>4 DEF PageRow
  <2>7. SlobOK(r) /\ SlobUnits(r) = SlobUnits(s) \cup PageRow(p)
    BY <1>1, <2>5, <2>6, SlobFreeIs DEF PageRow
  <2> HIDE DEF r
  <2>8. /\ DOMAIN k = HeapFields /\ k.halt = "none" /\ k.area = a.area
        /\ k.grown = h.grown \cup {p} /\ k.slob = r
    <3>1. k = [h EXCEPT !.area = a.area, !.grown = h.grown \cup {p}, !.slob = r]
      BY DEF Grow, r, p, s
    <3> HIDE DEF k
    <3> QED BY <1>1, <3>1 DEF HeapFields
  <2>9. Roomy(k.slob, n) # {}
    <3>1. PICK x \in FreeBlocks(r) : r.units[x] >= PageUnits
      BY <2>5, <2>7, RowInOne DEF PageRow
    <3>2. PICK i \in 1 .. Cardinality(FreeBlocks(r)) : Ring(r)[i] = x
      BY <2>7, RingAll
    <3>3. r.units[x] \in Nat /\ r.units[x] >= n
      BY <2>5, <2>7, <3>1 DEF SlobOK
    <3> QED BY <2>8, <3>2, <3>3 DEF Roomy
  <2> HIDE DEF k
  <2>10. k.grown \subseteq Pages /\ k.grown \cap Free(k.area) = {} /\ k.grown \cup Free(k.area) = h.grown \cup Free(h.area)
    BY <1>1, <2>2, <2>3, <2>8
  <2>11. SlobUnits(k.slob) \cap U = {} /\ SlobUnits(k.slob) \cup U = PagesUnits(k.grown)
    BY <1>1, <2>4, <2>7, <2>8
  <2> QED BY <1>3, <2>1, <2>2, <2>7, <2>8, <2>9, <2>10, <2>11
<1> QED BY <1>4, <1>5, <1>6

-----------------------------------------------------------------------------
(* Objects and big blocks.                                                 *)
ObjUnits(o) == UNION {Row(b, o[b]) : b \in DOMAIN o}
RecUnits(s) == UNION {Row(s[i].at, BigUnits) : i \in DOMAIN s}
BigRow(x)   == Row(x.page, 2^x.order)
BigPages(s) == UNION {BigRow(s[i]) : i \in DOMAIN s}

BigTypes == {x \in [at : Nat, page : Pages, order : Orders] : BigRow(x) \subseteq Pages}

ObjOK(o) ==
  /\ DOMAIN o \subseteq Nat
  /\ \A b \in DOMAIN o : o[b] \in Nat /\ o[b] > 1
  /\ \A b, c \in DOMAIN o : b # c => Row(b, o[b]) \cap Row(c, o[c]) = {}

BigOK(s) ==
  /\ s \in Seq(BigTypes)
  /\ \A i, j \in DOMAIN s : i # j => /\ Row(s[i].at, BigUnits) \cap Row(s[j].at, BigUnits) = {}
                                      /\ BigRow(s[i]) \cap BigRow(s[j]) = {}

\* A power of 2 is a number.
LEMMA PowerNat ==
  ASSUME NEW n \in Nat
  PROVE  2^n \in Nat \ {0}
<1> DEFINE S == 1 .. n
<1>1. IsFiniteSet(S) /\ Cardinality(S) = n
  <2>1. S = 1 .. 1 + n - 1
    OBVIOUS
  <2> QED BY <2>1, RowSize
<1> HIDE DEF S
<1>2. IsFiniteSet(SUBSET S) /\ Cardinality(SUBSET S) = 2^Cardinality(S)
  BY <1>1, FS_SUBSET
<1>3. Cardinality(SUBSET S) \in Nat /\ Cardinality(SUBSET S) # 0
  <2>1. SUBSET S # {}
    OBVIOUS
  <2> QED BY <1>2, <2>1, FS_CardinalityType, FS_EmptySet
<1> QED BY <1>1, <1>2, <1>3

\* What a record of the list of big blocks consists of.
LEMMA BigFields ==
  ASSUME NEW x \in BigTypes
  PROVE  /\ x.at \in Nat /\ x.page \in Pages /\ x.page \in Nat /\ x.order \in Orders
         /\ 2^x.order \in Nat \ {0} /\ BigRow(x) \subseteq Pages /\ x.page \in BigRow(x)
<1>1. x.at \in Nat /\ x.page \in Pages /\ x.order \in Orders /\ BigRow(x) \subseteq Pages
  BY DEF BigTypes
<1>2. x.page \in Nat /\ x.order \in Nat
  <2>1. Orders \subseteq Nat
    BY HeapAssumption
  <2>2. Pages \subseteq Nat
    BY DEF Pages
  <2> QED BY <1>1, <2>1, <2>2
<1>3. 2^x.order \in Nat \ {0}
  BY <1>2, PowerNat
<1>4. x.page \in BigRow(x)
  <2> DEFINE n == 2^x.order
  <2>1. n \in Nat /\ n > 0
    BY <1>3
  <2> HIDE DEF n
  <2>2. x.page \in Row(x.page, n)
    BY <1>2, <2>1 DEF Row
  <2> QED BY <2>2 DEF BigRow, n
<1> QED BY <1>1, <1>2, <1>3, <1>4

\* An object more.
LEMMA ObjWith ==
  ASSUME NEW o, ObjOK(o), NEW b \in Nat, NEW n \in Nat, n > 1, Row(b, n) \cap ObjUnits(o) = {},
         NEW t, t = [c \in DOMAIN o \cup {b} |-> IF c = b THEN n ELSE o[c]]
  PROVE  ObjOK(t) /\ ObjUnits(t) = ObjUnits(o) \cup Row(b, n)
<1>1. \A c \in DOMAIN o : Row(b, n) \cap Row(c, o[c]) = {}
  BY DEF ObjUnits
<1>2. b \in Row(b, n)
  BY DEF Row
<1>3. b \notin DOMAIN o
  <2>1. \A c \in DOMAIN o : c \in Row(c, o[c])
    BY DEF ObjOK, Row
  <2> QED BY <1>1, <1>2, <2>1
<1>4. DOMAIN t = DOMAIN o \cup {b} /\ t[b] = n /\ \A c \in DOMAIN o : t[c] = o[c]
  BY <1>3
<1>5. ObjOK(t)
  BY <1>1, <1>4 DEF ObjOK
<1>6. ObjUnits(t) = ObjUnits(o) \cup Row(b, n)
  BY <1>4 DEF ObjUnits
<1> QED BY <1>5, <1>6

\* An object less.
LEMMA ObjWithout ==
  ASSUME NEW o, ObjOK(o), NEW b \in DOMAIN o, NEW t, t = Restrict(o, DOMAIN o \ {b})
  PROVE  ObjOK(t) /\ ObjUnits(t) = ObjUnits(o) \ Row(b, o[b]) /\ Row(b, o[b]) \subseteq ObjUnits(o)
<1>1. DOMAIN t = DOMAIN o \ {b} /\ \A c \in DOMAIN t : t[c] = o[c]
  BY DEF Restrict
<1>2. ObjOK(t)
  BY <1>1 DEF ObjOK
<1>3. \A c \in DOMAIN t : Row(c, o[c]) \cap Row(b, o[b]) = {}
  BY <1>1 DEF ObjOK
<1>4. ObjUnits(t) = ObjUnits(o) \ Row(b, o[b])
  BY <1>1, <1>3 DEF ObjUnits
<1>5. Row(b, o[b]) \subseteq ObjUnits(o)
  BY DEF ObjUnits
<1> QED BY <1>2, <1>4, <1>5

\* A big block more.
LEMMA BigWith ==
  ASSUME NEW s, BigOK(s), NEW x \in BigTypes, Row(x.at, BigUnits) \cap RecUnits(s) = {},
         BigRow(x) \cap BigPages(s) = {}, NEW t, t = <<x>> \o s
  PROVE  /\ BigOK(t) /\ RecUnits(t) = RecUnits(s) \cup Row(x.at, BigUnits)
         /\ BigPages(t) = BigPages(s) \cup BigRow(x)
<1>1. s \in Seq(BigTypes) /\ Len(s) \in Nat /\ DOMAIN s = 1 .. Len(s)
  BY DEF BigOK
<1>2. /\ t \in Seq(BigTypes) /\ DOMAIN t = 1 .. Len(s) + 1
      /\ t[1] = x /\ \A i \in DOMAIN s : i + 1 \in DOMAIN t /\ i + 1 # 1 /\ t[i + 1] = s[i]
  BY <1>1
<1>3. \A i \in DOMAIN t : i # 1 => i - 1 \in DOMAIN s /\ t[i] = s[i - 1] /\ i \in Nat
  <2> SUFFICES ASSUME NEW i \in DOMAIN t, i # 1 PROVE i - 1 \in DOMAIN s /\ t[i] = s[i - 1] /\ i \in Nat
    OBVIOUS
  <2>1. i - 1 \in DOMAIN s /\ (i - 1) + 1 = i /\ i \in Nat
    BY <1>1, <1>2
  <2> QED BY <1>2, <2>1
<1>4. \A i \in DOMAIN s : Row(x.at, BigUnits) \cap Row(s[i].at, BigUnits) = {} /\ BigRow(x) \cap BigRow(s[i]) = {}
  BY DEF RecUnits, BigPages
<1>5. ASSUME NEW i \in DOMAIN t, NEW j \in DOMAIN t, i # j
      PROVE  /\ Row(t[i].at, BigUnits) \cap Row(t[j].at, BigUnits) = {}
             /\ BigRow(t[i]) \cap BigRow(t[j]) = {}
  <2>1. CASE i = 1
    <3>1. t[j] = s[j - 1] /\ j - 1 \in DOMAIN s
      BY <1>3, <1>5, <2>1
    <3> QED BY <1>2, <1>4, <2>1, <3>1
  <2>2. CASE j = 1
    <3>1. t[i] = s[i - 1] /\ i - 1 \in DOMAIN s
      BY <1>3, <1>5, <2>2
    <3> QED BY <1>2, <1>4, <2>2, <3>1
  <2>3. CASE i # 1 /\ j # 1
    <3>1. t[i] = s[i - 1] /\ i - 1 \in DOMAIN s /\ t[j] = s[j - 1] /\ j - 1 \in DOMAIN s /\ i - 1 # j - 1
      BY <1>3, <1>5, <2>3
    <3> QED BY <3>1 DEF BigOK
  <2> QED BY <2>1, <2>2, <2>3
<1>6. BigOK(t)
  BY <1>2, <1>5 DEF BigOK
<1>7. 1 \in DOMAIN t
  BY <1>1, <1>2
<1>8. \A a : a \in RecUnits(t) <=> a \in RecUnits(s) \/ a \in Row(x.at, BigUnits)
  <2>1. \A a : a \in RecUnits(t) <=> \E i \in DOMAIN t : a \in Row(t[i].at, BigUnits)
    BY DEF RecUnits
  <2>2. \A a : a \in RecUnits(s) <=> \E i \in DOMAIN s : a \in Row(s[i].at, BigUnits)
    BY DEF RecUnits
  <2>3. ASSUME NEW a, a \in RecUnits(t) PROVE a \in RecUnits(s) \/ a \in Row(x.at, BigUnits)
    <3>1. PICK i \in DOMAIN t : a \in Row(t[i].at, BigUnits)
      BY <2>1, <2>3
    <3>2. i # 1 => i - 1 \in DOMAIN s /\ t[i] = s[i - 1]
      BY <1>3
    <3> QED BY <1>2, <2>2, <3>1, <3>2
  <2>4. ASSUME NEW a, a \in RecUnits(s) PROVE a \in RecUnits(t)
    <3>1. PICK i \in DOMAIN s : a \in Row(s[i].at, BigUnits)
      BY <2>2, <2>4
    <3>2. i + 1 \in DOMAIN t /\ t[i + 1] = s[i]
      BY <1>2
    <3> QED BY <2>1, <3>1, <3>2
  <2>5. \A a : a \in Row(x.at, BigUnits) => a \in RecUnits(t)
    BY <1>2, <1>7, <2>1
  <2> QED BY <2>3, <2>4, <2>5
<1>9. \A a : a \in BigPages(t) <=> a \in BigPages(s) \/ a \in BigRow(x)
  <2>1. \A a : a \in BigPages(t) <=> \E i \in DOMAIN t : a \in BigRow(t[i])
    BY DEF BigPages
  <2>2. \A a : a \in BigPages(s) <=> \E i \in DOMAIN s : a \in BigRow(s[i])
    BY DEF BigPages
  <2>3. ASSUME NEW a, a \in BigPages(t) PROVE a \in BigPages(s) \/ a \in BigRow(x)
    <3>1. PICK i \in DOMAIN t : a \in BigRow(t[i])
      BY <2>1, <2>3
    <3>2. i # 1 => i - 1 \in DOMAIN s /\ t[i] = s[i - 1]
      BY <1>3
    <3> QED BY <1>2, <2>2, <3>1, <3>2
  <2>4. ASSUME NEW a, a \in BigPages(s) PROVE a \in BigPages(t)
    <3>1. PICK i \in DOMAIN s : a \in BigRow(s[i])
      BY <2>2, <2>4
    <3>2. i + 1 \in DOMAIN t /\ t[i + 1] = s[i]
      BY <1>2
    <3> QED BY <2>1, <3>1, <3>2
  <2>5. \A a : a \in BigRow(x) => a \in BigPages(t)
    BY <1>2, <1>7, <2>1
  <2> QED BY <2>3, <2>4, <2>5
<1> QED BY <1>6, <1>8, <1>9

\* A big block less.
LEMMA BigWithout ==
  ASSUME NEW s, BigOK(s), NEW i \in DOMAIN s, NEW t, t = RemoveAt(s, i)
  PROVE  /\ BigOK(t) /\ RecUnits(t) = RecUnits(s) \ Row(s[i].at, BigUnits)
         /\ BigPages(t) = BigPages(s) \ BigRow(s[i])
         /\ Row(s[i].at, BigUnits) \subseteq RecUnits(s) /\ BigRow(s[i]) \subseteq BigPages(s)
<1>1. s \in Seq(BigTypes) /\ Len(s) \in Nat /\ DOMAIN s = 1 .. Len(s)
  BY SMTT(30) DEF BigOK
<1>2. /\ t \in Seq(BigTypes) /\ Len(t) = Len(s) - 1
      /\ \A j \in 1 .. Len(s) - 1 : t[j] = IF j < i THEN s[j] ELSE s[j + 1]
  BY <1>1, RemoveIs
<1>3. DOMAIN t = 1 .. Len(s) - 1
  <2>1. DOMAIN t = 1 .. Len(t)
    BY <1>2, LenProperties, Zenon
  <2> QED BY <1>2, <2>1, Zenon
<1> DEFINE from(j) == IF j < i THEN j ELSE j + 1
<1>4. \A j \in DOMAIN t : from(j) \in DOMAIN s /\ from(j) # i /\ t[j] = s[from(j)]
  <2> SUFFICES ASSUME NEW j \in 1 .. Len(s) - 1 PROVE from(j) \in 1 .. Len(s) /\ from(j) # i /\ t[j] = s[from(j)]
    BY <1>1, <1>3, Zenon
  <2>1. i \in 1 .. Len(s) /\ Len(s) \in Nat
    BY <1>1
  <2> QED BY <1>2, <2>1
<1>5. \A j, l \in DOMAIN t : j # l => from(j) # from(l)
  BY <1>1, <1>3
<1>6. ASSUME NEW j \in DOMAIN s, j # i PROVE \E l \in DOMAIN t : from(l) = j
  <2>1. CASE j < i
    <3>1. j \in DOMAIN t /\ from(j) = j
      BY <1>1, <1>3, <2>1
    <3> QED BY <3>1
  <2>2. CASE j > i
    <3>1. j - 1 \in DOMAIN t /\ from(j - 1) = j
      BY <1>1, <1>3, <2>2
    <3> QED BY <3>1
  <2> QED BY <1>1, <1>6, <2>1, <2>2
<1> HIDE DEF from
<1>7. BigOK(t)
  <2> SUFFICES ASSUME NEW j \in DOMAIN t, NEW l \in DOMAIN t, j # l
               PROVE  /\ Row(t[j].at, BigUnits) \cap Row(t[l].at, BigUnits) = {}
                      /\ BigRow(t[j]) \cap BigRow(t[l]) = {}
    BY <1>2 DEF BigOK
  <2>1. from(j) \in DOMAIN s /\ from(l) \in DOMAIN s /\ from(j) # from(l) /\ t[j] = s[from(j)] /\ t[l] = s[from(l)]
    BY <1>4, <1>5
  <2> QED BY <2>1 DEF BigOK
<1>8. \A j \in DOMAIN s : j # i => /\ Row(s[j].at, BigUnits) \cap Row(s[i].at, BigUnits) = {}
                                   /\ BigRow(s[j]) \cap BigRow(s[i]) = {}
  BY DEF BigOK
<1>9. \A a : a \in RecUnits(t) <=> a \in RecUnits(s) /\ a \notin Row(s[i].at, BigUnits)
  <2>1. \A a : a \in RecUnits(t) <=> \E j \in DOMAIN t : a \in Row(t[j].at, BigUnits)
    BY DEF RecUnits
  <2>2. \A a : a \in RecUnits(s) <=> \E j \in DOMAIN s : a \in Row(s[j].at, BigUnits)
    BY DEF RecUnits
  <2>3. ASSUME NEW a, a \in RecUnits(t) PROVE a \in RecUnits(s) /\ a \notin Row(s[i].at, BigUnits)
    <3>1. PICK j \in DOMAIN t : a \in Row(t[j].at, BigUnits)
      BY <2>1, <2>3
    <3>2. from(j) \in DOMAIN s /\ from(j) # i /\ t[j] = s[from(j)]
      BY <1>4
    <3> QED BY <1>8, <2>2, <3>1, <3>2
  <2>4. ASSUME NEW a, a \in RecUnits(s), a \notin Row(s[i].at, BigUnits) PROVE a \in RecUnits(t)
    <3>1. PICK j \in DOMAIN s : a \in Row(s[j].at, BigUnits) /\ j # i
      BY <2>2, <2>4
    <3>2. PICK l \in DOMAIN t : from(l) = j
      BY <1>6, <3>1
    <3>3. t[l] = s[j]
      BY <1>4, <3>2
    <3> QED BY <2>1, <3>1, <3>3
  <2> QED BY <2>3, <2>4
<1>10. \A a : a \in BigPages(t) <=> a \in BigPages(s) /\ a \notin BigRow(s[i])
  <2>1. \A a : a \in BigPages(t) <=> \E j \in DOMAIN t : a \in BigRow(t[j])
    BY DEF BigPages
  <2>2. \A a : a \in BigPages(s) <=> \E j \in DOMAIN s : a \in BigRow(s[j])
    BY DEF BigPages
  <2>3. ASSUME NEW a, a \in BigPages(t) PROVE a \in BigPages(s) /\ a \notin BigRow(s[i])
    <3>1. PICK j \in DOMAIN t : a \in BigRow(t[j])
      BY <2>1, <2>3
    <3>2. from(j) \in DOMAIN s /\ from(j) # i /\ t[j] = s[from(j)]
      BY <1>4
    <3> QED BY <1>8, <2>2, <3>1, <3>2
  <2>4. ASSUME NEW a, a \in BigPages(s), a \notin BigRow(s[i]) PROVE a \in BigPages(t)
    <3>1. PICK j \in DOMAIN s : a \in BigRow(s[j]) /\ j # i
      BY <2>2, <2>4
    <3>2. PICK l \in DOMAIN t : from(l) = j
      BY <1>6, <3>1
    <3>3. t[l] = s[j]
      BY <1>4, <3>2
    <3> QED BY <2>1, <3>1, <3>3
  <2> QED BY <2>3, <2>4
<1>11. Row(s[i].at, BigUnits) \subseteq RecUnits(s) /\ BigRow(s[i]) \subseteq BigPages(s)
  BY DEF RecUnits, BigPages
<1> QED BY <1>7, <1>9, <1>10, <1>11

-----------------------------------------------------------------------------
(* The heap keeps its units and its pages.                                 *)
InUse(o, s) == ObjUnits(o) \cup RecUnits(s)

SlobInv ==
  /\ SlobOK(slob) /\ grown \subseteq Pages /\ ObjOK(objects) /\ BigOK(bigblocks)
  /\ ObjUnits(objects) \cap RecUnits(bigblocks) = {}
  /\ SlobUnits(slob) \cap InUse(objects, bigblocks) = {}
  /\ SlobUnits(slob) \cup InUse(objects, bigblocks) = PagesUnits(grown)

\* Pages are free, of the heap, in big blocks or held by the others.
Shared ==
  /\ AreaOK(area)
  /\ Free(area) \cap grown = {} /\ BigPages(bigblocks) \cap (Free(area) \cup grown) = {}
  /\ held \cap (Free(area) \cup grown \cup BigPages(bigblocks)) = {}
  /\ Free(area) \cup grown \cup BigPages(bigblocks) \cup held = Pages

\* The variables are such a copy.
LEMMA HeapCopies ==
  ASSUME SlobInv, Shared
  PROVE  /\ HeapCopy(Heap, InUse(objects, bigblocks)) /\ Heap.halt = halt
         /\ Heap.area = area /\ Heap.slob = slob /\ Heap.grown = grown
<1>1. /\ DOMAIN Heap = HeapFields /\ Heap.area = area /\ Heap.slob = slob /\ Heap.grown = grown /\ Heap.halt = halt
  BY DEF Heap, HeapFields
<1> QED BY <1>1 DEF HeapCopy, SlobInv, Shared

\* kmalloc of less than a page
LEMMA SmallKeeps ==
  ASSUME SlobInv, Shared, halt = "none", NEW n \in Sizes, KmallocSmall(n), held' = held
  PROVE  SlobInv' /\ Shared' /\ halt' \in {"none", "no page"}
<1> DEFINE h == SlobAlloc(Heap, n)
           U == InUse(objects, bigblocks)
<1>1. n \in Nat /\ n > 1 /\ n <= PageUnits
  <2>1. Sizes \subseteq 2 .. PageUnits - 1 /\ PageUnits \in Nat
    BY HeapAssumption
  <2> QED BY <2>1
<1>2. HeapCopy(Heap, U) /\ Heap.halt = "none" /\ Heap.area = area /\ Heap.grown = grown
  BY HeapCopies
<1> HIDE DEF U
<1>3. /\ DOMAIN h = HeapFields /\ h.halt \in {"none", "no page"}
      /\ h.halt = "none" =>
           /\ h.got \in Nat /\ Row(h.got, n) \cap U = {}
           /\ HeapCopy(h, U \cup Row(h.got, n))
           /\ h.grown \cup Free(h.area) = grown \cup Free(area)
  BY <1>1, <1>2, SlobAllocIs
<1>4. \/ Panic(h)
      \/ /\ h.halt = "none"
         /\ objects' = [b \in DOMAIN objects \cup {h.got} |-> IF b = h.got THEN n ELSE objects[b]]
         /\ Finish(h)
         /\ UNCHANGED <<halt, bigblocks>>
  BY DEF KmallocSmall
<1> HIDE DEF h
<1>5. CASE Panic(h)
  <2>1. UNCHANGED <<area, slob, bigblocks, objects, grown>> /\ halt' \in {"none", "no page"}
    BY <1>3, <1>5 DEF Panic
  <2> QED BY <2>1 DEF SlobInv, Shared
<1>6. CASE ~Panic(h)
  <2>1. /\ h.halt = "none" /\ area' = h.area /\ slob' = h.slob /\ grown' = h.grown
        /\ halt' = halt /\ bigblocks' = bigblocks
        /\ objects' = [b \in DOMAIN objects \cup {h.got} |-> IF b = h.got THEN n ELSE objects[b]]
    BY <1>4, <1>6 DEF Finish
  <2>2. /\ AreaOK(area') /\ SlobOK(slob') /\ grown' \subseteq Pages /\ grown' \cap Free(area') = {}
        /\ SlobUnits(slob') \cap (U \cup Row(h.got, n)) = {}
        /\ SlobUnits(slob') \cup (U \cup Row(h.got, n)) = PagesUnits(grown')
    BY <1>3, <2>1 DEF HeapCopy
  <2>3. U = ObjUnits(objects) \cup RecUnits(bigblocks) /\ ObjOK(objects) /\ BigOK(bigblocks)
        /\ ObjUnits(objects) \cap RecUnits(bigblocks) = {}
    BY DEF U, InUse, SlobInv
  <2>4. Row(h.got, n) \cap ObjUnits(objects) = {} /\ Row(h.got, n) \cap RecUnits(bigblocks) = {}
    BY <1>3, <2>1, <2>3
  <2>5. ObjOK(objects') /\ ObjUnits(objects') = ObjUnits(objects) \cup Row(h.got, n)
    BY <1>1, <1>3, <2>1, <2>3, <2>4, ObjWith
  <2>6. InUse(objects', bigblocks') = U \cup Row(h.got, n)
    BY <2>1, <2>3, <2>5 DEF InUse
  <2>7. ObjUnits(objects') \cap RecUnits(bigblocks') = {}
    BY <2>1, <2>3, <2>4, <2>5
  <2>8. SlobInv'
    BY <2>1, <2>2, <2>3, <2>5, <2>6, <2>7 DEF SlobInv
  <2>9. Shared'
    <3>1. grown' \cup Free(area') = grown \cup Free(area)
      BY <1>3, <2>1
    <3> QED BY <2>1, <2>2, <3>1 DEF Shared
  <2> QED BY <2>1, <2>8, <2>9
<1> QED BY <1>5, <1>6

\* kmalloc of whole pages
LEMMA LargeKeeps ==
  ASSUME SlobInv, Shared, halt = "none", NEW o \in Orders, KmallocBig(o), held' = held
  PROVE  SlobInv' /\ Shared' /\ halt' \in {"none", "no page"}
<1> DEFINE h == SlobAlloc(Heap, BigUnits)
           a == AllocPages(h.area, 2^o)
           none == a.page = NoPage
           k == IF none /\ o = 0 THEN [h EXCEPT !.halt = "no page"] ELSE h
           x == [at |-> h.got, page |-> a.page, order |-> o]
           U == InUse(objects, bigblocks)
<1>1. BigUnits \in Nat /\ BigUnits > 1 /\ BigUnits <= PageUnits
  BY HeapTopNat DEF BigUnits
<1>2. HeapCopy(Heap, U) /\ Heap.halt = "none" /\ Heap.area = area /\ Heap.grown = grown
  BY HeapCopies
<1> HIDE DEF U
<1>3. /\ DOMAIN h = HeapFields /\ h.halt \in {"none", "no page"}
      /\ h.halt = "none" =>
           /\ h.got \in Nat /\ Row(h.got, BigUnits) \cap U = {}
           /\ HeapCopy(h, U \cup Row(h.got, BigUnits))
           /\ h.grown \cup Free(h.area) = grown \cup Free(area)
  BY <1>1, <1>2, SlobAllocIs
<1>4. \/ Panic(k)
      \/ /\ h.halt = "none" /\ ~none
         /\ bigblocks' = <<x>> \o bigblocks
         /\ Finish([h EXCEPT !.area = a.area])
         /\ UNCHANGED <<halt, objects>>
      \/ /\ h.halt = "none" /\ none /\ o > 0
         /\ Finish(GiveBack(h))
         /\ UNCHANGED <<halt, objects, bigblocks>>
  BY DEF KmallocBig
<1>5. o \in Nat /\ 2^o \in Nat \ {0}
  BY HeapAssumption, PowerNat
<1>6. h.halt = "none" =>
        /\ a.page = NoPage => a.area = h.area
        /\ a.page # NoPage => /\ a.page \in Pages /\ Row(a.page, 2^o) \subseteq Free(h.area)
                              /\ AreaOK(a.area) /\ Free(a.area) = Free(h.area) \ Row(a.page, 2^o)
  <2> SUFFICES ASSUME h.halt = "none"
               PROVE  /\ a.page = NoPage => a.area = h.area
                      /\ a.page # NoPage => /\ a.page \in Pages /\ Row(a.page, 2^o) \subseteq Free(h.area)
                                            /\ AreaOK(a.area) /\ Free(a.area) = Free(h.area) \ Row(a.page, 2^o)
    OBVIOUS
  <2>1. AreaOK(h.area)
    BY <1>3 DEF HeapCopy
  <2> HIDE DEF h
  <2> QED BY <1>5, <2>1, AllocIs
<1> HIDE DEF h, a
<1>7. U = ObjUnits(objects) \cup RecUnits(bigblocks) /\ ObjOK(objects) /\ BigOK(bigblocks)
      /\ ObjUnits(objects) \cap RecUnits(bigblocks) = {}
  BY DEF U, InUse, SlobInv
<1>8. CASE Panic(k)
  <2>1. k.halt \in {"none", "no page"}
    BY <1>3 DEF HeapFields
  <2>2. UNCHANGED <<area, slob, bigblocks, objects, grown>> /\ halt' \in {"none", "no page"}
    BY <1>8, <2>1 DEF Panic
  <2> QED BY <2>2 DEF SlobInv, Shared
<1>9. CASE /\ h.halt = "none" /\ ~none
           /\ bigblocks' = <<x>> \o bigblocks
           /\ Finish([h EXCEPT !.area = a.area])
           /\ UNCHANGED <<halt, objects>>
  <2>1. area' = a.area /\ slob' = h.slob /\ grown' = h.grown /\ halt' = halt /\ objects' = objects
        /\ bigblocks' = <<x>> \o bigblocks
    <3>1. Finish([h EXCEPT !.area = a.area])
      BY <1>9
    <3> HIDE DEF x, none
    <3> QED BY <1>3, <1>9, <3>1 DEF Finish, HeapFields
  <2>2. /\ AreaOK(h.area) /\ SlobOK(slob') /\ grown' \subseteq Pages /\ grown' \cap Free(h.area) = {}
        /\ SlobUnits(slob') \cap (U \cup Row(h.got, BigUnits)) = {}
        /\ SlobUnits(slob') \cup (U \cup Row(h.got, BigUnits)) = PagesUnits(grown')
    BY <1>3, <1>9, <2>1 DEF HeapCopy
  <2>3. /\ a.page \in Pages /\ Row(a.page, 2^o) \subseteq Free(h.area)
        /\ AreaOK(a.area) /\ Free(a.area) = Free(h.area) \ Row(a.page, 2^o)
    BY <1>6, <1>9
  <2>4. x.at = h.got /\ BigRow(x) = Row(a.page, 2^o) /\ x \in BigTypes
    <3>1. x.at = h.got /\ x.page = a.page /\ x.order = o
      OBVIOUS
    <3>2. BigRow(x) = Row(a.page, 2^o)
      BY <3>1 DEF BigRow
    <3>3. x \in [at : Nat, page : Pages, order : Orders]
      BY <1>3, <1>9, <2>3
    <3>4. Free(h.area) \subseteq Pages
      BY <2>2, CoverIs DEF AreaOK, Free
    <3> HIDE DEF x
    <3> QED BY <2>3, <3>1, <3>2, <3>3, <3>4 DEF BigTypes
  <2> HIDE DEF x
  <2>5. Row(h.got, BigUnits) \cap ObjUnits(objects) = {} /\ Row(h.got, BigUnits) \cap RecUnits(bigblocks) = {}
    BY <1>3, <1>7, <1>9
  <2>6. h.grown \cup Free(h.area) = grown \cup Free(area)
    BY <1>3, <1>9
  <2>7. BigRow(x) \cap BigPages(bigblocks) = {}
    <3>1. BigPages(bigblocks) \cap (Free(area) \cup grown) = {}
      BY DEF Shared
    <3> QED BY <2>3, <2>4, <2>6, <3>1
  <2>8. /\ BigOK(bigblocks') /\ RecUnits(bigblocks') = RecUnits(bigblocks) \cup Row(h.got, BigUnits)
        /\ BigPages(bigblocks') = BigPages(bigblocks) \cup BigRow(x)
    BY <1>7, <2>1, <2>4, <2>5, <2>7, BigWith
  <2>9. InUse(objects', bigblocks') = U \cup Row(h.got, BigUnits)
    BY <1>7, <2>1, <2>8 DEF InUse
  <2>10. SlobInv'
    <3>1. ObjUnits(objects') \cap RecUnits(bigblocks') = {}
      BY <1>7, <2>1, <2>5, <2>8
    <3> QED BY <1>7, <2>1, <2>2, <2>8, <2>9, <3>1 DEF SlobInv
  <2>11. Shared'
    <3>1. Free(area') = Free(h.area) \ BigRow(x) /\ BigRow(x) \subseteq Free(h.area) /\ AreaOK(area')
      BY <2>1, <2>3, <2>4
    <3>2. grown' \cap Free(h.area) = {} /\ grown' \cup Free(h.area) = grown \cup Free(area)
      BY <2>1, <2>2, <2>6
    <3> QED BY <2>8, <3>1, <3>2 DEF Shared
  <2> QED BY <2>1, <2>10, <2>11
<1>10. CASE /\ h.halt = "none" /\ none /\ o > 0
            /\ Finish(GiveBack(h))
            /\ UNCHANGED <<halt, objects, bigblocks>>
  <2> DEFINE s == SlobFree(h.slob, h.got, BigUnits)
  <2>1. area' = h.area /\ slob' = s /\ grown' = h.grown /\ halt' = halt /\ objects' = objects
        /\ bigblocks' = bigblocks
    <3>1. GiveBack(h) = [h EXCEPT !.slob = s]
      BY DEF GiveBack
    <3>2. Finish(GiveBack(h))
      BY <1>10
    <3> HIDE DEF s, none
    <3> QED BY <1>3, <1>10, <3>1, <3>2 DEF Finish, HeapFields
  <2>2. /\ AreaOK(h.area) /\ SlobOK(h.slob) /\ grown' \subseteq Pages /\ grown' \cap Free(h.area) = {}
        /\ SlobUnits(h.slob) \cap (U \cup Row(h.got, BigUnits)) = {}
        /\ SlobUnits(h.slob) \cup (U \cup Row(h.got, BigUnits)) = PagesUnits(grown')
        /\ h.got \in Nat
    BY <1>3, <1>10, <2>1 DEF HeapCopy
  <2>3. SlobOK(s) /\ SlobUnits(s) = SlobUnits(h.slob) \cup Row(h.got, BigUnits)
    <3>1. /\ \A u : u \in PagesUnits(grown') => u \in Nat /\ (u = Arena \/ (u > 1 /\ u < HeapTop))
          /\ Arena \in SlobUnits(h.slob)
      <4>1. Arena \in FreeBlocks(h.slob) /\ h.slob.units[Arena] = 1
        BY <2>2 DEF SlobOK
      <4>2. Arena \in Row(Arena, 1)
        BY DEF Row, Arena
      <4>3. Arena \in SlobUnits(h.slob)
        BY <4>1, <4>2 DEF SlobUnits
      <4> QED BY <2>2, <4>3, PagesUnitsIs
    <3>2. h.got \in Row(h.got, BigUnits) /\ h.got + 1 \in Row(h.got, BigUnits)
      BY <2>2 DEF Row, BigUnits
    <3>3. h.got > 1 /\ h.got + BigUnits <= HeapTop
      <4>1. h.got \in PagesUnits(grown') /\ h.got + 1 \in PagesUnits(grown') /\ h.got # Arena
        BY <2>2, <3>1, <3>2
      <4>2. h.got > 1 /\ h.got + 1 < HeapTop
        BY <2>2, <3>1, <4>1 DEF Arena
      <4> QED BY <2>2, <4>2, HeapTopNat DEF BigUnits
    <3>4. Row(h.got, BigUnits) \cap SlobUnits(h.slob) = {}
      BY <2>2
    <3>5. BigUnits \in Nat \ {0}
      BY DEF BigUnits
    <3> QED BY <2>2, <3>3, <3>4, <3>5, SlobFreeIs
  <2> HIDE DEF s
  <2>4. SlobInv'
    <3>1. SlobUnits(s) \cap U = {} /\ SlobUnits(s) \cup U = PagesUnits(grown')
      BY <1>3, <1>10, <2>2, <2>3
    <3> QED BY <1>7, <2>1, <2>2, <2>3, <3>1 DEF SlobInv, U
  <2>5. Shared'
    <3>1. h.grown \cup Free(h.area) = grown \cup Free(area)
      BY <1>3, <1>10
    <3> QED BY <2>1, <2>2, <3>1 DEF Shared
  <2> QED BY <2>1, <2>4, <2>5
<1> QED BY <1>4, <1>8, <1>9, <1>10

\* Units in use go back to the ring.
LEMMA UnitsBack ==
  ASSUME SlobInv, NEW b \in Nat, NEW n \in Nat, n > 1, Row(b, n) \subseteq InUse(objects, bigblocks),
         NEW t, t = SlobFree(slob, b, n)
  PROVE  SlobOK(t) /\ SlobUnits(t) = SlobUnits(slob) \cup Row(b, n)
<1>1. /\ SlobOK(slob) /\ grown \subseteq Pages
      /\ SlobUnits(slob) \cap InUse(objects, bigblocks) = {}
      /\ SlobUnits(slob) \cup InUse(objects, bigblocks) = PagesUnits(grown)
  BY DEF SlobInv
<1>2. Arena \in SlobUnits(slob)
  <2>1. Arena \in FreeBlocks(slob) /\ slob.units[Arena] = 1
    BY <1>1 DEF SlobOK
  <2>2. Arena \in Row(Arena, 1)
    BY DEF Row, Arena
  <2> QED BY <2>1, <2>2 DEF SlobUnits
<1>3. \A u : u \in PagesUnits(grown) => u \in Nat /\ (u = Arena \/ (u > 1 /\ u < HeapTop))
  BY <1>1, PagesUnitsIs
<1>4. b \in Row(b, n) /\ b + n - 1 \in Row(b, n) /\ b + n - 1 \in Nat
  BY DEF Row
<1>5. b # Arena /\ b + n - 1 # Arena /\ b \in PagesUnits(grown) /\ b + n - 1 \in PagesUnits(grown)
  BY <1>1, <1>2, <1>4
<1>6. b > 1 /\ b + n - 1 < HeapTop
  BY <1>3, <1>5
<1>7. b + n <= HeapTop /\ n \in Nat \ {0}
  BY <1>6, HeapTopNat
<1>8. Row(b, n) \cap SlobUnits(slob) = {}
  BY <1>1
<1> QED BY <1>1, <1>6, <1>7, <1>8, SlobFreeIs

\* kfree, of an object or of a big block
LEMMA FreeKeeps ==
  ASSUME SlobInv, Shared, halt = "none", NEW block \in Blocks, Kfree(block), held' = held
  PROVE  SlobInv' /\ Shared' /\ halt' = halt
<1> DEFINE found == {i \in DOMAIN bigblocks : block % PageUnits = 0 /\ PageAddr(bigblocks[i].page) = block}
           m     == Min(found)
           bb    == bigblocks[m]
           c     == block - 1
<1>1. /\ SlobOK(slob) /\ grown \subseteq Pages /\ ObjOK(objects) /\ BigOK(bigblocks)
      /\ ObjUnits(objects) \cap RecUnits(bigblocks) = {}
      /\ SlobUnits(slob) \cap InUse(objects, bigblocks) = {}
      /\ SlobUnits(slob) \cup InUse(objects, bigblocks) = PagesUnits(grown)
  BY DEF SlobInv
<1>2. /\ AreaOK(area)
      /\ Free(area) \cap grown = {} /\ BigPages(bigblocks) \cap (Free(area) \cup grown) = {}
      /\ held \cap (Free(area) \cup grown \cup BigPages(bigblocks)) = {}
      /\ Free(area) \cup grown \cup BigPages(bigblocks) \cup held = Pages
  BY DEF Shared
<1>3. bigblocks \in Seq(BigTypes) /\ DOMAIN bigblocks \subseteq Nat
  BY <1>1 DEF BigOK
<1>4. IF found # {}
      THEN /\ area' = FreePages(area, bb.page, 2^bb.order)
           /\ slob' = SlobFree(slob, bb.at, BigUnits)
           /\ bigblocks' = RemoveAt(bigblocks, m)
           /\ UNCHANGED <<halt, objects, grown>>
      ELSE /\ slob' = SlobFree(slob, c, objects[c])
           /\ objects' = Restrict(objects, DOMAIN objects \ {c})
           /\ UNCHANGED <<area, halt, bigblocks, grown>>
  BY DEF Kfree
<1>5. CASE found # {}
  <2>1. m \in DOMAIN bigblocks
    <3>1. found \subseteq Nat /\ found \subseteq DOMAIN bigblocks
      BY <1>3
    <3> HIDE DEF found
    <3> QED BY <1>5, <3>1, MinOf
  <2>2. /\ area' = FreePages(area, bb.page, 2^bb.order)
        /\ slob' = SlobFree(slob, bb.at, BigUnits)
        /\ bigblocks' = RemoveAt(bigblocks, m)
        /\ halt' = halt /\ objects' = objects /\ grown' = grown
    BY <1>4, <1>5
  <2> HIDE DEF m, found
  <2>3. bb \in BigTypes
    BY <1>3, <2>1
  <2>4. /\ bb.at \in Nat /\ bb.page \in Nat /\ 2^bb.order \in Nat \ {0} /\ BigRow(bb) \subseteq Pages
        /\ BigRow(bb) = Row(bb.page, 2^bb.order)
    BY <2>3, BigFields DEF BigRow
  <2>5. /\ BigOK(bigblocks') /\ RecUnits(bigblocks') = RecUnits(bigblocks) \ Row(bb.at, BigUnits)
        /\ BigPages(bigblocks') = BigPages(bigblocks) \ BigRow(bb)
        /\ Row(bb.at, BigUnits) \subseteq RecUnits(bigblocks) /\ BigRow(bb) \subseteq BigPages(bigblocks)
    BY <1>1, <2>1, <2>2, BigWithout
  <2> HIDE DEF bb
  <2>6. AreaOK(area') /\ Free(area') = Free(area) \cup BigRow(bb)
    <3>1. Row(bb.page, 2^bb.order) \subseteq Pages /\ Row(bb.page, 2^bb.order) \cap Free(area) = {}
      BY <1>2, <2>4, <2>5
    <3>2. AreaOK(area') /\ Free(area') = Free(area) \cup Row(bb.page, 2^bb.order)
      BY <1>2, <2>2, <2>4, <3>1, FreeIs
    <3> QED BY <2>4, <3>2
  <2>7. SlobOK(slob') /\ SlobUnits(slob') = SlobUnits(slob) \cup Row(bb.at, BigUnits)
    <3>1. Row(bb.at, BigUnits) \subseteq InUse(objects, bigblocks)
      BY <2>5 DEF InUse
    <3>2. BigUnits \in Nat /\ BigUnits > 1
      BY DEF BigUnits
    <3> QED BY <2>2, <2>4, <3>1, <3>2, UnitsBack
  <2>8. SlobInv'
    <3>1. InUse(objects', bigblocks') = InUse(objects, bigblocks) \ Row(bb.at, BigUnits)
      BY <1>1, <2>2, <2>5 DEF InUse
    <3>2. ObjUnits(objects') \cap RecUnits(bigblocks') = {}
      BY <1>1, <2>2, <2>5
    <3>3. Row(bb.at, BigUnits) \subseteq InUse(objects, bigblocks)
      BY <2>5 DEF InUse
    <3> QED BY <1>1, <2>2, <2>5, <2>7, <3>1, <3>2, <3>3 DEF SlobInv
  <2>9. Shared'
    BY <1>2, <2>2, <2>5, <2>6 DEF Shared
  <2> QED BY <2>2, <2>8, <2>9
<1>6. CASE found = {}
  <2>1. /\ slob' = SlobFree(slob, c, objects[c])
        /\ objects' = Restrict(objects, DOMAIN objects \ {c})
        /\ area' = area /\ halt' = halt /\ bigblocks' = bigblocks /\ grown' = grown
    BY <1>4, <1>6
  <2>2. c \in DOMAIN objects
    <3>1. CASE \E b \in DOMAIN objects : block = b + 1
      <4>1. DOMAIN objects \subseteq Nat
        BY <1>1 DEF ObjOK
      <4> QED BY <3>1, <4>1
    <3>2. CASE \E e \in Range(bigblocks) : block = PageAddr(e.page)
      <4>1. PICK i \in DOMAIN bigblocks : block = PageAddr(bigblocks[i].page)
        BY <3>2 DEF Range
      <4>2. bigblocks[i].page \in Pages
        BY <1>3, <4>1, BigFields
      <4>3. block % PageUnits = 0
        BY <4>1, <4>2, PageAddrs
      <4> QED BY <1>6, <4>1, <4>3
    <3> QED BY <3>1, <3>2 DEF Blocks
  <2> HIDE DEF c, found
  <2>3. c \in Nat /\ objects[c] \in Nat /\ objects[c] > 1
    BY <1>1, <2>2 DEF ObjOK
  <2>4. /\ ObjOK(objects') /\ ObjUnits(objects') = ObjUnits(objects) \ Row(c, objects[c])
        /\ Row(c, objects[c]) \subseteq ObjUnits(objects)
    BY <1>1, <2>1, <2>2, ObjWithout
  <2>5. Row(c, objects[c]) \subseteq InUse(objects, bigblocks)
    BY <2>4 DEF InUse
  <2>6. SlobOK(slob') /\ SlobUnits(slob') = SlobUnits(slob) \cup Row(c, objects[c])
    BY <2>1, <2>3, <2>5, UnitsBack
  <2>7. InUse(objects', bigblocks') = InUse(objects, bigblocks) \ Row(c, objects[c])
    BY <1>1, <2>1, <2>4 DEF InUse
  <2>8. ObjUnits(objects') \cap RecUnits(bigblocks') = {}
    BY <1>1, <2>1, <2>4
  <2>9. SlobInv'
    BY <1>1, <2>1, <2>4, <2>5, <2>6, <2>7, <2>8 DEF SlobInv
  <2> QED BY <2>1, <2>9 DEF Shared
<1> QED BY <1>5, <1>6

\* Every operation of the heap keeps both.
LEMMA HeapKeeps ==
  ASSUME SlobInv, Shared, halt = "none", HeapNext, held' = held
  PROVE  SlobInv' /\ Shared' /\ halt' \in {"none", "no page"}
<1>1. CASE \E n \in Sizes : KmallocSmall(n)
  BY <1>1, SmallKeeps
<1>2. CASE \E o \in Orders : KmallocBig(o)
  BY <1>2, LargeKeeps
<1>3. CASE \E b \in Blocks : Kfree(b)
  BY <1>3, FreeKeeps
<1> QED BY <1>1, <1>2, <1>3 DEF HeapNext

\* The invariant says what SlobExact does.
LEMMA SlobInvExact == ASSUME SlobInv PROVE SlobExact
<1>1. /\ SlobOK(slob) /\ grown \subseteq Pages /\ ObjOK(objects) /\ BigOK(bigblocks)
      /\ ObjUnits(objects) \cap RecUnits(bigblocks) = {}
      /\ SlobUnits(slob) \cap InUse(objects, bigblocks) = {}
      /\ SlobUnits(slob) \cup InUse(objects, bigblocks) = PagesUnits(grown)
  BY DEF SlobInv
<1> DEFINE F  == FreeBlocks(slob)
           E1 == {<<"free", 0, b, slob.units[b]>> : b \in F}
           E2 == {<<"object", 0, b, objects[b]>> : b \in DOMAIN objects}
           E3 == {<<"record", i, bigblocks[i].at, BigUnits>> : i \in DOMAIN bigblocks}
           low == {b \in F : slob.next[b] <= b}
<1>2. \A b, n : Row(b, n) = b .. b + n - 1
  BY DEF Row
<1>3. \A e \in E1 : e[1] = "free" /\ e[3] \in F /\ e = <<"free", 0, e[3], slob.units[e[3]]>> /\ Units(e) = Row(e[3], slob.units[e[3]])
  BY <1>2 DEF Units
<1>4. \A e \in E2 : e[1] = "object" /\ e[3] \in DOMAIN objects /\ e = <<"object", 0, e[3], objects[e[3]]>> /\ Units(e) = Row(e[3], objects[e[3]])
  BY <1>2 DEF Units
<1>5. \A e \in E3 : /\ e[1] = "record" /\ e[2] \in DOMAIN bigblocks /\ e = <<"record", e[2], bigblocks[e[2]].at, BigUnits>>
                    /\ Units(e) = Row(bigblocks[e[2]].at, BigUnits)
  BY <1>2 DEF Units
<1>6. Extents = E1 \cup E2 \cup E3
  BY DEF Extents
<1>7. /\ \A b \in F : \E e \in E1 : Units(e) = Row(b, slob.units[b])
      /\ \A b \in DOMAIN objects : \E e \in E2 : Units(e) = Row(b, objects[b])
      /\ \A i \in DOMAIN bigblocks : \E e \in E3 : Units(e) = Row(bigblocks[i].at, BigUnits)
  <2>1. ASSUME NEW b \in F PROVE \E e \in E1 : Units(e) = Row(b, slob.units[b])
    <3>1. <<"free", 0, b, slob.units[b]>> \in E1
      OBVIOUS
    <3>2. Units(<<"free", 0, b, slob.units[b]>>) = Row(b, slob.units[b])
      BY <1>2 DEF Units
    <3> HIDE DEF E1
    <3> QED BY <3>1, <3>2
  <2>2. ASSUME NEW b \in DOMAIN objects PROVE \E e \in E2 : Units(e) = Row(b, objects[b])
    <3>1. <<"object", 0, b, objects[b]>> \in E2
      OBVIOUS
    <3>2. Units(<<"object", 0, b, objects[b]>>) = Row(b, objects[b])
      BY <1>2 DEF Units
    <3> HIDE DEF E2
    <3> QED BY <3>1, <3>2
  <2>3. ASSUME NEW i \in DOMAIN bigblocks PROVE \E e \in E3 : Units(e) = Row(bigblocks[i].at, BigUnits)
    <3>1. <<"record", i, bigblocks[i].at, BigUnits>> \in E3
      OBVIOUS
    <3>2. Units(<<"record", i, bigblocks[i].at, BigUnits>>) = Row(bigblocks[i].at, BigUnits)
      BY <1>2 DEF Units
    <3> HIDE DEF E3
    <3> QED BY <3>1, <3>2
  <2> QED BY <2>1, <2>2, <2>3
<1> HIDE DEF E1, E2, E3
<1>8. /\ UNION {Units(e) : e \in E1} = SlobUnits(slob)
      /\ UNION {Units(e) : e \in E2} = ObjUnits(objects)
      /\ UNION {Units(e) : e \in E3} = RecUnits(bigblocks)
  <2>1. UNION {Units(e) : e \in E1} = SlobUnits(slob)
    BY <1>3, <1>7 DEF SlobUnits
  <2>2. UNION {Units(e) : e \in E2} = ObjUnits(objects)
    BY <1>4, <1>7 DEF ObjUnits
  <2>3. UNION {Units(e) : e \in E3} = RecUnits(bigblocks)
    BY <1>5, <1>7 DEF RecUnits
  <2> QED BY <2>1, <2>2, <2>3
<1>9. UNION {Units(e) : e \in Extents} = HeapUnits
  <2>1. UNION {Units(e) : e \in Extents} = (UNION {Units(e) : e \in E1}) \cup (UNION {Units(e) : e \in E2}) \cup (UNION {Units(e) : e \in E3})
    BY <1>6
  <2>2. HeapUnits = PagesUnits(grown)
    BY DEF HeapUnits, PagesUnits, PageRow, Row
  <2> QED BY <1>1, <1>8, <2>1, <2>2 DEF InUse
<1>10. ASSUME NEW d \in Extents, NEW e \in Extents, d # e PROVE Units(d) \cap Units(e) = {}
  <2>1. \A x \in E1, y \in E2 \cup E3 : Units(x) \cap Units(y) = {}
    BY <1>1, <1>8 DEF InUse
  <2>2. \A x \in E2, y \in E3 : Units(x) \cap Units(y) = {}
    BY <1>1, <1>8
  <2>3. ASSUME d \in E1, e \in E1 PROVE Units(d) \cap Units(e) = {}
    <3>1. d[3] # e[3]
      BY <1>3, <1>10, <2>3
    <3>2. Apart(F, slob.units)
      BY <1>1, SlobParts
    <3>3. \A x, y \in F : x # y => Row(x, slob.units[x]) \cap Row(y, slob.units[y]) = {}
      BY <3>2 DEF Apart, Row
    <3> QED BY <1>3, <2>3, <3>1, <3>3
  <2>4. ASSUME d \in E2, e \in E2 PROVE Units(d) \cap Units(e) = {}
    <3>1. d[3] # e[3]
      BY <1>4, <1>10, <2>4
    <3> QED BY <1>1, <1>4, <2>4, <3>1 DEF ObjOK
  <2>5. ASSUME d \in E3, e \in E3 PROVE Units(d) \cap Units(e) = {}
    <3>1. d[2] # e[2]
      BY <1>5, <1>10, <2>5
    <3> QED BY <1>1, <1>5, <2>5, <3>1 DEF BigOK
  <2> QED BY <1>6, <2>1, <2>2, <2>3, <2>4, <2>5
<1>11. slob.at \in F
  BY <1>1 DEF SlobOK
<1>12. {Ring(slob)[i] : i \in 1 .. Cardinality(F)} = F
  BY <1>1, RingAll
<1>13. /\ F \subseteq Nat /\ Arena \in F /\ \A b \in F : slob.units[b] \in Nat \ {0}
       /\ \A b \in F : slob.next[b] \in F /\ (slob.next[b] > b \/ slob.next[b] = Arena)
       /\ \A x, y \in F : x < y => slob.next[x] > x /\ slob.next[x] <= y
       /\ \A x, y \in F : x < y => x + slob.units[x] < y
  BY <1>1 DEF SlobOK
<1>14. Cardinality(low) = 1
  <2>1. F \subseteq 0 .. HeapTop /\ HeapTop \in Nat /\ F # {}
    BY <1>1, <1>13, SlobBlocks, HeapTopNat
  <2>2. PICK m \in F : \A k \in F : k <= m
    BY <2>1, Greatest
  <2>3. m \in low
    <3>1. slob.next[m] \in F
      BY <1>13, <2>2
    <3> QED BY <2>2, <3>1
  <2>4. ASSUME NEW k \in low PROVE k = m
    <3>1. k \in F /\ slob.next[k] <= k /\ k <= m /\ k \in Nat /\ m \in Nat /\ slob.next[k] \in Nat
      BY <1>13, <2>2
    <3>2. ~(k < m)
      BY <1>13, <2>2, <3>1
    <3> QED BY <3>1, <3>2
  <2>5. low = {m}
    BY <2>3, <2>4
  <2> QED BY <2>5, FS_Singleton
<1>15. ASSUME NEW b \in F PROVE b + slob.units[b] # slob.next[b]
  <2>1. /\ b \in Nat /\ slob.next[b] \in F /\ slob.next[b] \in Nat /\ slob.units[b] \in Nat \ {0}
        /\ (slob.next[b] > b \/ slob.next[b] = 0)
    BY <1>13 DEF Arena
  <2>2. CASE slob.next[b] > b
    <3>1. b + slob.units[b] < slob.next[b]
      BY <1>13, <2>1, <2>2
    <3> QED BY <2>1, <3>1
  <2>3. CASE slob.next[b] = 0
    BY <2>1, <2>3
  <2> QED BY <2>1, <2>2, <2>3
<1> QED BY <1>9, <1>10, <1>11, <1>12, <1>14, <1>15 DEF SlobExact

\* default_init_memmap makes one block of the pages.
LEMMA FreeAreaIs ==
  ASSUME NEW b \in Nat, NEW n \in Nat \ {0}, b + n <= NPages
  PROVE  AreaOK(FreeArea(b, n)) /\ Free(FreeArea(b, n)) = Row(b, n)
<1> DEFINE e == Block(b, n)
           a == FreeArea(b, n)
           s == <<e>>
<1>1. DOMAIN a = {"list", "nr", "ok"} /\ a.list = s /\ a.nr = n /\ a.ok
  BY DEF FreeArea
<1>2. e \in PageBlocks /\ e.base = b /\ e.n = n
  BY DEF PageBlocks, Block
<1> HIDE DEF a, e
<1>3. s \in Seq(PageBlocks) /\ DOMAIN s = {1} /\ s[1] = e
  BY <1>2
<1> HIDE DEF s
<1>4. Cover(s) = Row(b, n)
  BY <1>2, <1>3 DEF Cover, Span, Row
<1>5. ListOK(s)
  BY <1>2, <1>3 DEF ListOK
<1>6. Cardinality(Row(b, n)) = n
  BY RowSize DEF Row
<1>7. AreaOK(a)
  BY <1>1, <1>4, <1>5, <1>6 DEF AreaOK
<1>8. Free(a) = Row(b, n)
  BY <1>1, <1>4 DEF Free
<1> QED BY <1>7, <1>8 DEF a

\* The heap begins with the arena alone.
LEMMA HeapStarts ==
  ASSUME HeapInit
  PROVE  SlobInv /\ SlobUnits(slob) = {Arena} /\ BigPages(bigblocks) = {} /\ grown = {}
<1>1. /\ slob = [units |-> [b \in {Arena} |-> 1], next |-> [b \in {Arena} |-> Arena], at |-> Arena]
      /\ bigblocks = <<>> /\ objects = <<>> /\ grown = {}
  BY DEF HeapInit
<1>2. FreeBlocks(slob) = {Arena} /\ slob.units[Arena] = 1 /\ slob.next[Arena] = Arena /\ slob.at = Arena
      /\ DOMAIN slob.next = {Arena}
  BY <1>1 DEF FreeBlocks
<1>3. HeapTop \in Nat /\ HeapTop > 1 /\ Arena = 0
  <2>1. PageUnits \in Nat /\ PageUnits > 2 /\ NPages \in Nat /\ NPages + 1 >= 1
    BY HeapTopNat
  <2>2. \A a \in Nat, b \in Nat : a > 2 /\ b >= 1 => a * b > 1
    <3> SUFFICES ASSUME NEW a \in Nat, NEW b \in Nat, a > 2, b >= 1 PROVE a * b > 1
      OBVIOUS
    <3>1. a * b = a + a * (b - 1)
      OBVIOUS
    <3>2. a * (b - 1) >= 0
      OBVIOUS
    <3> QED BY <3>1, <3>2
  <2> QED BY <2>1, <2>2, HeapTopNat DEF HeapTop, Arena
<1>4. SlobOK(slob)
  BY <1>2, <1>3 DEF SlobOK
<1>5. SlobUnits(slob) = {Arena}
  <2>1. SlobUnits(slob) = Row(Arena, 1)
    BY <1>2 DEF SlobUnits
  <2> QED BY <1>3, <2>1 DEF Row
<1>6. DOMAIN objects = {} /\ DOMAIN bigblocks = {} /\ bigblocks \in Seq(BigTypes)
  BY <1>1
<1>7. ObjOK(objects) /\ ObjUnits(objects) = {}
  BY <1>6 DEF ObjOK, ObjUnits
<1>8. BigOK(bigblocks) /\ RecUnits(bigblocks) = {} /\ BigPages(bigblocks) = {}
  BY <1>6 DEF BigOK, RecUnits, BigPages
<1>9. PagesUnits(grown) = {Arena}
  BY <1>1 DEF PagesUnits
<1> QED BY <1>1, <1>4, <1>5, <1>7, <1>8, <1>9 DEF SlobInv, InUse

-----------------------------------------------------------------------------
(* The places that pages have in address spaces: two in a kernel stack, a  *)
(* page directory, page tables, and the pages of the program.              *)
Slots == ({"stack"} \X Procs \X {0, 1}) \cup ({"pgdir"} \X Procs \X {0})
           \cup ({"table"} \X Procs \X Dirs) \cup ({"user"} \X Procs \X Addresses)

MmFields == {"pgdir", "areas", "pd", "pte"}
HasMm(k, q) == DOMAIN k.mm[q] = MmFields

\* The page at a place, or NoPage.
At(k, s) ==
  IF s[1] = "stack" THEN IF k.kstack[s[2]] = NoPage THEN NoPage ELSE k.kstack[s[2]] + s[3]
  ELSE IF s[1] = "pgdir" THEN k.mm[s[2]].pgdir
  ELSE IF ~HasMm(k, s[2]) THEN NoPage
  ELSE IF s[1] = "table" THEN k.mm[s[2]].pd[s[3]]
  ELSE IF k.mm[s[2]].pte[s[3]] \in Pages THEN k.mm[s[2]].pte[s[3]] ELSE NoPage
Map(k) == [s \in Slots |-> At(k, s)]

\* Page tables and pages of programs are counted.
CountsAt(s) == s[1] \in {"table", "user"}

\* Pages that are neither free nor in H are at one place each; R are the counts.
Exact(A, F, H, R) ==
  /\ F \subseteq Pages /\ H \subseteq Pages /\ F \cap H = {}
  /\ \A s \in Slots : A[s] = NoPage \/ A[s] \in Pages \ (F \cup H)
  /\ \A s, u \in Slots : A[s] = A[u] /\ A[s] # NoPage => s = u
  /\ \A p \in Pages \ (F \cup H) : \E s \in Slots : A[s] = p
  /\ DOMAIN R = Pages
  /\ \A p \in F \cup H : R[p] = 0
  /\ \A s \in Slots : A[s] # NoPage => R[A[s]] = IF CountsAt(s) THEN 1 ELSE 0

\* B is A with p at place s.
SetAt(A, B, s, p) == \A u \in Slots : B[u] = IF u = s THEN p ELSE A[u]

\* NULL is no page.
LEMMA NotPage == NoPage \notin Pages /\ Pages \subseteq Nat /\ NoPage \in Nat
  BY PagesAssumption DEF NoPage, Pages

\* A free page is taken, or one in hand given back.
LEMMA TakeExact ==
  ASSUME NEW A, NEW F, NEW H, NEW R, Exact(A, F, H, R), NEW p
  PROVE  /\ p \in F => Exact(A, F \ {p}, H \cup {p}, R)
         /\ p \in H => Exact(A, F \cup {p}, H \ {p}, R)
<1>1. ASSUME p \in F PROVE Exact(A, F \ {p}, H \cup {p}, R)
  <2>1. (F \ {p}) \cup (H \cup {p}) = F \cup H
    BY <1>1
  <2> QED BY <1>1, <2>1 DEF Exact
<1>2. ASSUME p \in H PROVE Exact(A, F \cup {p}, H \ {p}, R)
  <2>1. (F \cup {p}) \cup (H \ {p}) = F \cup H
    BY <1>2
  <2> QED BY <1>2, <2>1 DEF Exact
<1> QED BY <1>1, <1>2

\* A page in hand is put at an empty place.
LEMMA PutExact ==
  ASSUME NEW A, NEW F, NEW H, NEW R, Exact(A, F, H, R), NEW p \in H, NEW s \in Slots, A[s] = NoPage,
         NEW B, SetAt(A, B, s, p),
         NEW Q, DOMAIN Q = Pages, \A x \in Pages : Q[x] = IF x = p /\ CountsAt(s) THEN 1 ELSE R[x]
  PROVE  Exact(B, F, H \ {p}, Q)
<1>1. p # NoPage /\ p \in Pages /\ p \notin F
  BY NotPage DEF Exact
<1>2. \A u \in Slots : B[u] = NoPage \/ B[u] \in Pages \ (F \cup (H \ {p}))
  BY <1>1 DEF Exact, SetAt
<1>3. \A u \in Slots : A[u] # p
  BY <1>1 DEF Exact
<1>4. \A u, w \in Slots : B[u] = B[w] /\ B[u] # NoPage => u = w
  BY <1>3 DEF Exact, SetAt
<1>5. ASSUME NEW c \in Pages \ (F \cup (H \ {p})) PROVE \E u \in Slots : B[u] = c
  <2>1. CASE c = p
    BY <2>1 DEF SetAt
  <2>2. CASE c # p
    <3>1. PICK u \in Slots : A[u] = c
      BY <2>2 DEF Exact
    <3>2. u # s
      BY <3>1, NotPage
    <3> QED BY <3>1, <3>2 DEF SetAt
  <2> QED BY <2>1, <2>2
<1>6. \A x \in F \cup (H \ {p}) : Q[x] = 0
  BY <1>1 DEF Exact
<1>7. ASSUME NEW u \in Slots, B[u] # NoPage PROVE Q[B[u]] = IF CountsAt(u) THEN 1 ELSE 0
  <2>1. CASE u = s
    <3>1. B[u] = p /\ R[p] = 0
      BY <2>1 DEF SetAt, Exact
    <3> QED BY <1>1, <2>1, <3>1
  <2>2. CASE u # s
    <3>1. B[u] = A[u] /\ A[u] # p /\ A[u] \in Pages
      BY <1>3, <1>7, <2>2 DEF SetAt, Exact
    <3> QED BY <1>7, <3>1 DEF Exact
  <2> QED BY <2>1, <2>2
<1> QED BY <1>2, <1>4, <1>5, <1>6, <1>7 DEF Exact

\* A page is taken from its place.
LEMMA ClearExact ==
  ASSUME NEW A, NEW F, NEW H, NEW R, Exact(A, F, H, R), NEW s \in Slots, A[s] # NoPage,
         NEW B, SetAt(A, B, s, NoPage),
         NEW Q, DOMAIN Q = Pages, \A x \in Pages : Q[x] = IF x = A[s] THEN 0 ELSE R[x]
  PROVE  Exact(B, F, H \cup {A[s]}, Q)
<1> DEFINE p == A[s]
<1>1. p \in Pages \ (F \cup H) /\ p # NoPage
  BY DEF Exact
<1>2. \A u \in Slots \ {s} : A[u] # p
  BY <1>1 DEF Exact
<1> HIDE DEF p
<1>3. \A u \in Slots : B[u] = NoPage \/ B[u] \in Pages \ (F \cup (H \cup {p}))
  BY <1>2 DEF Exact, SetAt
<1>4. \A u, w \in Slots : B[u] = B[w] /\ B[u] # NoPage => u = w
  BY DEF Exact, SetAt
<1>5. ASSUME NEW c \in Pages \ (F \cup (H \cup {p})) PROVE \E u \in Slots : B[u] = c
  <2>1. PICK u \in Slots : A[u] = c
    BY DEF Exact
  <2>2. u # s
    BY <2>1 DEF p
  <2> QED BY <2>1, <2>2 DEF SetAt
<1>6. (F \cap (H \cup {p}) = {}) /\ H \cup {p} \subseteq Pages /\ F \subseteq Pages
  BY <1>1 DEF Exact
<1>7. \A x \in Pages : Q[x] = IF x = p THEN 0 ELSE R[x]
  BY DEF p
<1>8. \A x \in F \cup (H \cup {p}) : Q[x] = 0
  BY <1>6, <1>7 DEF Exact
<1>9. ASSUME NEW u \in Slots, B[u] # NoPage PROVE Q[B[u]] = IF CountsAt(u) THEN 1 ELSE 0
  <2>1. u # s /\ B[u] = A[u] /\ A[u] # p /\ A[u] \in Pages
    BY <1>2, <1>9 DEF SetAt, Exact
  <2> QED BY <1>7, <1>9, <2>1 DEF Exact
<1>10. Exact(B, F, H \cup {p}, Q)
  BY <1>3, <1>4, <1>5, <1>6, <1>8, <1>9 DEF Exact
<1> QED BY <1>10 DEF p

\* A page is taken from its place and freed.
LEMMA DropExact ==
  ASSUME NEW A, NEW F, NEW H, NEW R, Exact(A, F, H, R), NEW s \in Slots, A[s] # NoPage,
         NEW B, SetAt(A, B, s, NoPage),
         NEW Q, DOMAIN Q = Pages, \A x \in Pages : Q[x] = IF x = A[s] THEN 0 ELSE R[x]
  PROVE  Exact(B, F \cup {A[s]}, H, Q)
<1>1. A[s] \notin H
  BY DEF Exact
<1>2. Exact(B, F, H \cup {A[s]}, Q)
  BY ClearExact
<1> DEFINE p == A[s]
           G == H \cup {p}
<1>3. p \in G /\ G \ {p} = H /\ Exact(B, F, G, Q)
  BY <1>1, <1>2
<1> HIDE DEF p, G
<1>4. Exact(B, F \cup {p}, H, Q)
  <2>1. Exact(B, F \cup {p}, G \ {p}, Q)
    BY <1>3, TakeExact
  <2> QED BY <1>3, <2>1
<1> QED BY <1>4 DEF p

\* What is at the places of a process.
LEMMA SlotsOf ==
  ASSUME NEW k, NEW q \in Procs
  PROVE  /\ <<"stack", q, 0>> \in Slots /\ <<"stack", q, 1>> \in Slots /\ <<"pgdir", q, 0>> \in Slots
         /\ \A d \in Dirs : <<"table", q, d>> \in Slots
         /\ \A v \in Addresses : <<"user", q, v>> \in Slots
         /\ Map(k)[<<"stack", q, 0>>] = IF k.kstack[q] = NoPage THEN NoPage ELSE k.kstack[q] + 0
         /\ Map(k)[<<"stack", q, 1>>] = IF k.kstack[q] = NoPage THEN NoPage ELSE k.kstack[q] + 1
         /\ Map(k)[<<"pgdir", q, 0>>] = k.mm[q].pgdir
         /\ HasMm(k, q) => \A d \in Dirs : Map(k)[<<"table", q, d>>] = k.mm[q].pd[d]
         /\ HasMm(k, q) => \A v \in Addresses : Map(k)[<<"user", q, v>>] =
                              IF k.mm[q].pte[v] \in Pages THEN k.mm[q].pte[v] ELSE NoPage
         /\ ~HasMm(k, q) => /\ \A d \in Dirs : Map(k)[<<"table", q, d>>] = NoPage
                            /\ \A v \in Addresses : Map(k)[<<"user", q, v>>] = NoPage
<1>1. /\ <<"stack", q, 0>> \in Slots /\ <<"stack", q, 1>> \in Slots /\ <<"pgdir", q, 0>> \in Slots
      /\ \A d \in Dirs : <<"table", q, d>> \in Slots
      /\ \A v \in Addresses : <<"user", q, v>> \in Slots
  BY DEF Slots
<1>2. \A s \in Slots : Map(k)[s] = At(k, s)
  BY DEF Map
<1>3. /\ At(k, <<"stack", q, 0>>) = IF k.kstack[q] = NoPage THEN NoPage ELSE k.kstack[q] + 0
      /\ At(k, <<"stack", q, 1>>) = IF k.kstack[q] = NoPage THEN NoPage ELSE k.kstack[q] + 1
      /\ At(k, <<"pgdir", q, 0>>) = k.mm[q].pgdir
  BY DEF At
<1>4. \A d : At(k, <<"table", q, d>>) = IF ~HasMm(k, q) THEN NoPage ELSE k.mm[q].pd[d]
  BY DEF At
<1>5. \A v : At(k, <<"user", q, v>>) = IF ~HasMm(k, q) THEN NoPage
                                      ELSE IF k.mm[q].pte[v] \in Pages THEN k.mm[q].pte[v] ELSE NoPage
  BY DEF At
<1> QED BY <1>1, <1>2, <1>3, <1>4, <1>5

\* What is at the place of a page of a program.
LEMMA UserAt ==
  ASSUME NEW k, NEW q \in Procs, NEW v \in Addresses, HasMm(k, q), NEW s, s = <<"user", q, v>>
  PROVE  Map(k)[s] = IF k.mm[q].pte[v] \in Pages THEN k.mm[q].pte[v] ELSE NoPage
<1>1. s \in Slots
  BY DEF Slots
<1>2. Map(k)[s] = At(k, s)
  BY <1>1 DEF Map
<1>3. At(k, s) = IF k.mm[q].pte[v] \in Pages THEN k.mm[q].pte[v] ELSE NoPage
  BY DEF At
<1> QED BY <1>2, <1>3

\* Every place is one of them.
LEMMA SlotKinds ==
  ASSUME NEW s \in Slots
  PROVE  /\ s[2] \in Procs /\ s = <<s[1], s[2], s[3]>>
         /\ \/ s[1] = "stack" /\ s[3] \in {0, 1}
            \/ s[1] = "pgdir" /\ s[3] = 0
            \/ s[1] = "table" /\ s[3] \in Dirs
            \/ s[1] = "user" /\ s[3] \in Addresses
  BY DEF Slots

KFields == {"area", "halt", "state", "kstack", "mm", "ref", "data", "disk", "fifo", "pra", "got", "ret"}

AreaTypes == {a \in [start : Nat, end : Nat, write : BOOLEAN] : a.start < a.end /\ a.end <= Top}

\* What a copy is even after a panic.
MmFormed(m) ==
  \/ m = NoMm
  \/ /\ DOMAIN m = MmFields /\ DOMAIN m.pd = Dirs /\ DOMAIN m.pte = Addresses
     /\ m.areas \in Seq(AreaTypes)
Good(k) ==
  /\ DOMAIN k = KFields /\ k.halt # "assert"
  /\ DOMAIN k.mm = Procs /\ \A q \in Procs : MmFormed(k.mm[q])

\* Only the mm of q is another.
OnlyMm(k, t, q) == DOMAIN t.mm = Procs /\ \A r \in Procs \ {q} : t.mm[r] = k.mm[r]

\* Only the entry of v in the page tables of q is another.
PteSet(k, t, q, v, x) ==
  /\ OnlyMm(k, t, q) /\ DOMAIN t.mm[q] = MmFields
  /\ t.mm[q].pgdir = k.mm[q].pgdir /\ t.mm[q].areas = k.mm[q].areas /\ t.mm[q].pd = k.mm[q].pd
  /\ DOMAIN t.mm[q].pte = Addresses
  /\ \A w \in Addresses : t.mm[q].pte[w] = IF w = v THEN x ELSE k.mm[q].pte[w]

\* Only the page table of directory entry d is another.
PdSet(k, t, q, d, x) ==
  /\ OnlyMm(k, t, q) /\ DOMAIN t.mm[q] = MmFields
  /\ t.mm[q].pgdir = k.mm[q].pgdir /\ t.mm[q].areas = k.mm[q].areas /\ t.mm[q].pte = k.mm[q].pte
  /\ DOMAIN t.mm[q].pd = Dirs
  /\ \A e \in Dirs : t.mm[q].pd[e] = IF e = d THEN x ELSE k.mm[q].pd[e]

\* Only the areas are others.
AreasSet(k, t, q, s) ==
  /\ OnlyMm(k, t, q) /\ DOMAIN t.mm[q] = MmFields
  /\ t.mm[q].pgdir = k.mm[q].pgdir /\ t.mm[q].pd = k.mm[q].pd /\ t.mm[q].pte = k.mm[q].pte
  /\ t.mm[q].areas = s

\* A process has an mm with all fields, or none.
LEMMA MmKinds ==
  ASSUME NEW k, NEW q \in Procs, Good(k)
  PROVE  /\ HasMm(k, q) <=> k.mm[q] # NoMm
         /\ HasMm(k, q) => /\ DOMAIN k.mm[q].pd = Dirs /\ DOMAIN k.mm[q].pte = Addresses
                           /\ k.mm[q].areas \in Seq(AreaTypes)
         /\ ~HasMm(k, q) => k.mm[q] = NoMm
<1>1. MmFormed(k.mm[q])
  BY DEF Good
<1>2. DOMAIN NoMm = {"pgdir"} /\ MmFields # {"pgdir"}
  BY DEF NoMm, MmFields
<1> QED BY <1>1, <1>2 DEF MmFormed, HasMm

\* An assignment to an entry sets it, and no other.
LEMMA PteChange ==
  ASSUME NEW k, Good(k), NEW q \in Procs, HasMm(k, q), NEW v \in Addresses, NEW x,
         NEW t, t.mm = [k.mm EXCEPT ![q].pte[v] = x]
  PROVE  PteSet(k, t, q, v, x)
<1> DEFINE m == k.mm[q]
           n == [m EXCEPT !.pte[v] = x]
<1>1. DOMAIN k.mm = Procs /\ DOMAIN m = MmFields /\ DOMAIN m.pte = Addresses
  BY MmKinds DEF Good, HasMm
<1>2. t.mm = [k.mm EXCEPT ![q] = n]
  OBVIOUS
<1> HIDE DEF n
<1>3. t.mm[q] = n /\ DOMAIN t.mm = Procs /\ \A r \in Procs \ {q} : t.mm[r] = k.mm[r]
  BY <1>1, <1>2
<1> HIDE DEF m
<1>4. DOMAIN n = MmFields /\ n.pgdir = m.pgdir /\ n.areas = m.areas /\ n.pd = m.pd
      /\ n.pte = [m.pte EXCEPT ![v] = x]
  BY <1>1 DEF n, MmFields
<1>5. DOMAIN n.pte = Addresses /\ \A w \in Addresses : n.pte[w] = IF w = v THEN x ELSE m.pte[w]
  BY <1>1, <1>4
<1> QED BY <1>3, <1>4, <1>5 DEF m, PteSet, OnlyMm

\* So does one to an entry of the directory.
LEMMA PdChange ==
  ASSUME NEW k, Good(k), NEW q \in Procs, HasMm(k, q), NEW d \in Dirs, NEW x,
         NEW t, t.mm = [k.mm EXCEPT ![q].pd[d] = x]
  PROVE  PdSet(k, t, q, d, x)
<1> DEFINE m == k.mm[q]
           n == [m EXCEPT !.pd[d] = x]
<1>1. DOMAIN k.mm = Procs /\ DOMAIN m = MmFields /\ DOMAIN m.pd = Dirs
  BY MmKinds DEF Good, HasMm
<1>2. t.mm = [k.mm EXCEPT ![q] = n]
  OBVIOUS
<1> HIDE DEF n
<1>3. t.mm[q] = n /\ DOMAIN t.mm = Procs /\ \A r \in Procs \ {q} : t.mm[r] = k.mm[r]
  BY <1>1, <1>2
<1> HIDE DEF m
<1>4. DOMAIN n = MmFields /\ n.pgdir = m.pgdir /\ n.areas = m.areas /\ n.pte = m.pte
      /\ n.pd = [m.pd EXCEPT ![d] = x]
  BY <1>1 DEF n, MmFields
<1>5. DOMAIN n.pd = Dirs /\ \A e \in Dirs : n.pd[e] = IF e = d THEN x ELSE m.pd[e]
  BY <1>1, <1>4
<1> QED BY <1>3, <1>4, <1>5 DEF m, PdSet, OnlyMm

\* The copy is formed still.
LEMMA OnlyMmGood ==
  ASSUME NEW k, Good(k), NEW t, DOMAIN t = KFields, t.halt # "assert", NEW q \in Procs,
         OnlyMm(k, t, q), MmFormed(t.mm[q])
  PROVE  Good(t)
  BY DEF Good, OnlyMm

\* An entry of a page table may be anything.
LEMMA PteGood ==
  ASSUME NEW k, Good(k), NEW t, DOMAIN t = KFields, t.halt # "assert", NEW q \in Procs,
         HasMm(k, q), NEW v, NEW x, PteSet(k, t, q, v, x)
  PROVE  Good(t) /\ HasMm(t, q)
<1>1. MmFormed(t.mm[q])
  BY MmKinds DEF PteSet, MmFormed, HasMm
<1> QED BY <1>1, OnlyMmGood DEF PteSet, HasMm

\* So may one of the directory.
LEMMA PdGood ==
  ASSUME NEW k, Good(k), NEW t, DOMAIN t = KFields, t.halt # "assert", NEW q \in Procs,
         HasMm(k, q), NEW d, NEW x, PdSet(k, t, q, d, x)
  PROVE  Good(t) /\ HasMm(t, q)
<1>1. MmFormed(t.mm[q])
  BY MmKinds DEF PdSet, MmFormed, HasMm
<1> QED BY <1>1, OnlyMmGood DEF PdSet, HasMm

\* Places of others are as they were.
LEMMA OthersAt ==
  ASSUME NEW k, NEW t, t.kstack = k.kstack, NEW q \in Procs, OnlyMm(k, t, q),
         NEW s \in Slots, s[2] # q \/ s[1] = "stack"
  PROVE  At(t, s) = At(k, s)
<1>1. s[2] \in Procs
  BY SlotKinds
<1>2. CASE s[1] = "stack"
  BY <1>2 DEF At
<1>3. CASE s[2] # q
  <2>1. t.mm[s[2]] = k.mm[s[2]]
    BY <1>1, <1>3 DEF OnlyMm
  <2> QED BY <2>1 DEF At, HasMm
<1> QED BY <1>2, <1>3

\* What a change of an entry does to the places.
LEMMA PteMap ==
  ASSUME NEW k, NEW t, t.kstack = k.kstack, NEW q \in Procs, HasMm(k, q), NEW v \in Addresses, NEW x,
         PteSet(k, t, q, v, x)
  PROVE  SetAt(Map(k), Map(t), <<"user", q, v>>, IF x \in Pages THEN x ELSE NoPage)
<1> SUFFICES ASSUME NEW s \in Slots
             PROVE  At(t, s) = IF s = <<"user", q, v>> THEN (IF x \in Pages THEN x ELSE NoPage) ELSE At(k, s)
  BY DEF SetAt, Map
<1>1. s[2] \in Procs /\ s = <<s[1], s[2], s[3]>>
  BY SlotKinds
<1>2. CASE s[2] # q \/ s[1] = "stack"
  <2>1. s # <<"user", q, v>>
    BY <1>2
  <2> QED BY <1>2, <2>1, OthersAt DEF PteSet
<1>3. CASE s[2] = q /\ s[1] = "pgdir"
  BY <1>3 DEF At, PteSet
<1>4. CASE s[2] = q /\ s[1] = "table"
  BY <1>4 DEF At, PteSet, HasMm
<1>5. CASE s[2] = q /\ s[1] = "user"
  <2>1. s[3] \in Addresses
    BY <1>5, SlotKinds
  <2>2. t.mm[q].pte[s[3]] = IF s[3] = v THEN x ELSE k.mm[q].pte[s[3]]
    BY <2>1 DEF PteSet
  <2>3. HasMm(t, q)
    BY DEF PteSet, HasMm
  <2>4. s = <<"user", q, v>> <=> s[3] = v
    BY <1>1, <1>5
  <2> QED BY <1>5, <2>2, <2>3, <2>4 DEF At
<1> QED BY <1>1, <1>2, <1>3, <1>4, <1>5, SlotKinds

\* And one of the directory.
LEMMA PdMap ==
  ASSUME NEW k, NEW t, t.kstack = k.kstack, NEW q \in Procs, HasMm(k, q), NEW d \in Dirs, NEW x,
         PdSet(k, t, q, d, x)
  PROVE  SetAt(Map(k), Map(t), <<"table", q, d>>, x)
<1> SUFFICES ASSUME NEW s \in Slots
             PROVE  At(t, s) = IF s = <<"table", q, d>> THEN x ELSE At(k, s)
  BY DEF SetAt, Map
<1>1. s[2] \in Procs /\ s = <<s[1], s[2], s[3]>>
  BY SlotKinds
<1>2. CASE s[2] # q \/ s[1] = "stack"
  <2>1. s # <<"table", q, d>>
    BY <1>2
  <2> QED BY <1>2, <2>1, OthersAt DEF PdSet
<1>3. CASE s[2] = q /\ s[1] = "pgdir"
  BY <1>3 DEF At, PdSet
<1>4. CASE s[2] = q /\ s[1] = "user"
  BY <1>4 DEF At, PdSet, HasMm
<1>5. CASE s[2] = q /\ s[1] = "table"
  <2>1. s[3] \in Dirs
    BY <1>5, SlotKinds
  <2>2. t.mm[q].pd[s[3]] = IF s[3] = d THEN x ELSE k.mm[q].pd[s[3]]
    BY <2>1 DEF PdSet
  <2>3. HasMm(t, q)
    BY DEF PdSet, HasMm
  <2>4. s = <<"table", q, d>> <=> s[3] = d
    BY <1>1, <1>5
  <2> QED BY <1>5, <2>2, <2>3, <2>4 DEF At
<1> QED BY <1>1, <1>2, <1>3, <1>4, <1>5, SlotKinds

\* Areas have no pages of their own.
LEMMA AreasMap ==
  ASSUME NEW k, NEW t, t.kstack = k.kstack, NEW q \in Procs, HasMm(k, q), NEW y,
         AreasSet(k, t, q, y)
  PROVE  Map(t) = Map(k)
<1> SUFFICES ASSUME NEW s \in Slots PROVE At(t, s) = At(k, s)
  BY DEF Map
<1>1. s[2] \in Procs
  BY SlotKinds
<1>2. CASE s[2] # q \/ s[1] = "stack"
  BY <1>2, OthersAt DEF AreasSet
<1>3. CASE s[2] = q /\ s[1] # "stack"
  BY <1>3 DEF At, AreasSet, HasMm
<1> QED BY <1>1, <1>2, <1>3

\* The mm is new, with page p as its directory, or it goes, with no other page.
LEMMA NewMap ==
  ASSUME NEW k, Good(k), NEW t, t.kstack = k.kstack, NEW q \in Procs, k.mm[q] = NoMm, NEW p,
         OnlyMm(k, t, q), t.mm[q] = EmptyMm(p)
  PROVE  SetAt(Map(k), Map(t), <<"pgdir", q, 0>>, p)
<1> SUFFICES ASSUME NEW s \in Slots
             PROVE  At(t, s) = IF s = <<"pgdir", q, 0>> THEN p ELSE At(k, s)
  BY DEF SetAt, Map
<1>1. s[2] \in Procs /\ s = <<s[1], s[2], s[3]>>
  BY SlotKinds
<1>2. /\ t.mm[q].pgdir = p /\ DOMAIN t.mm[q] = MmFields
      /\ t.mm[q].pd = [d \in Dirs |-> NoPage] /\ t.mm[q].pte = [v \in Addresses |-> Zero]
  BY DEF EmptyMm, MmFields
<1>3. ~HasMm(k, q)
  BY MmKinds
<1>4. CASE s[2] # q \/ s[1] = "stack"
  <2>1. s # <<"pgdir", q, 0>>
    BY <1>4
  <2> QED BY <1>4, <2>1, OthersAt
<1>5. CASE s[2] = q /\ s[1] = "pgdir"
  <2>1. s[3] = 0
    BY <1>5, SlotKinds
  <2> QED BY <1>1, <1>2, <1>5, <2>1 DEF At
<1>6. CASE s[2] = q /\ s[1] = "table"
  <2>1. s[3] \in Dirs
    BY <1>6, SlotKinds
  <2>2. At(t, s) = NoPage /\ At(k, s) = NoPage
    BY <1>2, <1>3, <1>6, <2>1 DEF At, HasMm
  <2> QED BY <1>6, <2>2
<1>7. CASE s[2] = q /\ s[1] = "user"
  <2>1. s[3] \in Addresses
    BY <1>7, SlotKinds
  <2>2. Zero \notin Pages
    BY PagesAssumption DEF Zero, Pages
  <2>3. At(t, s) = NoPage /\ At(k, s) = NoPage
    BY <1>2, <1>3, <1>7, <2>1, <2>2 DEF At, HasMm
  <2> QED BY <1>7, <2>3
<1> QED BY <1>1, <1>4, <1>5, <1>6, <1>7, SlotKinds

\* Its pages are gone already.
LEMMA GoneMap ==
  ASSUME NEW k, NEW t, t.kstack = k.kstack, NEW q \in Procs, HasMm(k, q),
         \A d \in Dirs : k.mm[q].pd[d] = NoPage, \A v \in Addresses : k.mm[q].pte[v] \notin Pages,
         OnlyMm(k, t, q), t.mm[q] = NoMm
  PROVE  SetAt(Map(k), Map(t), <<"pgdir", q, 0>>, NoPage)
<1> SUFFICES ASSUME NEW s \in Slots
             PROVE  At(t, s) = IF s = <<"pgdir", q, 0>> THEN NoPage ELSE At(k, s)
  BY DEF SetAt, Map
<1>1. s[2] \in Procs /\ s = <<s[1], s[2], s[3]>>
  BY SlotKinds
<1>2. t.mm[q].pgdir = NoPage /\ ~HasMm(t, q)
  BY DEF NoMm, MmFields, HasMm
<1>4. CASE s[2] # q \/ s[1] = "stack"
  <2>1. s # <<"pgdir", q, 0>>
    BY <1>4
  <2> QED BY <1>4, <2>1, OthersAt
<1>5. CASE s[2] = q /\ s[1] = "pgdir"
  <2>1. s[3] = 0
    BY <1>5, SlotKinds
  <2> QED BY <1>1, <1>2, <1>5, <2>1 DEF At
<1>6. CASE s[2] = q /\ s[1] = "table"
  <2>1. s[3] \in Dirs
    BY <1>6, SlotKinds
  <2>2. At(t, s) = NoPage /\ At(k, s) = NoPage
    BY <1>2, <1>6, <2>1 DEF At
  <2> QED BY <1>6, <2>2
<1>7. CASE s[2] = q /\ s[1] = "user"
  <2>1. s[3] \in Addresses
    BY <1>7, SlotKinds
  <2>3. At(t, s) = NoPage /\ At(k, s) = NoPage
    BY <1>2, <1>7, <2>1 DEF At
  <2> QED BY <1>7, <2>3
<1> QED BY <1>1, <1>4, <1>5, <1>6, <1>7, SlotKinds

\* Address v lies in one of the areas.
InArea(s, v) == \E i \in DOMAIN s : s[i].start <= v /\ v < s[i].end

AreasApart(s) == \A i, j \in DOMAIN s : i < j => s[i].end <= s[j].start

\* Areas are in order and apart, pages in areas and below a page table, page
\* tables below areas.
MmSound(m) ==
  /\ m.pgdir # NoPage /\ AreasApart(m.areas)
  /\ \A v \in Addresses : m.pte[v] \in Pages \cup {Zero, SwapEntry}
  /\ \A v \in Addresses : m.pte[v] # Zero => InArea(m.areas, v) /\ m.pd[Dir(v)] # NoPage
  /\ \A d \in Dirs : m.pd[d] # NoPage => \E v \in Addresses : Dir(v) = d /\ InArea(m.areas, v)

\* All pages are free, in H, or at one place.
Sound(k, H) ==
  /\ DOMAIN k.data = Pages /\ AreaOK(k.area)
  /\ Exact(Map(k), Free(k.area), H, k.ref)
  /\ \A q \in Procs : HasMm(k, q) => MmSound(k.mm[q])

\* Only memory may be another.
Same(k, t) ==
  /\ t.state = k.state /\ t.kstack = k.kstack /\ t.disk = k.disk /\ t.fifo = k.fifo /\ t.pra = k.pra
  /\ t.ret = k.ret

\* So are the other processes' mm, and the areas of q.
Beside(k, t, q) ==
  /\ Same(k, t) /\ OnlyMm(k, t, q) /\ HasMm(t, q)
  /\ t.mm[q].areas = k.mm[q].areas /\ t.mm[q].pgdir = k.mm[q].pgdir

\* What address w holds for process r.
CellIn(k, r, w) ==
  IF ~HasMm(k, r) THEN {}
  ELSE IF k.mm[r].pte[w] \in Pages THEN {k.data[k.mm[r].pte[w]]}
  ELSE IF k.mm[r].pte[w] = SwapEntry THEN {k.disk[w]} ELSE {}

\* No address but v of q holds another value.
CellsBut(k, t, q, v) ==
  \A r \in Procs, w \in Addresses : r # q \/ w # v => CellIn(t, r, w) = CellIn(k, r, w)
CellsSame(k, t) == \A r \in Procs, w \in Addresses : CellIn(t, r, w) = CellIn(k, r, w)

\* What an entry may be is told apart.
LEMMA EntriesApart ==
  /\ Zero \notin Pages /\ SwapEntry \notin Pages /\ Zero # SwapEntry /\ Zero = NoPage
  BY PagesAssumption DEF Zero, SwapEntry, Pages, NoPage

\* Every address has an entry of the directory.
LEMMA DirOf == ASSUME NEW v \in Addresses PROVE Dir(v) \in Dirs
  BY DEF Dirs

\* Two steps beside the others are one.
LEMMA BesideTwice ==
  ASSUME NEW k, NEW s, NEW t, NEW q, Beside(k, s, q), Beside(s, t, q)
  PROVE  Beside(k, t, q)
  BY DEF Beside, Same, OnlyMm

\* Nothing is beside the others too.
LEMMA BesideSelf ==
  ASSUME NEW k, Good(k), NEW q, HasMm(k, q)
  PROVE  Beside(k, k, q)
  BY DEF Beside, Same, OnlyMm, Good

\* A change of an entry is beside the others.
LEMMA PteBeside ==
  ASSUME NEW k, NEW t, Same(k, t), NEW q, NEW v, NEW x, PteSet(k, t, q, v, x)
  PROVE  Beside(k, t, q)
  BY DEF Beside, PteSet, HasMm

\* So is one of the directory.
LEMMA PdBeside ==
  ASSUME NEW k, NEW t, Same(k, t), NEW q, NEW d, NEW x, PdSet(k, t, q, d, x)
  PROVE  Beside(k, t, q)
  BY DEF Beside, PdSet, HasMm

\* Places depend on stacks and mm alone.
LEMMA MapSame ==
  ASSUME NEW k, NEW t, t.kstack = k.kstack, t.mm = k.mm
  PROVE  Map(t) = Map(k)
<1> SUFFICES ASSUME NEW s \in Slots PROVE At(t, s) = At(k, s)
  BY DEF Map
<1> QED BY DEF At, HasMm

\* The page of an address is at its place alone.
LEMMA PageAt ==
  ASSUME NEW k, NEW F, NEW H, NEW R, Exact(Map(k), F, H, R), NEW q \in Procs, HasMm(k, q),
         NEW v \in Addresses, k.mm[q].pte[v] \in Pages
  PROVE  /\ k.mm[q].pte[v] \notin F \cup H /\ R[k.mm[q].pte[v]] = 1
         /\ \A r \in Procs, w \in Addresses :
              HasMm(k, r) /\ k.mm[r].pte[w] = k.mm[q].pte[v] => r = q /\ w = v
<1> DEFINE s == <<"user", q, v>>
           p == k.mm[q].pte[v]
<1>1. s \in Slots /\ Map(k)[s] = p /\ p # NoPage
  BY SlotsOf, NotPage
<1>2. p \notin F \cup H /\ R[p] = 1
  BY <1>1 DEF Exact, CountsAt
<1>3. ASSUME NEW r \in Procs, NEW w \in Addresses, HasMm(k, r), k.mm[r].pte[w] = p
      PROVE  r = q /\ w = v
  <2>1. <<"user", r, w>> \in Slots /\ Map(k)[<<"user", r, w>>] = p
    BY <1>3, SlotsOf, ZenonT(60)
  <2>2. <<"user", r, w>> = s
    BY <1>1, <2>1 DEF Exact
  <2> QED BY <2>2
<1> QED BY <1>2, <1>3

\* Without swapping, alloc_page takes a free page or panics.
LEMMA TakeIs ==
  ASSUME NEW k, NEW H, Good(k), k.halt = "none" => Sound(k, H),
         Checked = {} \/ AllocPages(k.area, 1).page # NoPage, NEW t, t = TakePage(k)
  PROVE  /\ Good(t) /\ t.mm = k.mm /\ Same(k, t) /\ t.ref = k.ref /\ t.data = k.data
         /\ t.halt = "none" => /\ k.halt = "none" /\ t.got \in Pages \ H /\ t.got \in Free(k.area)
                               /\ Sound(t, H \cup {t.got})
<1> DEFINE a == AllocPages(k.area, 1)
<1>1. t = IF a.page = NoPage THEN PanicIf(k, TRUE, "no page") ELSE [k EXCEPT !.area = a.area, !.got = a.page]
  BY DEF TakePage
<1> HIDE DEF a
<1>2. DOMAIN k = KFields /\ k.halt # "assert"
  BY DEF Good
<1>3. CASE a.page = NoPage
  <2>1. t = PanicIf(k, TRUE, "no page")
    BY <1>1, <1>3
  <2>2. /\ DOMAIN t = KFields /\ t.halt # "none" /\ t.halt # "assert" /\ t.mm = k.mm /\ Same(k, t)
        /\ t.ref = k.ref /\ t.data = k.data
    BY <1>2, <2>1 DEF PanicIf, KFields, Same
  <2> QED BY <2>2 DEF Good
<1>4. CASE a.page # NoPage
  <2>1. t = [k EXCEPT !.area = a.area, !.got = a.page]
    BY <1>1, <1>4
  <2>2. /\ DOMAIN t = KFields /\ t.halt = k.halt /\ t.mm = k.mm /\ Same(k, t)
        /\ t.ref = k.ref /\ t.data = k.data /\ t.area = a.area /\ t.got = a.page
    BY <1>2, <2>1 DEF KFields, Same
  <2>3. ASSUME k.halt = "none"
        PROVE  t.got \in Pages \ H /\ t.got \in Free(k.area) /\ Sound(t, H \cup {t.got})
    <3>1. Sound(k, H) /\ AreaOK(k.area)
      BY <2>3 DEF Sound
    <3>2. /\ a.page \in Pages /\ Row(a.page, 1) \subseteq Free(k.area)
          /\ AreaOK(a.area) /\ Free(a.area) = Free(k.area) \ Row(a.page, 1)
      BY <1>4, <3>1, AllocIs DEF a
    <3>3. Row(a.page, 1) = {a.page}
      BY <3>2 DEF Row, Pages
    <3>4. t.got \in Free(k.area) /\ t.got \in Pages /\ Free(t.area) = Free(k.area) \ {t.got} /\ AreaOK(t.area)
      BY <2>2, <3>2, <3>3
    <3>5. Exact(Map(k), Free(k.area), H, k.ref)
      BY <3>1 DEF Sound
    <3>6. Exact(Map(k), Free(t.area), H \cup {t.got}, k.ref) /\ t.got \notin H
      <4>1. t.got \notin H
        BY <3>4, <3>5 DEF Exact
      <4> QED BY <3>4, <3>5, <4>1, TakeExact
    <3>7. Map(t) = Map(k)
      BY <2>2, MapSame DEF Same
    <3>8. DOMAIN t.data = Pages /\ \A q \in Procs : HasMm(t, q) => MmSound(t.mm[q])
      BY <2>2, <3>1 DEF Sound, HasMm
    <3> QED BY <2>2, <3>4, <3>6, <3>7, <3>8 DEF Sound
  <2> QED BY <1>2, <2>2, <2>3 DEF Good
<1> QED BY <1>3, <1>4

\* One page is given back to the area.
LEMMA FreeOne ==
  ASSUME NEW a, AreaOK(a), NEW p \in Pages, p \notin Free(a)
  PROVE  AreaOK(FreePages(a, p, 1)) /\ Free(FreePages(a, p, 1)) = Free(a) \cup {p}
<1>1. Row(p, 1) = {p} /\ p \in Nat
  BY DEF Row, Pages
<1>2. Row(p, 1) \subseteq Pages /\ Row(p, 1) \cap Free(a) = {}
  BY <1>1
<1>3. AreaOK(FreePages(a, p, 1)) /\ Free(FreePages(a, p, 1)) = Free(a) \cup Row(p, 1)
  BY <1>1, <1>2, FreeIs
<1> QED BY <1>1, <1>3

\* What others hold is in pages of their own.
LEMMA CellsPte ==
  ASSUME NEW k, NEW t, NEW F, NEW H, NEW R, Exact(Map(k), F, H, R), Same(k, t),
         NEW q \in Procs, HasMm(k, q), NEW v \in Addresses, NEW x, PteSet(k, t, q, v, x),
         \A p \in Pages : p \notin H /\ p # k.mm[q].pte[v] => t.data[p] = k.data[p]
  PROVE  CellsBut(k, t, q, v)
<1> SUFFICES ASSUME NEW r \in Procs, NEW w \in Addresses, r # q \/ w # v
             PROVE  CellIn(t, r, w) = CellIn(k, r, w)
  BY DEF CellsBut
<1>1. HasMm(t, r) <=> HasMm(k, r)
  BY DEF PteSet, OnlyMm, HasMm
<1>2. HasMm(k, r) => t.mm[r].pte[w] = k.mm[r].pte[w]
  BY DEF PteSet, OnlyMm
<1>3. HasMm(k, r) /\ k.mm[r].pte[w] \in Pages => t.data[k.mm[r].pte[w]] = k.data[k.mm[r].pte[w]]
  <2> SUFFICES ASSUME HasMm(k, r), k.mm[r].pte[w] \in Pages
               PROVE  t.data[k.mm[r].pte[w]] = k.data[k.mm[r].pte[w]]
    OBVIOUS
  <2>1. k.mm[r].pte[w] \notin H
    BY PageAt
  <2>2. k.mm[r].pte[w] # k.mm[q].pte[v]
    BY PageAt
  <2> QED BY <2>1, <2>2
<1> QED BY <1>1, <1>2, <1>3 DEF CellIn, Same

\* What is in the cells depends on the entries and on what their pages hold.
LEMMA CellsKept ==
  ASSUME NEW k, NEW t, NEW F, NEW H, NEW R, Exact(Map(k), F, H, R), t.disk = k.disk,
         \A q \in Procs : HasMm(k, q) <=> HasMm(t, q),
         \A q \in Procs : HasMm(k, q) => t.mm[q].pte = k.mm[q].pte,
         \A s \in Slots : s[1] = "user" /\ Map(k)[s] \in Pages => t.data[Map(k)[s]] = k.data[Map(k)[s]]
  PROVE  CellsSame(k, t)
<1> SUFFICES ASSUME NEW r \in Procs, NEW w \in Addresses
             PROVE  CellIn(t, r, w) = CellIn(k, r, w)
  BY DEF CellsSame
<1>1. HasMm(k, r) /\ k.mm[r].pte[w] \in Pages => t.data[k.mm[r].pte[w]] = k.data[k.mm[r].pte[w]]
  <2> DEFINE s == <<"user", r, w>>
  <2>1. s \in Slots /\ s[1] = "user"
    BY SlotsOf
  <2>2. HasMm(k, r) /\ k.mm[r].pte[w] \in Pages => Map(k)[s] = k.mm[r].pte[w]
    BY SlotsOf
  <2> HIDE DEF s
  <2> QED BY <2>1, <2>2
<1> QED BY <1>1 DEF CellIn

\* page_remove_pte
LEMMA RemovePteIs ==
  ASSUME NEW k, NEW H, Good(k), k.halt = "none" => Sound(k, H),
         NEW q \in Procs, HasMm(k, q), NEW v \in Addresses, NEW t, t = RemovePte(k, q, v)
  PROVE  /\ Good(t) /\ Beside(k, t, q) /\ t.halt = k.halt
         /\ k.halt = "none" =>
              /\ Sound(t, H) /\ CellsBut(k, t, q, v) /\ t.mm[q].pd = k.mm[q].pd
              /\ \A w \in Addresses : t.mm[q].pte[w] =
                   IF w = v /\ k.mm[q].pte[v] \in Pages THEN Zero ELSE k.mm[q].pte[w]
<1> DEFINE p == k.mm[q].pte[v]
           r == [k EXCEPT !.ref[p] = @ - 1, !.mm[q].pte[v] = Zero]
           f == FreePage(r, p)
<1>1. t = CASE p \notin Pages -> k [] p \in Pages /\ r.ref[p] = 0 -> f [] OTHER -> r
  BY DEF RemovePte
<1>2. DOMAIN k = KFields /\ k.halt # "assert"
  BY DEF Good
<1> HIDE DEF p
<1>3. /\ DOMAIN r = KFields /\ r.halt = k.halt /\ Same(k, r) /\ r.area = k.area /\ r.data = k.data
      /\ r.ref = [k.ref EXCEPT ![p] = @ - 1] /\ r.mm = [k.mm EXCEPT ![q].pte[v] = Zero]
  BY <1>2 DEF KFields, Same
<1> HIDE DEF r
<1>4. /\ DOMAIN f = KFields /\ f.halt = k.halt /\ Same(k, f) /\ f.area = FreePages(k.area, p, 1)
      /\ f.data = [k.data EXCEPT ![p] = Old] /\ f.ref = [r.ref EXCEPT ![p] = 0] /\ f.mm = r.mm
  BY <1>3 DEF FreePage, KFields, Same
<1> HIDE DEF f
<1>5. PteSet(k, r, q, v, Zero) /\ PteSet(k, f, q, v, Zero)
  BY <1>3, <1>4, PteChange
<1>6. Good(r) /\ Good(f)
  BY <1>2, <1>3, <1>4, <1>5, PteGood
<1>7. Good(t) /\ t.halt = k.halt /\ Beside(k, t, q)
  <2>1. t \in {k, f, r}
    BY <1>1
  <2>2. Beside(k, k, q) /\ Beside(k, r, q) /\ Beside(k, f, q)
    BY <1>3, <1>4, <1>5, BesideSelf, PteBeside
  <2> QED BY <1>3, <1>4, <1>6, <2>1, <2>2
<1>8. ASSUME k.halt = "none", p \notin Pages
      PROVE  /\ Sound(t, H) /\ CellsBut(k, t, q, v) /\ t.mm[q].pd = k.mm[q].pd
             /\ \A w \in Addresses : t.mm[q].pte[w] =
                  IF w = v /\ k.mm[q].pte[v] \in Pages THEN Zero ELSE k.mm[q].pte[w]
  <2>1. t = k
    BY <1>1, <1>8
  <2>2. Sound(t, H)
    BY <1>8, <2>1
  <2> QED BY <1>8, <2>1, <2>2 DEF p, CellsBut
<1>9. ASSUME k.halt = "none", p \in Pages
      PROVE  /\ Sound(t, H) /\ CellsBut(k, t, q, v) /\ t.mm[q].pd = k.mm[q].pd
             /\ \A w \in Addresses : t.mm[q].pte[w] =
                  IF w = v /\ k.mm[q].pte[v] \in Pages THEN Zero ELSE k.mm[q].pte[w]
  <2>1. Sound(k, H)
    BY <1>9
  <2>2. /\ DOMAIN k.data = Pages /\ AreaOK(k.area) /\ Exact(Map(k), Free(k.area), H, k.ref)
        /\ \A x \in Procs : HasMm(k, x) => MmSound(k.mm[x])
    BY <2>1 DEF Sound
  <2>3. p \notin Free(k.area) /\ p \notin H /\ k.ref[p] = 1 /\ DOMAIN k.ref = Pages
    <3>1. p \notin Free(k.area) \cup H /\ k.ref[p] = 1
      BY <1>9, <2>2, PageAt DEF p
    <3> QED BY <2>2, <3>1 DEF Exact
  <2>4. t = f
    <3>1. r.ref[p] = 0
      BY <1>3, <1>9, <2>3
    <3> QED BY <1>1, <1>9, <3>1
  <2>5. AreaOK(f.area) /\ Free(f.area) = Free(k.area) \cup {p}
    BY <1>4, <1>9, <2>2, <2>3, FreeOne
  <2>6. Exact(Map(f), Free(f.area), H, f.ref)
    <3> DEFINE s == <<"user", q, v>>
    <3>1. s \in Slots /\ Map(k)[s] = p /\ p # NoPage
      BY <1>9, SlotsOf, NotPage DEF p
    <3>2. SetAt(Map(k), Map(f), s, NoPage)
      <4>1. SetAt(Map(k), Map(f), s, IF Zero \in Pages THEN Zero ELSE NoPage)
        BY <1>4, <1>5, PteMap DEF Same
      <4> QED BY <4>1, EntriesApart
    <3>3. DOMAIN f.ref = Pages /\ \A x \in Pages : f.ref[x] = IF x = p THEN 0 ELSE k.ref[x]
      BY <1>3, <1>4, <2>3
    <3> HIDE DEF s
    <3>4. Exact(Map(f), Free(k.area) \cup {Map(k)[s]}, H, f.ref)
      BY <2>2, <3>1, <3>2, <3>3, DropExact
    <3> QED BY <2>5, <3>1, <3>4
  <2>7. ASSUME NEW x \in Procs, HasMm(f, x) PROVE MmSound(f.mm[x])
    <3>1. CASE x # q
      <4>1. f.mm[x] = k.mm[x]
        BY <1>5, <3>1 DEF PteSet, OnlyMm
      <4> QED BY <2>2, <2>7, <4>1 DEF HasMm
    <3>2. CASE x = q
      <4>1. MmSound(k.mm[q])
        BY <2>2
      <4> QED BY <1>5, <3>2, <4>1 DEF MmSound, PteSet
    <3> QED BY <3>1, <3>2
  <2>8. DOMAIN f.data = Pages
    BY <1>4, <2>2
  <2>9. Sound(f, H)
    BY <2>5, <2>6, <2>7, <2>8 DEF Sound
  <2>10. CellsBut(k, f, q, v)
    <3>1. \A x \in Pages : x \notin H /\ x # k.mm[q].pte[v] => f.data[x] = k.data[x]
      BY <1>4, <2>2 DEF p
    <3> QED BY <1>4, <1>5, <2>2, <3>1, CellsPte
  <2> QED BY <1>5, <1>9, <2>4, <2>9, <2>10 DEF p, PteSet
<1> QED BY <1>7, <1>8, <1>9

\* The place of a page of a program, and of a page table.
LEMMA UserSlot ==
  ASSUME NEW k, NEW q \in Procs, NEW v \in Addresses, NEW s, s = <<"user", q, v>>
  PROVE  /\ s \in Slots /\ CountsAt(s)
         /\ HasMm(k, q) => Map(k)[s] = IF k.mm[q].pte[v] \in Pages THEN k.mm[q].pte[v] ELSE NoPage
<1>1. s \in Slots
  BY SlotsOf
<1>2. CountsAt(s)
  BY DEF CountsAt
<1>3. HasMm(k, q) => Map(k)[s] = IF k.mm[q].pte[v] \in Pages THEN k.mm[q].pte[v] ELSE NoPage
  BY UserAt
<1> QED BY <1>1, <1>2, <1>3

\* What is at the place of a page table.
LEMMA TableSlot ==
  ASSUME NEW k, NEW q \in Procs, NEW d \in Dirs, NEW s, s = <<"table", q, d>>
  PROVE  s \in Slots /\ CountsAt(s) /\ (HasMm(k, q) => Map(k)[s] = k.mm[q].pd[d])
<1>1. s \in Slots
  BY SlotsOf
<1>2. CountsAt(s)
  BY DEF CountsAt
<1>3. HasMm(k, q) => Map(k)[s] = k.mm[q].pd[d]
  BY SlotsOf
<1> QED BY <1>1, <1>2, <1>3

\* get_pte
LEMMA GetPteIs ==
  ASSUME NEW k, NEW H, Good(k), NEW q \in Procs, HasMm(k, q), NEW v \in Addresses,
         k.halt = "none" => Sound(k, H) /\ InArea(k.mm[q].areas, v),
         Checked = {} \/ k.mm[q].pd[Dir(v)] # NoPage, NEW t, t = GetPte(k, q, v)
  PROVE  /\ Good(t) /\ Beside(k, t, q) /\ t.mm[q].pte = k.mm[q].pte
         /\ t.halt = "none" =>
              /\ k.halt = "none" /\ Sound(t, H) /\ t.mm[q].pd[Dir(v)] # NoPage
              /\ t.data = k.data /\ CellsSame(k, t)
<1>1. CASE k.mm[q].pd[Dir(v)] # NoPage
  <2>1. t = k
    BY <1>1 DEF GetPte
  <2> QED BY <1>1, <2>1, BesideSelf DEF CellsSame
<1>2. CASE k.mm[q].pd[Dir(v)] = NoPage
  <2> DEFINE s == TakePage(k)
             p == s.got
             d == Dir(v)
  <2>1. t = [s EXCEPT !.ref[p] = 1, !.mm[q].pd[d] = p]
    BY <1>2 DEF GetPte
  <2>2. d \in Dirs
    BY DirOf
  <2> HIDE DEF s, d
  <2>3. /\ Good(s) /\ s.mm = k.mm /\ Same(k, s) /\ s.ref = k.ref /\ s.data = k.data
        /\ s.halt = "none" => /\ k.halt = "none" /\ s.got \in Pages \ H /\ s.got \in Free(k.area)
                              /\ Sound(s, H \cup {s.got})
    BY <1>2, TakeIs DEF s
  <2> HIDE DEF p
  <2>4. /\ DOMAIN t = KFields /\ t.halt = s.halt /\ Same(s, t) /\ t.area = s.area /\ t.data = s.data
        /\ t.ref = [s.ref EXCEPT ![p] = 1] /\ t.mm = [s.mm EXCEPT ![q].pd[d] = p]
    <3>1. DOMAIN s = KFields
      BY <2>3 DEF Good
    <3> QED BY <2>1, <3>1 DEF KFields, Same
  <2>5. HasMm(s, q)
    BY <2>3 DEF HasMm
  <2>6. PdSet(s, t, q, d, p)
    BY <2>2, <2>3, <2>4, <2>5, PdChange
  <2>7. PdSet(k, t, q, d, p) /\ Same(k, t)
    BY <2>3, <2>4, <2>6 DEF PdSet, OnlyMm, Same
  <2>8. Good(t) /\ Beside(k, t, q) /\ t.mm[q].pte = k.mm[q].pte
    <3>1. t.halt # "assert"
      BY <2>3, <2>4 DEF Good
    <3>2. Good(t)
      BY <2>3, <2>4, <2>5, <2>6, <3>1, PdGood
    <3>3. Beside(k, t, q)
      BY <2>7, PdBeside
    <3>4. t.mm[q].pte = k.mm[q].pte
      BY <2>7 DEF PdSet
    <3> QED BY <3>2, <3>3, <3>4
  <2>9. ASSUME t.halt = "none"
        PROVE  k.halt = "none" /\ Sound(t, H) /\ t.mm[q].pd[Dir(v)] # NoPage /\ t.data = k.data /\ CellsSame(k, t)
    <3>1. /\ k.halt = "none" /\ p \in Pages \ H /\ p \in Free(k.area) /\ Sound(s, H \cup {p}) /\ Sound(k, H)
          /\ InArea(k.mm[q].areas, v)
      BY <2>3, <2>4, <2>9 DEF p
    <3>2. /\ DOMAIN s.data = Pages /\ AreaOK(s.area) /\ Exact(Map(s), Free(s.area), H \cup {p}, s.ref)
          /\ \A x \in Procs : HasMm(s, x) => MmSound(s.mm[x])
      BY <3>1 DEF Sound
    <3>3. p # NoPage
      BY <3>1, NotPage
    <3>4. Exact(Map(t), Free(t.area), H, t.ref)
      <4> DEFINE u == <<"table", q, d>>
                 G == H \cup {p}
      <4>1. u \in Slots /\ Map(s)[u] = NoPage /\ CountsAt(u)
        <5>1. s.mm[q].pd[d] = NoPage
          BY <1>2, <2>3 DEF d
        <5>2. HasMm(s, q) => Map(s)[u] = s.mm[q].pd[d]
          BY <2>2, TableSlot
        <5>3. u \in Slots /\ CountsAt(u)
          BY <2>2, TableSlot
        <5> HIDE DEF u
        <5> QED BY <2>5, <5>1, <5>2, <5>3
      <4>2. SetAt(Map(s), Map(t), u, p)
        BY <2>2, <2>4, <2>5, <2>6, PdMap DEF Same
      <4>3. DOMAIN t.ref = Pages /\ \A x \in Pages : t.ref[x] = IF x = p /\ CountsAt(u) THEN 1 ELSE s.ref[x]
        BY <2>4, <3>1, <3>2, <4>1 DEF Exact
      <4>4. p \in G /\ G \ {p} = H /\ Exact(Map(s), Free(s.area), G, s.ref)
        BY <3>1, <3>2
      <4> HIDE DEF u, G
      <4>5. Exact(Map(t), Free(s.area), G \ {p}, t.ref)
        BY <4>1, <4>2, <4>3, <4>4, PutExact
      <4> QED BY <2>4, <4>4, <4>5
    <3>5. ASSUME NEW x \in Procs, HasMm(t, x) PROVE MmSound(t.mm[x])
      <4>1. CASE x # q
        <5>1. t.mm[x] = s.mm[x]
          BY <2>6, <4>1 DEF PdSet, OnlyMm
        <5> QED BY <3>2, <3>5, <5>1 DEF HasMm
      <4>2. CASE x = q
        <5>1. MmSound(s.mm[q]) /\ s.mm[q] = k.mm[q]
          BY <2>3, <2>5, <3>2
        <5>2. d = Dir(v)
          BY DEF d
        <5>3. /\ t.mm[q].pgdir = s.mm[q].pgdir /\ t.mm[q].areas = s.mm[q].areas /\ t.mm[q].pte = s.mm[q].pte
              /\ \A e \in Dirs : t.mm[q].pd[e] = IF e = d THEN p ELSE s.mm[q].pd[e]
          BY <2>6 DEF PdSet
        <5>4. t.mm[q].pgdir # NoPage /\ AreasApart(t.mm[q].areas)
              /\ \A w \in Addresses : t.mm[q].pte[w] \in Pages \cup {Zero, SwapEntry}
          BY <5>1, <5>3 DEF MmSound
        <5>5. ASSUME NEW w \in Addresses, t.mm[q].pte[w] # Zero
              PROVE  InArea(t.mm[q].areas, w) /\ t.mm[q].pd[Dir(w)] # NoPage
          <6>1. InArea(s.mm[q].areas, w) /\ s.mm[q].pd[Dir(w)] # NoPage /\ Dir(w) \in Dirs
            BY <5>1, <5>3, <5>5, DirOf DEF MmSound
          <6> QED BY <3>3, <5>3, <6>1
        <5>6. ASSUME NEW e \in Dirs, t.mm[q].pd[e] # NoPage
              PROVE  \E w \in Addresses : Dir(w) = e /\ InArea(t.mm[q].areas, w)
          <6>1. CASE e = d
            BY <3>1, <5>1, <5>2, <5>3, <6>1
          <6>2. CASE e # d
            <7>1. s.mm[q].pd[e] # NoPage
              BY <5>3, <5>6, <6>2
            <7> QED BY <5>1, <5>3, <7>1 DEF MmSound
          <6> QED BY <6>1, <6>2
        <5>7. MmSound(t.mm[q])
          BY <5>4, <5>5, <5>6 DEF MmSound
        <5> QED BY <4>2, <5>7
      <4> QED BY <4>1, <4>2
    <3>6. Sound(t, H)
      BY <2>4, <3>2, <3>4, <3>5 DEF Sound
    <3>7. t.mm[q].pd[Dir(v)] # NoPage
      BY <2>2, <2>6, <3>3 DEF PdSet, d
    <3>8. CellsSame(k, t)
      <4>1. \A x \in Procs : HasMm(k, x) <=> HasMm(t, x)
        BY <2>7 DEF PdSet, OnlyMm, HasMm
      <4>2. \A x \in Procs : HasMm(k, x) => t.mm[x].pte = k.mm[x].pte
        BY <2>7 DEF PdSet, OnlyMm
      <4>3. Exact(Map(k), Free(k.area), H, k.ref)
        BY <3>1 DEF Sound
      <4>4. t.data = k.data /\ t.disk = k.disk
        BY <2>3, <2>4, <2>7 DEF Same
      <4> QED BY <4>1, <4>2, <4>3, <4>4, CellsKept
    <3> QED BY <2>3, <2>4, <3>1, <3>6, <3>7, <3>8
  <2> QED BY <2>8, <2>9
<1> QED BY <1>1, <1>2

\* page_insert, where nothing is mapped yet.
MayInsert(k, H, q, v, p) ==
  Sound(k, H) /\ InArea(k.mm[q].areas, v) /\ p \in H /\ k.mm[q].pte[v] \notin Pages
Inserted(k, H, q, v, p, t) ==
  /\ k.halt = "none" /\ Sound(t, H \ {p}) /\ t.data = k.data /\ CellsBut(k, t, q, v)
  /\ t.ref[p] = 1
  /\ \A w \in Addresses : t.mm[q].pte[w] = IF w = v THEN p ELSE k.mm[q].pte[w]

\* page_insert, when the address has no page yet.
LEMMA PageInsertIs ==
  ASSUME NEW k, NEW H, Good(k), NEW q \in Procs, HasMm(k, q), NEW v \in Addresses, NEW p,
         k.halt = "none" => MayInsert(k, H, q, v, p),
         Checked = {} \/ k.mm[q].pd[Dir(v)] # NoPage, NEW t, t = PageInsert(k, q, p, v)
  PROVE  /\ Good(t) /\ Beside(k, t, q)
         /\ t.halt = "none" => Inserted(k, H, q, v, p, t)
<1> DEFINE g == GetPte(k, q, v)
           h == [g EXCEPT !.ref[p] = @ + 1]
           r == RemovePte(h, q, v)
           u == [r EXCEPT !.mm[q].pte[v] = p]
<1>1. t = IF g.mm[q].pte[v] = p THEN g ELSE u
  BY Zenon DEF PageInsert
<1>2. /\ Good(g) /\ Beside(k, g, q) /\ g.mm[q].pte = k.mm[q].pte
      /\ g.halt = "none" =>
           /\ k.halt = "none" /\ Sound(g, H) /\ g.mm[q].pd[Dir(v)] # NoPage
           /\ g.data = k.data /\ CellsSame(k, g)
  <2>1. k.halt = "none" => Sound(k, H) /\ InArea(k.mm[q].areas, v)
    BY DEF MayInsert
  <2> QED BY <2>1, GetPteIs
<1> HIDE DEF g
<1>3. HasMm(g, q)
  BY <1>2 DEF Beside
<1>4. /\ DOMAIN h = KFields /\ h.halt = g.halt /\ Same(g, h) /\ h.area = g.area /\ h.data = g.data
      /\ h.ref = [g.ref EXCEPT ![p] = @ + 1] /\ h.mm = g.mm
  <2>1. DOMAIN g = KFields
    BY <1>2 DEF Good
  <2> QED BY <2>1 DEF KFields, Same
<1> HIDE DEF h
<1>5. Good(h) /\ HasMm(h, q)
  BY <1>2, <1>3, <1>4 DEF Good, HasMm
<1>6. /\ DOMAIN r = KFields /\ Good(r) /\ HasMm(r, q) /\ Beside(g, r, q) /\ r.halt = g.halt
      /\ (h.mm[q].pte[v] \notin Pages => r = h)
  <2> DEFINE x == h.mm[q].pte[v]
             y == [h EXCEPT !.ref[x] = @ - 1, !.mm[q].pte[v] = Zero]
             f == FreePage(y, x)
  <2>1. r = CASE x \notin Pages -> h [] x \in Pages /\ y.ref[x] = 0 -> f [] OTHER -> y
    BY DEF RemovePte
  <2> HIDE DEF x
  <2>2. DOMAIN y = KFields /\ y.halt = h.halt /\ Same(h, y) /\ y.mm = [h.mm EXCEPT ![q].pte[v] = Zero]
    BY <1>4 DEF KFields, Same
  <2> HIDE DEF y
  <2>3. DOMAIN f = KFields /\ f.halt = h.halt /\ Same(h, f) /\ f.mm = [h.mm EXCEPT ![q].pte[v] = Zero]
    BY <2>2 DEF FreePage, KFields, Same
  <2> HIDE DEF f
  <2>4. PteSet(h, y, q, v, Zero) /\ PteSet(h, f, q, v, Zero)
    BY <1>5, <2>2, <2>3, PteChange
  <2>5. Good(y) /\ Good(f) /\ HasMm(y, q) /\ HasMm(f, q)
    BY <1>5, <2>2, <2>3, <2>4, PteGood DEF Good
  <2>6. Beside(h, h, q) /\ Beside(h, y, q) /\ Beside(h, f, q)
    BY <1>5, <2>2, <2>3, <2>4, BesideSelf, PteBeside
  <2>7. r \in {h, y, f}
    BY <2>1
  <2>8. Good(r) /\ HasMm(r, q) /\ Beside(h, r, q) /\ r.halt = h.halt
    BY <1>5, <2>2, <2>3, <2>5, <2>6, <2>7
  <2>9. Beside(g, h, q)
    BY <1>2, <1>3, <1>4 DEF Beside, Same, OnlyMm, HasMm, Good
  <2>10. x \notin Pages => r = h
    BY <2>1
  <2> HIDE DEF r
  <2> QED BY <1>4, <2>8, <2>9, <2>10, BesideTwice DEF Good, x
<1> HIDE DEF r
<1>7. /\ DOMAIN u = KFields /\ u.halt = r.halt /\ Same(r, u) /\ u.area = r.area /\ u.data = r.data
      /\ u.ref = r.ref /\ u.mm = [r.mm EXCEPT ![q].pte[v] = p]
  BY <1>6 DEF KFields, Same
<1> HIDE DEF u
<1>8. PteSet(r, u, q, v, p)
  BY <1>6, <1>7, PteChange
<1>9. Good(u) /\ Beside(r, u, q)
  BY <1>6, <1>7, <1>8, PteGood, PteBeside DEF Good
<1>10. Good(t) /\ Beside(k, t, q)
  <2>1. Beside(k, r, q)
    BY <1>2, <1>6, BesideTwice
  <2>2. Beside(k, u, q)
    BY <1>9, <2>1, BesideTwice
  <2> QED BY <1>1, <1>2, <1>9, <2>2
<1>11. ASSUME t.halt = "none"
       PROVE  Inserted(k, H, q, v, p, t)
  <2>1. g.halt = "none"
    BY <1>1, <1>6, <1>7, <1>11
  <2>2. /\ k.halt = "none" /\ Sound(g, H) /\ g.mm[q].pd[Dir(v)] # NoPage
        /\ g.data = k.data /\ CellsSame(k, g)
    BY <1>2, <2>1
  <2>3. Sound(k, H) /\ InArea(k.mm[q].areas, v) /\ p \in H /\ k.mm[q].pte[v] \notin Pages
    BY <2>2 DEF MayInsert
  <2>4. /\ DOMAIN g.data = Pages /\ AreaOK(g.area) /\ Exact(Map(g), Free(g.area), H, g.ref)
        /\ \A x \in Procs : HasMm(g, x) => MmSound(g.mm[x])
    BY <2>2 DEF Sound
  <2>5. p \in Pages /\ g.ref[p] = 0 /\ DOMAIN g.ref = Pages
    BY <2>3, <2>4 DEF Exact
  <2>6. g.mm[q].pte[v] \notin Pages /\ r = h
    BY <1>2, <1>4, <1>6, <2>3
  <2>7. t = u
    BY <1>1, <2>5, <2>6
  <2>8. PteSet(g, u, q, v, p)
    <3>1. r.mm = g.mm
      BY <1>4, <2>6
    <3> QED BY <1>8, <3>1 DEF PteSet, OnlyMm
  <2>9. u.ref = [g.ref EXCEPT ![p] = 1] /\ u.area = g.area /\ u.data = g.data /\ Same(g, u)
    <3>1. u.ref = [g.ref EXCEPT ![p] = @ + 1]
      BY <1>4, <1>7, <2>6
    <3>2. u.ref = [g.ref EXCEPT ![p] = 1]
      BY <2>5, <3>1
    <3> QED BY <1>4, <1>7, <2>6, <3>2 DEF Same
  <2>10. Exact(Map(u), Free(u.area), H \ {p}, u.ref)
    <3> DEFINE s == <<"user", q, v>>
    <3>1. s \in Slots /\ Map(g)[s] = NoPage /\ CountsAt(s)
      <4>1. s \in Slots /\ CountsAt(s)
        BY UserSlot
      <4>2. HasMm(g, q) => Map(g)[s] = IF g.mm[q].pte[v] \in Pages THEN g.mm[q].pte[v] ELSE NoPage
        BY UserSlot
      <4> HIDE DEF s
      <4> QED BY <1>3, <2>6, <4>1, <4>2
    <3>2. SetAt(Map(g), Map(u), s, p)
      <4>1. SetAt(Map(g), Map(u), s, IF p \in Pages THEN p ELSE NoPage)
        BY <1>3, <2>8, <2>9, PteMap DEF Same
      <4> QED BY <2>5, <4>1
    <3>3. DOMAIN u.ref = Pages /\ \A x \in Pages : u.ref[x] = IF x = p /\ CountsAt(s) THEN 1 ELSE g.ref[x]
      BY <2>5, <2>9, <3>1
    <3> HIDE DEF s
    <3>4. Exact(Map(u), Free(g.area), H \ {p}, u.ref)
      BY <2>3, <2>4, <3>1, <3>2, <3>3, PutExact
    <3> QED BY <2>9, <3>4
  <2>11. ASSUME NEW x \in Procs, HasMm(u, x) PROVE MmSound(u.mm[x])
    <3>1. CASE x # q
      <4>1. u.mm[x] = g.mm[x]
        BY <2>8, <3>1 DEF PteSet, OnlyMm
      <4> QED BY <2>4, <2>11, <4>1 DEF HasMm
    <3>2. CASE x = q
      <4>1. MmSound(g.mm[q]) /\ g.mm[q].areas = k.mm[q].areas
        BY <1>2, <1>3, <2>4 DEF Beside
      <4>2. /\ u.mm[q].pgdir = g.mm[q].pgdir /\ u.mm[q].areas = g.mm[q].areas /\ u.mm[q].pd = g.mm[q].pd
            /\ \A w \in Addresses : u.mm[q].pte[w] = IF w = v THEN p ELSE g.mm[q].pte[w]
        BY <2>8 DEF PteSet
      <4>3. \A w \in Addresses : u.mm[q].pte[w] \in Pages \cup {Zero, SwapEntry}
        BY <2>5, <4>1, <4>2 DEF MmSound
      <4>4. ASSUME NEW w \in Addresses, u.mm[q].pte[w] # Zero
            PROVE  InArea(u.mm[q].areas, w) /\ u.mm[q].pd[Dir(w)] # NoPage
        <5>1. CASE w = v
          BY <2>2, <2>3, <4>1, <4>2, <5>1
        <5>2. CASE w # v
          BY <4>1, <4>2, <4>4, <5>2 DEF MmSound
        <5> QED BY <5>1, <5>2
      <4>5. MmSound(u.mm[q])
        BY <4>1, <4>2, <4>3, <4>4 DEF MmSound
      <4> QED BY <3>2, <4>5
    <3> QED BY <3>1, <3>2
  <2>12. Sound(u, H \ {p})
    BY <2>4, <2>9, <2>10, <2>11 DEF Sound
  <2>13. CellsBut(g, u, q, v)
    BY <1>3, <2>4, <2>8, <2>9, CellsPte
  <2>14. CellsBut(k, u, q, v)
    BY <2>2, <2>13 DEF CellsBut, CellsSame
  <2>15. \A w \in Addresses : u.mm[q].pte[w] = IF w = v THEN p ELSE k.mm[q].pte[w]
    BY <1>2, <2>8 DEF PteSet
  <2> QED BY <2>2, <2>5, <2>7, <2>9, <2>12, <2>14, <2>15 DEF Inserted
<1> QED BY <1>10, <1>11

\* The page last taken is filled with x and mapped at v.
Filled(s, q, v, x) == PageInsert([s EXCEPT !.data[s.got] = x], q, s.got, v)

MayFill(s, H, q, v) ==
  Sound(s, H \cup {s.got}) /\ s.got \notin H /\ InArea(s.mm[q].areas, v) /\ s.mm[q].pte[v] \notin Pages
IsFilled(s, H, q, v, x, t) ==
  /\ s.halt = "none" /\ Sound(t, H) /\ CellsBut(s, t, q, v) /\ CellIn(t, q, v) = {x}
  /\ s.got \in Pages /\ t.ref[s.got] = 1
  /\ \A w \in Addresses : t.mm[q].pte[w] = IF w = v THEN s.got ELSE s.mm[q].pte[w]

\* The page is mapped and holds x.
LEMMA FilledIs ==
  ASSUME NEW s, NEW H, Good(s), NEW q \in Procs, HasMm(s, q), NEW v \in Addresses, NEW x,
         s.halt = "none" => MayFill(s, H, q, v),
         Checked = {} \/ s.mm[q].pd[Dir(v)] # NoPage, NEW t, t = Filled(s, q, v, x)
  PROVE  /\ Good(t) /\ Beside(s, t, q)
         /\ t.halt = "none" => IsFilled(s, H, q, v, x, t)
<1> DEFINE p == s.got
           d == [s EXCEPT !.data[p] = x]
<1>1. t = PageInsert(d, q, p, v)
  BY DEF Filled
<1>2. /\ DOMAIN d = KFields /\ d.halt = s.halt /\ Same(s, d) /\ d.area = s.area /\ d.ref = s.ref
      /\ d.mm = s.mm /\ d.data = [s.data EXCEPT ![p] = x] /\ d.got = p
  <2>1. DOMAIN s = KFields
    BY DEF Good
  <2> QED BY <2>1 DEF KFields, Same
<1> HIDE DEF d
<1>3. Good(d) /\ HasMm(d, q)
  BY <1>2 DEF Good, HasMm
<1>4. Map(d) = Map(s)
  BY <1>2, MapSame DEF Same
<1>5. ASSUME s.halt = "none"
      PROVE  /\ Sound(d, H \cup {p}) /\ p \notin H /\ InArea(d.mm[q].areas, v)
             /\ d.mm[q].pte[v] \notin Pages /\ CellsSame(s, d) /\ d.data[p] = x /\ p \in Pages
  <2>1. Sound(s, H \cup {p}) /\ p \notin H /\ InArea(s.mm[q].areas, v) /\ s.mm[q].pte[v] \notin Pages
    BY <1>5 DEF MayFill
  <2>2. /\ DOMAIN s.data = Pages /\ AreaOK(s.area) /\ Exact(Map(s), Free(s.area), H \cup {p}, s.ref)
        /\ \A r \in Procs : HasMm(s, r) => MmSound(s.mm[r])
    BY <2>1 DEF Sound
  <2>3. p \in Pages
    BY <2>2 DEF Exact
  <2>4. Sound(d, H \cup {p})
    <3>1. DOMAIN d.data = Pages /\ AreaOK(d.area) /\ Exact(Map(d), Free(d.area), H \cup {p}, d.ref)
      BY <1>2, <1>4, <2>2
    <3>2. \A r \in Procs : HasMm(d, r) => MmSound(d.mm[r])
      BY <1>2, <2>2 DEF HasMm
    <3> QED BY <3>1, <3>2 DEF Sound
  <2>5. CellsSame(s, d)
    <3>1. \A u \in Slots : s[1] = "user" /\ Map(s)[u] \in Pages => Map(s)[u] # p
      BY <2>2, NotPage DEF Exact
    <3>2. \A u \in Slots : u[1] = "user" /\ Map(s)[u] \in Pages => d.data[Map(s)[u]] = s.data[Map(s)[u]]
      <4> SUFFICES ASSUME NEW u \in Slots, Map(s)[u] \in Pages PROVE d.data[Map(s)[u]] = s.data[Map(s)[u]]
        OBVIOUS
      <4>1. Map(s)[u] # p
        BY <2>2, NotPage DEF Exact
      <4> QED BY <1>2, <2>2, <4>1
    <3>3. d.disk = s.disk
      BY <1>2 DEF Same
    <3>4. \A r \in Procs : HasMm(s, r) <=> HasMm(d, r)
      BY <1>2 DEF HasMm
    <3> QED BY <1>2, <2>2, <3>2, <3>3, <3>4, CellsKept
  <2> QED BY <1>2, <2>1, <2>2, <2>3, <2>4, <2>5
<1> DEFINE G == H \cup {p}
<1>6. /\ Good(t) /\ Beside(d, t, q)
      /\ t.halt = "none" => Inserted(d, G, q, v, p, t)
  <2>1. d.halt = "none" => MayInsert(d, G, q, v, p)
    BY <1>2, <1>5 DEF MayInsert
  <2>2. Checked = {} \/ d.mm[q].pd[Dir(v)] # NoPage
    BY <1>2
  <2> HIDE DEF G, p
  <2> QED BY <1>1, <1>3, <2>1, <2>2, PageInsertIs
<1>7. Beside(s, t, q)
  <2>1. Beside(s, d, q)
    BY <1>2 DEF Beside, Same, OnlyMm, Good, HasMm
  <2> QED BY <1>6, <2>1, BesideTwice
<1>8. ASSUME t.halt = "none"
      PROVE  IsFilled(s, H, q, v, x, t)
  <2>0. Inserted(d, G, q, v, p, t)
    BY <1>6, <1>8
  <2>1. s.halt = "none"
    BY <1>2, <2>0 DEF Inserted
  <2>2. G \ {p} = H
    BY <1>5, <2>1
  <2>3. CellsBut(s, t, q, v)
    BY <1>5, <2>0, <2>1 DEF CellsBut, CellsSame, Inserted
  <2>4. t.mm[q].pte[v] = p /\ HasMm(t, q) /\ p \in Pages /\ t.data[p] = x
    BY <1>5, <1>7, <2>0, <2>1 DEF Beside, Inserted
  <2>5. CellIn(t, q, v) = {x}
    BY <2>4 DEF CellIn
  <2>6. Sound(t, H) /\ t.ref[p] = 1
    <3>1. Sound(t, G \ {p}) /\ t.ref[p] = 1
      BY <2>0 DEF Inserted
    <3> HIDE DEF G
    <3> QED BY <2>2, <3>1
  <2>7. \A w \in Addresses : t.mm[q].pte[w] = IF w = v THEN p ELSE s.mm[q].pte[w]
    BY <1>2, <2>0 DEF Inserted
  <2> QED BY <2>1, <2>3, <2>4, <2>5, <2>6, <2>7 DEF IsFilled
<1> QED BY <1>6, <1>7, <1>8 DEF p

\* pgdir_alloc_page, after the boot.
MayMap(k, H, q, v) == Sound(k, H) /\ InArea(k.mm[q].areas, v) /\ k.mm[q].pte[v] = Zero
Mapped(k, H, q, v, t) ==
  /\ k.halt = "none" /\ Sound(t, H) /\ CellsBut(k, t, q, v)
  /\ t.mm[q].pte[v] \in Pages \cup {Zero}
  /\ \A w \in Addresses : w # v => t.mm[q].pte[w] = k.mm[q].pte[w]
\* Address v holds x.
Holds(t, q, v, x) == CellIn(t, q, v) = {x}

\* The address has a page of its own that holds x.
LEMMA PgdirAllocIs ==
  ASSUME NEW k, NEW H, Checked = {}, Good(k), NEW q \in Procs, HasMm(k, q), NEW v \in Addresses, NEW x,
         k.halt = "none" => MayMap(k, H, q, v), NEW t, t = PgdirAllocPage(k, q, v, x)
  PROVE  /\ Good(t) /\ Beside(k, t, q)
         /\ t.halt = "none" => Mapped(k, H, q, v, t) /\ Holds(t, q, v, x)
<1> DEFINE s == TakePage(k)
<1>1. t = Filled(s, q, v, x)
  BY Zenon DEF PgdirAllocPage, Filled
<1>2. /\ Good(s) /\ s.mm = k.mm /\ Same(k, s) /\ s.ref = k.ref /\ s.data = k.data
      /\ s.halt = "none" => /\ k.halt = "none" /\ s.got \in Pages \ H /\ s.got \in Free(k.area)
                            /\ Sound(s, H \cup {s.got})
  <2>1. k.halt = "none" => Sound(k, H)
    BY DEF MayMap
  <2> QED BY <2>1, TakeIs
<1> HIDE DEF s
<1>3. HasMm(s, q) /\ Beside(k, s, q)
  BY <1>2 DEF HasMm, Beside, OnlyMm, Good
<1>4. s.halt = "none" => MayFill(s, H, q, v)
  BY <1>2, EntriesApart DEF MayMap, MayFill
<1>5. /\ Good(t) /\ Beside(s, t, q)
      /\ t.halt = "none" => IsFilled(s, H, q, v, x, t)
  BY <1>1, <1>2, <1>3, <1>4, FilledIs
<1>6. Beside(k, t, q)
  BY <1>3, <1>5, BesideTwice
<1>7. CellsSame(k, s)
  BY <1>2 DEF CellsSame, CellIn, HasMm, Same
<1>8. t.halt = "none" => CellsBut(k, t, q, v)
  BY <1>5, <1>7 DEF CellsBut, CellsSame, IsFilled
<1>9. t.halt = "none" => Mapped(k, H, q, v, t) /\ Holds(t, q, v, x)
  BY <1>2, <1>5, <1>8 DEF Mapped, IsFilled, Holds
<1> QED BY <1>5, <1>6, <1>9

\* One page of copy_range, into an address where nothing is yet.
LEMMA CopyPageIs ==
  ASSUME NEW k, NEW H, Checked = {}, Good(k), NEW to \in Procs, NEW from \in Procs, to # from,
         HasMm(k, to), HasMm(k, from), NEW v \in Addresses,
         k.halt = "none" => MayMap(k, H, to, v) /\ k.mm[from].pte[v] # SwapEntry,
         NEW t, t = CopyPage(k, to, from, v)
  PROVE  /\ Good(t) /\ Beside(k, t, to)
         /\ t.halt = "none" => Mapped(k, H, to, v, t) /\ CellIn(t, to, v) = CellIn(k, from, v)
<1>1. CASE k.mm[from].pte[v] \notin Pages
  <2>1. t = k
    BY <1>1 DEF CopyPage
  <2>2. k.halt = "none" => CellIn(k, to, v) = {} /\ CellIn(k, from, v) = {}
    BY <1>1, EntriesApart DEF CellIn, MayMap
  <2>3. k.halt = "none" => Mapped(k, H, to, v, k)
    BY DEF Mapped, MayMap, CellsBut
  <2> QED BY <2>1, <2>2, <2>3, BesideSelf
<1>2. CASE k.mm[from].pte[v] \in Pages
  <2> DEFINE g == GetPte(k, to, v)
             s == TakePage(g)
             x == s.data[s.mm[from].pte[v]]
  <2>1. t = Filled(s, to, v, x)
    BY <1>2, Zenon DEF CopyPage, Filled
  <2>2. /\ Good(g) /\ Beside(k, g, to) /\ g.mm[to].pte = k.mm[to].pte
        /\ g.halt = "none" =>
             /\ k.halt = "none" /\ Sound(g, H) /\ g.mm[to].pd[Dir(v)] # NoPage
             /\ g.data = k.data /\ CellsSame(k, g)
    <3>1. k.halt = "none" => Sound(k, H) /\ InArea(k.mm[to].areas, v)
      BY DEF MayMap
    <3> QED BY <3>1, GetPteIs
  <2> HIDE DEF g
  <2>3. /\ Good(s) /\ s.mm = g.mm /\ Same(g, s) /\ s.ref = g.ref /\ s.data = g.data
        /\ s.halt = "none" => /\ g.halt = "none" /\ s.got \in Pages \ H /\ s.got \in Free(g.area)
                              /\ Sound(s, H \cup {s.got})
    BY <2>2, TakeIs
  <2> HIDE DEF s, x
  <2>4. HasMm(g, to) /\ HasMm(s, to) /\ Beside(g, s, to)
    BY <2>2, <2>3 DEF HasMm, Beside, OnlyMm, Good
  <2>5. s.halt = "none" => MayFill(s, H, to, v)
    BY <2>2, <2>3, EntriesApart DEF Beside, MayMap, MayFill
  <2>6. /\ Good(t) /\ Beside(s, t, to)
        /\ t.halt = "none" => IsFilled(s, H, to, v, x, t)
    BY <2>1, <2>3, <2>4, <2>5, FilledIs
  <2>7. Beside(k, s, to)
    BY <2>2, <2>4, BesideTwice
  <2>8. Beside(k, t, to)
    BY <2>6, <2>7, BesideTwice
  <2>9. s.halt = "none" => CellsSame(k, s)
    <3>1. CellsSame(g, s)
      BY <2>3 DEF CellsSame, CellIn, HasMm, Same
    <3> QED BY <2>2, <2>3, <3>1 DEF CellsSame
  <2>10. s.halt = "none" => {x} = CellIn(k, from, v)
    <3>1. s.mm[from] = k.mm[from]
      BY <2>7 DEF Beside, OnlyMm
    <3>2. CellIn(k, from, v) = {k.data[k.mm[from].pte[v]]}
      BY <1>2 DEF CellIn
    <3> QED BY <2>2, <2>3, <3>1, <3>2 DEF x
  <2>11. t.halt = "none" => CellsBut(k, t, to, v)
    BY <2>6, <2>9 DEF CellsBut, CellsSame, IsFilled
  <2>12. t.halt = "none" => Mapped(k, H, to, v, t) /\ CellIn(t, to, v) = CellIn(k, from, v)
    BY <2>2, <2>3, <2>6, <2>10, <2>11 DEF Mapped, IsFilled
  <2> QED BY <2>6, <2>8, <2>12
<1> QED BY <1>1, <1>2

-----------------------------------------------------------------------------
(* Areas.                                                                  *)

\* An area put between two others.
LEMMA ApartInsert ==
  ASSUME NEW s \in Seq(AreaTypes), AreasApart(s), NEW a \in AreaTypes, NEW at \in 1 .. Len(s) + 1,
         at > 1 => s[at - 1].end <= a.start, at <= Len(s) => a.end <= s[at].start,
         NEW t, t = InsertAt(s, at, a)
  PROVE  /\ t \in Seq(AreaTypes) /\ AreasApart(t)
         /\ \A v \in Addresses : InArea(t, v) <=> InArea(s, v) \/ (a.start <= v /\ v < a.end)
         /\ \A v \in Addresses : a.start <= v /\ v < a.end => ~InArea(s, v)
<1>1. /\ t \in Seq(AreaTypes) /\ Len(t) = Len(s) + 1
      /\ \A j \in 1 .. Len(s) + 1 : t[j] = IF j < at THEN s[j] ELSE IF j = at THEN a ELSE s[j - 1]
  <2>1. Longer(InsertAt(s, at, a), s, at, a, AreaTypes)
    BY InsertLonger
  <2> QED BY <2>1 DEF Longer
<1>2. /\ Len(s) \in Nat /\ at \in Nat /\ DOMAIN s = 1 .. Len(s) /\ DOMAIN t = 1 .. Len(s) + 1
      /\ a.start \in Nat /\ a.end \in Nat /\ a.start < a.end
  BY <1>1 DEF AreaTypes
<1>3. \A i \in DOMAIN s : s[i].start \in Nat /\ s[i].end \in Nat /\ s[i].start < s[i].end
  BY DEF AreaTypes
<1>4. \A i \in DOMAIN s : i < at => s[i].end <= a.start
  <2> SUFFICES ASSUME NEW i \in DOMAIN s, i < at PROVE s[i].end <= a.start
    OBVIOUS
  <2>1. CASE i = at - 1
    BY <1>2, <2>1
  <2>2. CASE i # at - 1
    <3>1. i < at - 1 /\ at - 1 \in DOMAIN s
      BY <1>2, <2>2
    <3>2. s[i].end <= s[at - 1].start
      BY <3>1 DEF AreasApart
    <3>3. s[at - 1].end <= a.start
      BY <1>2, <3>1
    <3> QED BY <1>2, <1>3, <3>1, <3>2, <3>3, SMTT(30)
  <2> QED BY <2>1, <2>2
<1>5. \A i \in DOMAIN s : at <= i => a.end <= s[i].start
  <2> SUFFICES ASSUME NEW i \in DOMAIN s, at <= i PROVE a.end <= s[i].start
    OBVIOUS
  <2>1. CASE i = at
    BY <1>2, <2>1
  <2>2. CASE i # at
    <3>1. at < i /\ at \in DOMAIN s
      BY <1>2, <2>2
    <3>2. s[at].end <= s[i].start
      BY <3>1 DEF AreasApart
    <3>3. a.end <= s[at].start
      BY <1>2, <3>1
    <3> QED BY <1>2, <1>3, <3>1, <3>2, <3>3, SMTT(30)
  <2> QED BY <2>1, <2>2
<1>6. AreasApart(t)
  <2> SUFFICES ASSUME NEW i \in DOMAIN t, NEW j \in DOMAIN t, i < j PROVE t[i].end <= t[j].start
    BY DEF AreasApart
  <2>1. CASE j < at
    <3>1. t[i] = s[i] /\ t[j] = s[j] /\ i \in DOMAIN s /\ j \in DOMAIN s
      BY <1>1, <1>2, <2>1
    <3> QED BY <3>1 DEF AreasApart
  <2>2. CASE j = at
    <3>1. t[i] = s[i] /\ t[j] = a /\ i \in DOMAIN s
      BY <1>1, <1>2, <2>2
    <3> QED BY <1>4, <2>2, <3>1
  <2>3. CASE j > at /\ i < at
    <3>1. t[i] = s[i] /\ t[j] = s[j - 1] /\ i \in DOMAIN s /\ j - 1 \in DOMAIN s /\ i < j - 1
      BY <1>1, <1>2, <2>3
    <3> QED BY <3>1 DEF AreasApart
  <2>4. CASE j > at /\ i = at
    <3>1. t[i] = a /\ t[j] = s[j - 1] /\ j - 1 \in DOMAIN s /\ at <= j - 1
      BY <1>1, <1>2, <2>4
    <3> QED BY <1>5, <3>1
  <2>5. CASE j > at /\ i > at
    <3>1. t[i] = s[i - 1] /\ t[j] = s[j - 1] /\ i - 1 \in DOMAIN s /\ j - 1 \in DOMAIN s /\ i - 1 < j - 1
      BY <1>1, <1>2, <2>5
    <3> QED BY <3>1 DEF AreasApart
  <2>6. i \in Nat /\ j \in Nat
    BY <1>2
  <2> QED BY <1>2, <2>1, <2>2, <2>3, <2>4, <2>5, <2>6
<1>7. ASSUME NEW v \in Addresses
      PROVE  InArea(t, v) <=> InArea(s, v) \/ (a.start <= v /\ v < a.end)
  <2>1. ASSUME NEW i \in DOMAIN t, t[i].start <= v /\ v < t[i].end
        PROVE  InArea(s, v) \/ (a.start <= v /\ v < a.end)
    <3>1. CASE i < at
      <4>1. t[i] = s[i] /\ i \in DOMAIN s
        BY <1>1, <1>2, <3>1
      <4> QED BY <2>1, <4>1 DEF InArea
    <3>2. CASE i = at
      BY <1>1, <1>2, <2>1, <3>2
    <3>3. CASE i > at
      <4>1. t[i] = s[i - 1] /\ i - 1 \in DOMAIN s
        BY <1>1, <1>2, <3>3
      <4> QED BY <2>1, <4>1 DEF InArea
    <3> QED BY <1>2, <3>1, <3>2, <3>3
  <2>2. ASSUME NEW i \in DOMAIN s, s[i].start <= v /\ v < s[i].end PROVE InArea(t, v)
    <3>1. CASE i < at
      <4>1. t[i] = s[i] /\ i \in DOMAIN t
        BY <1>1, <1>2, <3>1
      <4> QED BY <2>2, <4>1 DEF InArea
    <3>2. CASE ~(i < at)
      <4>1. t[i + 1] = s[i] /\ i + 1 \in DOMAIN t
        BY <1>1, <1>2, <3>2
      <4> QED BY <2>2, <4>1 DEF InArea
    <3> QED BY <3>1, <3>2
  <2>3. a.start <= v /\ v < a.end => InArea(t, v)
    <3>1. t[at] = a /\ at \in DOMAIN t
      BY <1>1, <1>2
    <3> QED BY <3>1 DEF InArea
  <2> QED BY <2>1, <2>2, <2>3 DEF InArea
<1>8. ASSUME NEW v \in Addresses, a.start <= v /\ v < a.end PROVE ~InArea(s, v)
  <2> SUFFICES ASSUME NEW i \in DOMAIN s, s[i].start <= v, v < s[i].end PROVE FALSE
    BY DEF InArea
  <2>1. v \in Nat
    BY VmAssumption DEF Addresses
  <2>2. CASE i < at
    BY <1>2, <1>3, <1>4, <1>8, <2>1, <2>2
  <2>3. CASE at <= i
    BY <1>2, <1>3, <1>5, <1>8, <2>1, <2>3
  <2> QED BY <1>2, <2>2, <2>3
<1> QED BY <1>1, <1>6, <1>7, <1>8

\* What a change of the areas does to a copy.
LEMMA AreasChange ==
  ASSUME NEW k, Good(k), NEW q \in Procs, HasMm(k, q), NEW x \in Seq(AreaTypes),
         NEW t, DOMAIN t = KFields, t.halt # "assert", t.mm = [k.mm EXCEPT ![q].areas = x]
  PROVE  AreasSet(k, t, q, x) /\ Good(t) /\ HasMm(t, q)
<1> DEFINE m == k.mm[q]
           n == [m EXCEPT !.areas = x]
<1>1. DOMAIN k.mm = Procs /\ DOMAIN m = MmFields /\ DOMAIN m.pd = Dirs /\ DOMAIN m.pte = Addresses
  BY MmKinds DEF Good, HasMm
<1>2. t.mm = [k.mm EXCEPT ![q] = n]
  OBVIOUS
<1> HIDE DEF n
<1>3. t.mm[q] = n /\ DOMAIN t.mm = Procs /\ \A r \in Procs \ {q} : t.mm[r] = k.mm[r]
  BY <1>1, <1>2
<1> HIDE DEF m
<1>4. DOMAIN n = MmFields /\ n.pgdir = m.pgdir /\ n.areas = x /\ n.pd = m.pd /\ n.pte = m.pte
  BY <1>1 DEF n, MmFields
<1>5. AreasSet(k, t, q, x)
  BY <1>3, <1>4 DEF m, AreasSet, OnlyMm
<1>6. MmFormed(t.mm[q])
  BY <1>1, <1>3, <1>4 DEF MmFormed
<1> QED BY <1>3, <1>4, <1>5, <1>6, OnlyMmGood DEF AreasSet, HasMm

\* Only memory may be another, and of the mm that of q alone.
Near(k, t, q) ==
  /\ t.state = k.state /\ t.kstack = k.kstack /\ t.disk = k.disk /\ t.fifo = k.fifo /\ t.pra = k.pra
  /\ OnlyMm(k, t, q)

\* No page is in its swap slot.
NoSwap(k) == \A q \in Procs : HasMm(k, q) => \A v \in Addresses : k.mm[q].pte[v] # SwapEntry

Clean(k, H) == k.halt = "none" /\ Sound(k, H) /\ NoSwap(k)

\* What others hold is as it was.
CellsBeside(k, t, q) ==
  \A r \in Procs, w \in Addresses : r # q => CellIn(t, r, w) = CellIn(k, r, w)

\* Two steps that leave the other processes alone are one.
LEMMA NearTwice ==
  ASSUME NEW k, NEW s, NEW t, NEW q, Near(k, s, q), Near(s, t, q)
  PROVE  Near(k, t, q)
  BY DEF Near, OnlyMm

\* A step beside the others leaves them alone.
LEMMA BesideNear ==
  ASSUME NEW k, NEW t, NEW q, Beside(k, t, q)
  PROVE  Near(k, t, q) /\ HasMm(t, q) /\ t.ret = k.ret
  BY DEF Near, Beside, Same

\* So does no step at all.
LEMMA NearSelf ==
  ASSUME NEW k, Good(k), NEW q
  PROVE  Near(k, k, q)
  BY DEF Near, OnlyMm, Good

\* Nothing but the result, or a page in hand, is another.
LEMMA SoundSame ==
  ASSUME NEW k, NEW t, NEW H, t.area = k.area, t.ref = k.ref, t.data = k.data, t.mm = k.mm, t.kstack = k.kstack
  PROVE  /\ Sound(k, H) => Sound(t, H)
         /\ NoSwap(k) => NoSwap(t)
<1>1. Map(t) = Map(k)
  BY MapSame
<1>2. \A q \in Procs : HasMm(t, q) <=> HasMm(k, q)
  BY DEF HasMm
<1> QED BY <1>1, <1>2 DEF Sound, NoSwap

\* An assignment to the result changes neither pages nor places.
LEMMA RetIs ==
  ASSUME NEW k, Good(k), NEW x, NEW t, t = [k EXCEPT !.ret = x]
  PROVE  /\ Good(t) /\ t.mm = k.mm /\ t.halt = k.halt /\ t.data = k.data /\ t.ret = x
         /\ \A H : Clean(k, H) => Clean(t, H)
         /\ \A q \in Procs : Near(k, t, q) /\ (HasMm(k, q) => HasMm(t, q))
         /\ CellsSame(k, t)
<1>1. DOMAIN k = KFields
  BY DEF Good
<1>2. /\ DOMAIN t = KFields /\ t.mm = k.mm /\ t.halt = k.halt /\ t.data = k.data /\ t.ret = x
      /\ t.area = k.area /\ t.ref = k.ref /\ t.state = k.state /\ t.kstack = k.kstack /\ t.disk = k.disk
      /\ t.fifo = k.fifo /\ t.pra = k.pra
  BY <1>1 DEF KFields
<1>3. Good(t)
  BY <1>2 DEF Good
<1>4. \A H : Clean(k, H) => Clean(t, H)
  BY <1>2, SoundSame DEF Clean
<1>5. \A q \in Procs : Near(k, t, q) /\ (HasMm(k, q) => HasMm(t, q))
  BY <1>2 DEF Near, OnlyMm, Good, HasMm
<1>6. CellsSame(k, t)
  BY <1>2 DEF CellsSame, CellIn, HasMm
<1> QED BY <1>2, <1>3, <1>4, <1>5, <1>6

\* Area a is one more.
Added(k, H, q, a, t) ==
  /\ Clean(k, H) /\ Clean(t, H) /\ CellsSame(k, t)
  /\ \A v \in Addresses : InArea(t.mm[q].areas, v) <=> InArea(k.mm[q].areas, v) \/ (a.start <= v /\ v < a.end)
  /\ \A v \in Addresses : a.start <= v /\ v < a.end => t.mm[q].pte[v] = Zero

\* insert_vma_struct: the area is one more of the mm, and bare, or the overlap is asserted against.
LEMMA InsertVmaIs ==
  ASSUME NEW k, NEW H, Good(k), NEW q \in Procs, HasMm(k, q), k.halt = "none" => Clean(k, H),
         NEW a \in AreaTypes, NEW t, t = InsertVma(k, q, a)
  PROVE  /\ Good(t) /\ Near(k, t, q) /\ HasMm(t, q) /\ t.ret = k.ret
         /\ t.mm[q].pgdir = k.mm[q].pgdir /\ t.mm[q].pte = k.mm[q].pte /\ t.mm[q].pd = k.mm[q].pd
         /\ t.halt = "none" => Added(k, H, q, a, t)
<1> DEFINE s     == k.mm[q].areas
           later == {i \in DOMAIN s : s[i].start > a.start}
           at    == IF later = {} THEN Len(s) + 1 ELSE Min(later)
           bad   == Clash(s, at, a)
           x     == InsertAt(s, at, a)
           u     == [k EXCEPT !.mm[q].areas = InsertAt(@, at, a)]
<1>1. t = PanicIf(u, bad, "overlap")
  BY Zenon DEF InsertVma
<1>2. s \in Seq(AreaTypes) /\ DOMAIN s = 1 .. Len(s) /\ Len(s) \in Nat
  BY MmKinds
<1> HIDE DEF s
<1>3. at \in 1 .. Len(s) + 1
  <2>1. CASE later = {}
    <3>1. at = Len(s) + 1
      BY <2>1
    <3> HIDE DEF at
    <3> QED BY <1>2, <3>1
  <2>2. CASE later # {}
    <3>1. later \subseteq Nat /\ later \subseteq 1 .. Len(s)
      BY <1>2
    <3>2. Min(later) \in later
      BY <2>2, <3>1, MinOf
    <3>3. at = Min(later)
      BY <2>2
    <3> HIDE DEF later, at
    <3>4. at \in 1 .. Len(s)
      BY <3>1, <3>2, <3>3
    <3> QED BY <1>2, <3>4
  <2> QED BY <2>1, <2>2
<1> HIDE DEF at
<1>4. x \in Seq(AreaTypes)
  <2>1. Longer(x, s, at, a, AreaTypes)
    BY <1>2, <1>3, InsertLonger
  <2> QED BY <2>1 DEF Longer
<1>5. DOMAIN k = KFields /\ k.halt # "assert"
  BY DEF Good
<1>6. u = [k EXCEPT !.mm[q].areas = x]
  <2>1. DOMAIN k.mm = Procs /\ DOMAIN k.mm[q] = MmFields
    BY DEF Good, HasMm
  <2> QED BY <1>5, <2>1 DEF s, MmFields, KFields
<1> HIDE DEF x, bad
<1>7. /\ DOMAIN u = KFields /\ u.halt = k.halt /\ u.data = k.data /\ u.ret = k.ret
      /\ u.area = k.area /\ u.ref = k.ref /\ u.state = k.state /\ u.kstack = k.kstack /\ u.disk = k.disk
      /\ u.fifo = k.fifo /\ u.pra = k.pra /\ u.mm = [k.mm EXCEPT ![q].areas = x]
  BY <1>5, <1>6 DEF KFields
<1> HIDE DEF u
<1>8. /\ DOMAIN t = KFields /\ t.data = u.data /\ t.ret = u.ret
      /\ t.area = u.area /\ t.ref = u.ref /\ t.state = u.state /\ t.kstack = u.kstack /\ t.disk = u.disk
      /\ t.fifo = u.fifo /\ t.pra = u.pra /\ t.mm = u.mm /\ t.halt # "assert"
      /\ (t.halt = "none" => k.halt = "none" /\ ~bad)
  <2>1. CASE bad /\ u.halt = "none"
    BY <1>1, <1>7, <2>1 DEF PanicIf, KFields
  <2>2. CASE ~(bad /\ u.halt = "none")
    BY <1>1, <1>5, <1>7, <2>2 DEF PanicIf
  <2> QED BY <2>1, <2>2
<1>9. AreasSet(k, t, q, x) /\ Good(t) /\ HasMm(t, q)
  BY <1>4, <1>7, <1>8, AreasChange, ZenonT(60)
<1>10. Near(k, t, q)
  BY <1>7, <1>8, <1>9 DEF Near, AreasSet
<1>11. ASSUME t.halt = "none" PROVE Added(k, H, q, a, t)
  <2>1. k.halt = "none" /\ ~bad /\ Clean(k, H) /\ Sound(k, H) /\ NoSwap(k)
    BY <1>8, <1>11 DEF Clean
  <2>2. MmSound(k.mm[q])
    BY <2>1 DEF Sound
  <2>3. AreasApart(s)
    BY <2>2 DEF MmSound, s
  <2>4. (at > 1 => s[at - 1].end <= a.start) /\ (at <= Len(s) => a.end <= s[at].start)
    <3>1. \A i \in DOMAIN s : s[i].start \in Nat /\ s[i].end \in Nat
      BY <1>2 DEF AreaTypes
    <3>2. a.start \in Nat /\ a.end \in Nat
      BY DEF AreaTypes
    <3>3. at > 1 => at - 1 \in DOMAIN s
      BY <1>2, <1>3
    <3>4. at <= Len(s) => at \in DOMAIN s
      BY <1>2, <1>3
    <3> QED BY <2>1, <3>1, <3>2, <3>3, <3>4 DEF bad, Clash
  <2>5. /\ AreasApart(x)
        /\ \A v \in Addresses : InArea(x, v) <=> InArea(s, v) \/ (a.start <= v /\ v < a.end)
        /\ \A v \in Addresses : a.start <= v /\ v < a.end => ~InArea(s, v)
    BY <1>2, <1>3, <2>3, <2>4, ApartInsert DEF x
  <2>6. /\ t.mm[q].areas = x /\ t.mm[q].pte = k.mm[q].pte /\ t.mm[q].pd = k.mm[q].pd
        /\ t.mm[q].pgdir = k.mm[q].pgdir
    BY <1>9 DEF AreasSet
  <2>7. Map(t) = Map(k)
    BY <1>7, <1>8, <1>9, AreasMap
  <2>8. ASSUME NEW r \in Procs, HasMm(t, r) PROVE MmSound(t.mm[r]) /\ HasMm(k, r)
    <3>1. CASE r # q
      <4>1. t.mm[r] = k.mm[r]
        BY <1>9, <3>1 DEF AreasSet, OnlyMm
      <4> QED BY <2>1, <2>8, <4>1 DEF Sound, HasMm
    <3>2. CASE r = q
      <4>1. MmSound(t.mm[q])
        BY <2>2, <2>5, <2>6 DEF MmSound, s
      <4> QED BY <3>2, <4>1
    <3> QED BY <3>1, <3>2
  <2>9. Sound(t, H)
    BY <1>7, <1>8, <2>1, <2>7, <2>8 DEF Sound
  <2>10. \A r \in Procs : /\ HasMm(t, r) <=> HasMm(k, r)
                          /\ t.mm[r].pte = k.mm[r].pte
    <3> SUFFICES ASSUME NEW r \in Procs PROVE (HasMm(t, r) <=> HasMm(k, r)) /\ t.mm[r].pte = k.mm[r].pte
      OBVIOUS
    <3>1. CASE r # q
      BY <1>9, <3>1 DEF AreasSet, OnlyMm, HasMm
    <3>2. CASE r = q
      BY <1>9, <2>6, <3>2
    <3> QED BY <3>1, <3>2
  <2>11. NoSwap(t)
    BY <2>1, <2>10, SMTT(30) DEF NoSwap
  <2>12. CellsSame(k, t)
    BY <1>7, <1>8, <2>10 DEF CellsSame, CellIn
  <2>13. \A v \in Addresses : a.start <= v /\ v < a.end => t.mm[q].pte[v] = Zero
    BY <2>2, <2>5, <2>6 DEF MmSound, s
  <2>14. Clean(t, H)
    BY <1>11, <2>9, <2>11 DEF Clean
  <2> QED BY <2>1, <2>5, <2>6, <2>12, <2>13, <2>14 DEF Added, s
<1>12. t.mm[q].pgdir = k.mm[q].pgdir /\ t.mm[q].pte = k.mm[q].pte /\ t.mm[q].pd = k.mm[q].pd /\ t.ret = k.ret
  BY <1>7, <1>8, <1>9 DEF AreasSet
<1> QED BY <1>9, <1>10, <1>11, <1>12
=============================================================================
