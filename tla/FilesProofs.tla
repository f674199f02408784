---------------------------- MODULE FilesProofs ----------------------------
(***************************************************************************)
(* Proofs about Files, for any processes, files, directories, descriptors, *)
(* sizes of the disk and programs: the counts of an inode are those of the *)
(* descriptors and working directories that refer to it, and every block   *)
(* of the disk is free or at one place of one file.                        *)
(*                                                                         *)
(* A call is a function of a copy k of the state.  The proof has four      *)
(* layers.  What Sfs does to a file leaves all counts alone (Same), also   *)
(* the loops, which are followed turn by turn.  It leaves the file system  *)
(* sound (Fit): the places of all files (Map) and the bitmap agree at      *)
(* every step, with the blocks in hand (Exact), while the file at work is  *)
(* on its way from one size to another (Part).  The steps of kern/fs/vfs   *)
(* add or take one count (Counted, Up, Down), and none of their assertions *)
(* fails.  What they do to an inode is matched by what the call does to    *)
(* the tables (Whole), with E for the references that no table has: those  *)
(* of the call in hand, those the kernel has for good, and leaked ones.    *)
(***************************************************************************)
EXTENDS Files, FiniteSetTheorems, FunctionTheorems, WellFoundedInduction, TLAPS

\* The fields of a copy, and those of an inode on disk and in memory.
KFields == {"freemap", "unused", "superDirty", "super", "data", "dinode", "inode", "starved",
            "halt", "files", "leaked", "got", "len", "ret"}

DinFields == {"size", "blocks", "direct", "indirect"}
Record(d) == d = [x \in DinFields |-> d[x]]

DinOK(d) ==
  /\ Record(d) /\ DOMAIN d = DinFields
  /\ d.size \in Nat /\ d.blocks \in Nat /\ DOMAIN d.direct = 0 .. NDirect - 1

\* An inode on disk of which one field changes.
WithSize(d, x)      == [d EXCEPT !.size = x]
WithBlocks(d, x)    == [d EXCEPT !.blocks = x]
WithDirect(d, n, x) == [d EXCEPT !.direct[n] = x]
WithIndirect(d, x)  == [d EXCEPT !.indirect = x]

\* An on-disk inode with one field set has the other fields as they were.
LEMMA DinWith ==
  ASSUME NEW d, DinOK(d), NEW x
  PROVE  /\ x \in Nat => /\ DinOK(WithSize(d, x)) /\ WithSize(d, x).size = x
                         /\ WithSize(d, x).blocks = d.blocks /\ WithSize(d, x).direct = d.direct
                         /\ WithSize(d, x).indirect = d.indirect
         /\ x \in Nat => /\ DinOK(WithBlocks(d, x)) /\ WithBlocks(d, x).blocks = x
                         /\ WithBlocks(d, x).size = d.size /\ WithBlocks(d, x).direct = d.direct
                         /\ WithBlocks(d, x).indirect = d.indirect
         /\ /\ DinOK(WithIndirect(d, x)) /\ WithIndirect(d, x).blocks = d.blocks
            /\ WithIndirect(d, x).size = d.size /\ WithIndirect(d, x).direct = d.direct
            /\ WithIndirect(d, x).indirect = x
         /\ \A n : /\ DinOK(WithDirect(d, n, x)) /\ WithDirect(d, n, x).blocks = d.blocks
                   /\ WithDirect(d, n, x).size = d.size
                   /\ WithDirect(d, n, x).indirect = d.indirect
                   /\ \A m \in 0 .. NDirect - 1 :
                        WithDirect(d, n, x).direct[m] = IF m = n THEN x ELSE d.direct[m]
  BY DEF DinOK, Record, DinFields, WithSize, WithBlocks, WithIndirect, WithDirect

\* A set direct place changes no other place, nor the size or the count of blocks.
LEMMA DirectWith ==
  ASSUME NEW d, DinOK(d), NEW x, NEW n
  PROVE  /\ DinOK(WithDirect(d, n, x)) /\ WithDirect(d, n, x).blocks = d.blocks
         /\ WithDirect(d, n, x).size = d.size /\ WithDirect(d, n, x).indirect = d.indirect
         /\ \A m \in 0 .. NDirect - 1 :
              WithDirect(d, n, x).direct[m] = IF m = n THEN x ELSE d.direct[m]
  BY DEF DinOK, Record, DinFields, WithDirect

\* An inode that is in memory, or is not.
NodeOK(a) ==
  \/ a = NotLoaded
  \/ DOMAIN a = {"ref", "open", "reclaim", "dirty", "din"} /\ DinOK(a.din)

\* The parts of a copy of the state that matter here have their types.
Good(k) ==
  /\ DOMAIN k = KFields
  /\ DOMAIN k.inode = Inodes /\ \A i \in Inodes : NodeOK(k.inode[i])
  /\ DOMAIN k.dinode = Files \cup Dirs /\ \A i \in Files \cup Dirs : DinOK(k.dinode[i])
  /\ k.len \in Nat

\* Inode i is in memory.
Loaded(k, i) == k.inode[i] # NotLoaded

\* An inode and the same one later, with its counts as they were.
Alike(a, b) ==
  /\ a = NotLoaded <=> b = NotLoaded
  /\ a # NotLoaded => b.ref = a.ref /\ b.open = a.open /\ b.reclaim = a.reclaim

\* The counts of no inode have changed.
Same(k, t) ==
  /\ Good(t)
  /\ t.halt = "none" => k.halt = "none"
  /\ t.files = k.files /\ t.leaked = k.leaked
  /\ \A i \in Inodes : Alike(k.inode[i], t.inode[i])

\* Nor has anything else of an inode, or the length of a transfer.
Plain(k, t) ==
  /\ DOMAIN t = KFields
  /\ t.halt = "none" => k.halt = "none"
  /\ t.files = k.files /\ t.leaked = k.leaked
  /\ t.inode = k.inode /\ t.dinode = k.dinode /\ t.len = k.len

\* What is left plain is left the same.
LEMMA PlainSame ==
  ASSUME NEW k, Good(k), NEW t, Plain(k, t)
  PROVE  Same(k, t)
  BY DEF Plain, Same, Good, Alike

\* Two steps that leave the counts alone leave them alone together.
LEMMA SameTwice ==
  ASSUME NEW k, NEW s, NEW t, Same(k, s), Same(s, t)
  PROVE  Same(k, t)
  BY DEF Same, Alike

\* So do two that leave inodes as they are.
LEMMA PlainTwice ==
  ASSUME NEW k, NEW s, NEW t, Plain(k, s), Plain(s, t)
  PROVE  Plain(k, t)
  BY DEF Plain

\* A panic stops the kernel and changes nothing else.
LEMMA PanicPlain ==
  ASSUME NEW k, DOMAIN k = KFields, NEW c, NEW why, why # "none"
  PROVE  Plain(k, PanicIf(k, c, why)) /\ PanicIf(k, c, why).ret = k.ret
  BY DEF Plain, PanicIf, KFields

\* sfs_block_alloc changes the bitmap and data alone.
LEMMA AllocPlain ==
  ASSUME NEW k, DOMAIN k = KFields
  PROVE  Plain(k, BlockAlloc(k))
<1> DEFINE t == PanicIf(k, k.unused = 0, "assert")
<1>1. Plain(k, t)
  BY PanicPlain
<1> HIDE DEF t
<1> QED BY <1>1 DEF BlockAlloc, Plain, KFields, t

\* So does sfs_block_free.
LEMMA FreePlain ==
  ASSUME NEW k, DOMAIN k = KFields, NEW b
  PROVE  Plain(k, BlockFree(k, b)) /\ BlockFree(k, b).ret = k.ret
<1> DEFINE t == PanicIf(k, b \notin Blocks \ k.freemap, "assert")
<1>1. Plain(k, t) /\ t.ret = k.ret
  BY PanicPlain
<1>2. BlockFree(k, b) = [t EXCEPT !.freemap = @ \cup {b}, !.unused = @ + 1, !.superDirty = TRUE]
  BY DEF BlockFree
<1> HIDE DEF t
<1> QED BY <1>1, <1>2 DEF Plain, KFields

NodeFields == {"ref", "open", "reclaim", "dirty", "din"}

\* An inode in memory of which din and dirty alone have changed.
Redone(a, b) ==
  /\ DOMAIN b = NodeFields /\ DinOK(b.din)
  /\ b.ref = a.ref /\ b.open = a.open /\ b.reclaim = a.reclaim

\* An inode in memory has all its fields.
LEMMA LoadedNode ==
  ASSUME NEW k, Good(k), NEW i \in Inodes, Loaded(k, i)
  PROVE  /\ DOMAIN k = KFields /\ DOMAIN k.inode = Inodes /\ k.len \in Nat
         /\ Redone(k.inode[i], k.inode[i])
         /\ Din(k, i) = k.inode[i].din
  BY DEF Good, NodeOK, NodeFields, Loaded, Din, Redone

\* Of the inodes, and what else matters here, t has changed inode i alone.
OnlyAt(k, t, i) ==
  /\ DOMAIN t = KFields /\ (t.halt = "none" => k.halt = "none")
  /\ t.files = k.files /\ t.leaked = k.leaked /\ t.dinode = k.dinode /\ t.len \in Nat
  /\ DOMAIN t.inode = Inodes /\ \A j \in Inodes \ {i} : t.inode[j] = k.inode[j]

\* A change of din and dirty of one inode leaves all counts alone.
LEMMA NodeSame ==
  ASSUME NEW k, Good(k), NEW i \in Inodes, Loaded(k, i), NEW t, OnlyAt(k, t, i),
         Redone(k.inode[i], t.inode[i])
  PROVE  Same(k, t)
<1> USE DEF OnlyAt
<1>1. k.inode[i] # NotLoaded /\ t.inode[i] # NotLoaded
  BY DEF Redone, Loaded, NotLoaded, NodeFields
<1>2. NodeOK(t.inode[i]) /\ Alike(k.inode[i], t.inode[i])
  BY <1>1 DEF Redone, Alike, NodeOK, NodeFields
<1>3. \A j \in Inodes : NodeOK(t.inode[j]) /\ Alike(k.inode[j], t.inode[j])
  BY <1>2 DEF Good, Alike
<1> QED BY <1>3 DEF Same, Good

\* What s has besides the inodes in memory is in t too.
Beside(s, t) ==
  /\ DOMAIN t = KFields /\ DOMAIN t.inode = DOMAIN s.inode
  /\ t.halt = s.halt /\ t.files = s.files /\ t.leaked = s.leaked
  /\ t.dinode = s.dinode /\ t.len = s.len /\ t.ret = s.ret

Put(s, i, b) == [s EXCEPT !.inode[i] = b]

\* What an inode is set to, and what stays.
LEMMA PutNode ==
  ASSUME NEW s, DOMAIN s = KFields, NEW i \in DOMAIN s.inode, NEW b
  PROVE  /\ Beside(s, Put(s, i, b)) /\ Put(s, i, b).inode[i] = b
         /\ \A j \in DOMAIN s.inode \ {i} : Put(s, i, b).inode[j] = s.inode[j]
<1> DEFINE f == [s.inode EXCEPT ![i] = b]
           t == [s EXCEPT !.inode = f]
<1>1. DOMAIN f = DOMAIN s.inode /\ f[i] = b /\ \A j \in DOMAIN s.inode \ {i} : f[j] = s.inode[j]
  OBVIOUS
<1>2. t = Put(s, i, b)
  BY DEF Put
<1> HIDE DEF f
<1>3. Beside(s, t) /\ t.inode = f
  BY <1>1 DEF Beside, KFields
<1> HIDE DEF t
<1> QED BY <1>1, <1>2, <1>3

\* A change within one inode in memory, after a step that changed none.
LEMMA NodeChanged ==
  ASSUME NEW k, Good(k), NEW i \in Inodes, Loaded(k, i),
         NEW s, Plain(k, s), NEW b, Redone(k.inode[i], b)
  PROVE  Same(k, Put(s, i, b)) /\ Put(s, i, b).inode[i] = b /\ Put(s, i, b).ret = s.ret
<1> DEFINE t == Put(s, i, b)
<1>1. /\ DOMAIN s = KFields /\ i \in DOMAIN s.inode /\ s.inode = k.inode /\ DOMAIN k.inode = Inodes
      /\ k.len \in Nat
  BY DEF Good, Plain
<1>2. Beside(s, t) /\ t.inode[i] = b /\ \A j \in DOMAIN s.inode \ {i} : t.inode[j] = s.inode[j]
  BY <1>1, PutNode
<1> HIDE DEF t
<1>3. OnlyAt(k, t, i)
  BY <1>1, <1>2 DEF Beside, Plain, OnlyAt
<1>4. Redone(k.inode[i], t.inode[i])
  BY <1>2
<1>5. Same(k, t)
  BY <1>3, <1>4, NodeSame
<1>6. t.inode[i] = b /\ t.ret = s.ret
  BY <1>2 DEF Beside
<1> QED BY <1>5, <1>6 DEF t

\* sfs_bmap_get_nolock sets a direct block.
LEMMA SetDirectSame ==
  ASSUME NEW k, Good(k), NEW i \in Inodes, Loaded(k, i), NEW s, Plain(k, s), NEW index
  PROVE  Same(k, SetDirect(s, i, index))
<1>1. CASE Failed(s)
  BY <1>1, PlainSame DEF SetDirect
<1>2. CASE ~Failed(s)
  <2> DEFINE a == s.inode[i]
             d == [a.din EXCEPT !.direct[index] = s.got]
             b == [[a EXCEPT !.din = d] EXCEPT !.dirty = TRUE]
             t == Put(s, i, b)
  <2>1. s.inode = k.inode /\ Redone(k.inode[i], a)
    BY LoadedNode DEF Plain
  <2>2. DinOK(d)
    BY <2>1 DEF DinOK, Record, DinFields, Redone
  <2>3. Redone(k.inode[i], b)
    <3> HIDE DEF d, a
    <3> QED BY <2>1, <2>2 DEF Redone, NodeFields
  <2>4. SetDirect(s, i, index) = t
    BY <1>2 DEF SetDirect, Put
  <2> HIDE DEF b, a, d
  <2> QED BY <2>3, <2>4, NodeChanged
<1> QED BY <1>1, <1>2

\* An entry of a block of entries is in data.
LEMMA SetEntryPlain ==
  ASSUME NEW k, DOMAIN k = KFields, NEW ent, NEW j
  PROVE  Plain(k, SetEntry(k, ent, j))
  BY DEF SetEntry, Plain, KFields

\* sfs_bmap_get_sub_nolock sets the block of entries, or gives it back.
LEMMA SetIndirectSame ==
  ASSUME NEW k, Good(k), NEW i \in Inodes, Loaded(k, i), NEW s, Plain(k, s), NEW ent, NEW j
  PROVE  Same(k, SetIndirect(s, i, ent, j))
<1>0. DOMAIN s = KFields
  BY DEF Plain
<1>1. CASE Failed(s)
  BY <1>0, <1>1, FreePlain, PlainTwice, PlainSame DEF SetIndirect
<1>2. CASE ~Failed(s)
  <2> DEFINE r == SetEntry(s, ent, j)
             a == r.inode[i]
             d == [a.din EXCEPT !.indirect = ent]
             b == [[a EXCEPT !.din = d] EXCEPT !.dirty = TRUE]
             t == Put(r, i, b)
  <2>0. Plain(k, r)
    BY <1>0, SetEntryPlain, PlainTwice
  <2>1. r.inode = k.inode /\ Redone(k.inode[i], a)
    BY <2>0, LoadedNode DEF Plain
  <2>4. SetIndirect(s, i, ent, j) = t
    <3> HIDE DEF r
    <3> QED BY <1>2 DEF SetIndirect, Put, r
  <2> HIDE DEF r
  <2>2. DinOK(d)
    BY <2>1 DEF DinOK, Record, DinFields, Redone
  <2>3. Redone(k.inode[i], b)
    <3> HIDE DEF d, a
    <3> QED BY <2>1, <2>2 DEF Redone, NodeFields
  <2> HIDE DEF b, a, d
  <2> QED BY <2>0, <2>3, <2>4, NodeChanged
<1> QED BY <1>1, <1>2

\* The block found is no part of an inode.
LEMMA GotPlain ==
  ASSUME NEW k, DOMAIN k = KFields, NEW b
  PROVE  Plain(k, [k EXCEPT !.got = b])
  BY DEF Plain, KFields

\* sfs_bmap_get_sub_nolock leaves the counts alone.
LEMMA BmapGetSubSame ==
  ASSUME NEW k, Good(k), NEW i \in Inodes, Loaded(k, i), NEW j, NEW create \in BOOLEAN
  PROVE  Same(k, BmapGetSub(k, i, j, create))
<1> DEFINE ent == Din(k, i).indirect
           t == BlockAlloc(k)
<1>0. DOMAIN k = KFields
  BY DEF Good
<1>1. Plain(k, t) /\ DOMAIN t = KFields
  BY <1>0, AllocPlain DEF Plain
<1>2. Plain(k, BlockAlloc(t))
  BY <1>1, AllocPlain, PlainTwice
<1>3. Same(k, SetIndirect(BlockAlloc(t), i, t.got, j)) /\ Same(k, t)
  BY <1>1, <1>2, SetIndirectSame, PlainSame
<1>4. Same(k, SetEntry(t, ent, j))
  BY <1>1, SetEntryPlain, PlainTwice, PlainSame
<1>5. \A b : Same(k, [k EXCEPT !.got = b])
  BY <1>0, GotPlain, PlainSame
<1> HIDE DEF t, ent
<1>6. \/ \E b : BmapGetSub(k, i, j, create) = [k EXCEPT !.got = b]
      \/ BmapGetSub(k, i, j, create) = SetEntry(t, ent, j)
      \/ BmapGetSub(k, i, j, create) = SetIndirect(BlockAlloc(t), i, t.got, j)
      \/ BmapGetSub(k, i, j, create) = t
  BY DEF BmapGetSub, t, ent
<1> QED BY <1>3, <1>4, <1>5, <1>6

\* So does sfs_bmap_get_nolock.
LEMMA BmapGetSame ==
  ASSUME NEW k, Good(k), NEW i \in Inodes, Loaded(k, i), NEW index \in Nat, NEW create \in BOOLEAN
  PROVE  Same(k, BmapGet(k, i, index, create))
<1> DEFINE s == BlockAlloc(k)
           t == BmapGet(k, i, index, create)
<1>0. DOMAIN k = KFields
  BY DEF Good
<1>1. Same(k, SetDirect(s, i, index))
  BY <1>0, AllocPlain, SetDirectSame
<1>2. Same(k, BmapGetSub(k, i, index - NDirect, create))
  BY BmapGetSubSame
<1>3. Same(k, PanicIf(k, TRUE, "range"))
  BY <1>0, PanicPlain, PlainSame
<1>4. \A b : Same(k, [k EXCEPT !.got = b])
  BY <1>0, GotPlain, PlainSame
<1> HIDE DEF s
<1> HIDE DEF t
<1>5. CASE index >= NDirect + BlkWords
  <2>1. ~(index < NDirect) /\ ~(index < NDirect + BlkWords)
    BY <1>5, SfsAssumption
  <2>2. t = PanicIf(k, TRUE, "range")
    BY <1>5, <2>1 DEF BmapGet, t
  <2> QED BY <1>3, <2>2 DEF t
<1>6. CASE index >= NDirect /\ index < NDirect + BlkWords
  <2>1. ~(index >= NDirect + BlkWords) /\ ~(index < NDirect)
    BY <1>6, SfsAssumption
  <2>2. t = BmapGetSub(k, i, index - NDirect, create)
    BY <1>6, <2>1 DEF BmapGet, t
  <2> QED BY <1>2, <2>2 DEF t
<1>7. CASE index < NDirect
  <2>1. ~(index >= NDirect + BlkWords) /\ ~(index >= NDirect)
    BY <1>7, SfsAssumption
  <2>2. t \in {SetDirect(s, i, index), [k EXCEPT !.got = Din(k, i).direct[index]]}
    BY <1>7, <2>1 DEF BmapGet, s, t
  <2> QED BY <1>1, <1>4, <2>2 DEF t
<1>8. index < NDirect \/ (index >= NDirect /\ index < NDirect + BlkWords) \/ index >= NDirect + BlkWords
  BY SfsAssumption
<1> QED BY <1>5, <1>6, <1>7, <1>8 DEF t

\* What was in memory stays there.
LEMMA SameLoaded ==
  ASSUME NEW k, NEW t, Same(k, t), NEW i \in Inodes, Loaded(k, i)
  PROVE  Good(t) /\ Loaded(t, i)
  BY DEF Same, Alike, Loaded

PutDin(s, i, d)   == [s EXCEPT !.inode[i].din = d]
PutDirty(s, i, d) == [s EXCEPT !.inode[i].din = d, !.inode[i].dirty = TRUE]

\* An inode gets another din.
LEMMA DinSet ==
  ASSUME NEW k, Good(k), NEW i \in Inodes, Loaded(k, i), NEW s, Plain(k, s), NEW d, DinOK(d)
  PROVE  /\ Same(k, PutDin(s, i, d)) /\ PutDin(s, i, d).inode[i].din = d
         /\ PutDin(s, i, d).ret = s.ret
<1> DEFINE t == PutDin(s, i, d)
           a == s.inode[i]
           b == [a EXCEPT !.din = d]
<1>1. s.inode = k.inode /\ Redone(k.inode[i], a)
  BY LoadedNode DEF Plain
<1>2. Redone(k.inode[i], b) /\ b.din = d
  <2> HIDE DEF a
  <2> QED BY <1>1 DEF Redone, NodeFields
<1>3. t = Put(s, i, b)
  BY DEF Put, PutDin
<1> HIDE DEF b
<1>4. Same(k, Put(s, i, b)) /\ Put(s, i, b).inode[i] = b /\ Put(s, i, b).ret = s.ret
  BY <1>2, NodeChanged
<1>5. Same(k, t) /\ t.inode[i] = b /\ t.ret = s.ret
  BY <1>3, <1>4
<1> QED BY <1>2, <1>5

\* sfs_bmap_load_nolock leaves the counts alone.
LEMMA BmapLoadSame ==
  ASSUME NEW k, Good(k), NEW i \in Inodes, Loaded(k, i), NEW index \in Nat
  PROVE  Same(k, BmapLoad(k, i, index))
<1> DEFINE n == Din(k, i).blocks
           t == BmapGet(k, i, index, index = n)
           s == PanicIf(t, t.got \notin Blocks \ t.freemap, "assert")
           m == IF index = n THEN n + 1 ELSE n
           u == [s EXCEPT !.inode[i].din.blocks = m]
<1>0. DOMAIN k = KFields /\ m \in Nat
  BY LoadedNode DEF Good, Redone, DinOK
<1>1. Same(k, t) /\ Good(t) /\ Loaded(t, i)
  BY BmapGetSame, SameLoaded
<1>2. Plain(t, s)
  BY <1>1, PanicPlain DEF Good
<1>3. Same(k, u)
  <2> DEFINE d == [s.inode[i].din EXCEPT !.blocks = m]
  <2>1. s.inode = t.inode
    BY <1>2 DEF Plain
  <2>2. DinOK(d)
    <3>1. d = WithBlocks(s.inode[i].din, m)
      BY DEF WithBlocks
    <3> HIDE DEF s, t, m, d
    <3>2. DinOK(s.inode[i].din)
      BY <1>1, <2>1, LoadedNode DEF Redone
    <3> QED BY <1>0, <3>1, <3>2, DinWith
  <2>3. u = PutDin(s, i, d)
    BY DEF u, PutDin
  <2> HIDE DEF u, d, s, t, m
  <2>4. Same(t, PutDin(s, i, d))
    BY <1>1, <1>2, <2>2, DinSet
  <2> QED BY <1>1, <2>3, <2>4, SameTwice
<1>4. Same(k, PanicIf(k, TRUE, "index"))
  BY <1>0, PanicPlain, PlainSame
<1>5. BmapLoad(k, i, index) \in {PanicIf(k, TRUE, "index"), t, u}
  <2> HIDE DEF s, t, m
  <2> QED BY DEF BmapLoad, t, s, m
<1> HIDE DEF u, t
<1> QED BY <1>1, <1>3, <1>4, <1>5

\* An inode gets another din, and is dirty.
LEMMA DinDirty ==
  ASSUME NEW k, Good(k), NEW i \in Inodes, Loaded(k, i), NEW s, Plain(k, s), NEW d, DinOK(d)
  PROVE  /\ Same(k, PutDirty(s, i, d)) /\ PutDirty(s, i, d).inode[i].din = d
         /\ PutDirty(s, i, d).ret = s.ret
<1> DEFINE t == PutDirty(s, i, d)
           a == s.inode[i]
           b == [[a EXCEPT !.din = d] EXCEPT !.dirty = TRUE]
<1>1. s.inode = k.inode /\ Redone(k.inode[i], a)
  BY LoadedNode DEF Plain
<1>2. Redone(k.inode[i], b) /\ b.din = d
  <2> HIDE DEF a
  <2> QED BY <1>1 DEF Redone, NodeFields
<1>3. t = Put(s, i, b)
  BY DEF Put, PutDirty
<1> HIDE DEF b
<1>4. Same(k, Put(s, i, b)) /\ Put(s, i, b).inode[i] = b /\ Put(s, i, b).ret = s.ret
  BY <1>2, NodeChanged
<1>5. Same(k, t) /\ t.inode[i] = b /\ t.ret = s.ret
  BY <1>3, <1>4
<1> QED BY <1>2, <1>5

\* The block count of i has not changed either, nor has what the call returns.
SameBlocks(k, t, i) == Same(k, t) /\ Din(t, i).blocks = Din(k, i).blocks /\ t.ret = k.ret

\* sfs_bmap_free_nolock leaves the counts and the number of blocks alone.
LEMMA BmapFreeSame ==
  ASSUME NEW k, Good(k), NEW i \in Inodes, Loaded(k, i), NEW index \in Int
  PROVE  SameBlocks(k, BmapFree(k, i, index), i)
<1> DEFINE j == index - NDirect
           ent == Din(k, i).indirect
           u == BmapFree(k, i, index)
<1>0. DOMAIN k = KFields /\ Redone(k.inode[i], k.inode[i]) /\ Din(k, i) = k.inode[i].din
  BY LoadedNode
<1>1. SameBlocks(k, k, i)
  BY DEF SameBlocks, Same, Alike
<1>2. ASSUME NEW s, s = BlockFree(k, Din(k, i).direct[index]), NEW t,
             t = [s EXCEPT !.inode[i].din.direct[index] = 0]
      PROVE  SameBlocks(k, t, i)
  <2> DEFINE d == [s.inode[i].din EXCEPT !.direct[index] = 0]
  <2>1. Plain(k, s) /\ s.ret = k.ret
    BY <1>0, <1>2, FreePlain, Zenon
  <2>2. DinOK(d) /\ d.blocks = Din(k, i).blocks
    <3>1. s.inode[i].din = Din(k, i) /\ DinOK(Din(k, i))
      BY <1>0, <2>1 DEF Plain, Redone
    <3>2. d = WithDirect(s.inode[i].din, index, 0)
      BY DEF WithDirect
    <3> HIDE DEF d
    <3> QED BY <3>1, <3>2, DirectWith
  <2>3. t = PutDin(s, i, d)
    BY <1>2 DEF PutDin
  <2> HIDE DEF d
  <2>4. /\ Same(k, PutDin(s, i, d)) /\ PutDin(s, i, d).inode[i].din = d
        /\ PutDin(s, i, d).ret = s.ret
    BY <2>1, <2>2, DinSet
  <2> QED BY <2>1, <2>2, <2>3, <2>4 DEF SameBlocks, Din
<1>3. ASSUME NEW s, s = BlockFree(k, k.data[ent][j]), NEW t, t = [s EXCEPT !.data[ent][j] = 0]
      PROVE  SameBlocks(k, t, i)
  <2>1. Plain(k, s) /\ s.ret = k.ret
    BY <1>0, <1>3, FreePlain, Zenon
  <2>2. Plain(s, t) /\ t.ret = s.ret
    BY <1>3, <2>1, Zenon DEF Plain, KFields
  <2>3. Same(k, t) /\ t.ret = k.ret
    BY <2>1, <2>2, PlainTwice, PlainSame
  <2>4. t.inode = k.inode
    BY <2>1, <2>2 DEF Plain
  <2> QED BY <2>3, <2>4 DEF SameBlocks, Din
<1> HIDE DEF u
<1>4. CASE index < NDirect /\ Din(k, i).direct[index] # 0
  <2>1. ~(index >= NDirect)
    BY <1>4, SfsAssumption
  <2>2. u = [BlockFree(k, Din(k, i).direct[index]) EXCEPT !.inode[i].din.direct[index] = 0]
    BY <1>4, <2>1 DEF BmapFree, u
  <2> QED BY <1>2, <2>2, Zenon DEF u
<1>5. CASE index >= NDirect /\ ent # 0 /\ k.data[ent][j] # 0
  <2>1. ~(index < NDirect)
    BY <1>5, SfsAssumption
  <2>2. u = [BlockFree(k, k.data[ent][j]) EXCEPT !.data[ent][j] = 0]
    BY <1>5, <2>1 DEF BmapFree, u
  <2> QED BY <1>3, <2>2, Zenon DEF u
<1>6. CASE /\ ~(index < NDirect /\ Din(k, i).direct[index] # 0)
           /\ ~(index >= NDirect /\ ent # 0 /\ k.data[ent][j] # 0)
  <2>1. u = k
    BY <1>6, Zenon DEF BmapFree, u
  <2> QED BY <1>1, <2>1 DEF u
<1> QED BY <1>4, <1>5, <1>6

\* sfs_bmap_truncate_nolock takes one block.
LEMMA BmapTruncateSame ==
  ASSUME NEW k, Good(k), NEW i \in Inodes, Loaded(k, i), Din(k, i).blocks # 0
  PROVE  /\ Same(k, BmapTruncate(k, i)) /\ BmapTruncate(k, i).ret = k.ret
         /\ Din(BmapTruncate(k, i), i).blocks = Din(k, i).blocks - 1
<1> DEFINE s == BmapFree(k, i, Din(k, i).blocks - 1)
           d == [s.inode[i].din EXCEPT !.blocks = @ - 1]
           t == PutDirty(s, i, d)
<1>0. Din(k, i).blocks - 1 \in Int
  BY LoadedNode DEF Redone, DinOK
<1>1. SameBlocks(k, s, i) /\ Good(s) /\ Loaded(s, i)
  BY <1>0, BmapFreeSame, SameLoaded DEF SameBlocks
<1>2. Redone(s.inode[i], s.inode[i]) /\ Din(s, i) = s.inode[i].din
  BY <1>1, LoadedNode
<1>3. DinOK(d) /\ d.blocks = Din(k, i).blocks - 1
  <2>1. d = WithBlocks(s.inode[i].din, s.inode[i].din.blocks - 1)
    BY DEF WithBlocks
  <2> HIDE DEF s, d
  <2>2. DinOK(s.inode[i].din) /\ s.inode[i].din.blocks = Din(k, i).blocks
    BY <1>1, <1>2 DEF Redone, SameBlocks
  <2>3. s.inode[i].din.blocks - 1 \in Nat
    BY <1>0, <2>2 DEF DinOK
  <2> QED BY <2>1, <2>2, <2>3, DinWith
<1>4. BmapTruncate(k, i) = t
  BY DEF BmapTruncate, PutDirty
<1>5. Plain(s, s)
  BY <1>1 DEF Plain, Good
<1> HIDE DEF d, s
<1>7. Same(s, t) /\ t.inode[i].din = d /\ t.ret = s.ret
  BY <1>1, <1>3, <1>5, DinDirty
<1> HIDE DEF t
<1>8. Same(k, t) /\ t.ret = k.ret /\ Din(t, i) = d
  BY <1>1, <1>7, SameTwice DEF SameBlocks, Din
<1> QED BY <1>3, <1>4, <1>8

\* The end of sfs_truncfile leaves the counts alone.
LEMMA ResizeSame ==
  ASSUME NEW k, Good(k), NEW i \in Inodes, Loaded(k, i), NEW len \in Nat
  PROVE  Same(k, Resize(k, i, len)) /\ Resize(k, i, len).ret = k.ret
<1> DEFINE d == [k.inode[i].din EXCEPT !.size = len]
           t == PutDirty(k, i, d)
<1>1. Plain(k, k) /\ Redone(k.inode[i], k.inode[i])
  BY LoadedNode DEF Plain
<1>2. DinOK(d)
  BY <1>1 DEF DinOK, Record, DinFields, Redone
<1>3. Resize(k, i, len) \in {k, t}
  BY DEF Resize, PutDirty
<1> HIDE DEF d
<1>5. Same(k, t) /\ t.ret = k.ret
  BY <1>1, <1>2, DinDirty
<1> HIDE DEF t
<1> QED BY <1>1, <1>3, <1>5, PlainSame
-----------------------------------------------------------------------------
(* The loops.  Each is a recursive function of the turns it has made.      *)

GrowAt(k, i, now, n) ==
  LET at[m \in 0 .. n] ==
        IF m = 0 THEN k
        ELSE IF Failed(at[m - 1]) THEN at[m - 1] ELSE BmapLoad(at[m - 1], i, now + m - 1)
  IN  at
ShrinkAt(k, i, n) ==
  LET at[m \in 0 .. n] == IF m = 0 THEN k ELSE BmapTruncate(at[m - 1], i) IN at
MoveAt(k, i, first, pos, end, x, n) ==
  LET at[m \in 0 .. n] ==
        IF m = 0 THEN k ELSE IoBlock(at[m - 1], i, first + m - 1, pos, end, x)
  IN  at
CloseAt(k, p, first, n) ==
  LET at[m \in 0 .. n] ==
        IF m = 0 THEN k
        ELSE IF at[m - 1].files[p].fd[first + m - 1] = NoFd THEN at[m - 1]
             ELSE FdClose(at[m - 1], p, first + m - 1)
  IN  at
DupAt(k, to, from, n) ==
  LET at[m \in 0 .. n] ==
        IF m = 0 THEN k
        ELSE IF at[m - 1].files[from].fd[m - 1] = NoFd THEN at[m - 1]
             ELSE FdDup(at[m - 1], to, m - 1, at[m - 1].files[from].fd[m - 1])
  IN  at

\* A turn of one of them, the loop and what it does not change in c.
Turn(c, s, m) ==
  CASE c[1] = "grow"   -> IF Failed(s) THEN s ELSE BmapLoad(s, c[2], c[3] + m - 1)
    [] c[1] = "shrink" -> BmapTruncate(s, c[2])
    [] c[1] = "move"   -> IoBlock(s, c[2], c[3] + m - 1, c[4], c[5], c[6])
    [] c[1] = "close"  -> IF s.files[c[2]].fd[c[3] + m - 1] = NoFd THEN s
                          ELSE FdClose(s, c[2], c[3] + m - 1)
    [] c[1] = "dup"    -> IF s.files[c[3]].fd[m - 1] = NoFd THEN s
                          ELSE FdDup(s, c[2], m - 1, s.files[c[3]].fd[m - 1])

Turned(c, k, n, f) == [m \in 0 .. n |-> IF m = 0 THEN k ELSE Turn(c, f[m - 1], m)]

\* A set of numbers has a least one.
LEMMA Least ==
  ASSUME NEW T, T \subseteq Nat, T # {}
  PROVE  \E m \in T : \A k \in T : m <= k
<1>1. PICK R : IsWellFoundedOn(R, Nat) /\ \A k, m \in Nat : <<k, m>> \in R <=> k < m
  <2> DEFINE R == OpToRel(<, Nat)
  <2>1. IsWellFoundedOn(R, Nat)
    BY NatLessThanWellFounded, Zenon
  <2> QED BY <2>1 DEF OpToRel
<1>2. IsWellFoundedOn(R, Nat)
  BY <1>1
<1>3. \E m \in T : \A k \in T : ~ (<<k, m>> \in R)
  BY <1>2, WFMin, Zenon
<1>4. PICK m \in T : \A k \in T : ~ (<<k, m>> \in R)
  BY <1>3
<1>5. ASSUME NEW k \in T PROVE m <= k
  <2>1. k \in Nat /\ m \in Nat
    OBVIOUS
  <2>2. ~(k < m)
    BY <1>1, <1>4, <2>1
  <2> QED BY <2>1, <2>2
<1> QED BY <1>5

\* Every one of the loops is a function: else some turn would be the first without one.
LEMMA TurnsExist ==
  ASSUME NEW c, NEW k, NEW n \in Nat
  PROVE  \E f : f = Turned(c, k, n, f)
<1> DEFINE Step(f, m) == IF m = 0 THEN k ELSE Turn(c, f[m - 1], m)
           Defined(l) == \E f : f = [m \in 0 .. l |-> Step(f, m)]
           T == {l \in Nat : ~Defined(l)}
<1>1. T = {}
  <2> SUFFICES ASSUME T # {} PROVE FALSE
    OBVIOUS
  <2>1. PICK l \in T : \A j \in T : l <= j
    BY Least
  <2>2. CASE l = 0
    <3> DEFINE g == [m \in 0 .. l |-> k]
    <3>1. g = [m \in 0 .. l |-> Step(g, m)]
      BY <2>2
    <3> QED BY <2>1, <3>1
  <2>3. CASE l # 0
    <3>1. l - 1 \in Nat /\ l - 1 \notin T
      <4>1. l \in Nat /\ T \subseteq Nat
        OBVIOUS
      <4> HIDE DEF T
      <4> QED BY <2>1, <2>3, <4>1
    <3>2. PICK f : f = [m \in 0 .. l - 1 |-> Step(f, m)]
      BY <3>1
    <3> DEFINE g == [m \in 0 .. l |-> IF m < l THEN f[m] ELSE Step(f, l)]
    <3>3. ASSUME NEW m \in 0 .. l PROVE g[m] = Step(g, m)
      <4>1. CASE m < l
        <5>1. m \in 0 .. l - 1 /\ g[m] = f[m] /\ f[m] = Step(f, m)
          BY <3>1, <3>2, <4>1
        <5>2. m # 0 => m - 1 \in 0 .. l /\ m - 1 < l /\ g[m - 1] = f[m - 1]
          BY <3>1, <4>1
        <5> QED BY <5>1, <5>2
      <4>2. CASE ~(m < l)
        <5>1. m = l /\ g[m] = Step(f, l)
          BY <3>1, <4>2
        <5>2. l - 1 \in 0 .. l /\ l - 1 < l /\ g[l - 1] = f[l - 1]
          BY <3>1
        <5> QED BY <2>3, <5>1, <5>2
      <4> QED BY <4>1, <4>2
    <3>4. g = [m \in 0 .. l |-> Step(g, m)]
      <4>1. DOMAIN g = 0 .. l
        OBVIOUS
      <4> QED BY <3>3
    <3> QED BY <2>1, <3>4
  <2> QED BY <2>2, <2>3
<1>2. Defined(n)
  BY <1>1
<1> QED BY <1>2 DEF Turned

\* The loop of sfs_truncfile that takes blocks, turn by turn.
LEMMA GrowTurns ==
  ASSUME NEW k, NEW i, NEW now, NEW n \in Nat
  PROVE  LET x == GrowAt(k, i, now, n)
         IN  /\ x[0] = k
             /\ \A m \in 1 .. n :
                  x[m] = IF Failed(x[m - 1]) THEN x[m - 1] ELSE BmapLoad(x[m - 1], i, now + m - 1)
<1> DEFINE Made(f) == [m \in 0 .. n |->
             IF m = 0 THEN k
             ELSE IF Failed(f[m - 1]) THEN f[m - 1] ELSE BmapLoad(f[m - 1], i, now + m - 1)]
<1>1. PICK f : f = Turned(<<"grow", i, now>>, k, n, f)
  BY TurnsExist
<1>2. f = Made(f)
  BY <1>1 DEF Turned, Turn
<1>3. GrowAt(k, i, now, n) = Made(GrowAt(k, i, now, n))
  BY <1>2, Zenon DEF GrowAt
<1> QED BY <1>3

\* The loop of sfs_truncfile that gives blocks back.
LEMMA ShrinkTurns ==
  ASSUME NEW k, NEW i, NEW n \in Nat
  PROVE  LET x == ShrinkAt(k, i, n)
         IN  x[0] = k /\ \A m \in 1 .. n : x[m] = BmapTruncate(x[m - 1], i)
<1> DEFINE Made(f) == [m \in 0 .. n |-> IF m = 0 THEN k ELSE BmapTruncate(f[m - 1], i)]
<1>1. PICK f : f = Turned(<<"shrink", i>>, k, n, f)
  BY TurnsExist
<1>2. f = Made(f)
  BY <1>1 DEF Turned, Turn
<1>3. ShrinkAt(k, i, n) = Made(ShrinkAt(k, i, n))
  BY <1>2, Zenon DEF ShrinkAt
<1> QED BY <1>3

\* The loop of sfs_io_nolock.
LEMMA MoveTurns ==
  ASSUME NEW k, NEW i, NEW first, NEW pos, NEW end, NEW x, NEW n \in Nat
  PROVE  LET y == MoveAt(k, i, first, pos, end, x, n)
         IN  /\ y[0] = k
             /\ \A m \in 1 .. n : y[m] = IoBlock(y[m - 1], i, first + m - 1, pos, end, x)
<1> DEFINE Made(f) == [m \in 0 .. n |->
             IF m = 0 THEN k ELSE IoBlock(f[m - 1], i, first + m - 1, pos, end, x)]
<1>1. PICK f : f = Turned(<<"move", i, first, pos, end, x>>, k, n, f)
  BY TurnsExist
<1>2. f = Made(f)
  BY <1>1 DEF Turned, Turn
<1>3. MoveAt(k, i, first, pos, end, x, n) = Made(MoveAt(k, i, first, pos, end, x, n))
  BY <1>2, Zenon DEF MoveAt
<1> QED BY <1>3

\* The loops of files_destroy and files_closeall.
LEMMA CloseTurns ==
  ASSUME NEW k, NEW p, NEW first, NEW n \in Nat
  PROVE  LET x == CloseAt(k, p, first, n)
         IN  /\ x[0] = k
             /\ \A m \in 1 .. n :
                  x[m] = IF x[m - 1].files[p].fd[first + m - 1] = NoFd THEN x[m - 1]
                         ELSE FdClose(x[m - 1], p, first + m - 1)
<1> DEFINE Made(f) == [m \in 0 .. n |->
             IF m = 0 THEN k
             ELSE IF f[m - 1].files[p].fd[first + m - 1] = NoFd THEN f[m - 1]
                  ELSE FdClose(f[m - 1], p, first + m - 1)]
<1>1. PICK f : f = Turned(<<"close", p, first>>, k, n, f)
  BY TurnsExist
<1>2. f = Made(f)
  BY <1>1, Zenon DEF Turned, Turn
<1> DEFINE x == CloseAt(k, p, first, n)
<1>3. x = Made(x)
  BY <1>2, Zenon DEF CloseAt
<1> HIDE DEF x
<1>4. x[0] = k
  BY <1>3
<1>5. ASSUME NEW m \in 1 .. n
      PROVE  x[m] = IF x[m - 1].files[p].fd[first + m - 1] = NoFd THEN x[m - 1]
                         ELSE FdClose(x[m - 1], p, first + m - 1)
  <2>1. m \in 0 .. n /\ m # 0
    OBVIOUS
  <2> QED BY <1>3, <2>1, Zenon
<1> QED BY <1>4, <1>5 DEF x

\* The loop of dup_files.
LEMMA DupTurns ==
  ASSUME NEW k, NEW to, NEW from, NEW n \in Nat
  PROVE  LET x == DupAt(k, to, from, n)
         IN  /\ x[0] = k
             /\ \A m \in 1 .. n :
                  x[m] = IF x[m - 1].files[from].fd[m - 1] = NoFd THEN x[m - 1]
                         ELSE FdDup(x[m - 1], to, m - 1, x[m - 1].files[from].fd[m - 1])
<1> DEFINE Made(f) == [m \in 0 .. n |->
             IF m = 0 THEN k
             ELSE IF f[m - 1].files[from].fd[m - 1] = NoFd THEN f[m - 1]
                  ELSE FdDup(f[m - 1], to, m - 1, f[m - 1].files[from].fd[m - 1])]
<1>1. PICK f : f = Turned(<<"dup", to, from>>, k, n, f)
  BY TurnsExist
<1>2. f = Made(f)
  BY <1>1, Zenon DEF Turned, Turn
<1> DEFINE x == DupAt(k, to, from, n)
<1>3. x = Made(x)
  BY <1>2, Zenon DEF DupAt
<1> HIDE DEF x
<1>4. x[0] = k
  BY <1>3
<1>5. ASSUME NEW m \in 1 .. n
      PROVE  x[m] = IF x[m - 1].files[from].fd[m - 1] = NoFd THEN x[m - 1]
                         ELSE FdDup(x[m - 1], to, m - 1, x[m - 1].files[from].fd[m - 1])
  <2>1. m \in 0 .. n /\ m # 0
    OBVIOUS
  <2> QED BY <1>3, <2>1, Zenon
<1> QED BY <1>4, <1>5 DEF x

\* To do nothing leaves the counts alone.
LEMMA SameSelf ==
  ASSUME NEW k, Good(k)
  PROVE  Same(k, k)
  BY DEF Same, Alike

\* A file that grows keeps its counts, however far it gets.
LEMMA GrowSame ==
  ASSUME NEW k, Good(k), NEW i \in Inodes, Loaded(k, i), NEW now \in Nat, NEW n \in Nat
  PROVE  Same(k, GrowAt(k, i, now, n)[n])
<1> DEFINE x == GrowAt(k, i, now, n)
           T == {m \in 0 .. n : ~Same(k, x[m])}
<1>1. /\ x[0] = k
      /\ \A m \in 1 .. n :
           x[m] = IF Failed(x[m - 1]) THEN x[m - 1] ELSE BmapLoad(x[m - 1], i, now + m - 1)
  BY GrowTurns
<1> HIDE DEF x
<1>2. T = {}
  <2> SUFFICES ASSUME T # {} PROVE FALSE
    OBVIOUS
  <2>1. PICK m \in T : \A j \in T : m <= j
    <3>1. T \subseteq Nat
      OBVIOUS
    <3> HIDE DEF T
    <3> QED BY <3>1, Least
  <2>2. m # 0
    BY <1>1, SameSelf
  <2>3. m \in 1 .. n /\ m - 1 \in 0 .. n /\ Same(k, x[m - 1]) /\ now + m - 1 \in Nat
    BY <2>1, <2>2
  <2>4. Good(x[m - 1]) /\ Loaded(x[m - 1], i)
    BY <2>3, SameLoaded
  <2>5. Same(x[m - 1], BmapLoad(x[m - 1], i, now + m - 1))
    BY <2>3, <2>4, BmapLoadSame
  <2>6. Same(k, x[m])
    BY <1>1, <2>3, <2>5, SameTwice
  <2> QED BY <2>6
<1> QED BY <1>2 DEF x

\* So does one that shrinks, which cannot fail.
LEMMA ShrinkSame ==
  ASSUME NEW k, Good(k), NEW i \in Inodes, Loaded(k, i), NEW n \in 0 .. Din(k, i).blocks
  PROVE  Same(k, ShrinkAt(k, i, n)[n]) /\ ShrinkAt(k, i, n)[n].ret = k.ret
<1> DEFINE x == ShrinkAt(k, i, n)
           Shrunk(t, m) == Same(k, t) /\ t.ret = k.ret /\ Din(t, i).blocks = Din(k, i).blocks - m
           T == {m \in 0 .. n : ~Shrunk(x[m], m)}
<1>0. Din(k, i).blocks \in Nat
  BY LoadedNode DEF Redone, DinOK
<1>1. x[0] = k /\ \A m \in 1 .. n : x[m] = BmapTruncate(x[m - 1], i)
  <2>1. n \in Nat
    BY <1>0
  <2> QED BY <2>1, ShrinkTurns
<1> HIDE DEF x
<1>2. T = {}
  <2> SUFFICES ASSUME T # {} PROVE FALSE
    OBVIOUS
  <2>1. PICK m \in T : \A j \in T : m <= j
    <3>1. T \subseteq Nat
      BY <1>0
    <3> HIDE DEF T
    <3> QED BY <3>1, Least
  <2>2. m # 0
    BY <1>0, <1>1, SameSelf
  <2>3. m \in 1 .. n /\ m - 1 \in 0 .. n /\ Shrunk(x[m - 1], m - 1)
    BY <1>0, <2>1, <2>2
  <2>4. Good(x[m - 1]) /\ Loaded(x[m - 1], i)
    BY <2>3, SameLoaded
  <2> DEFINE s == x[m - 1]
             t == BmapTruncate(s, i)
  <2>5. Din(s, i).blocks = Din(k, i).blocks - (m - 1) /\ Din(s, i).blocks # 0
    BY <1>0, <2>3
  <2>6. Same(s, t) /\ t.ret = s.ret /\ Din(t, i).blocks = Din(s, i).blocks - 1
    BY <2>4, <2>5, BmapTruncateSame
  <2>7. x[m] = t /\ m \in Nat
    BY <1>0, <1>1, <2>3
  <2> HIDE DEF s, t, T
  <2>8. Same(k, s) /\ s.ret = k.ret
    BY <2>3 DEF s
  <2>9. Same(k, t)
    BY <2>6, <2>8, SameTwice
  <2>10. Shrunk(t, m)
    BY <1>0, <2>5, <2>6, <2>7, <2>8, <2>9
  <2> QED BY <2>1, <2>7, <2>10 DEF T
<1>3. n \in 0 .. n
  BY <1>0
<1> QED BY <1>2, <1>3 DEF x

\* sfs_truncfile is made of these loops.
LEMMA TruncfileLoops ==
  ASSUME NEW k, NEW i, NEW len, NEW now, now = Din(k, i).blocks, NEW then, then = BlocksOf(len)
  PROVE  Truncfile(k, i, len) =
           CASE Din(k, i).size = len -> PanicIf(k, now # then, "blocks")
             [] Din(k, i).size # len /\ now < then ->
                  Resize(GrowAt(k, i, now, then - now)[then - now], i, len)
             [] OTHER -> Resize(ShrinkAt(k, i, now - then)[now - then], i, len)
  BY DEF Truncfile, Loop, GrowAt, ShrinkAt

\* A size is a number of blocks.
LEMMA BlocksNumber ==
  /\ \A len \in Nat : BlocksOf(len) \in Nat
  /\ BlocksOf(0) = 0
<1>1. \A b \in Nat \ {0} : (b - 1) \div b = 0
  BY Z3
<1>2. \A n \in Nat, b \in Nat \ {0} : n \div b \in Nat
  BY Z3
<1>3. ASSUME NEW len \in Nat PROVE BlocksOf(len) \in Nat
  <2>1. len + BlkWords - 1 \in Nat
    BY SfsAssumption
  <2> QED BY <1>2, <2>1, SfsAssumption DEF BlocksOf
<1>4. BlocksOf(0) = 0
  <2>1. 0 + BlkWords - 1 = BlkWords - 1
    BY SfsAssumption
  <2> QED BY <1>1, <2>1, SfsAssumption DEF BlocksOf
<1> QED BY <1>3, <1>4

\* sfs_truncfile leaves the counts alone, and to empty a file cannot fail.
LEMMA TruncfileSame ==
  ASSUME NEW k, Good(k), NEW i \in Inodes, Loaded(k, i), NEW len \in Nat
  PROVE  Same(k, Truncfile(k, i, len)) /\ (len = 0 => Truncfile(k, i, len).ret = k.ret)
<1> DEFINE now == Din(k, i).blocks
           then == BlocksOf(len)
           t == Truncfile(k, i, len)
<1>0. DOMAIN k = KFields /\ now \in Nat /\ then \in Nat /\ (len = 0 => then = 0)
  BY LoadedNode, BlocksNumber DEF Redone, DinOK
<1> HIDE DEF now, then, t
<1>1. CASE Din(k, i).size = len
  <2>1. t = PanicIf(k, now # then, "blocks")
    BY <1>1, TruncfileLoops DEF now, then, t
  <2> QED BY <1>0, <2>1, PanicPlain, PlainSame DEF t
<1>2. CASE Din(k, i).size # len /\ now < then
  <2> DEFINE s == GrowAt(k, i, now, then - now)[then - now]
  <2>1. t = Resize(s, i, len) /\ then - now \in Nat /\ len # 0
    BY <1>0, <1>2, TruncfileLoops DEF now, then, t
  <2>2. Same(k, s)
    BY <1>0, <2>1, GrowSame
  <2> HIDE DEF s
  <2>3. Same(s, t)
    BY <2>1, <2>2, SameLoaded, ResizeSame
  <2> QED BY <2>1, <2>2, <2>3, SameTwice DEF t
<1>3. CASE Din(k, i).size # len /\ ~(now < then)
  <2> DEFINE s == ShrinkAt(k, i, now - then)[now - then]
  <2>1. t = Resize(s, i, len) /\ now - then \in 0 .. now
    BY <1>0, <1>3, TruncfileLoops DEF now, then, t
  <2>2. Same(k, s) /\ s.ret = k.ret
    BY <2>1, ShrinkSame DEF now
  <2> HIDE DEF s
  <2>3. Same(s, t) /\ t.ret = s.ret
    BY <2>1, <2>2, SameLoaded, ResizeSame
  <2> QED BY <2>2, <2>3, SameTwice DEF t
<1> QED BY <1>1, <1>2, <1>3

\* Min is a member of the set.
LEMMA MinOf ==
  ASSUME NEW T, T \subseteq Nat, T # {}
  PROVE  Min(T) \in T
<1>1. \E m \in T : \A k \in T : m <= k
  BY Least
<1> QED BY <1>1, Zenon DEF Min

\* Words that are moved are in data, and counted.
LEMMA MoreWords ==
  ASSUME NEW k, Good(k), NEW t, NEW c \in Nat, NEW b, NEW d,
         t = [k EXCEPT !.len = @ + c, !.data[b] = d]
  PROVE  Same(k, t)
<1>1. /\ DOMAIN t = KFields /\ t.inode = k.inode /\ t.dinode = k.dinode /\ t.halt = k.halt
      /\ t.files = k.files /\ t.leaked = k.leaked /\ t.len = k.len + c
  BY DEF Good, KFields
<1>2. k.len + c \in Nat
  BY DEF Good
<1> QED BY <1>1, <1>2 DEF Same, Good, Alike

\* One turn of sfs_io_nolock leaves the counts alone.
LEMMA IoBlockSame ==
  ASSUME NEW k, Good(k), NEW i \in Inodes, Loaded(k, i), NEW index \in Nat,
         NEW pos \in Nat, NEW end \in Nat, NEW x
  PROVE  Same(k, IoBlock(k, i, index, pos, end, x))
<1> DEFINE part == Within(index, pos, end)
           c == Cardinality(part)
           t == BmapLoad(k, i, index)
           store == [w \in Words |-> IF index * BlkWords + w \in part THEN x ELSE t.data[t.got][w]]
           d == IF x = 0 THEN t.data[t.got] ELSE store
           u == [t EXCEPT !.len = @ + c, !.data[t.got] = d]
<1>1. c \in Nat
  <2>1. IsFiniteSet(pos .. end - 1) /\ part \subseteq pos .. end - 1
    BY FS_Interval DEF Within
  <2>2. IsFiniteSet(part)
    BY <2>1, FS_Subset
  <2> QED BY <2>2, FS_CardinalityType
<1>2. Same(k, t)
  BY BmapLoadSame
<1>3. Same(k, k)
  BY SameSelf
<1>4. Same(k, u)
  <2> HIDE DEF t, c, d
  <2>1. Good(t)
    BY <1>2 DEF Same
  <2>2. Same(t, u)
    BY <1>1, <2>1, MoreWords, Zenon
  <2> HIDE DEF u
  <2> QED BY <1>2, <2>2, SameTwice
<1>5. IoBlock(k, i, index, pos, end, x) \in {k, t, u}
  <2> HIDE DEF t, c, part
  <2> QED BY DEF IoBlock, t, c, part
<1> HIDE DEF u, t
<1> QED BY <1>2, <1>3, <1>4, <1>5

\* So do all of them.
LEMMA MoveSame ==
  ASSUME NEW k, Good(k), NEW i \in Inodes, Loaded(k, i), NEW first \in Nat, NEW pos \in Nat,
         NEW end \in Nat, NEW x, NEW n \in Nat
  PROVE  Same(k, MoveAt(k, i, first, pos, end, x, n)[n])
<1> DEFINE y == MoveAt(k, i, first, pos, end, x, n)
           T == {m \in 0 .. n : ~Same(k, y[m])}
<1>1. /\ y[0] = k
      /\ \A m \in 1 .. n : y[m] = IoBlock(y[m - 1], i, first + m - 1, pos, end, x)
  BY MoveTurns
<1> HIDE DEF y
<1>2. T = {}
  <2> SUFFICES ASSUME T # {} PROVE FALSE
    OBVIOUS
  <2>1. PICK m \in T : \A j \in T : m <= j
    <3>1. T \subseteq Nat
      OBVIOUS
    <3> HIDE DEF T
    <3> QED BY <3>1, Least
  <2>2. m # 0
    BY <1>1, SameSelf
  <2>3. m \in 1 .. n /\ m - 1 \in 0 .. n /\ Same(k, y[m - 1]) /\ first + m - 1 \in Nat
    BY <2>1, <2>2
  <2>4. Good(y[m - 1]) /\ Loaded(y[m - 1], i)
    BY <2>3, SameLoaded
  <2>5. Same(y[m - 1], IoBlock(y[m - 1], i, first + m - 1, pos, end, x))
    BY <2>3, <2>4, IoBlockSame
  <2>6. Same(k, y[m])
    BY <1>1, <2>3, <2>5, SameTwice
  <2> QED BY <2>6
<1> QED BY <1>2 DEF y

\* The end of sfs_io_nolock sets the size alone.
LEMMA IoEndSame ==
  ASSUME NEW k, Good(k), NEW i \in Inodes, Loaded(k, i), NEW pos \in Nat
  PROVE  Same(k, IoEnd(k, i, pos))
<1> DEFINE d == [k.inode[i].din EXCEPT !.size = pos + k.len]
           t == PutDirty(k, i, d)
<1>1. Plain(k, k) /\ Redone(k.inode[i], k.inode[i]) /\ pos + k.len \in Nat
  BY LoadedNode DEF Plain, Good
<1>2. DinOK(d)
  BY <1>1 DEF DinOK, Record, DinFields, Redone
<1>3. IoEnd(k, i, pos) \in {k, t}
  BY DEF IoEnd, PutDirty
<1> HIDE DEF d
<1>4. Same(k, t)
  BY <1>1, <1>2, DinDirty
<1> HIDE DEF t
<1> QED BY <1>1, <1>3, <1>4, PlainSame

\* Where a transfer of n words ends.
Final(k, i, pos, n, x) ==
  IF x = 0 THEN Min({pos + n, MaxSize, Din(k, i).size}) ELSE Min({pos + n, MaxSize})

\* sfs_io_nolock is made of its loop and its end.
LEMMA IoLoops ==
  ASSUME NEW k, NEW i, NEW pos, NEW n, NEW x
  PROVE  LET end   == Final(k, i, pos, n, x)
             first == pos \div BlkWords
             turns == (end - 1) \div BlkWords - first + 1
         IN  Io(k, i, pos, n, x) =
               CASE pos >= MaxSize                  -> [k EXCEPT !.ret = "inval", !.len = 0]
                 [] pos < MaxSize /\ pos >= end     -> [k EXCEPT !.len = 0]
                 [] OTHER ->
                      IoEnd(MoveAt([k EXCEPT !.len = 0], i, first, pos, end, x, turns)[turns], i, pos)
  BY DEF Io, Loop, MoveAt, Final

\* Division by a block's words keeps the order.
LEMMA DivMonotone ==
  ASSUME NEW a \in Nat, NEW b \in Nat, NEW c \in Nat \ {0}, a <= b
  PROVE  a \div c \in Nat /\ b \div c \in Nat /\ a \div c <= b \div c
  BY Z3

\* sfs_io_nolock leaves the counts alone.
LEMMA IoSame ==
  ASSUME NEW k, Good(k), NEW i \in Inodes, Loaded(k, i), NEW pos \in Nat, NEW n \in Nat, NEW x
  PROVE  Same(k, Io(k, i, pos, n, x))
<1> DEFINE end == Final(k, i, pos, n, x)
           first == pos \div BlkWords
           turns == (end - 1) \div BlkWords - first + 1
           s == [k EXCEPT !.len = 0]
           t == Io(k, i, pos, n, x)
<1>1. end \in Nat
  <2>1. {pos + n, MaxSize, Din(k, i).size} \subseteq Nat /\ {pos + n, MaxSize} \subseteq Nat
    BY SfsAssumption, LoadedNode DEF Redone, DinOK
  <2>2. \A T : T \subseteq Nat /\ T # {} => Min(T) \in Nat
    BY MinOf
  <2> QED BY <2>1, <2>2 DEF Final
<1>0. t = CASE pos >= MaxSize              -> [k EXCEPT !.ret = "inval", !.len = 0]
            [] pos < MaxSize /\ pos >= end -> s
            [] OTHER                       -> IoEnd(MoveAt(s, i, first, pos, end, x, turns)[turns], i, pos)
  BY IoLoops, Zenon
<1>2. Same(k, s) /\ Same(k, [k EXCEPT !.ret = "inval", !.len = 0])
  BY DEF Same, Good, Alike, KFields
<1> HIDE DEF end, s, t
<1>3. CASE pos >= MaxSize
  <2>1. t = [k EXCEPT !.ret = "inval", !.len = 0]
    <3>1. ~(pos < MaxSize)
      BY <1>3, SfsAssumption
    <3> QED BY <1>0, <1>3, <3>1
  <2> QED BY <1>2, <2>1 DEF t
<1>4. CASE pos < MaxSize /\ pos >= end
  <2>1. t = s
    <3>1. ~(pos >= MaxSize)
      BY <1>4, SfsAssumption
    <3> QED BY <1>0, <1>4, <3>1
  <2> QED BY <1>2, <2>1 DEF t
<1>5. CASE pos < MaxSize /\ pos < end
  <2> DEFINE u == MoveAt(s, i, first, pos, end, x, turns)[turns]
  <2>1. t = IoEnd(u, i, pos)
    <3>1. ~(pos >= MaxSize) /\ ~(pos >= end)
      BY <1>1, <1>5, SfsAssumption
    <3> HIDE DEF turns, first
    <3> QED BY <1>0, <3>1
  <2>2. first \in Nat /\ turns \in Nat
    <3>1. end - 1 \in Nat /\ pos <= end - 1
      BY <1>1, <1>5
    <3>2. first \in Nat /\ (end - 1) \div BlkWords \in Nat /\ first <= (end - 1) \div BlkWords
      BY <3>1, DivMonotone, SfsAssumption
    <3> QED BY <3>2
  <2>3. Same(s, u)
    BY <1>1, <1>2, <2>2, SameLoaded, MoveSame
  <2> HIDE DEF u
  <2>4. Same(k, u)
    BY <1>2, <2>3, SameTwice
  <2>5. Same(u, t)
    BY <2>1, <2>4, SameLoaded, IoEndSame
  <2> QED BY <2>4, <2>5, SameTwice DEF t
<1>6. pos >= MaxSize \/ (pos < MaxSize /\ pos >= end) \/ (pos < MaxSize /\ pos < end)
  BY <1>1, SfsAssumption
<1> QED BY <1>3, <1>4, <1>5, <1>6

\* So does sfs_tryseek, which may make the file longer.
LEMMA TryseekSame ==
  ASSUME NEW k, Good(k), NEW i \in Inodes, Loaded(k, i), NEW pos \in Nat
  PROVE  Same(k, Tryseek(k, i, pos))
<1> DEFINE t == Tryseek(k, i, pos)
<1>1. Same(k, k) /\ Same(k, Truncfile(k, i, pos)) /\ Same(k, [k EXCEPT !.ret = "inval"])
  BY SameSelf, TruncfileSame DEF Same, Good, Alike, KFields
<1>2. CASE pos >= MaxSize
  <2>1. ~(pos < MaxSize)
    BY <1>2, SfsAssumption
  <2> QED BY <1>1, <1>2, <2>1 DEF Tryseek
<1>3. CASE ~(pos >= MaxSize)
  <2>1. t \in {k, Truncfile(k, i, pos)}
    BY <1>3 DEF Tryseek
  <2> HIDE DEF t
  <2> QED BY <1>1, <2>1 DEF t
<1> QED BY <1>2, <1>3
-----------------------------------------------------------------------------
(* The places of the blocks: of each file its direct ones, the entries, and *)
(* last the one of the block of entries.                                   *)
Top  == NDirect + BlkWords
Uses == Files \X (0 .. Top)

\* Block at place n of inode d, with what is on disk, or 0.
Place(D, d, n) ==
  IF n < NDirect THEN d.direct[n]
  ELSE IF n = Top THEN d.indirect
  ELSE IF d.indirect = 0 THEN 0 ELSE D[d.indirect][n - NDirect]

\* The inode as it counts.
Cur(k, i) == IF k.inode[i] = NotLoaded THEN k.dinode[i] ELSE k.inode[i].din
Map(k)    == [u \in Uses |-> Place(k.data, Cur(k, u[1]), u[2])]

\* Blocks that are neither free nor in hand are at one place each.
Exact(A, F, H) ==
  /\ F \subseteq Blocks /\ H \subseteq Blocks /\ F \cap H = {}
  /\ \A u \in Uses : A[u] = 0 \/ A[u] \in Blocks \ (F \cup H)
  /\ \A u, v \in Uses : A[u] = A[v] /\ A[u] # 0 => u = v
  /\ \A b \in Blocks \ (F \cup H) : \E u \in Uses : A[u] = b

\* B is A with b at place u.
SetAt(A, B, u, b) == \A v \in Uses : B[v] = IF v = u THEN b ELSE A[v]

\* 0 is no block that holds data, and an empty place has it.
LEMMA NotZero == 0 \notin Blocks
  BY SfsAssumption DEF Blocks

\* A free block is taken, or one in hand given back.
LEMMA TakeExact ==
  ASSUME NEW A, NEW F, NEW H, Exact(A, F, H), NEW b
  PROVE  /\ b \in F => Exact(A, F \ {b}, H \cup {b})
         /\ b \in H => Exact(A, F \cup {b}, H \ {b})
<1>1. ASSUME b \in F PROVE Exact(A, F \ {b}, H \cup {b})
  <2>1. (F \ {b}) \cup (H \cup {b}) = F \cup H
    BY <1>1
  <2> QED BY <1>1, <2>1 DEF Exact
<1>2. ASSUME b \in H PROVE Exact(A, F \cup {b}, H \ {b})
  <2>1. (F \cup {b}) \cup (H \ {b}) = F \cup H
    BY <1>2
  <2> QED BY <1>2, <2>1 DEF Exact
<1> QED BY <1>1, <1>2

\* A block in hand is put at an empty place.
LEMMA PutExact ==
  ASSUME NEW A, NEW F, NEW H, Exact(A, F, H), NEW b \in H, NEW u \in Uses, A[u] = 0,
         NEW B, SetAt(A, B, u, b)
  PROVE  Exact(B, F, H \ {b})
<1>1. b # 0 /\ b \in Blocks /\ b \notin F
  BY NotZero DEF Exact
<1>2. \A v \in Uses : B[v] = 0 \/ B[v] \in Blocks \ (F \cup (H \ {b}))
  BY <1>1 DEF Exact, SetAt
<1>3. \A v, w \in Uses : B[v] = B[w] /\ B[v] # 0 => v = w
  <2>1. \A v \in Uses : A[v] # b
    BY <1>1 DEF Exact
  <2> QED BY <2>1 DEF Exact, SetAt
<1>4. ASSUME NEW c \in Blocks \ (F \cup (H \ {b})) PROVE \E v \in Uses : B[v] = c
  <2>1. CASE c = b
    BY <2>1 DEF SetAt
  <2>2. CASE c # b
    <3>1. PICK v \in Uses : A[v] = c
      BY <2>2 DEF Exact
    <3>2. v # u
      BY <3>1, NotZero
    <3> QED BY <3>1, <3>2 DEF SetAt
  <2> QED BY <2>1, <2>2
<1> QED BY <1>2, <1>3, <1>4 DEF Exact

\* A block is taken from its place.
LEMMA ClearExact ==
  ASSUME NEW A, NEW F, NEW H, Exact(A, F, H), NEW u \in Uses, A[u] # 0,
         NEW B, SetAt(A, B, u, 0)
  PROVE  Exact(B, F, H \cup {A[u]})
<1> DEFINE b == A[u]
<1>1. b \in Blocks \ (F \cup H) /\ b # 0
  BY DEF Exact
<1>2. \A v \in Uses : B[v] = 0 \/ B[v] \in Blocks \ (F \cup (H \cup {b}))
  <2>1. \A v \in Uses \ {u} : A[v] # b
    BY <1>1 DEF Exact
  <2> HIDE DEF b
  <2> QED BY <2>1 DEF Exact, SetAt
<1>3. \A v, w \in Uses : B[v] = B[w] /\ B[v] # 0 => v = w
  BY DEF Exact, SetAt
<1>4. ASSUME NEW c \in Blocks \ (F \cup (H \cup {b})) PROVE \E v \in Uses : B[v] = c
  <2>1. PICK v \in Uses : A[v] = c
    BY DEF Exact
  <2>2. v # u
    BY <2>1
  <2> QED BY <2>1, <2>2 DEF SetAt
<1>5. (F \cap (H \cup {b}) = {}) /\ H \cup {b} \subseteq Blocks /\ F \subseteq Blocks
  BY <1>1 DEF Exact
<1> HIDE DEF b
<1>6. Exact(B, F, H \cup {b})
  BY <1>2, <1>3, <1>4, <1>5 DEF Exact
<1> QED BY <1>6 DEF b

\* The bitmap, the count of free blocks, the copy of both on disk, and data.
Books(k) ==
  /\ k.freemap \subseteq Blocks /\ k.unused = Cardinality(k.freemap)
  /\ ~k.superDirty => k.super = [freemap |-> k.freemap, unused |-> k.unused]
  /\ DOMAIN k.data = Blocks /\ \A b \in Blocks : DOMAIN k.data[b] = Words

\* All blocks are free, in H, or at one place.
Mapped(k, H) == Books(k) /\ Exact(Map(k), k.freemap, H)

\* What is at the places of a file.
LEMMA PlaceOf ==
  ASSUME NEW k, NEW i \in Files
  PROVE  /\ Top \in Nat /\ Top >= NDirect /\ Top > 0
         /\ \A n \in 0 .. Top : <<i, n>> \in Uses
         /\ \A n \in 0 .. NDirect - 1 : n \in 0 .. Top /\ Map(k)[<<i, n>>] = Cur(k, i).direct[n]
         /\ Map(k)[<<i, Top>>] = Cur(k, i).indirect
         /\ \A n \in NDirect .. Top - 1 :
              /\ n \in 0 .. Top /\ n - NDirect \in Words
              /\ Map(k)[<<i, n>>] = IF Cur(k, i).indirect = 0 THEN 0
                                    ELSE k.data[Cur(k, i).indirect][n - NDirect]
<1>1. NDirect \in Nat /\ BlkWords \in Nat /\ BlkWords > 0 /\ NDirect > 0
  BY SfsAssumption
<1>2. Top \in Nat /\ Top > NDirect /\ Top - NDirect = BlkWords
  BY <1>1 DEF Top
<1>3. \A n \in 0 .. Top : <<i, n>> \in Uses /\ Map(k)[<<i, n>>] = Place(k.data, Cur(k, i), n)
  BY DEF Uses, Map
<1>4. \A n \in 0 .. NDirect - 1 : n \in 0 .. Top /\ Map(k)[<<i, n>>] = Cur(k, i).direct[n]
  BY <1>1, <1>2, <1>3 DEF Place
<1>5. Map(k)[<<i, Top>>] = Cur(k, i).indirect
  BY <1>1, <1>2, <1>3 DEF Place
<1>6. ASSUME NEW n \in NDirect .. Top - 1
      PROVE  /\ n \in 0 .. Top /\ n - NDirect \in Words
             /\ Map(k)[<<i, n>>] = IF Cur(k, i).indirect = 0 THEN 0
                                   ELSE k.data[Cur(k, i).indirect][n - NDirect]
  BY <1>1, <1>2, <1>3 DEF Place, Words
<1> QED BY <1>1, <1>2, <1>3, <1>4, <1>5, <1>6

\* Map looks at inodes and at blocks of entries alone.
LEMMA MapSame ==
  ASSUME NEW k, NEW t, \A i \in Files : Cur(t, i) = Cur(k, i),
         \A i \in Files : Cur(k, i).indirect = 0 \/ t.data[Cur(k, i).indirect] = k.data[Cur(k, i).indirect]
  PROVE  Map(t) = Map(k)
<1>1. ASSUME NEW u \in Uses
      PROVE  Place(t.data, Cur(t, u[1]), u[2]) = Place(k.data, Cur(k, u[1]), u[2])
  <2>1. u[1] \in Files
    BY DEF Uses
  <2> QED BY <2>1 DEF Place
<1> QED BY <1>1 DEF Map

\* A block of entries is in use.
LEMMA EntsUsed ==
  ASSUME NEW k, NEW H, Mapped(k, H), NEW i \in Files
  PROVE  Cur(k, i).indirect = 0 \/ Cur(k, i).indirect \in Blocks \ (k.freemap \cup H)
<1>1. <<i, Top>> \in Uses /\ Map(k)[<<i, Top>>] = Cur(k, i).indirect
  BY PlaceOf
<1> QED BY <1>1 DEF Mapped, Exact

\* Sets of blocks are finite.
LEMMA FewBlocks ==
  ASSUME NEW S, S \subseteq Blocks
  PROVE  /\ S \subseteq Nat /\ IsFiniteSet(S) /\ Cardinality(S) \in Nat
         /\ \A b : b \in S => Cardinality(S) # 0 /\ Cardinality(S \ {b}) = Cardinality(S) - 1
         /\ \A b : b \notin S => Cardinality(S \cup {b}) = Cardinality(S) + 1
<1>1. IsFiniteSet(Blocks) /\ Blocks \subseteq Nat
  BY SfsAssumption, FS_Interval DEF Blocks
<1>2. IsFiniteSet(S) /\ Cardinality(S) \in Nat
  BY <1>1, FS_Subset, FS_CardinalityType
<1> QED BY <1>1, <1>2, FS_EmptySet, FS_AddElement, FS_RemoveElement

\* What a step on the bitmap and on data leaves alone.
NodesSame(k, t) == DOMAIN t = KFields /\ t.inode = k.inode /\ t.dinode = k.dinode

\* What leaves all inodes alone changes no file's inode.
LEMMA CurSame ==
  ASSUME NEW k, NEW t, NodesSame(k, t)
  PROVE  \A i : Cur(t, i) = Cur(k, i)
  BY DEF NodesSame, Cur

\* sfs_block_alloc takes a block, unless there is none; its assertion holds.
Taken(k, t, H) ==
  /\ t.got \in k.freemap /\ t.got \in Blocks /\ t.got \notin H
  /\ Mapped(t, H \cup {t.got}) /\ Map(t) = Map(k)
  /\ t.data[t.got] = ZeroBlock /\ \A b \in Blocks \ {t.got} : t.data[b] = k.data[b]
  /\ t.ret = k.ret /\ t.starved = k.starved

\* sfs_block_alloc takes a free block and clears it; without one it fails and changes nothing.
LEMMA AllocStep ==
  ASSUME NEW k, DOMAIN k = KFields, NEW H, Mapped(k, H)
  PROVE  LET t == BlockAlloc(k)
         IN  /\ NodesSame(k, t) /\ t.halt = k.halt
             /\ IF k.freemap = {} THEN t.ret = "no_mem" /\ t.starved = TRUE /\ Mapped(t, H) /\ Map(t) = Map(k)
                ELSE Taken(k, t, H)
<1> DEFINE t == BlockAlloc(k)
           b == Min(k.freemap)
<1>1. CASE k.freemap = {}
  <2>1. t = [k EXCEPT !.ret = "no_mem", !.starved = TRUE]
    BY <1>1 DEF BlockAlloc
  <2>2. /\ NodesSame(k, t) /\ t.halt = k.halt /\ t.ret = "no_mem" /\ t.starved = TRUE
        /\ t.freemap = k.freemap /\ t.unused = k.unused /\ t.superDirty = k.superDirty
        /\ t.super = k.super /\ t.data = k.data
    BY <2>1 DEF NodesSame, KFields
  <2> HIDE DEF t
  <2>3. Map(t) = Map(k)
    BY <2>2, CurSame, MapSame
  <2> QED BY <1>1, <2>2, <2>3 DEF Mapped, Books, t
<1>2. CASE k.freemap # {}
  <2>1. Books(k) /\ Exact(Map(k), k.freemap, H) /\ k.freemap \subseteq Blocks
    BY DEF Mapped, Books
  <2>2. b \in k.freemap /\ k.unused # 0 /\ b \in Blocks
    <3>1. k.freemap \subseteq Nat
      BY <2>1, FewBlocks
    <3>2. b \in k.freemap
      BY <1>2, <3>1, MinOf
    <3> QED BY <2>1, <3>2, FewBlocks DEF Books
  <2>3. t = [k EXCEPT !.freemap = @ \ {b}, !.got = b, !.unused = @ - 1,
                      !.superDirty = TRUE, !.data[b] = ZeroBlock]
    BY <1>2, <2>2 DEF BlockAlloc, PanicIf
  <2> HIDE DEF b
  <2>4. /\ NodesSame(k, t) /\ t.halt = k.halt /\ t.ret = k.ret /\ t.starved = k.starved
        /\ t.freemap = k.freemap \ {b} /\ t.unused = k.unused - 1 /\ t.superDirty = TRUE
        /\ t.data = [k.data EXCEPT ![b] = ZeroBlock] /\ t.got = b
    BY <2>3 DEF NodesSame, KFields
  <2>5. DOMAIN k.data = Blocks /\ \A c \in Blocks : DOMAIN k.data[c] = Words
    BY <2>1 DEF Books
  <2> HIDE DEF t
  <2>6. /\ DOMAIN t.data = Blocks /\ t.data[b] = ZeroBlock
        /\ \A c \in Blocks \ {b} : t.data[c] = k.data[c]
    BY <2>2, <2>4, <2>5
  <2>7. \A c \in Blocks : DOMAIN t.data[c] = Words
    BY <2>5, <2>6 DEF ZeroBlock
  <2>8. Map(t) = Map(k)
    <3>1. \A i \in Files : Cur(k, i).indirect = 0 \/ Cur(k, i).indirect \in Blocks \ {b}
      BY <2>2, EntsUsed
    <3> QED BY <2>4, <2>6, <3>1, CurSame, MapSame
  <2>9. Books(t)
    BY <2>1, <2>2, <2>4, <2>6, <2>7, FewBlocks DEF Books
  <2>10. Exact(Map(t), t.freemap, H \cup {t.got})
    <3>1. Exact(Map(k), k.freemap \ {b}, H \cup {b})
      BY <2>1, <2>2, TakeExact
    <3> QED BY <2>4, <2>8, <3>1
  <2>11. b \notin H
    BY <2>1, <2>2 DEF Exact
  <2> QED BY <1>2, <2>2, <2>4, <2>6, <2>8, <2>9, <2>10, <2>11 DEF Taken, Mapped, t
<1> QED BY <1>1, <1>2

\* sfs_block_free gives back a block in hand; its assertion holds.
LEMMA FreeStep ==
  ASSUME NEW k, DOMAIN k = KFields, NEW H, Mapped(k, H), NEW b \in H
  PROVE  LET t == BlockFree(k, b)
         IN  /\ NodesSame(k, t) /\ t.halt = k.halt /\ t.ret = k.ret /\ t.starved = k.starved
             /\ t.data = k.data /\ Mapped(t, H \ {b}) /\ Map(t) = Map(k)
<1> DEFINE t == BlockFree(k, b)
<1>1. Books(k) /\ Exact(Map(k), k.freemap, H) /\ k.freemap \subseteq Blocks
  BY DEF Mapped, Books
<1>2. b \in Blocks \ k.freemap
  BY <1>1 DEF Exact
<1>3. t = [k EXCEPT !.freemap = @ \cup {b}, !.unused = @ + 1, !.superDirty = TRUE]
  BY <1>2 DEF BlockFree, PanicIf
<1>4. /\ NodesSame(k, t) /\ t.halt = k.halt /\ t.ret = k.ret /\ t.starved = k.starved
      /\ t.freemap = k.freemap \cup {b} /\ t.unused = k.unused + 1 /\ t.superDirty = TRUE
      /\ t.data = k.data
  BY <1>3 DEF NodesSame, KFields
<1> HIDE DEF t
<1>5. Map(t) = Map(k)
  BY <1>4, CurSame, MapSame
<1>6. Books(t)
  BY <1>1, <1>2, <1>4, FewBlocks DEF Books
<1>7. Exact(Map(t), t.freemap, H \ {b})
  <2>1. Exact(Map(k), k.freemap \cup {b}, H \ {b})
    BY <1>1, TakeExact
  <2> QED BY <1>4, <1>5, <2>1
<1> QED BY <1>4, <1>5, <1>6, <1>7 DEF Mapped, t

-----------------------------------------------------------------------------
(* The blocks of a file.                                                   *)

\* A size that b blocks and one more would hold is below this.
Reach(b) == (b + 1) * BlkWords

\* More blocks hold no less.
LEMMA ReachGrows ==
  ASSUME NEW a \in Nat, NEW b \in Nat, a <= b
  PROVE  Reach(a) \in Nat /\ Reach(b) \in Nat /\ Reach(a) <= Reach(b)
<1>1. \A c \in Nat : (a + 1) * c \in Nat /\ (b + 1) * c \in Nat /\ (a + 1) * c <= (b + 1) * c
  BY Z3
<1> QED BY <1>1, SfsAssumption DEF Reach

\* File i has the first b blocks at least, and of the direct ones no other.
Shape(A, i, b, size) ==
  /\ b \in 0 .. Top /\ size \in Nat /\ size < Reach(b)
  /\ \A n \in 0 .. b - 1 : A[<<i, n>>] # 0
  /\ \A n \in 0 .. NDirect - 1 : A[<<i, n>>] # 0 => n < b

\* It has no others.
Tight(A, i, b) == \A n \in 0 .. Top - 1 : A[<<i, n>>] # 0 => n < b

Clean(k, i) == Loaded(k, i) /\ ~k.inode[i].dirty

\* What the disk has of a file that is not dirty.
Saved(k, i) ==
  /\ k.dinode[i].size = Cur(k, i).size /\ k.dinode[i].direct = Cur(k, i).direct
  /\ k.dinode[i].indirect = Cur(k, i).indirect
  /\ Shape(Map(k), i, k.dinode[i].blocks, Cur(k, i).size)

\* While a file grows or shrinks; size is what it has now or is to have.
Going(k, i, size) ==
  /\ Shape(Map(k), i, Cur(k, i).blocks, size)
  /\ ~k.starved => Tight(Map(k), i, Cur(k, i).blocks)
  /\ Clean(k, i) => Saved(k, i)

\* Unless blocks ran out, as many as the size needs.
Enough(k, i) ==
  /\ Cur(k, i).blocks = BlocksOf(Cur(k, i).size)
  /\ Clean(k, i) => k.dinode[i].blocks = Cur(k, i).blocks

FileSound(k, i) == Going(k, i, Cur(k, i).size) /\ (~k.starved => Enough(k, i))

Fit(k) == Mapped(k, {}) /\ \A i \in Files : FileSound(k, i)

\* All is well but that file i grows or shrinks.
Part(k, i, size) == Mapped(k, {}) /\ Going(k, i, size) /\ \A j \in Files \ {i} : FileSound(k, j)

\* A file on its way from its own size to itself is sound.
LEMMA FitPart ==
  ASSUME NEW k, Fit(k), NEW i \in Files
  PROVE  Part(k, i, Cur(k, i).size)
  BY DEF Fit, Part, FileSound

\* The rows of j are the same in A and B.
SameRow(A, B, j) == \A n \in 0 .. Top : B[<<j, n>>] = A[<<j, n>>]

\* What is said of a file's places is said of its row alone.
LEMMA RowShape ==
  ASSUME NEW A, NEW B, NEW j, SameRow(A, B, j)
  PROVE  /\ \A b, size : Shape(A, j, b, size) => Shape(B, j, b, size)
         /\ \A b : Tight(A, j, b) => Tight(B, j, b)
<1>1. Top \in Nat /\ NDirect \in Nat /\ NDirect <= Top
  BY SfsAssumption DEF Top
<1>2. \A n \in 0 .. NDirect - 1 : n \in 0 .. Top
  BY <1>1
<1>3. \A n \in 0 .. Top - 1 : n \in 0 .. Top
  BY <1>1
<1>4. \A b \in 0 .. Top : \A n \in 0 .. b - 1 : n \in 0 .. Top
  BY <1>1
<1> QED BY <1>2, <1>3, <1>4 DEF Shape, Tight, SameRow

\* What a file is does not depend on the others.
LEMMA OtherSound ==
  ASSUME NEW k, NEW t, NEW j, t.inode[j] = k.inode[j], t.dinode[j] = k.dinode[j],
         SameRow(Map(k), Map(t), j), k.starved => t.starved
  PROVE  /\ FileSound(k, j) => FileSound(t, j)
         /\ \A size : Going(k, j, size) => Going(t, j, size)
<1>2. Cur(t, j) = Cur(k, j) /\ (Clean(t, j) <=> Clean(k, j))
  BY DEF Cur, Clean, Loaded
<1>3. Saved(k, j) => Saved(t, j)
  BY <1>2, RowShape DEF Saved
<1>4. \A size : Going(k, j, size) => Going(t, j, size)
  BY <1>2, <1>3, RowShape DEF Going
<1>5. Enough(k, j) => Enough(t, j)
  BY <1>2 DEF Enough
<1> QED BY <1>2, <1>4, <1>5 DEF FileSound

\* A step that changes no inode and no place.
LEMMA IdlePart ==
  ASSUME NEW k, NEW t, NodesSame(k, t), Mapped(t, {}), Map(t) = Map(k), k.starved => t.starved
  PROVE  /\ \A i, size : Part(k, i, size) => Part(t, i, size)
         /\ (\A i \in Files : FileSound(k, i)) => Fit(t)
<1>1. \A j : SameRow(Map(k), Map(t), j)
  BY DEF SameRow
<1>2. \A j : (FileSound(k, j) => FileSound(t, j)) /\ \A size : Going(k, j, size) => Going(t, j, size)
  BY <1>1, OtherSound DEF NodesSame
<1> QED BY <1>2 DEF Part, Fit

-----------------------------------------------------------------------------
(* Changes of one inode.                                                   *)

\* What a change of inode i alone leaves as it is.
AllBut(s, t, i) ==
  /\ DOMAIN t = KFields /\ DOMAIN t.inode = DOMAIN s.inode
  /\ \A j \in DOMAIN s.inode \ {i} : t.inode[j] = s.inode[j]
  /\ t.freemap = s.freemap /\ t.unused = s.unused /\ t.superDirty = s.superDirty
  /\ t.super = s.super /\ t.data = s.data /\ t.dinode = s.dinode /\ t.starved = s.starved
  /\ t.halt = s.halt /\ t.got = s.got /\ t.len = s.len /\ t.ret = s.ret

\* Inode i has d, and is dirty as y says.
HasDin(t, i, d, y) == t.inode[i].din = d /\ t.inode[i].dirty = y /\ Loaded(t, i) /\ Cur(t, i) = d

\* Put changes one inode.
LEMMA PutAllBut ==
  ASSUME NEW s, DOMAIN s = KFields, NEW i \in DOMAIN s.inode, NEW b
  PROVE  AllBut(s, Put(s, i, b), i) /\ Put(s, i, b).inode[i] = b
<1> DEFINE f == [s.inode EXCEPT ![i] = b]
           t == [s EXCEPT !.inode = f]
<1>1. DOMAIN f = DOMAIN s.inode /\ f[i] = b /\ \A j \in DOMAIN s.inode \ {i} : f[j] = s.inode[j]
  OBVIOUS
<1>2. t = Put(s, i, b)
  BY DEF Put
<1> HIDE DEF f
<1>3. AllBut(s, t, i) /\ t.inode = f
  BY <1>1 DEF AllBut, KFields
<1> QED BY <1>1, <1>2, <1>3

\* PutDin and PutDirty change one inode, and of it the part on disk and the flag.
LEMMA DinAllBut ==
  ASSUME NEW s, DOMAIN s = KFields, NEW i \in DOMAIN s.inode, DOMAIN s.inode[i] = NodeFields, NEW d
  PROVE  /\ AllBut(s, PutDin(s, i, d), i) /\ HasDin(PutDin(s, i, d), i, d, s.inode[i].dirty)
         /\ AllBut(s, PutDirty(s, i, d), i) /\ HasDin(PutDirty(s, i, d), i, d, TRUE)
<1> DEFINE a == [s.inode[i] EXCEPT !.din = d]
           b == [s.inode[i] EXCEPT !.din = d, !.dirty = TRUE]
<1>1. PutDin(s, i, d) = Put(s, i, a) /\ PutDirty(s, i, d) = Put(s, i, b)
  BY DEF PutDin, PutDirty, Put
<1>2. /\ DOMAIN a = NodeFields /\ a.din = d /\ a.dirty = s.inode[i].dirty
      /\ DOMAIN b = NodeFields /\ b.din = d /\ b.dirty = TRUE
  BY DEF NodeFields
<1>3. a # NotLoaded /\ b # NotLoaded
  BY <1>2 DEF NodeFields, NotLoaded
<1> HIDE DEF a, b
<1>4. AllBut(s, Put(s, i, a), i) /\ Put(s, i, a).inode[i] = a
  BY PutAllBut
<1>5. AllBut(s, Put(s, i, b), i) /\ Put(s, i, b).inode[i] = b
  BY PutAllBut
<1> QED BY <1>1, <1>2, <1>3, <1>4, <1>5 DEF HasDin, Cur, Loaded

\* Of the places, one direct one of inode i.
LEMMA DirectMap ==
  ASSUME NEW s, NEW t, NEW i \in Files, \A j \in Files \ {i} : Cur(t, j) = Cur(s, j), t.data = s.data,
         NEW n \in 0 .. NDirect - 1, NEW b, Cur(t, i).indirect = Cur(s, i).indirect,
         \A m \in 0 .. NDirect - 1 : Cur(t, i).direct[m] = IF m = n THEN b ELSE Cur(s, i).direct[m]
  PROVE  SetAt(Map(s), Map(t), <<i, n>>, b)
<1>1. Top \in Nat /\ NDirect \in Nat /\ NDirect < Top
  BY SfsAssumption DEF Top
<1>2. ASSUME NEW j \in Files, NEW m \in 0 .. Top
      PROVE  Place(t.data, Cur(t, j), m) = IF j = i /\ m = n THEN b ELSE Place(s.data, Cur(s, j), m)
  <2>1. CASE j # i
    BY <2>1 DEF Place
  <2>2. CASE j = i
    BY <1>1, <2>2 DEF Place
  <2> QED BY <2>1, <2>2
<1>3. \A j \in Files, m \in 0 .. Top :
        /\ Map(t)[<<j, m>>] = Place(t.data, Cur(t, j), m)
        /\ Map(s)[<<j, m>>] = Place(s.data, Cur(s, j), m)
  BY DEF Map, Uses
<1>4. \A v \in Uses : \E j \in Files, m \in 0 .. Top : v = <<j, m>>
  BY DEF Uses
<1> HIDE DEF Map
<1>5. ASSUME NEW v \in Uses PROVE Map(t)[v] = IF v = <<i, n>> THEN b ELSE Map(s)[v]
  <2>1. PICK j \in Files, m \in 0 .. Top : v = <<j, m>>
    BY <1>4
  <2>2. v = <<i, n>> <=> j = i /\ m = n
    BY <2>1
  <2> QED BY <1>2, <1>3, <2>1, <2>2
<1> QED BY <1>5 DEF SetAt

\* Or one entry: the block of entries of i is of no other file.
LEMMA EntryMap ==
  ASSUME NEW s, NEW t, NEW i \in Files, \A j \in Files : Cur(t, j) = Cur(s, j),
         NEW ent, ent = Cur(s, i).indirect, ent # 0, NEW n \in NDirect .. Top - 1, NEW b,
         NEW F, NEW H, Exact(Map(s), F, H), DOMAIN s.data = Blocks, DOMAIN s.data[ent] = Words,
         t.data = [s.data EXCEPT ![ent][n - NDirect] = b]
  PROVE  SetAt(Map(s), Map(t), <<i, n>>, b)
<1>1. Top \in Nat /\ NDirect \in Nat /\ NDirect < Top /\ n - NDirect \in Words
  BY SfsAssumption DEF Top, Words
<1>2. ent \in Blocks /\ \A j \in Files \ {i} : Cur(s, j).indirect # ent
  <2>1. \A j \in Files : <<j, Top>> \in Uses /\ Map(s)[<<j, Top>>] = Cur(s, j).indirect
    BY PlaceOf
  <2> DEFINE A == Map(s)
  <2>2. \A j \in Files \ {i} : <<j, Top>> # <<i, Top>>
    OBVIOUS
  <2>3. A[<<i, Top>>] = ent /\ Exact(A, F, H)
    BY <2>1
  <2>4. \A j \in Files : <<j, Top>> \in Uses /\ A[<<j, Top>>] = Cur(s, j).indirect
    BY <2>1
  <2> HIDE DEF A
  <2>5. ent \in Blocks
    BY <2>3, <2>4 DEF Exact
  <2>6. ASSUME NEW j \in Files \ {i} PROVE Cur(s, j).indirect # ent
    <3>1. \A u, v \in Uses : A[u] = A[v] /\ A[u] # 0 => u = v
      BY <2>3 DEF Exact
    <3> QED BY <2>2, <2>3, <2>4, <3>1
  <2> QED BY <2>5, <2>6
<1>3. /\ \A c \in Blocks \ {ent} : t.data[c] = s.data[c]
      /\ \A w \in Words : t.data[ent][w] = IF w = n - NDirect THEN b ELSE s.data[ent][w]
  BY <1>1, <1>2
<1>4. \A j \in Files : Cur(s, j).indirect = 0 \/ Cur(s, j).indirect \in Blocks
  <2>1. \A j \in Files : <<j, Top>> \in Uses /\ Map(s)[<<j, Top>>] = Cur(s, j).indirect
    BY PlaceOf
  <2> QED BY <2>1 DEF Exact
<1>5. ASSUME NEW j \in Files, NEW m \in 0 .. Top
      PROVE  Place(t.data, Cur(t, j), m) = IF j = i /\ m = n THEN b ELSE Place(s.data, Cur(s, j), m)
  <2>1. CASE j # i
    BY <1>2, <1>3, <1>4, <2>1 DEF Place
  <2>2. CASE j = i /\ (m < NDirect \/ m = Top)
    BY <1>1, <2>2 DEF Place
  <2>3. CASE j = i /\ m \in NDirect .. Top - 1
    <3>1. m - NDirect \in Words /\ (m - NDirect = n - NDirect <=> m = n)
      BY <1>1, <2>3, SfsAssumption DEF Top, Words
    <3>2. Place(t.data, Cur(t, j), m) = t.data[ent][m - NDirect]
      BY <1>1, <2>3 DEF Place
    <3>3. Place(s.data, Cur(s, j), m) = s.data[ent][m - NDirect]
      BY <1>1, <2>3 DEF Place
    <3> QED BY <1>3, <2>3, <3>1, <3>2, <3>3
  <2> QED BY <1>1, <2>1, <2>2, <2>3
<1>6. \A j \in Files, m \in 0 .. Top :
        /\ Map(t)[<<j, m>>] = Place(t.data, Cur(t, j), m)
        /\ Map(s)[<<j, m>>] = Place(s.data, Cur(s, j), m)
  BY DEF Map, Uses
<1>7. ASSUME NEW v \in Uses PROVE Map(t)[v] = IF v = <<i, n>> THEN b ELSE Map(s)[v]
  <2>1. PICK j \in Files, m \in 0 .. Top : v = <<j, m>>
    BY DEF Uses
  <2>2. v = <<i, n>> <=> j = i /\ m = n
    BY <2>1
  <2> QED BY <1>5, <1>6, <2>1, <2>2
<1> QED BY <1>7 DEF SetAt

\* Or the block of entries, which has no entry yet.
LEMMA IndirectMap ==
  ASSUME NEW s, NEW t, NEW i \in Files, \A j \in Files \ {i} : Cur(t, j) = Cur(s, j), t.data = s.data,
         Cur(s, i).indirect = 0, NEW ent, Cur(t, i).indirect = ent, ent # 0, s.data[ent] = ZeroBlock,
         \A m \in 0 .. NDirect - 1 : Cur(t, i).direct[m] = Cur(s, i).direct[m]
  PROVE  SetAt(Map(s), Map(t), <<i, Top>>, ent)
<1>1. Top \in Nat /\ NDirect \in Nat /\ NDirect < Top
  BY SfsAssumption DEF Top
<1>2. ASSUME NEW j \in Files, NEW m \in 0 .. Top
      PROVE  Place(t.data, Cur(t, j), m) = IF j = i /\ m = Top THEN ent ELSE Place(s.data, Cur(s, j), m)
  <2>1. CASE j # i
    BY <2>1 DEF Place
  <2>2. CASE j = i /\ (m < NDirect \/ m = Top)
    BY <1>1, <2>2 DEF Place
  <2>3. CASE j = i /\ m \in NDirect .. Top - 1
    <3>1. m - NDirect \in Words
      BY <1>1, <2>3, SfsAssumption DEF Top, Words
    <3>2. t.data[ent][m - NDirect] = 0
      BY <3>1 DEF ZeroBlock
    <3> QED BY <1>1, <2>3, <3>2 DEF Place
  <2> QED BY <1>1, <2>1, <2>2, <2>3
<1>6. \A j \in Files, m \in 0 .. Top :
        /\ Map(t)[<<j, m>>] = Place(t.data, Cur(t, j), m)
        /\ Map(s)[<<j, m>>] = Place(s.data, Cur(s, j), m)
  BY DEF Map, Uses
<1>7. ASSUME NEW v \in Uses PROVE Map(t)[v] = IF v = <<i, Top>> THEN ent ELSE Map(s)[v]
  <2>1. PICK j \in Files, m \in 0 .. Top : v = <<j, m>>
    BY DEF Uses
  <2>2. v = <<i, Top>> <=> j = i /\ m = Top
    BY <2>1
  <2> QED BY <1>2, <1>6, <2>1, <2>2
<1> QED BY <1>7 DEF SetAt

\* Place n of file i, behind its last block, is filled and counted.
Fills(k, u, i, n) ==
  /\ Mapped(u, {}) /\ Loaded(u, i) /\ u.dinode = k.dinode /\ (k.starved => u.starved)
  /\ \A j \in Files \ {i} : u.inode[j] = k.inode[j] /\ SameRow(Map(k), Map(u), j)
  /\ \A m \in 0 .. Top - 1 : m # n => Map(u)[<<i, m>>] = Map(k)[<<i, m>>]
  /\ Map(u)[<<i, n>>] # 0
  /\ Cur(u, i).blocks = n + 1 /\ Cur(u, i).size = Cur(k, i).size
  /\ Clean(u, i) => /\ n >= NDirect /\ Clean(k, i) /\ Cur(u, i).direct = Cur(k, i).direct
                    /\ Cur(u, i).indirect = Cur(k, i).indirect

\* A file one block longer is still on its way to that size.
LEMMA FillPart ==
  ASSUME NEW k, NEW i \in Files, NEW size, Part(k, i, size), NEW n \in 0 .. Top - 1,
         n = Cur(k, i).blocks, NEW u, Fills(k, u, i, n)
  PROVE  Part(u, i, size)
<1> DEFINE A == Map(k)
           B == Map(u)
<1>1. Top \in Nat /\ NDirect \in Nat /\ NDirect < Top /\ n \in Nat
  BY SfsAssumption DEF Top
<1>2. \A j \in Files \ {i} : FileSound(u, j)
  BY OtherSound DEF Fills, Part
<1>3. Shape(A, i, n, size) /\ (~k.starved => Tight(A, i, n)) /\ (Clean(k, i) => Saved(k, i))
  BY DEF Part, Going
<1>4. (\A m \in 0 .. Top - 1 : m # n => B[<<i, m>>] = A[<<i, m>>]) /\ B[<<i, n>>] # 0
  BY DEF Fills
<1> HIDE DEF A, B
<1>5. Shape(B, i, n + 1, size)
  <2>1. size \in Nat /\ size < Reach(n + 1)
    <3>1. Reach(n) <= Reach(n + 1) /\ Reach(n) \in Nat /\ Reach(n + 1) \in Nat
      BY <1>1, ReachGrows
    <3> QED BY <1>3, <3>1 DEF Shape
  <2>2. \A m \in 0 .. n : B[<<i, m>>] # 0
    BY <1>1, <1>3, <1>4 DEF Shape
  <2>3. \A m \in 0 .. NDirect - 1 : B[<<i, m>>] # 0 => m < n + 1
    BY <1>1, <1>3, <1>4 DEF Shape
  <2> QED BY <1>1, <2>1, <2>2, <2>3 DEF Shape
<1>6. ~u.starved => Tight(B, i, n + 1)
  <2>1. ~u.starved => ~k.starved
    BY DEF Fills
  <2> QED BY <1>1, <1>3, <1>4, <2>1 DEF Tight
<1>7. ASSUME Clean(u, i) PROVE Saved(u, i)
  <2>1. /\ n >= NDirect /\ Saved(k, i) /\ Cur(u, i).direct = Cur(k, i).direct
        /\ Cur(u, i).indirect = Cur(k, i).indirect /\ Cur(u, i).size = Cur(k, i).size
        /\ u.dinode = k.dinode
    BY <1>3, <1>7 DEF Fills
  <2> DEFINE b == k.dinode[i].blocks
  <2>2. Shape(A, i, b, Cur(k, i).size)
    BY <2>1 DEF Saved, A
  <2> HIDE DEF b
  <2>3. Shape(B, i, b, Cur(k, i).size)
    BY <1>1, <1>4, <2>1, <2>2 DEF Shape
  <2> QED BY <2>1, <2>3 DEF Saved, B, b
<1>8. Going(u, i, size)
  BY <1>5, <1>6, <1>7 DEF Going, Fills, B
<1> QED BY <1>2, <1>8 DEF Part, Fills

\* The count of blocks is no place.
LEMMA CountMap ==
  ASSUME NEW r, NEW i \in Files, NEW u, AllBut(r, u, i), Inodes = DOMAIN r.inode, NEW d, DinOK(d),
         Cur(r, i) = d, NEW x \in Nat, Cur(u, i) = WithBlocks(d, x) \/ Cur(u, i) = WithSize(d, x)
  PROVE  Map(u) = Map(r) /\ \A H : Mapped(r, H) => Mapped(u, H)
<1>1. \A j \in Files \ {i} : Cur(u, j) = Cur(r, j)
  BY DEF AllBut, Cur, Inodes
<1>2. Cur(u, i).direct = d.direct /\ Cur(u, i).indirect = d.indirect
  BY DinWith
<1>3. ASSUME NEW v \in Uses
      PROVE  Place(u.data, Cur(u, v[1]), v[2]) = Place(r.data, Cur(r, v[1]), v[2])
  <2>1. u.data = r.data
    BY DEF AllBut
  <2>2. CASE v[1] = i
    BY <1>2, <2>1, <2>2 DEF Place
  <2>3. CASE v[1] # i
    BY <1>1, <2>1, <2>3 DEF Place, Uses
  <2> QED BY <2>2, <2>3
<1>4. Map(u) = Map(r)
  BY <1>3 DEF Map
<1>5. \A H : Mapped(r, H) => Mapped(u, H)
  BY <1>4 DEF Mapped, Books, AllBut
<1> QED BY <1>4, <1>5

\* A file in memory.
InMemory(k, i) ==
  /\ DOMAIN k = KFields /\ DOMAIN k.inode = Inodes /\ i \in DOMAIN k.inode
  /\ Loaded(k, i) /\ DOMAIN k.inode[i] = NodeFields
  /\ DinOK(k.inode[i].din) /\ Cur(k, i) = k.inode[i].din /\ Din(k, i) = k.inode[i].din

\* A loaded file has its inode in memory.
LEMMA FileInMemory ==
  ASSUME NEW k, Good(k), NEW i \in Files, Loaded(k, i)
  PROVE  InMemory(k, i) /\ i \in Inodes
<1>1. i \in Inodes
  BY DEF Inodes
<1> QED BY <1>1, LoadedNode DEF InMemory, Cur, Redone, Good, Loaded

-----------------------------------------------------------------------------
(* sfs_bmap_load_nolock.                                                   *)

\* What neither finding nor filling a place changes.
Went(k, t, i) ==
  /\ t.dinode = k.dinode /\ t.len = k.len /\ (k.starved => t.starved) /\ Loaded(t, i)
  /\ Clean(t, i) => Clean(k, i)
  /\ Cur(t, i).size = Cur(k, i).size

\* There was no block.
Short(k, t, i, size) ==
  /\ t.halt = "none" /\ t.ret # "ok" /\ t.starved = TRUE /\ Part(t, i, size) /\ Went(k, t, i)
  /\ Cur(t, i).blocks = Cur(k, i).blocks

\* Place n has a block, which is not yet counted.
Found(k, r, i, n) ==
  /\ InMemory(r, i) /\ Went(k, r, i) /\ ~Failed(r) /\ r.ret = "ok" /\ Mapped(r, {})
  /\ r.got \in Blocks \ r.freemap /\ r.starved = k.starved
  /\ \A j \in Files \ {i} : r.inode[j] = k.inode[j] /\ SameRow(Map(k), Map(r), j)
  /\ \A m \in 0 .. Top - 1 : m # n => Map(r)[<<i, m>>] = Map(k)[<<i, m>>]
  /\ Map(r)[<<i, n>>] = r.got
  /\ Cur(r, i).blocks = n
  /\ Clean(r, i) => /\ n >= NDirect /\ Cur(r, i).direct = Cur(k, i).direct
                    /\ Cur(r, i).indirect = Cur(k, i).indirect

\* A call that may take blocks begins so.
Ready(k, i, size) ==
  /\ Good(k) /\ Loaded(k, i) /\ Part(k, i, size) /\ k.halt = "none" /\ k.ret = "ok"

\* Without a free block nothing happens.
LEMMA NoneShort ==
  ASSUME NEW k, NEW i \in Files, NEW size, Ready(k, i, size), k.freemap = {}
  PROVE  Short(k, BlockAlloc(k), i, size) /\ Failed(BlockAlloc(k))
<1> DEFINE s == BlockAlloc(k)
<1>1. DOMAIN k = KFields /\ Mapped(k, {})
  BY DEF Ready, Good, Part
<1>2. /\ NodesSame(k, s) /\ s.halt = "none" /\ s.ret = "no_mem" /\ s.starved = TRUE
      /\ Mapped(s, {}) /\ Map(s) = Map(k) /\ s.len = k.len
  BY <1>1, AllocStep, AllocPlain DEF Ready, Plain
<1> HIDE DEF s
<1>3. Part(s, i, size)
  BY <1>2, IdlePart DEF Ready
<1>4. Cur(s, i) = Cur(k, i) /\ Loaded(s, i) /\ (Clean(s, i) => Clean(k, i))
  BY <1>2 DEF NodesSame, Cur, Loaded, Clean, Ready
<1> QED BY <1>2, <1>3, <1>4 DEF Short, Went, Failed, s, NodesSame

\* A direct block.
LEMMA DirectFound ==
  ASSUME NEW k, NEW i \in Files, NEW size, Ready(k, i, size), k.freemap # {},
         NEW n \in 0 .. NDirect - 1, n = Cur(k, i).blocks
  PROVE  Found(k, SetDirect(BlockAlloc(k), i, n), i, n)
<1> DEFINE s == BlockAlloc(k)
           d == s.inode[i].din
           r == SetDirect(s, i, n)
           e == WithDirect(d, n, s.got)
<1>1. DOMAIN k = KFields /\ Mapped(k, {}) /\ InMemory(k, i) /\ i \in Inodes /\ k.halt = "none" /\ k.ret = "ok"
  BY FileInMemory DEF Ready, Good, Part
<1>2. NodesSame(k, s) /\ s.halt = "none" /\ s.len = k.len /\ Taken(k, s, {})
  BY <1>1, AllocStep, AllocPlain DEF Plain
<1>3. DOMAIN s = KFields /\ i \in DOMAIN s.inode /\ DOMAIN s.inode[i] = NodeFields
      /\ DOMAIN s.inode = Inodes
  BY <1>1, <1>2 DEF NodesSame, InMemory
<1> HIDE DEF s
<1>4. DinOK(d) /\ d = Cur(k, i) /\ Cur(s, i) = Cur(k, i)
  BY <1>1, <1>2, CurSame DEF NodesSame, InMemory
<1>5. ~Failed(s) /\ s.ret = "ok" /\ s.got # 0 /\ s.got \in Blocks
  BY <1>1, <1>2, NotZero DEF Failed, Taken
<1>6. r = PutDirty(s, i, e)
  BY <1>5 DEF SetDirect, PutDirty, WithDirect
<1> HIDE DEF d
<1>7. DinOK(e) /\ e.blocks = d.blocks /\ e.size = d.size /\ e.indirect = d.indirect
      /\ \A m \in 0 .. NDirect - 1 : e.direct[m] = IF m = n THEN s.got ELSE d.direct[m]
  <2> HIDE DEF e
  <2>1. \A x : DinOK(WithDirect(d, n, x)) /\ WithDirect(d, n, x).blocks = d.blocks
               /\ WithDirect(d, n, x).size = d.size /\ WithDirect(d, n, x).indirect = d.indirect
               /\ \A m \in 0 .. NDirect - 1 :
                    WithDirect(d, n, x).direct[m] = IF m = n THEN x ELSE d.direct[m]
    BY <1>4, DirectWith
  <2> QED BY <2>1 DEF e
<1> HIDE DEF e
<1>8. AllBut(s, r, i) /\ HasDin(r, i, e, TRUE)
  BY <1>3, <1>6, DinAllBut
<1> HIDE DEF r
<1>9. \A j \in Files \ {i} : r.inode[j] = k.inode[j] /\ Cur(r, j) = Cur(s, j)
  BY <1>2, <1>3, <1>8 DEF AllBut, NodesSame, Cur, Inodes
<1>10. SetAt(Map(s), Map(r), <<i, n>>, s.got)
  <2>1. r.data = s.data /\ Cur(r, i) = e
    BY <1>8 DEF AllBut, HasDin
  <2> QED BY <1>4, <1>7, <1>9, <2>1, DirectMap
<1>11. Map(s) = Map(k) /\ Exact(Map(s), s.freemap, {s.got}) /\ Books(s) /\ s.starved = k.starved
  BY <1>2 DEF Taken, Mapped
<1>12. <<i, n>> \in Uses /\ Map(k)[<<i, n>>] = 0 /\ \A j \in Files, m \in 0 .. Top : <<j, m>> \in Uses
  <2>1. n \in 0 .. Top
    BY PlaceOf
  <2>2. Shape(Map(k), i, n, size)
    BY DEF Ready, Part, Going
  <2>3. ~(n < n) /\ \A j \in Files, m \in 0 .. Top : <<j, m>> \in Uses
    BY DEF Uses
  <2> QED BY <2>1, <2>2, <2>3 DEF Shape
<1> DEFINE A == Map(k)
           B == Map(r)
<1>13. /\ SetAt(A, B, <<i, n>>, s.got) /\ Exact(A, s.freemap, {s.got}) /\ A[<<i, n>>] = 0
       /\ A = Map(k) /\ B = Map(r)
  BY <1>10, <1>11, <1>12
<1> HIDE DEF A, B
<1>14. Exact(B, s.freemap, {})
  <2>1. Exact(B, s.freemap, {s.got} \ {s.got})
    BY <1>12, <1>13, PutExact
  <2> QED BY <2>1
<1>15. Mapped(r, {})
  <2>1. r.freemap = s.freemap
    BY <1>8 DEF AllBut
  <2>2. Books(r)
    BY <1>8, <1>11 DEF AllBut, Books
  <2> QED BY <1>13, <1>14, <2>1, <2>2 DEF Mapped
<1>16. \A j \in Files \ {i} : SameRow(A, B, j)
  BY <1>12, <1>13, Zenon DEF SetAt, SameRow
<1>17. (\A m \in 0 .. Top - 1 : m # n => B[<<i, m>>] = A[<<i, m>>]) /\ B[<<i, n>>] = s.got
  <2>1. Top \in Nat
    BY PlaceOf
  <2> QED BY <1>12, <1>13, <2>1 DEF SetAt
<1>18. InMemory(r, i) /\ Cur(r, i) = e
  <2>1. DOMAIN r.inode[i] = NodeFields
    BY <1>3, <1>6 DEF PutDirty, NodeFields
  <2> QED BY <1>3, <1>7, <1>8, <2>1 DEF InMemory, AllBut, HasDin, Din
<1>19. /\ r.halt = "none" /\ r.ret = "ok" /\ r.dinode = k.dinode /\ r.len = k.len /\ r.got = s.got
       /\ r.starved = k.starved /\ r.freemap = s.freemap /\ ~Clean(r, i) /\ Loaded(r, i)
  BY <1>2, <1>5, <1>8, <1>11 DEF AllBut, NodesSame, HasDin, Clean
<1>20. s.got \in Blocks \ s.freemap
  BY <1>13 DEF Exact
<1> QED BY <1>4, <1>7, <1>9, <1>13, <1>15, <1>16, <1>17, <1>18, <1>19, <1>20 DEF Found, Went, Failed, r, s

\* An entry of a block of entries that the file has.
LEMMA EntryFound ==
  ASSUME NEW k, NEW i \in Files, NEW size, Ready(k, i, size), k.freemap # {},
         NEW n \in NDirect .. Top - 1, n = Cur(k, i).blocks,
         NEW ent, ent = Cur(k, i).indirect, ent # 0, k.data[ent][n - NDirect] = 0
  PROVE  Found(k, SetEntry(BlockAlloc(k), ent, n - NDirect), i, n)
<1> DEFINE s == BlockAlloc(k)
           r == SetEntry(s, ent, n - NDirect)
<1>1. DOMAIN k = KFields /\ Mapped(k, {}) /\ InMemory(k, i) /\ i \in Inodes /\ k.halt = "none" /\ k.ret = "ok"
  BY FileInMemory DEF Ready, Good, Part
<1>2. NodesSame(k, s) /\ s.halt = "none" /\ s.len = k.len /\ Taken(k, s, {})
  BY <1>1, AllocStep, AllocPlain DEF Plain
<1> HIDE DEF s
<1>3. ~Failed(s) /\ s.ret = "ok" /\ s.got # 0 /\ s.got \in Blocks
  BY <1>1, <1>2, NotZero DEF Failed, Taken
<1>4. /\ NodesSame(s, r) /\ r.halt = s.halt /\ r.ret = s.ret /\ r.len = s.len /\ r.got = s.got
      /\ r.freemap = s.freemap /\ r.unused = s.unused /\ r.superDirty = s.superDirty
      /\ r.super = s.super /\ r.starved = s.starved
      /\ r.data = [s.data EXCEPT ![ent][n - NDirect] = s.got]
  BY <1>2, <1>3 DEF SetEntry, NodesSame, KFields
<1> HIDE DEF r
<1>5. Map(s) = Map(k) /\ Exact(Map(s), s.freemap, {s.got}) /\ Books(s) /\ s.starved = k.starved
  BY <1>2 DEF Taken, Mapped
<1>6. \A j : Cur(r, j) = Cur(k, j) /\ Cur(s, j) = Cur(k, j)
  BY <1>2, <1>4, CurSame
<1>7. ent \in Blocks /\ DOMAIN s.data = Blocks /\ \A b \in Blocks : DOMAIN s.data[b] = Words
  BY <1>1, <1>5, EntsUsed DEF Books
<1> DEFINE A == Map(k)
           B == Map(r)
<1>8. SetAt(A, B, <<i, n>>, s.got)
  <2>1. SetAt(Map(s), Map(r), <<i, n>>, s.got)
    BY <1>4, <1>5, <1>6, <1>7, EntryMap
  <2> QED BY <1>5, <2>1
<1>9. <<i, n>> \in Uses /\ A[<<i, n>>] = 0 /\ \A j \in Files, m \in 0 .. Top : <<j, m>> \in Uses
  <2>1. n \in 0 .. Top /\ Map(k)[<<i, n>>] = 0
    BY PlaceOf
  <2> QED BY <2>1 DEF Uses
<1>10. Exact(A, s.freemap, {s.got}) /\ A = Map(k) /\ B = Map(r) /\ Books(s)
  BY <1>5
<1> HIDE DEF A, B
<1>11. Exact(B, s.freemap, {})
  <2>1. Exact(B, s.freemap, {s.got} \ {s.got})
    BY <1>8, <1>9, <1>10, PutExact
  <2> QED BY <2>1
<1>12. Books(r)
  <2>1. DOMAIN r.data = Blocks /\ \A b \in Blocks : DOMAIN r.data[b] = Words
    BY <1>4, <1>7
  <2> QED BY <1>4, <1>10, <2>1 DEF Books
<1>13. Mapped(r, {})
  BY <1>4, <1>10, <1>11, <1>12 DEF Mapped
<1>14. \A j \in Files \ {i} : r.inode[j] = k.inode[j] /\ SameRow(A, B, j)
  BY <1>2, <1>4, <1>8, <1>9 DEF SetAt, SameRow, NodesSame
<1>15. (\A m \in 0 .. Top - 1 : m # n => B[<<i, m>>] = A[<<i, m>>]) /\ B[<<i, n>>] = s.got
  <2>1. Top \in Nat
    BY PlaceOf
  <2> QED BY <1>8, <1>9, <2>1 DEF SetAt
<1>16. InMemory(r, i) /\ (Clean(r, i) => Clean(k, i)) /\ r.dinode = k.dinode
  BY <1>1, <1>2, <1>4, <1>6 DEF InMemory, NodesSame, Loaded, Clean, Din
<1>17. s.got \in Blocks \ s.freemap
  BY <1>10 DEF Exact
<1> QED BY <1>2, <1>3, <1>4, <1>5, <1>6, <1>10, <1>13, <1>14, <1>15, <1>16, <1>17
        DEF Found, Went, Failed, InMemory, r, s

\* The first entry, in a block of entries that is new too; without a second block the first
\* one is given back.
LEMMA EntriesFound ==
  ASSUME NEW k, NEW i \in Files, NEW size, Ready(k, i, size), k.freemap # {},
         NEW n \in NDirect .. Top - 1, n = Cur(k, i).blocks, Cur(k, i).indirect = 0,
         NEW s, s = BlockAlloc(k), NEW r, r = SetIndirect(BlockAlloc(s), i, s.got, n - NDirect)
  PROVE  IF s.freemap = {} THEN Short(k, r, i, size) ELSE Found(k, r, i, n)
<1> DEFINE u == BlockAlloc(s)
           ent == s.got
           b == u.got
           j0 == n - NDirect
<1>1. DOMAIN k = KFields /\ Mapped(k, {}) /\ InMemory(k, i) /\ i \in Inodes /\ k.halt = "none" /\ k.ret = "ok"
  BY FileInMemory DEF Ready, Good, Part
<1>2. NodesSame(k, s) /\ s.halt = "none" /\ s.len = k.len /\ Taken(k, s, {})
  BY <1>1, AllocStep, AllocPlain DEF Plain
<1>3. DOMAIN s = KFields /\ Mapped(s, {ent}) /\ s.ret = "ok"
  BY <1>1, <1>2 DEF NodesSame, Taken
<1>4. /\ NodesSame(s, u) /\ u.halt = "none" /\ u.len = k.len
      /\ IF s.freemap = {} THEN u.ret = "no_mem" /\ u.starved = TRUE /\ Mapped(u, {ent}) /\ Map(u) = Map(s)
         ELSE Taken(s, u, {ent})
  BY <1>2, <1>3, AllocStep, AllocPlain DEF Plain
<1> HIDE DEF u
<1>5. \A j : Cur(u, j) = Cur(k, j) /\ Cur(s, j) = Cur(k, j)
  BY <1>2, <1>4, CurSame
<1>6. CASE s.freemap = {}
  <2>1. r = BlockFree(u, ent)
    BY <1>4, <1>6 DEF SetIndirect, Failed, u
  <2>2. DOMAIN u = KFields /\ Mapped(u, {ent})
    BY <1>4, <1>6 DEF NodesSame
  <2> HIDE DEF ent
  <2>3. /\ NodesSame(u, r) /\ r.halt = u.halt /\ r.ret = u.ret /\ r.starved = u.starved
        /\ Mapped(r, {ent} \ {ent}) /\ Map(r) = Map(u) /\ r.len = u.len
    BY <2>1, <2>2, FreeStep, FreePlain DEF Plain
  <2>4. NodesSame(k, r) /\ Mapped(r, {}) /\ Map(r) = Map(k) /\ r.starved = TRUE
    <3>1. {ent} \ {ent} = {}
      OBVIOUS
    <3> QED BY <1>2, <1>4, <1>6, <2>3, <3>1 DEF NodesSame, Taken
  <2>5. Part(r, i, size)
    BY <2>4, IdlePart DEF Ready
  <2>6. Cur(r, i) = Cur(k, i) /\ Loaded(r, i) /\ (Clean(r, i) => Clean(k, i)) /\ r.dinode = k.dinode
    BY <2>4, CurSame DEF NodesSame, Loaded, Clean, Ready
  <2>7. r.halt = "none" /\ r.ret # "ok" /\ r.len = k.len
    BY <1>4, <1>6, <2>3
  <2> QED BY <1>6, <2>4, <2>5, <2>6, <2>7 DEF Short, Went
<1>7. CASE s.freemap # {}
  <2> DEFINE d == u.inode[i].din
             e == WithIndirect(d, ent)
             c == PutDirty(u, i, e)
  <2>1. /\ Taken(s, u, {ent}) /\ u.ret = "ok" /\ ~Failed(u) /\ u.starved = k.starved
        /\ b \in Blocks /\ b # ent /\ b # 0 /\ ent \in Blocks /\ ent # 0
    BY <1>2, <1>3, <1>4, <1>7, NotZero DEF Taken, Failed
  <2>2. /\ DOMAIN u = KFields /\ DOMAIN u.inode = Inodes /\ i \in DOMAIN u.inode
        /\ DOMAIN u.inode[i] = NodeFields
    BY <1>1, <1>2, <1>4 DEF NodesSame, InMemory
  <2>3. DinOK(d) /\ d = Cur(k, i)
    BY <1>1, <1>2, <1>4 DEF NodesSame, InMemory
  <2>4. u.data[ent] = ZeroBlock /\ u.data[b] = ZeroBlock
    <3>1. s.data[ent] = ZeroBlock
      BY <1>2 DEF Taken
    <3> QED BY <2>1, <3>1 DEF Taken
  <2>5. /\ Map(u) = Map(k) /\ Exact(Map(k), u.freemap, {ent} \cup {b}) /\ Books(u)
        /\ DOMAIN u.data = Blocks /\ \A x \in Blocks : DOMAIN u.data[x] = Words
    BY <1>2, <2>1 DEF Taken, Mapped, Books
  <2> HIDE DEF d
  <2>6. /\ DinOK(e) /\ e.blocks = d.blocks /\ e.size = d.size /\ e.direct = d.direct
        /\ e.indirect = ent
    BY <2>3, DinWith
  <2>7. r.inode = c.inode /\ r.dinode = u.dinode /\ DOMAIN r = KFields /\ DOMAIN r.inode[i] = NodeFields
        /\ r.data = [u.data EXCEPT ![ent][j0] = b]
        /\ r.freemap = u.freemap /\ r.unused = u.unused /\ r.superDirty = u.superDirty
        /\ r.super = u.super /\ r.starved = u.starved /\ r.halt = u.halt /\ r.ret = u.ret
        /\ r.len = u.len /\ r.got = b
    <3> DEFINE v == SetEntry(u, ent, j0)
    <3> DEFINE a  == u.inode[i]
               a1 == [[a EXCEPT !.din = e] EXCEPT !.dirty = TRUE]
    <3>1. v = [u EXCEPT !.data[ent][j0] = b]
      BY <2>1 DEF SetEntry
    <3>2. r = [v EXCEPT !.inode[i].din.indirect = ent, !.inode[i].dirty = TRUE]
      BY <2>1 DEF SetIndirect, u
    <3>3. c = [u EXCEPT !.inode[i].din = e, !.inode[i].dirty = TRUE]
      BY DEF PutDirty
    <3>4. e = [u.inode[i].din EXCEPT !.indirect = ent]
      BY DEF WithIndirect, d
    <3> HIDE DEF v, c, e, j0, b, ent
    <3>5. /\ DOMAIN v = KFields /\ v.inode = u.inode /\ v.data = [u.data EXCEPT ![ent][j0] = b]
          /\ v.dinode = u.dinode
          /\ v.freemap = u.freemap /\ v.unused = u.unused /\ v.superDirty = u.superDirty
          /\ v.super = u.super /\ v.starved = u.starved /\ v.halt = u.halt /\ v.ret = u.ret
          /\ v.len = u.len /\ v.got = u.got
      BY <2>2, <3>1 DEF KFields
    <3>6. a1 = [[a EXCEPT !.din = [a.din EXCEPT !.indirect = ent]] EXCEPT !.dirty = TRUE]
      BY <3>4
    <3>7. r = Put(v, i, a1)
      <4>1. r = Put(v, i, [[v.inode[i] EXCEPT !.din = [v.inode[i].din EXCEPT !.indirect = ent]]
                              EXCEPT !.dirty = TRUE])
        <5> DEFINE w == v.inode[i]
                   y == [w.din EXCEPT !.indirect = ent]
                   z == [[w EXCEPT !.din = y] EXCEPT !.dirty = TRUE]
        <5>1. [v EXCEPT !.inode[i].din.indirect = ent, !.inode[i].dirty = TRUE] = Put(v, i, z)
          BY DEF Put
        <5> QED BY <3>2, <5>1
      <4>2. v.inode[i] = a
        BY <3>5
      <4> HIDE DEF a, a1
      <4> QED BY <3>6, <4>1, <4>2
    <3>8. c = Put(u, i, a1)
      BY <3>3 DEF Put
    <3>9. DOMAIN a1 = NodeFields
      BY <2>2 DEF NodeFields
    <3> HIDE DEF a1, a
    <3>10. AllBut(v, r, i) /\ r.inode[i] = a1
      BY <2>2, <3>5, <3>7, PutAllBut
    <3>11. r.inode = c.inode
      BY <3>5, <3>7, <3>8, <2>2 DEF Put, KFields
    <3> QED BY <3>5, <3>9, <3>10, <3>11 DEF AllBut, b
  <2> HIDE DEF e
  <2>8. AllBut(u, c, i) /\ HasDin(c, i, e, TRUE)
    BY <2>2, DinAllBut
  <2> HIDE DEF c, b, ent, j0
  <2>9. \A j \in Files \ {i} : c.inode[j] = k.inode[j] /\ Cur(c, j) = Cur(u, j)
    BY <1>2, <1>4, <2>2, <2>8 DEF AllBut, NodesSame, Cur, Inodes
  <2>10. SetAt(Map(u), Map(c), <<i, Top>>, ent)
    <3>1. c.data = u.data /\ Cur(c, i) = e
      BY <2>8 DEF AllBut, HasDin
    <3> QED BY <1>5, <2>1, <2>3, <2>4, <2>6, <2>9, <3>1, IndirectMap
  <2>11. NodesSame(c, r) /\ \A j : Cur(r, j) = Cur(c, j)
    <3>1. NodesSame(c, r)
      BY <2>7, <2>8 DEF NodesSame, AllBut
    <3> QED BY <3>1, CurSame
  <2> DEFINE A == Map(k)
             B == Map(c)
             C == Map(r)
  <2>12. /\ <<i, n>> \in Uses /\ <<i, Top>> \in Uses /\ \A j \in Files, m \in 0 .. Top : <<j, m>> \in Uses
         /\ A[<<i, n>>] = 0 /\ A[<<i, Top>>] = 0
    <3>1. n \in 0 .. Top /\ Top \in Nat /\ Map(k)[<<i, n>>] = 0 /\ Map(k)[<<i, Top>>] = 0
      BY PlaceOf
    <3> QED BY <3>1 DEF Uses
  <2>13. A = Map(k) /\ B = Map(c) /\ C = Map(r) /\ Exact(A, u.freemap, {ent, b}) /\ SetAt(A, B, <<i, Top>>, ent)
    <3>1. {ent} \cup {b} = {ent, b}
      OBVIOUS
    <3> QED BY <2>5, <2>10, <3>1
  <2> HIDE DEF A, B, C
  <2>14. Exact(B, u.freemap, {b}) /\ B[<<i, n>>] = 0
    <3>1. Exact(B, u.freemap, {ent, b} \ {ent})
      BY <2>12, <2>13, PutExact
    <3>2. {ent, b} \ {ent} = {b}
      BY <2>1 DEF ent, b
    <3>3. <<i, n>> # <<i, Top>>
      BY PlaceOf
    <3> QED BY <2>12, <2>13, <3>1, <3>2, <3>3 DEF SetAt
  <2>15. SetAt(B, C, <<i, n>>, b)
    <3>1. c.data = u.data /\ Cur(c, i).indirect = ent
      BY <2>6, <2>8 DEF AllBut, HasDin
    <3>2. r.data = [c.data EXCEPT ![ent][n - NDirect] = b]
      BY <2>7, <3>1 DEF j0
    <3>3. DOMAIN c.data = Blocks /\ DOMAIN c.data[ent] = Words /\ ent # 0
      BY <2>1, <2>5, <3>1 DEF ent
    <3>4. Exact(Map(c), u.freemap, {b})
      BY <2>13, <2>14
    <3>5. SetAt(Map(c), Map(r), <<i, n>>, b)
      BY <2>11, <3>1, <3>2, <3>3, <3>4, EntryMap
    <3> QED BY <2>13, <3>5
  <2>16. Exact(C, u.freemap, {})
    <3>1. Exact(C, u.freemap, {b} \ {b})
      BY <2>12, <2>14, <2>15, PutExact
    <3> QED BY <3>1
  <2>17. Mapped(r, {})
    <3>1. DOMAIN r.data = Blocks /\ \A x \in Blocks : DOMAIN r.data[x] = Words
      BY <2>1, <2>5, <2>7 DEF ent
    <3>2. Books(r)
      BY <2>5, <2>7, <3>1 DEF Books
    <3> QED BY <2>7, <2>13, <2>16, <3>2 DEF Mapped
  <2>18. \A j \in Files \ {i} : r.inode[j] = k.inode[j] /\ SameRow(A, C, j)
    <3>1. \A j \in Files \ {i}, m \in 0 .. Top : <<j, m>> # <<i, Top>> /\ <<j, m>> # <<i, n>>
      OBVIOUS
    <3>2. \A j \in Files \ {i} : SameRow(A, C, j)
      BY <2>12, <2>13, <2>15, <3>1, Zenon DEF SetAt, SameRow
    <3> QED BY <2>7, <2>9, <3>2
  <2>19. (\A m \in 0 .. Top - 1 : m # n => C[<<i, m>>] = A[<<i, m>>]) /\ C[<<i, n>>] = b
    <3>1. Top \in Nat
      BY PlaceOf, Zenon
    <3>2. \A m \in 0 .. Top - 1 : <<i, m>> \in Uses /\ <<i, m>> # <<i, Top>> /\ (m # n => <<i, m>> # <<i, n>>)
      BY <2>12, <3>1
    <3> QED BY <2>12, <2>13, <2>15, <3>2 DEF SetAt
  <2>20. InMemory(r, i) /\ Cur(r, i) = e /\ ~Clean(r, i)
    <3>1. r.inode[i].din = e /\ r.inode[i].dirty = TRUE /\ Loaded(r, i) /\ Cur(r, i) = e
      BY <2>7, <2>8, <2>11 DEF HasDin, Loaded
    <3>2. DOMAIN r.inode = Inodes
      BY <2>2, <2>7, <2>8 DEF AllBut
    <3> QED BY <1>1, <2>6, <2>7, <3>1, <3>2, Zenon DEF InMemory, Din, Clean
  <2>21. b \in Blocks \ r.freemap
    BY <2>7, <2>14 DEF Exact
  <2>22. r.dinode = k.dinode /\ r.len = k.len /\ r.halt = "none" /\ r.ret = "ok"
    BY <1>2, <1>4, <2>1, <2>7 DEF NodesSame
  <2>23. Cur(r, i).blocks = n /\ Cur(r, i).size = Cur(k, i).size
    BY <2>3, <2>6, <2>20
  <2>24. r.got = b /\ r.starved = k.starved
    BY <2>1, <2>7
  <2> QED BY <1>7, <2>13, <2>17, <2>18, <2>19, <2>20, <2>21, <2>22, <2>23, <2>24
          DEF Found, Went, Failed, InMemory
<1> QED BY <1>6, <1>7

\* A block that is there already is no step on the bitmap.
WithGot(k, x) == [k EXCEPT !.got = x]

\* Setting the block that was found changes nothing else.
LEMMA GotSame ==
  ASSUME NEW k, DOMAIN k = KFields, NEW x, NEW r, r = WithGot(k, x)
  PROVE  /\ NodesSame(k, r) /\ r.got = x /\ r.halt = k.halt /\ r.ret = k.ret /\ r.len = k.len
         /\ r.data = k.data /\ r.starved = k.starved /\ r.freemap = k.freemap
         /\ Map(r) = Map(k) /\ \A H : Mapped(k, H) => Mapped(r, H)
<1>1. /\ NodesSame(k, r) /\ r.got = x /\ r.halt = k.halt /\ r.ret = k.ret /\ r.len = k.len
      /\ r.data = k.data /\ r.starved = k.starved /\ r.freemap = k.freemap
      /\ r.unused = k.unused /\ r.superDirty = k.superDirty /\ r.super = k.super
  BY DEF WithGot, NodesSame, KFields
<1>2. Map(r) = Map(k)
  BY <1>1, CurSame, MapSame
<1>3. \A H : Mapped(k, H) => Mapped(r, H)
  BY <1>1, <1>2 DEF Mapped, Books
<1> QED BY <1>1, <1>2, <1>3

\* An entry left behind by a shorter block count is used again.
LEMMA OldFound ==
  ASSUME NEW k, NEW i \in Files, NEW size, Ready(k, i, size), NEW n \in NDirect .. Top - 1,
         n = Cur(k, i).blocks, NEW x, x = Map(k)[<<i, n>>], x # 0, NEW r, r = WithGot(k, x)
  PROVE  Found(k, r, i, n)
<1>1. DOMAIN k = KFields /\ Mapped(k, {}) /\ InMemory(k, i) /\ k.halt = "none" /\ k.ret = "ok"
  BY FileInMemory DEF Ready, Good, Part
<1>2. /\ NodesSame(k, r) /\ r.got = x /\ r.halt = k.halt /\ r.ret = k.ret /\ r.len = k.len
      /\ r.starved = k.starved /\ r.freemap = k.freemap /\ Map(r) = Map(k) /\ Mapped(r, {})
  BY <1>1, GotSame
<1>3. \A j : Cur(r, j) = Cur(k, j)
  BY <1>2, CurSame
<1>4. InMemory(r, i) /\ Loaded(r, i) /\ (Clean(r, i) => Clean(k, i))
  BY <1>1, <1>2, <1>3, Zenon DEF InMemory, NodesSame, Loaded, Clean, Din
<1>5. x \in Blocks \ k.freemap
  <2>1. n \in 0 .. Top
    BY PlaceOf
  <2>2. <<i, n>> \in Uses
    BY <2>1 DEF Uses
  <2> QED BY <1>1, <2>2 DEF Mapped, Exact
<1>6. \A j \in Files \ {i} : r.inode[j] = k.inode[j] /\ SameRow(Map(k), Map(r), j)
  BY <1>2 DEF NodesSame, SameRow
<1>7. r.dinode = k.dinode
  BY <1>2 DEF NodesSame
<1> QED BY <1>1, <1>2, <1>3, <1>4, <1>5, <1>6, <1>7 DEF Found, Went, Failed

\* sfs_bmap_get_nolock for the block behind the last.
LEMMA BmapFound ==
  ASSUME NEW k, NEW i \in Files, NEW size, Ready(k, i, size), NEW n \in 0 .. Top - 1,
         n = Cur(k, i).blocks, NEW r, r = BmapGet(k, i, n, TRUE)
  PROVE  Short(k, r, i, size) \/ Found(k, r, i, n)
<1> DEFINE s == BlockAlloc(k)
           ent == Din(k, i).indirect
<1>1. DOMAIN k = KFields /\ Mapped(k, {}) /\ InMemory(k, i) /\ Din(k, i) = Cur(k, i)
  BY FileInMemory DEF Ready, Good, Part, InMemory
<1>2. k.freemap = {} => Short(k, s, i, size) /\ Failed(s)
  BY NoneShort
<1>3. Top \in Nat /\ NDirect \in Nat /\ NDirect + BlkWords = Top /\ ~(n >= NDirect + BlkWords)
  BY SfsAssumption DEF Top
<1>4. CASE n < NDirect
  <2>1. Din(k, i).direct[n] = 0
    <3>1. n \in 0 .. NDirect - 1 /\ ~(n < n)
      BY <1>3, <1>4
    <3>2. Map(k)[<<i, n>>] = Cur(k, i).direct[n]
      BY <3>1, PlaceOf
    <3>3. Shape(Map(k), i, n, size)
      BY DEF Ready, Part, Going
    <3> QED BY <1>1, <3>1, <3>2, <3>3 DEF Shape
  <2>2. r = SetDirect(s, i, n)
    <3>1. ~(n >= NDirect)
      BY <1>3, <1>4
    <3> QED BY <1>3, <1>4, <2>1, <3>1 DEF BmapGet
  <2>3. CASE k.freemap = {}
    <3> HIDE DEF s
    <3> QED BY <1>2, <2>2, <2>3 DEF SetDirect
  <2>4. CASE k.freemap # {}
    <3>1. n \in 0 .. NDirect - 1
      BY <1>3, <1>4
    <3> QED BY <2>2, <2>4, <3>1, DirectFound
  <2> QED BY <2>3, <2>4
<1>5. CASE n >= NDirect
  <2>1. r = BmapGetSub(k, i, n - NDirect, TRUE) /\ n \in NDirect .. Top - 1
    <3>1. ~(n < NDirect) /\ n < NDirect + BlkWords /\ n \in NDirect .. Top - 1
      BY <1>3, <1>5
    <3>2. BmapGet(k, i, n, TRUE) = BmapGetSub(k, i, n - NDirect, TRUE)
      BY <1>3, <1>5, <3>1 DEF BmapGet
    <3> QED BY <3>1, <3>2
  <2>0. Map(k)[<<i, n>>] = IF Cur(k, i).indirect = 0 THEN 0 ELSE k.data[Cur(k, i).indirect][n - NDirect]
    BY <2>1, PlaceOf
  <2>2. CASE ent # 0 /\ k.data[ent][n - NDirect] # 0
    <3> DEFINE x == k.data[ent][n - NDirect]
    <3>1. r = WithGot(k, x)
      BY <2>1, <2>2 DEF BmapGetSub, WithGot
    <3>2. x = Map(k)[<<i, n>>]
      BY <1>1, <2>0, <2>2
    <3> HIDE DEF x, ent
    <3>3. x # 0
      BY <2>2 DEF x
    <3> QED BY <2>1, <3>1, <3>2, <3>3, OldFound
  <2>3. CASE ent # 0 /\ k.data[ent][n - NDirect] = 0
    <3>1. r = SetEntry(s, ent, n - NDirect)
      BY <2>1, <2>3 DEF BmapGetSub
    <3>2. CASE k.freemap = {}
      <4> HIDE DEF s
      <4> QED BY <1>2, <3>1, <3>2 DEF SetEntry
    <3>3. CASE k.freemap # {}
      BY <1>1, <2>1, <2>3, <3>1, <3>3, EntryFound
    <3> QED BY <3>2, <3>3
  <2>4. CASE ent = 0
    <3>1. r = IF Failed(s) THEN s ELSE SetIndirect(BlockAlloc(s), i, s.got, n - NDirect)
      <4> HIDE DEF s
      <4> QED BY <2>1, <2>4 DEF BmapGetSub, s
    <3>2. CASE k.freemap = {}
      <4> HIDE DEF s
      <4> QED BY <1>2, <3>1, <3>2
    <3>3. CASE k.freemap # {}
      <4>1. ~Failed(s)
        <5>1. s.halt = "none" /\ s.ret = "ok"
          BY <1>1, <3>3, AllocStep DEF Ready, Taken
        <5> QED BY <5>1 DEF Failed
      <4> HIDE DEF s
      <4>2. Cur(k, i).indirect = 0 /\ r = SetIndirect(BlockAlloc(s), i, s.got, n - NDirect)
        BY <1>1, <2>4, <3>1, <4>1
      <4> QED BY <2>1, <3>3, <4>2, EntriesFound DEF s
    <3> QED BY <3>2, <3>3
  <2> QED BY <2>2, <2>3, <2>4
<1>6. n < NDirect \/ n >= NDirect
  BY <1>3
<1> QED BY <1>4, <1>5, <1>6

\* And for one that is there.
LEMMA BmapKept ==
  ASSUME NEW k, NEW i \in Files, NEW size, Ready(k, i, size), NEW n \in Nat,
         n < Cur(k, i).blocks
  PROVE  /\ BmapGet(k, i, n, FALSE) = WithGot(k, Map(k)[<<i, n>>])
         /\ Map(k)[<<i, n>>] \in Blocks \ k.freemap
<1>1. Mapped(k, {}) /\ InMemory(k, i) /\ Din(k, i) = Cur(k, i)
  BY FileInMemory DEF Ready, Part, InMemory
<1>2. Shape(Map(k), i, Cur(k, i).blocks, size)
  BY DEF Ready, Part, Going
<1>3. /\ Top \in Nat /\ NDirect \in Nat /\ NDirect + BlkWords = Top /\ ~(n >= NDirect + BlkWords)
      /\ n \in 0 .. Top - 1 /\ n \in 0 .. Top /\ n \in 0 .. Cur(k, i).blocks - 1
  BY <1>2, SfsAssumption DEF Top, Shape
<1>4. Map(k)[<<i, n>>] # 0
  BY <1>2, <1>3 DEF Shape
<1>5. Map(k)[<<i, n>>] \in Blocks \ k.freemap
  <2>1. <<i, n>> \in Uses
    BY <1>3 DEF Uses
  <2> QED BY <1>1, <1>4, <2>1 DEF Mapped, Exact
<1>6. CASE n < NDirect
  <2>1. n \in 0 .. NDirect - 1 /\ ~(n >= NDirect)
    BY <1>3, <1>6
  <2>2. Map(k)[<<i, n>>] = Din(k, i).direct[n]
    BY <1>1, <2>1, PlaceOf, Zenon
  <2> QED BY <1>3, <1>5, <1>6, <2>1, <2>2 DEF BmapGet, WithGot
<1>7. CASE n >= NDirect
  <2>1. n \in NDirect .. Top - 1 /\ ~(n < NDirect) /\ n < NDirect + BlkWords
    BY <1>3, <1>7
  <2>0. Map(k)[<<i, n>>] = IF Cur(k, i).indirect = 0 THEN 0 ELSE k.data[Cur(k, i).indirect][n - NDirect]
    BY <2>1, PlaceOf
  <2> DEFINE ent == Din(k, i).indirect
  <2>2. Map(k)[<<i, n>>] = IF ent = 0 THEN 0 ELSE k.data[ent][n - NDirect]
    BY <1>1, <2>0
  <2>3. BmapGet(k, i, n, FALSE) = BmapGetSub(k, i, n - NDirect, FALSE)
    BY <1>3, <1>7, <2>1 DEF BmapGet
  <2>4. BmapGetSub(k, i, n - NDirect, FALSE) = WithGot(k, k.data[ent][n - NDirect])
    BY <1>4, <2>2 DEF BmapGetSub, WithGot
  <2> QED BY <1>4, <1>5, <2>2, <2>3, <2>4
<1>8. n < NDirect \/ n >= NDirect
  BY <1>3
<1> QED BY <1>6, <1>7, <1>8

\* Going looks at the parts of an inode on disk.
LEMMA GoingSame ==
  ASSUME NEW k, NEW t, NEW i, Cur(t, i).size = Cur(k, i).size, Cur(t, i).blocks = Cur(k, i).blocks,
         Cur(t, i).direct = Cur(k, i).direct, Cur(t, i).indirect = Cur(k, i).indirect,
         Clean(t, i) => Clean(k, i), t.dinode = k.dinode, SameRow(Map(k), Map(t), i),
         t.starved = k.starved
  PROVE  (\A size : Going(k, i, size) => Going(t, i, size)) /\ (Enough(k, i) => Enough(t, i))
<1>1. Saved(k, i) => Saved(t, i)
  BY RowShape DEF Saved
<1>2. \A size : Going(k, i, size) => Going(t, i, size)
  BY <1>1, RowShape DEF Going
<1> QED BY <1>2 DEF Enough

\* Block number index is there, be it new or not.
Got(k, t, i, size, index) ==
  /\ t.halt = "none" /\ t.ret = "ok" /\ Part(t, i, size) /\ Went(k, t, i) /\ t.starved = k.starved
  /\ index < Top /\ t.got \in Blocks /\ Map(t)[<<i, index>>] = t.got
  /\ Cur(t, i).blocks = IF index = Cur(k, i).blocks THEN index + 1 ELSE Cur(k, i).blocks

\* Changing the count alone.
LEMMA CountStep ==
  ASSUME NEW r, NEW i \in Files, InMemory(r, i), NEW x \in Nat, NEW d, d = r.inode[i].din,
         NEW u, u = PutDin(r, i, WithBlocks(d, x)), Mapped(r, {})
  PROVE  /\ AllBut(r, u, i) /\ Map(u) = Map(r) /\ Mapped(u, {}) /\ Loaded(u, i)
         /\ Cur(u, i).blocks = x /\ Cur(u, i).size = d.size /\ Cur(u, i).direct = d.direct
         /\ Cur(u, i).indirect = d.indirect /\ (Clean(u, i) <=> Clean(r, i)) /\ Cur(r, i) = d
<1> DEFINE e == WithBlocks(d, x)
<1>1. /\ DOMAIN r = KFields /\ DOMAIN r.inode = Inodes /\ i \in DOMAIN r.inode
      /\ Loaded(r, i) /\ DOMAIN r.inode[i] = NodeFields /\ DinOK(d) /\ Cur(r, i) = d
  BY DEF InMemory
<1>2. /\ DinOK(e) /\ e.blocks = x /\ e.size = d.size /\ e.direct = d.direct
      /\ e.indirect = d.indirect
  BY <1>1, DinWith
<1> HIDE DEF e
<1>3. u = PutDin(r, i, e)
  BY DEF e
<1>4. AllBut(r, u, i) /\ HasDin(u, i, e, r.inode[i].dirty)
  BY <1>1, <1>3, DinAllBut
<1>5. Map(u) = Map(r) /\ Mapped(u, {})
  <2>1. Cur(u, i) = WithBlocks(d, x)
    BY <1>4 DEF HasDin, e
  <2> QED BY <1>1, <1>4, <2>1, CountMap
<1>6. Clean(u, i) <=> Clean(r, i)
  BY <1>1, <1>4 DEF Clean, HasDin
<1> QED BY <1>1, <1>2, <1>4, <1>5, <1>6 DEF HasDin

\* The call ends by counting the block found.
LEMMA LoadNew ==
  ASSUME NEW k, NEW i \in Files, NEW size, Ready(k, i, size), NEW n \in 0 .. Top - 1,
         n = Cur(k, i).blocks, NEW r, Found(k, r, i, n),
         NEW u, u = PutDin(r, i, WithBlocks(r.inode[i].din, n + 1))
  PROVE  Got(k, u, i, size, n)
<1> DEFINE d == r.inode[i].din
<1>1. n + 1 \in Nat /\ InMemory(r, i) /\ Mapped(r, {}) /\ Top \in Nat /\ n < Top
  <2>1. Top \in Nat
    BY PlaceOf
  <2> QED BY <2>1 DEF Found
<1>2. /\ AllBut(r, u, i) /\ Map(u) = Map(r) /\ Mapped(u, {}) /\ Loaded(u, i)
      /\ Cur(u, i).blocks = n + 1 /\ Cur(u, i).size = d.size /\ Cur(u, i).direct = d.direct
      /\ Cur(u, i).indirect = d.indirect /\ (Clean(u, i) <=> Clean(r, i)) /\ Cur(r, i) = d
  BY <1>1, CountStep
<1> HIDE DEF d
<1>3. /\ Went(k, r, i) /\ ~Failed(r) /\ r.ret = "ok" /\ r.starved = k.starved
      /\ r.got \in Blocks \ r.freemap /\ Map(r)[<<i, n>>] = r.got
  BY DEF Found
<1>4. r.got # 0 /\ r.halt = "none"
  BY <1>3, NotZero DEF Failed
<1>5. DOMAIN r.inode = Inodes /\ \A j \in Files \ {i} : j \in DOMAIN r.inode \ {i}
  BY <1>1 DEF InMemory, Inodes
<1>6. \A j \in Files \ {i} : u.inode[j] = k.inode[j] /\ SameRow(Map(k), Map(u), j)
  BY <1>2, <1>5 DEF Found, AllBut
<1>7. Went(k, u, i)
  BY <1>2, <1>3 DEF Went, AllBut
<1>8. \A m \in 0 .. Top - 1 : m # n => Map(u)[<<i, m>>] = Map(k)[<<i, m>>]
  BY <1>2 DEF Found
<1>9. Clean(u, i) => /\ n >= NDirect /\ Clean(k, i) /\ Cur(u, i).direct = Cur(k, i).direct
                     /\ Cur(u, i).indirect = Cur(k, i).indirect
  BY <1>2, <1>7 DEF Found, Went
<1>10. Fills(k, u, i, n)
  BY <1>2, <1>3, <1>4, <1>6, <1>7, <1>8, <1>9, Zenon DEF Fills, Went
<1>11. Part(u, i, size)
  BY <1>10, FillPart DEF Ready
<1>12. u.halt = r.halt /\ u.ret = r.ret /\ u.got = r.got /\ u.starved = r.starved
  BY <1>2 DEF AllBut
<1> QED BY <1>1, <1>2, <1>3, <1>4, <1>7, <1>11, <1>12 DEF Got

\* It sets the count also where the block was there.
LEMMA LoadOld ==
  ASSUME NEW k, NEW i \in Files, NEW size, Ready(k, i, size), NEW index \in Nat,
         NEW n, n = Cur(k, i).blocks, index < n, NEW r, r = WithGot(k, Map(k)[<<i, index>>]),
         NEW u, u = PutDin(r, i, WithBlocks(r.inode[i].din, n))
  PROVE  Got(k, u, i, size, index)
<1> DEFINE d == r.inode[i].din
           b == Map(k)[<<i, index>>]
<1>1. /\ DOMAIN k = KFields /\ Mapped(k, {}) /\ InMemory(k, i) /\ k.halt = "none" /\ k.ret = "ok"
      /\ Going(k, i, size) /\ \A j \in Files \ {i} : FileSound(k, j)
  BY FileInMemory DEF Ready, Good, Part
<1>2. b \in Blocks
  BY BmapKept
<1>3. /\ NodesSame(k, r) /\ r.got = b /\ r.halt = k.halt /\ r.ret = k.ret /\ r.len = k.len
      /\ r.starved = k.starved /\ Map(r) = Map(k) /\ Mapped(r, {})
  BY <1>1, GotSame
<1> HIDE DEF b
<1>4. \A j : Cur(r, j) = Cur(k, j)
  BY <1>3, CurSame
<1>5. InMemory(r, i) /\ Loaded(r, i) /\ (Clean(r, i) => Clean(k, i)) /\ r.dinode = k.dinode
  BY <1>1, <1>3, <1>4 DEF InMemory, NodesSame, Loaded, Clean, Din
<1>6. n \in 0 .. Top /\ Top \in Nat /\ n \in Nat /\ index < Top
  <2>1. n \in 0 .. Top /\ Top \in Nat
    BY <1>1, PlaceOf DEF Going, Shape
  <2> QED BY <2>1
<1>7. /\ AllBut(r, u, i) /\ Map(u) = Map(r) /\ Mapped(u, {}) /\ Loaded(u, i)
      /\ Cur(u, i).blocks = n /\ Cur(u, i).size = d.size /\ Cur(u, i).direct = d.direct
      /\ Cur(u, i).indirect = d.indirect /\ (Clean(u, i) <=> Clean(r, i)) /\ Cur(r, i) = d
  BY <1>3, <1>5, <1>6, CountStep
<1> HIDE DEF d
<1>8. /\ u.halt = "none" /\ u.ret = "ok" /\ u.got = b /\ u.starved = k.starved /\ u.dinode = k.dinode
      /\ u.len = k.len
  BY <1>1, <1>3, <1>5, <1>7, Zenon DEF AllBut
<1>9. /\ Cur(u, i).size = Cur(k, i).size /\ Cur(u, i).blocks = Cur(k, i).blocks
      /\ Cur(u, i).direct = Cur(k, i).direct /\ Cur(u, i).indirect = Cur(k, i).indirect
      /\ (Clean(u, i) => Clean(k, i))
  BY <1>4, <1>5, <1>7
<1>10. \A j : SameRow(Map(k), Map(u), j)
  BY <1>3, <1>7 DEF SameRow
<1>11. Going(u, i, size)
  BY <1>1, <1>8, <1>9, <1>10, GoingSame
<1>12. \A j \in Files \ {i} : FileSound(u, j)
  <2>1. \A j \in Files \ {i} : u.inode[j] = k.inode[j] /\ u.dinode[j] = k.dinode[j]
    BY <1>3, <1>5, <1>7, <1>8 DEF AllBut, NodesSame, InMemory, Inodes
  <2> QED BY <1>1, <1>8, <1>10, <2>1, OtherSound, Zenon
<1>13. Part(u, i, size) /\ Went(k, u, i)
  BY <1>7, <1>8, <1>9, <1>11, <1>12, Zenon DEF Part, Went
<1>14. ~(index = n) /\ Map(u)[<<i, index>>] = b
  BY <1>3, <1>6, <1>7 DEF b
<1> QED BY <1>2, <1>6, <1>7, <1>8, <1>13, <1>14, Zenon DEF Got

\* sfs_bmap_load_nolock: its assertions hold, and unless it is asked for a block behind
\* the last one that a file can have, it finds it, or there is no free block.
LEMMA LoadStep ==
  ASSUME NEW k, NEW i \in Files, NEW size, Ready(k, i, size), NEW index \in Nat,
         index <= Cur(k, i).blocks, NEW t, t = BmapLoad(k, i, index)
  PROVE  t.halt = "range" \/ Short(k, t, i, size) \/ Got(k, t, i, size, index)
<1> DEFINE n == Cur(k, i).blocks
           r == BmapGet(k, i, index, index = n)
           s == PanicIf(r, r.got \notin Blocks \ r.freemap, "assert")
           m == IF index = n THEN n + 1 ELSE n
<1>1. /\ DOMAIN k = KFields /\ InMemory(k, i) /\ Din(k, i) = Cur(k, i) /\ k.halt = "none" /\ k.ret = "ok"
      /\ n \in 0 .. Top /\ Top \in Nat /\ n \in Nat
  <2>1. n \in 0 .. Top /\ Top \in Nat
    BY PlaceOf, Zenon DEF Ready, Part, Going, Shape
  <2> QED BY <2>1, FileInMemory DEF Ready, Good, InMemory
<1>2. t = IF Failed(r) THEN r ELSE [s EXCEPT !.inode[i].din.blocks = m]
  <2>1. ~(index > n)
    BY <1>1
  <2> HIDE DEF r
  <2>2. n = Din(k, i).blocks
    BY <1>1
  <2> QED BY <2>1, <2>2, Zenon DEF BmapLoad, r
<1>3. \A q : [q EXCEPT !.inode[i].din.blocks = m] = PutDin(q, i, WithBlocks(q.inode[i].din, m))
  <2> HIDE DEF m
  <2> QED BY DEF PutDin, WithBlocks
<1>4. r.got \in Blocks \ r.freemap => s = r
  BY DEF PanicIf
<1>5. CASE index = n /\ n = Top
  <2>1. r = PanicIf(k, TRUE, "range")
    <3>1. index >= NDirect + BlkWords /\ ~(index < NDirect + BlkWords) /\ ~(index < NDirect)
      BY <1>1, <1>5, SfsAssumption DEF Top
    <3> QED BY <3>1 DEF BmapGet
  <2>2. r.halt = "range"
    BY <1>1, <2>1 DEF PanicIf, KFields
  <2> HIDE DEF r
  <2> QED BY <1>2, <2>2 DEF Failed
<1>6. CASE index = n /\ n < Top
  <2>1. n \in 0 .. Top - 1
    BY <1>1, <1>6
  <2>2. r = BmapGet(k, i, n, TRUE) /\ m = n + 1
    BY <1>6
  <2> HIDE DEF r, n
  <2>3. Short(k, r, i, size) \/ Found(k, r, i, n)
    BY <2>1, <2>2, BmapFound DEF n
  <2>4. CASE Short(k, r, i, size)
    <3>1. Failed(r)
      BY <2>4 DEF Short, Failed
    <3> QED BY <1>2, <2>4, <3>1
  <2>5. CASE Found(k, r, i, n)
    <3>1. ~Failed(r) /\ r.got \in Blocks \ r.freemap
      BY <2>5 DEF Found
    <3>2. t = PutDin(r, i, WithBlocks(r.inode[i].din, n + 1))
      BY <1>2, <1>3, <1>4, <2>2, <3>1
    <3>3. Got(k, t, i, size, n)
      BY <2>1, <2>5, <3>2, LoadNew DEF n
    <3> QED BY <1>6, <3>3
  <2> QED BY <2>3, <2>4, <2>5
<1>7. CASE index < n
  <2>1. r = WithGot(k, Map(k)[<<i, index>>]) /\ Map(k)[<<i, index>>] \in Blocks \ k.freemap
    <3>1. (index = n) = FALSE
      BY <1>1, <1>7
    <3>2. r = BmapGet(k, i, index, FALSE)
      BY <3>1
    <3> HIDE DEF r
    <3> QED BY <1>7, <3>2, BmapKept
  <2>2. ~Failed(r) /\ r.got \in Blocks \ r.freemap
    <3> HIDE DEF r
    <3>1. r.halt = "none" /\ r.ret = "ok" /\ r.got = Map(k)[<<i, index>>] /\ r.freemap = k.freemap
      BY <1>1, <2>1, GotSame
    <3> QED BY <2>1, <3>1 DEF Failed
  <2>3. m = n
    BY <1>1, <1>7
  <2> HIDE DEF r, n
  <2>4. t = PutDin(r, i, WithBlocks(r.inode[i].din, n))
    BY <1>2, <1>3, <1>4, <2>2, <2>3
  <2> QED BY <1>7, <2>1, <2>4, LoadOld DEF n
<1>8. (index = n /\ n = Top) \/ (index = n /\ n < Top) \/ index < n
  BY <1>1
<1> QED BY <1>5, <1>6, <1>7, <1>8

-----------------------------------------------------------------------------
(* sfs_truncfile.                                                          *)

\* A file grows by m blocks, or as far as there are blocks, or as a file can.
Grown(k, t, i, size, m) ==
  \/ t.halt = "range"
  \/ /\ t.halt = "none" /\ Good(t) /\ Loaded(t, i) /\ Part(t, i, size) /\ Went(k, t, i)
     /\ IF t.ret = "ok" THEN Cur(t, i).blocks = Cur(k, i).blocks + m /\ t.starved = k.starved
        ELSE t.starved

\* What two steps leave of a file, both together leave.
LEMMA WentTwice ==
  ASSUME NEW k, NEW s, NEW t, NEW i, Went(k, s, i), Went(s, t, i)
  PROVE  Went(k, t, i)
  BY DEF Went

\* sfs_truncfile's loop that makes a file longer, for any number of turns.
LEMMA GrowStep ==
  ASSUME NEW k, NEW i \in Files, NEW size, Ready(k, i, size), NEW now, now = Cur(k, i).blocks,
         NEW n \in Nat, NEW t, t = GrowAt(k, i, now, n)[n]
  PROVE  Grown(k, t, i, size, n)
<1> DEFINE x == GrowAt(k, i, now, n)
           T == {m \in 0 .. n : ~Grown(k, x[m], i, size, m)}
<1>1. /\ x[0] = k
      /\ \A m \in 1 .. n :
           x[m] = IF Failed(x[m - 1]) THEN x[m - 1] ELSE BmapLoad(x[m - 1], i, now + m - 1)
  BY GrowTurns
<1>2. now \in Nat /\ i \in Inodes
  BY PlaceOf DEF Ready, Part, Going, Shape, Inodes
<1> HIDE DEF x
<1>3. Grown(k, k, i, size, 0)
  <2>1. Went(k, k, i)
    BY DEF Went, Ready
  <2> QED BY <1>2, <2>1 DEF Grown, Ready
<1>4. T = {}
  <2> SUFFICES ASSUME T # {} PROVE FALSE
    OBVIOUS
  <2>1. PICK m \in T : \A j \in T : m <= j
    <3>1. T \subseteq Nat
      OBVIOUS
    <3> HIDE DEF T
    <3> QED BY <3>1, Least
  <2>2. m # 0
    BY <1>1, <1>3
  <2>3. m \in 1 .. n /\ m - 1 \in 0 .. n /\ Grown(k, x[m - 1], i, size, m - 1) /\ now + m - 1 \in Nat
    BY <1>2, <2>1, <2>2
  <2> DEFINE s == x[m - 1]
             u == x[m]
  <2>4. u = IF Failed(s) THEN s ELSE BmapLoad(s, i, now + m - 1)
    BY <1>1, <2>3
  <2>5. Grown(k, s, i, size, m - 1) /\ ~Grown(k, u, i, size, m)
    BY <2>1, <2>3
  <2> HIDE DEF s, u, T
  <2>6. CASE Failed(s)
    BY <2>4, <2>5, <2>6 DEF Grown, Failed
  <2>7. CASE ~Failed(s)
    <3>1. /\ s.halt = "none" /\ s.ret = "ok" /\ Ready(s, i, size) /\ Went(k, s, i)
          /\ Cur(s, i).blocks = Cur(k, i).blocks + (m - 1) /\ s.starved = k.starved /\ Good(s)
          /\ Loaded(s, i)
      BY <2>5, <2>7 DEF Grown, Failed, Ready
    <3>2. u = BmapLoad(s, i, now + m - 1) /\ Cur(s, i).blocks = now + m - 1
      BY <1>2, <2>3, <2>4, <2>7, <3>1
    <3>3. u.halt = "range" \/ Short(s, u, i, size) \/ Got(s, u, i, size, now + m - 1)
      <4>1. now + m - 1 <= Cur(s, i).blocks
        BY <2>3, <3>2
      <4> QED BY <2>3, <3>1, <3>2, <4>1, LoadStep
    <3>4. Good(u) /\ Loaded(u, i)
      <4>1. Same(s, u)
        BY <1>2, <2>3, <3>1, <3>2, BmapLoadSame
      <4> QED BY <1>2, <3>1, <4>1, SameLoaded
    <3>5. CASE Short(s, u, i, size)
      <4>1. Went(k, u, i)
        BY <3>1, <3>5, WentTwice DEF Short
      <4> QED BY <2>5, <3>4, <3>5, <4>1 DEF Short, Grown
    <3>6. CASE Got(s, u, i, size, now + m - 1)
      <4>1. Went(k, u, i)
        BY <3>1, <3>6, WentTwice DEF Got
      <4>2. Cur(u, i).blocks = now + m - 1 + 1 /\ now + m - 1 + 1 = now + m
        BY <1>2, <2>3, <3>2, <3>6 DEF Got
      <4> QED BY <2>5, <3>1, <3>4, <3>6, <4>1, <4>2 DEF Got, Grown
    <3> QED BY <2>5, <3>3, <3>5, <3>6 DEF Grown
  <2> QED BY <2>6, <2>7
<1>5. n \in 0 .. n
  OBVIOUS
<1> QED BY <1>4, <1>5 DEF x

\* The size is set once the blocks are there, or are gone.
LEMMA ResizeStep ==
  ASSUME NEW k, NEW i \in Files, NEW size, Good(k), Loaded(k, i), Part(k, i, size), NEW len \in Nat,
         len < Reach(Cur(k, i).blocks), ~k.starved => Cur(k, i).blocks = BlocksOf(len),
         NEW d, d = k.inode[i].din, NEW u, u = PutDirty(k, i, WithSize(d, len))
  PROVE  /\ Fit(u) /\ u.halt = k.halt /\ u.ret = k.ret /\ u.starved = k.starved /\ u.len = k.len
         /\ Cur(u, i).size = len
<1> DEFINE e == WithSize(d, len)
<1>1. /\ DOMAIN k = KFields /\ DOMAIN k.inode = Inodes /\ i \in DOMAIN k.inode
      /\ DOMAIN k.inode[i] = NodeFields /\ DinOK(d) /\ Cur(k, i) = d /\ Mapped(k, {}) /\ Going(k, i, size)
      /\ \A j \in Files \ {i} : FileSound(k, j)
  BY FileInMemory DEF InMemory, Part
<1>2. /\ DinOK(e) /\ e.blocks = d.blocks /\ e.size = len /\ e.direct = d.direct
      /\ e.indirect = d.indirect
  BY <1>1, DinWith
<1> HIDE DEF e
<1>3. AllBut(k, u, i) /\ HasDin(u, i, e, TRUE)
  BY <1>1, <1>2, DinAllBut DEF e
<1>4. Map(u) = Map(k) /\ Mapped(u, {})
  <2>1. Cur(u, i) = WithSize(d, len)
    BY <1>3 DEF HasDin, e
  <2> QED BY <1>1, <1>3, <2>1, CountMap
<1>5. u.halt = k.halt /\ u.ret = k.ret /\ u.starved = k.starved /\ u.len = k.len /\ u.dinode = k.dinode
  BY <1>3 DEF AllBut
<1>6. \A j : SameRow(Map(k), Map(u), j)
  BY <1>4 DEF SameRow
<1>7. \A j \in Files \ {i} : FileSound(u, j)
  <2>1. \A j \in Files \ {i} : u.inode[j] = k.inode[j] /\ u.dinode[j] = k.dinode[j]
    BY <1>1, <1>3, <1>5 DEF AllBut, Inodes
  <2> QED BY <1>1, <1>5, <1>6, <2>1, OtherSound
<1>8. /\ Cur(u, i).blocks = Cur(k, i).blocks /\ Cur(u, i).size = len /\ ~Clean(u, i)
  BY <1>1, <1>2, <1>3 DEF HasDin, Clean
<1>9. Going(u, i, len)
  <2>1. Shape(Map(k), i, Cur(k, i).blocks, len)
    BY <1>1 DEF Going, Shape
  <2>2. ~k.starved => Tight(Map(k), i, Cur(k, i).blocks)
    BY <1>1 DEF Going
  <2> QED BY <1>4, <1>5, <1>8, <2>1, <2>2 DEF Going
<1>10. FileSound(u, i)
  BY <1>5, <1>8, <1>9 DEF FileSound, Enough
<1> QED BY <1>4, <1>5, <1>7, <1>8, <1>10 DEF Fit

\* A block is given back.
LEMMA FreePlace ==
  ASSUME NEW k, DOMAIN k = KFields, Mapped(k, {}), NEW u \in Uses, NEW b, b = Map(k)[u], b # 0,
         NEW s, s = BlockFree(k, b)
  PROVE  /\ NodesSame(k, s) /\ s.halt = k.halt /\ s.ret = k.ret /\ s.starved = k.starved
         /\ s.data = k.data /\ Map(s) = Map(k) /\ Books(s) /\ s.len = k.len
         /\ \A B : SetAt(Map(s), B, u, 0) => Exact(B, s.freemap, {})
         /\ Exact(Map(s), k.freemap, {})
<1> DEFINE A == Map(k)
<1>1. Books(k) /\ Exact(A, k.freemap, {}) /\ k.freemap \subseteq Blocks /\ A[u] = b
  BY DEF Mapped, Books
<1> HIDE DEF A
<1>2. b \in Blocks \ k.freemap
  BY <1>1 DEF Exact
<1>3. s = [k EXCEPT !.freemap = @ \cup {b}, !.unused = @ + 1, !.superDirty = TRUE]
  BY <1>2 DEF BlockFree, PanicIf
<1>4. /\ NodesSame(k, s) /\ s.halt = k.halt /\ s.ret = k.ret /\ s.starved = k.starved
      /\ s.freemap = k.freemap \cup {b} /\ s.unused = k.unused + 1 /\ s.superDirty = TRUE
      /\ s.data = k.data /\ s.len = k.len
  BY <1>3 DEF NodesSame, KFields
<1>5. Map(s) = Map(k)
  BY <1>4, CurSame, MapSame
<1>6. Books(s)
  BY <1>1, <1>2, <1>4, FewBlocks DEF Books
<1>7. ASSUME NEW B, SetAt(A, B, u, 0) PROVE Exact(B, s.freemap, {})
  <2>1. Exact(B, k.freemap, {} \cup {b})
    BY <1>1, <1>7, ClearExact
  <2>2. {} \cup {b} = {b} /\ {b} \ {b} = {}
    OBVIOUS
  <2>3. Exact(B, k.freemap \cup {b}, {b} \ {b})
    BY <2>1, <2>2, TakeExact
  <2> QED BY <1>4, <2>2, <2>3
<1> QED BY <1>1, <1>4, <1>5, <1>6, <1>7 DEF A

\* Place n of file i, of its last block, is empty, though that is still counted.
Cleared(k, s, i, n) ==
  /\ InMemory(s, i) /\ Mapped(s, {}) /\ SetAt(Map(k), Map(s), <<i, n>>, 0)
  /\ \A j \in Files \ {i} : s.inode[j] = k.inode[j]
  /\ s.dinode = k.dinode /\ s.halt = k.halt /\ s.ret = k.ret /\ s.starved = k.starved /\ s.len = k.len
  /\ Cur(s, i).blocks = n + 1 /\ Cur(s, i).size = Cur(k, i).size

\* A file with its last place cleared and its count lowered is still on its way to the size.
LEMMA ClearPart ==
  ASSUME NEW k, NEW i \in Files, NEW size, Part(k, i, size), NEW n \in Nat, n + 1 = Cur(k, i).blocks,
         size < Reach(n), NEW s, Cleared(k, s, i, n), NEW d, d = s.inode[i].din,
         NEW u, u = PutDirty(s, i, WithBlocks(d, n))
  PROVE  /\ Part(u, i, size) /\ Cur(u, i).blocks = n /\ Cur(u, i).size = Cur(k, i).size /\ ~Clean(u, i)
         /\ u.halt = k.halt /\ u.ret = k.ret /\ u.starved = k.starved /\ u.len = k.len
<1> DEFINE e == WithBlocks(d, n)
<1>1. /\ DOMAIN s = KFields /\ DOMAIN s.inode = Inodes /\ i \in DOMAIN s.inode
      /\ DOMAIN s.inode[i] = NodeFields /\ DinOK(d) /\ Cur(s, i) = d /\ Mapped(s, {})
  BY DEF Cleared, InMemory
<1>2. /\ DinOK(e) /\ e.blocks = n /\ e.size = d.size /\ e.direct = d.direct
      /\ e.indirect = d.indirect
  BY <1>1, DinWith
<1> HIDE DEF e
<1>3. AllBut(s, u, i) /\ HasDin(u, i, e, TRUE)
  BY <1>1, <1>2, DinAllBut DEF e
<1>4. Map(u) = Map(s) /\ Mapped(u, {})
  <2>1. Cur(u, i) = WithBlocks(d, n)
    BY <1>3 DEF HasDin, e
  <2> QED BY <1>1, <1>3, <2>1, CountMap
<1>5. u.halt = k.halt /\ u.ret = k.ret /\ u.starved = k.starved /\ u.len = k.len /\ u.dinode = k.dinode
  BY <1>3 DEF AllBut, Cleared
<1>6. /\ Cur(u, i).blocks = n /\ Cur(u, i).size = Cur(k, i).size /\ ~Clean(u, i)
  BY <1>1, <1>2, <1>3 DEF HasDin, Clean, Cleared
<1> DEFINE A == Map(k)
           B == Map(u)
<1>7. SetAt(A, B, <<i, n>>, 0)
  BY <1>4 DEF Cleared
<1>8. \A j \in Files, m \in 0 .. Top : <<j, m>> \in Uses
  BY DEF Uses
<1>9. Shape(A, i, n + 1, size) /\ (~k.starved => Tight(A, i, n + 1))
  BY DEF Part, Going
<1>10. NDirect \in Nat /\ Top \in Nat /\ NDirect < Top
  BY SfsAssumption DEF Top
<1> HIDE DEF A, B
<1>11. \A j \in Files \ {i} : SameRow(A, B, j)
  BY <1>7, <1>8, Zenon DEF SameRow, SetAt
<1>12. \A m \in 0 .. Top : B[<<i, m>>] = IF m = n THEN 0 ELSE A[<<i, m>>]
  BY <1>7, <1>8 DEF SetAt
<1>13. Shape(B, i, n, size)
  <2>1. n \in 0 .. Top - 1 /\ size \in Nat
    BY <1>9, <1>10 DEF Shape
  <2>2. \A m \in 0 .. n - 1 : B[<<i, m>>] # 0
    BY <1>9, <1>10, <1>12, <2>1 DEF Shape
  <2>3. \A m \in 0 .. NDirect - 1 : B[<<i, m>>] # 0 => m < n
    BY <1>9, <1>10, <1>12, <2>1 DEF Shape
  <2> QED BY <1>10, <2>1, <2>2, <2>3 DEF Shape
<1>14. ~k.starved => Tight(B, i, n)
  BY <1>9, <1>10, <1>12 DEF Tight
<1>15. Going(u, i, size)
  BY <1>5, <1>6, <1>13, <1>14 DEF Going, B
<1>16. \A j \in Files \ {i} : FileSound(u, j)
  <2>1. \A j \in Files \ {i} : u.inode[j] = k.inode[j] /\ u.dinode[j] = k.dinode[j]
    BY <1>1, <1>3, <1>5 DEF AllBut, Inodes, Cleared
  <2> QED BY <1>5, <1>11, <2>1, OtherSound DEF A, B, Part
<1> QED BY <1>4, <1>5, <1>6, <1>15, <1>16 DEF Part

\* The last block is a direct one.
LEMMA DirectCleared ==
  ASSUME NEW k, NEW i \in Files, InMemory(k, i), Mapped(k, {}), NEW n \in 0 .. NDirect - 1,
         n + 1 = Cur(k, i).blocks, NEW b, b = Cur(k, i).direct[n], b # 0,
         NEW s, s = BlockFree(k, b), NEW r, r = PutDin(s, i, WithDirect(s.inode[i].din, n, 0))
  PROVE  Cleared(k, r, i, n)
<1> DEFINE d == s.inode[i].din
           e == WithDirect(d, n, 0)
<1>1. <<i, n>> \in Uses /\ Map(k)[<<i, n>>] = b
  <2>1. n \in 0 .. Top /\ Map(k)[<<i, n>>] = b
    BY PlaceOf
  <2> QED BY <2>1 DEF Uses
<1>2. /\ NodesSame(k, s) /\ s.halt = k.halt /\ s.ret = k.ret /\ s.starved = k.starved
      /\ s.data = k.data /\ Map(s) = Map(k) /\ Books(s) /\ s.len = k.len
      /\ \A B : SetAt(Map(s), B, <<i, n>>, 0) => Exact(B, s.freemap, {})
  <2>1. DOMAIN k = KFields
    BY Zenon DEF InMemory
  <2> QED BY <1>1, <2>1, NotZero, FreePlace
<1>0. NodesSame(k, s) /\ s.dinode = k.dinode /\ s.inode = k.inode
  BY <1>2 DEF NodesSame
<1>3. \A j : Cur(s, j) = Cur(k, j)
  BY <1>0, CurSame
<1>4. /\ DOMAIN s = KFields /\ DOMAIN s.inode = Inodes /\ i \in DOMAIN s.inode
      /\ DOMAIN s.inode[i] = NodeFields /\ DinOK(d) /\ Cur(k, i) = d
  BY <1>0 DEF NodesSame, InMemory
<1> HIDE DEF d
<1>5. DinOK(e) /\ e.blocks = d.blocks /\ e.size = d.size /\ e.indirect = d.indirect
      /\ \A m \in 0 .. NDirect - 1 : e.direct[m] = IF m = n THEN 0 ELSE d.direct[m]
  <2> HIDE DEF e
  <2>1. \A x : DinOK(WithDirect(d, n, x)) /\ WithDirect(d, n, x).blocks = d.blocks
               /\ WithDirect(d, n, x).size = d.size /\ WithDirect(d, n, x).indirect = d.indirect
               /\ \A m \in 0 .. NDirect - 1 :
                    WithDirect(d, n, x).direct[m] = IF m = n THEN x ELSE d.direct[m]
    BY <1>4, DirectWith
  <2> QED BY <2>1 DEF e
<1>6. r = PutDin(s, i, e)
  BY DEF e, d
<1> HIDE DEF e
<1>7. AllBut(s, r, i) /\ HasDin(r, i, e, s.inode[i].dirty)
  BY <1>4, <1>6, DinAllBut, Zenon
<1>8. \A j \in Files \ {i} : r.inode[j] = k.inode[j] /\ Cur(r, j) = Cur(s, j)
  <2>1. \A j \in DOMAIN s.inode \ {i} : r.inode[j] = s.inode[j]
    BY <1>7, Zenon DEF AllBut
  <2>2. r.dinode = s.dinode
    BY <1>7, Zenon DEF AllBut
  <2>3. \A j \in Files : j \in DOMAIN s.inode
    BY <1>4 DEF Inodes
  <2> QED BY <1>0, <2>1, <2>2, <2>3, Zenon DEF Cur
<1>9. SetAt(Map(s), Map(r), <<i, n>>, 0)
  <2>1. r.data = s.data /\ Cur(r, i) = e
    BY <1>7, Zenon DEF AllBut, HasDin
  <2>2. Cur(s, i) = d /\ Cur(r, i).indirect = Cur(s, i).indirect
    BY <1>3, <1>4, <1>5, <2>1
  <2>3. \A m \in 0 .. NDirect - 1 : Cur(r, i).direct[m] = IF m = n THEN 0 ELSE Cur(s, i).direct[m]
    BY <1>5, <2>1, <2>2
  <2>4. \A j \in Files \ {i} : Cur(r, j) = Cur(s, j)
    BY <1>8
  <2> QED BY <2>1, <2>2, <2>3, <2>4, DirectMap, Zenon
<1>10. Mapped(r, {})
  <2>1. Exact(Map(r), s.freemap, {})
    BY <1>2, <1>9
  <2> QED BY <1>2, <1>7, <2>1, Zenon DEF Mapped, Books, AllBut
<1>11. InMemory(r, i) /\ Cur(r, i) = e
  <2>1. DOMAIN r.inode[i] = NodeFields
    BY <1>4, <1>6 DEF PutDin, NodeFields
  <2> QED BY <1>4, <1>5, <1>7, <2>1, Zenon DEF InMemory, AllBut, HasDin, Din
<1>12. r.dinode = k.dinode /\ r.halt = k.halt /\ r.ret = k.ret /\ r.starved = k.starved /\ r.len = k.len
  BY <1>0, <1>2, <1>7 DEF AllBut
<1> QED BY <1>2, <1>4, <1>5, <1>8, <1>9, <1>10, <1>11, <1>12, Zenon DEF Cleared

\* Or one with an entry, which goes from the disk at once.
WithEntry(s, ent, j, x) == [s EXCEPT !.data[ent][j] = x]

\* sfs_bmap_free_sub_nolock gives back the block of an entry and clears the entry.
LEMMA EntryCleared ==
  ASSUME NEW k, NEW i \in Files, InMemory(k, i), Mapped(k, {}), NEW n \in NDirect .. Top - 1,
         n + 1 = Cur(k, i).blocks, NEW ent, ent = Cur(k, i).indirect, ent # 0,
         NEW b, b = k.data[ent][n - NDirect], b # 0, NEW s, s = BlockFree(k, b),
         NEW r, r = WithEntry(s, ent, n - NDirect, 0)
  PROVE  Cleared(k, r, i, n)
<1>1. <<i, n>> \in Uses /\ Map(k)[<<i, n>>] = b
  <2>1. n \in 0 .. Top /\ Map(k)[<<i, n>>] = b
    BY PlaceOf
  <2> QED BY <2>1 DEF Uses
<1>2. /\ NodesSame(k, s) /\ s.halt = k.halt /\ s.ret = k.ret /\ s.starved = k.starved
      /\ s.data = k.data /\ Map(s) = Map(k) /\ Books(s) /\ s.len = k.len
      /\ \A B : SetAt(Map(s), B, <<i, n>>, 0) => Exact(B, s.freemap, {})
      /\ Exact(Map(s), k.freemap, {})
  <2>1. DOMAIN k = KFields
    BY Zenon DEF InMemory
  <2> QED BY <1>1, <2>1, FreePlace
<1>0. NodesSame(k, s) /\ s.dinode = k.dinode /\ s.inode = k.inode /\ DOMAIN s = KFields
  BY <1>2 DEF NodesSame
<1>3. /\ NodesSame(s, r) /\ r.halt = s.halt /\ r.ret = s.ret /\ r.len = s.len
      /\ r.freemap = s.freemap /\ r.unused = s.unused /\ r.superDirty = s.superDirty
      /\ r.super = s.super /\ r.starved = s.starved
      /\ r.data = [s.data EXCEPT ![ent][n - NDirect] = 0]
  BY <1>0, Zenon DEF WithEntry, NodesSame, KFields
<1>4. \A j : Cur(r, j) = Cur(k, j) /\ Cur(s, j) = Cur(k, j)
  <2>1. \A j : Cur(s, j) = Cur(k, j)
    BY <1>0, CurSame
  <2>2. \A j : Cur(r, j) = Cur(s, j)
    <3>1. NodesSame(s, r)
      BY <1>3, Zenon
    <3> QED BY <3>1, CurSame
  <2> QED BY <2>1, <2>2
<1>5. ent \in Blocks /\ DOMAIN s.data = Blocks /\ \A x \in Blocks : DOMAIN s.data[x] = Words
  <2>1. ent \in Blocks
    BY EntsUsed
  <2> QED BY <1>2, <2>1, Zenon DEF Books
<1>6. SetAt(Map(s), Map(r), <<i, n>>, 0)
  <2>1. /\ \A j \in Files : Cur(r, j) = Cur(s, j)
        /\ ent = Cur(s, i).indirect /\ DOMAIN s.data = Blocks /\ DOMAIN s.data[ent] = Words
    BY <1>4, <1>5
  <2> QED BY <1>2, <1>3, <2>1, EntryMap, Zenon
<1>7. Mapped(r, {})
  <2>1. Exact(Map(r), r.freemap, {})
    BY <1>2, <1>3, <1>6, Zenon
  <2>2. DOMAIN r.data = Blocks /\ \A x \in Blocks : DOMAIN r.data[x] = Words
    BY <1>3, <1>5, Zenon
  <2>3. Books(s)
    BY <1>2
  <2> QED BY <1>3, <2>1, <2>2, <2>3, Zenon DEF Mapped, Books
<1>8. InMemory(r, i) /\ r.inode = k.inode /\ r.dinode = k.dinode
  <2>1. r.inode = k.inode /\ r.dinode = k.dinode /\ DOMAIN r = KFields
    BY <1>0, <1>3, Zenon DEF NodesSame
  <2> QED BY <1>4, <2>1, Zenon DEF InMemory, Loaded, Din
<1>9. r.halt = k.halt /\ r.ret = k.ret /\ r.starved = k.starved /\ r.len = k.len /\ Map(s) = Map(k)
  BY <1>2, <1>3, Zenon
<1> QED BY <1>4, <1>6, <1>7, <1>8, <1>9, Zenon DEF Cleared

\* A file shrinks by a block.
Shrunk(k, t, i, size) ==
  /\ Good(t) /\ Loaded(t, i) /\ Part(t, i, size) /\ Cur(t, i).size = Cur(k, i).size
  /\ t.halt = k.halt /\ t.ret = k.ret /\ t.starved = k.starved /\ t.len = k.len

\* sfs_bmap_truncate_nolock: its assertion holds.
LEMMA ShrinkOne ==
  ASSUME NEW k, Good(k), NEW i \in Files, Loaded(k, i), NEW size, Part(k, i, size),
         NEW n \in Nat, n + 1 = Cur(k, i).blocks, size < Reach(n), NEW t, t = BmapTruncate(k, i)
  PROVE  Shrunk(k, t, i, size) /\ Cur(t, i).blocks = n
<1> DEFINE r == BmapFree(k, i, n)
<1>1. /\ InMemory(k, i) /\ i \in Inodes /\ Din(k, i) = Cur(k, i) /\ Mapped(k, {})
      /\ Shape(Map(k), i, n + 1, size)
  BY FileInMemory DEF InMemory, Part, Going
<1>2. /\ Top \in Nat /\ NDirect \in Nat /\ NDirect < Top /\ n \in 0 .. Top - 1
      /\ n \in 0 .. (n + 1) - 1
  BY <1>1, SfsAssumption DEF Top, Shape
<1>3. Map(k)[<<i, n>>] # 0
  BY <1>1, <1>2 DEF Shape
<1>4. Cleared(k, r, i, n)
  <2>1. CASE n < NDirect
    <3> DEFINE b == Cur(k, i).direct[n]
               s == BlockFree(k, b)
    <3>1. n \in 0 .. NDirect - 1 /\ ~(n >= NDirect)
      BY <1>2, <2>1
    <3>2. b # 0
      BY <1>3, <3>1, PlaceOf, Zenon
    <3>3. r = PutDin(s, i, WithDirect(s.inode[i].din, n, 0))
      <4>1. r = [s EXCEPT !.inode[i].din.direct[n] = 0]
        BY <1>1, <2>1, <3>1, <3>2 DEF BmapFree
      <4>2. [s EXCEPT !.inode[i].din.direct[n] = 0] = PutDin(s, i, WithDirect(s.inode[i].din, n, 0))
        <5> HIDE DEF s
        <5> QED BY DEF PutDin, WithDirect
      <4> QED BY <4>1, <4>2, Zenon
    <3> HIDE DEF r, s, b
    <3> QED BY <1>1, <3>1, <3>2, <3>3, DirectCleared DEF s, b
  <2>2. CASE n >= NDirect
    <3> DEFINE ent == Cur(k, i).indirect
               b == k.data[ent][n - NDirect]
               s == BlockFree(k, b)
    <3>1. n \in NDirect .. Top - 1 /\ ~(n < NDirect)
      BY <1>2, <2>2
    <3>0. Map(k)[<<i, n>>] = IF ent = 0 THEN 0 ELSE b
      BY <3>1, PlaceOf
    <3>2. b # 0 /\ ent # 0
      BY <1>3, <3>0
    <3>3. r = WithEntry(s, ent, n - NDirect, 0)
      BY <1>1, <2>2, <3>1, <3>2 DEF BmapFree, WithEntry
    <3> HIDE DEF r, s, b, ent
    <3> QED BY <1>1, <3>1, <3>2, <3>3, EntryCleared DEF s, b, ent
  <2>3. n < NDirect \/ n >= NDirect
    BY <1>2
  <2> QED BY <2>1, <2>2, <2>3
<1>5. t = PutDirty(r, i, WithBlocks(r.inode[i].din, n))
  <2>1. n = Din(k, i).blocks - 1
    BY <1>1
  <2>2. r.inode[i].din.blocks - 1 = n
    <3> HIDE DEF r
    <3> QED BY <1>4 DEF Cleared, InMemory
  <2>3. t = [r EXCEPT !.inode[i].din.blocks = @ - 1, !.inode[i].dirty = TRUE]
    <3> HIDE DEF r
    <3> QED BY <2>1 DEF BmapTruncate, r
  <2> HIDE DEF r
  <2>4. [r EXCEPT !.inode[i].din.blocks = @ - 1, !.inode[i].dirty = TRUE]
          = PutDirty(r, i, WithBlocks(r.inode[i].din, r.inode[i].din.blocks - 1))
    BY DEF PutDirty, WithBlocks
  <2> QED BY <2>2, <2>3, <2>4
<1> HIDE DEF r
<1>6. /\ Part(t, i, size) /\ Cur(t, i).blocks = n /\ Cur(t, i).size = Cur(k, i).size
      /\ t.halt = k.halt /\ t.ret = k.ret /\ t.starved = k.starved /\ t.len = k.len
  BY <1>4, <1>5, ClearPart
<1>7. Good(t) /\ Loaded(t, i)
  <2>1. Same(k, t)
    BY <1>1, BmapTruncateSame
  <2> QED BY <1>1, <2>1, SameLoaded
<1> QED BY <1>6, <1>7 DEF Shrunk

\* sfs_truncfile's loop that makes a file shorter, for any number of turns.
LEMMA ShrinkStep ==
  ASSUME NEW k, Good(k), NEW i \in Files, Loaded(k, i), NEW size, Part(k, i, size),
         NEW now, now = Cur(k, i).blocks, NEW n \in 0 .. now, size < Reach(now - n),
         NEW t, t = ShrinkAt(k, i, n)[n]
  PROVE  Shrunk(k, t, i, size) /\ Cur(t, i).blocks = now - n
<1> DEFINE x == ShrinkAt(k, i, n)
           Done(s, m) == Shrunk(k, s, i, size) /\ Cur(s, i).blocks = now - m
           T == {m \in 0 .. n : ~Done(x[m], m)}
<1>0. now \in Nat /\ n \in Nat /\ size \in Nat
  <2>1. now \in Nat /\ size \in Nat
    BY PlaceOf DEF Part, Going, Shape
  <2> QED BY <2>1
<1>1. x[0] = k /\ \A m \in 1 .. n : x[m] = BmapTruncate(x[m - 1], i)
  BY <1>0, ShrinkTurns
<1> HIDE DEF x
<1>2. Done(k, 0)
  BY <1>0 DEF Shrunk
<1>3. T = {}
  <2> SUFFICES ASSUME T # {} PROVE FALSE
    OBVIOUS
  <2>1. PICK m \in T : \A j \in T : m <= j
    <3>1. T \subseteq Nat
      BY <1>0
    <3> HIDE DEF T
    <3> QED BY <3>1, Least
  <2>2. m # 0
    BY <1>0, <1>1, <1>2
  <2>3. m \in 1 .. n /\ m - 1 \in 0 .. n /\ Done(x[m - 1], m - 1) /\ ~Done(x[m], m)
    BY <1>0, <2>1, <2>2
  <2> DEFINE s == x[m - 1]
             u == x[m]
             c == now - m
  <2>4. u = BmapTruncate(s, i) /\ Shrunk(k, s, i, size) /\ c \in Nat /\ c + 1 = Cur(s, i).blocks
    BY <1>0, <1>1, <2>3
  <2>5. size < Reach(c)
    <3>1. now - n \in Nat /\ now - n <= c
      BY <1>0, <2>3
    <3>2. Reach(now - n) \in Nat /\ Reach(c) \in Nat /\ Reach(now - n) <= Reach(c)
      BY <2>4, <3>1, ReachGrows
    <3> HIDE DEF c
    <3> QED BY <1>0, <3>2
  <2>6. ~(Shrunk(k, u, i, size) /\ Cur(u, i).blocks = c)
    BY <2>3
  <2> HIDE DEF s, u, c, T
  <2>7. Shrunk(s, u, i, size) /\ Cur(u, i).blocks = c
    BY <2>4, <2>5, ShrinkOne DEF Shrunk
  <2> QED BY <2>4, <2>6, <2>7 DEF Shrunk
<1>4. n \in 0 .. n
  BY <1>0
<1> QED BY <1>3, <1>4 DEF x

\* The blocks of a size hold it.
LEMMA BlocksHold ==
  ASSUME NEW len \in Nat
  PROVE  BlocksOf(len) \in Nat /\ len < Reach(BlocksOf(len))
<1>1. \A l \in Nat, c \in Nat \ {0} : l < ((l + c - 1) \div c + 1) * c
  <2>1. ASSUME NEW l \in Nat, NEW c \in Nat \ {0} PROVE l < ((l + c - 1) \div c + 1) * c
    <3> DEFINE q == (l + c - 1) \div c
    <3>1. q \in Int /\ l + c - 1 < q * c + c
      <4>1. \A a \in Nat, b \in Nat \ {0} : a \div b \in Int /\ a < (a \div b) * b + b
        BY Z3
      <4>2. l + c - 1 \in Nat
        OBVIOUS
      <4> QED BY <4>1, <4>2
    <3>2. (q + 1) * c = q * c + c /\ q * c \in Int
      <4>1. \A a \in Int, b \in Int : (a + 1) * b = a * b + b /\ a * b \in Int
        BY Z3
      <4> HIDE DEF q
      <4> QED BY <3>1, <4>1
    <3> HIDE DEF q
    <3>3. l < q * c + c
      BY <3>1, <3>2
    <3> QED BY <3>2, <3>3 DEF q
  <2> QED BY <2>1
<1>2. BlocksOf(len) \in Nat
  BY BlocksNumber
<1> QED BY <1>1, <1>2, SfsAssumption DEF Reach, BlocksOf

\* A file whose size is to be len: so it is, or blocks ran out, or no file can be so large.
Trunced(k, t, i, len) ==
  \/ t.halt = "range"
  \/ t.halt = "blocks" /\ k.starved /\ Cur(k, i).size = len
  \/ /\ t.halt = "none" /\ Fit(t) /\ t.len = k.len
     /\ IF t.ret = "ok" THEN Cur(t, i).size = len /\ t.starved = k.starved ELSE t.starved

\* sfs_truncfile leaves the file system sound with the file at its new size, unless a block
\* ran out.
LEMMA TruncStep ==
  ASSUME NEW k, Good(k), NEW i \in Files, Loaded(k, i), Fit(k), k.halt = "none", k.ret = "ok",
         NEW len \in Nat, NEW t, t = Truncfile(k, i, len)
  PROVE  Trunced(k, t, i, len)
<1> DEFINE now == Cur(k, i).blocks
           then == BlocksOf(len)
           size == Cur(k, i).size
<1>1. /\ DOMAIN k = KFields /\ InMemory(k, i) /\ Din(k, i) = Cur(k, i) /\ i \in Inodes
      /\ Part(k, i, size) /\ FileSound(k, i)
  BY FileInMemory, FitPart DEF Good, InMemory, Fit
<1>2. now \in Nat /\ then \in Nat /\ len < Reach(then) /\ size \in Nat /\ Ready(k, i, size)
  <2>1. now \in Nat /\ size \in Nat
    BY <1>1, PlaceOf DEF Part, Going, Shape
  <2> QED BY <1>1, <2>1, BlocksHold DEF Ready
<1>3. t = CASE size = len -> PanicIf(k, now # then, "blocks")
            [] size # len /\ now < then -> Resize(GrowAt(k, i, now, then - now)[then - now], i, len)
            [] OTHER -> Resize(ShrinkAt(k, i, now - then)[now - then], i, len)
  BY <1>1, TruncfileLoops
<1>4. \A q : ~Failed(q) => Resize(q, i, len) = PutDirty(q, i, WithSize(q.inode[i].din, len))
  <2> SUFFICES ASSUME NEW q, ~Failed(q)
               PROVE  Resize(q, i, len) = PutDirty(q, i, WithSize(q.inode[i].din, len))
    OBVIOUS
  <2>1. Resize(q, i, len) = [q EXCEPT !.inode[i].din.size = len, !.inode[i].dirty = TRUE]
    BY DEF Resize
  <2>2. [q EXCEPT !.inode[i].din.size = len, !.inode[i].dirty = TRUE]
          = PutDirty(q, i, WithSize(q.inode[i].din, len))
    BY DEF PutDirty, WithSize
  <2> QED BY <2>1, <2>2
<1>5. CASE size = len
  <2>1. t = PanicIf(k, now # then, "blocks")
    BY <1>3, <1>5
  <2>2. CASE now = then
    <3>1. t = k
      BY <2>1, <2>2 DEF PanicIf
    <3> QED BY <1>5, <3>1 DEF Trunced
  <2>3. CASE now # then
    <3>1. t.halt = "blocks"
      BY <1>1, <2>1, <2>3 DEF PanicIf, KFields
    <3>2. k.starved
      BY <1>1, <1>5, <2>3 DEF FileSound, Enough
    <3> QED BY <1>5, <3>1, <3>2 DEF Trunced
  <2> QED BY <2>2, <2>3
<1>6. CASE size # len /\ now < then
  <2> DEFINE n == then - now
             s == GrowAt(k, i, now, n)[n]
  <2>1. n \in Nat /\ now + n = then
    BY <1>2, <1>6
  <2>2. t = Resize(s, i, len)
    BY <1>3, <1>6
  <2> HIDE DEF n, now, then, size
  <2>3. Grown(k, s, i, size, n)
    BY <1>2, <2>1, GrowStep DEF now
  <2> HIDE DEF s
  <2>4. CASE Failed(s)
    <3>1. t = s
      BY <2>2, <2>4 DEF Resize
    <3>2. CASE s.halt = "range"
      BY <3>1, <3>2 DEF Trunced
    <3>3. CASE s.halt # "range"
      <4>1. /\ s.halt = "none" /\ s.ret # "ok" /\ s.starved /\ Part(s, i, size) /\ Went(k, s, i)
        BY <2>3, <2>4, <3>3 DEF Grown, Failed
      <4>2. FileSound(s, i)
        BY <4>1 DEF Part, FileSound, Went, size
      <4>3. Fit(s)
        BY <4>1, <4>2 DEF Part, Fit
      <4> QED BY <3>1, <4>1, <4>3 DEF Trunced, Went
    <3> QED BY <3>2, <3>3
  <2>5. CASE ~Failed(s)
    <3>1. /\ s.halt = "none" /\ s.ret = "ok" /\ Good(s) /\ Loaded(s, i) /\ Part(s, i, size)
          /\ Went(k, s, i) /\ Cur(s, i).blocks = then /\ s.starved = k.starved
      BY <2>1, <2>3, <2>5 DEF Grown, Failed, now
    <3>2. t = PutDirty(s, i, WithSize(s.inode[i].din, len))
      BY <1>4, <2>2, <2>5
    <3>3. /\ Fit(t) /\ t.halt = s.halt /\ t.ret = s.ret /\ t.starved = s.starved /\ t.len = s.len
          /\ Cur(t, i).size = len
      BY <1>2, <3>1, <3>2, ResizeStep DEF then
    <3> QED BY <3>1, <3>3 DEF Trunced, Went
  <2> QED BY <2>4, <2>5
<1>7. CASE size # len /\ ~(now < then)
  <2> DEFINE n == now - then
             s == ShrinkAt(k, i, n)[n]
  <2>1. n \in 0 .. now /\ now - n = then
    BY <1>2, <1>7
  <2>2. t = Resize(s, i, len)
    BY <1>3, <1>7
  <2>3. Part(k, i, len)
    <3>1. len < Reach(now)
      <4>1. Reach(then) <= Reach(now) /\ Reach(now) \in Nat /\ Reach(then) \in Nat
        BY <1>2, <1>7, ReachGrows
      <4> HIDE DEF then, now
      <4> QED BY <1>2, <4>1
    <3>2. Going(k, i, len)
      BY <1>1, <3>1 DEF Part, Going, Shape
    <3> QED BY <1>1, <3>2 DEF Part
  <2> HIDE DEF n, now, then, size
  <2>4. Shrunk(k, s, i, len) /\ Cur(s, i).blocks = then
    BY <1>2, <2>1, <2>3, ShrinkStep DEF now
  <2> HIDE DEF s
  <2>5. ~Failed(s)
    BY <2>4 DEF Shrunk, Failed
  <2>6. t = PutDirty(s, i, WithSize(s.inode[i].din, len))
    BY <1>4, <2>2, <2>5
  <2>7. /\ Fit(t) /\ t.halt = s.halt /\ t.ret = s.ret /\ t.starved = s.starved /\ t.len = s.len
        /\ Cur(t, i).size = len
    BY <1>2, <2>4, <2>6, ResizeStep DEF then, Shrunk
  <2> QED BY <2>4, <2>7 DEF Trunced, Shrunk
<1> QED BY <1>5, <1>6, <1>7

-----------------------------------------------------------------------------
(* sfs_io_nolock.                                                          *)

\* Where the words of a transfer that are in the blocks before j end.
Upto(pos, end, j) ==
  IF j * BlkWords <= pos THEN pos ELSE IF j * BlkWords <= end THEN j * BlkWords ELSE end

\* The block of a word.
LEMMA WordBlock ==
  /\ \A w, j \in Nat : (w \div BlkWords = j) <=> (j * BlkWords <= w /\ w < (j + 1) * BlkWords)
  /\ \A j \in Nat : j * BlkWords \in Nat /\ (j + 1) * BlkWords = j * BlkWords + BlkWords
  /\ \A w \in Nat : w \div BlkWords \in Nat
<1>1. \A w, j \in Nat, c \in Nat \ {0} : (w \div c = j) <=> (j * c <= w /\ w < (j + 1) * c)
  <2>1. ASSUME NEW w \in Nat, NEW j \in Nat, NEW c \in Nat \ {0}
        PROVE  (w \div c = j) <=> (j * c <= w /\ w < (j + 1) * c)
    <3> DEFINE q == w \div c
    <3>1. q \in Nat /\ q * c <= w /\ w < q * c + c
      BY Z3
    <3> HIDE DEF q
    <3>2. (j + 1) * c = j * c + c /\ j * c \in Int /\ q * c \in Int
      <4>1. \A a \in Int, b \in Int : (a + 1) * b = a * b + b /\ a * b \in Int
        BY Z3
      <4> QED BY <3>1, <4>1
    <3>3. q = j => (j * c <= w /\ w < (j + 1) * c)
      BY <3>1, <3>2
    <3>4. q < j => ~(j * c <= w)
      <4>1. \A a, b, e \in Nat : a < b => a * e + e <= b * e
        <5>1. ASSUME NEW a \in Nat, NEW b \in Nat, NEW e \in Nat, a < b PROVE a * e + e <= b * e
          BY <5>1, Z3
        <5> QED BY <5>1
      <4>2. q < j => q * c + c <= j * c
        BY <3>1, <4>1
      <4> QED BY <3>1, <3>2, <4>2
    <3>5. q > j => ~(w < (j + 1) * c)
      <4>1. \A a, b, e \in Nat : a < b => a * e + e <= b * e
        <5>1. ASSUME NEW a \in Nat, NEW b \in Nat, NEW e \in Nat, a < b PROVE a * e + e <= b * e
          BY <5>1, Z3
        <5> QED BY <5>1
      <4>2. j < q => j * c + c <= q * c
        BY <3>1, <4>1
      <4> QED BY <3>1, <3>2, <4>2
    <3>6. q < j \/ q = j \/ q > j
      BY <3>1
    <3>7. (q = j) <=> (j * c <= w /\ w < (j + 1) * c)
      BY <3>3, <3>4, <3>5, <3>6, <3>1
    <3> QED BY <3>7 DEF q
  <2> QED BY <2>1
<1>2. \A j \in Nat, c \in Nat \ {0} : j * c \in Nat /\ (j + 1) * c = j * c + c
  BY Z3
<1>3. \A w \in Nat, c \in Nat \ {0} : w \div c \in Nat
  BY Z3
<1> QED BY <1>1, <1>2, <1>3, SfsAssumption

\* The words of a transfer in block j.
LEMMA WithinCount ==
  ASSUME NEW pos \in Nat, NEW end \in Nat, pos < end, NEW j \in Nat
  PROVE  /\ Cardinality(Within(j, pos, end)) = Upto(pos, end, j + 1) - Upto(pos, end, j)
         /\ Upto(pos, end, j) \in Nat /\ Upto(pos, end, j + 1) \in Nat
<1> DEFINE a == j * BlkWords
           c == (j + 1) * BlkWords
           lo == IF a <= pos THEN pos ELSE IF a <= end THEN a ELSE end
           hi == IF c <= pos THEN pos ELSE IF c <= end THEN c ELSE end
<1>1. a \in Nat /\ c = a + BlkWords /\ BlkWords \in Nat \ {0}
      /\ \A w \in Nat : (w \div BlkWords = j) <=> (a <= w /\ w < c)
  BY WordBlock, SfsAssumption
<1>2. lo = Upto(pos, end, j) /\ hi = Upto(pos, end, j + 1)
  BY DEF Upto
<1> HIDE DEF a, c
<1>3. lo \in Nat /\ hi \in Nat /\ lo <= hi
  BY <1>1
<1>4. Within(j, pos, end) = lo .. hi - 1
  <2>1. Within(j, pos, end) = {w \in pos .. end - 1 : a <= w /\ w < c}
    <3>1. \A w \in pos .. end - 1 : w \in Nat
      OBVIOUS
    <3>2. \A w \in pos .. end - 1 : (w \div BlkWords = j) <=> (a <= w /\ w < c)
      BY <1>1, <3>1
    <3> QED BY <3>2 DEF Within
  <2>2. ASSUME NEW w \in Int
        PROVE  (w \in pos .. end - 1 /\ a <= w /\ w < c) <=> w \in lo .. hi - 1
    BY <1>1
  <2> HIDE DEF lo, hi
  <2>3. \A w : w \in lo .. hi - 1 => w \in Int
    OBVIOUS
  <2>4. \A w : w \in pos .. end - 1 => w \in Int
    OBVIOUS
  <2> QED BY <2>1, <2>2, <2>3, <2>4
<1> HIDE DEF lo, hi
<1>5. Cardinality(lo .. hi - 1) = hi - lo
  <2>1. lo \in Int /\ hi - 1 \in Int
    BY <1>3
  <2>2. Cardinality(lo .. hi - 1) = IF lo > hi - 1 THEN 0 ELSE hi - 1 - lo + 1
    BY <2>1, FS_Interval
  <2> QED BY <1>3, <2>2
<1> QED BY <1>2, <1>3, <1>4, <1>5

\* Data of a file is in no block of entries.
WithData(t, c, b, e) == [t EXCEPT !.len = @ + c, !.data[b] = e]

\* A write of data into a file's block moves no block and changes no entry.
LEMMA DataStep ==
  ASSUME NEW t, DOMAIN t = KFields, Mapped(t, {}), NEW i \in Files, NEW index \in 0 .. Top - 1,
         NEW b, b = Map(t)[<<i, index>>], b \in Blocks, NEW e, DOMAIN e = Words, NEW c,
         NEW u, u = WithData(t, c, b, e)
  PROVE  /\ NodesSame(t, u) /\ u.halt = t.halt /\ u.ret = t.ret /\ u.starved = t.starved
         /\ u.len = t.len + c /\ Map(u) = Map(t) /\ Mapped(u, {})
<1>1. Books(t) /\ Exact(Map(t), t.freemap, {})
  BY DEF Mapped
<1>2. DOMAIN t.data = Blocks /\ \A x \in Blocks : DOMAIN t.data[x] = Words
  BY <1>1 DEF Books
<1>3. /\ NodesSame(t, u) /\ u.halt = t.halt /\ u.ret = t.ret /\ u.starved = t.starved
      /\ u.len = t.len + c /\ u.data = [t.data EXCEPT ![b] = e] /\ u.freemap = t.freemap
      /\ u.unused = t.unused /\ u.superDirty = t.superDirty /\ u.super = t.super
  BY DEF WithData, NodesSame, KFields
<1>4. /\ DOMAIN u.data = Blocks /\ \A x \in Blocks \ {b} : u.data[x] = t.data[x]
      /\ \A x \in Blocks : DOMAIN u.data[x] = Words
  BY <1>2, <1>3
<1>5. ASSUME NEW j \in Files PROVE Cur(t, j).indirect = 0 \/ Cur(t, j).indirect \in Blocks \ {b}
  <2>1. <<j, Top>> \in Uses /\ Map(t)[<<j, Top>>] = Cur(t, j).indirect
    BY PlaceOf
  <2>2. <<i, index>> \in Uses /\ <<i, index>> # <<j, Top>> /\ b # 0
    <3>1. Top \in Nat /\ \A n \in 0 .. Top : <<i, n>> \in Uses
      BY PlaceOf
    <3>2. index \in 0 .. Top /\ index # Top
      BY <3>1
    <3> QED BY <3>1, <3>2, NotZero
  <2> DEFINE A == Map(t)
  <2>3. Exact(A, t.freemap, {}) /\ A[<<i, index>>] = b /\ A[<<j, Top>>] = Cur(t, j).indirect
    BY <1>1, <2>1
  <2> HIDE DEF A
  <2> QED BY <2>1, <2>2, <2>3 DEF Exact
<1>6. Map(u) = Map(t)
  <2>1. \A j : Cur(u, j) = Cur(t, j)
    <3>1. NodesSame(t, u)
      BY <1>3
    <3> QED BY <3>1, CurSame
  <2>2. \A j \in Files : Cur(t, j).indirect = 0 \/ u.data[Cur(t, j).indirect] = t.data[Cur(t, j).indirect]
    BY <1>4, <1>5
  <2> QED BY <2>1, <2>2, MapSame
<1>7. Mapped(u, {})
  BY <1>1, <1>3, <1>4, <1>6 DEF Mapped, Books
<1> QED BY <1>3, <1>6, <1>7

\* What a transfer leaves alone.
Stays(k, t, i) ==
  /\ t.dinode = k.dinode /\ (k.starved => t.starved) /\ Loaded(t, i)
  /\ Clean(t, i) => Clean(k, i)
  /\ Cur(t, i).size = Cur(k, i).size

\* What two steps leave of a file, both together leave.
LEMMA StaysTwice ==
  ASSUME NEW k, NEW s, NEW t, NEW i, Stays(k, s, i), Stays(s, t, i)
  PROVE  Stays(k, t, i)
  BY DEF Stays

\* c words of block number index were moved.
Moved(k, t, i, size, index, c) ==
  /\ t.halt = "none" /\ t.ret = "ok" /\ Part(t, i, size) /\ Stays(k, t, i) /\ t.starved = k.starved
  /\ t.len = k.len + c
  /\ Cur(t, i).blocks = IF index = Cur(k, i).blocks THEN index + 1 ELSE Cur(k, i).blocks

\* One turn of sfs_io_nolock: all words within the block are moved, or no block was left.
LEMMA MoveOne ==
  ASSUME NEW k, NEW i \in Files, NEW size, Ready(k, i, size), NEW index \in Nat,
         index <= Cur(k, i).blocks, NEW pos, NEW end, NEW x,
         NEW t, t = IoBlock(k, i, index, pos, end, x)
  PROVE  \/ t.halt = "range" \/ Short(k, t, i, size)
         \/ Moved(k, t, i, size, index, Cardinality(Within(index, pos, end)))
<1> DEFINE part == Within(index, pos, end)
           c == Cardinality(part)
           s == BmapLoad(k, i, index)
           store == [w \in Words |-> IF index * BlkWords + w \in part THEN x ELSE s.data[s.got][w]]
           e == IF x = 0 THEN s.data[s.got] ELSE store
<1>1. i \in Inodes /\ Good(k) /\ Loaded(k, i) /\ ~Failed(k)
  BY DEF Ready, Inodes, Failed
<1>2. t = IF Failed(s) THEN s ELSE [s EXCEPT !.len = @ + c, !.data[s.got] = IF x = 0 THEN @ ELSE store]
  <2> HIDE DEF c, part, s
  <2> QED BY <1>1 DEF IoBlock, s, part, c
<1>3. s.halt = "range" \/ Short(k, s, i, size) \/ Got(k, s, i, size, index)
  BY LoadStep
<1>4. DOMAIN s = KFields /\ Good(s)
  <2>1. Same(k, s)
    BY <1>1, BmapLoadSame
  <2> QED BY <2>1 DEF Same, Good
<1> HIDE DEF s
<1>5. CASE s.halt = "range" \/ Short(k, s, i, size)
  <2>1. Failed(s)
    BY <1>5 DEF Short, Failed
  <2> QED BY <1>2, <1>5, <2>1
<1>6. CASE Got(k, s, i, size, index)
  <2>1. /\ s.halt = "none" /\ s.ret = "ok" /\ Part(s, i, size) /\ Went(k, s, i) /\ s.starved = k.starved
        /\ index < Top /\ s.got \in Blocks /\ Map(s)[<<i, index>>] = s.got
        /\ Cur(s, i).blocks = IF index = Cur(k, i).blocks THEN index + 1 ELSE Cur(k, i).blocks
    BY <1>6 DEF Got
  <2>2. t = WithData(s, c, s.got, e)
    <3>1. ~Failed(s)
      BY <2>1 DEF Failed
    <3>2. t = [s EXCEPT !.len = @ + c, !.data[s.got] = IF x = 0 THEN @ ELSE store]
      BY <1>2, <3>1
    <3> HIDE DEF c, store
    <3>3. CASE x = 0
      BY <3>2, <3>3 DEF WithData
    <3>4. CASE x # 0
      BY <3>2, <3>4 DEF WithData
    <3> QED BY <3>3, <3>4
  <2>3. DOMAIN e = Words
    <3>1. DOMAIN s.data[s.got] = Words
      BY <2>1 DEF Part, Mapped, Books
    <3> QED BY <3>1
  <2>4. index \in 0 .. Top - 1
    <3>1. Top \in Nat
      BY PlaceOf
    <3> QED BY <2>1, <3>1
  <2> HIDE DEF e, c
  <2>5. /\ NodesSame(s, t) /\ t.halt = s.halt /\ t.ret = s.ret /\ t.starved = s.starved
        /\ t.len = s.len + c /\ Map(t) = Map(s) /\ Mapped(t, {})
    <3>1. Mapped(s, {})
      BY <2>1 DEF Part
    <3> QED BY <1>4, <2>1, <2>2, <2>3, <2>4, <3>1, DataStep
  <2>6. Part(t, i, size)
    BY <2>1, <2>5, IdlePart
  <2>7. Cur(t, i) = Cur(s, i) /\ Loaded(t, i) /\ (Clean(t, i) <=> Clean(s, i)) /\ t.dinode = s.dinode
    BY <2>1, <2>5, CurSame DEF NodesSame, Loaded, Clean, Went
  <2>8. Stays(k, t, i)
    BY <2>1, <2>5, <2>7 DEF Went, Stays
  <2>9. t.len = k.len + c
    BY <2>1, <2>5 DEF Went
  <2> QED BY <2>1, <2>5, <2>6, <2>7, <2>8, <2>9 DEF Moved, c
<1> QED BY <1>3, <1>5, <1>6

\* As many blocks as the file has, or as end before j.
Most(a, b) == IF b <= a THEN a ELSE b

\* Part of a transfer: the words before block first + j are moved, j = m unless blocks ran out.
Onward(k, s, i, size, pos, end, first, m) ==
  /\ s.halt = "none" /\ Good(s) /\ Part(s, i, size) /\ Stays(k, s, i)
  /\ s.ret # "ok" => s.starved
  /\ s.ret = "ok" => s.starved = k.starved
  /\ \E j \in 0 .. m :
       /\ s.ret = "ok" => j = m
       /\ pos + s.len = Upto(pos, end, first + j)
       /\ Cur(s, i).blocks = Most(Cur(k, i).blocks, first + j)

MoveState(k, s, i, size, pos, end, first, m) ==
  \/ s.halt = "range"
  \/ /\ first > Cur(k, i).blocks /\ IF m = 0 THEN s = k ELSE s.halt = "index"
  \/ /\ first <= Cur(k, i).blocks /\ Onward(k, s, i, size, pos, end, first, m)

\* One turn more.
LEMMA MoveOn ==
  ASSUME NEW k, NEW i \in Files, NEW size, Ready(k, i, size), k.len = 0,
         NEW pos \in Nat, NEW end \in Nat, pos < end, NEW first \in Nat, NEW x,
         NEW m \in Nat \ {0}, NEW s, first <= Cur(k, i).blocks,
         Onward(k, s, i, size, pos, end, first, m - 1),
         NEW u, u = IoBlock(s, i, first + m - 1, pos, end, x)
  PROVE  u.halt = "range" \/ Onward(k, u, i, size, pos, end, first, m)
<1> DEFINE n == Cur(k, i).blocks
           index == first + m - 1
<1>1. n \in Nat /\ index \in Nat /\ index + 1 = first + m /\ index = first + (m - 1) /\ i \in Inodes
  <2>1. n \in 0 .. Top /\ Top \in Nat
    BY PlaceOf DEF Ready, Part, Going, Shape
  <2> QED BY <2>1 DEF Inodes
<1> HIDE DEF n
<1>2. PICK j \in 0 .. m - 1 :
        /\ s.ret = "ok" => j = m - 1
        /\ pos + s.len = Upto(pos, end, first + j)
        /\ Cur(s, i).blocks = Most(n, first + j)
  BY DEF Onward, n
<1>3. /\ s.halt = "none" /\ Good(s) /\ Part(s, i, size) /\ Stays(k, s, i) /\ Loaded(s, i)
      /\ (s.ret # "ok" => s.starved) /\ (s.ret = "ok" => s.starved = k.starved)
  BY DEF Onward, Stays
<1>4. CASE s.ret # "ok"
  <2>1. u = s
    BY <1>4 DEF IoBlock, Failed
  <2>2. j \in 0 .. m
    BY <1>2
  <2> QED BY <1>2, <1>3, <1>4, <2>1, <2>2 DEF Onward, n
<1>5. CASE s.ret = "ok"
  <2>1. j = m - 1 /\ Cur(s, i).blocks = Most(n, index) /\ pos + s.len = Upto(pos, end, index)
    BY <1>1, <1>2, <1>5
  <2>2. index <= Cur(s, i).blocks /\ Ready(s, i, size)
    BY <1>1, <1>3, <1>5, <2>1 DEF Ready, Most
  <2> DEFINE c == Cardinality(Within(index, pos, end))
  <2>3. u = IoBlock(s, i, index, pos, end, x)
    OBVIOUS
  <2> HIDE DEF index
  <2>4. u.halt = "range" \/ Short(s, u, i, size) \/ Moved(s, u, i, size, index, c)
    BY <1>1, <2>2, <2>3, MoveOne
  <2>5. Good(u)
    <3>1. Same(s, u)
      BY <1>1, <1>3, <2>3, IoBlockSame
    <3> QED BY <3>1 DEF Same
  <2>6. CASE Short(s, u, i, size)
    <3>1. /\ u.halt = "none" /\ u.ret # "ok" /\ u.starved /\ Part(u, i, size) /\ Went(s, u, i)
          /\ Cur(u, i).blocks = Cur(s, i).blocks
      BY <2>6 DEF Short
    <3>2. Stays(k, u, i) /\ u.len = s.len
      <4>1. Stays(s, u, i)
        BY <3>1 DEF Stays, Went
      <4> QED BY <1>3, <3>1, <4>1, StaysTwice DEF Went
    <3>3. j \in 0 .. m
      BY <1>2
    <3> QED BY <1>2, <2>5, <3>1, <3>2, <3>3 DEF Onward, n
  <2>7. CASE Moved(s, u, i, size, index, c)
    <3>1. /\ u.halt = "none" /\ u.ret = "ok" /\ Part(u, i, size) /\ Stays(s, u, i) /\ u.starved = s.starved
          /\ u.len = s.len + c
          /\ Cur(u, i).blocks = IF index = Cur(s, i).blocks THEN index + 1 ELSE Cur(s, i).blocks
      BY <2>7 DEF Moved
    <3>2. Stays(k, u, i)
      BY <1>3, <3>1, StaysTwice
    <3>3. c = Upto(pos, end, index + 1) - Upto(pos, end, index) /\ Upto(pos, end, index) \in Nat
          /\ Upto(pos, end, index + 1) \in Nat
      BY <1>1, WithinCount
    <3>4. pos + u.len = Upto(pos, end, first + m)
      <4>1. s.len \in Nat
        BY <1>3 DEF Good
      <4> HIDE DEF c
      <4>2. pos + u.len = Upto(pos, end, index + 1)
        BY <2>1, <3>1, <3>3, <4>1
      <4> QED BY <1>1, <4>2
    <3>5. Cur(u, i).blocks = Most(n, first + m)
      BY <1>1, <2>1, <3>1 DEF Most
    <3>6. m \in 0 .. m
      OBVIOUS
    <3> QED BY <1>3, <1>5, <2>5, <3>1, <3>2, <3>4, <3>5, <3>6 DEF Onward, n
  <2> QED BY <2>4, <2>6, <2>7
<1> QED BY <1>4, <1>5

\* The loop.
LEMMA MoveStep ==
  ASSUME NEW k, NEW i \in Files, NEW size, Ready(k, i, size), k.len = 0,
         NEW pos \in Nat, NEW end \in Nat, pos < end, NEW first \in Nat, first * BlkWords <= pos, NEW x,
         NEW n \in Nat, NEW t, t = MoveAt(k, i, first, pos, end, x, n)[n]
  PROVE  MoveState(k, t, i, size, pos, end, first, n)
<1> DEFINE y == MoveAt(k, i, first, pos, end, x, n)
           T == {m \in 0 .. n : ~MoveState(k, y[m], i, size, pos, end, first, m)}
           b == Cur(k, i).blocks
<1>0. first \in Nat /\ b \in Nat /\ first * BlkWords <= pos
  <2>1. b \in 0 .. Top /\ Top \in Nat
    BY PlaceOf DEF Ready, Part, Going, Shape
  <2> QED BY <2>1
<1>1. y[0] = k /\ \A m \in 1 .. n : y[m] = IoBlock(y[m - 1], i, first + m - 1, pos, end, x)
  BY MoveTurns
<1> HIDE DEF y
<1>2. MoveState(k, k, i, size, pos, end, first, 0)
  <2>1. CASE first > b
    BY <2>1 DEF MoveState
  <2>2. CASE first <= b
    <3>1. Stays(k, k, i)
      BY DEF Stays, Ready
    <3>2. pos + k.len = Upto(pos, end, first + 0)
      BY <1>0 DEF Upto
    <3>3. b = Most(b, first + 0)
      BY <1>0, <2>2 DEF Most
    <3>4. 0 \in 0 .. 0
      OBVIOUS
    <3>5. Onward(k, k, i, size, pos, end, first, 0)
      BY <3>1, <3>2, <3>3, <3>4 DEF Onward, Ready
    <3> QED BY <2>2, <3>5 DEF MoveState
  <2> QED BY <1>0, <2>1, <2>2
<1>3. T = {}
  <2> SUFFICES ASSUME T # {} PROVE FALSE
    OBVIOUS
  <2>1. PICK m \in T : \A j \in T : m <= j
    <3>1. T \subseteq Nat
      OBVIOUS
    <3> HIDE DEF T
    <3> QED BY <3>1, Least
  <2>2. m # 0
    BY <1>1, <1>2
  <2> DEFINE s == y[m - 1]
             u == y[m]
  <2>3. /\ m \in 1 .. n /\ m \in Nat \ {0} /\ MoveState(k, s, i, size, pos, end, first, m - 1)
        /\ ~MoveState(k, u, i, size, pos, end, first, m)
    BY <2>1, <2>2
  <2>4. u = IoBlock(s, i, first + m - 1, pos, end, x)
    BY <1>1, <2>3
  <2> HIDE DEF s, u, T
  <2>5. CASE s.halt = "range" \/ s.halt = "index"
    <3>1. u = s
      BY <2>4, <2>5 DEF IoBlock, Failed
    <3>2. s.halt = "index" => first > b
      BY <2>3, <2>5 DEF MoveState, Onward, Ready
    <3> QED BY <2>3, <2>5, <3>1, <3>2 DEF MoveState
  <2>6. CASE first > b /\ m - 1 = 0 /\ s = k
    <3>1. first + m - 1 = first
      BY <1>0, <2>3, <2>6
    <3>2. u = IoBlock(k, i, first, pos, end, x)
      BY <2>4, <2>6, <3>1
    <3>3. Din(k, i).blocks = b /\ DOMAIN k = KFields
      BY FileInMemory DEF InMemory, Ready
    <3>4. BmapLoad(k, i, first) = PanicIf(k, TRUE, "index")
      <4> HIDE DEF b
      <4> QED BY <2>6, <3>3 DEF BmapLoad
    <3>5. PanicIf(k, TRUE, "index").halt = "index"
      BY <3>3 DEF PanicIf, Ready, KFields
    <3>6. u = PanicIf(k, TRUE, "index")
      <4>1. ~Failed(k)
        BY DEF Ready, Failed
      <4> DEFINE q == PanicIf(k, TRUE, "index")
      <4>2. Failed(q)
        BY <3>5 DEF Failed
      <4> HIDE DEF q
      <4>3. BmapLoad(k, i, first) = q
        BY <3>4 DEF q
      <4>4. u = q
        BY <3>2, <4>1, <4>2, <4>3 DEF IoBlock
      <4> QED BY <4>4 DEF q
    <3>7. u.halt = "index"
      BY <3>5, <3>6
    <3> QED BY <2>3, <2>6, <3>7 DEF MoveState
  <2>7. CASE first <= b /\ Onward(k, s, i, size, pos, end, first, m - 1)
    <3>1. u.halt = "range" \/ Onward(k, u, i, size, pos, end, first, m)
      BY <1>0, <2>3, <2>4, <2>7, MoveOn
    <3> QED BY <2>3, <2>7, <3>1 DEF MoveState
  <2> QED BY <2>3, <2>5, <2>6, <2>7 DEF MoveState
<1>4. n \in 0 .. n
  OBVIOUS
<1> QED BY <1>3, <1>4 DEF y

\* Min is below the others.
LEMMA MinLeast ==
  ASSUME NEW T, T \subseteq Nat, T # {}
  PROVE  Min(T) \in T /\ \A m \in T : Min(T) <= m
<1>1. \E m \in T : \A k \in T : m <= k
  BY Least
<1> QED BY <1>1, Zenon DEF Min

\* The blocks of a transfer that is not empty.
LEMMA BlocksEnd ==
  ASSUME NEW end \in Nat \ {0}
  PROVE  BlocksOf(end) = (end - 1) \div BlkWords + 1
<1>1. \A e \in Nat \ {0}, c \in Nat \ {0} : (e + c - 1) \div c = (e - 1) \div c + 1
  <2>1. ASSUME NEW e \in Nat \ {0}, NEW c \in Nat \ {0} PROVE (e + c - 1) \div c = (e - 1) \div c + 1
    <3>1. \A a \in Nat, b \in Nat \ {0} : (a + b) \div b = a \div b + 1
      BY Z3
    <3>2. e - 1 \in Nat /\ e + c - 1 = (e - 1) + c
      OBVIOUS
    <3> QED BY <3>1, <3>2
  <2> QED BY <2>1
<1> QED BY <1>1, SfsAssumption DEF BlocksOf

\* A longer file needs no fewer blocks.
LEMMA BlocksGrow ==
  ASSUME NEW a \in Nat, NEW b \in Nat, a <= b
  PROVE  BlocksOf(a) <= BlocksOf(b)
<1>1. a + BlkWords - 1 \in Nat /\ b + BlkWords - 1 \in Nat /\ a + BlkWords - 1 <= b + BlkWords - 1
  BY SfsAssumption
<1> QED BY <1>1, DivMonotone, SfsAssumption DEF BlocksOf

\* What is moved is in blocks that the file has.
LEMMA UptoReach ==
  ASSUME NEW pos \in Nat, NEW end \in Nat, pos < end, NEW first \in Nat, first = pos \div BlkWords,
         NEW j \in Nat, NEW n \in Nat, first <= n
  PROVE  /\ Upto(pos, end, first + j) < Reach(Most(n, first + j)) /\ Upto(pos, end, first + j) \in Nat
         /\ Upto(pos, end, first + j) <= end
<1> DEFINE a == (first + j) * BlkWords
           b == Most(n, first + j)
<1>1. /\ a \in Nat /\ Reach(first + j) = a + BlkWords /\ BlkWords \in Nat \ {0}
      /\ pos < Reach(first)
  <2>1. pos < (first + 1) * BlkWords
    BY WordBlock
  <2>2. first + j \in Nat
    OBVIOUS
  <2>3. a \in Nat /\ (first + j + 1) * BlkWords = a + BlkWords
    BY <2>2, WordBlock
  <2> QED BY <2>1, <2>3, SfsAssumption DEF Reach
<1>2. b \in Nat /\ first <= b /\ first + j <= b
  BY DEF Most
<1>3. /\ Reach(first) <= Reach(b) /\ Reach(first + j) <= Reach(b) /\ Reach(b) \in Nat
      /\ Reach(first) \in Nat
  <2> HIDE DEF b
  <2>1. first + j \in Nat
    OBVIOUS
  <2> QED BY <1>2, <2>1, ReachGrows
<1> HIDE DEF a, b
<1>4. Upto(pos, end, first + j) = IF a <= pos THEN pos ELSE IF a <= end THEN a ELSE end
  BY DEF Upto, a
<1> QED BY <1>1, <1>3, <1>4 DEF b

\* After the last turn the size is set, if it has grown.
LEMMA IoEndStep ==
  ASSUME NEW k, NEW i \in Files, Ready(k, i, Cur(k, i).size), FileSound(k, i),
         NEW pos \in Nat, NEW end \in Nat, pos < end, NEW first \in Nat, first = pos \div BlkWords,
         first <= Cur(k, i).blocks, NEW turns, turns = (end - 1) \div BlkWords - first + 1, turns \in Nat,
         NEW s, Onward(k, s, i, Cur(k, i).size, pos, end, first, turns),
         NEW t, t = IoEnd(s, i, pos)
  PROVE  t.halt = "none" /\ Fit(t)
<1> DEFINE n == Cur(k, i).blocks
           size == Cur(k, i).size
<1>1. PICK j \in 0 .. turns :
        /\ s.ret = "ok" => j = turns
        /\ pos + s.len = Upto(pos, end, first + j)
        /\ Cur(s, i).blocks = Most(n, first + j)
  BY DEF Onward
<1>2. /\ s.halt = "none" /\ Good(s) /\ Part(s, i, size) /\ Stays(k, s, i) /\ Loaded(s, i)
      /\ (s.ret # "ok" => s.starved) /\ (s.ret = "ok" => s.starved = k.starved)
  BY DEF Onward, Stays
<1>3. Cur(s, i).size = size /\ Din(s, i) = Cur(s, i) /\ s.len \in Nat /\ n \in Nat /\ size \in Nat
  <2>1. Shape(Map(k), i, n, size) /\ Top \in Nat
    BY PlaceOf DEF Ready, Part, Going
  <2>2. Din(s, i) = Cur(s, i)
    BY <1>2, FileInMemory DEF InMemory
  <2> QED BY <1>2, <2>1, <2>2 DEF Stays, Shape, Good
<1>4. ~s.starved => n = BlocksOf(size) /\ j = turns /\ s.starved = k.starved /\ ~k.starved /\ Enough(k, i)
  BY <1>1, <1>2 DEF FileSound, Enough, Stays
<1>5. first + turns = BlocksOf(end) /\ end \in Nat \ {0}
  <2>1. end \in Nat \ {0} /\ (end - 1) \div BlkWords \in Nat
    <3>1. end - 1 \in Nat
      OBVIOUS
    <3> QED BY <3>1, WordBlock
  <2> QED BY <2>1, BlocksEnd
<1>6. Upto(pos, end, first + turns) = end
  <2> DEFINE a == (first + turns) * BlkWords
  <2>1. end - 1 \in Nat /\ (end - 1) \div BlkWords \in Nat /\ first + turns = (end - 1) \div BlkWords + 1
    <3>1. end - 1 \in Nat
      OBVIOUS
    <3>2. (end - 1) \div BlkWords \in Nat
      BY <3>1, WordBlock
    <3> QED BY <3>1, <3>2
  <2>2. end - 1 < a /\ a \in Nat
    <3> DEFINE q == (end - 1) \div BlkWords
    <3>1. q \in Nat /\ end - 1 < (q + 1) * BlkWords /\ first + turns = q + 1
      BY <2>1, WordBlock
    <3> HIDE DEF q
    <3>2. (q + 1) * BlkWords \in Nat
      <4>1. q + 1 \in Nat
        BY <3>1
      <4> QED BY <4>1, WordBlock
    <3> QED BY <3>1, <3>2
  <2>3. Upto(pos, end, first + turns) = IF a <= pos THEN pos ELSE IF a <= end THEN a ELSE end
    BY DEF Upto
  <2> HIDE DEF a
  <2> QED BY <2>2, <2>3
<1>7. /\ pos + s.len < Reach(Cur(s, i).blocks) /\ pos + s.len \in Nat /\ j \in Nat
      /\ pos + s.len <= end
  <2>1. j \in Nat
    OBVIOUS
  <2> HIDE DEF n
  <2> QED BY <1>1, <1>3, <2>1, UptoReach DEF n
<1>8. ~s.starved => pos + s.len = end /\ Cur(s, i).blocks = Most(n, BlocksOf(end))
  BY <1>1, <1>4, <1>5, <1>6
<1> HIDE DEF n, size
<1>9. CASE pos + s.len > size
  <2>1. t = PutDirty(s, i, WithSize(s.inode[i].din, pos + s.len))
    <3>1. t = [s EXCEPT !.inode[i].din.size = pos + s.len, !.inode[i].dirty = TRUE]
      BY <1>2, <1>3, <1>9 DEF IoEnd
    <3> DEFINE l == pos + s.len
    <3>2. t = [s EXCEPT !.inode[i].din.size = l, !.inode[i].dirty = TRUE]
      BY <3>1
    <3> HIDE DEF l
    <3>3. [s EXCEPT !.inode[i].din.size = l, !.inode[i].dirty = TRUE] = PutDirty(s, i, WithSize(s.inode[i].din, l))
      BY DEF PutDirty, WithSize
    <3> QED BY <3>2, <3>3 DEF l
  <2>2. ~s.starved => Cur(s, i).blocks = BlocksOf(pos + s.len)
    <3>1. ~s.starved => BlocksOf(size) <= BlocksOf(end) /\ BlocksOf(end) \in Nat /\ BlocksOf(size) \in Nat
      BY <1>3, <1>5, <1>8, <1>9, BlocksGrow, BlocksNumber
    <3> QED BY <1>4, <1>8, <3>1 DEF Most
  <2> DEFINE l == pos + s.len
  <2>3. l \in Nat /\ l < Reach(Cur(s, i).blocks) /\ (~s.starved => Cur(s, i).blocks = BlocksOf(l))
        /\ t = PutDirty(s, i, WithSize(s.inode[i].din, l))
    BY <1>7, <2>1, <2>2
  <2> HIDE DEF l
  <2>4. Fit(t) /\ t.halt = s.halt
    BY <1>2, <2>3, ResizeStep
  <2> QED BY <1>2, <2>4
<1>10. CASE ~(pos + s.len > size)
  <2>1. t = s
    BY <1>2, <1>3, <1>10 DEF IoEnd
  <2>2. ~s.starved => Enough(s, i)
    <3>1. ~s.starved => BlocksOf(end) <= BlocksOf(size) /\ BlocksOf(end) \in Nat /\ BlocksOf(size) \in Nat
      BY <1>3, <1>5, <1>8, <1>10, BlocksGrow, BlocksNumber
    <3>2. ~s.starved => Cur(s, i).blocks = n /\ n = BlocksOf(size)
      BY <1>4, <1>8, <3>1 DEF Most
    <3> QED BY <1>2, <1>3, <1>4, <3>2 DEF Enough, Stays, n
  <2>3. FileSound(s, i)
    BY <1>2, <1>3, <2>2 DEF FileSound, Part
  <2> QED BY <1>2, <2>1, <2>3 DEF Part, Fit
<1> QED BY <1>9, <1>10

\* What a call returns and what it has moved are no part of the file system.
WithLen(k)     == [k EXCEPT !.len = 0]
WithRet(k, r)  == [k EXCEPT !.ret = r]
WithInval(k)   == [k EXCEPT !.ret = "inval", !.len = 0]

\* Setting them changes no inode and no block.
LEMMA LenSame ==
  ASSUME NEW k, DOMAIN k = KFields, NEW t, t = WithLen(k) \/ t = WithInval(k) \/ \E r : t = WithRet(k, r)
  PROVE  /\ NodesSame(k, t) /\ t.halt = k.halt /\ t.starved = k.starved /\ Map(t) = Map(k)
         /\ \A H : Mapped(k, H) => Mapped(t, H)
<1>1. /\ NodesSame(k, t) /\ t.halt = k.halt /\ t.starved = k.starved /\ t.data = k.data
      /\ t.freemap = k.freemap /\ t.unused = k.unused /\ t.superDirty = k.superDirty /\ t.super = k.super
  <2> DEFINE Stay(y) ==
        /\ NodesSame(k, y) /\ y.halt = k.halt /\ y.starved = k.starved /\ y.data = k.data
        /\ y.freemap = k.freemap /\ y.unused = k.unused /\ y.superDirty = k.superDirty
        /\ y.super = k.super
  <2>1. Stay(WithLen(k))
    BY DEF WithLen, NodesSame, KFields
  <2>2. Stay(WithInval(k))
    BY DEF WithInval, NodesSame, KFields
  <2>3. \A r : Stay(WithRet(k, r))
    BY DEF WithRet, NodesSame, KFields
  <2> HIDE DEF Stay
  <2>4. Stay(t)
    BY <2>1, <2>2, <2>3
  <2> QED BY <2>4 DEF Stay
<1>2. Map(t) = Map(k)
  BY <1>1, CurSame, MapSame
<1> QED BY <1>1, <1>2 DEF Mapped, Books

\* So the file system stays sound.
LEMMA LenFit ==
  ASSUME NEW k, DOMAIN k = KFields, Fit(k),
         NEW t, t = WithLen(k) \/ t = WithInval(k) \/ \E r : t = WithRet(k, r)
  PROVE  Fit(t) /\ t.halt = k.halt /\ t.starved = k.starved /\ NodesSame(k, t)
<1>1. /\ NodesSame(k, t) /\ t.halt = k.halt /\ t.starved = k.starved /\ Map(t) = Map(k)
      /\ \A H : Mapped(k, H) => Mapped(t, H)
  BY LenSame
<1>2. Mapped(t, {}) /\ \A j \in Files : FileSound(k, j)
  BY <1>1 DEF Fit
<1> QED BY <1>1, <1>2, IdlePart

\* A transfer keeps the file system sound; one from behind the end of the file, to where no
\* block follows, stops the kernel.
LEMMA IoStep ==
  ASSUME NEW k, Good(k), NEW i \in Files, Loaded(k, i), Fit(k), k.halt = "none", k.ret = "ok",
         NEW pos \in Nat, NEW n \in Nat, NEW x, NEW t, t = Io(k, i, pos, n, x)
  PROVE  \/ t.halt = "range"
         \/ t.halt = "index" /\ pos > Cur(k, i).size
         \/ t.halt = "none" /\ Fit(t)
<1> DEFINE end == Final(k, i, pos, n, x)
           first == pos \div BlkWords
           turns == (end - 1) \div BlkWords - first + 1
           s == WithLen(k)
           size == Cur(k, i).size
           b == Cur(k, i).blocks
<1>0. DOMAIN k = KFields /\ Din(k, i) = Cur(k, i) /\ i \in Inodes
  BY FileInMemory DEF Good, InMemory
<1>1. end \in Nat
  <2>1. {pos + n, MaxSize, Din(k, i).size} \subseteq Nat /\ {pos + n, MaxSize} \subseteq Nat
    BY <1>0, SfsAssumption, LoadedNode DEF Redone, DinOK
  <2>2. \A T : T \subseteq Nat /\ T # {} => Min(T) \in Nat
    BY MinOf
  <2> QED BY <2>1, <2>2 DEF Final
<1>2. t = CASE pos >= MaxSize              -> WithInval(k)
            [] pos < MaxSize /\ pos >= end -> s
            [] OTHER                       -> IoEnd(MoveAt(s, i, first, pos, end, x, turns)[turns], i, pos)
  BY IoLoops, Zenon DEF WithLen, WithInval
<1> HIDE DEF end
<1>3. CASE pos >= MaxSize
  <2>1. t = WithInval(k)
    <3>1. ~(pos < MaxSize)
      BY <1>3, SfsAssumption
    <3> QED BY <1>2, <1>3, <3>1
  <2> QED BY <1>0, <2>1, LenFit
<1>4. CASE pos < MaxSize /\ pos >= end
  <2>1. t = s
    <3>1. ~(pos >= MaxSize)
      BY <1>4, SfsAssumption
    <3> QED BY <1>2, <1>4, <3>1
  <2> QED BY <1>0, <2>1, LenFit
<1>5. CASE pos < MaxSize /\ pos < end
  <2> DEFINE u == MoveAt(s, i, first, pos, end, x, turns)[turns]
  <2>1. t = IoEnd(u, i, pos)
    <3>1. ~(pos >= MaxSize) /\ ~(pos >= end)
      BY <1>1, <1>5, SfsAssumption
    <3> HIDE DEF turns, first, s
    <3> QED BY <1>2, <3>1
  <2>2. first \in Nat /\ turns \in Nat \ {0} /\ first * BlkWords <= pos
    <3>1. end - 1 \in Nat /\ pos <= end - 1
      BY <1>1, <1>5
    <3>2. first \in Nat /\ (end - 1) \div BlkWords \in Nat /\ first <= (end - 1) \div BlkWords
      BY <3>1, DivMonotone, SfsAssumption
    <3>3. first * BlkWords <= pos
      BY <3>2, WordBlock
    <3> QED BY <3>2, <3>3
  <2>3. Good(s) /\ s.len = 0 /\ s.ret = "ok" /\ s.halt = "none" /\ Loaded(s, i)
    BY <1>0 DEF Good, WithLen, KFields, Loaded
  <2> HIDE DEF s, u
  <2>4. Fit(s) /\ NodesSame(k, s) /\ s.starved = k.starved
    BY <1>0, LenFit DEF s
  <2>5. Cur(s, i) = Cur(k, i) /\ FileSound(s, i)
    BY <2>4, CurSame DEF Fit
  <2>6. Ready(s, i, size)
    BY <2>3, <2>4, <2>5, FitPart DEF Ready
  <2>7. MoveState(s, u, i, size, pos, end, first, turns)
    <3> HIDE DEF first, turns
    <3> QED BY <1>1, <1>5, <2>2, <2>3, <2>6, MoveStep DEF u
  <2>8. CASE u.halt = "range"
    BY <2>1, <2>8 DEF IoEnd
  <2>9. CASE first > b /\ u.halt = "index"
    <3>1. pos > size
      <4>1. b \in Nat /\ size \in Nat /\ size < Reach(b)
        BY <2>5, PlaceOf DEF FileSound, Going, Shape
      <4>2. first - 1 \in Nat /\ b <= first - 1 /\ Reach(first - 1) = first * BlkWords
        BY <2>2, <2>9, <4>1 DEF Reach
      <4> HIDE DEF first, b
      <4>3. Reach(b) \in Nat /\ Reach(first - 1) \in Nat /\ Reach(b) <= Reach(first - 1)
        BY <4>1, <4>2, ReachGrows
      <4> QED BY <2>2, <4>1, <4>2, <4>3
    <3>2. t.halt = "index"
      BY <2>1, <2>9 DEF IoEnd
    <3> QED BY <3>1, <3>2
  <2>10. CASE first <= b /\ Onward(s, u, i, size, pos, end, first, turns)
    <3> DEFINE fst == first
               trn == turns
    <3>1. /\ fst \in Nat /\ fst = pos \div BlkWords /\ fst <= Cur(s, i).blocks
          /\ trn = (end - 1) \div BlkWords - fst + 1 /\ trn \in Nat
          /\ Onward(s, u, i, Cur(s, i).size, pos, end, fst, trn) /\ Ready(s, i, Cur(s, i).size)
      BY <2>2, <2>5, <2>6, <2>10
    <3> HIDE DEF fst, trn
    <3>2. t.halt = "none" /\ Fit(t)
      BY <1>1, <1>5, <2>1, <2>5, <3>1, IoEndStep
    <3> QED BY <3>2
  <2>11. u.halt = "range" \/ (first > b /\ u.halt = "index")
         \/ (first <= b /\ Onward(s, u, i, size, pos, end, first, turns))
    BY <2>2, <2>5, <2>7 DEF MoveState
  <2> QED BY <2>8, <2>9, <2>10, <2>11
<1>6. pos >= MaxSize \/ (pos < MaxSize /\ pos >= end) \/ (pos < MaxSize /\ pos < end)
  BY <1>1, SfsAssumption
<1> QED BY <1>3, <1>4, <1>5, <1>6

\* A seek that succeeds does not leave the file.
LEMMA TryseekStep ==
  ASSUME NEW k, Good(k), NEW i \in Files, Loaded(k, i), Fit(k), k.halt = "none", k.ret = "ok",
         NEW pos \in Nat, NEW t, t = Tryseek(k, i, pos)
  PROVE  \/ t.halt = "range"
         \/ t.halt = "none" /\ Fit(t) /\ (t.ret = "ok" => pos <= Cur(t, i).size)
<1>0. DOMAIN k = KFields /\ Din(k, i) = Cur(k, i) /\ Cur(k, i).size \in Nat
  BY FileInMemory DEF Good, InMemory, DinOK
<1>1. CASE pos >= MaxSize
  <2>1. t = WithRet(k, "inval")
    <3>1. ~(pos < MaxSize)
      BY <1>1, SfsAssumption
    <3> QED BY <1>1, <3>1 DEF Tryseek, WithRet
  <2>2. Fit(t) /\ t.halt = k.halt
    BY <1>0, <2>1, LenFit
  <2>3. t.ret = "inval"
    BY <1>0, <2>1 DEF WithRet, KFields
  <2> QED BY <2>2, <2>3
<1>2. CASE pos < MaxSize /\ pos > Cur(k, i).size
  <2>1. t = Truncfile(k, i, pos)
    <3>1. ~(pos >= MaxSize)
      BY <1>2, SfsAssumption
    <3> QED BY <1>0, <1>2, <3>1 DEF Tryseek
  <2>2. Trunced(k, t, i, pos)
    BY <2>1, TruncStep
  <2>3. Cur(k, i).size # pos
    BY <1>0, <1>2
  <2>4. t.halt = "range" \/ (t.halt = "none" /\ Fit(t) /\ (t.ret = "ok" => Cur(t, i).size = pos))
    BY <2>2, <2>3 DEF Trunced
  <2> QED BY <2>4
<1>3. CASE pos < MaxSize /\ ~(pos > Cur(k, i).size)
  <2>1. t = k
    <3>1. ~(pos >= MaxSize)
      BY <1>3, SfsAssumption
    <3> QED BY <1>0, <1>3, <3>1 DEF Tryseek
  <2> QED BY <1>0, <1>3, <2>1
<1>4. pos >= MaxSize \/ pos < MaxSize
  BY SfsAssumption
<1> QED BY <1>1, <1>2, <1>3, <1>4
-----------------------------------------------------------------------------
(* Inodes come to memory, are written, and leave it.                       *)

\* What the counts and the tables have no part in.
Beyond(k, t) ==
  /\ DOMAIN t = KFields /\ DOMAIN t.inode = DOMAIN k.inode
  /\ t.freemap = k.freemap /\ t.unused = k.unused /\ t.superDirty = k.superDirty
  /\ t.super = k.super /\ t.data = k.data /\ t.starved = k.starved

\* Inode i alone may have changed, in memory and on disk.
OnlyNode(k, t, i) ==
  \A j \in Inodes \ {i} : t.inode[j] = k.inode[j] /\ t.dinode[j] = k.dinode[j]

\* The places of file i are the same.
Placed(k, t, i) ==
  Cur(t, i).direct = Cur(k, i).direct /\ Cur(t, i).indirect = Cur(k, i).indirect

\* The places of all files are, if those of the one that changed are.
LEMMA PlacedMap ==
  ASSUME NEW k, NEW t, NEW i, Beyond(k, t), OnlyNode(k, t, i), i \in Files => Placed(k, t, i)
  PROVE  Map(t) = Map(k)
<1>1. ASSUME NEW u \in Uses
      PROVE  Place(t.data, Cur(t, u[1]), u[2]) = Place(k.data, Cur(k, u[1]), u[2])
  <2>1. u[1] \in Files /\ u[1] \in Inodes /\ t.data = k.data
    BY DEF Uses, Inodes, Beyond
  <2>2. CASE u[1] = i
    BY <2>1, <2>2 DEF Place, Placed
  <2>3. CASE u[1] # i
    <3>1. Cur(t, u[1]) = Cur(k, u[1])
      BY <2>1, <2>3 DEF OnlyNode, Cur
    <3> QED BY <2>1, <3>1
  <2> QED BY <2>2, <2>3
<1> QED BY <1>1 DEF Map

\* All files stay sound if the one that changed does.
LEMMA NodeFit ==
  ASSUME NEW k, NEW t, NEW i, Fit(k), Beyond(k, t), OnlyNode(k, t, i), Map(t) = Map(k),
         i \in Files => FileSound(t, i)
  PROVE  Fit(t)
<1>1. Mapped(t, {})
  BY DEF Fit, Mapped, Books, Beyond
<1>2. ASSUME NEW j \in Files, j # i PROVE FileSound(t, j)
  <2>1. t.inode[j] = k.inode[j] /\ t.dinode[j] = k.dinode[j]
    BY <1>2 DEF OnlyNode, Inodes
  <2>2. SameRow(Map(k), Map(t), j) /\ (k.starved => t.starved) /\ FileSound(k, j)
    BY DEF SameRow, Beyond, Fit
  <2> QED BY <2>1, <2>2, OtherSound
<1> QED BY <1>1, <1>2 DEF Fit

\* An inode in memory whose counts alone change.
LEMMA CountsSound ==
  ASSUME NEW k, NEW t, NEW i, Beyond(k, t), Map(t) = Map(k), t.dinode[i] = k.dinode[i],
         Cur(t, i) = Cur(k, i), Clean(t, i) <=> Clean(k, i), FileSound(k, i)
  PROVE  FileSound(t, i)
<1>1. Saved(k, i) => Saved(t, i)
  BY DEF Saved
<1> QED BY <1>1 DEF FileSound, Going, Enough, Beyond

\* An inode that is on disk as it counts.
LEMMA WrittenSound ==
  ASSUME NEW k, NEW t, NEW i, Beyond(k, t), Map(t) = Map(k), t.dinode[i] = Cur(k, i),
         Cur(t, i) = Cur(k, i), FileSound(k, i)
  PROVE  FileSound(t, i)
<1>1. Saved(t, i)
  BY DEF Saved, FileSound, Going
<1> QED BY <1>1 DEF FileSound, Going, Enough, Beyond

\* An inode that leaves memory and was written.
LEMMA LeftSound ==
  ASSUME NEW k, NEW t, NEW i, Beyond(k, t), Map(t) = Map(k), t.dinode[i] = k.dinode[i],
         Clean(k, i), t.inode[i] = NotLoaded, FileSound(k, i)
  PROVE  FileSound(t, i)
<1>1. Cur(t, i) = k.dinode[i] /\ ~Clean(t, i) /\ Saved(k, i)
  BY DEF Cur, Clean, Loaded, FileSound, Going
<1>2. Going(t, i, Cur(t, i).size)
  BY <1>1 DEF Going, Saved, FileSound, Enough, Beyond
<1>3. ~t.starved => Enough(t, i)
  BY <1>1 DEF Enough, FileSound, Beyond, Saved
<1> QED BY <1>2, <1>3 DEF FileSound

-----------------------------------------------------------------------------
(* The file system is sound as long as the kernel runs.                    *)

Sound(k) == k.halt = "none" => Fit(k)

\* An inode set to another one with the same din.
LEMMA PutFit ==
  ASSUME NEW k, Good(k), Fit(k), NEW i \in Inodes, NEW b, b # NotLoaded,
         i \in Files => IF k.inode[i] = NotLoaded THEN b.din = k.dinode[i] /\ ~b.dirty
                        ELSE b.din = k.inode[i].din /\ b.dirty = k.inode[i].dirty
  PROVE  Fit(Put(k, i, b)) /\ Put(k, i, b).starved = k.starved
<1> DEFINE t == Put(k, i, b)
<1>1. DOMAIN k = KFields /\ i \in DOMAIN k.inode /\ DOMAIN k.inode = Inodes
  BY DEF Good
<1>2. AllBut(k, t, i) /\ t.inode[i] = b
  BY <1>1, PutAllBut
<1> HIDE DEF t
<1>3. Beyond(k, t) /\ OnlyNode(k, t, i) /\ t.dinode = k.dinode
  BY <1>1, <1>2 DEF Beyond, OnlyNode, AllBut
<1>4. i \in Files => Cur(t, i) = Cur(k, i)
  BY <1>2 DEF Cur
<1>5. Map(t) = Map(k)
  BY <1>3, <1>4, PlacedMap DEF Placed
<1>6. ASSUME i \in Files PROVE FileSound(t, i)
  <2>1. CASE k.inode[i] = NotLoaded
    <3>1. t.dinode[i] = Cur(k, i)
      BY <1>3, <2>1 DEF Cur
    <3> QED BY <1>3, <1>4, <1>5, <1>6, <3>1, WrittenSound DEF Fit
  <2>2. CASE k.inode[i] # NotLoaded
    <3>1. Clean(t, i) <=> Clean(k, i)
      BY <1>2, <1>6, <2>2 DEF Clean, Loaded
    <3> QED BY <1>3, <1>4, <1>5, <1>6, <3>1, CountsSound DEF Fit
  <2> QED BY <2>1, <2>2
<1>7. Fit(t)
  BY <1>3, <1>5, <1>6, NodeFit
<1> QED BY <1>3, <1>7 DEF t, Beyond

\* An inode that was written leaves memory.
LEMMA LeaveFit ==
  ASSUME NEW k, Good(k), Fit(k), NEW i \in Inodes, Clean(k, i)
  PROVE  Fit(Put(k, i, NotLoaded)) /\ Put(k, i, NotLoaded).starved = k.starved
<1> DEFINE t == Put(k, i, NotLoaded)
<1>1. DOMAIN k = KFields /\ i \in DOMAIN k.inode /\ DOMAIN k.inode = Inodes
  BY DEF Good
<1>2. AllBut(k, t, i) /\ t.inode[i] = NotLoaded
  BY <1>1, PutAllBut
<1> HIDE DEF t
<1>3. Beyond(k, t) /\ OnlyNode(k, t, i) /\ t.dinode = k.dinode
  BY <1>1, <1>2 DEF Beyond, OnlyNode, AllBut
<1>4. i \in Files => Placed(k, t, i)
  BY <1>2, <1>3 DEF Placed, Cur, Fit, FileSound, Going, Saved
<1>5. Map(t) = Map(k)
  BY <1>3, <1>4, PlacedMap
<1>6. i \in Files => FileSound(t, i)
  BY <1>2, <1>3, <1>5, LeftSound DEF Fit
<1>7. Fit(t)
  BY <1>3, <1>5, <1>6, NodeFit
<1> QED BY <1>3, <1>7 DEF t, Beyond

\* sfs_fsync leaves the file system sound, and the inode written.
LEMMA FsyncFit ==
  ASSUME NEW k, Good(k), NEW i \in Inodes, Loaded(k, i), NEW t, t = Fsync(k, i)
  PROVE  (Fit(k) => Fit(t)) /\ t.starved = k.starved /\ Clean(t, i)
<1>1. CASE ~k.inode[i].dirty
  BY <1>1 DEF Fsync, Clean
<1>2. CASE k.inode[i].dirty
  <2> DEFINE d == k.inode[i].din
             s == [k EXCEPT !.dinode[i] = d]
             b == [s.inode[i] EXCEPT !.dirty = FALSE]
  <2>1. DOMAIN k = KFields /\ i \in DOMAIN k.inode /\ DOMAIN k.inode = Inodes
        /\ DOMAIN k.inode[i] = NodeFields
    BY LoadedNode DEF Good, Redone
  <2>2. /\ DOMAIN s = KFields /\ s.inode = k.inode /\ s.dinode = [k.dinode EXCEPT ![i] = d]
        /\ Beyond(k, s)
    BY <2>1 DEF KFields, Beyond
  <2>3. t = Put(s, i, b)
    BY <1>2 DEF Fsync, Put, Din
  <2> HIDE DEF s, d
  <2>4. b.din = d /\ ~b.dirty /\ DOMAIN b = NodeFields
    BY <2>1, <2>2 DEF NodeFields, d
  <2> HIDE DEF b
  <2>5. b # NotLoaded
    BY <2>4 DEF NodeFields, NotLoaded
  <2>6. AllBut(s, t, i) /\ t.inode[i] = b
    BY <2>1, <2>2, <2>3, PutAllBut
  <2>7. Beyond(k, t) /\ OnlyNode(k, t, i) /\ t.dinode = [k.dinode EXCEPT ![i] = d]
    BY <2>1, <2>2, <2>6 DEF Beyond, OnlyNode, AllBut
  <2>8. Cur(t, i) = Cur(k, i) /\ Clean(t, i)
    BY <2>4, <2>5, <2>6 DEF Cur, Clean, Loaded, d
  <2>9. i \in Files => t.dinode[i] = Cur(k, i)
    BY <2>7 DEF Good, Cur, Loaded, d
  <2>10. Map(t) = Map(k)
    BY <2>7, <2>8, PlacedMap DEF Placed
  <2>11. Fit(k) /\ i \in Files => FileSound(t, i)
    BY <2>7, <2>8, <2>9, <2>10, WrittenSound DEF Fit
  <2>12. Fit(k) => Fit(t)
    BY <2>7, <2>10, <2>11, NodeFit
  <2> QED BY <2>7, <2>8, <2>12 DEF Beyond
<1> QED BY <1>1, <1>2

\* What changes neither inodes nor blocks leaves the file system sound.
Aside(k, t) ==
  NodesSame(k, t) /\ Beyond(k, t)

\* Such a step keeps what is said of every file and block.
LEMMA AsideFit ==
  ASSUME NEW k, NEW t, Aside(k, t), Fit(k)
  PROVE  Fit(t)
<1>1. Map(t) = Map(k)
  BY CurSame, MapSame DEF Aside, Beyond
<1>2. Mapped(t, {}) /\ (k.starved => t.starved)
  BY <1>1 DEF Fit, Mapped, Books, Aside, Beyond
<1>3. \A j \in Files : FileSound(k, j)
  BY DEF Fit
<1> QED BY <1>1, <1>2, <1>3, IdlePart DEF Aside

\* A panic hides what it leaves.
LEMMA PanicSound ==
  ASSUME NEW k, DOMAIN k = KFields, NEW why, why # "none"
  PROVE  ~(PanicIf(k, TRUE, why).halt = "none") /\ Sound(PanicIf(k, TRUE, why))
<1>1. PanicIf(k, TRUE, why).halt # "none"
  BY DEF PanicIf, KFields
<1> QED BY <1>1 DEF Sound
-----------------------------------------------------------------------------
(* The counts of the inodes: R of references, O of opens.                  *)

\* An inode with r references and o opens.
Fits(a, r, o) ==
  IF r = 0 THEN a = NotLoaded
  ELSE DOMAIN a = NodeFields /\ DinOK(a.din) /\ a.ref = r /\ a.open = o /\ a.reclaim = 1

\* The inodes of S have these counts.
CountedAt(k, R, O, S) ==
  /\ Good(k) /\ Sound(k) /\ R \in [Inodes -> Nat] /\ O \in [Inodes -> Nat]
  /\ \A i \in S : O[i] <= R[i] /\ Fits(k.inode[i], R[i], O[i])

Counted(k, R, O) == CountedAt(k, R, O, Inodes)

\* What the steps below leave alone.
Untouched(k, t) ==
  /\ t.files = k.files /\ t.leaked = k.leaked /\ t.halt = k.halt /\ t.ret = k.ret
  /\ t.starved = k.starved

\* Inode i in memory changes to b in its counts alone.
Recount(k, i, b) ==
  /\ Loaded(k, i) /\ DOMAIN b = NodeFields
  /\ b.din = k.inode[i].din /\ b.dirty = k.inode[i].dirty

\* That leaves the file system sound.
LEMMA RecountFit ==
  ASSUME NEW k, Good(k), NEW i \in Inodes, NEW b, Recount(k, i, b)
  PROVE  Fit(k) => Fit(Put(k, i, b))
<1>1. b # NotLoaded /\ k.inode[i] # NotLoaded
  BY DEF Recount, Loaded, NodeFields, NotLoaded
<1>2. b.din = k.inode[i].din /\ b.dirty = k.inode[i].dirty
  BY DEF Recount
<1> QED BY <1>1, <1>2, PutFit

Up(R, i)   == [R EXCEPT ![i] = @ + 1]
Down(R, i) == [R EXCEPT ![i] = @ - 1]

\* What Up and Down make of natural numbers.
LEMMA UpDown ==
  ASSUME NEW R \in [Inodes -> Nat], NEW i \in Inodes
  PROVE  /\ Up(R, i) \in [Inodes -> Nat] /\ Up(R, i)[i] = R[i] + 1
         /\ \A j \in Inodes \ {i} : Up(R, i)[j] = R[j]
         /\ R[i] # 0 => Down(R, i) \in [Inodes -> Nat]
         /\ Down(R, i)[i] = R[i] - 1
         /\ \A j \in Inodes \ {i} : Down(R, i)[j] = R[j]
         /\ Down(Up(R, i), i) = R
<1>1. DOMAIN R = Inodes /\ R = [j \in Inodes |-> R[j]] /\ \A j \in Inodes : R[j] \in Nat
  OBVIOUS
<1>2. /\ Up(R, i) \in [Inodes -> Nat] /\ Up(R, i)[i] = R[i] + 1
      /\ \A j \in Inodes \ {i} : Up(R, i)[j] = R[j]
  BY <1>1 DEF Up
<1>3. Down(R, i)[i] = R[i] - 1 /\ \A j \in Inodes \ {i} : Down(R, i)[j] = R[j]
  BY <1>1 DEF Down
<1>4. ASSUME R[i] # 0 PROVE Down(R, i) \in [Inodes -> Nat]
  <2>1. R[i] - 1 \in Nat
    BY <1>1, <1>4
  <2> QED BY <1>1, <2>1 DEF Down
<1>5. Down(Up(R, i), i) = R
  <2>1. DOMAIN Up(R, i) = Inodes /\ DOMAIN Down(Up(R, i), i) = Inodes
    BY <1>1 DEF Up, Down
  <2>2. Down(Up(R, i), i)[i] = R[i] /\ \A j \in Inodes \ {i} : Down(Up(R, i), i)[j] = R[j]
    <3>1. \A j \in Inodes \ {i} : Down(Up(R, i), i)[j] = Up(R, i)[j]
      BY <2>1 DEF Down
    <3>2. Down(Up(R, i), i)[i] = Up(R, i)[i] - 1
      BY <2>1 DEF Down
    <3> QED BY <1>1, <1>2, <3>1, <3>2
  <2>3. \A j \in Inodes : Down(Up(R, i), i)[j] = R[j]
    BY <2>2
  <2>4. Down(Up(R, i), i) = [j \in Inodes |-> Down(Up(R, i), i)[j]]
    BY <2>1 DEF Down
  <2> QED BY <1>1, <2>3, <2>4
<1> QED BY <1>2, <1>3, <1>4, <1>5

\* An inode that somebody refers to is in memory, with its counts.
LEMMA LoadedFits ==
  ASSUME NEW k, NEW R, NEW O, Counted(k, R, O), NEW i \in Inodes, R[i] # 0
  PROVE  /\ Loaded(k, i) /\ DOMAIN k.inode[i] = NodeFields /\ DinOK(k.inode[i].din)
         /\ k.inode[i].ref = R[i] /\ k.inode[i].open = O[i] /\ k.inode[i].reclaim = 1
         /\ R[i] \in Nat /\ O[i] \in Nat /\ O[i] <= R[i]
  BY DEF Counted, CountedAt, Fits, Loaded, NotLoaded, NodeFields

\* What leaves the counts alone leaves them right.
LEMMA SameCounted ==
  ASSUME NEW k, NEW t, Same(k, t), Sound(t), NEW R, NEW O, NEW S \in SUBSET Inodes,
         CountedAt(k, R, O, S)
  PROVE  CountedAt(t, R, O, S)
<1>1. Good(t) /\ \A i \in Inodes : NodeOK(t.inode[i]) /\ Alike(k.inode[i], t.inode[i])
  BY DEF Same, Good
<1>2. ASSUME NEW i \in S PROVE Fits(t.inode[i], R[i], O[i])
  <2>1. Fits(k.inode[i], R[i], O[i]) /\ NodeOK(t.inode[i]) /\ Alike(k.inode[i], t.inode[i])
    BY <1>1 DEF CountedAt
  <2>2. CASE R[i] = 0
    BY <2>1, <2>2 DEF Fits, Alike
  <2>3. CASE R[i] # 0
    <3>1. k.inode[i] # NotLoaded
      BY <2>1, <2>3 DEF Fits, NotLoaded, NodeFields
    <3> QED BY <2>1, <2>3, <3>1 DEF Fits, Alike, NodeOK, NodeFields
  <2> QED BY <2>2, <2>3
<1> QED BY <1>1, <1>2 DEF CountedAt

\* P and Q are R and O but for inode i, which is b.
\* P and Q are R and O with other counts for i, and b has them.
Changed(R, O, P, Q, i, b) ==
  /\ P \in [Inodes -> Nat] /\ Q \in [Inodes -> Nat]
  /\ \A j \in Inodes \ {i} : P[j] = R[j] /\ Q[j] = O[j]
  /\ Q[i] <= P[i] /\ Fits(b, P[i], Q[i])

\* One inode changes together with its counts.
LEMMA PutCounted ==
  ASSUME NEW k, NEW i \in Inodes, NEW R, NEW O, CountedAt(k, R, O, Inodes \ {i}),
         NEW P, NEW Q, NEW b, Changed(R, O, P, Q, i, b), Fit(k) => Fit(Put(k, i, b))
  PROVE  Counted(Put(k, i, b), P, Q) /\ Untouched(k, Put(k, i, b))
<1> DEFINE t == Put(k, i, b)
<1>1. Good(k) /\ DOMAIN k = KFields /\ DOMAIN k.inode = Inodes /\ i \in DOMAIN k.inode
  BY DEF CountedAt, Good
<1>2. Beside(k, t) /\ t.inode[i] = b /\ (\A j \in Inodes \ {i} : t.inode[j] = k.inode[j])
      /\ t.starved = k.starved
  BY <1>1, PutNode, PutAllBut DEF AllBut
<1>6. Sound(t)
  BY <1>2 DEF CountedAt, Sound, Beside
<1> HIDE DEF t
<1>3. NodeOK(b)
  BY DEF Changed, Fits, NodeOK, NodeFields
<1>4. Good(t)
  BY <1>1, <1>2, <1>3 DEF Good, Beside
<1>5. \A j \in Inodes : Q[j] <= P[j] /\ Fits(t.inode[j], P[j], Q[j])
  BY <1>2 DEF CountedAt, Changed
<1> QED BY <1>2, <1>4, <1>5, <1>6 DEF Counted, CountedAt, Changed, Untouched, Beside, t

\* What holds of all inodes holds of all but one.
LEMMA CountedBut ==
  ASSUME NEW k, NEW R, NEW O, Counted(k, R, O), NEW i
  PROVE  CountedAt(k, R, O, Inodes \ {i}) /\ R \in [Inodes -> Nat] /\ O \in [Inodes -> Nat]
  BY DEF Counted, CountedAt

\* inode_ref_inc, of an inode in memory.
LEMMA RefIncStep ==
  ASSUME NEW k, NEW R, NEW O, Counted(k, R, O), NEW i \in Inodes, R[i] # 0
  PROVE  Counted(RefInc(k, i), Up(R, i), O) /\ Untouched(k, RefInc(k, i))
<1> DEFINE b == [k.inode[i] EXCEPT !.ref = @ + 1]
           P == Up(R, i)
<1>0. R \in [Inodes -> Nat] /\ O \in [Inodes -> Nat] /\ CountedAt(k, R, O, Inodes \ {i})
  BY CountedBut
<1>1. P \in [Inodes -> Nat] /\ P[i] = R[i] + 1 /\ \A j \in Inodes \ {i} : P[j] = R[j]
  BY <1>0, UpDown
<1>2. RefInc(k, i) = Put(k, i, b)
  BY DEF RefInc, Put
<1> HIDE DEF P
<1>3. Fits(b, P[i], O[i]) /\ O[i] <= P[i]
  BY <1>1, LoadedFits DEF Fits, NodeFields
<1>5. Recount(k, i, b)
  BY LoadedFits DEF Recount, NodeFields
<1> HIDE DEF b
<1>6. Fit(k) => Fit(Put(k, i, b))
  BY <1>5, RecountFit DEF Counted, CountedAt
<1>20. Changed(R, O, P, O, i, b)
  BY <1>0, <1>1, <1>3 DEF Changed
<1>4. Counted(Put(k, i, b), P, O) /\ Untouched(k, Put(k, i, b))
  BY <1>0, <1>6, <1>20, PutCounted
<1> QED BY <1>2, <1>4 DEF P

\* inode_open_inc, by somebody who refers to the inode.
LEMMA OpenIncStep ==
  ASSUME NEW k, NEW R, NEW O, Counted(k, R, O), NEW i \in Inodes, O[i] < R[i]
  PROVE  Counted(OpenInc(k, i), R, Up(O, i)) /\ Untouched(k, OpenInc(k, i))
<1> DEFINE b == [k.inode[i] EXCEPT !.open = @ + 1]
           P == Up(O, i)
<1>0. R \in [Inodes -> Nat] /\ O \in [Inodes -> Nat] /\ CountedAt(k, R, O, Inodes \ {i})
  BY CountedBut
<1>1. P \in [Inodes -> Nat] /\ P[i] = O[i] + 1 /\ \A j \in Inodes \ {i} : P[j] = O[j]
  BY <1>0, UpDown
<1>2. OpenInc(k, i) = Put(k, i, b)
  BY DEF OpenInc, Put
<1>5. R[i] # 0 /\ R[i] \in Nat /\ O[i] \in Nat
  BY <1>0
<1> HIDE DEF P
<1>3. Fits(b, R[i], P[i]) /\ P[i] <= R[i]
  BY <1>1, <1>5, LoadedFits DEF Fits, NodeFields
<1>7. Recount(k, i, b)
  BY <1>5, LoadedFits DEF Recount, NodeFields
<1> HIDE DEF b
<1>8. Fit(k) => Fit(Put(k, i, b))
  BY <1>7, RecountFit DEF Counted, CountedAt
<1>6. \A j \in Inodes \ {i} : R[j] = R[j] /\ P[j] = O[j]
  BY <1>1
<1>20. Changed(R, O, R, P, i, b)
  BY <1>0, <1>1, <1>3, <1>6 DEF Changed
<1>4. Counted(Put(k, i, b), R, P) /\ Untouched(k, Put(k, i, b))
  BY <1>0, <1>8, <1>20, PutCounted
<1> QED BY <1>2, <1>4 DEF P

\* sfs_fsync leaves the counts alone, and cannot fail.
LEMMA FsyncSame ==
  ASSUME NEW k, Good(k), NEW i \in Inodes, Loaded(k, i)
  PROVE  Same(k, Fsync(k, i)) /\ Untouched(k, Fsync(k, i)) /\ (Sound(k) => Sound(Fsync(k, i)))
<1>3. ASSUME Same(k, Fsync(k, i)), Untouched(k, Fsync(k, i)) PROVE Sound(k) => Sound(Fsync(k, i))
  BY <1>3, FsyncFit DEF Sound, Untouched
<1>1. ASSUME ~k.inode[i].dirty
      PROVE  Same(k, Fsync(k, i)) /\ Untouched(k, Fsync(k, i))
  BY <1>1, SameSelf DEF Fsync, Untouched
<1>2. ASSUME k.inode[i].dirty
      PROVE  Same(k, Fsync(k, i)) /\ Untouched(k, Fsync(k, i))
  <2> DEFINE s == [k EXCEPT !.dinode[i] = Din(k, i)]
             b == [s.inode[i] EXCEPT !.dirty = FALSE]
  <2>1. Redone(k.inode[i], k.inode[i]) /\ Din(k, i) = k.inode[i].din
    BY LoadedNode
  <2>2. /\ DOMAIN s = KFields /\ s.inode = k.inode /\ s.len = k.len /\ Untouched(k, s)
        /\ DOMAIN s.dinode = Files \cup Dirs /\ \A j \in Files \cup Dirs : DinOK(s.dinode[j])
    BY <2>1 DEF Good, KFields, Untouched, Redone
  <2>3. Same(k, s)
    <3> HIDE DEF s
    <3> QED BY <2>2 DEF Same, Good, Alike, Untouched
  <2>4. Fsync(k, i) = Put(s, i, b)
    BY <1>2 DEF Fsync, Put
  <2> HIDE DEF s
  <2>5. Redone(s.inode[i], b)
    BY <2>1, <2>2 DEF Redone, NodeFields
  <2> HIDE DEF b
  <2>6. Good(s) /\ Loaded(s, i) /\ Plain(s, s)
    BY <2>2, <2>3, SameLoaded DEF Plain
  <2>7. Same(s, Put(s, i, b)) /\ Beside(s, Put(s, i, b)) /\ Put(s, i, b).starved = s.starved
    <3>1. i \in DOMAIN s.inode /\ DOMAIN s = KFields
      BY <2>6 DEF Good
    <3> QED BY <2>5, <2>6, <3>1, NodeChanged, PutNode, PutAllBut DEF AllBut
  <2>8. Same(k, Put(s, i, b))
    BY <2>3, <2>7, SameTwice
  <2>9. Untouched(k, Put(s, i, b))
    BY <2>2, <2>7 DEF Untouched, Beside
  <2> QED BY <2>4, <2>8, <2>9
<1> QED BY <1>1, <1>2, <1>3

\* inode_open_dec, of an inode that is open: its assertion holds.
LEMMA OpenDecStep ==
  ASSUME NEW k, NEW R, NEW O, Counted(k, R, O), NEW i \in Inodes, O[i] # 0
  PROVE  Counted(OpenDec(k, i), R, Down(O, i)) /\ Untouched(k, OpenDec(k, i))
<1> DEFINE b == [k.inode[i] EXCEPT !.open = @ - 1]
           P == Down(O, i)
           s == Put(k, i, b)
           t == OpenDec(k, i)
<1>0. R \in [Inodes -> Nat] /\ O \in [Inodes -> Nat] /\ CountedAt(k, R, O, Inodes \ {i})
  BY CountedBut
<1>1. P \in [Inodes -> Nat] /\ P[i] = O[i] - 1 /\ \A j \in Inodes \ {i} : P[j] = O[j]
  BY <1>0, UpDown
<1>2. R[i] # 0 /\ k.inode[i].open # 0
  <2>1. R[i] \in Nat /\ O[i] \in Nat /\ O[i] <= R[i]
    BY <1>0 DEF Counted, CountedAt
  <2>2. R[i] # 0
    BY <2>1
  <2> QED BY <2>2, LoadedFits
<1>3. t = IF s.inode[i].open = 0 THEN Fsync(s, i) ELSE s
  BY <1>2 DEF OpenDec, Put
<1> HIDE DEF P
<1>4. Fits(b, R[i], P[i]) /\ P[i] <= R[i]
  BY <1>0, <1>1, <1>2, LoadedFits DEF Fits, NodeFields
<1>9. Recount(k, i, b)
  BY <1>2, LoadedFits DEF Recount, NodeFields
<1> HIDE DEF b
<1>10. Fit(k) => Fit(s)
  BY <1>9, RecountFit DEF Counted, CountedAt
<1>5. \A j \in Inodes \ {i} : R[j] = R[j] /\ P[j] = O[j]
  BY <1>1
<1>20. Changed(R, O, R, P, i, b)
  BY <1>0, <1>1, <1>4, <1>5 DEF Changed
<1>6. Counted(s, R, P) /\ Untouched(k, s)
  BY <1>0, <1>10, <1>20, PutCounted
<1> HIDE DEF s, t
<1>7. CASE t = s
  BY <1>6, <1>7 DEF P, t
<1>8. CASE t = Fsync(s, i)
  <2>1. Good(s) /\ Loaded(s, i)
    BY <1>2, <1>6, LoadedFits DEF Counted, CountedAt
  <2>2. Same(s, t) /\ Untouched(s, t) /\ Sound(t)
    BY <1>6, <1>8, <2>1, FsyncSame DEF Counted, CountedAt
  <2>3. Counted(t, R, P)
    BY <1>6, <2>2, SameCounted DEF Counted
  <2> QED BY <1>6, <2>2, <2>3 DEF P, t, Untouched
<1> QED BY <1>3, <1>7, <1>8

\* inode_ref_dec, by somebody who has not opened the inode: no assertion fails, and the
\* inode leaves memory with its last reference.
LEMMA RefDecStep ==
  ASSUME NEW k, NEW R, NEW O, Counted(k, R, O), NEW i \in Inodes, O[i] < R[i]
  PROVE  Counted(RefDec(k, i), Down(R, i), O) /\ Untouched(k, RefDec(k, i))
<1> DEFINE b == [k.inode[i] EXCEPT !.ref = @ - 1]
           P == Down(R, i)
           s == Put(k, i, b)
           t == RefDec(k, i)
<1>0. R \in [Inodes -> Nat] /\ O \in [Inodes -> Nat] /\ CountedAt(k, R, O, Inodes \ {i})
  BY CountedBut
<1>1. R[i] # 0 /\ R[i] \in Nat /\ O[i] \in Nat
  BY <1>0
<1>2. P \in [Inodes -> Nat] /\ P[i] = R[i] - 1 /\ \A j \in Inodes \ {i} : P[j] = R[j] /\ O[j] = O[j]
  BY <1>0, <1>1, UpDown
<1>3. /\ Loaded(k, i) /\ DOMAIN k.inode[i] = NodeFields /\ DinOK(k.inode[i].din)
      /\ k.inode[i].ref = R[i] /\ k.inode[i].open = O[i] /\ k.inode[i].reclaim = 1
  BY <1>1, LoadedFits
<1>4. t = IF s.inode[i].ref = 0 THEN Reclaim(s, i) ELSE s
  BY <1>1, <1>3 DEF RefDec, Put
<1>5. /\ DOMAIN b = NodeFields /\ DinOK(b.din) /\ b.ref = R[i] - 1 /\ b.open = O[i] /\ b.reclaim = 1
  BY <1>3 DEF NodeFields
<1>6. DOMAIN k = KFields /\ i \in DOMAIN k.inode /\ DOMAIN k.inode = Inodes /\ Good(k)
  BY DEF Counted, CountedAt, Good
<1>7. Beside(k, s) /\ s.inode[i] = b /\ (\A j \in Inodes \ {i} : s.inode[j] = k.inode[j])
      /\ s.starved = k.starved
  BY <1>6, PutNode, PutAllBut DEF AllBut
<1>10. Recount(k, i, b)
  BY <1>3 DEF Recount, NodeFields
<1>11. Fit(k) => Fit(s)
  <2> HIDE DEF b
  <2> QED BY <1>6, <1>10, RecountFit
<1>12. Sound(k) /\ Sound(s)
  BY <1>7, <1>11 DEF Counted, CountedAt, Sound, Beside
<1> HIDE DEF P, b
<1>8. CASE R[i] # 1
  <2>1. Fits(b, P[i], O[i]) /\ O[i] <= P[i]
    BY <1>1, <1>2, <1>5, <1>8 DEF Fits
  <2>20. Changed(R, O, P, O, i, b)
    BY <1>0, <1>2, <2>1 DEF Changed
  <2>2. Counted(s, P, O) /\ Untouched(k, s)
    BY <1>0, <1>11, <2>20, PutCounted
  <2>3. t = s
    <3> HIDE DEF s, t
    <3> QED BY <1>1, <1>4, <1>5, <1>7, <1>8
  <2> HIDE DEF s, t
  <2> QED BY <2>2, <2>3 DEF P, t
<1>9. CASE R[i] = 1
  <2> DEFINE u == Fsync(s, i)
             v == Put(u, i, NotLoaded)
  <2>1. t = Reclaim(s, i)
    <3> HIDE DEF s, t
    <3> QED BY <1>4, <1>5, <1>7, <1>9
  <2>2. O[i] = 0 /\ P[i] = 0 /\ s.inode[i].open = 0 /\ s.inode[i].reclaim = 1
    <3> HIDE DEF s
    <3> QED BY <1>1, <1>2, <1>5, <1>7, <1>9
  <2>3. t = v
    <3> HIDE DEF s, t
    <3> QED BY <2>1, <2>2 DEF Reclaim, PanicIf, Put
  <2> HIDE DEF s, t
  <2>4. Good(s) /\ Loaded(s, i)
    <3>1. NodeOK(b) /\ b # NotLoaded
      BY <1>5 DEF NodeOK, NodeFields, NotLoaded
    <3> QED BY <1>6, <1>7, <3>1 DEF Good, Beside, Loaded
  <2>5. CountedAt(s, R, O, Inodes \ {i})
    BY <1>0, <1>7, <1>12, <2>4 DEF CountedAt
  <2>6. Same(s, u) /\ Untouched(s, u) /\ Sound(u) /\ Good(u)
    BY <1>12, <2>4, FsyncSame DEF Same
  <2>10. Fit(u) => Fit(v)
    <3>1. Clean(u, i)
      BY <2>4, FsyncFit
    <3> QED BY <2>6, <3>1, LeaveFit
  <2> HIDE DEF u
  <2>7. CountedAt(u, R, O, Inodes \ {i})
    BY <2>5, <2>6, SameCounted
  <2>8. Fits(NotLoaded, P[i], O[i]) /\ O[i] <= P[i]
    BY <2>2 DEF Fits
  <2>20. Changed(R, O, P, O, i, NotLoaded)
    BY <1>0, <1>2, <2>7, <2>8 DEF Changed
  <2>9. Counted(v, P, O) /\ Untouched(u, v)
    BY <1>0, <2>7, <2>10, <2>20, PutCounted
  <2> HIDE DEF v
  <2> QED BY <1>7, <2>3, <2>6, <2>9 DEF P, t, Untouched, Beside
<1> QED BY <1>8, <1>9

\* vfs_lookup finds the inode in memory, or loads it.
LEMMA LookupStep ==
  ASSUME NEW k, NEW R, NEW O, Counted(k, R, O), NEW i \in Inodes, i = Device => R[i] # 0
  PROVE  Counted(VfsLookup(k, i), Up(R, i), O) /\ Untouched(k, VfsLookup(k, i))
<1> DEFINE P == Up(R, i)
           t == LoadInode(k, i)
<1>0. R \in [Inodes -> Nat] /\ O \in [Inodes -> Nat] /\ CountedAt(k, R, O, Inodes \ {i})
  BY CountedBut
<1>1. P \in [Inodes -> Nat] /\ P[i] = R[i] + 1 /\ \A j \in Inodes \ {i} : P[j] = R[j] /\ O[j] = O[j]
  BY <1>0, UpDown
<1> HIDE DEF P
<1>2. CASE i = Device
  BY <1>2, RefIncStep DEF VfsLookup
<1>3. CASE i # Device /\ R[i] # 0
  <2>1. Loaded(k, i) /\ k.inode[i].ref # 0 /\ DOMAIN k.inode[i] = NodeFields
    BY <1>3, LoadedFits
  <2> DEFINE b == [k.inode[i] EXCEPT !.ref = @ + 1, !.reclaim = @]
  <2>2. VfsLookup(k, i) = Put(k, i, b)
    BY <1>3, <2>1 DEF VfsLookup, LoadInode, Put, Loaded
  <2>3. Fits(b, P[i], O[i]) /\ O[i] <= P[i]
    BY <1>0, <1>1, <1>3, LoadedFits DEF Fits, NodeFields
  <2>5. Recount(k, i, b)
    BY <2>1 DEF Recount, NodeFields
  <2> HIDE DEF b
  <2>6. Fit(k) => Fit(Put(k, i, b))
    BY <2>5, RecountFit DEF Counted, CountedAt
  <2>20. Changed(R, O, P, O, i, b)
    BY <1>0, <1>1, <2>3 DEF Changed
  <2>4. Counted(Put(k, i, b), P, O) /\ Untouched(k, Put(k, i, b))
    BY <1>0, <2>6, <2>20, PutCounted
  <2> QED BY <2>2, <2>4 DEF P
<1>4. CASE i # Device /\ R[i] = 0
  <2> DEFINE b == [ref |-> 1, open |-> 0, reclaim |-> 1, dirty |-> FALSE, din |-> k.dinode[i]]
  <2>1. k.inode[i] = NotLoaded /\ O[i] = 0 /\ DinOK(k.dinode[i])
    BY <1>0, <1>4 DEF Counted, CountedAt, Fits, Good, Inodes
  <2>2. VfsLookup(k, i) = Put(k, i, b)
    BY <1>4, <2>1 DEF VfsLookup, LoadInode, Put
  <2>3. Fits(b, P[i], O[i]) /\ O[i] <= P[i]
    BY <1>1, <1>4, <2>1 DEF Fits, NodeFields
  <2>5. b # NotLoaded /\ b.din = k.dinode[i] /\ ~b.dirty
    BY DEF NotLoaded
  <2> HIDE DEF b
  <2>6. Fit(k) => Fit(Put(k, i, b))
    BY <2>1, <2>5, PutFit DEF Counted, CountedAt
  <2>20. Changed(R, O, P, O, i, b)
    BY <1>0, <1>1, <2>3 DEF Changed
  <2>4. Counted(Put(k, i, b), P, O) /\ Untouched(k, Put(k, i, b))
    BY <1>0, <2>6, <2>20, PutCounted
  <2> QED BY <2>2, <2>4 DEF P
<1> QED BY <1>2, <1>3, <1>4

\* vfs_close gives back one open and one reference.
LEMMA VfsCloseStep ==
  ASSUME NEW k, NEW R, NEW O, Counted(k, R, O), NEW i \in Inodes, O[i] # 0
  PROVE  Counted(VfsClose(k, i), Down(R, i), Down(O, i)) /\ Untouched(k, VfsClose(k, i))
<1> DEFINE s == OpenDec(k, i)
           P == Down(O, i)
<1>1. Counted(s, R, P) /\ Untouched(k, s)
  BY OpenDecStep
<1>2. P[i] < R[i]
  <2>1. R[i] \in Nat /\ O[i] \in Nat /\ O[i] <= R[i] /\ O \in [Inodes -> Nat]
    BY DEF Counted, CountedAt
  <2>2. P[i] = O[i] - 1
    BY <2>1, UpDown
  <2> QED BY <2>1, <2>2
<1> HIDE DEF s, P
<1>3. Counted(RefDec(s, i), Down(R, i), P) /\ Untouched(s, RefDec(s, i))
  BY <1>1, <1>2, RefDecStep
<1> QED BY <1>1, <1>3 DEF VfsClose, s, P, Untouched

-----------------------------------------------------------------------------
(* The tables of descriptors T of the processes, and what they count.      *)

\* An open descriptor, and a table of them.
FileOK(y) ==
  DOMAIN y = {"node", "read", "write", "pos"} /\ y.node \in Inodes /\ y.pos \in Nat

Table(x) ==
  \/ x = NoFiles
  \/ /\ DOMAIN x = {"pwd", "fd"} /\ x.pwd \in Dirs
     /\ DOMAIN x.fd = Fds /\ \A f \in Fds : x.fd[f] = NoFd \/ FileOK(x.fd[f])

Tables(T) == DOMAIN T = Procs /\ \A p \in Procs : Table(T[p])

IsOpen(T, p, f) == T[p] # NoFiles /\ T[p].fd[f] # NoFd

\* The descriptors of inode i, and the processes whose directory it is.
OpenAt(T, i) ==
  {pf \in Procs \X Fds : IsOpen(T, pf[1], pf[2]) /\ T[pf[1]].fd[pf[2]].node = i}
PwdAt(T, i) == {p \in Procs : T[p] # NoFiles /\ T[p].pwd = i}

\* E counts the references that no table has.
Opens(T)   == [i \in Inodes |-> Cardinality(OpenAt(T, i))]
Refs(T, E) == [i \in Inodes |-> Cardinality(OpenAt(T, i)) + Cardinality(PwdAt(T, i)) + E[i]]

\* There are finitely many descriptors and working directories.
LEMMA FiniteCounts ==
  ASSUME NEW T, NEW i
  PROVE  /\ IsFiniteSet(OpenAt(T, i)) /\ Cardinality(OpenAt(T, i)) \in Nat
         /\ IsFiniteSet(PwdAt(T, i)) /\ Cardinality(PwdAt(T, i)) \in Nat
<1>1. IsFiniteSet(Fds) /\ IsFiniteSet(Procs)
  <2>1. 0 \in Int /\ NFds - 1 \in Int
    BY FilesAssumption
  <2> QED BY <2>1, FS_Interval, FilesAssumption DEF Fds
<1>2. IsFiniteSet(Procs \X Fds)
  BY <1>1, FS_Product
<1>3. OpenAt(T, i) \subseteq Procs \X Fds /\ PwdAt(T, i) \subseteq Procs
  BY DEF OpenAt, PwdAt
<1>4. IsFiniteSet(OpenAt(T, i)) /\ IsFiniteSet(PwdAt(T, i))
  BY <1>1, <1>2, <1>3, FS_Subset
<1> QED BY <1>4, FS_CardinalityType

\* The counts that tables make are numbers.
LEMMA CountsTyped ==
  ASSUME NEW T, NEW E \in [Inodes -> Int]
  PROVE  Opens(T) \in [Inodes -> Nat] /\ Refs(T, E) \in [Inodes -> Int]
  BY FiniteCounts DEF Opens, Refs

\* Descriptor f of p apart, T and U have the same files open.
\* But for descriptor f of p the same are open.
SameFiles(T, U, p, f) ==
  \A q \in Procs, g \in Fds : ~(q = p /\ g = f) =>
    /\ IsOpen(U, q, g) <=> IsOpen(T, q, g)
    /\ IsOpen(T, q, g) => U[q].fd[g].node = T[q].fd[g].node

\* A descriptor that alone is opened is one more for its inode.
LEMMA OneMore ==
  ASSUME NEW T, NEW U, NEW p \in Procs, NEW f \in Fds, SameFiles(T, U, p, f),
         ~IsOpen(T, p, f), IsOpen(U, p, f)
  PROVE  /\ Cardinality(OpenAt(U, U[p].fd[f].node)) = Cardinality(OpenAt(T, U[p].fd[f].node)) + 1
         /\ \A i : i # U[p].fd[f].node => OpenAt(U, i) = OpenAt(T, i)
<1> DEFINE n == U[p].fd[f].node
<1>1. ASSUME NEW pf \in Procs \X Fds, NEW i
      PROVE  pf \in OpenAt(U, i) <=> pf \in OpenAt(T, i) \/ (pf = <<p, f>> /\ i = n)
  <2> DEFINE q == pf[1]
             g == pf[2]
  <2>1. q \in Procs /\ g \in Fds /\ pf = <<q, g>>
    OBVIOUS
  <2>2. pf \in OpenAt(U, i) <=> IsOpen(U, q, g) /\ U[q].fd[g].node = i
    BY DEF OpenAt
  <2>3. pf \in OpenAt(T, i) <=> IsOpen(T, q, g) /\ T[q].fd[g].node = i
    BY DEF OpenAt
  <2> HIDE DEF q, g
  <2>4. CASE q = p /\ g = f
    BY <2>1, <2>2, <2>3, <2>4
  <2>5. CASE ~(q = p /\ g = f)
    <3>1. pf # <<p, f>>
      BY <2>1, <2>5
    <3> QED BY <2>1, <2>2, <2>3, <2>5, <3>1 DEF SameFiles
  <2> QED BY <2>4, <2>5
<1>2. \A i : OpenAt(U, i) \subseteq Procs \X Fds /\ OpenAt(T, i) \subseteq Procs \X Fds
  BY DEF OpenAt
<1>3. <<p, f>> \in Procs \X Fds /\ <<p, f>> \notin OpenAt(T, n)
  BY DEF OpenAt
<1> HIDE DEF n
<1>4. OpenAt(U, n) = OpenAt(T, n) \cup {<<p, f>>}
  BY <1>1, <1>2, <1>3
<1>5. Cardinality(OpenAt(U, n)) = Cardinality(OpenAt(T, n)) + 1
  BY <1>3, <1>4, FiniteCounts, FS_AddElement
<1>6. ASSUME NEW i, i # n PROVE OpenAt(U, i) = OpenAt(T, i)
  BY <1>1, <1>2, <1>6
<1> QED BY <1>5, <1>6 DEF n

\* So it is in the counts.
LEMMA MoreOpen ==
  ASSUME NEW T, NEW U, NEW p \in Procs, NEW f \in Fds, SameFiles(T, U, p, f),
         ~IsOpen(T, p, f), IsOpen(U, p, f), NEW n \in Inodes, n = U[p].fd[f].node,
         \A i : PwdAt(U, i) = PwdAt(T, i), NEW E \in [Inodes -> Int]
  PROVE  Opens(U) = Up(Opens(T), n) /\ Refs(U, E) = Up(Refs(T, E), n)
<1>1. /\ Cardinality(OpenAt(U, n)) = Cardinality(OpenAt(T, n)) + 1
      /\ \A i : i # n => OpenAt(U, i) = OpenAt(T, i)
  BY OneMore
<1>2. \A i \in Inodes : /\ Cardinality(OpenAt(T, i)) \in Nat /\ Cardinality(PwdAt(T, i)) \in Nat
                        /\ E[i] \in Int
  BY FiniteCounts
<1>3. ASSUME NEW i \in Inodes
      PROVE  Opens(U)[i] = Up(Opens(T), n)[i] /\ Refs(U, E)[i] = Up(Refs(T, E), n)[i]
  <2>1. CASE i = n
    BY <1>1, <1>2, <2>1 DEF Opens, Refs, Up
  <2>2. CASE i # n
    BY <1>1, <1>2, <2>2 DEF Opens, Refs, Up
  <2> QED BY <2>1, <2>2
<1> QED BY <1>3 DEF Opens, Refs, Up

\* Up and Down undo each other.
LEMMA DownUp ==
  ASSUME NEW R \in [Inodes -> Int], NEW i \in Inodes
  PROVE  Down(Up(R, i), i) = R /\ Up(Down(R, i), i) = R /\ Up(R, i) \in [Inodes -> Int]
         /\ Down(R, i) \in [Inodes -> Int]
<1>1. DOMAIN R = Inodes /\ R = [j \in Inodes |-> R[j]] /\ \A j \in Inodes : R[j] \in Int
  OBVIOUS
<1> DEFINE P == Down(Up(R, i), i)
           Q == Up(Down(R, i), i)
<1>2. /\ DOMAIN P = Inodes /\ P = [j \in Inodes |-> P[j]]
      /\ DOMAIN Q = Inodes /\ Q = [j \in Inodes |-> Q[j]]
  BY <1>1 DEF Up, Down
<1>3. \A j \in Inodes : P[j] = R[j] /\ Q[j] = R[j]
  BY <1>1 DEF Up, Down
<1>4. Up(R, i) \in [Inodes -> Int] /\ Down(R, i) \in [Inodes -> Int]
  BY <1>1 DEF Up, Down
<1> HIDE DEF P, Q
<1>5. P = R /\ Q = R
  BY <1>1, <1>2, <1>3
<1> QED BY <1>4, <1>5 DEF P, Q

\* U is T but for descriptor f of p, which is y.
\* U is T with y as descriptor f of p.
FdSet(T, U, p, f, y) ==
  /\ Tables(T) /\ Tables(U) /\ T[p] # NoFiles /\ U[p] # NoFiles
  /\ U[p].pwd = T[p].pwd /\ U[p].fd[f] = y /\ \A g \in Fds \ {f} : U[p].fd[g] = T[p].fd[g]
  /\ \A q \in Procs \ {p} : U[q] = T[q]

\* A descriptor is set; all others stay.
LEMMA SetFd ==
  ASSUME NEW T, Tables(T), NEW p \in Procs, T[p] # NoFiles, NEW f \in Fds,
         NEW y, y = NoFd \/ FileOK(y), NEW U, U = [T EXCEPT ![p].fd[f] = y]
  PROVE  FdSet(T, U, p, f, y)
<1> DEFINE d == [T[p].fd EXCEPT ![f] = y]
           w == [T[p] EXCEPT !.fd = d]
<1>1. /\ DOMAIN T = Procs /\ DOMAIN T[p] = {"pwd", "fd"} /\ T[p].pwd \in Dirs
      /\ DOMAIN T[p].fd = Fds /\ \A g \in Fds : T[p].fd[g] = NoFd \/ FileOK(T[p].fd[g])
  BY DEF Tables, Table
<1>2. DOMAIN d = Fds /\ d[f] = y /\ \A g \in Fds \ {f} : d[g] = T[p].fd[g]
  BY <1>1
<1>3. U = [T EXCEPT ![p] = w]
  OBVIOUS
<1> HIDE DEF d
<1>4. DOMAIN w = {"pwd", "fd"} /\ w.pwd = T[p].pwd /\ w.fd = d
  BY <1>1
<1> HIDE DEF w
<1>5. w # NoFiles /\ Table(w)
  BY <1>1, <1>2, <1>4 DEF Table, NoFiles
<1>6. DOMAIN U = Procs /\ U[p] = w /\ \A q \in Procs \ {p} : U[q] = T[q]
  BY <1>1, <1>3
<1>7. Tables(U)
  BY <1>5, <1>6 DEF Tables
<1> QED BY <1>2, <1>4, <1>5, <1>6, <1>7 DEF FdSet

\* That changes no working directory.
LEMMA SamePwds ==
  ASSUME NEW T, NEW U, NEW p \in Procs, NEW f \in Fds, NEW y, FdSet(T, U, p, f, y), NEW i
  PROVE  PwdAt(U, i) = PwdAt(T, i)
<1>1. \A q \in Procs : (U[q] # NoFiles /\ U[q].pwd = i) <=> (T[q] # NoFiles /\ T[q].pwd = i)
  BY DEF FdSet
<1> QED BY <1>1 DEF PwdAt

\* Nor another descriptor.
LEMMA OthersSame ==
  ASSUME NEW T, NEW U, NEW p \in Procs, NEW f \in Fds, NEW y, FdSet(T, U, p, f, y)
  PROVE  SameFiles(T, U, p, f) /\ SameFiles(U, T, p, f)
<1>1. ASSUME NEW q \in Procs, NEW g \in Fds, ~(q = p /\ g = f)
      PROVE  /\ IsOpen(U, q, g) <=> IsOpen(T, q, g)
             /\ IsOpen(T, q, g) => U[q].fd[g].node = T[q].fd[g].node
  <2>1. CASE q = p
    BY <1>1, <2>1 DEF FdSet, IsOpen
  <2>2. CASE q # p
    BY <1>1, <2>2 DEF FdSet, IsOpen
  <2> QED BY <2>1, <2>2
<1> QED BY <1>1 DEF SameFiles

WithFd(T, p, f, y) == [T EXCEPT ![p].fd[f] = y]

\* A descriptor is opened: one open more, one reference more.
LEMMA OpenFd ==
  ASSUME NEW T, Tables(T), NEW p \in Procs, T[p] # NoFiles, NEW f \in Fds, T[p].fd[f] = NoFd,
         NEW y, FileOK(y), NEW E \in [Inodes -> Int]
  PROVE  LET U == WithFd(T, p, f, y)
         IN  /\ FdSet(T, U, p, f, y)
             /\ Opens(U) = Up(Opens(T), y.node) /\ Refs(U, E) = Up(Refs(T, E), y.node)
<1> DEFINE U == WithFd(T, p, f, y)
<1>1. FdSet(T, U, p, f, y)
  BY SetFd DEF WithFd
<1> HIDE DEF U
<1>2. ~IsOpen(T, p, f) /\ IsOpen(U, p, f) /\ U[p].fd[f] = y /\ y.node \in Inodes
  BY <1>1 DEF FdSet, IsOpen, FileOK, NoFd
<1>3. SameFiles(T, U, p, f) /\ \A i : PwdAt(U, i) = PwdAt(T, i)
  BY <1>1, SamePwds, OthersSame
<1>4. Opens(U) = Up(Opens(T), y.node) /\ Refs(U, E) = Up(Refs(T, E), y.node)
  BY <1>2, <1>3, MoreOpen
<1> QED BY <1>1, <1>4 DEF U

\* A descriptor is closed: one open less, one reference less.
LEMMA CloseFd ==
  ASSUME NEW T, Tables(T), NEW p \in Procs, NEW f \in Fds, IsOpen(T, p, f),
         NEW E \in [Inodes -> Int]
  PROVE  LET U == WithFd(T, p, f, NoFd)
             n == T[p].fd[f].node
         IN  /\ FdSet(T, U, p, f, NoFd) /\ n \in Inodes
             /\ Opens(U) = Down(Opens(T), n) /\ Refs(U, E) = Down(Refs(T, E), n)
<1> DEFINE U == WithFd(T, p, f, NoFd)
           n == T[p].fd[f].node
<1>1. FdSet(T, U, p, f, NoFd)
  BY SetFd DEF IsOpen, WithFd
<1>2. n \in Inodes
  BY DEF Tables, Table, IsOpen, FileOK
<1> HIDE DEF U
<1>3. ~IsOpen(U, p, f) /\ SameFiles(U, T, p, f)
  BY <1>1, OthersSame DEF FdSet, IsOpen
<1>4. \A i : PwdAt(T, i) = PwdAt(U, i)
  BY <1>1, SamePwds
<1>5. Opens(T) = Up(Opens(U), n) /\ Refs(T, E) = Up(Refs(U, E), n)
  BY <1>2, <1>3, <1>4, MoreOpen
<1>6. Opens(U) \in [Inodes -> Int] /\ Refs(U, E) \in [Inodes -> Int]
  BY CountsTyped
<1> HIDE DEF n
<1>7. Opens(U) = Down(Opens(T), n) /\ Refs(U, E) = Down(Refs(T, E), n)
  BY <1>2, <1>5, <1>6, DownUp
<1> QED BY <1>1, <1>2, <1>7 DEF U, n
\* Equal sets of descriptors and of working directories: the counts are equal.

\* The counts are those of the sets.
LEMMA SameCounts ==
  ASSUME NEW T, NEW U, \A i \in Inodes : OpenAt(U, i) = OpenAt(T, i),
         \A i \in Inodes : PwdAt(U, i) = PwdAt(T, i), NEW E
  PROVE  Opens(U) = Opens(T) /\ Refs(U, E) = Refs(T, E)
  BY DEF Opens, Refs

\* A descriptor changes its position alone: the counts stay.
LEMMA MoveFd ==
  ASSUME NEW T, Tables(T), NEW p \in Procs, NEW f \in Fds, IsOpen(T, p, f),
         NEW y, FileOK(y), y.node = T[p].fd[f].node, NEW E
  PROVE  LET U == WithFd(T, p, f, y)
         IN  FdSet(T, U, p, f, y) /\ Opens(U) = Opens(T) /\ Refs(U, E) = Refs(T, E)
<1> DEFINE U == WithFd(T, p, f, y)
<1>1. FdSet(T, U, p, f, y)
  BY SetFd DEF IsOpen, WithFd
<1> HIDE DEF U
<1>2. SameFiles(T, U, p, f) /\ \A i : PwdAt(U, i) = PwdAt(T, i)
  BY <1>1, SamePwds, OthersSame
<1>3. IsOpen(U, p, f) /\ U[p].fd[f].node = T[p].fd[f].node
  BY <1>1 DEF FdSet, IsOpen, FileOK, NoFd
<1>4. ASSUME NEW pf \in Procs \X Fds
      PROVE  /\ IsOpen(U, pf[1], pf[2]) <=> IsOpen(T, pf[1], pf[2])
             /\ IsOpen(T, pf[1], pf[2]) => U[pf[1]].fd[pf[2]].node = T[pf[1]].fd[pf[2]].node
  <2>1. pf[1] \in Procs /\ pf[2] \in Fds
    OBVIOUS
  <2>2. CASE pf[1] = p /\ pf[2] = f
    BY <1>3, <2>2
  <2>3. CASE ~(pf[1] = p /\ pf[2] = f)
    BY <1>2, <2>1, <2>3 DEF SameFiles
  <2> QED BY <2>2, <2>3
<1>5. \A i \in Inodes : OpenAt(U, i) = OpenAt(T, i)
  BY <1>4 DEF OpenAt
<1> QED BY <1>1, <1>2, <1>5, SameCounts DEF U

(* A change of the working directory, a new table, and the end of one.     *)

\* A process that alone enters a directory is one more for it.
LEMMA MorePwd ==
  ASSUME NEW T, NEW U, NEW p \in Procs, NEW d, p \notin PwdAt(T, d), U[p] # NoFiles, U[p].pwd = d,
         \A q \in Procs \ {p} : U[q] = T[q]
  PROVE  Cardinality(PwdAt(U, d)) = Cardinality(PwdAt(T, d)) + 1
<1>1. PwdAt(U, d) = PwdAt(T, d) \cup {p}
  BY DEF PwdAt
<1> QED BY <1>1, FiniteCounts, FS_AddElement, Zenon

WithPwd(T, p, d) == [T EXCEPT ![p].pwd = d]

\* A process changes its directory: one reference goes from the old to the new one.
LEMMA EnterPwd ==
  ASSUME NEW T, Tables(T), NEW p \in Procs, T[p] # NoFiles, NEW d \in Dirs, d # T[p].pwd,
         NEW E \in [Inodes -> Int]
  PROVE  LET U == WithPwd(T, p, d)
         IN  /\ Tables(U) /\ U[p] # NoFiles /\ U[p].fd = T[p].fd
             /\ Opens(U) = Opens(T) /\ Refs(U, E) = Down(Up(Refs(T, E), d), T[p].pwd)
<1> DEFINE U == WithPwd(T, p, d)
           o == T[p].pwd
           w == [T[p] EXCEPT !.pwd = d]
<1>1. /\ DOMAIN T = Procs /\ DOMAIN T[p] = {"pwd", "fd"} /\ o \in Dirs
      /\ DOMAIN T[p].fd = Fds /\ \A g \in Fds : T[p].fd[g] = NoFd \/ FileOK(T[p].fd[g])
  BY DEF Tables, Table
<1>2. DOMAIN w = {"pwd", "fd"} /\ w.pwd = d /\ w.fd = T[p].fd
  BY <1>1
<1>3. U = [T EXCEPT ![p] = w]
  BY DEF WithPwd
<1> HIDE DEF w
<1>4. Table(w) /\ w # NoFiles
  BY <1>1, <1>2 DEF Table, NoFiles
<1>5. DOMAIN U = Procs /\ U[p] = w /\ \A q \in Procs \ {p} : U[q] = T[q]
  BY <1>1, <1>3
<1>6. Tables(U)
  BY <1>4, <1>5 DEF Tables
<1> HIDE DEF U
<1>7. \A i \in Inodes : OpenAt(U, i) = OpenAt(T, i)
  <2>1. \A pf \in Procs \X Fds : /\ IsOpen(U, pf[1], pf[2]) <=> IsOpen(T, pf[1], pf[2])
                                 /\ U[pf[1]].fd = T[pf[1]].fd
    BY <1>2, <1>4, <1>5 DEF IsOpen
  <2> QED BY <2>1 DEF OpenAt
<1>8. Opens(U) = Opens(T)
  BY <1>7 DEF Opens
<1>9. Cardinality(PwdAt(U, d)) = Cardinality(PwdAt(T, d)) + 1
  <2>1. p \notin PwdAt(T, d)
    BY DEF PwdAt
  <2> QED BY <1>2, <1>4, <1>5, <2>1, MorePwd
<1>10. Cardinality(PwdAt(T, o)) = Cardinality(PwdAt(U, o)) + 1
  <2>1. p \notin PwdAt(U, o)
    BY <1>2, <1>5 DEF PwdAt
  <2> QED BY <1>5, <2>1, MorePwd
<1>11. \A i : i \notin {d, o} => PwdAt(U, i) = PwdAt(T, i)
  BY <1>2, <1>4, <1>5 DEF PwdAt
<1>12. o \in Inodes /\ d \in Inodes /\ d # o
  BY <1>1 DEF Inodes
<1> HIDE DEF o
<1> DEFINE R == Refs(T, E)
           P == Down(Up(R, d), o)
<1>13. R \in [Inodes -> Int] /\ Up(R, d) \in [Inodes -> Int] /\ P \in [Inodes -> Int]
  BY <1>12, CountsTyped, DownUp
<1>14. \A i \in Inodes : P[i] = IF i = d THEN R[i] + 1 ELSE IF i = o THEN R[i] - 1 ELSE R[i]
  <2>1. \A i \in Inodes : Up(R, d)[i] = IF i = d THEN R[i] + 1 ELSE R[i]
    BY <1>13 DEF Up
  <2>2. \A i \in Inodes : P[i] = IF i = o THEN Up(R, d)[i] - 1 ELSE Up(R, d)[i]
    BY <1>13 DEF Down
  <2> HIDE DEF P, R
  <2> QED BY <1>12, <2>1, <2>2
<1>15. \A i \in Inodes : Refs(U, E)[i] = P[i]
  <2>1. ASSUME NEW i \in Inodes
        PROVE  /\ Refs(U, E)[i] = Cardinality(OpenAt(T, i)) + Cardinality(PwdAt(U, i)) + E[i]
               /\ R[i] = Cardinality(OpenAt(T, i)) + Cardinality(PwdAt(T, i)) + E[i]
    BY <1>7 DEF Refs
  <2>2. ASSUME NEW i \in Inodes
        PROVE  /\ Cardinality(OpenAt(T, i)) \in Nat /\ Cardinality(PwdAt(T, i)) \in Nat
               /\ Cardinality(PwdAt(U, i)) \in Nat /\ E[i] \in Int
    BY FiniteCounts
  <2> HIDE DEF P, R
  <2> QED BY <1>9, <1>10, <1>11, <1>12, <1>14, <2>1, <2>2
<1>16. Refs(U, E) = P
  <2>1. Refs(U, E) \in [Inodes -> Int]
    BY CountsTyped
  <2> HIDE DEF P
  <2> QED BY <1>13, <1>15, <2>1
<1> QED BY <1>2, <1>4, <1>5, <1>6, <1>8, <1>16 DEF U, o

\* A new table has nothing open, and its working directory.
LEMMA NewTable ==
  ASSUME NEW T, Tables(T), NEW p \in Procs, T[p] = NoFiles, NEW d \in Dirs, NEW E \in [Inodes -> Int]
  PROVE  LET U == [T EXCEPT ![p] = [pwd |-> d, fd |-> AllNone]]
         IN  Tables(U) /\ Opens(U) = Opens(T) /\ Refs(U, E) = Up(Refs(T, E), d)
<1> DEFINE w == [pwd |-> d, fd |-> AllNone]
           U == [T EXCEPT ![p] = w]
<1>1. DOMAIN w = {"pwd", "fd"} /\ w.pwd = d /\ DOMAIN w.fd = Fds /\ \A f \in Fds : w.fd[f] = NoFd
  BY DEF AllNone
<1> HIDE DEF w
<1>2. Table(w) /\ w # NoFiles
  BY <1>1 DEF Table, NoFiles
<1>3. DOMAIN U = Procs /\ U[p] = w /\ \A q \in Procs \ {p} : U[q] = T[q]
  BY DEF Tables
<1>4. Tables(U)
  BY <1>2, <1>3 DEF Tables
<1> HIDE DEF U
<1>5. \A i \in Inodes : OpenAt(U, i) = OpenAt(T, i)
  <2>1. \A pf \in Procs \X Fds : /\ IsOpen(U, pf[1], pf[2]) <=> IsOpen(T, pf[1], pf[2])
                                 /\ IsOpen(T, pf[1], pf[2]) => U[pf[1]] = T[pf[1]]
    BY <1>1, <1>2, <1>3 DEF IsOpen
  <2> QED BY <2>1 DEF OpenAt
<1>6. Cardinality(PwdAt(U, d)) = Cardinality(PwdAt(T, d)) + 1
  <2>1. p \notin PwdAt(T, d)
    BY DEF PwdAt
  <2> QED BY <1>1, <1>2, <1>3, <2>1, MorePwd
<1>7. \A i : i # d => PwdAt(U, i) = PwdAt(T, i)
  BY <1>1, <1>2, <1>3 DEF PwdAt
<1>8. d \in Inodes
  BY DEF Inodes
<1>9. \A i \in Inodes : /\ Cardinality(OpenAt(T, i)) \in Nat /\ Cardinality(PwdAt(T, i)) \in Nat
                        /\ E[i] \in Int
  BY FiniteCounts
<1>10. ASSUME NEW i \in Inodes PROVE Refs(U, E)[i] = Up(Refs(T, E), d)[i]
  <2>1. CASE i = d
    BY <1>5, <1>6, <1>9, <2>1 DEF Refs, Up
  <2>2. CASE i # d
    BY <1>5, <1>7, <2>2 DEF Refs, Up
  <2> QED BY <2>1, <2>2
<1> QED BY <1>4, <1>5, <1>10 DEF U, w, Opens, Refs, Up

\* A table that has nothing open goes, and its working directory with it.
LEMMA DropTable ==
  ASSUME NEW T, Tables(T), NEW p \in Procs, T[p] # NoFiles, \A f \in Fds : T[p].fd[f] = NoFd,
         NEW E \in [Inodes -> Int]
  PROVE  LET U == [T EXCEPT ![p] = NoFiles]
         IN  /\ Tables(U) /\ Opens(U) = Opens(T) /\ T[p].pwd \in Inodes
             /\ Refs(U, E) = Down(Refs(T, E), T[p].pwd)
<1> DEFINE U == [T EXCEPT ![p] = NoFiles]
           d == T[p].pwd
<1>1. DOMAIN T = Procs /\ d \in Dirs /\ d \in Inodes
  BY DEF Tables, Table, Inodes
<1>2. Tables(U) /\ U[p] = NoFiles /\ \A q \in Procs \ {p} : U[q] = T[q]
  BY DEF Tables, Table
<1> HIDE DEF U
<1>3. \A i : OpenAt(U, i) = OpenAt(T, i)
  <2>1. \A pf \in Procs \X Fds : /\ IsOpen(U, pf[1], pf[2]) <=> IsOpen(T, pf[1], pf[2])
                                 /\ IsOpen(T, pf[1], pf[2]) => U[pf[1]] = T[pf[1]]
    BY <1>2 DEF IsOpen
  <2> QED BY <2>1 DEF OpenAt
<1>4. Cardinality(PwdAt(T, d)) = Cardinality(PwdAt(U, d)) + 1
  <2>1. p \notin PwdAt(U, d)
    BY <1>2 DEF PwdAt
  <2>2. \A q \in Procs \ {p} : T[q] = U[q]
    BY <1>2
  <2> QED BY <2>1, <2>2, MorePwd
<1>5. \A i : i # d => PwdAt(U, i) = PwdAt(T, i)
  BY <1>2 DEF PwdAt
<1>6. \A i \in Inodes : /\ Cardinality(OpenAt(U, i)) \in Nat /\ Cardinality(PwdAt(U, i)) \in Nat
                        /\ E[i] \in Int
  BY FiniteCounts
<1> HIDE DEF d
<1>7. ASSUME NEW i \in Inodes PROVE Refs(T, E)[i] = Up(Refs(U, E), d)[i]
  <2>1. CASE i = d
    BY <1>3, <1>4, <1>6, <2>1 DEF Refs, Up
  <2>2. CASE i # d
    BY <1>3, <1>5, <2>2 DEF Refs, Up
  <2> QED BY <2>1, <2>2
<1>8. Refs(T, E) = Up(Refs(U, E), d)
  BY <1>7 DEF Refs, Up
<1>9. Refs(U, E) \in [Inodes -> Int]
  BY CountsTyped
<1>10. Refs(U, E) = Down(Refs(T, E), d)
  BY <1>1, <1>8, <1>9, DownUp
<1>11. Opens(U) = Opens(T)
  BY <1>3 DEF Opens
<1> QED BY <1>1, <1>2, <1>10, <1>11 DEF U, d
-----------------------------------------------------------------------------
(* The inodes have the counts that the tables and E give them.             *)

Whole(k, E) ==
  /\ Tables(k.files) /\ E \in [Inodes -> Int]
  /\ Counted(k, Refs(k.files, E), Opens(k.files))

SetFiles(s, T) == [s EXCEPT !.files = T]

\* A step on the tables leaves the inodes alone.
LEMMA WithFiles ==
  ASSUME NEW s, NEW R, NEW O, Counted(s, R, O), NEW T
  PROVE  /\ Counted(SetFiles(s, T), R, O) /\ SetFiles(s, T).files = T
         /\ SetFiles(s, T).leaked = s.leaked /\ SetFiles(s, T).halt = s.halt
         /\ SetFiles(s, T).ret = s.ret /\ SetFiles(s, T).starved = s.starved
         /\ NodesSame(s, SetFiles(s, T))
<1> DEFINE t == SetFiles(s, T)
<1>1. Good(s) /\ Sound(s)
  BY DEF Counted, CountedAt
<1>2. /\ DOMAIN t = KFields /\ t.files = T /\ t.leaked = s.leaked /\ t.halt = s.halt /\ t.ret = s.ret
      /\ t.inode = s.inode /\ t.dinode = s.dinode /\ t.len = s.len /\ Aside(s, t)
  BY <1>1 DEF SetFiles, Good, KFields, Aside, NodesSame, Beyond
<1> HIDE DEF t
<1>3. Good(t)
  BY <1>1, <1>2 DEF Good
<1>5. Sound(t)
  BY <1>1, <1>2, AsideFit DEF Sound
<1>4. Counted(t, R, O)
  BY <1>2, <1>3, <1>5 DEF Counted, CountedAt
<1> QED BY <1>2, <1>4 DEF t, Aside, Beyond

\* A reference that no table has is counted like the others.
LEMMA RefsUp ==
  ASSUME NEW T, NEW E \in [Inodes -> Int], NEW i \in Inodes
  PROVE  Refs(T, Up(E, i)) = Up(Refs(T, E), i) /\ Refs(T, Down(E, i)) = Down(Refs(T, E), i)
<1>1. \A j \in Inodes : /\ Cardinality(OpenAt(T, j)) \in Nat /\ Cardinality(PwdAt(T, j)) \in Nat
                        /\ E[j] \in Int
  BY FiniteCounts
<1>2. \A j \in Inodes : /\ Up(E, i)[j] = IF j = i THEN E[j] + 1 ELSE E[j]
                        /\ Down(E, i)[j] = IF j = i THEN E[j] - 1 ELSE E[j]
  BY DEF Up, Down
<1>3. ASSUME NEW j \in Inodes
      PROVE  /\ Refs(T, Up(E, i))[j] = Up(Refs(T, E), i)[j]
             /\ Refs(T, Down(E, i))[j] = Down(Refs(T, E), i)[j]
  <2>1. /\ Refs(T, Up(E, i))[j] = Cardinality(OpenAt(T, j)) + Cardinality(PwdAt(T, j)) + Up(E, i)[j]
        /\ Refs(T, Down(E, i))[j] = Cardinality(OpenAt(T, j)) + Cardinality(PwdAt(T, j)) + Down(E, i)[j]
        /\ Refs(T, E)[j] = Cardinality(OpenAt(T, j)) + Cardinality(PwdAt(T, j)) + E[j]
    BY DEF Refs
  <2>2. /\ Up(Refs(T, E), i)[j] = IF j = i THEN Refs(T, E)[j] + 1 ELSE Refs(T, E)[j]
        /\ Down(Refs(T, E), i)[j] = IF j = i THEN Refs(T, E)[j] - 1 ELSE Refs(T, E)[j]
    BY DEF Up, Down, Refs
  <2> QED BY <1>1, <1>2, <2>1, <2>2
<1> QED BY <1>3 DEF Refs, Up, Down

\* What somebody has is counted.

\* There are as many references as opens, and more where somebody is.
LEMMA AtLeast ==
  ASSUME NEW T, NEW E \in [Inodes -> Int], NEW i \in Inodes, E[i] >= 0
  PROVE  /\ Refs(T, E)[i] >= Opens(T)[i] + E[i]
         /\ \A p \in Procs : T[p] # NoFiles /\ T[p].pwd = i => Refs(T, E)[i] > Opens(T)[i] + E[i]
<1>1. Cardinality(OpenAt(T, i)) \in Nat /\ Cardinality(PwdAt(T, i)) \in Nat /\ E[i] \in Int
  BY FiniteCounts
<1>2. ASSUME NEW p \in Procs, T[p] # NoFiles /\ T[p].pwd = i PROVE Cardinality(PwdAt(T, i)) # 0
  <2>1. p \in PwdAt(T, i)
    BY <1>2 DEF PwdAt
  <2> QED BY <2>1, FiniteCounts, FS_EmptySet
<1> QED BY <1>1, <1>2 DEF Refs, Opens

\* The inode of an open descriptor is counted as open.
LEMMA OpenCounted ==
  ASSUME NEW T, Tables(T), NEW p \in Procs, NEW f \in Fds, IsOpen(T, p, f)
  PROVE  T[p].fd[f].node \in Inodes /\ Opens(T)[T[p].fd[f].node] # 0 /\ FileOK(T[p].fd[f])
<1> DEFINE n == T[p].fd[f].node
<1>1. FileOK(T[p].fd[f]) /\ n \in Inodes
  BY DEF Tables, Table, IsOpen, FileOK
<1>2. <<p, f>> \in OpenAt(T, n)
  BY DEF OpenAt
<1>3. Cardinality(OpenAt(T, n)) # 0
  BY <1>2, FiniteCounts, FS_EmptySet
<1> QED BY <1>1, <1>3 DEF Opens

\* Leaked references, what the call returned and a panic: not changed.
Rest(k, t) ==
  t.leaked = k.leaked /\ t.halt = k.halt /\ t.ret = k.ret /\ t.starved = k.starved

\* fd_array_close keeps the counts right.
LEMMA FdCloseKeeps ==
  ASSUME NEW k, NEW E, Whole(k, E), NEW p \in Procs, NEW f \in Fds, IsOpen(k.files, p, f)
  PROVE  LET t == FdClose(k, p, f)
         IN  Whole(t, E) /\ Rest(k, t) /\ FdSet(k.files, t.files, p, f, NoFd)
<1> DEFINE T == k.files
           n == T[p].fd[f].node
           U == WithFd(T, p, f, NoFd)
           s == VfsClose(k, n)
           t == FdClose(k, p, f)
<1>1. Tables(T) /\ E \in [Inodes -> Int] /\ Counted(k, Refs(T, E), Opens(T))
  BY DEF Whole
<1>2. n \in Inodes /\ Opens(T)[n] # 0
  BY <1>1, OpenCounted
<1>3. /\ FdSet(T, U, p, f, NoFd)
      /\ Opens(U) = Down(Opens(T), n) /\ Refs(U, E) = Down(Refs(T, E), n)
  BY <1>1, CloseFd
<1>4. Counted(s, Down(Refs(T, E), n), Down(Opens(T), n)) /\ Untouched(k, s)
  BY <1>1, <1>2, VfsCloseStep
<1>5. t = SetFiles(s, U)
  <2>1. s.files = T
    BY <1>4 DEF Untouched
  <2> HIDE DEF s
  <2>2. t = [s EXCEPT !.files[p].fd[f] = NoFd]
    BY DEF FdClose, s
  <2> QED BY <2>1, <2>2 DEF SetFiles, WithFd
<1> HIDE DEF s, U, t, n
<1>6. Counted(t, Refs(U, E), Opens(U)) /\ t.files = U /\ Rest(s, t)
  BY <1>3, <1>4, <1>5, WithFiles DEF Rest
<1>7. Whole(t, E)
  BY <1>1, <1>3, <1>6 DEF Whole, FdSet
<1> QED BY <1>3, <1>4, <1>6, <1>7 DEF Rest, Untouched, t

\* fd_array_dup keeps the counts right.
LEMMA FdDupKeeps ==
  ASSUME NEW k, NEW E, Whole(k, E), NEW p \in Procs, NEW f \in Fds, k.files[p] # NoFiles,
         k.files[p].fd[f] = NoFd, NEW y, FileOK(y), Opens(k.files)[y.node] # 0
  PROVE  LET t == FdDup(k, p, f, y)
         IN  Whole(t, E) /\ Rest(k, t) /\ FdSet(k.files, t.files, p, f, y)
<1> DEFINE T == k.files
           n == y.node
           U == WithFd(T, p, f, y)
           r == RefInc(k, n)
           s == OpenInc(r, n)
           t == FdDup(k, p, f, y)
           R == Refs(T, E)
           O == Opens(T)
<1>1. Tables(T) /\ E \in [Inodes -> Int] /\ Counted(k, R, O) /\ n \in Inodes
  BY DEF Whole, FileOK
<1>2. /\ FdSet(T, U, p, f, y)
      /\ Opens(U) = Up(O, n) /\ Refs(U, E) = Up(R, n)
  <2>1. T[p] # NoFiles /\ T[p].fd[f] = NoFd /\ FileOK(y)
    OBVIOUS
  <2> HIDE DEF T
  <2> QED BY <1>1, <2>1, OpenFd
<1>3. R[n] \in Nat /\ O[n] \in Nat /\ O[n] <= R[n] /\ R \in [Inodes -> Nat]
  BY <1>1 DEF Counted, CountedAt
<1> HIDE DEF R, O, U
<1>4. Counted(r, Up(R, n), O) /\ Untouched(k, r)
  <2>1. R[n] # 0
    BY <1>3 DEF O
  <2> QED BY <1>1, <2>1, RefIncStep
<1>5. Counted(s, Up(R, n), Up(O, n)) /\ Untouched(r, s)
  <2>1. O[n] < Up(R, n)[n]
    BY <1>1, <1>3, UpDown
  <2> HIDE DEF r
  <2> QED BY <1>1, <1>4, <2>1, OpenIncStep
<1>6. t = SetFiles(s, U)
  <2>1. s.files = T
    BY <1>4, <1>5 DEF Untouched
  <2> HIDE DEF s
  <2>2. t = [s EXCEPT !.files[p].fd[f] = y]
    BY DEF FdDup, s
  <2> QED BY <2>1, <2>2 DEF SetFiles, U, WithFd
<1> HIDE DEF r, s, t
<1>7. Counted(t, Refs(U, E), Opens(U)) /\ t.files = U /\ Rest(s, t)
  BY <1>2, <1>5, <1>6, WithFiles DEF Rest
<1>8. Whole(t, E)
  BY <1>1, <1>2, <1>7 DEF Whole, FdSet
<1> QED BY <1>2, <1>4, <1>5, <1>7, <1>8 DEF Rest, Untouched, t
\* A process p, its working directory, and those of its descriptors not in S.
SameTable(T, U, p, S) ==
  /\ T[p] # NoFiles /\ U[p] # NoFiles /\ U[p].pwd = T[p].pwd
  /\ \A f \in Fds \ S : U[p].fd[f] = T[p].fd[f]
  /\ \A q \in Procs \ {p} : U[q] = T[q]

\* To close all descriptors from first on keeps the counts right, and closes them.
LEMMA CloseFromKeeps ==
  ASSUME NEW k, NEW E, Whole(k, E), NEW p \in Procs, k.files[p] # NoFiles, NEW first \in 0 .. NFds
  PROVE  LET t == CloseFrom(k, p, first)
         IN  /\ Whole(t, E) /\ Rest(k, t)
             /\ SameTable(k.files, t.files, p, first .. NFds - 1)
             /\ \A f \in Fds : f >= first => t.files[p].fd[f] = NoFd
<1> DEFINE n == NFds - first
           x == CloseAt(k, p, first, n)
           Closed(t, m) == /\ Whole(t, E) /\ Rest(k, t)
                           /\ SameTable(k.files, t.files, p, first .. first + m - 1)
                           /\ \A f \in Fds : f >= first /\ f < first + m => t.files[p].fd[f] = NoFd
           T == {m \in 0 .. n : ~Closed(x[m], m)}
<1>0. n \in Nat /\ NFds \in Nat /\ first \in Nat
  BY FilesAssumption
<1>1. /\ x[0] = k
      /\ \A m \in 1 .. n : x[m] = IF x[m - 1].files[p].fd[first + m - 1] = NoFd THEN x[m - 1]
                                  ELSE FdClose(x[m - 1], p, first + m - 1)
  BY <1>0, CloseTurns
<1>2. CloseFrom(k, p, first) = x[n]
  BY DEF CloseFrom, Loop, CloseAt
<1> HIDE DEF x
<1>3. T = {}
  <2> SUFFICES ASSUME T # {} PROVE FALSE
    OBVIOUS
  <2>1. PICK m \in T : \A j \in T : m <= j
    <3>1. T \subseteq Nat
      OBVIOUS
    <3> HIDE DEF T
    <3> QED BY <3>1, Least
  <2>2. m # 0
    <3>1. Rest(k, k)
      BY DEF Rest
    <3>2. \A f \in Fds : f \in Int
      BY <1>0 DEF Fds
    <3>3. Closed(k, 0)
      BY <1>0, <3>1, <3>2 DEF SameTable
    <3> HIDE DEF Closed
    <3> QED BY <1>1, <3>3
  <2>3. m \in 1 .. n /\ m - 1 \in 0 .. n /\ Closed(x[m - 1], m - 1)
    <3> HIDE DEF Closed
    <3> QED BY <1>0, <2>1, <2>2
  <2> DEFINE s == x[m - 1]
             g == first + m - 1
             t == FdClose(s, p, g)
  <2>4. g \in Fds
    BY <1>0, <2>3 DEF Fds
  <2>5. s.files[p] # NoFiles /\ Whole(s, E) /\ Rest(k, s)
    BY <2>3 DEF SameTable
  <2>6. x[m] = IF s.files[p].fd[g] = NoFd THEN s ELSE t
    BY <1>1, <2>3
  <2>7. SameTable(k.files, s.files, p, first .. g - 1)
    BY <1>0, <2>3
  <2>8. \A f \in Fds : f >= first /\ f < g => s.files[p].fd[f] = NoFd
    BY <1>0, <2>3
  <2>9. first + m = g + 1 /\ first + m - 1 = g /\ g \in Int /\ first <= g
    BY <1>0, <2>3
  <2>10. \A f \in Fds : f >= first /\ f < g + 1 => f = g \/ f < g
    <3>1. \A f \in Int : f < g + 1 => f = g \/ f < g
      BY <2>9
    <3>2. \A f \in Fds : f \in Int
      BY <1>0 DEF Fds
    <3> HIDE DEF g
    <3> QED BY <3>1, <3>2
  <2> HIDE DEF s, g, t
  <2>11. ASSUME s.files[p].fd[g] = NoFd PROVE Closed(s, m)
    <3>1. SameTable(k.files, s.files, p, first .. g)
      BY <1>0, <2>7, <2>9 DEF SameTable
    <3>2. \A f \in Fds : f >= first /\ f < g + 1 => s.files[p].fd[f] = NoFd
      BY <1>0, <2>8, <2>9, <2>10, <2>11
    <3> QED BY <2>5, <2>9, <3>1, <3>2
  <2>12. ASSUME s.files[p].fd[g] # NoFd PROVE Closed(t, m)
    <3>1. IsOpen(s.files, p, g)
      BY <2>5, <2>12 DEF IsOpen
    <3>2. Whole(t, E) /\ Rest(s, t) /\ FdSet(s.files, t.files, p, g, NoFd)
      BY <2>4, <2>5, <3>1, FdCloseKeeps DEF t
    <3>3. SameTable(k.files, t.files, p, first .. g)
      <4>1. \A f \in Fds : f \notin first .. g => f # g /\ f \notin first .. g - 1
        BY <1>0, <2>9 DEF Fds
      <4> QED BY <2>7, <3>2, <4>1 DEF SameTable, FdSet
    <3>4. \A f \in Fds : f >= first /\ f < g + 1 => t.files[p].fd[f] = NoFd
      BY <1>0, <2>8, <2>9, <2>10, <3>2 DEF FdSet
    <3>5. Rest(k, t)
      BY <2>5, <3>2 DEF Rest
    <3> QED BY <2>9, <3>2, <3>3, <3>4, <3>5
  <2>13. Closed(x[m], m)
    <3> HIDE DEF Closed
    <3> QED BY <2>6, <2>11, <2>12
  <2> HIDE DEF Closed
  <2> QED BY <2>1, <2>13
<1>4. Closed(x[n], n)
  <2> HIDE DEF Closed
  <2> QED BY <1>0, <1>3
<1>5. first + n = NFds /\ first + n - 1 = NFds - 1 /\ \A f \in Fds : f < first + n
  BY <1>0 DEF Fds
<1> HIDE DEF n
<1> QED BY <1>2, <1>4, <1>5

\* files_destroy keeps the counts right.
LEMMA FilesDestroyKeeps ==
  ASSUME NEW k, NEW E, Whole(k, E), NEW p \in Procs, k.files[p] # NoFiles, E[k.files[p].pwd] >= 0
  PROVE  Whole(FilesDestroy(k, p), E) /\ Rest(k, FilesDestroy(k, p))
<1> DEFINE T == k.files
           d == T[p].pwd
           s == RefDec(k, d)
           F == Down(E, d)
           t == CloseFrom(s, p, 0)
           U == [t.files EXCEPT ![p] = NoFiles]
           u == FilesDestroy(k, p)
<1>1. Tables(T) /\ E \in [Inodes -> Int] /\ Counted(k, Refs(T, E), Opens(T))
  BY DEF Whole
<1>2. d \in Inodes
  BY <1>1 DEF Tables, Table, Inodes
<1>3. Opens(T)[d] < Refs(T, E)[d]
  <2>1. E[d] \in Int /\ E[d] >= 0
    BY <1>1, <1>2
  <2>2. Refs(T, E)[d] > Opens(T)[d] + E[d]
    BY <1>1, <1>2, <2>1, AtLeast
  <2>3. Opens(T)[d] \in Nat /\ Refs(T, E)[d] \in Int
    BY <1>1, <1>2, CountsTyped
  <2> HIDE DEF d, T
  <2> QED BY <2>1, <2>2, <2>3
<1>4. Counted(s, Down(Refs(T, E), d), Opens(T)) /\ Untouched(k, s)
  BY <1>1, <1>2, <1>3, RefDecStep
<1>5. F \in [Inodes -> Int] /\ Refs(T, F) = Down(Refs(T, E), d)
  BY <1>1, <1>2, RefsUp, DownUp
<1>6. u = [t EXCEPT !.files[p] = NoFiles]
  BY DEF FilesDestroy
<1> HIDE DEF s, F
<1>7. Whole(s, F) /\ s.files = T
  BY <1>1, <1>4, <1>5 DEF Whole, Untouched
<1>8. 0 \in 0 .. NFds
  BY FilesAssumption
<1>9. /\ Whole(t, F) /\ Rest(s, t) /\ SameTable(T, t.files, p, 0 .. NFds - 1)
      /\ \A f \in Fds : f >= 0 => t.files[p].fd[f] = NoFd
  <2>1. s.files[p] # NoFiles
    BY <1>7
  <2> QED BY <1>7, <1>8, <2>1, CloseFromKeeps
<1>10. u = SetFiles(t, U)
  <2> HIDE DEF t
  <2> QED BY <1>6 DEF SetFiles
<1> HIDE DEF t, u
<1>11. Tables(t.files) /\ Counted(t, Refs(t.files, F), Opens(t.files))
  BY <1>9 DEF Whole
<1>12. t.files[p] # NoFiles /\ t.files[p].pwd = d
  BY <1>9 DEF SameTable
<1>13. \A f \in Fds : t.files[p].fd[f] = NoFd
  <2>1. \A f \in Fds : f >= 0
    BY FilesAssumption DEF Fds
  <2> QED BY <1>9, <2>1
<1> DEFINE V == t.files
<1>14. Tables(U) /\ Opens(U) = Opens(V) /\ Refs(U, E) = Down(Refs(V, E), d)
  <2>1. V[p] # NoFiles /\ V[p].pwd = d /\ \A f \in Fds : V[p].fd[f] = NoFd
    BY <1>12, <1>13
  <2> HIDE DEF V, d
  <2>2. Tables(V)
    BY <1>11 DEF V
  <2>3. LET W == [V EXCEPT ![p] = NoFiles]
        IN  Tables(W) /\ Opens(W) = Opens(V) /\ Refs(W, E) = Down(Refs(V, E), V[p].pwd)
    BY <1>1, <2>1, <2>2, DropTable
  <2> QED BY <2>1, <2>3 DEF V
<1>15. Refs(V, F) = Down(Refs(V, E), d)
  BY <1>1, <1>2, RefsUp DEF F
<1> HIDE DEF U, V, d
<1>16. Counted(u, Refs(U, E), Opens(U)) /\ u.files = U /\ Rest(t, u)
  BY <1>10, <1>11, <1>14, <1>15, WithFiles DEF Rest, V
<1> QED BY <1>1, <1>4, <1>9, <1>14, <1>16 DEF Whole, Rest, Untouched, u

\* dup_files keeps the counts right.
LEMMA DupFilesKeeps ==
  ASSUME NEW k, NEW E, Whole(k, E), NEW to \in Procs, NEW from \in Procs,
         k.files[to] = NoFiles, k.files[from] # NoFiles, E[k.files[from].pwd] >= 0
  PROVE  Whole(DupFiles(k, to, from), E) /\ Rest(k, DupFiles(k, to, from))
<1> DEFINE T == k.files
           d == T[from].pwd
           U == [T EXCEPT ![to] = [pwd |-> d, fd |-> AllNone]]
           r == SetFiles(k, U)
           s == RefInc(r, d)
           x == DupAt(s, to, from, NFds)
           Dup(t, m) == /\ Whole(t, E) /\ Rest(k, t) /\ t.files[to] # NoFiles
                        /\ t.files[from] = T[from]
                        /\ \A f \in Fds : f >= m => t.files[to].fd[f] = NoFd
           B == {m \in 0 .. NFds : ~Dup(x[m], m)}
<1>0. NFds \in Nat /\ to # from
  BY FilesAssumption
<1>1. Tables(T) /\ E \in [Inodes -> Int] /\ Counted(k, Refs(T, E), Opens(T))
  BY DEF Whole
<1>2. d \in Dirs /\ d \in Inodes
  BY <1>1 DEF Tables, Table, Inodes
<1>3. Tables(U) /\ Opens(U) = Opens(T) /\ Refs(U, E) = Up(Refs(T, E), d)
  <2>1. T[to] = NoFiles
    OBVIOUS
  <2> HIDE DEF T, d
  <2> QED BY <1>1, <1>2, <2>1, NewTable
<1>4. U[to] # NoFiles /\ U[from] = T[from] /\ \A f \in Fds : U[to].fd[f] = NoFd
  <2>1. [pwd |-> d, fd |-> AllNone] # NoFiles
    BY DEF NoFiles
  <2>2. DOMAIN T = Procs
    BY <1>1 DEF Tables
  <2> HIDE DEF T, d
  <2> QED BY <1>0, <2>1, <2>2 DEF AllNone
<1>5. DupFiles(k, to, from) = x[NFds]
  BY DEF DupFiles, Loop, DupAt, SetFiles
<1>6. /\ x[0] = s
      /\ \A m \in 1 .. NFds : x[m] = IF x[m - 1].files[from].fd[m - 1] = NoFd THEN x[m - 1]
                                     ELSE FdDup(x[m - 1], to, m - 1, x[m - 1].files[from].fd[m - 1])
  BY <1>0, DupTurns
<1> HIDE DEF x, U
<1>7. Dup(s, 0)
  <2>1. Counted(r, Refs(T, E), Opens(T)) /\ r.files = U /\ Rest(k, r)
    BY <1>1, WithFiles DEF Rest
  <2>2. Refs(T, E)[d] # 0
    <3>1. Refs(T, E)[d] > Opens(T)[d] + E[d]
      BY <1>1, <1>2, AtLeast
    <3>2. Opens(T)[d] \in Nat /\ E[d] \in Int /\ E[d] >= 0 /\ Refs(T, E)[d] \in Int
      BY <1>1, <1>2, CountsTyped
    <3> HIDE DEF d, T
    <3> QED BY <3>1, <3>2
  <2> HIDE DEF r
  <2>3. Counted(s, Refs(U, E), Opens(U)) /\ Untouched(r, s)
    BY <1>2, <1>3, <2>1, <2>2, RefIncStep
  <2> HIDE DEF s, T
  <2> QED BY <1>1, <1>3, <1>4, <2>1, <2>3 DEF Whole, Rest, Untouched
<1>8. B = {}
  <2> SUFFICES ASSUME B # {} PROVE FALSE
    OBVIOUS
  <2>1. PICK m \in B : \A j \in B : m <= j
    <3>1. B \subseteq Nat
      BY <1>0
    <3> HIDE DEF B
    <3> QED BY <3>1, Least
  <2>2. m # 0
    <3> HIDE DEF Dup
    <3> QED BY <1>6, <1>7
  <2>3. m \in 1 .. NFds /\ m - 1 \in 0 .. NFds /\ Dup(x[m - 1], m - 1)
    <3> HIDE DEF Dup
    <3> QED BY <1>0, <2>1, <2>2
  <2> DEFINE v == x[m - 1]
             g == m - 1
             y == T[from].fd[g]
             t == FdDup(v, to, g, y)
  <2>4. g \in Fds /\ \A f \in Fds : f >= m => f >= g /\ f # g
    BY <1>0, <2>3 DEF Fds
  <2>5. /\ Whole(v, E) /\ Rest(k, v) /\ v.files[to] # NoFiles /\ v.files[from] = T[from]
        /\ \A f \in Fds : f >= g => v.files[to].fd[f] = NoFd
    BY <2>3
  <2>6. x[m] = IF y = NoFd THEN v ELSE t
    BY <1>6, <2>3, <2>5
  <2>7. v.files[to].fd[g] = NoFd
    <3>1. g >= g
      BY <2>3
    <3> HIDE DEF v, g
    <3> QED BY <2>4, <2>5, <3>1
  <2> HIDE DEF v, g, t, T
  <2>8. CASE y = NoFd
    <3>1. Dup(v, m)
      BY <2>4, <2>5
    <3> HIDE DEF Dup
    <3> QED BY <2>1, <2>6, <2>8, <3>1
  <2>9. CASE y # NoFd
    <3>1. T[from] # NoFiles
      BY DEF T
    <3>2. IsOpen(v.files, from, g) /\ v.files[from].fd[g] = y
      BY <2>5, <2>9, <3>1 DEF IsOpen
    <3>3. Tables(v.files)
      BY <2>5 DEF Whole
    <3>4. FileOK(y) /\ Opens(v.files)[y.node] # 0
      <4> HIDE DEF y
      <4> QED BY <2>4, <3>2, <3>3, OpenCounted
    <3> HIDE DEF y
    <3>5. Whole(t, E) /\ Rest(v, t) /\ FdSet(v.files, t.files, to, g, y)
      BY <2>4, <2>5, <2>7, <3>4, FdDupKeeps DEF t
    <3>6. Rest(k, t)
      BY <2>5, <3>5 DEF Rest
    <3>7. Dup(t, m)
      BY <1>0, <2>4, <2>5, <3>5, <3>6 DEF FdSet
    <3> HIDE DEF Dup
    <3> QED BY <2>1, <2>6, <2>9, <3>7 DEF y
  <2> QED BY <2>8, <2>9
<1>9. Dup(x[NFds], NFds)
  <2> HIDE DEF Dup
  <2> QED BY <1>0, <1>8
<1> QED BY <1>5, <1>9
-----------------------------------------------------------------------------
(* Opening.  What no table has: leaked references, and those for good.     *)

Base(i) == IF i = Root THEN 2 ELSE IF i = Device THEN 1 ELSE 0
Lost(l) == [i \in Inodes |-> l[i] + Base(i)]

\* The counts are right between two calls.
WholeNow(k) == k.leaked \in [Inodes -> Nat] /\ Whole(k, Lost(k.leaked))

\* What no table has are numbers, and the device is one of them.
LEMMA LostTyped ==
  ASSUME NEW l \in [Inodes -> Nat]
  PROVE  /\ Lost(l) \in [Inodes -> Int] /\ \A i \in Inodes : Lost(l)[i] >= 0
         /\ Lost(l)[Device] >= 1 /\ Device \in Inodes
<1>1. \A i \in Inodes : l[i] \in Nat /\ Base(i) \in Nat /\ Lost(l)[i] = l[i] + Base(i)
  BY DEF Base, Lost
<1>2. Device \in Inodes /\ Base(Device) >= 1
  BY FilesAssumption DEF Base, Inodes
<1> QED BY <1>1, <1>2 DEF Lost

\* One leaked reference more.
LEMMA LostMore ==
  ASSUME NEW l \in [Inodes -> Nat], NEW i \in Inodes
  PROVE  Up(l, i) \in [Inodes -> Nat] /\ Lost(Up(l, i)) = Up(Lost(l), i)
<1>1. /\ Up(l, i) \in [Inodes -> Nat] /\ Up(l, i)[i] = l[i] + 1
      /\ \A j \in Inodes \ {i} : Up(l, i)[j] = l[j]
  BY UpDown
<1>2. \A j \in Inodes : l[j] \in Nat /\ Base(j) \in Nat
  BY DEF Base
<1> DEFINE m == Up(l, i)
<1>3. ASSUME NEW j \in Inodes PROVE Lost(m)[j] = Up(Lost(l), i)[j]
  <2>1. Lost(m)[j] = m[j] + Base(j) /\ Lost(l)[j] = l[j] + Base(j)
    BY DEF Lost
  <2>2. Up(Lost(l), i)[j] = IF j = i THEN Lost(l)[j] + 1 ELSE Lost(l)[j]
    BY DEF Up, Lost
  <2> HIDE DEF m
  <2>3. m[j] = IF j = i THEN l[j] + 1 ELSE l[j]
    BY <1>1 DEF m
  <2> QED BY <1>2, <2>1, <2>2, <2>3
<1>4. Lost(m) = Up(Lost(l), i)
  <2> HIDE DEF m
  <2> QED BY <1>3 DEF Lost, Up
<1> QED BY <1>1, <1>4

\* What leaves the counts alone leaves them right.
LEMMA SameWhole ==
  ASSUME NEW k, WholeNow(k), NEW t, Same(k, t), Sound(t)
  PROVE  WholeNow(t)
<1>1. t.files = k.files /\ t.leaked = k.leaked
  BY DEF Same
<1>2. Counted(t, Refs(k.files, Lost(k.leaked)), Opens(k.files))
  BY SameCounted DEF WholeNow, Whole, Counted
<1> QED BY <1>1, <1>2 DEF WholeNow, Whole

\* A state with right counts has its types.
LEMMA WholeGood ==
  ASSUME NEW k, WholeNow(k)
  PROVE  Good(k) /\ DOMAIN k = KFields /\ Sound(k)
  BY DEF WholeNow, Whole, Counted, CountedAt, Good

\* To return something leaves the counts alone.
LEMMA RetSame ==
  ASSUME NEW k, Good(k), NEW x
  PROVE  /\ Same(k, [k EXCEPT !.ret = x]) /\ [k EXCEPT !.ret = x].ret = x
         /\ [k EXCEPT !.ret = x].halt = k.halt /\ [k EXCEPT !.ret = x].starved = k.starved
         /\ Sound(k) => Sound([k EXCEPT !.ret = x])
<1> DEFINE t == [k EXCEPT !.ret = x]
<1>1. /\ Same(k, t) /\ t.ret = x /\ t.halt = k.halt /\ t.starved = k.starved
      /\ Aside(k, t)
  BY DEF Same, Good, Alike, KFields, Aside, NodesSame, Beyond
<1> HIDE DEF t
<1>2. Sound(k) => Sound(t)
  BY <1>1, AsideFit DEF Sound
<1> QED BY <1>1, <1>2 DEF t

\* How a call may stop the kernel: by what no file can hold, by what an inode has no
\* operation for, by a long name, or by a truncation after blocks ran out.
Stops      == {"none", "range", "no_op", "name"}
Openly(k, h) == h \in Stops \/ (h = "blocks" /\ k.starved)

\* Inode i is found and opened, and no descriptor has it yet.
Admitted(k, t, i) ==
  /\ i \in Inodes /\ t.leaked = k.leaked
  /\ Counted(t, Up(Refs(k.files, Lost(k.leaked)), i), Up(Opens(k.files), i))

\* What an open may come to.
OpenEnds(k, t, i) ==
  /\ t.files = k.files /\ (t.halt = "none" => k.halt = "none") /\ Openly(k, t.halt)
  /\ \/ t.halt # "none"
     \/ t.ret # "ok" /\ WholeNow(t)
     \/ t.ret = "ok" /\ Admitted(k, t, i)

\* vfs_lookup, of an inode or of the device, is counted for the caller.
LEMMA FoundEnds ==
  ASSUME NEW k, WholeNow(k), NEW i \in Inodes
  PROVE  LET s == VfsLookup(k, i)
         IN  /\ Counted(s, Up(Refs(k.files, Lost(k.leaked)), i), Opens(k.files))
             /\ Untouched(k, s)
<1> DEFINE R == Refs(k.files, Lost(k.leaked))
<1>1. Counted(k, R, Opens(k.files)) /\ k.leaked \in [Inodes -> Nat]
  BY DEF WholeNow, Whole
<1>2. i = Device => R[i] # 0
  <2>1. /\ Lost(k.leaked) \in [Inodes -> Int] /\ Lost(k.leaked)[Device] >= 1 /\ Device \in Inodes
        /\ Lost(k.leaked)[Device] >= 0
    BY <1>1, LostTyped
  <2>2. R[Device] >= Opens(k.files)[Device] + Lost(k.leaked)[Device]
    BY <2>1, AtLeast
  <2>3. Opens(k.files)[Device] \in Nat /\ R[Device] \in Int /\ Lost(k.leaked)[Device] \in Int
    BY <2>1, CountsTyped
  <2> HIDE DEF R
  <2> QED BY <2>1, <2>2, <2>3
<1> HIDE DEF R
<1>3. Counted(VfsLookup(k, i), Up(R, i), Opens(k.files)) /\ Untouched(k, VfsLookup(k, i))
  BY <1>1, <1>2, LookupStep
<1> QED BY <1>3 DEF R

\* A refused open gives its reference back.
LEMMA RefuseEnds ==
  ASSUME NEW k, WholeNow(k), k.halt = "none", NEW i \in Inodes
  PROVE  OpenEnds(k, Refuse(VfsLookup(k, i), i), i)
<1> DEFINE R == Refs(k.files, Lost(k.leaked))
           O == Opens(k.files)
           s == VfsLookup(k, i)
           r == RefDec(s, i)
           t == [r EXCEPT !.ret = "refused"]
<1>1. Counted(s, Up(R, i), O) /\ Untouched(k, s) /\ Counted(k, R, O)
  BY FoundEnds DEF WholeNow, Whole
<1>2. R \in [Inodes -> Nat] /\ R[i] \in Nat /\ O[i] \in Nat /\ O[i] <= R[i]
  BY <1>1 DEF Counted, CountedAt
<1> HIDE DEF R, s
<1>3. O[i] < Up(R, i)[i] /\ Down(Up(R, i), i) = R
  BY <1>2, UpDown
<1>4. Counted(r, R, O) /\ Untouched(s, r)
  BY <1>1, <1>3, RefDecStep
<1> HIDE DEF r, O
<1>5. WholeNow(r) /\ r.files = k.files /\ r.halt = k.halt
  BY <1>1, <1>4 DEF WholeNow, Whole, Untouched, R, O
<1>6. WholeNow(t) /\ t.ret = "refused"
  <2>1. Same(r, t) /\ t.ret = "refused" /\ Sound(t)
    BY <1>5, WholeGood, RetSame
  <2> HIDE DEF t
  <2> QED BY <1>5, <2>1, SameWhole
<1>7. t.files = k.files /\ t.halt = k.halt
  BY <1>5, WholeGood DEF KFields
<1> QED BY <1>6, <1>7 DEF OpenEnds, Openly, Stops, Refuse, r, s

\* An exclusive open of what is there loses it, as the history says.
LEMMA LoseEnds ==
  ASSUME NEW k, WholeNow(k), k.halt = "none", NEW i \in Inodes
  PROVE  OpenEnds(k, [VfsLookup(k, i) EXCEPT !.leaked[i] = @ + 1, !.ret = "exists"], i)
<1> DEFINE R == Refs(k.files, Lost(k.leaked))
           O == Opens(k.files)
           l == k.leaked
           s == VfsLookup(k, i)
           t == [s EXCEPT !.leaked[i] = @ + 1, !.ret = "exists"]
<1>1. Counted(s, Up(R, i), O) /\ Untouched(k, s) /\ Tables(k.files) /\ l \in [Inodes -> Nat]
  BY FoundEnds DEF WholeNow, Whole
<1> HIDE DEF s
<1>2. Good(s) /\ DOMAIN s = KFields /\ Sound(s)
  BY <1>1 DEF Counted, CountedAt, Good
<1>3. /\ DOMAIN t = KFields /\ t.files = k.files /\ t.halt = k.halt /\ t.ret = "exists"
      /\ t.leaked = Up(l, i) /\ t.inode = s.inode /\ t.dinode = s.dinode /\ t.len = s.len
      /\ Aside(s, t) /\ t.halt = s.halt
  BY <1>1, <1>2 DEF KFields, Untouched, Up, Aside, NodesSame, Beyond
<1> HIDE DEF t, l
<1>4. Counted(t, Up(R, i), O)
  <2>1. Good(t) /\ Sound(t)
    BY <1>2, <1>3, AsideFit DEF Good, Sound
  <2> QED BY <1>1, <1>3, <2>1 DEF Counted, CountedAt
<1>5. Up(l, i) \in [Inodes -> Nat] /\ Lost(Up(l, i)) = Up(Lost(l), i) /\ Lost(l) \in [Inodes -> Int]
  BY <1>1, LostMore, LostTyped
<1>6. Up(Lost(l), i) \in [Inodes -> Int] /\ Refs(k.files, Up(Lost(l), i)) = Up(R, i)
  BY <1>5, DownUp, RefsUp DEF l
<1>7. WholeNow(t)
  BY <1>1, <1>3, <1>4, <1>5, <1>6 DEF WholeNow, Whole
<1> QED BY <1>3, <1>7 DEF OpenEnds, Openly, Stops, t, s

\* An open that succeeds, with or without a truncation.
LEMMA AdmitEnds ==
  ASSUME NEW k, WholeNow(k), k.ret = "ok", k.halt = "none", NEW i \in Inodes, NEW t,
         \/ t = OpenInc(VfsLookup(k, i), i)
         \/ t = VfsTruncate(OpenInc(VfsLookup(k, i), i), i)
  PROVE  OpenEnds(k, t, i)
<1> DEFINE R == Refs(k.files, Lost(k.leaked))
           O == Opens(k.files)
           r == VfsLookup(k, i)
           s == OpenInc(r, i)
<1>1. Counted(r, Up(R, i), O) /\ Untouched(k, r) /\ Counted(k, R, O)
  BY FoundEnds DEF WholeNow, Whole
<1>2. R \in [Inodes -> Nat] /\ R[i] \in Nat /\ O[i] \in Nat /\ O[i] <= R[i]
  BY <1>1 DEF Counted, CountedAt
<1> HIDE DEF R, O, r
<1>3. Up(R, i)[i] = R[i] + 1 /\ O[i] < Up(R, i)[i] /\ Up(R, i)[i] # 0
  BY <1>2, UpDown
<1>4. Counted(s, Up(R, i), Up(O, i)) /\ Untouched(r, s)
  BY <1>1, <1>3, OpenIncStep
<1> HIDE DEF s
<1>5. /\ Good(s) /\ Loaded(s, i) /\ DOMAIN s = KFields /\ Fit(s)
      /\ s.halt = "none" /\ s.ret = "ok" /\ s.starved = k.starved
  BY <1>1, <1>3, <1>4, LoadedFits DEF Counted, CountedAt, Good, Sound, Untouched
<1>6. Same(s, t) /\ t.ret = s.ret /\ Sound(t) /\ Openly(k, t.halt)
  <2> DEFINE u == Truncfile(s, i, 0)
             v == PanicIf(s, TRUE, "no_op")
             Well(y) == Same(s, y) /\ y.ret = s.ret /\ Sound(y) /\ Openly(k, y.halt)
  <2>1. Well(s)
    BY <1>5, SameSelf DEF Sound, Openly, Stops
  <2>2. ASSUME i \in Files PROVE Well(u)
    <3>1. Same(s, u) /\ u.ret = s.ret
      BY <1>5, TruncfileSame
    <3>2. Trunced(s, u, i, 0)
      BY <1>5, <2>2, TruncStep
    <3> HIDE DEF u
    <3>3. \/ u.halt = "range"
          \/ u.halt = "blocks" /\ s.starved
          \/ u.halt = "none" /\ Fit(u)
      BY <3>2 DEF Trunced
    <3> QED BY <1>5, <3>1, <3>3 DEF Sound, Openly, Stops
  <2>3. Well(v)
    <3>1. Same(s, v) /\ v.ret = s.ret /\ Sound(v)
      BY <1>5, PanicPlain, PlainSame, PanicSound
    <3>2. v.halt = "no_op"
      BY <1>5 DEF PanicIf, KFields
    <3> QED BY <3>1, <3>2 DEF Openly, Stops
  <2>4. t = s \/ (i \in Files /\ t = u) \/ t = v
    BY DEF VfsTruncate, s, r
  <2> HIDE DEF Well, u, v
  <2>5. Well(t)
    BY <2>1, <2>2, <2>3, <2>4
  <2> QED BY <2>5 DEF Well
<1>7. Counted(t, Up(R, i), Up(O, i))
  BY <1>4, <1>6, SameCounted DEF Counted
<1>8. /\ t.files = k.files /\ t.leaked = k.leaked /\ t.ret = "ok"
      /\ t.halt = "none" => k.halt = "none"
  BY <1>1, <1>4, <1>6 DEF Same, Untouched
<1> QED BY <1>6, <1>7, <1>8 DEF OpenEnds, Admitted, R, O

\* A panic leaves the counts alone.
LEMMA PanicSame ==
  ASSUME NEW k, Good(k), Sound(k), NEW c, NEW why, why # "none"
  PROVE  LET u == PanicIf(k, c, why)
         IN  Same(k, u) /\ Good(u) /\ Sound(u) /\ u.ret = k.ret /\ u.halt \in {k.halt, why}
<1> DEFINE u == PanicIf(k, c, why)
<1>1. Plain(k, u) /\ u.ret = k.ret
  BY PanicPlain DEF Good
<1>2. u = k \/ u.halt = why
  BY DEF PanicIf, Good, KFields
<1> HIDE DEF u
<1>3. Same(k, u)
  BY <1>1, PlainSame
<1> QED BY <1>1, <1>2, <1>3 DEF Same, Sound, u

\* So does a lookup that finds nothing.
LEMMA LookupFailsSame ==
  ASSUME NEW k, WholeNow(k), k.halt = "none", NEW i
  PROVE  LET u == LookupFails(k, i)
         IN  Same(k, u) /\ Good(u) /\ Sound(u) /\ u.ret = "no_ent" /\ u.halt \in {"none", "name"}
<1> DEFINE r == [k EXCEPT !.ret = "no_ent"]
           u == PanicIf(r, i = TooLong, "name")
<1>1. Same(k, r) /\ Good(r) /\ Sound(r) /\ r.ret = "no_ent" /\ r.halt = "none"
  BY WholeGood, RetSame DEF Same
<1> HIDE DEF r
<1>2. Same(r, u) /\ Good(u) /\ Sound(u) /\ u.ret = r.ret /\ u.halt \in {r.halt, "name"}
  BY <1>1, PanicSame
<1> HIDE DEF u
<1>3. Same(k, u) /\ Good(u) /\ Sound(u) /\ u.ret = "no_ent" /\ u.halt \in {"none", "name"}
  BY <1>1, <1>2, SameTwice
<1> QED BY <1>3 DEF LookupFails, u, r

\* Every way through vfs_open is one of these.
LEMMA VfsOpenEnds ==
  ASSUME NEW k, WholeNow(k), k.ret = "ok", k.halt = "none", NEW i \in Inodes \cup Nowhere, NEW fl
  PROVE  OpenEnds(k, VfsOpen(k, i, fl), i)
<1> DEFINE t == VfsOpen(k, i, fl)
           s == VfsLookup(k, i)
<1>1. Good(k) /\ DOMAIN k = KFields /\ Sound(k)
  BY WholeGood
<1>2. ASSUME NEW u, Same(k, u), u.ret # "ok", Sound(u), u.halt \in Stops PROVE OpenEnds(k, u, i)
  BY <1>2, SameWhole DEF OpenEnds, Same, Openly
<1>3. OpenEnds(k, [k EXCEPT !.ret = "inval"], i)
  BY <1>1, <1>2, RetSame, Zenon DEF Stops
<1>4. OpenEnds(k, PanicIf(LookupFails(k, i), fl.create, "no_op"), i)
  <2> DEFINE r == LookupFails(k, i)
             u == PanicIf(r, fl.create, "no_op")
  <2>1. Same(k, r) /\ Good(r) /\ Sound(r) /\ r.ret = "no_ent" /\ r.halt \in {"none", "name"}
    BY LookupFailsSame
  <2> HIDE DEF r
  <2>2. Same(r, u) /\ Sound(u) /\ u.ret = r.ret /\ u.halt \in {r.halt, "no_op"}
    BY <2>1, PanicSame
  <2> HIDE DEF u
  <2>3. OpenEnds(k, u, i)
    BY <1>2, <2>1, <2>2, SameTwice DEF Stops
  <2> QED BY <2>3 DEF u, r
<1> HIDE DEF t
<1>5. CASE fl.trunc /\ ~fl.write
  BY <1>3, <1>5 DEF VfsOpen, t
<1>6. CASE ~(fl.trunc /\ ~fl.write) /\ i \in Nowhere
  BY <1>4, <1>6 DEF VfsOpen, t
<1>7. CASE ~(fl.trunc /\ ~fl.write) /\ i \notin Nowhere
  <2>1. i \in Inodes
    BY <1>7
  <2>2. \/ t = [s EXCEPT !.leaked[i] = @ + 1, !.ret = "exists"]
        \/ t = Refuse(s, i)
        \/ t = OpenInc(s, i)
        \/ t = VfsTruncate(OpenInc(s, i), i)
    <3> HIDE DEF s
    <3> QED BY <1>7 DEF VfsOpen, t, s
  <2> QED BY <2>1, <2>2, LoseEnds, RefuseEnds, AdmitEnds, Zenon DEF t
<1> QED BY <1>5, <1>6, <1>7

\* What file_open may come to.
FileEnds(k, t, p) ==
  /\ t.halt = "none" => k.halt = "none"
  /\ Openly(k, t.halt)
  /\ \/ t.halt # "none"
     \/ t.ret # "ok" /\ WholeNow(t) /\ t.files = k.files
     \/ t.ret = "ok" /\ WholeNow(t) /\ LowestFree(k, p) \in Fds /\ IsOpen(t.files, p, LowestFree(k, p))

\* file_open gives the inode that was opened to the descriptor, or fails with nothing left.
LEMMA FileOpenEnds ==
  ASSUME NEW k, WholeNow(k), k.ret = "ok", k.halt = "none", NEW p \in Procs,
         k.files[p] # NoFiles, NEW i \in Inodes \cup Nowhere, NEW fl
  PROVE  FileEnds(k, FileOpen(k, p, i, fl), p)
<1> DEFINE f == LowestFree(k, p)
           s == VfsOpen(k, i, fl)
           y == [node |-> i, read |-> fl.read, write |-> fl.write,
                 pos |-> IF fl.append THEN Din(s, i).size ELSE 0]
           T == k.files
           E == Lost(k.leaked)
           t == FileOpen(k, p, i, fl)
<1>1. OpenEnds(k, s, i) /\ Good(k) /\ Sound(k)
  BY VfsOpenEnds, WholeGood
<1>2. Tables(T) /\ E \in [Inodes -> Int] /\ k.leaked \in [Inodes -> Nat]
  BY DEF WholeNow, Whole
<1> HIDE DEF t
<1>3. CASE Open(k, p) = Fds
  <2> DEFINE r == [k EXCEPT !.ret = "max_open"]
  <2>1. t = r
    BY <1>3 DEF FileOpen, t
  <2>2. Same(k, r) /\ r.ret = "max_open" /\ Sound(r) /\ r.halt = "none"
    BY <1>1, RetSame
  <2> HIDE DEF r
  <2> QED BY <2>1, <2>2, SameWhole DEF FileEnds, Openly, Stops, Same, t
<1>4. CASE Open(k, p) # Fds
  <2>1. f \in Fds /\ T[p].fd[f] = NoFd
    <3>1. Fds \ Open(k, p) \subseteq Nat /\ Fds \ Open(k, p) # {}
      BY <1>4 DEF Fds, Open
    <3>2. f \in Fds \ Open(k, p)
      BY <3>1, MinOf DEF LowestFree
    <3> QED BY <3>2 DEF Open
  <2>2. t = IF Failed(s) THEN s ELSE [s EXCEPT !.files[p].fd[f] = y]
    <3> HIDE DEF s, f
    <3> QED BY <1>4 DEF FileOpen, t, s, f
  <2>3. CASE Failed(s)
    <3> HIDE DEF s
    <3> QED BY <1>1, <2>2, <2>3 DEF OpenEnds, FileEnds, Failed, t
  <2>4. CASE ~Failed(s)
    <3> HIDE DEF s, E, f
    <3>1. s.ret = "ok" /\ Admitted(k, s, i) /\ s.halt = "none" /\ k.halt = "none" /\ s.files = T
      BY <1>1, <2>4 DEF OpenEnds, Failed
    <3>2. /\ i \in Inodes /\ s.leaked = k.leaked
          /\ Counted(s, Up(Refs(T, E), i), Up(Opens(T), i))
      BY <3>1 DEF Admitted, E
    <3>3. FileOK(y) /\ y.node = i
      <4>1. Up(Refs(T, E), i)[i] # 0
        <5>1. Opens(T) \in [Inodes -> Nat] /\ Up(Opens(T), i)[i] = Opens(T)[i] + 1
          BY <1>2, <3>2, CountsTyped, UpDown
        <5>2. /\ Up(Opens(T), i)[i] <= Up(Refs(T, E), i)[i]
              /\ Up(Refs(T, E), i) \in [Inodes -> Nat]
          BY <3>2 DEF Counted, CountedAt
        <5>3. Opens(T)[i] \in Nat /\ Up(Refs(T, E), i)[i] \in Nat
          BY <3>2, <5>1, <5>2
        <5> HIDE DEF T
        <5> QED BY <5>1, <5>2, <5>3
      <4>2. DinOK(s.inode[i].din)
        BY <3>2, <4>1, LoadedFits
      <4>3. Din(s, i).size \in Nat
        BY <4>2 DEF DinOK, Din
      <4> QED BY <3>2, <4>3 DEF FileOK
    <3> DEFINE U == WithFd(T, p, f, y)
    <3>4. t = SetFiles(s, U)
      <4>1. t = [s EXCEPT !.files[p].fd[f] = y]
        BY <2>2, <2>4
      <4> HIDE DEF y
      <4> QED BY <3>1, <4>1 DEF SetFiles, WithFd
    <3> HIDE DEF y
    <3>5. /\ FdSet(T, U, p, f, y)
          /\ Opens(U) = Up(Opens(T), i) /\ Refs(U, E) = Up(Refs(T, E), i)
      <4>1. T[p] # NoFiles
        OBVIOUS
      <4> HIDE DEF T
      <4> QED BY <1>2, <2>1, <3>3, <4>1, OpenFd
    <3> HIDE DEF U, T
    <3>6. /\ Counted(t, Refs(U, E), Opens(U)) /\ t.files = U
          /\ t.leaked = s.leaked /\ t.halt = s.halt /\ t.ret = s.ret
      BY <3>2, <3>4, <3>5, WithFiles
    <3>7. WholeNow(t)
      BY <1>2, <3>2, <3>5, <3>6 DEF WholeNow, Whole, FdSet, E
    <3>8. IsOpen(U, p, f)
      BY <3>3, <3>5 DEF FdSet, IsOpen, FileOK, NoFd
    <3> QED BY <2>1, <3>1, <3>6, <3>7, <3>8 DEF FileEnds, Openly, Stops, f, t
  <2> QED BY <2>3, <2>4
<1> QED BY <1>3, <1>4
-----------------------------------------------------------------------------
(* What is done with an open descriptor.                                   *)

\* Descriptor f of p stays open.
Keeps(k, t, p, f) ==
  WholeNow(t) /\ IsOpen(t.files, p, f) /\ (t.halt = "none" => k.halt = "none")

\* Two such steps are one.
LEMMA KeepsTwice ==
  ASSUME NEW k, NEW s, NEW t, NEW p, NEW f, Keeps(k, s, p, f), Keeps(s, t, p, f)
  PROVE  Keeps(k, t, p, f)
  BY DEF Keeps

\* What leaves the counts alone leaves the descriptors open.
LEMMA SameKeeps ==
  ASSUME NEW k, WholeNow(k), NEW p, NEW f, IsOpen(k.files, p, f), NEW t, Same(k, t), Sound(t)
  PROVE  Keeps(k, t, p, f)
  BY SameWhole DEF Keeps, Same

MovePos(k, p, f, pos) == [k EXCEPT !.files[p].fd[f].pos = pos]

\* The position of a descriptor moves.
LEMMA MoveKeeps ==
  ASSUME NEW k, WholeNow(k), NEW p \in Procs, NEW f \in Fds, IsOpen(k.files, p, f), NEW pos \in Nat
  PROVE  /\ Keeps(k, MovePos(k, p, f, pos), p, f) /\ NodesSame(k, MovePos(k, p, f, pos))
         /\ MovePos(k, p, f, pos).ret = k.ret /\ MovePos(k, p, f, pos).halt = k.halt
         /\ MovePos(k, p, f, pos).starved = k.starved
         /\ MovePos(k, p, f, pos).files[p].fd[f].node = k.files[p].fd[f].node
         /\ MovePos(k, p, f, pos).files[p].fd[f].pos = pos
<1> DEFINE T == k.files
           E == Lost(k.leaked)
           y == [T[p].fd[f] EXCEPT !.pos = pos]
           U == WithFd(T, p, f, y)
           t == MovePos(k, p, f, pos)
<1>1. Tables(T) /\ E \in [Inodes -> Int] /\ k.leaked \in [Inodes -> Nat]
      /\ Counted(k, Refs(T, E), Opens(T)) /\ IsOpen(T, p, f)
  BY DEF WholeNow, Whole
<1>2. FileOK(y) /\ y.node = T[p].fd[f].node /\ y.pos = pos
  <2>1. FileOK(T[p].fd[f])
    BY <1>1, OpenCounted
  <2> HIDE DEF T
  <2> QED BY <2>1 DEF FileOK
<1>3. t = SetFiles(k, U)
  BY DEF MovePos, SetFiles, WithFd
<1> HIDE DEF t, E, y, T, U
<1>4. FdSet(T, U, p, f, y) /\ Opens(U) = Opens(T) /\ Refs(U, E) = Refs(T, E)
  BY <1>1, <1>2, MoveFd DEF U
<1>5. /\ Counted(t, Refs(U, E), Opens(U)) /\ t.files = U
      /\ t.leaked = k.leaked /\ t.halt = k.halt /\ t.ret = k.ret /\ t.starved = k.starved
      /\ NodesSame(k, t)
  BY <1>1, <1>3, <1>4, WithFiles
<1>6. WholeNow(t)
  BY <1>1, <1>4, <1>5 DEF WholeNow, Whole, FdSet, E
<1>7. IsOpen(U, p, f)
  BY <1>2, <1>4 DEF FdSet, IsOpen, FileOK, NoFd
<1>8. U[p].fd[f].node = T[p].fd[f].node /\ U[p].fd[f].pos = pos
  BY <1>2, <1>4 DEF FdSet
<1> QED BY <1>5, <1>6, <1>7, <1>8 DEF Keeps, t, T

\* The position of a descriptor is behind the end of its file.
Behind(k, p, f) ==
  LET file == k.files[p].fd[f] IN file.node \in Files /\ file.pos > Cur(k, file.node).size

\* The inode of an open descriptor is in memory.
LEMMA OpenLoaded ==
  ASSUME NEW k, WholeNow(k), NEW p \in Procs, NEW f \in Fds, IsOpen(k.files, p, f)
  PROVE  /\ k.files[p].fd[f].node \in Inodes /\ Loaded(k, k.files[p].fd[f].node)
         /\ k.files[p].fd[f].pos \in Nat
<1> DEFINE T == k.files
           R == Refs(T, Lost(k.leaked))
           n == T[p].fd[f].node
<1>1. Tables(T) /\ Counted(k, R, Opens(T)) /\ IsOpen(T, p, f)
  BY DEF WholeNow, Whole
<1>2. n \in Inodes /\ Opens(T)[n] # 0 /\ FileOK(T[p].fd[f])
  BY <1>1, OpenCounted
<1> HIDE DEF R, n
<1>3. R[n] # 0
  <2>1. R[n] \in Nat /\ Opens(T)[n] \in Nat /\ Opens(T)[n] <= R[n]
    BY <1>1, <1>2 DEF Counted, CountedAt
  <2> HIDE DEF T
  <2> QED BY <1>2, <2>1
<1>4. Loaded(k, n)
  BY <1>1, <1>2, <1>3, LoadedFits
<1> QED BY <1>2, <1>4 DEF FileOK, n

\* file_read and file_write, wherever they stop.
LEMMA FileIoKeeps ==
  ASSUME NEW k, WholeNow(k), k.halt = "none", k.ret = "ok", NEW p \in Procs, NEW f \in Fds,
         IsOpen(k.files, p, f), NEW n \in Nat, NEW x
  PROVE  /\ Keeps(k, FileIo(k, p, f, n, x), p, f)
         /\ FileIo(k, p, f, n, x).halt \in Stops
            \/ (FileIo(k, p, f, n, x).halt = "index" /\ Behind(k, p, f))
<1> DEFINE file == k.files[p].fd[f]
           s == Io(k, file.node, file.pos, n, x)
           r == PanicIf(k, TRUE, "no_op")
           t == FileIo(k, p, f, n, x)
           u == MovePos(s, p, f, s.files[p].fd[f].pos + s.len)
           Well(v) == Keeps(k, v, p, f) /\ (v.halt \in Stops \/ (v.halt = "index" /\ Behind(k, p, f)))
<1>1. Good(k) /\ DOMAIN k = KFields /\ file.node \in Inodes /\ Loaded(k, file.node) /\ file.pos \in Nat
      /\ Sound(k) /\ Fit(k)
  BY WholeGood, OpenLoaded DEF Sound
<1>2. ASSUME file.node \in Files PROVE Well(u)
  <2>1. Same(k, s)
    BY <1>1, IoSame
  <2>2. /\ Sound(s)
        /\ s.halt \in Stops \/ (s.halt = "index" /\ file.pos > Cur(k, file.node).size)
    <3>1. \/ s.halt = "range"
          \/ s.halt = "index" /\ file.pos > Cur(k, file.node).size
          \/ s.halt = "none" /\ Fit(s)
      BY <1>1, <1>2, IoStep
    <3> HIDE DEF s, file
    <3> QED BY <3>1 DEF Sound, Stops
  <2>3. Keeps(k, s, p, f) /\ Good(s)
    BY <2>1, <2>2, SameKeeps, Zenon DEF Same
  <2> HIDE DEF s
  <2>4. s.files[p].fd[f].pos \in Nat
    BY <2>3, OpenLoaded DEF Keeps
  <2>5. s.len \in Nat
    BY <2>3 DEF Good
  <2>6. s.files[p].fd[f].pos + s.len \in Nat
    BY <2>4, <2>5
  <2>7. Keeps(s, u, p, f) /\ u.halt = s.halt
    BY <2>3, <2>6, MoveKeeps DEF Keeps
  <2> HIDE DEF u
  <2>8. Keeps(k, u, p, f)
    BY <2>3, <2>7, KeepsTwice
  <2> QED BY <1>2, <2>2, <2>7, <2>8 DEF Behind
<1>3. Well(k)
  BY <1>1 DEF Keeps, Stops
<1>4. Well(r)
  <2>1. Keeps(k, r, p, f)
    BY <1>1, PanicPlain, PlainSame, PanicSound, SameKeeps
  <2>2. r.halt = "no_op"
    BY <1>1 DEF PanicIf, KFields
  <2> HIDE DEF r
  <2> QED BY <2>1, <2>2 DEF Stops
<1> HIDE DEF r, t
<1>5. (file.node \in Files /\ t = u) \/ t = r \/ t = k
  <2> DEFINE Move(v) == [v EXCEPT !.files[p].fd[f].pos = @ + v.len]
  <2>1. t = CASE file.node \in Files -> Move(s) [] file.node \in Dirs -> r [] OTHER -> k
    BY DEF FileIo, t, r, s
  <2>2. Move(s) = u
    BY DEF MovePos
  <2> HIDE DEF Move, file, u
  <2>3. ~(file.node \in Files /\ file.node \in Dirs)
    BY FilesAssumption
  <2> QED BY <2>1, <2>2, <2>3
<1> HIDE DEF Well, u, file
<1>6. Well(t)
  BY <1>2, <1>3, <1>4, <1>5
<1> QED BY <1>6 DEF Well, t

\* file_seek: where it leaves a descriptor there is something to read, or the end.
LEMMA FileSeekKeeps ==
  ASSUME NEW k, WholeNow(k), k.halt = "none", k.ret = "ok", NEW p \in Procs, NEW f \in Fds,
         IsOpen(k.files, p, f), NEW pos \in Nat
  PROVE  /\ Keeps(k, FileSeek(k, p, f, pos), p, f)
         /\ FileSeek(k, p, f, pos).halt \in Stops
         /\ ~Failed(FileSeek(k, p, f, pos)) => ~Behind(FileSeek(k, p, f, pos), p, f)
<1> DEFINE i == k.files[p].fd[f].node
           s == Tryseek(k, i, pos)
           r == PanicIf(k, TRUE, "no_op")
           v == [k EXCEPT !.ret = "inval"]
           u == MovePos(s, p, f, pos)
           t == FileSeek(k, p, f, pos)
           Well(y) == Keeps(k, y, p, f) /\ y.halt \in Stops /\ (~Failed(y) => ~Behind(y, p, f))
<1>1. Good(k) /\ DOMAIN k = KFields /\ i \in Inodes /\ Loaded(k, i) /\ Sound(k) /\ Fit(k)
  BY WholeGood, OpenLoaded DEF Sound
<1>2. ASSUME i \in Files PROVE /\ Failed(s) => Well(s)
                               /\ ~Failed(s) => Well(u)
  <2>1. Same(k, s)
    BY <1>1, TryseekSame
  <2>2. \/ s.halt = "range"
        \/ s.halt = "none" /\ Fit(s) /\ (s.ret = "ok" => pos <= Cur(s, i).size)
    BY <1>1, <1>2, TryseekStep
  <2> HIDE DEF s
  <2>3. Sound(s) /\ s.halt \in Stops /\ (~Failed(s) => pos <= Cur(s, i).size)
    BY <2>2 DEF Sound, Stops, Failed
  <2>4. Keeps(k, s, p, f) /\ s.files = k.files /\ Good(s) /\ Loaded(s, i)
    BY <1>1, <2>1, <2>3, SameKeeps DEF Same, Loaded, Alike
  <2>5. /\ Keeps(s, u, p, f) /\ u.halt = s.halt /\ NodesSame(s, u)
        /\ u.files[p].fd[f].node = i /\ u.files[p].fd[f].pos = pos /\ u.ret = s.ret
    BY <2>4, MoveKeeps DEF Keeps
  <2> HIDE DEF u, i
  <2>6. Keeps(k, u, p, f)
    BY <2>4, <2>5, KeepsTwice
  <2>7. ~Failed(s) => ~Behind(u, p, f)
    <3>1. Cur(u, i) = Cur(s, i)
      BY <2>5, CurSame
    <3>2. Cur(s, i).size \in Nat
      BY <1>2, <2>4, FileInMemory DEF InMemory, DinOK
    <3>3. Behind(u, p, f) => pos > Cur(s, i).size
      BY <2>5, <3>1 DEF Behind
    <3> QED BY <2>3, <3>2, <3>3
  <2>8. Failed(u) <=> Failed(s)
    BY <2>5 DEF Failed
  <2> QED BY <2>3, <2>4, <2>5, <2>6, <2>7, <2>8
<1>3. Well(r)
  <2>1. Keeps(k, r, p, f)
    BY <1>1, PanicPlain, PlainSame, PanicSound, SameKeeps
  <2>2. r.halt = "no_op"
    BY <1>1 DEF PanicIf, KFields
  <2> HIDE DEF r
  <2> QED BY <2>1, <2>2 DEF Stops, Failed
<1>4. Well(v)
  <2>1. Same(k, v) /\ v.ret = "inval" /\ v.halt = k.halt /\ Sound(v)
    BY <1>1, RetSame
  <2> HIDE DEF v
  <2> QED BY <2>1, SameKeeps DEF Stops, Failed
<1> HIDE DEF r, t, v
<1>5. (i \in Files /\ ~Failed(s) /\ t = u) \/ (i \in Files /\ Failed(s) /\ t = s) \/ t = r \/ t = v
  <2> DEFINE Move(y) == IF Failed(y) THEN y ELSE [y EXCEPT !.files[p].fd[f].pos = pos]
  <2>1. t = CASE i \in Files -> Move(s) [] i \in Dirs -> r [] OTHER -> v
    BY DEF FileSeek, t, r, s, v
  <2>2. Move(s) = IF Failed(s) THEN s ELSE u
    BY DEF MovePos
  <2> HIDE DEF Move, i, u, s
  <2>3. ~(i \in Files /\ i \in Dirs)
    BY FilesAssumption
  <2> QED BY <2>1, <2>2, <2>3
<1> HIDE DEF Well, s, u, i
<1>6. Well(t)
  BY <1>2, <1>3, <1>4, <1>5
<1> QED BY <1>6 DEF Well, t

-----------------------------------------------------------------------------
(* Change of the working directory.                                        *)

\* What changes neither leaked references nor whether the kernel runs.
Calm(k, t) == t.leaked = k.leaked /\ t.halt = k.halt /\ t.starved = k.starved

\* vfs_set_curdir passes the reference from one directory to the other.
LEMMA SetCurdirKeeps ==
  ASSUME NEW k, NEW E, Whole(k, E), \A j \in Inodes : E[j] >= 0, NEW p \in Procs, k.files[p] # NoFiles,
         NEW i \in Inodes, E[i] >= 1
  PROVE  Whole(SetCurdir(k, p, i), E) /\ Calm(k, SetCurdir(k, p, i))
<1> DEFINE T == k.files
           old == T[p].pwd
           R == Refs(T, E)
           O == Opens(T)
           U == WithPwd(T, p, i)
           r == RefInc(k, i)
           s == SetFiles(r, U)
           t == RefDec(s, old)
           u == [k EXCEPT !.ret = "not_dir"]
<1>1. /\ Tables(T) /\ E \in [Inodes -> Int] /\ Counted(k, R, O) /\ T[p] # NoFiles /\ Good(k) /\ Sound(k)
      /\ O \in [Inodes -> Nat] /\ R \in [Inodes -> Nat]
  BY DEF Whole, Counted, CountedAt
<1>2. Whole(u, E) /\ Calm(k, u)
  <2>1. Same(k, u) /\ u.halt = k.halt /\ u.starved = k.starved /\ Sound(u)
    BY <1>1, RetSame
  <2> HIDE DEF u
  <2>2. Counted(u, R, O)
    BY <1>1, <2>1, SameCounted DEF Counted
  <2> QED BY <1>1, <2>1, <2>2 DEF Whole, Calm, Same
<1>3. Whole(k, E) /\ Calm(k, k)
  BY DEF Calm
<1>4. ASSUME i \in Dirs, i # old
      PROVE  Whole(t, E) /\ Calm(k, t)
  <2>1. old \in Inodes
    <3>1. Table(T[p])
      BY <1>1 DEF Tables
    <3> HIDE DEF T
    <3> QED BY <1>1, <3>1 DEF Table, Inodes
  <2>2. R[i] # 0
    <3>1. R[i] >= O[i] + E[i] /\ O[i] \in Nat /\ R[i] \in Nat /\ E[i] \in Int
      BY <1>1, AtLeast
    <3> HIDE DEF R, O
    <3> QED BY <3>1
  <2>3. Counted(r, Up(R, i), O) /\ Untouched(k, r)
    BY <1>1, <2>2, RefIncStep
  <2>4. Tables(U) /\ Opens(U) = O /\ Refs(U, E) = Down(Up(R, i), old)
    <3>1. i \in Dirs /\ i # T[p].pwd
      BY <1>4
    <3> HIDE DEF T
    <3> QED BY <1>1, <3>1, EnterPwd
  <2>5. O[old] < Up(R, i)[old]
    <3>1. R[old] > O[old] + E[old]
      BY <1>1, <2>1, AtLeast
    <3>2. Up(R, i)[old] = R[old]
      BY <1>1, <1>4, <2>1, UpDown
    <3>3. O[old] \in Nat /\ R[old] \in Nat /\ E[old] \in Int /\ E[old] >= 0
      BY <1>1, <2>1
    <3> HIDE DEF R, O, old
    <3> QED BY <3>1, <3>2, <3>3
  <2> HIDE DEF R, O, U, r
  <2>6. /\ Counted(s, Up(R, i), O) /\ s.files = U
        /\ s.leaked = r.leaked /\ s.halt = r.halt /\ s.starved = r.starved
    BY <2>3, WithFiles
  <2> HIDE DEF s, old
  <2>7. Counted(t, Down(Up(R, i), old), O) /\ Untouched(s, t)
    BY <2>1, <2>5, <2>6, RefDecStep
  <2> HIDE DEF t
  <2>8. t.files = U /\ Counted(t, Refs(U, E), Opens(U))
    BY <2>4, <2>6, <2>7 DEF Untouched
  <2> QED BY <1>1, <2>3, <2>4, <2>6, <2>7, <2>8 DEF Whole, Calm, Untouched
<1> DEFINE v == SetCurdir(k, p, i)
<1>5. t = RefDec([r EXCEPT !.files[p].pwd = i], old)
  <2>1. r.files = T /\ DOMAIN r = KFields
    BY <1>1 DEF RefInc, Good, KFields
  <2> HIDE DEF r
  <2>2. s = [r EXCEPT !.files[p].pwd = i]
    BY <2>1 DEF SetFiles, WithPwd
  <2> HIDE DEF s
  <2> QED BY <2>2
<1> HIDE DEF t
<1>6. v = CASE i \notin Dirs -> u [] i \in Dirs /\ i = old -> k [] OTHER -> t
  BY <1>5 DEF SetCurdir
<1> HIDE DEF v, u, old
<1>7. (v = t /\ i \in Dirs /\ i # old) \/ v = u \/ v = k
  BY <1>6
<1> QED BY <1>2, <1>3, <1>4, <1>7 DEF v

-----------------------------------------------------------------------------
(* The calls.                                                              *)

\* The excuses for a panic: those of an open, or a descriptor behind the end of its file.
Excuse(k, h) ==
  \/ Openly(k, h)
  \/ h = "index" /\ \E p \in Procs, f \in Fds : IsOpen(k.files, p, f) /\ Behind(k, p, f)

\* What a call comes to, unless it stops the kernel, for which there is an excuse.
Ends(k, t) == (t.halt = "none" => WholeNow(t)) /\ Excuse(k, t.halt)

\* A call that succeeds needs no excuse.
LEMMA WholeEnds ==
  ASSUME NEW k, NEW t, WholeNow(t), t.halt = "none"
  PROVE  Ends(k, t)
  BY DEF Ends, Excuse, Openly, Stops

\* vfs_chdir keeps the counts right, whatever the path leads to.
LEMMA VfsChdirEnds ==
  ASSUME NEW k, WholeNow(k), k.halt = "none", NEW p \in Procs, k.files[p] # NoFiles,
         NEW i \in Inodes \cup Nowhere
  PROVE  Ends(k, VfsChdir(k, p, i))
<1>1. CASE i \in Nowhere
  <2> DEFINE u == LookupFails(k, i)
  <2>1. Same(k, u) /\ Sound(u) /\ u.halt \in {"none", "name"}
    BY LookupFailsSame
  <2>2. VfsChdir(k, p, i) = u
    BY <1>1 DEF VfsChdir
  <2> HIDE DEF u
  <2> QED BY <2>1, <2>2, SameWhole DEF Ends, Excuse, Openly, Stops
<1>2. CASE i \notin Nowhere
  <2> DEFINE T == k.files
             E == Lost(k.leaked)
             F == Up(E, i)
             s == VfsLookup(k, i)
             u == SetCurdir(s, p, i)
             t == RefDec(u, i)
             V == u.files
  <2>0. i \in Inodes
    BY <1>2
  <2>1. k.leaked \in [Inodes -> Nat] /\ Tables(T) /\ T[p] # NoFiles
    BY DEF WholeNow, Whole
  <2>2. Counted(s, Up(Refs(T, E), i), Opens(T)) /\ Untouched(k, s)
    BY <2>0, FoundEnds
  <2>3. E \in [Inodes -> Int] /\ \A j \in Inodes : E[j] >= 0
    BY <2>1, LostTyped
  <2> HIDE DEF s, E, T
  <2>4. F \in [Inodes -> Int] /\ F[i] = E[i] + 1 /\ \A j \in Inodes \ {i} : F[j] = E[j]
    BY <2>0, <2>3, DownUp DEF Up
  <2>5. (\A j \in Inodes : F[j] >= 0) /\ F[i] >= 1
    <3>1. \A j \in Inodes : E[j] \in Int /\ E[j] >= 0
      BY <2>3
    <3> HIDE DEF F
    <3> QED BY <2>0, <2>4, <3>1
  <2>6. Whole(s, F)
    <3>1. Refs(T, F) = Up(Refs(T, E), i)
      BY <2>0, <2>3, RefsUp
    <3> HIDE DEF F
    <3> QED BY <2>1, <2>2, <2>4, <3>1 DEF Whole, Untouched, T
  <2>7. s.files[p] # NoFiles
    BY <2>1, <2>2 DEF Untouched, T
  <2> HIDE DEF F
  <2>8. Whole(u, F) /\ Calm(s, u)
    BY <2>0, <2>5, <2>6, <2>7, SetCurdirKeeps
  <2> HIDE DEF u
  <2>9. Counted(u, Up(Refs(V, E), i), Opens(V)) /\ Tables(V)
    <3>1. Refs(V, F) = Up(Refs(V, E), i)
      BY <2>0, <2>3, RefsUp DEF F
    <3> QED BY <2>8, <3>1 DEF Whole
  <2>10. Counted(t, Refs(V, E), Opens(V)) /\ Untouched(u, t)
    <3> DEFINE R == Refs(V, E)
               O == Opens(V)
    <3>1. R \in [Inodes -> Int] /\ O \in [Inodes -> Nat]
      BY <2>3, CountsTyped
    <3>2. R[i] >= O[i] + E[i]
      BY <2>0, <2>3, AtLeast
    <3>3. R[i] \in Int /\ O[i] \in Nat /\ E[i] \in Int /\ E[i] >= 0
      BY <2>0, <2>3, <3>1
    <3>4. Counted(u, Up(R, i), O)
      BY <2>9
    <3> HIDE DEF R, O
    <3>5. Down(Up(R, i), i) = R /\ Up(R, i)[i] = R[i] + 1
      BY <2>0, <3>1, DownUp DEF Up
    <3>6. O[i] < Up(R, i)[i]
      BY <3>2, <3>3, <3>5
    <3>7. Counted(t, R, O) /\ Untouched(u, t)
      BY <2>0, <3>4, <3>5, <3>6, RefDecStep
    <3> QED BY <3>7 DEF R, O
  <2>11. VfsChdir(k, p, i) = t
    BY <1>2 DEF VfsChdir, u, s
  <2> HIDE DEF t
  <2>12. t.files = V /\ t.leaked = k.leaked /\ t.halt = k.halt /\ t.starved = k.starved
    BY <2>2, <2>8, <2>10 DEF Untouched, Calm
  <2>13. WholeNow(t)
    BY <2>1, <2>3, <2>9, <2>10, <2>12 DEF WholeNow, Whole, E
  <2> QED BY <2>11, <2>12, <2>13, WholeEnds
<1> QED BY <1>1, <1>2

\* do_exit gives everything back.
LEMMA DestroyEnds ==
  ASSUME NEW k, WholeNow(k), NEW p \in Procs, k.files[p] # NoFiles
  PROVE  WholeNow(FilesDestroy(k, p)) /\ FilesDestroy(k, p).halt = k.halt
<1> DEFINE E == Lost(k.leaked)
<1>1. k.leaked \in [Inodes -> Nat] /\ Whole(k, E) /\ Table(k.files[p])
  BY DEF WholeNow, Whole, Tables
<1>2. k.files[p].pwd \in Inodes
  BY <1>1 DEF Table, Inodes
<1>3. E[k.files[p].pwd] >= 0
  BY <1>1, <1>2, LostTyped
<1> HIDE DEF E
<1>4. Whole(FilesDestroy(k, p), E) /\ Rest(k, FilesDestroy(k, p))
  BY <1>1, <1>3, FilesDestroyKeeps
<1> QED BY <1>1, <1>4 DEF WholeNow, Rest, E

\* do_fork takes a reference for each copy.
LEMMA ForkEnds ==
  ASSUME NEW k, WholeNow(k), NEW to \in Procs, NEW from \in Procs,
         k.files[to] = NoFiles, k.files[from] # NoFiles
  PROVE  WholeNow(DupFiles(k, to, from)) /\ DupFiles(k, to, from).halt = k.halt
<1> DEFINE E == Lost(k.leaked)
<1>1. k.leaked \in [Inodes -> Nat] /\ Whole(k, E) /\ Table(k.files[from])
  BY DEF WholeNow, Whole, Tables
<1>2. k.files[from].pwd \in Inodes
  BY <1>1 DEF Table, Inodes
<1>3. E[k.files[from].pwd] >= 0
  BY <1>1, <1>2, LostTyped
<1> HIDE DEF E
<1>4. Whole(DupFiles(k, to, from), E) /\ Rest(k, DupFiles(k, to, from))
  BY <1>1, <1>3, DupFilesKeeps
<1> QED BY <1>1, <1>4 DEF WholeNow, Rest, E

\* sys_close.
LEMMA CloseEnds ==
  ASSUME NEW k, WholeNow(k), NEW p \in Procs, NEW f \in Fds, IsOpen(k.files, p, f)
  PROVE  WholeNow(FdClose(k, p, f)) /\ FdClose(k, p, f).halt = k.halt
  BY FdCloseKeeps DEF WholeNow, Rest

\* sys_dup.
LEMMA DupEnds ==
  ASSUME NEW k, WholeNow(k), NEW p \in Procs, NEW f \in Fds, IsOpen(k.files, p, f),
         NEW g \in Fds, ~IsOpen(k.files, p, g)
  PROVE  WholeNow(FdDup(k, p, g, k.files[p].fd[f])) /\ FdDup(k, p, g, k.files[p].fd[f]).halt = k.halt
<1> DEFINE y == k.files[p].fd[f]
           E == Lost(k.leaked)
<1>1. k.leaked \in [Inodes -> Nat] /\ Whole(k, E) /\ Tables(k.files)
  BY DEF WholeNow, Whole
<1>2. FileOK(y) /\ Opens(k.files)[y.node] # 0
  BY <1>1, OpenCounted
<1>3. k.files[p] # NoFiles /\ k.files[p].fd[g] = NoFd
  BY DEF IsOpen
<1> HIDE DEF y, E
<1>4. Whole(FdDup(k, p, g, y), E) /\ Rest(k, FdDup(k, p, g, y))
  BY <1>1, <1>2, <1>3, FdDupKeeps
<1>5. WholeNow(FdDup(k, p, g, y)) /\ FdDup(k, p, g, y).halt = k.halt
  BY <1>1, <1>4 DEF WholeNow, Rest, E
<1> QED BY <1>5 DEF y

\* sys_fsync.
LEMMA FsyncEnds ==
  ASSUME NEW k, WholeNow(k), k.halt = "none", NEW p \in Procs, NEW f \in Fds, IsOpen(k.files, p, f)
  PROVE  LET i == k.files[p].fd[f].node
         IN  Ends(k, IF i = Device THEN PanicIf(k, TRUE, "no_op") ELSE Fsync(k, i))
<1> DEFINE i == k.files[p].fd[f].node
           r == PanicIf(k, TRUE, "no_op")
           t == Fsync(k, i)
<1>1. Good(k) /\ DOMAIN k = KFields /\ i \in Inodes /\ Loaded(k, i) /\ Sound(k)
  BY WholeGood, OpenLoaded
<1>2. Ends(k, r)
  <2>1. r.halt = "no_op"
    BY <1>1 DEF PanicIf, KFields
  <2> HIDE DEF r
  <2> QED BY <2>1 DEF Ends, Excuse, Openly, Stops
<1>3. Ends(k, t)
  <2>1. Same(k, t) /\ t.halt = k.halt /\ Sound(t)
    BY <1>1, FsyncSame DEF Untouched
  <2> HIDE DEF t, i
  <2> QED BY <2>1, SameWhole, WholeEnds
<1> QED BY <1>2, <1>3

\* load_icode_read, wherever it fails: it seeks first, so that it never reads behind
\* the end.
LEMMA IcodeReadKeeps ==
  ASSUME NEW k, WholeNow(k), NEW p \in Procs, NEW f \in Fds, IsOpen(k.files, p, f), NEW off \in Nat,
         k.halt \in Stops
  PROVE  Keeps(k, IcodeRead(k, p, f, off), p, f) /\ IcodeRead(k, p, f, off).halt \in Stops
<1> DEFINE Read(v) == IF Failed(v) THEN v ELSE FileIo(v, p, f, 1, 0)
           Full(v) == IF ~Failed(v) /\ v.len = 0 THEN [v EXCEPT !.ret = "short"] ELSE v
           s == FileSeek(k, p, f, off)
           r == Read(s)
           t == Full(r)
<1>1. Keeps(k, k, p, f)
  BY DEF Keeps
<1>2. ASSUME ~Failed(k) PROVE Keeps(k, t, p, f) /\ t.halt \in Stops
  <2>1. k.halt = "none" /\ k.ret = "ok"
    BY <1>2 DEF Failed
  <2>2. Keeps(k, s, p, f) /\ s.halt \in Stops /\ (~Failed(s) => ~Behind(s, p, f))
    BY <2>1, FileSeekKeeps
  <2> HIDE DEF s
  <2>3. Keeps(k, r, p, f) /\ r.halt \in Stops
    <3>1. CASE Failed(s)
      BY <2>2, <3>1
    <3>2. CASE ~Failed(s)
      <4>1. s.halt = "none" /\ s.ret = "ok" /\ WholeNow(s) /\ IsOpen(s.files, p, f)
        BY <2>2, <3>2 DEF Failed, Keeps
      <4>2. /\ Keeps(s, FileIo(s, p, f, 1, 0), p, f)
            /\ FileIo(s, p, f, 1, 0).halt \in Stops
               \/ (FileIo(s, p, f, 1, 0).halt = "index" /\ Behind(s, p, f))
        BY <4>1, FileIoKeeps
      <4>3. r = FileIo(s, p, f, 1, 0)
        BY <3>2
      <4> QED BY <2>2, <3>2, <4>2, <4>3, KeepsTwice
    <3> QED BY <3>1, <3>2
  <2> HIDE DEF r, Read
  <2>4. Keeps(k, [r EXCEPT !.ret = "short"], p, f) /\ [r EXCEPT !.ret = "short"].halt = r.halt
    <3>1. WholeNow(r) /\ Good(r) /\ IsOpen(r.files, p, f) /\ Sound(r)
      BY <2>3, WholeGood DEF Keeps
    <3>2. /\ Same(r, [r EXCEPT !.ret = "short"]) /\ Sound([r EXCEPT !.ret = "short"])
          /\ [r EXCEPT !.ret = "short"].halt = r.halt
      BY <3>1, RetSame
    <3> QED BY <2>3, <3>1, <3>2, SameKeeps, KeepsTwice
  <2> QED BY <2>3, <2>4
<1> HIDE DEF t
<1>3. IcodeRead(k, p, f, off) = IF Failed(k) THEN k ELSE t
  BY DEF IcodeRead, t, r, s, Read
<1> QED BY <1>1, <1>2, <1>3

\* The end of a do_execve that failed.
LEMMA LeaveEnds ==
  ASSUME NEW k, NEW t, NEW p \in Procs, t.halt = "none" => WholeNow(t) /\ t.files[p] # NoFiles,
         Excuse(k, t.halt)
  PROVE  Ends(k, IF t.halt = "none" THEN FilesDestroy(t, p) ELSE t)
  BY DestroyEnds DEF Ends

\* What do_execve makes of k, as Exec has it.
ExecRun(k, p, i, off, good) ==
  LET Leave(t)   == IF t.halt = "none" THEN FilesDestroy(t, p) ELSE t
      Load(t, f) == IcodeRead(IcodeRead(t, p, f, 0), p, f, off)
      End(t, f)  == IF Failed(t) \/ ~good THEN Leave(t) ELSE FdClose(t, p, f)
      Go(t, f)   == IF Failed(t) THEN Leave(t) ELSE End(Load(t, f), f)
      Run(t)     == Go(FileOpen(t, p, i, ReadOnly), LowestFree(t, p))
  IN  Run(CloseFrom(k, p, Kept))

\* do_execve keeps the counts right, whichever of its steps fails.
LEMMA ExecEnds ==
  ASSUME NEW k, WholeNow(k), k.halt = "none", k.ret = "ok", NEW p \in Procs, k.files[p] # NoFiles,
         NEW i \in Inodes \cup Nowhere, NEW off \in Nat, NEW good
  PROVE  Ends(k, ExecRun(k, p, i, off, good))
<1> DEFINE Leave(v) == IF v.halt = "none" THEN FilesDestroy(v, p) ELSE v
           r == CloseFrom(k, p, Kept)
           f == LowestFree(r, p)
           s == FileOpen(r, p, i, ReadOnly)
           a == IcodeRead(s, p, f, 0)
           t == IcodeRead(a, p, f, off)
           e == ExecRun(k, p, i, off, good)
<1>1. /\ WholeNow(r) /\ r.ret = "ok" /\ r.halt = "none" /\ r.starved = k.starved
      /\ r.files[p] # NoFiles
  <2>1. Whole(r, Lost(k.leaked)) /\ Rest(k, r) /\ SameTable(k.files, r.files, p, Kept .. NFds - 1)
    <3>1. Kept \in 0 .. NFds
      BY FilesAssumption
    <3> QED BY <3>1, CloseFromKeeps DEF WholeNow
  <2> HIDE DEF r
  <2> QED BY <2>1 DEF WholeNow, Rest, SameTable
<1> HIDE DEF r
<1>2. FileEnds(r, s, p)
  BY <1>1, FileOpenEnds
<1> HIDE DEF f, s
<1>3. e = IF Failed(s) THEN Leave(s)
          ELSE IF Failed(t) \/ ~good THEN Leave(t) ELSE FdClose(t, p, f)
  BY DEF ExecRun, f, s, r
<1>4. CASE Failed(s)
  <2>1. s.halt = "none" => WholeNow(s) /\ s.files[p] # NoFiles
    BY <1>1, <1>2, <1>4 DEF FileEnds, Failed
  <2>2. Excuse(k, s.halt)
    BY <1>1, <1>2 DEF FileEnds, Openly, Excuse
  <2>3. Ends(k, Leave(s))
    BY <2>1, <2>2, LeaveEnds
  <2> QED BY <1>3, <1>4, <2>3
<1>5. CASE ~Failed(s)
  <2>1. WholeNow(s) /\ f \in Fds /\ IsOpen(s.files, p, f) /\ s.halt \in Stops
    BY <1>2, <1>5 DEF FileEnds, Failed, Stops, f
  <2>2. Keeps(s, a, p, f) /\ a.halt \in Stops
    BY <2>1, IcodeReadKeeps
  <2> HIDE DEF a
  <2>3. Keeps(a, t, p, f) /\ t.halt \in Stops
    BY <2>1, <2>2, IcodeReadKeeps DEF Keeps
  <2> HIDE DEF t
  <2>4. WholeNow(t) /\ IsOpen(t.files, p, f) /\ t.files[p] # NoFiles /\ Excuse(k, t.halt)
    BY <2>3 DEF Keeps, IsOpen, Excuse, Openly
  <2>5. ~Failed(t) => Ends(k, FdClose(t, p, f))
    <3>1. ~Failed(t) => t.halt = "none"
      BY DEF Failed
    <3> QED BY <2>1, <2>4, <3>1, CloseEnds, WholeEnds
  <2>6. Ends(k, Leave(t))
    BY <2>4, LeaveEnds
  <2> HIDE DEF Leave
  <2> QED BY <1>3, <1>5, <2>5, <2>6
<1> QED BY <1>4, <1>5
-----------------------------------------------------------------------------
(* The invariant.                                                          *)

\* The inductive invariant.  After the shutdown nothing is in memory.
IInv ==
  /\ load \in Loads /\ Good(Now) /\ Fit(Now) /\ Excuse(Now, halt)
  /\ IF down THEN inode = [i \in Inodes |-> NotLoaded] ELSE WholeNow(Now)

\* The counts depend on inodes, tables and leaked references alone.
LEMMA EqualWhole ==
  ASSUME NEW k, WholeNow(k), NEW t, DOMAIN t = KFields, t.len \in Nat, Sound(t),
         t.inode = k.inode, t.dinode = k.dinode, t.files = k.files, t.leaked = k.leaked
  PROVE  WholeNow(t)
  BY DEF WholeNow, Whole, Counted, CountedAt, Good

\* The copy that a call begins with is the state.
LEMMA NowFields ==
  /\ DOMAIN Now = KFields /\ Now.len = 0 /\ Now.ret = "ok" /\ Now.halt = halt
  /\ Now.inode = inode /\ Now.dinode = dinode /\ Now.files = files /\ Now.leaked = leaked
  /\ Now.freemap = freemap /\ Now.unused = unused /\ Now.superDirty = superDirty
  /\ Now.super = super /\ Now.data = data /\ Now.starved = starved
  BY DEF Now, KFields

\* So is that of the next state.
LEMMA NextFields ==
  /\ DOMAIN Now' = KFields /\ Now'.len = 0 /\ Now'.halt = halt'
  /\ Now'.inode = inode' /\ Now'.dinode = dinode' /\ Now'.files = files' /\ Now'.leaked = leaked'
  /\ Now'.freemap = freemap' /\ Now'.unused = unused' /\ Now'.superDirty = superDirty'
  /\ Now'.super = super' /\ Now'.data = data' /\ Now'.starved = starved'
  BY DEF Now, KFields

\* What a call comes to is the next state; after a panic it is the state before, and
\* the excuse still holds of it.
LEMMA BecomeKeeps ==
  ASSUME halt = "none", WholeNow(Now), Fit(Now), NEW k, Ends(Now, k), Become(k)
  PROVE  WholeNow(Now') /\ Fit(Now') /\ Excuse(Now', halt')
<1>1. CASE k.halt = "none"
  <2>1. /\ inode' = k.inode /\ dinode' = k.dinode /\ files' = k.files /\ leaked' = k.leaked
        /\ freemap' = k.freemap /\ unused' = k.unused /\ superDirty' = k.superDirty
        /\ super' = k.super /\ data' = k.data /\ starved' = k.starved
    BY <1>1 DEF Become
  <2>2. WholeNow(k) /\ Fit(k)
    BY <1>1, WholeGood DEF Ends, Sound
  <2>3. Aside(k, Now')
    BY <2>1, NextFields DEF Aside, NodesSame, Beyond
  <2>4. Fit(Now')
    BY <2>2, <2>3, AsideFit
  <2>5. WholeNow(Now')
    BY <2>1, <2>2, <2>4, NextFields, EqualWhole DEF Sound
  <2>6. Excuse(Now', halt')
    <3>1. halt' = "none"
      BY <1>1 DEF Become
    <3> QED BY <3>1 DEF Excuse, Openly, Stops
  <2> QED BY <2>4, <2>5, <2>6
<1>2. CASE k.halt # "none"
  <2>1. /\ inode' = inode /\ dinode' = dinode /\ files' = files /\ leaked' = leaked
        /\ freemap' = freemap /\ unused' = unused /\ superDirty' = superDirty
        /\ super' = super /\ data' = data /\ starved' = starved /\ halt' = k.halt
    BY <1>2 DEF Become
  <2>2. Aside(Now, Now') /\ Now'.files = Now.files /\ Now'.starved = Now.starved
    BY <2>1, NowFields, NextFields DEF Aside, NodesSame, Beyond
  <2>3. Fit(Now')
    BY <2>2, AsideFit
  <2>4. WholeNow(Now')
    BY <2>1, <2>3, NowFields, NextFields, EqualWhole DEF Sound
  <2>5. Excuse(Now', halt')
    <3>1. \A i : Cur(Now', i) = Cur(Now, i)
      BY <2>2, CurSame DEF Aside
    <3>2. \A p, f : Behind(Now, p, f) => Behind(Now', p, f)
      BY <2>2, <3>1 DEF Behind
    <3>3. Excuse(Now, k.halt)
      BY DEF Ends
    <3>4. Excuse(Now', k.halt)
      BY <2>2, <3>2, <3>3 DEF Excuse, Openly
    <3> QED BY <2>1, <3>4
  <2> QED BY <2>3, <2>4, <2>5
<1> QED BY <1>1, <1>2

\* A stopped kernel stays as it is.
LEMMA SameKept ==
  ASSUME IInv, UNCHANGED vars
  PROVE  IInv'
<1>1. UNCHANGED Now
  BY DEF vars, fsVars, Now
<1>2. UNCHANGED <<load, halt, down, inode>>
  BY DEF vars, fsVars
<1> QED BY <1>1, <1>2 DEF IInv

-----------------------------------------------------------------------------
(* The shutdown.                                                           *)

\* Nothing is in memory, and the places of the files are on disk.
Away(k, t) ==
  /\ Beyond(k, t) /\ \A i \in Files : t.inode[i] = NotLoaded /\ Placed(k, t, i)
  /\ \A i \in Files : t.dinode[i] = Cur(k, i) \/ (Clean(k, i) /\ t.dinode[i] = k.dinode[i])

\* That leaves the file system sound.
LEMMA AwayFit ==
  ASSUME NEW k, NEW t, Fit(k), Away(k, t)
  PROVE  Fit(t)
<1>1. Map(t) = Map(k)
  <2>1. ASSUME NEW u \in Uses
        PROVE  Place(t.data, Cur(t, u[1]), u[2]) = Place(k.data, Cur(k, u[1]), u[2])
    <3>1. u[1] \in Files
      BY DEF Uses
    <3>2. t.data = k.data /\ Placed(k, t, u[1])
      BY <3>1 DEF Away, Beyond
    <3> QED BY <3>2 DEF Place, Placed
  <2> QED BY <2>1 DEF Map
<1>2. Mapped(t, {})
  BY <1>1 DEF Fit, Mapped, Books, Away, Beyond
<1>3. ASSUME NEW i \in Files PROVE FileSound(t, i)
  <2>1. Beyond(k, t) /\ t.inode[i] = NotLoaded /\ FileSound(k, i)
    BY DEF Away, Fit
  <2>2. CASE t.dinode[i] = Cur(k, i)
    <3>1. Cur(t, i) = Cur(k, i)
      BY <2>1, <2>2 DEF Cur
    <3> QED BY <1>1, <2>1, <2>2, <3>1, WrittenSound
  <2>3. CASE Clean(k, i) /\ t.dinode[i] = k.dinode[i]
    BY <1>1, <2>1, <2>3, LeftSound
  <2> QED BY <2>2, <2>3 DEF Away
<1> QED BY <1>2, <1>3 DEF Fit

\* What sfs_sync leaves on disk of the inodes, and of the bitmap.
LEMMA SyncWrites ==
  ASSUME NEW k, Good(k)
  PROVE  LET s == Sync(k)
         IN  /\ DOMAIN s.dinode = Files \cup Dirs
             /\ \A i \in Files \cup Dirs :
                  s.dinode[i] = IF Loaded(k, i) /\ k.inode[i].dirty THEN k.inode[i].din ELSE k.dinode[i]
             /\ s.super = IF k.superDirty THEN [freemap |-> k.freemap, unused |-> k.unused] ELSE k.super
<1> DEFINE Listed(i) == i \in Files \cup Dirs /\ k.inode[i] # NotLoaded
           d == [i \in DOMAIN k.dinode |-> IF Listed(i) THEN Fsync(k, i).dinode[i] ELSE k.dinode[i]]
           n == [i \in DOMAIN k.inode |-> IF Listed(i) THEN Fsync(k, i).inode[i] ELSE k.inode[i]]
           u == [k EXCEPT !.dinode = d, !.inode = n]
           s == Sync(k)
<1>0. DOMAIN k = KFields /\ DOMAIN k.dinode = Files \cup Dirs /\ DOMAIN k.inode = Inodes
  BY DEF Good
<1>1. s = [u EXCEPT !.superDirty = FALSE,
                    !.super = IF u.superDirty THEN [freemap |-> u.freemap, unused |-> u.unused] ELSE @]
  BY DEF Sync
<1>2. \A i \in Files \cup Dirs :
        d[i] = IF Loaded(k, i) /\ k.inode[i].dirty THEN k.inode[i].din ELSE k.dinode[i]
  BY <1>0 DEF Fsync, Din, Loaded, KFields
<1>3. DOMAIN d = Files \cup Dirs
  BY <1>0
<1> HIDE DEF s, d, n
<1>4. /\ DOMAIN u = KFields /\ u.dinode = d /\ u.super = k.super /\ u.superDirty = k.superDirty
      /\ u.freemap = k.freemap /\ u.unused = k.unused
  BY <1>0 DEF KFields
<1> HIDE DEF u
<1>5. /\ s.dinode = d
      /\ s.super = IF k.superDirty THEN [freemap |-> k.freemap, unused |-> k.unused] ELSE k.super
  BY <1>1, <1>4 DEF KFields
<1> QED BY <1>2, <1>3, <1>5 DEF s

\* After the shutdown the disk has all there was, and the count of free blocks is right.
LEMMA ShutdownKeeps ==
  ASSUME IInv, halt = "none", Shutdown
  PROVE  IInv'
<1> DEFINE s == Sync(Now)
           e == [freemap |-> freemap, unused |-> unused]
<1>1. WholeNow(Now) /\ Good(Now) /\ Fit(Now) /\ Books(Now) /\ load \in Loads
  BY DEF IInv, Shutdown, Fit, Mapped
<1>2. s.super = e
  BY <1>1, SyncWrites, NowFields DEF Books
<1>3. /\ DOMAIN s.dinode = Files \cup Dirs
      /\ \A i \in Files \cup Dirs :
           s.dinode[i] = IF Loaded(Now, i) /\ inode[i].dirty THEN inode[i].din ELSE dinode[i]
  BY <1>1, SyncWrites, NowFields
<1>4. /\ super' = s.super /\ dinode' = s.dinode /\ freemap' = s.super.freemap /\ unused' = s.super.unused
      /\ halt' = IF s.super.unused = Cardinality(s.super.freemap) THEN "none" ELSE "assert"
      /\ superDirty' = FALSE /\ down' = TRUE /\ inode' = [i \in Inodes |-> NotLoaded]
      /\ data' = data /\ starved' = starved /\ load' = load
  BY DEF Shutdown
<1> HIDE DEF s
<1>5. /\ super' = e /\ freemap' = freemap /\ unused' = unused
      /\ unused = Cardinality(freemap) /\ halt' = "none"
  BY <1>1, <1>2, <1>4, NowFields DEF Books
<1>6. Good(Now')
  <2>1. \A i \in Files \cup Dirs : DinOK(s.dinode[i])
    <3>1. \A i \in Files \cup Dirs : i \in Inodes /\ DinOK(dinode[i])
                                   /\ (Loaded(Now, i) => DinOK(inode[i].din))
      BY <1>1, NowFields DEF Good, NodeOK, Loaded, Inodes
    <3> QED BY <1>3, <3>1
  <2>2. \A i \in Inodes : NodeOK(inode'[i])
    BY <1>4 DEF NodeOK
  <2> QED BY <1>3, <1>4, <2>1, <2>2, NextFields DEF Good
<1> DEFINE t == [Now' EXCEPT !.super = super, !.superDirty = superDirty]
<1>7. Away(Now, t)
  <2>1. /\ DOMAIN t = KFields /\ t.inode = inode' /\ t.dinode = s.dinode /\ t.freemap = freemap
        /\ t.unused = unused /\ t.superDirty = superDirty /\ t.super = super /\ t.data = data
        /\ t.starved = starved
    BY <1>4, <1>5, NextFields DEF KFields
  <2> HIDE DEF t
  <2>2. DOMAIN inode = Inodes /\ DOMAIN inode' = Inodes
    BY <1>1, <1>4, NowFields DEF Good
  <2>3. Beyond(Now, t)
    BY <2>1, <2>2, NowFields DEF Beyond
  <2>4. ASSUME NEW i \in Files
        PROVE  /\ t.inode[i] = NotLoaded /\ Placed(Now, t, i)
               /\ t.dinode[i] = Cur(Now, i) \/ (Clean(Now, i) /\ t.dinode[i] = Now.dinode[i])
    <3>1. i \in Inodes /\ t.inode[i] = NotLoaded /\ Cur(t, i) = s.dinode[i]
      BY <1>4, <2>1 DEF Inodes, Cur
    <3>2. s.dinode[i] = Cur(Now, i) \/ (Clean(Now, i) /\ s.dinode[i] = dinode[i])
      BY <1>3, NowFields DEF Cur, Clean, Loaded
    <3>3. Clean(Now, i) => dinode[i].direct = Cur(Now, i).direct /\ dinode[i].indirect = Cur(Now, i).indirect
      BY <1>1, NowFields DEF Fit, FileSound, Going, Saved
    <3>4. Placed(Now, t, i)
      BY <3>1, <3>2, <3>3 DEF Placed
    <3> QED BY <2>1, <3>1, <3>2, <3>4, NowFields
  <2> QED BY <2>3, <2>4 DEF Away
<1>8. Fit(t)
  BY <1>1, <1>7, AwayFit
<1>9. Fit(Now')
  <2>1. /\ NodesSame(t, Now') /\ t.data = data' /\ t.freemap = freemap' /\ t.unused = unused'
        /\ t.starved = starved'
    BY <1>4, <1>5, NextFields DEF NodesSame, KFields
  <2> HIDE DEF t
  <2>2. Map(Now') = Map(t)
    BY <2>1, NextFields, CurSame, MapSame
  <2>3. Mapped(Now', {})
    BY <1>4, <1>5, <1>8, <2>1, <2>2, NextFields DEF Fit, Mapped, Books
  <2> QED BY <1>8, <2>1, <2>2, <2>3, NextFields, IdlePart DEF Fit
<1>10. Excuse(Now', halt')
  BY <1>5 DEF Excuse, Openly, Stops
<1> QED BY <1>1, <1>4, <1>6, <1>9, <1>10 DEF IInv
-----------------------------------------------------------------------------
(* The disk as the kernel finds it.                                        *)

\* A file of b's making fills one block, b.
StoredDin(b) == [EmptyDin EXCEPT !.size = BlkWords, !.blocks = 1, !.direct[0] = b]

\* The places of an empty file, and of one of one block.
LEMMA NewDin ==
  /\ DinOK(EmptyDin) /\ EmptyDin.size = 0 /\ EmptyDin.blocks = 0
  /\ \A D, n : n \in 0 .. Top => Place(D, EmptyDin, n) = 0
  /\ \A b : /\ DinOK(StoredDin(b)) /\ StoredDin(b).size = BlkWords /\ StoredDin(b).blocks = 1
            /\ \A D, n : n \in 0 .. Top => Place(D, StoredDin(b), n) = IF n = 0 THEN b ELSE 0
<1>0. NDirect \in Nat /\ BlkWords \in Nat /\ BlkWords > 0 /\ NDirect > 0 /\ Top = NDirect + BlkWords
  BY SfsAssumption DEF Top
<1>1. /\ DinOK(EmptyDin) /\ EmptyDin.size = 0 /\ EmptyDin.blocks = 0 /\ EmptyDin.indirect = 0
      /\ \A n \in 0 .. NDirect - 1 : EmptyDin.direct[n] = 0
  BY DEF DinOK, Record, DinFields, EmptyDin
<1>2. \A D, n : n \in 0 .. Top => Place(D, EmptyDin, n) = 0
  <2> HIDE DEF EmptyDin
  <2> QED BY <1>0, <1>1 DEF Place
<1>3. ASSUME NEW b
      PROVE  /\ DinOK(StoredDin(b)) /\ StoredDin(b).size = BlkWords /\ StoredDin(b).blocks = 1
             /\ \A D, n : n \in 0 .. Top => Place(D, StoredDin(b), n) = IF n = 0 THEN b ELSE 0
  <2>1. /\ DinOK(StoredDin(b)) /\ StoredDin(b).size = BlkWords /\ StoredDin(b).blocks = 1
        /\ StoredDin(b).indirect = 0
        /\ \A n \in 0 .. NDirect - 1 : StoredDin(b).direct[n] = IF n = 0 THEN b ELSE 0
    BY <1>0 DEF StoredDin, DinOK, Record, DinFields, EmptyDin
  <2>2. \A D, n : n \in 0 .. Top => Place(D, StoredDin(b), n) = IF n = 0 THEN b ELSE 0
    BY <1>0, <2>1 DEF Place
  <2> QED BY <2>1, <2>2
<1> QED BY <1>1, <1>2, <1>3

\* What Init says of the disk: the files of load.stored have one block each.
LEMMA DiskAt ==
  ASSUME Init
  PROVE  LET s == load.stored
         IN  /\ DOMAIN s = 1 .. Len(s) /\ Len(s) \in Nat /\ Len(s) <= NBlocks /\ DOMAIN s \subseteq Blocks
             /\ \A b \in DOMAIN s : s[b] \in Files /\ dinode[s[b]] = StoredDin(b)
             /\ \A i \in Files : (\A b \in DOMAIN s : s[b] # i) => dinode[i] = EmptyDin
             /\ \A i \in Files : Cur(Now, i) = dinode[i] /\ ~Clean(Now, i)
             /\ freemap = Blocks \ DOMAIN s /\ unused = NBlocks - Len(s)
<1> DEFINE s == load.stored
<1>1. s \in Seq(Files) /\ IsInjective(s) /\ Len(s) <= NBlocks
  BY LoadsAssumption, Zenon DEF Init
<1>2. DOMAIN s = 1 .. Len(s) /\ Len(s) \in Nat /\ \A b \in DOMAIN s : s[b] \in Files
  BY <1>1
<1>3. DOMAIN s \subseteq Blocks
  BY <1>1, <1>2, SfsAssumption DEF Blocks
<1>4. \A i \in Files : dinode[i] = IF i \in Range(s)
                                    THEN StoredDin(CHOOSE b \in DOMAIN s : s[b] = i) ELSE EmptyDin
  BY Zenon DEF Init, StoredDin
<1>5. \A i : i \in Range(s) <=> \E b \in DOMAIN s : s[b] = i
  BY DEF Range
<1>6. \A b \in DOMAIN s : (CHOOSE c \in DOMAIN s : s[c] = s[b]) = b
  BY <1>1 DEF IsInjective
<1>7. ASSUME NEW i \in Files PROVE Cur(Now, i) = dinode[i] /\ ~Clean(Now, i)
  <2>1. inode[i] = NotLoaded
    BY FilesAssumption, Zenon DEF Init, FreshInode, Inodes
  <2> QED BY <2>1, NowFields DEF Cur, Clean, Loaded
<1>8. freemap = Blocks \ DOMAIN s /\ unused = NBlocks - Len(s)
  BY Zenon DEF Init
<1> HIDE DEF s
<1>9. \A b \in DOMAIN s : dinode[s[b]] = StoredDin(b)
  BY <1>2, <1>4, <1>5, <1>6
<1>10. \A i \in Files : (\A b \in DOMAIN s : s[b] # i) => dinode[i] = EmptyDin
  BY <1>4, <1>5
<1> QED BY <1>1, <1>2, <1>3, <1>7, <1>8, <1>9, <1>10 DEF s

\* The file system is sound as the kernel finds it.
LEMMA InitFit ==
  ASSUME Init
  PROVE  Fit(Now)
<1> DEFINE s == load.stored
           S == DOMAIN s
           A == Map(Now)
<1>1. /\ S = 1 .. Len(s) /\ Len(s) \in Nat /\ Len(s) <= NBlocks /\ S \subseteq Blocks
      /\ \A b \in S : s[b] \in Files /\ dinode[s[b]] = StoredDin(b)
      /\ \A i \in Files : (\A b \in S : s[b] # i) => dinode[i] = EmptyDin
      /\ \A i \in Files : Cur(Now, i) = dinode[i] /\ ~Clean(Now, i)
      /\ freemap = Blocks \ S /\ unused = NBlocks - Len(s)
  BY DiskAt
<1>2. Top \in Nat /\ Top > 0 /\ NDirect \in Nat /\ NDirect > 0 /\ BlkWords \in Nat /\ BlkWords > 0
      /\ NDirect < Top
  BY SfsAssumption DEF Top
<1>3. \A i \in Files, n \in 0 .. Top : <<i, n>> \in Uses /\ A[<<i, n>>] = Place(data, dinode[i], n)
  BY <1>1, NowFields DEF Map, Uses
<1> HIDE DEF A, s
<1>4. \A b \in S, n \in 0 .. Top : A[<<s[b], n>>] = IF n = 0 THEN b ELSE 0
  BY <1>1, <1>3, NewDin
<1>5. \A i \in Files, n \in 0 .. Top : (\A b \in S : s[b] # i) => A[<<i, n>>] = 0
  BY <1>1, <1>3, NewDin
<1> HIDE DEF S
<1>6. \A u \in Uses : \/ A[u] = 0
                      \/ A[u] \in S /\ u = <<s[A[u]], 0>>
  <2>1. ASSUME NEW u \in Uses PROVE A[u] = 0 \/ (A[u] \in S /\ u = <<s[A[u]], 0>>)
    <3>1. PICK i \in Files, n \in 0 .. Top : u = <<i, n>>
      BY DEF Uses
    <3> QED BY <1>4, <1>5, <3>1
  <2> QED BY <2>1
<1>7. Exact(A, freemap, {})
  <2>1. \A u, v \in Uses : A[u] = A[v] /\ A[u] # 0 => u = v
    BY <1>6
  <2>2. Blocks \ (freemap \cup {}) = S
    BY <1>1
  <2>3. \A b \in S : \E u \in Uses : A[u] = b
    <3>1. \A b \in S : <<s[b], 0>> \in Uses /\ A[<<s[b], 0>>] = b
      BY <1>1, <1>2, <1>3, <1>4
    <3> QED BY <3>1
  <2> QED BY <1>1, <1>6, <2>1, <2>2, <2>3 DEF Exact
<1>8. Books(Now)
  <2>1. freemap = Len(s) + 1 .. NBlocks
    BY <1>1, SfsAssumption DEF Blocks
  <2>2. Cardinality(freemap) = NBlocks - Len(s)
    <3>1. NBlocks \in Nat
      BY SfsAssumption
    <3>2. Len(s) + 1 \in Int /\ NBlocks \in Int
      BY <1>1, <3>1
    <3>3. Cardinality(Len(s) + 1 .. NBlocks)
          = IF Len(s) + 1 > NBlocks THEN 0 ELSE NBlocks - (Len(s) + 1) + 1
      BY <3>2, FS_Interval
    <3>4. Len(s) \in Nat /\ Len(s) <= NBlocks
      BY <1>1
    <3>5. (IF Len(s) + 1 > NBlocks THEN 0 ELSE NBlocks - (Len(s) + 1) + 1) = NBlocks - Len(s)
      BY <3>1, <3>4
    <3> QED BY <2>1, <3>3, <3>5
  <2>3. /\ super = [freemap |-> freemap, unused |-> unused]
        /\ DOMAIN data = Blocks /\ \A b \in Blocks : DOMAIN data[b] = Words
    BY Zenon DEF Init, ZeroBlock
  <2> QED BY <1>1, <2>2, <2>3, NowFields DEF Books
<1>9. ASSUME NEW i \in Files PROVE FileSound(Now, i)
  <2> DEFINE d == dinode[i]
  <2>1. Cur(Now, i) = d /\ ~Clean(Now, i)
    BY <1>1
  <2>2. CASE \A b \in S : s[b] # i
    <3>1. d.blocks = 0 /\ d.size = 0 /\ BlocksOf(0) = 0
      BY <1>1, <2>2, NewDin, BlocksNumber
    <3>2. \A n \in 0 .. Top : A[<<i, n>>] = 0
      BY <1>5, <2>2
    <3> HIDE DEF d
    <3>3. Shape(A, i, d.blocks, d.size) /\ Tight(A, i, d.blocks)
      BY <1>2, <3>1, <3>2 DEF Shape, Tight, Reach
    <3> QED BY <2>1, <3>1, <3>3 DEF FileSound, Going, Enough, A
  <2>3. CASE \E b \in S : s[b] = i
    <3>1. PICK b \in S : s[b] = i
      BY <2>3
    <3>2. d.blocks = 1 /\ d.size = BlkWords
      BY <1>1, <3>1, NewDin
    <3>3. BlocksOf(BlkWords) = 1
      <4>1. \A w \in Nat \ {0} : (w + w - 1) \div w = 1
        BY Z3
      <4> QED BY <4>1, SfsAssumption DEF BlocksOf
    <3>4. b # 0 /\ \A n \in 0 .. Top : A[<<i, n>>] = IF n = 0 THEN b ELSE 0
      BY <1>1, <1>4, <3>1, NotZero
    <3> HIDE DEF d
    <3>5. BlkWords < Reach(1)
      BY <1>2 DEF Reach
    <3>6. Shape(A, i, d.blocks, d.size) /\ Tight(A, i, d.blocks)
      BY <1>2, <3>2, <3>4, <3>5 DEF Shape, Tight
    <3> QED BY <2>1, <3>2, <3>3, <3>6 DEF FileSound, Going, Enough, A
  <2> QED BY <2>2, <2>3
<1> QED BY <1>7, <1>8, <1>9, NowFields DEF Fit, Mapped, A

\* The kernel starts with right counts, and a sound file system.
LEMMA InitInv ==
  ASSUME Init
  PROVE  IInv
<1>11. Fit(Now)
  BY InitFit
<1> DEFINE R == Refs(files, Lost(leaked))
           O == Opens(files)
<1>0. Root \in Inodes /\ Device \in Inodes /\ Root # Device
  BY FilesAssumption DEF Inodes
<1>1. Good(Now)
  <2>1. \A i \in Files \cup Dirs : DinOK(dinode[i])
    <3>1. DinOK(EmptyDin)
      BY DEF DinOK, Record, DinFields, EmptyDin
    <3>2. \A b : DinOK([EmptyDin EXCEPT !.size = BlkWords, !.blocks = 1, !.direct[0] = b])
      BY SfsAssumption DEF DinOK, Record, DinFields, EmptyDin
    <3> HIDE DEF EmptyDin, DinOK, Record, DinFields
    <3> QED BY <3>1, <3>2, Zenon DEF Init
  <2>2. DOMAIN dinode = Files \cup Dirs
    BY Zenon DEF Init
  <2>3. DOMAIN inode = Inodes /\ \A i \in Inodes : NodeOK(inode[i])
    <3>1. \A i : NodeOK(FreshInode(i))
      BY DEF NodeOK, FreshInode, DinOK, Record, DinFields, EmptyDin
    <3> HIDE DEF FreshInode, NodeOK
    <3> QED BY <3>1, Zenon DEF Init
  <2> QED BY <2>1, <2>2, <2>3, NowFields DEF Good
<1>2. Tables(files) /\ \A i : OpenAt(files, i) = {} /\ PwdAt(files, i) = IF i = Root THEN {First} ELSE {}
  <2> DEFINE x == [pwd |-> Root, fd |-> AllNone]
  <2>1. Table(x) /\ x # NoFiles /\ Table(NoFiles) /\ x.pwd = Root /\ \A f \in Fds : x.fd[f] = NoFd
    <3>1. x.fd = AllNone /\ DOMAIN x = {"pwd", "fd"} /\ DOMAIN NoFiles = {"pwd"}
      BY DEF NoFiles
    <3>2. DOMAIN AllNone = Fds /\ \A f \in Fds : AllNone[f] = NoFd
      BY DEF AllNone
    <3> QED BY <3>1, <3>2, FilesAssumption DEF Table
  <2> HIDE DEF x
  <2>2. files = [p \in Procs |-> IF p = First THEN x ELSE NoFiles] /\ First \in Procs
    BY FilesAssumption, Zenon DEF Init, x
  <2>3. Tables(files)
    BY <2>1, <2>2 DEF Tables
  <2>4. \A p \in Procs, f \in Fds : ~IsOpen(files, p, f)
    BY <2>1, <2>2 DEF IsOpen
  <2>5. \A i : PwdAt(files, i) = IF i = Root THEN {First} ELSE {}
    BY <2>1, <2>2 DEF PwdAt
  <2>6. \A i : OpenAt(files, i) = {}
    BY <2>4 DEF OpenAt
  <2> QED BY <2>3, <2>5, <2>6
<1>3. leaked \in [Inodes -> Nat] /\ \A i \in Inodes : leaked[i] = 0
  BY Zenon DEF Init
<1>4. \A i \in Inodes : O[i] = 0 /\ R[i] = (IF i = Root THEN 1 ELSE 0) + Base(i)
  <2>1. Cardinality({}) = 0 /\ Cardinality({First}) = 1
    BY FS_EmptySet, FS_Singleton
  <2>2. \A i \in Inodes : Lost(leaked)[i] = Base(i) /\ Base(i) \in Nat
    BY <1>3 DEF Lost, Base
  <2>3. \A i \in Inodes : /\ O[i] = Cardinality(OpenAt(files, i))
                          /\ R[i] = Cardinality(OpenAt(files, i)) + Cardinality(PwdAt(files, i))
                                    + Lost(leaked)[i]
    BY DEF Opens, Refs
  <2>4. \A i : /\ Cardinality(OpenAt(files, i)) = 0
               /\ Cardinality(PwdAt(files, i)) = IF i = Root THEN 1 ELSE 0
    BY <1>2, <2>1
  <2> HIDE DEF R, O
  <2> QED BY <2>2, <2>3, <2>4
<1>5. R \in [Inodes -> Nat] /\ O \in [Inodes -> Nat]
  <2>1. \A i \in Inodes : R[i] \in Nat /\ O[i] \in Nat
    <3> HIDE DEF R, O
    <3> QED BY <1>4 DEF Base
  <2> QED BY <2>1 DEF Refs, Opens
<1> HIDE DEF R, O
<1>6. ASSUME NEW i \in Inodes
      PROVE  O[i] <= R[i] /\ Fits(inode[i], R[i], O[i])
  <2>1. inode[i] = FreshInode(i)
    BY Zenon DEF Init
  <2>2. O[i] = 0 /\ R[i] = IF i = Root THEN 3 ELSE IF i = Device THEN 1 ELSE 0
    BY <1>0, <1>4 DEF Base
  <2>3. DinOK(EmptyDin)
    BY DEF DinOK, Record, DinFields, EmptyDin
  <2> QED BY <1>0, <2>1, <2>2, <2>3 DEF FreshInode, Fits, NodeFields
<1>7. Counted(Now, R, O)
  BY <1>1, <1>5, <1>6, <1>11, NowFields DEF Counted, CountedAt, Sound
<1>8. Lost(leaked) \in [Inodes -> Int]
  BY <1>3, LostTyped
<1>9. WholeNow(Now)
  BY <1>2, <1>3, <1>7, <1>8, NowFields DEF WholeNow, Whole, R, O
<1>10. Excuse(Now, halt)
  BY Zenon DEF Init, Excuse, Openly, Stops
<1> QED BY <1>1, <1>9, <1>10, <1>11, Zenon DEF IInv, Init

\* An open is a call.
LEMMA OpenEnded ==
  ASSUME NEW k, NEW t, NEW p, FileEnds(k, t, p)
  PROVE  Ends(k, t)
  BY DEF FileEnds, Ends, Excuse

\* Every call keeps the invariant.
LEMMA NextInv ==
  ASSUME IInv, [Next]_vars
  PROVE  IInv'
<1>1. CASE UNCHANGED vars
  BY <1>1, SameKept
<1>2. ASSUME halt = "none", Shutdown PROVE IInv'
  BY <1>2, ShutdownKeeps
<1>3. ASSUME NEW k, ~down, halt = "none", Ends(Now, k), Become(k) PROVE IInv'
  <2>1. WholeNow(Now') /\ Fit(Now') /\ Excuse(Now', halt')
    BY <1>3, BecomeKeeps DEF IInv
  <2>2. load' = load /\ load \in Loads /\ ~down'
    BY <1>3 DEF Become, IInv
  <2>3. Good(Now')
    BY <2>1, WholeGood
  <2> QED BY <2>1, <2>2, <2>3 DEF IInv
<1>4. ASSUME ~down, halt = "none", NEW p \in load.procs
      PROVE  /\ WholeNow(Now) /\ Now.ret = "ok" /\ Now.halt = "none" /\ p \in Procs
             /\ Live(p) => Now.files[p] # NoFiles
             /\ \A f \in Fds : Opened(p, f) => IsOpen(Now.files, p, f)
             /\ \A f \in Fds : ~Opened(p, f) => ~IsOpen(Now.files, p, f)
             /\ load.nodes \subseteq Inodes \cup Nowhere
             /\ \A open \in load.opens : open[1] \in Inodes \cup Nowhere
             /\ load.lens \subseteq Nat /\ load.seeks \subseteq Nat
  <2>1. WholeNow(Now) /\ Now.ret = "ok" /\ Now.halt = "none" /\ Now.files = files
    BY <1>4, NowFields DEF IInv
  <2>2. load \in Loads
    BY DEF IInv
  <2>3. /\ p \in Procs /\ load.nodes \subseteq Inodes \cup Nowhere
        /\ \A open \in load.opens : open[1] \in Inodes \cup Nowhere
        /\ load.lens \subseteq Nat /\ load.seeks \subseteq Nat
    BY <1>4, <2>2, LoadsAssumption
  <2> QED BY <2>1, <2>3 DEF Live, Opened, IsOpen
<1>5. ASSUME ~down, halt = "none", NEW p \in load.procs, NEW open \in load.opens,
             SysOpen(p, open[1], open[2])
      PROVE  IInv'
  <2> DEFINE t == FileOpen(Now, p, open[1], open[2])
  <2>1. FileEnds(Now, t, p)
    BY <1>4, <1>5, FileOpenEnds DEF SysOpen
  <2>2. Ends(Now, t) /\ Become(t)
    BY <1>5, <2>1, OpenEnded DEF SysOpen
  <2> HIDE DEF t
  <2> QED BY <1>3, <1>5, <2>2
<1>6. ASSUME ~down, halt = "none", NEW p \in load.procs, NEW i \in load.nodes, SysChdir(p, i)
      PROVE  IInv'
  <2> DEFINE t == VfsChdir(Now, p, i)
  <2>1. Ends(Now, t) /\ Become(t)
    BY <1>4, <1>6, VfsChdirEnds DEF SysChdir
  <2> HIDE DEF t
  <2> QED BY <1>3, <1>6, <2>1
<1>7. ASSUME ~down, halt = "none", NEW p \in load.procs, NEW i \in load.nodes,
             NEW off \in load.seeks, NEW good \in BOOLEAN, Exec(p, i, off, good)
      PROVE  IInv'
  <2> DEFINE t == ExecRun(Now, p, i, off, good)
  <2>1. Become(t)
    BY <1>7 DEF Exec, ExecRun
  <2>2. Ends(Now, t)
    <3>1. Live(p)
      BY <1>7 DEF Exec
    <3> QED BY <1>4, <1>7, <3>1, ExecEnds
  <2> HIDE DEF t
  <2> QED BY <1>3, <1>7, <2>1, <2>2
<1>8. ASSUME ~down, halt = "none", NEW p \in load.procs, NEW f \in Fds, SysClose(p, f)
      PROVE  IInv'
  <2>1. Ends(Now, FdClose(Now, p, f)) /\ Become(FdClose(Now, p, f))
    BY <1>4, <1>8, CloseEnds, WholeEnds DEF SysClose
  <2> QED BY <1>3, <1>8, <2>1
<1>9. ASSUME ~down, halt = "none", NEW p \in load.procs, NEW f \in Fds, NEW g \in Fds, SysDup(p, f, g)
      PROVE  IInv'
  <2> DEFINE t == FdDup(Now, p, g, Now.files[p].fd[f])
  <2>1. Become(t)
    BY <1>9, NowFields DEF SysDup
  <2>2. Ends(Now, t)
    BY <1>4, <1>9, DupEnds, WholeEnds DEF SysDup
  <2> HIDE DEF t
  <2> QED BY <1>3, <1>9, <2>1, <2>2
<1>10. ASSUME ~down, halt = "none", NEW p \in load.procs, NEW f \in Fds, NEW n \in Nat, NEW x,
              Opened(p, f), Become(FileIo(Now, p, f, n, x))
       PROVE  IInv'
  <2> DEFINE t == FileIo(Now, p, f, n, x)
  <2>1. IsOpen(Now.files, p, f)
    BY <1>4, <1>10
  <2>2. Keeps(Now, t, p, f) /\ (t.halt \in Stops \/ (t.halt = "index" /\ Behind(Now, p, f)))
    BY <1>4, <1>10, <2>1, FileIoKeeps
  <2>3. Ends(Now, t)
    <3> HIDE DEF t
    <3> QED BY <1>4, <1>10, <2>1, <2>2 DEF Keeps, Ends, Excuse, Openly
  <2> QED BY <1>3, <1>10, <2>3
<1>11. ASSUME ~down, halt = "none", NEW p \in load.procs, NEW f \in Fds, NEW pos \in load.seeks,
              SysSeek(p, f, pos)
       PROVE  IInv'
  <2>1. Ends(Now, FileSeek(Now, p, f, pos)) /\ Become(FileSeek(Now, p, f, pos))
    BY <1>4, <1>11, FileSeekKeeps DEF SysSeek, Keeps, Ends, Excuse, Openly
  <2> QED BY <1>3, <1>11, <2>1
<1>12. ASSUME ~down, halt = "none", NEW p \in load.procs, NEW f \in Fds, SysFsync(p, f)
       PROVE  IInv'
  <2> DEFINE i == Now.files[p].fd[f].node
             t == IF i = Device THEN PanicIf(Now, TRUE, "no_op") ELSE Fsync(Now, i)
  <2>1. Become(t)
    BY <1>12, NowFields DEF SysFsync
  <2>2. Ends(Now, t)
    BY <1>4, <1>12, FsyncEnds DEF SysFsync
  <2> HIDE DEF t
  <2> QED BY <1>3, <1>12, <2>1, <2>2
<1>13. ASSUME ~down, halt = "none", NEW p \in load.procs, NEW child \in load.procs, Fork(p, child)
       PROVE  IInv'
  <2>1. Now.files[child] = NoFiles
    BY <1>13, NowFields DEF Fork, Live
  <2>2. Ends(Now, DupFiles(Now, child, p)) /\ Become(DupFiles(Now, child, p))
    BY <1>4, <1>13, <2>1, ForkEnds, WholeEnds DEF Fork
  <2> QED BY <1>3, <1>13, <2>2
<1>14. ASSUME ~down, halt = "none", NEW p \in load.procs, Exit(p)
       PROVE  IInv'
  <2>1. Ends(Now, FilesDestroy(Now, p)) /\ Become(FilesDestroy(Now, p))
    BY <1>4, <1>14, DestroyEnds, WholeEnds DEF Exit
  <2> QED BY <1>3, <1>14, <2>1
<1>15. CASE Stopped
  BY <1>1, <1>15 DEF Stopped
<1>16. ASSUME ~down, halt = "none", NEW p \in load.procs, NEW f \in Fds, NEW n \in load.lens,
              SysRead(p, f, n) \/ \E x \in Values : SysWrite(p, f, n, x)
       PROVE  IInv'
  <2>1. n \in Nat
    BY <1>4, <1>16
  <2> QED BY <1>10, <1>16, <2>1 DEF SysRead, SysWrite
<1> QED BY <1>1, <1>2, <1>5, <1>6, <1>7, <1>8, <1>9, <1>11, <1>12, <1>13, <1>14, <1>15, <1>16 DEF Next

\* Right counts are those of ReferencesExact.
LEMMA InvExact ==
  ASSUME IInv
  PROVE  ReferencesExact
<1> SUFFICES ASSUME ~down, NEW i \in Inodes
             PROVE  IF RefsOf(i) = 0 THEN inode[i] = NotLoaded
                    ELSE /\ inode[i].ref = RefsOf(i) /\ inode[i].open = OpensOf(i)
                         /\ inode[i].reclaim = 1
  BY DEF ReferencesExact
<1> DEFINE R == Refs(files, Lost(leaked))
           O == Opens(files)
<1>1. Fits(inode[i], R[i], O[i]) /\ leaked \in [Inodes -> Nat]
  BY NowFields DEF IInv, WholeNow, Whole, Counted, CountedAt
<1>2. O[i] = OpensOf(i)
  BY DEF Opens, OpensOf, OpenAt, IsOpen, Opened, Live
<1>3. R[i] = RefsOf(i)
  <2> DEFINE c == Cardinality(PwdAt(files, i))
  <2>1. R[i] = OpensOf(i) + c + (leaked[i] + Base(i))
    <3>1. R[i] = Cardinality(OpenAt(files, i)) + c + Lost(leaked)[i]
      BY DEF Refs
    <3>2. O[i] = Cardinality(OpenAt(files, i))
      BY DEF Opens
    <3>3. Lost(leaked)[i] = leaked[i] + Base(i)
      BY DEF Lost
    <3> HIDE DEF R, O, c
    <3> QED BY <1>2, <3>1, <3>2, <3>3
  <2>2. RefsOf(i) = OpensOf(i) + c + leaked[i] + Base(i)
    BY DEF RefsOf, PwdAt, Live, Base
  <2>3. OpensOf(i) \in Nat /\ c \in Nat /\ leaked[i] \in Nat /\ Base(i) \in Nat
    <3>1. Cardinality(OpenAt(files, i)) \in Nat /\ c \in Nat
      BY FiniteCounts
    <3>2. O[i] = Cardinality(OpenAt(files, i))
      BY DEF Opens
    <3> HIDE DEF O, c
    <3> QED BY <1>1, <1>2, <3>1, <3>2 DEF Base
  <2> HIDE DEF R, c
  <2> QED BY <2>1, <2>2, <2>3
<1> HIDE DEF R, O
<1> QED BY <1>1, <1>2, <1>3 DEF Fits

-----------------------------------------------------------------------------
(* BlocksExact.                                                            *)

\* What BlockUses makes of place u.
UseOf(A, u) ==
  IF u[2] < NDirect THEN <<u[1], "direct", u[2], A[u]>>
  ELSE IF u[2] = Top THEN <<u[1], "indirect", 0, A[u]>>
  ELSE <<u[1], "entry", u[2] - NDirect, A[u]>>

\* Places that are not empty, and uses of blocks, are the same.
LEMMA UsesOf ==
  ASSUME Good(Now)
  PROVE  /\ \A u \in Uses : Map(Now)[u] # 0 => UseOf(Map(Now), u) \in AllUses
         /\ \A v \in AllUses : \E u \in Uses : Map(Now)[u] # 0 /\ v = UseOf(Map(Now), u)
<1> DEFINE A == Map(Now)
<1>1. Top \in Nat /\ NDirect \in Nat /\ BlkWords \in Nat /\ NDirect > 0 /\ BlkWords > 0
      /\ Top = NDirect + BlkWords
  BY SfsAssumption DEF Top
<1>2. \A i \in Files : DinOf(i) = Cur(Now, i) /\ DOMAIN DinOf(i).direct = 0 .. NDirect - 1
  <2>1. ASSUME NEW i \in Files PROVE DinOf(i) = Cur(Now, i) /\ DinOK(Cur(Now, i))
    <3>1. i \in Inodes /\ NodeOK(inode[i]) /\ DinOK(dinode[i])
      BY NowFields DEF Good, Inodes
    <3> QED BY <3>1, NowFields DEF DinOf, Cur, NodeOK
  <2> QED BY <2>1 DEF DinOK
<1>3. ASSUME NEW i \in Files, NEW n \in 0 .. NDirect - 1
      PROVE  <<i, n>> \in Uses /\ A[<<i, n>>] = DinOf(i).direct[n]
  <2>1. /\ n \in 0 .. Top /\ A[<<i, n>>] = Cur(Now, i).direct[n]
        /\ \A m \in 0 .. Top : <<i, m>> \in Uses
    BY PlaceOf
  <2> QED BY <1>2, <2>1
<1>4. \A i \in Files : <<i, Top>> \in Uses /\ A[<<i, Top>>] = DinOf(i).indirect
  BY <1>1, <1>2, PlaceOf
<1>5. ASSUME NEW i \in Files, NEW j \in Words
      PROVE  /\ <<i, NDirect + j>> \in Uses
             /\ A[<<i, NDirect + j>>] = IF DinOf(i).indirect = 0 THEN 0 ELSE data[DinOf(i).indirect][j]
  <2>1. /\ NDirect + j \in NDirect .. Top - 1 /\ NDirect + j \in 0 .. Top
        /\ (NDirect + j) - NDirect = j
    BY <1>1 DEF Words
  <2>2. /\ A[<<i, NDirect + j>>] = IF Cur(Now, i).indirect = 0 THEN 0
                                   ELSE Now.data[Cur(Now, i).indirect][(NDirect + j) - NDirect]
        /\ \A m \in 0 .. Top : <<i, m>> \in Uses
    BY <2>1, PlaceOf
  <2>3. A[<<i, NDirect + j>>] = IF Cur(Now, i).indirect = 0 THEN 0 ELSE data[Cur(Now, i).indirect][j]
    <3> HIDE DEF A
    <3> QED BY <2>1, <2>2, NowFields
  <2> QED BY <1>2, <2>1, <2>2, <2>3
<1> HIDE DEF A
<1>6. ASSUME NEW u \in Uses, A[u] # 0 PROVE UseOf(A, u) \in AllUses
  <2>1. PICK i \in Files, n \in 0 .. Top : u = <<i, n>>
    BY DEF Uses
  <2> DEFINE d == DinOf(i)
  <2>2. CASE n < NDirect
    <3>1. n \in DOMAIN d.direct /\ d.direct[n] = A[u]
      BY <1>1, <1>2, <1>3, <2>1, <2>2
    <3>2. UseOf(A, u) = <<i, "direct", n, d.direct[n]>>
      BY <2>1, <2>2, <3>1 DEF UseOf
    <3> HIDE DEF d
    <3>3. UseOf(A, u) \in BlockUses(i, d)
      BY <1>6, <3>1, <3>2 DEF BlockUses
    <3> QED BY <3>3 DEF AllUses, d
  <2>3. CASE n = Top
    <3>1. d.indirect = A[u] /\ ~(n < NDirect)
      BY <1>1, <1>4, <2>1, <2>3
    <3>2. UseOf(A, u) = <<i, "indirect", 0, d.indirect>>
      BY <2>1, <2>3, <3>1 DEF UseOf
    <3> HIDE DEF d
    <3>3. UseOf(A, u) \in BlockUses(i, d)
      BY <1>6, <3>1, <3>2 DEF BlockUses
    <3> QED BY <3>3 DEF AllUses, d
  <2>4. CASE ~(n < NDirect) /\ n # Top
    <3>1. n - NDirect \in Words /\ NDirect + (n - NDirect) = n
      BY <1>1, <2>1, <2>4 DEF Words
    <3>2. d.indirect # 0 /\ data[d.indirect][n - NDirect] = A[u]
      BY <1>5, <1>6, <2>1, <3>1
    <3>3. UseOf(A, u) = <<i, "entry", n - NDirect, data[d.indirect][n - NDirect]>>
      BY <2>1, <2>4, <3>2 DEF UseOf
    <3> HIDE DEF d
    <3>4. n - NDirect \in Entries(d)
      BY <1>6, <3>1, <3>2 DEF Entries
    <3>5. UseOf(A, u) \in BlockUses(i, d)
      BY <3>3, <3>4 DEF BlockUses
    <3> QED BY <3>5 DEF AllUses, d
  <2> QED BY <2>2, <2>3, <2>4
<1>7. ASSUME NEW v \in AllUses PROVE \E u \in Uses : A[u] # 0 /\ v = UseOf(A, u)
  <2>1. PICK i \in Files : v \in BlockUses(i, DinOf(i))
    BY DEF AllUses
  <2> DEFINE d == DinOf(i)
  <2>2. \/ \E n \in DOMAIN d.direct : d.direct[n] # 0 /\ v = <<i, "direct", n, d.direct[n]>>
        \/ \E j \in Entries(d) : v = <<i, "entry", j, data[d.indirect][j]>>
        \/ d.indirect # 0 /\ v = <<i, "indirect", 0, d.indirect>>
    <3> HIDE DEF d
    <3>1. v \in BlockUses(i, d)
      BY <2>1 DEF d
    <3> QED BY <3>1 DEF BlockUses
  <2>3. ASSUME NEW n \in DOMAIN d.direct, d.direct[n] # 0, v = <<i, "direct", n, d.direct[n]>>
        PROVE  \E u \in Uses : A[u] # 0 /\ v = UseOf(A, u)
    <3>1. n \in 0 .. NDirect - 1 /\ n < NDirect
      BY <1>1, <1>2, <2>3
    <3>2. <<i, n>> \in Uses /\ A[<<i, n>>] = d.direct[n]
      BY <1>3, <3>1
    <3>3. UseOf(A, <<i, n>>) = v
      BY <2>3, <3>1, <3>2 DEF UseOf
    <3> QED BY <2>3, <3>2, <3>3
  <2>4. ASSUME NEW j \in Entries(d), v = <<i, "entry", j, data[d.indirect][j]>>
        PROVE  \E u \in Uses : A[u] # 0 /\ v = UseOf(A, u)
    <3>1. j \in Words /\ d.indirect # 0 /\ data[d.indirect][j] # 0
      <4> HIDE DEF d
      <4> QED BY DEF Entries
    <3>2. <<i, NDirect + j>> \in Uses /\ A[<<i, NDirect + j>>] = data[d.indirect][j]
      BY <1>5, <3>1
    <3>3. ~(NDirect + j < NDirect) /\ NDirect + j # Top /\ (NDirect + j) - NDirect = j
      BY <1>1, <3>1 DEF Words
    <3>4. UseOf(A, <<i, NDirect + j>>) = v
      BY <2>4, <3>2, <3>3 DEF UseOf
    <3> QED BY <3>1, <3>2, <3>4
  <2>5. ASSUME d.indirect # 0, v = <<i, "indirect", 0, d.indirect>>
        PROVE  \E u \in Uses : A[u] # 0 /\ v = UseOf(A, u)
    <3>1. <<i, Top>> \in Uses /\ A[<<i, Top>>] = d.indirect /\ ~(Top < NDirect)
      BY <1>1, <1>4
    <3>2. UseOf(A, <<i, Top>>) = v
      BY <2>5, <3>1 DEF UseOf
    <3> QED BY <2>5, <3>1, <3>2
  <2> QED BY <2>2, <2>3, <2>4, <2>5
<1> QED BY <1>6, <1>7 DEF A

\* The blocks in use are those that are not free, each used once.
LEMMA UsesExact ==
  ASSUME Good(Now), Fit(Now)
  PROVE  /\ {u[4] : u \in AllUses} = Blocks \ freemap
         /\ Cardinality(AllUses) = Cardinality(Blocks \ freemap)
<1> DEFINE A == Map(Now)
           S == Blocks \ freemap
           F == [v \in AllUses |-> v[4]]
<1>1. /\ \A u \in Uses : A[u] = 0 \/ A[u] \in S
      /\ \A u, v \in Uses : A[u] = A[v] /\ A[u] # 0 => u = v
      /\ \A b \in S : \E u \in Uses : A[u] = b
  BY NowFields DEF Fit, Mapped, Exact
<1>2. /\ \A u \in Uses : A[u] # 0 => UseOf(A, u) \in AllUses
      /\ \A v \in AllUses : \E u \in Uses : A[u] # 0 /\ v = UseOf(A, u)
  BY UsesOf
<1>3. \A u : UseOf(A, u)[4] = A[u]
  BY DEF UseOf
<1>4. \A b \in S : b # 0
  BY NotZero
<1>5. IsFiniteSet(S)
  BY FewBlocks
<1> HIDE DEF A, S
<1>6. \A v \in AllUses : v[4] \in S
  BY <1>1, <1>2, <1>3
<1>7. \A b \in S : \E v \in AllUses : v[4] = b
  BY <1>1, <1>2, <1>3, <1>4
<1>8. \A v, w \in AllUses : v[4] = w[4] => v = w
  BY <1>1, <1>2, <1>3
<1>9. {u[4] : u \in AllUses} = S
  BY <1>6, <1>7
<1>10. F \in Bijection(AllUses, S)
  <2>1. F \in [AllUses -> S]
    BY <1>6
  <2>2. \A v, w \in AllUses : F[v] = F[w] => v = w
    BY <1>8
  <2>3. \A b \in S : \E v \in AllUses : F[v] = b
    BY <1>7
  <2> HIDE DEF F
  <2> QED BY <2>1, <2>2, <2>3, Fun_IsBij
<1>11. ExistsBijection(AllUses, S)
  BY <1>10 DEF ExistsBijection
<1>12. Cardinality(AllUses) = Cardinality(S)
  BY <1>5, <1>11, FS_Bijection, Fun_ExistsBijSymmetric
<1> QED BY <1>9, <1>12 DEF S

\* What BlocksExact says of one file.
LEMMA FileExact ==
  ASSUME IInv, NEW i \in Files
  PROVE  LET d == DinOf(i)
         IN  /\ \A n \in 0 .. d.blocks - 1 : BlockAt(d, n) # 0
             /\ \A n \in DOMAIN d.direct : d.direct[n] # 0 => n < d.blocks
             /\ d.size < (d.blocks + 1) * BlkWords
             /\ ~starved => d.blocks = BlocksOf(d.size) /\ \A j \in Entries(d) : NDirect + j < d.blocks
             /\ inode[i] # NotLoaded /\ ~inode[i].dirty =>
                  dinode[i] = [d EXCEPT !.blocks = IF starved THEN dinode[i].blocks ELSE @]
<1> DEFINE A == Map(Now)
           d == DinOf(i)
           c == dinode[i]
<1>0. i \in Inodes /\ Good(Now) /\ FileSound(Now, i)
  BY DEF Inodes, IInv, Fit
<1>1. d = Cur(Now, i) /\ DinOK(d) /\ DinOK(c)
  <2>1. NodeOK(inode[i]) /\ DinOK(dinode[i])
    BY <1>0, NowFields DEF Good
  <2> QED BY <2>1, NowFields DEF DinOf, Cur, NodeOK
<1>2. Top \in Nat /\ NDirect \in Nat /\ BlkWords \in Nat /\ NDirect > 0 /\ BlkWords > 0
      /\ Top = NDirect + BlkWords
  BY SfsAssumption DEF Top
<1>3. /\ Shape(A, i, d.blocks, d.size)
      /\ ~starved => Tight(A, i, d.blocks) /\ d.blocks = BlocksOf(d.size)
      /\ Clean(Now, i) => /\ c.size = d.size /\ c.direct = d.direct /\ c.indirect = d.indirect
                          /\ ~starved => c.blocks = d.blocks
  BY <1>0, <1>1, NowFields DEF FileSound, Going, Enough, Saved
<1>4. \A n \in 0 .. NDirect - 1 : A[<<i, n>>] = d.direct[n]
  BY <1>1, PlaceOf, Zenon
<1>5. ASSUME NEW n \in NDirect .. Top - 1
      PROVE  A[<<i, n>>] = IF d.indirect = 0 THEN 0 ELSE data[d.indirect][n - NDirect]
  <2>1. A[<<i, n>>] = IF Cur(Now, i).indirect = 0 THEN 0
                      ELSE Now.data[Cur(Now, i).indirect][n - NDirect]
    BY PlaceOf
  <2> HIDE DEF A, d
  <2> QED BY <1>1, <2>1, NowFields
<1> HIDE DEF A
<1>6. ASSUME NEW n \in 0 .. d.blocks - 1 PROVE BlockAt(d, n) # 0
  <2>1. A[<<i, n>>] # 0 /\ d.blocks \in 0 .. Top
    BY <1>3 DEF Shape
  <2> HIDE DEF d
  <2>2. CASE n < NDirect
    <3>1. n \in 0 .. NDirect - 1 /\ ~(n >= NDirect)
      BY <1>2, <2>1, <2>2
    <3>2. d.direct[n] # 0
      BY <1>4, <2>1, <3>1
    <3> QED BY <2>2, <3>1, <3>2 DEF BlockAt
  <2>3. CASE ~(n < NDirect)
    <3>1. n \in NDirect .. Top - 1 /\ n >= NDirect
      BY <1>2, <2>1, <2>3
    <3>2. d.indirect # 0 /\ data[d.indirect][n - NDirect] # 0
      BY <1>5, <2>1, <3>1
    <3> QED BY <2>3, <3>1, <3>2 DEF BlockAt
  <2> QED BY <2>2, <2>3
<1>7. \A n \in DOMAIN d.direct : d.direct[n] # 0 => n < d.blocks
  <2>1. DOMAIN d.direct = 0 .. NDirect - 1
    BY <1>1 DEF DinOK
  <2> HIDE DEF d
  <2> QED BY <1>3, <1>4, <2>1 DEF Shape
<1>8. d.size < (d.blocks + 1) * BlkWords
  BY <1>3 DEF Shape, Reach
<1>9. ASSUME ~starved, NEW j \in Entries(d) PROVE NDirect + j < d.blocks
  <2> HIDE DEF d
  <2>1. j \in Words /\ d.indirect # 0 /\ data[d.indirect][j] # 0
    BY DEF Entries
  <2>2. /\ NDirect + j \in NDirect .. Top - 1 /\ NDirect + j \in 0 .. Top - 1
        /\ (NDirect + j) - NDirect = j
    BY <1>2, <2>1 DEF Words
  <2>3. A[<<i, NDirect + j>>] # 0
    BY <1>5, <2>1, <2>2
  <2> QED BY <1>3, <1>9, <2>2, <2>3 DEF Tight
<1>10. ASSUME inode[i] # NotLoaded, ~inode[i].dirty
       PROVE  c = [d EXCEPT !.blocks = IF starved THEN c.blocks ELSE @]
  <2>1. Clean(Now, i)
    BY <1>10, NowFields DEF Clean, Loaded
  <2> DEFINE b == IF starved THEN c.blocks ELSE d.blocks
             e == [d EXCEPT !.blocks = IF starved THEN c.blocks ELSE @]
  <2>2. c.blocks = b /\ c.size = d.size /\ c.direct = d.direct /\ c.indirect = d.indirect
    BY <1>3, <2>1
  <2>3. DOMAIN d = DinFields /\ DOMAIN c = DinFields /\ Record(c)
    BY <1>1 DEF DinOK
  <2> HIDE DEF c, d
  <2>4. e = [d EXCEPT !.blocks = b]
    OBVIOUS
  <2> HIDE DEF b, e
  <2>5. e = [x \in DinFields |-> c[x]]
    BY <2>2, <2>3, <2>4 DEF DinFields
  <2> QED BY <2>3, <2>5 DEF Record, e
<1> QED BY <1>3, <1>6, <1>7, <1>8, <1>9, <1>10 DEF c

\* The invariant says what BlocksExact does.
LEMMA InvBlocks ==
  ASSUME IInv
  PROVE  BlocksExact
<1>1. Good(Now) /\ Fit(Now) /\ Excuse(Now, halt)
  BY DEF IInv
<1>2. /\ {u[4] : u \in AllUses} = Blocks \ freemap
      /\ Cardinality(AllUses) = Cardinality(Blocks \ freemap)
  BY <1>1, UsesExact
<1>3. /\ unused = Cardinality(freemap)
      /\ ~superDirty => super = [freemap |-> freemap, unused |-> unused]
  BY <1>1, NowFields DEF Fit, Mapped, Books
<1>4. /\ halt # "assert" /\ (halt = "blocks" => starved)
      /\ halt = "index" => \E p \in Procs, f \in Fds : IsOpen(files, p, f) /\ Behind(Now, p, f)
  BY <1>1, NowFields DEF Excuse, Openly, Stops
<1>5. ASSUME NEW p \in Procs, NEW f \in Fds, IsOpen(files, p, f), Behind(Now, p, f)
      PROVE  Opened(p, f) /\ files[p].fd[f].pos > DinOf(files[p].fd[f].node).size
  BY <1>5, NowFields DEF IsOpen, Opened, Live, Behind, DinOf, Cur
<1>6. halt = "index" => \E p \in Procs, f \in Fds :
        Opened(p, f) /\ files[p].fd[f].pos > DinOf(files[p].fd[f].node).size
  BY <1>4, <1>5
<1> QED BY <1>2, <1>3, <1>4, <1>6, FileExact DEF BlocksExact

(* Every state of Files satisfies the inductive invariant.                 *)
THEOREM FilesInvariance == Spec => []IInv
<1>1. Init => IInv
  BY InitInv
<1>2. IInv /\ [Next]_vars => IInv'
  BY NextInv
<1> QED BY <1>1, <1>2, PTL DEF Spec

(* ReferencesExact: an inode is in memory as long as somebody refers to    *)
(* it, and has as many references and opens as descriptors and working     *)
(* directories refer to it, whatever is opened, closed, copied by dup and  *)
(* fork, kept by exec or given back by exit, and whichever call fails half *)
(* way, but for the references that a failed exclusive open loses.         *)
THEOREM ReferencesCorrect == Spec => []ReferencesExact
<1>1. IInv => ReferencesExact
  BY InvExact
<1> QED BY <1>1, FilesInvariance, PTL

(* BlocksExact: a block is free or in one place of one file, on disk and   *)
(* in memory, whatever grows, shrinks or is emptied by an open, however    *)
(* the disk fills up, whenever an inode leaves memory, and after the       *)
(* shutdown; and no assertion about blocks, block counts and references    *)
(* fails but for a descriptor behind the end of its file, or after blocks  *)
(* ran out.                                                                *)
THEOREM BlocksCorrect == Spec => []BlocksExact
<1>1. IInv => BlocksExact
  BY InvBlocks
<1> QED BY <1>1, FilesInvariance, PTL
=============================================================================
