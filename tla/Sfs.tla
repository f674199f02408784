-------------------------------- MODULE Sfs --------------------------------
(***************************************************************************)
(* The simple file system (kern/fs/sfs): the bitmap of free blocks, the    *)
(* direct and indirect blocks of a file, inodes in memory and on disk.     *)
(*                                                                         *)
(* A call on a file is one step (nothing in it sleeps: the kernel is not   *)
(* preemptive, the disk is polled, and so no lock of the file system is    *)
(* ever found taken).  It is written as a function of a copy k of the      *)
(* state, the fields of which are the variables below; k.got is the block  *)
(* last found, k.len the words moved, k.ret what the function in hand      *)
(* returned.                                                               *)
(*                                                                         *)
(* A word is four bytes: an entry of an indirect block, or data.  The disk *)
(* does not fail.  Directories and their entries never change, as nothing  *)
(* of this version creates or removes a file.                              *)
(***************************************************************************)
EXTENDS Naturals, SequencesExt

CONSTANTS Files, Dirs,  \* the inodes of the disk
          NBlocks,      \* blocks for what is in the files
          BlkWords,     \* words of a block: SFS_BLKSIZE / 4, SFS_BLK_NENTRY
          NDirect,      \* SFS_NDIRECT
          MaxSize       \* SFS_MAX_FILE_SIZE, in words

VARIABLES freemap,      \* the blocks that are free
          unused,       \* super.unused_blocks
          superDirty,   \* super_dirty
          super,        \* freemap and unused_blocks on disk
          data,         \* block |-> its words
          dinode,       \* inode |-> sfs_disk_inode on disk
          inode,        \* inode |-> the inode in memory, or NotLoaded
          starved,      \* history: a block was asked for and there was none
          halt          \* the panic that has stopped the kernel, or "none"

ASSUME SfsAssumption ==
  /\ NBlocks \in Nat /\ MaxSize \in Nat
  /\ BlkWords \in Nat \ {0} /\ NDirect \in Nat \ {0}

Blocks    == 1 .. NBlocks
Words     == 0 .. BlkWords - 1
ZeroBlock == [w \in Words |-> 0]
EmptyDin  == [size |-> 0, blocks |-> 0,
              direct |-> [n \in 0 .. NDirect - 1 |-> 0], indirect |-> 0]
NotLoaded == [ref |-> 0]
BlocksOf(size) == (size + BlkWords - 1) \div BlkWords      \* ROUNDUP_DIV

Din(k, i)           == k.inode[i].din
Failed(k)           == k.ret # "ok" \/ k.halt # "none"
PanicIf(k, c, why)  == IF c /\ k.halt = "none" THEN [k EXCEPT !.halt = why] ELSE k

\* What n turns of a loop make of k.
Loop(Turn(_, _), k, n) ==
  LET at[m \in 0 .. n] == IF m = 0 THEN k ELSE Turn(at[m - 1], m) IN at[n]

-----------------------------------------------------------------------------
(* sfs_block_alloc and sfs_block_free; a block that was taken is cleared.  *)

\* Mutated form: what the block held stays in it.
BlockAllocOld(k) ==
  IF k.freemap = {} THEN [k EXCEPT !.ret = "no_mem", !.starved = TRUE]
  ELSE [k EXCEPT !.freemap = @ \ {Min(@)}, !.got = Min(k.freemap),
                 !.unused = @ - 1, !.superDirty = TRUE]

BlockAlloc(k) ==
  IF k.freemap = {} THEN [k EXCEPT !.ret = "no_mem", !.starved = TRUE]
  ELSE [PanicIf(k, k.unused = 0, "assert")
          EXCEPT !.freemap = @ \ {Min(@)}, !.got = Min(k.freemap), !.unused = @ - 1,
                 !.superDirty = TRUE, !.data[Min(k.freemap)] = ZeroBlock]

BlockFree(k, b) ==
  [PanicIf(k, b \notin Blocks \ k.freemap, "assert")
     EXCEPT !.freemap = @ \cup {b}, !.unused = @ + 1, !.superDirty = TRUE]

-----------------------------------------------------------------------------
(* sfs_bmap_get_nolock and what it calls: block number index of file i.    *)

SetDirect(k, i, index) ==
  IF Failed(k) THEN k
  ELSE [k EXCEPT !.inode[i].din.direct[index] = k.got, !.inode[i].dirty = TRUE]

\* The entry goes to disk at once.
SetEntry(k, ent, j) == IF Failed(k) THEN k ELSE [k EXCEPT !.data[ent][j] = k.got]

\* Mutated form of SetIndirect: the block of entries is not given back.
SetIndirectKeeping(k, i, ent, j) ==
  IF Failed(k) THEN k
  ELSE [SetEntry(k, ent, j) EXCEPT !.inode[i].din.indirect = ent, !.inode[i].dirty = TRUE]

\* A file gets its block of entries with the first entry, or neither of them.
SetIndirect(k, i, ent, j) ==
  IF Failed(k) THEN BlockFree(k, ent)
  ELSE [SetEntry(k, ent, j) EXCEPT !.inode[i].din.indirect = ent, !.inode[i].dirty = TRUE]

BmapGetSub(k, i, j, create) ==
  LET ent       == Din(k, i).indirect
      Second(t) == IF Failed(t) THEN t ELSE SetIndirect(BlockAlloc(t), i, t.got, j)
  IN  CASE ent # 0 /\ (k.data[ent][j] # 0 \/ ~create) -> [k EXCEPT !.got = k.data[ent][j]]
        [] ent # 0 /\ k.data[ent][j] = 0 /\ create    -> SetEntry(BlockAlloc(k), ent, j)
        [] ent = 0 /\ create                          -> Second(BlockAlloc(k))
        [] OTHER                                      -> [k EXCEPT !.got = 0]

BmapGet(k, i, index, create) ==
  CASE index >= NDirect + BlkWords                        -> PanicIf(k, TRUE, "range")
    [] index >= NDirect /\ index < NDirect + BlkWords     -> BmapGetSub(k, i, index - NDirect, create)
    [] index < NDirect /\ Din(k, i).direct[index] = 0 /\ create -> SetDirect(BlockAlloc(k), i, index)
    [] OTHER                                              -> [k EXCEPT !.got = Din(k, i).direct[index]]

\* sfs_bmap_load_nolock: block number index, which may be the one behind the last.
BmapLoad(k, i, index) ==
  LET n       == Din(k, i).blocks
      Load(t) == IF Failed(t) THEN t
                 ELSE [PanicIf(t, t.got \notin Blocks \ t.freemap, "assert")
                         EXCEPT !.inode[i].din.blocks = IF index = n THEN n + 1 ELSE n]
  IN  IF index > n THEN PanicIf(k, TRUE, "index") ELSE Load(BmapGet(k, i, index, index = n))

\* sfs_bmap_truncate_nolock: the last block goes; a block of entries stays.
BmapFree(k, i, index) ==
  LET j   == index - NDirect
      ent == Din(k, i).indirect
  IN  CASE index < NDirect /\ Din(k, i).direct[index] # 0 ->
             [BlockFree(k, Din(k, i).direct[index]) EXCEPT !.inode[i].din.direct[index] = 0]
        [] index >= NDirect /\ ent # 0 /\ k.data[ent][j] # 0 ->
             [BlockFree(k, k.data[ent][j]) EXCEPT !.data[ent][j] = 0]
        [] OTHER -> k

BmapTruncate(k, i) ==
  [BmapFree(k, i, Din(k, i).blocks - 1)
     EXCEPT !.inode[i].din.blocks = @ - 1, !.inode[i].dirty = TRUE]

-----------------------------------------------------------------------------
\* sfs_truncfile
Resize(k, i, len) ==
  IF Failed(k) THEN k
  ELSE [k EXCEPT !.inode[i].din.size = len, !.inode[i].dirty = TRUE]

Truncfile(k, i, len) ==
  LET now     == Din(k, i).blocks
      then    == BlocksOf(len)
      Grow(s, n)   == IF Failed(s) THEN s ELSE BmapLoad(s, i, now + n - 1)
      Shrink(s, n) == BmapTruncate(s, i)
  IN  CASE Din(k, i).size = len -> PanicIf(k, now # then, "blocks")
        [] Din(k, i).size # len /\ now < then ->
             Resize(Loop(Grow, k, then - now), i, len)
        [] OTHER -> Resize(Loop(Shrink, k, now - then), i, len)

\* sfs_tryseek: a seek past the end makes the file longer, whatever the mode.
Tryseek(k, i, pos) ==
  CASE pos >= MaxSize                           -> [k EXCEPT !.ret = "inval"]
    [] pos < MaxSize /\ pos > Din(k, i).size    -> Truncfile(k, i, pos)
    [] OTHER                                    -> k

\* sfs_io_nolock.  Words pos .. end - 1 of the file in block index:
Within(index, pos, end) ==
  {w \in pos .. end - 1 : w \div BlkWords = index}

\* One turn of the loop over blocks: x is written, or with x = 0 it is a read.
IoBlock(k, i, index, pos, end, x) ==
  LET part    == Within(index, pos, end)
      Store(t) == [w \in Words |-> IF index * BlkWords + w \in part THEN x ELSE t.data[t.got][w]]
      Move(t) == IF Failed(t) THEN t
                 ELSE [t EXCEPT !.len = @ + Cardinality(part),
                                !.data[t.got] = IF x = 0 THEN @ ELSE Store(t)]
  IN  IF Failed(k) THEN k ELSE Move(BmapLoad(k, i, index))

\* The size is set even if not one word could be written.
IoEnd(k, i, pos) ==
  IF k.halt = "none" /\ pos + k.len > Din(k, i).size
  THEN [k EXCEPT !.inode[i].din.size = pos + k.len, !.inode[i].dirty = TRUE]
  ELSE k

Io(k, i, pos, n, x) ==
  LET end   == IF x = 0 THEN Min({pos + n, MaxSize, Din(k, i).size}) ELSE Min({pos + n, MaxSize})
      first == pos \div BlkWords
      Move(s, m) == IoBlock(s, i, first + m - 1, pos, end, x)
      turns == (end - 1) \div BlkWords - first + 1
  IN  CASE pos >= MaxSize                  -> [k EXCEPT !.ret = "inval", !.len = 0]
        [] pos < MaxSize /\ pos >= end     -> [k EXCEPT !.len = 0]
        [] OTHER -> IoEnd(Loop(Move, [k EXCEPT !.len = 0], turns), i, pos)

-----------------------------------------------------------------------------
(* Inodes in memory: sfs_load_inode, sfs_fsync, sfs_reclaim.               *)

LoadInode(k, i) ==
  IF k.inode[i] = NotLoaded
  THEN [k EXCEPT !.inode[i] = [ref |-> 1, open |-> 0, reclaim |-> 1, dirty |-> FALSE,
                               din |-> k.dinode[i]]]
  ELSE [k EXCEPT !.inode[i].ref = @ + 1,
                 !.inode[i].reclaim = IF k.inode[i].ref = 0 THEN @ + 1 ELSE @]

Fsync(k, i) ==
  IF k.inode[i].dirty
  THEN [k EXCEPT !.dinode[i] = Din(k, i), !.inode[i].dirty = FALSE]
  ELSE k

\* inode_kill asserts that nobody has it open.
Reclaim(k, i) ==
  LET node    == k.inode[i]
      Kill(t) == [PanicIf(t, node.open # 0, "assert") EXCEPT !.inode[i] = NotLoaded]
  IN  IF node.reclaim # 1 THEN [k EXCEPT !.inode[i].reclaim = @ - 1] ELSE Kill(Fsync(k, i))

\* sfs_sync: the list has each inode in memory once.
Sync(k) ==
  LET Listed(i)   == i \in Files \cup Dirs /\ k.inode[i] # NotLoaded
      FsyncAll(t) == [t EXCEPT !.dinode = [i \in DOMAIN @ |-> IF Listed(i) THEN Fsync(t, i).dinode[i] ELSE @[i]],
                               !.inode  = [i \in DOMAIN @ |-> IF Listed(i) THEN Fsync(t, i).inode[i] ELSE @[i]]]
      Super(t)    == [t EXCEPT !.superDirty = FALSE,
                               !.super = IF t.superDirty THEN [freemap |-> t.freemap, unused |-> t.unused]
                                         ELSE @]
  IN  Super(FsyncAll(k))

-----------------------------------------------------------------------------
\* Entries of a block of entries, also those behind the last block of the file.
Entries(d)   == IF d.indirect = 0 THEN {} ELSE {j \in Words : data[d.indirect][j] # 0}
\* The blocks of a file, as pairs of the place that names the block and the block.
BlockUses(i, d) ==
       {<<i, "direct", n, d.direct[n]>> : n \in {n \in DOMAIN d.direct : d.direct[n] # 0}}
  \cup {<<i, "entry", j, data[d.indirect][j]>> : j \in Entries(d)}
  \cup (IF d.indirect = 0 THEN {} ELSE {<<i, "indirect", 0, d.indirect>>})
\* Block number n of a file, or 0.
BlockAt(d, n) ==
  CASE n < NDirect                     -> d.direct[n]
    [] n >= NDirect /\ d.indirect # 0  -> data[d.indirect][n - NDirect]
    [] OTHER                           -> 0
WordAt(d, w) ==
  LET b == BlockAt(d, w \div BlkWords) IN IF b = 0 THEN 0 ELSE data[b][w % BlkWords]
=============================================================================
