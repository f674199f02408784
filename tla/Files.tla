------------------------------- MODULE Files -------------------------------
(***************************************************************************)
(* Files as processes see them: descriptors and working directories        *)
(* (kern/fs/file.c, fs.c), the virtual file system (kern/fs/vfs), and what *)
(* fork, exec, exit and the shutdown do with them (process/proc.c), over   *)
(* the simple file system of Sfs.                                          *)
(*                                                                         *)
(* A path is what it leads to: an inode, or Missing, or TooLong: its name  *)
(* is on no disk, and is longer than names are.  The inodes on the way     *)
(* are taken and given back within the call.  The one device is stdout;    *)
(* reads that sleep are in Stdin.  No two processes share a table of       *)
(* descriptors, since no call sets CLONE_FS, so that a descriptor is in    *)
(* use by one call at a time: its open_count is 1 if it is open, else 0.   *)
(***************************************************************************)
EXTENDS Sfs

CONSTANTS Procs, First,  \* processes; user_main, the first of them
          Root, Device,  \* the root directory, stdout
          NFds, Kept,    \* FILES_STRUCT_NENTRY; what exec leaves open, 2 in the code
          Values,        \* what programs write
          Loads,         \* what the processes may call, see Next
          MaxLeaks       \* bound: failed exclusive opens

VARIABLES load,          \* which of the Loads
          files,         \* process |-> files_struct, or NoFiles
          leaked,        \* history: inode |-> references nobody gives back
          down           \* the kernel was shut down, and the disk mounted again

fsVars == <<freemap, unused, superDirty, super, data, dinode, inode, starved, halt,
            files, leaked, down>>
vars   == <<fsVars, load>>

ASSUME FilesAssumption ==
  /\ IsFiniteSet(Procs) /\ First \in Procs
  /\ Files \cap Dirs = {} /\ Root \in Dirs /\ Device \notin Files \cup Dirs
  /\ NFds \in Nat /\ Kept \in 0 .. NFds - 1

Inodes  == Files \cup Dirs \cup {Device}
Missing == "missing"
TooLong == "too_long"
Nowhere == {Missing, TooLong}
Fds     == 0 .. NFds - 1
NoFiles == [pwd |-> Missing]
NoFd    == [node |-> Missing]                 \* FD_NONE
AllNone == [f \in Fds |-> NoFd]               \* fd_array_init

ASSUME LoadsAssumption == \A l \in Loads :
  /\ l.procs \subseteq Procs /\ l.nodes \subseteq Inodes \cup Nowhere
  /\ \A open \in l.opens : open[1] \in Inodes \cup Nowhere
  /\ l.lens \subseteq Nat /\ l.seeks \subseteq Nat
  /\ l.stored \in Seq(Files) /\ IsInjective(l.stored) /\ Len(l.stored) <= NBlocks

Now == [freemap |-> freemap, unused |-> unused, superDirty |-> superDirty, super |-> super,
        data |-> data, dinode |-> dinode, inode |-> inode, starved |-> starved, halt |-> halt,
        files |-> files, leaked |-> leaked, got |-> 0, len |-> 0, ret |-> "ok"]

\* After a panic nothing else is seen of the handler.
Become(k) ==
  \/ /\ k.halt = "none" /\ UNCHANGED <<halt, down, load>>
     /\ freemap' = k.freemap /\ unused' = k.unused /\ superDirty' = k.superDirty
     /\ super' = k.super /\ data' = k.data /\ dinode' = k.dinode /\ inode' = k.inode
     /\ starved' = k.starved /\ files' = k.files /\ leaked' = k.leaked
  \/ /\ k.halt # "none" /\ halt' = k.halt
     /\ UNCHANGED <<freemap, unused, superDirty, super, data, dinode, inode, starved,
                    files, leaked, down, load>>

Live(p)      == files[p] # NoFiles
Opened(p, f) == Live(p) /\ files[p].fd[f] # NoFd
Open(k, p)   == {f \in Fds : k.files[p].fd[f] # NoFd}

-----------------------------------------------------------------------------
(* Inodes: kern/fs/vfs/inode.c.  The device table has a reference to the   *)
(* device for good, so that only inodes of the disk are reclaimed.         *)

RefInc(k, i)  == [k EXCEPT !.inode[i].ref = @ + 1]
OpenInc(k, i) == [k EXCEPT !.inode[i].open = @ + 1]

RefDec(k, i) ==
  LET Drop(t) == IF t.inode[i].ref = 0 THEN Reclaim(t, i) ELSE t
  IN  IF k.inode[i].ref = 0 THEN PanicIf(k, TRUE, "assert")
      ELSE Drop([k EXCEPT !.inode[i].ref = @ - 1])

\* The last close of a file writes its inode to disk.
OpenDec(k, i) ==
  LET Drop(t) == IF t.inode[i].open = 0 THEN Fsync(t, i) ELSE t
  IN  IF k.inode[i].open = 0 THEN PanicIf(k, TRUE, "assert")
      ELSE Drop([k EXCEPT !.inode[i].open = @ - 1])

-----------------------------------------------------------------------------
(* kern/fs/vfs: lookup, open, close, change of the working directory.      *)

VfsLookup(k, i) == IF i = Device THEN RefInc(k, i) ELSE LoadInode(k, i)

\* vfs_lookup of what is not there: sfs_dirent_search_nolock asserts that a name is not
\* longer than SFS_MAX_FNAME_LEN, and nobody has looked before.
LookupFails(k, i) == PanicIf([k EXCEPT !.ret = "no_ent"], i = TooLong, "name")

VfsClose(k, i)  == RefDec(OpenDec(k, i), i)

\* vop_open: stdout_open, sfs_opendir and sfs_openfile
OpenRefused(i, fl) ==
  \/ i = Device /\ (fl.read \/ fl.create \/ fl.excl \/ fl.trunc \/ fl.append)
  \/ i \in Dirs /\ (fl.write \/ fl.append)

\* A file that is there is emptied by O_CREAT too.  Only files have vop_truncate.
VfsTruncate(k, i) == IF i \in Files THEN Truncfile(k, i, 0) ELSE PanicIf(k, TRUE, "no_op")

\* Mutated form of Refuse: a refused open keeps the reference.
RefuseKeeping(k, i) == [k EXCEPT !.ret = "refused"]
Refuse(k, i)        == [RefDec(k, i) EXCEPT !.ret = "refused"]

\* An exclusive open of what is there does not give back the reference.
VfsOpen(k, i, fl) ==
  LET Lose(t)  == [t EXCEPT !.leaked[i] = @ + 1, !.ret = "exists"]
      Admit(t) == IF fl.trunc \/ fl.create THEN VfsTruncate(t, i) ELSE t
      Found(t) == CASE fl.excl /\ fl.create -> Lose(t)
                    [] ~(fl.excl /\ fl.create) /\ OpenRefused(i, fl) -> Refuse(t, i)
                    [] OTHER -> Admit(OpenInc(t, i))
  IN  CASE fl.trunc /\ ~fl.write -> [k EXCEPT !.ret = "inval"]
        [] ~(fl.trunc /\ ~fl.write) /\ i \in Nowhere ->
             PanicIf(LookupFails(k, i), fl.create, "no_op")
        [] OTHER -> Found(VfsLookup(k, i))

\* vfs_chdir and vfs_set_curdir
SetCurdir(k, p, i) ==
  LET old     == k.files[p].pwd
      Enter(t) == RefDec([t EXCEPT !.files[p].pwd = i], old)
  IN  CASE i \notin Dirs           -> [k EXCEPT !.ret = "not_dir"]
        [] i \in Dirs /\ i = old   -> k
        [] OTHER                   -> Enter(RefInc(k, i))

VfsChdir(k, p, i) ==
  IF i \in Nowhere THEN LookupFails(k, i) ELSE RefDec(SetCurdir(VfsLookup(k, i), p, i), i)

-----------------------------------------------------------------------------
(* Descriptors: kern/fs/file.c.                                            *)

\* fd_array_alloc(NO_FD), or the descriptor asked for, as \E f in the actions
LowestFree(k, p) == Min(Fds \ Open(k, p))

\* file_open; O_APPEND only sets where the descriptor begins.
FileOpen(k, p, i, fl) ==
  LET file(t) == [node |-> i, read |-> fl.read, write |-> fl.write,
                  pos |-> IF fl.append THEN Din(t, i).size ELSE 0]
      Put(t)  == IF Failed(t) THEN t ELSE [t EXCEPT !.files[p].fd[LowestFree(k, p)] = file(t)]
  IN  IF Open(k, p) = Fds THEN [k EXCEPT !.ret = "max_open"] ELSE Put(VfsOpen(k, i, fl))

FdClose(k, p, f) ==
  [VfsClose(k, k.files[p].fd[f].node) EXCEPT !.files[p].fd[f] = NoFd]

\* fd_array_dup: the copy has a position of its own.
FdDup(k, to, f, file) ==
  [OpenInc(RefInc(k, file.node), file.node) EXCEPT !.files[to].fd[f] = file]

\* file_read and file_write, of n words from the position of the descriptor.
FileIo(k, p, f, n, x) ==
  LET file    == k.files[p].fd[f]
      Move(t) == [t EXCEPT !.files[p].fd[f].pos = @ + t.len]
  IN  CASE file.node \in Files -> Move(Io(k, file.node, file.pos, n, x))
        [] file.node \in Dirs  -> PanicIf(k, TRUE, "no_op")     \* neither vop_read nor vop_write
        [] OTHER               -> k                             \* the position is of no use

FileSeek(k, p, f, pos) ==
  LET i       == k.files[p].fd[f].node
      Move(t) == IF Failed(t) THEN t ELSE [t EXCEPT !.files[p].fd[f].pos = pos]
  IN  CASE i \in Files -> Move(Tryseek(k, i, pos))
        [] i \in Dirs  -> PanicIf(k, TRUE, "no_op")
        [] OTHER       -> [k EXCEPT !.ret = "inval"]

-----------------------------------------------------------------------------
(* Tables of descriptors: kern/fs/fs.c.                                    *)

CloseFrom(k, p, first) ==
  LET Close(s, n) == IF s.files[p].fd[first + n - 1] = NoFd THEN s ELSE FdClose(s, p, first + n - 1)
  IN  Loop(Close, k, NFds - first)

FilesDestroy(k, p) ==
  LET Close(t) == [CloseFrom(t, p, 0) EXCEPT !.files[p] = NoFiles]
  IN  Close(RefDec(k, k.files[p].pwd))

\* files_create and dup_files
DupFiles(k, to, from) ==
  LET Dup(s, n) == IF s.files[from].fd[n - 1] = NoFd THEN s
                   ELSE FdDup(s, to, n - 1, s.files[from].fd[n - 1])
      pwd       == k.files[from].pwd
  IN  Loop(Dup, RefInc([k EXCEPT !.files[to] = [pwd |-> pwd, fd |-> AllNone]], pwd), NFds)

-----------------------------------------------------------------------------
(* Actions: system calls, and the end of the system.                       *)

\* init has changed to the root and set it as bootfs; user_main comes after it.
FreshInode(i) ==
  CASE i = Root   -> [ref |-> 3, open |-> 0, reclaim |-> 1, dirty |-> FALSE, din |-> EmptyDin]
    [] i = Device -> [ref |-> 1, open |-> 0, reclaim |-> 1, dirty |-> FALSE, din |-> EmptyDin]
    [] OTHER      -> NotLoaded

Init ==
  /\ load \in Loads
  /\ freemap = Blocks \ DOMAIN load.stored /\ unused = NBlocks - Len(load.stored) /\ superDirty = FALSE
  /\ super = [freemap |-> freemap, unused |-> unused]
  /\ data = [b \in Blocks |-> ZeroBlock]
  /\ dinode = [i \in Files \cup Dirs |->
       IF i \in Range(load.stored)
       THEN [EmptyDin EXCEPT !.size = BlkWords, !.blocks = 1,
                             !.direct[0] = CHOOSE b \in DOMAIN load.stored : load.stored[b] = i]
       ELSE EmptyDin]
  /\ inode = [i \in Inodes |-> FreshInode(i)]
  /\ starved = FALSE /\ halt = "none" /\ down = FALSE
  /\ files = [p \in Procs |-> IF p = First THEN [pwd |-> Root, fd |-> AllNone] ELSE NoFiles]
  /\ leaked = [i \in Inodes |-> 0]

SysOpen(p, i, fl) ==
  /\ Live(p) /\ Cardinality(Open(Now, p)) < load.most
  /\ fl.excl => MapThenSumSet(LAMBDA j : leaked[j], Inodes) < MaxLeaks
  /\ Become(FileOpen(Now, p, i, fl))

SysClose(p, f) == Opened(p, f) /\ Become(FdClose(Now, p, f))

SysDup(p, f, g) ==
  /\ Opened(p, f) /\ ~Opened(p, g) /\ Cardinality(Open(Now, p)) < load.most
  /\ Become(FdDup(Now, p, g, files[p].fd[f]))

SysRead(p, f, n) == Opened(p, f) /\ files[p].fd[f].read /\ Become(FileIo(Now, p, f, n, 0))

SysWrite(p, f, n, x) == Opened(p, f) /\ files[p].fd[f].write /\ Become(FileIo(Now, p, f, n, x))

SysSeek(p, f, pos) == Opened(p, f) /\ Become(FileSeek(Now, p, f, pos))

\* A device has no vop_fsync.
SysFsync(p, f) ==
  /\ Opened(p, f)
  /\ Become(IF files[p].fd[f].node = Device THEN PanicIf(Now, TRUE, "no_op")
            ELSE Fsync(Now, files[p].fd[f].node))

SysChdir(p, i) == Live(p) /\ Become(VfsChdir(Now, p, i))

Fork(p, child) == Live(p) /\ ~Live(child) /\ Become(DupFiles(Now, child, p))

Exit(p) == Live(p) /\ Become(FilesDestroy(Now, p))

\* do_execve with load_icode: the header of program i is read, then a word at
\* off, and if all is well the file is closed; if not the process exits.
ReadOnly == [read |-> TRUE, write |-> FALSE, create |-> FALSE, excl |-> FALSE,
             trunc |-> FALSE, append |-> FALSE]
IcodeRead(k, p, f, off) ==
  LET Read(t) == IF Failed(t) THEN t ELSE FileIo(t, p, f, 1, 0)
      Full(t) == IF ~Failed(t) /\ t.len = 0 THEN [t EXCEPT !.ret = "short"] ELSE t
  IN  IF Failed(k) THEN k ELSE Full(Read(FileSeek(k, p, f, off)))

Exec(p, i, off, good) ==
  LET Leave(t)   == IF t.halt = "none" THEN FilesDestroy(t, p) ELSE t
      Load(t, f) == IcodeRead(IcodeRead(t, p, f, 0), p, f, off)
      End(t, f)  == IF Failed(t) \/ ~good THEN Leave(t) ELSE FdClose(t, p, f)
      Go(t, f)   == IF Failed(t) THEN Leave(t) ELSE End(Load(t, f), f)
      Run(t)     == Go(FileOpen(t, p, i, ReadOnly), LowestFree(t, p))
  IN  Live(p) /\ Become(Run(CloseFrom(Now, p, Kept)))

\* fs_cleanup when all processes have ended; then the power goes, and a new
\* kernel mounts the disk, which asserts that unused_blocks is right.
Shutdown ==
  /\ \A p \in Procs : ~Live(p)
  /\ ~down
  /\ \E k \in {Sync(Now)} :
       /\ super' = k.super /\ dinode' = k.dinode
       /\ freemap' = k.super.freemap /\ unused' = k.super.unused
       /\ halt' = IF k.super.unused = Cardinality(k.super.freemap) THEN "none" ELSE "assert"
  /\ superDirty' = FALSE /\ down' = TRUE
  /\ inode' = [i \in Inodes |-> NotLoaded]
  /\ leaked' = [i \in Inodes |-> 0]
  /\ UNCHANGED <<data, starved, files, load>>

Stopped == (down \/ halt # "none") /\ UNCHANGED vars

\* The load bounds who calls what: a few loads reach more than one that has all.
Next ==
  \/ /\ halt = "none" /\ ~down
     /\ \/ \E p \in load.procs :
             \/ \E open \in load.opens : SysOpen(p, open[1], open[2])
             \/ \E i \in load.nodes : \/ SysChdir(p, i)
                                      \/ \E off \in load.seeks, good \in BOOLEAN : Exec(p, i, off, good)
             \/ \E f \in Fds : \/ SysClose(p, f)
                               \/ \E g \in Fds : SysDup(p, f, g)
                               \/ \E n \in load.lens : \/ SysRead(p, f, n)
                                                       \/ \E x \in Values : SysWrite(p, f, n, x)
                               \/ \E pos \in load.seeks : SysSeek(p, f, pos)
                               \/ SysFsync(p, f)
             \/ \E child \in load.procs : Fork(p, child)
             \/ Exit(p)
        \/ Shutdown
  \/ Stopped

Spec == Init /\ [][Next]_vars

-----------------------------------------------------------------------------
OpensOf(i) == Cardinality({pf \in Procs \X Fds : Opened(pf[1], pf[2]) /\ files[pf[1]].fd[pf[2]].node = i})
RefsOf(i)  == OpensOf(i) + Cardinality({p \in Procs : Live(p) /\ files[p].pwd = i}) + leaked[i]
              + (IF i = Root THEN 2 ELSE IF i = Device THEN 1 ELSE 0)

\* An inode is in memory as long as somebody refers to it, and no longer; its counts
\* are those of the descriptors and working directories that refer to it, in
\* all processes, whatever call failed half way, but for the references
\* that a failed exclusive open loses (vfsfile.c:46).
ReferencesExact ==
  down \/ \A i \in Inodes :
            IF RefsOf(i) = 0 THEN inode[i] = NotLoaded
            ELSE /\ inode[i].ref = RefsOf(i) /\ inode[i].open = OpensOf(i)
                 /\ inode[i].reclaim = 1

DinOf(i) == IF inode[i] = NotLoaded THEN dinode[i] ELSE inode[i].din
AllUses  == UNION {BlockUses(i, DinOf(i)) : i \in Files}

\* A block is free, or is in one place of one file; the count of free blocks is right,
\* and so are, once written, superblock and freemap on disk.  A file has the blocks
\* below its block count and, unless blocks once ran out, as many as its size needs,
\* and the disk has the inode as it is in memory unless that is dirty.  Of the
\* assertions about blocks, block counts and references (sfs_inode.c, sfs_fs.c, bitmap.c,
\* inode.c, fs.c) none fails but two: "index", a write from a position that another
\* descriptor's truncation left behind the end, and "blocks", a truncation after a
\* growth that found no block.  What else a call can stop the kernel with says nothing
\* about blocks: "range", a block number behind the indirect block, "no_op", an operation
\* that the inode has not (inode.h:196), and "name", a long name (sfs_inode.c:442).
BlocksExact ==
  /\ {u[4] : u \in AllUses} = Blocks \ freemap
  /\ Cardinality(AllUses) = Cardinality(Blocks \ freemap)
  /\ unused = Cardinality(freemap)
  /\ ~superDirty => super = [freemap |-> freemap, unused |-> unused]
  /\ \A i \in Files :
       LET d == DinOf(i) IN
       /\ \A n \in 0 .. d.blocks - 1 : BlockAt(d, n) # 0
       /\ \A n \in DOMAIN d.direct : d.direct[n] # 0 => n < d.blocks
       /\ d.size < (d.blocks + 1) * BlkWords
       /\ ~starved => d.blocks = BlocksOf(d.size) /\ \A j \in Entries(d) : NDirect + j < d.blocks
       /\ inode[i] # NotLoaded /\ ~inode[i].dirty =>
            dinode[i] = [d EXCEPT !.blocks = IF starved THEN dinode[i].blocks ELSE @]
  /\ halt # "assert"
  /\ halt = "index" => \E p \in Procs, f \in Fds :
       Opened(p, f) /\ files[p].fd[f].pos > DinOf(files[p].fd[f].node).size
  /\ halt = "blocks" => starved

\* What programs see of the files: their words, and the positions of the descriptors.
Content == [i \in Files |-> [n \in 1 .. DinOf(i).size |-> WordAt(DinOf(i), n - 1)]]
Places  == [d \in Procs \X Fds |->
              IF Opened(d[1], d[2]) /\ files[d[1]].fd[d[2]].node \in Files
              THEN [file |-> files[d[1]].fd[d[2]].node, pos |-> files[d[1]].fd[d[2]].pos]
              ELSE [pos |-> 0]]
Seen    == [content |-> Content, at |-> Places]

Contents == INSTANCE FileContents WITH
  Descriptors <- Procs \X Fds, content <- Content, at <- Places

\* From s to t: a file has changed in a call that is for that, only the file it is about.
ChangesOnly(p, s, t) ==
  \/ \E f \in Fds, n \in load.lens, x \in Values : SysWrite(p, f, n, x) /\ Contents!Write(s, t, <<p, f>>, x)
  \/ \E f \in Fds, pos \in load.seeks : SysSeek(p, f, pos) /\ Contents!Seek(s, t, <<p, f>>)
  \/ \E open \in load.opens, f \in Fds : /\ open[2].trunc \/ open[2].create
                                         /\ SysOpen(p, open[1], open[2])
                                         /\ Contents!Open(s, t, <<p, f>>, open[1])
  \/ \E i \in load.nodes, off \in load.seeks, good \in BOOLEAN :
       Exec(p, i, off, good) /\ Contents!Exec(s, t, i)

\* And a write has written x where its descriptor is, all that it was asked to unless
\* blocks once ran out or the file has the greatest size; a truncating open has truncated.
ChangesAll(p, f, s, t) ==
  LET d == <<p, f>> IN
  /\ s.at[d] # Contents!Closed => \A n \in load.lens, x \in Values :
       SysWrite(p, f, n, x) =>
         /\ Contents!Write(s, t, d, x)
         /\ starved' \/ t.at[d].pos = Min({s.at[d].pos + n, MaxSize})
  /\ s.at[d] = Contents!Closed /\ t.at[d] # Contents!Closed => \A open \in load.opens :
       SysOpen(p, open[1], open[2]) /\ (open[2].trunc \/ open[2].create) => t.content[open[1]] = <<>>

\* What is in the files is what was written, whichever descriptor wrote it, however the
\* blocks were found, whenever the inode was dropped from memory and loaded again, and
\* after a shutdown: Files implements FileContents.  Each call that changes files
\* does what it is for, and no other call, nor the shutdown, changes one.
FilesPersist ==
  /\ Contents!Spec
  /\ [][\E s \in {Seen}, t \in {Seen'} :
          /\ s.content # t.content => \E p \in Procs : ChangesOnly(p, s, t)
          /\ halt' = "none" => \A p \in Procs, f \in Fds : ChangesAll(p, f, s, t)]_vars
=============================================================================
