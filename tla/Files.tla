------------------------------- MODULE Files -------------------------------
(***************************************************************************)
(* Files of ParinOS as programs and the shell use them: the descriptors    *)
(* and system calls of src/user/user.c and the commands of src/fs/fs.c     *)
(* through the VFS (vfs.c) and its FAT adaptor (vfs_fat.c) over the driver *)
(* of FatFiles.  A call runs to its end or until the power fails after one *)
(* of its sector writes; the kernel then starts again and mounts what the  *)
(* disk holds.  Only one program runs at a time (ParentWaits in Exec), so  *)
(* calls do not interleave.                                                *)
(***************************************************************************)
EXTENDS FatFiles

CONSTANTS
  FilePaths, DirPaths,   \* paths used for files and for directories
  FDS,         \* file descriptors
  NODES,       \* nodes of the VFS pool
  FlagSets,    \* ways to open a file
  Texts,       \* sequences of bytes written
  Lens,        \* lengths read
  Seeks,       \* <<offset, whence>>
  Disks,       \* disks at boot
  Careful,     \* callers leave open files alone, open no directory as a file and
               \* only close a descriptor that failed to seek or read
  MaxSteps, MaxCrashes    \* bounds

Paths == FilePaths \cup DirPaths

VARIABLES
  vol,           \* g_root_fat and the disk behind it
  g_fd_table,    \* [FDS -> node, 0 = none]
  g_fd_is_dir,
  g_node_pool,   \* [1 .. NODES -> node]
  last,          \* history: the call made last and what it returned
  held,          \* history: what each path holds
  unsynced,      \* history: paths created, cut or written and not closed since
  torn,          \* history: power failed while unlink was between chain and entry
  steps, crashes

vars == <<vol, g_fd_table, g_fd_is_dir, g_node_pool, last, held, unsynced, torn, steps, crashes>>

FreeNode == [in_use |-> FALSE]
InUse == {n \in 1 .. NODES : g_node_pool[n].in_use}
NoCall == [op |-> "none", path |-> <<>>, err |-> "NONE"]

-----------------------------------------------------------------------------
\* What a disk holds, read from its sectors.
Item(disk, c) == ItemIn(disk[fat_sect[1] + c \div ITEMS], c % ITEMS)

ChainOf(disk, c) ==
  LET ch[i \in 0 .. clust_cnt] ==
        IF i = 0 THEN <<c>>
        ELSE LET p == ch[i - 1]
                 n == Item(disk, p[Len(p)])
             IN  IF n \in Clusters THEN Append(p, n) ELSE p
  IN  ch[clust_cnt]

SectorAt(chain, k) == clust_to_sect(chain[k \div SECT_PER_CLUST + 1]) + (k % SECT_PER_CLUST)
SectorCount(chain) == Len(chain) * SECT_PER_CLUST

DirSlots(disk, c) ==
  LET chain == ChainOf(disk, c)
  IN  [i \in 1 .. SectorCount(chain) * SLOTS |->
         SlotIn(disk[SectorAt(chain, (i - 1) \div SLOTS)], (i - 1) % SLOTS)]

\* Entries in front of the first LAST slot: the long name and the short slot.
EntriesOf(disk, c) ==
  LET s == DirSlots(disk, c)
      live == {i \in DOMAIN s : \A j \in 1 .. i : s[j].t # "last"}
  IN  {[name |-> s[i].name, sfn |-> s[i + Lfns[s[i].name]]] :
         i \in {i \in live : /\ s[i].t = "lfn" /\ s[i].head
                             /\ i + Lfns[s[i].name] \in live /\ s[i + Lfns[s[i].name]].t = "sfn"}}

\* The short slot of a path, in a set of one; {} when there is none.
RootSlot == SfnSlot("root", {"DIR"}, root_clust, 0)
Lookup(disk, path) ==
  LET at[i \in 0 .. Len(path)] ==
        IF i = 0 THEN {RootSlot}
        ELSE UNION {{e.sfn : e \in {e \in EntriesOf(disk, s.clust) : e.name = path[i]}} :
                    s \in {s \in at[i - 1] : "DIR" \in s.attr}}
  IN  at[Len(path)]

BytesOf(disk, c, size) ==
  LET chain == ChainOf(disk, c)
  IN  [i \in 1 .. size |-> IF (i - 1) \div BYTES < SectorCount(chain)
         THEN ByteIn(disk[SectorAt(chain, (i - 1) \div BYTES)], (i - 1) % BYTES) ELSE -2]   \* -2: no such byte

\* The disk as the driver sees it, its buffer included.
Buffered(v) == IF v.dirty THEN [v.disk EXCEPT ![v.sect] = v.buf] ELSE v.disk
Live == Buffered(vol)
Exists(path) == Lookup(Live, path) # {}
IsDir(path) == \E s \in Lookup(Live, path) : "DIR" \in s.attr

DirMark == <<-1>>

\* What each path holds, bytes in the buffers of open files included.
ContentsOf(v, pool) ==
  LET disk == Buffered(v)
      Writers(p) == {n \in 1 .. NODES : /\ pool[n].in_use /\ ~pool[n].is_dir /\ pool[n].path = p
                                        /\ "WRITE" \in pool[n].file.flags}
      Held(p, s) ==
        IF "DIR" \in s.attr THEN DirMark
        ELSE IF Writers(p) = {} THEN BytesOf(disk, s.clust, s.size)
        ELSE LET f == pool[CHOOSE n \in Writers(p) : TRUE].file
                 d == IF "DIRTY" \in f.flags THEN [disk EXCEPT ![f.sect] = f.buf] ELSE disk
             IN  BytesOf(d, f.sclust, f.size)
  IN  [p \in Paths |-> {Held(p, s) : s \in Lookup(disk, p)}]

OpenFiles == {n \in InUse : ~g_node_pool[n].is_dir}
OpenOn(path) == {n \in OpenFiles : g_node_pool[n].path = path}
Writing(path) == {n \in OpenOn(path) : "WRITE" \in g_node_pool[n].file.flags}
MayOpen(path, flags) ==
  ~Careful \/ (~IsDir(path) /\ Writing(path) = {} /\ ("WRITE" \in flags => OpenOn(path) = {}))
MayReplace(path) == ~Careful \/ OpenOn(path) = {}

-----------------------------------------------------------------------------
\* A call that ran as w: it ends, or the power fails after part of its writes.
AfterWrites(log) == [s \in Sectors |->
  LET k == {i \in DOMAIN log : log[i][1] = s}
  IN  IF k = {} THEN vol.disk[s] ELSE log[CHOOSE i \in k : \A j \in k : j <= i][2]]

Dangling(disk, path) == \E s \in Lookup(disk, path) : Item(disk, s.clust) = 0

Ends(w, call) ==
  /\ vol' = Volume(w) /\ last' = call /\ steps' = steps + 1
  /\ UNCHANGED <<torn, crashes>>

PowerFails(w, call) == \E n \in 0 .. Len(w.log) :
  /\ crashes < MaxCrashes
  /\ LET disk == AfterWrites(SubSeq(w.log, 1, n)) IN
       /\ vol' = fat_mount(disk).vol
       /\ torn' = (call.op = "unlink" /\ Dangling(disk, call.path))
  /\ g_fd_table' = [fd \in FDS |-> 0] /\ g_fd_is_dir' = [fd \in FDS |-> FALSE]
  /\ g_node_pool' = [i \in 1 .. NODES |-> FreeNode]
  /\ last' = [op |-> "power", path |-> call.path, err |-> "NONE"]
  /\ unsynced' = {} /\ crashes' = crashes + 1 /\ steps' = steps + 1

Running == steps < MaxSteps /\ ~torn
run == Begin(vol)

-----------------------------------------------------------------------------
\* Descriptors and nodes.
FreeFds == {fd \in FDS : g_fd_table[fd] = 0}
LowestFd == CHOOSE fd \in FreeFds : \A x \in FreeFds : fd <= x
alloc_node == CHOOSE n \in (1 .. NODES) \ InUse : \A m \in (1 .. NODES) \ InUse : n <= m
NodeOf(fd) == g_node_pool[g_fd_table[fd]]
FileFds == {fd \in FDS : g_fd_table[fd] # 0 /\ ~NodeOf(fd).is_dir /\ ~(Careful /\ NodeOf(fd).stuck)}
DirFds == {fd \in FDS : g_fd_table[fd] # 0 /\ NodeOf(fd).is_dir}

Bind(fd, n, node) ==
  /\ g_fd_table' = [g_fd_table EXCEPT ![fd] = n]
  /\ g_node_pool' = [g_node_pool EXCEPT ![n] = node]
vfs_close(fd) ==
  /\ g_fd_table' = [g_fd_table EXCEPT ![fd] = 0]
  /\ g_node_pool' = [g_node_pool EXCEPT ![g_fd_table[fd]] = FreeNode]
SameDescriptors == UNCHANGED <<g_fd_table, g_fd_is_dir, g_node_pool>>

Fits(path) == (CHOOSE s \in Lookup(Live, path) : TRUE).size

\* The node of a file that fat_file_open has opened.
fat_vfs_open(w, path) ==
  [in_use |-> TRUE, is_dir |-> FALSE, path |-> path, file |-> w.file, offset |-> 0, stuck |-> FALSE]

sys_open(path, flags) ==
  LET Changed(w) == ~Exists(path) \/ w.file.size # Fits(path)
      Opened(w) == /\ Bind(LowestFd, alloc_node, fat_vfs_open(w, path)) /\ UNCHANGED g_fd_is_dir
                   /\ unsynced' = IF Changed(w) THEN unsynced \cup {path} ELSE unsynced
      Return(w, call) ==
        \/ /\ Ends(w, call)
           /\ IF Ok(w) THEN Opened(w) ELSE SameDescriptors /\ UNCHANGED unsynced
        \/ PowerFails(w, call)
      Run(w) == Return(w, [op |-> "open", path |-> path, flags |-> flags, err |-> w.err])
  IN  /\ Running /\ FreeFds # {} /\ InUse # 1 .. NODES /\ MayOpen(path, flags)
      /\ Run(fat_file_open(run, path, flags))

SetFile(fd, w, offset) ==
  /\ g_node_pool' = [g_node_pool EXCEPT ![g_fd_table[fd]] =
       [@ EXCEPT !.file = w.file, !.offset = offset, !.stuck = ~Ok(w)]]
  /\ UNCHANGED <<g_fd_table, g_fd_is_dir>>

RunOf(fd) == [run EXCEPT !.file = NodeOf(fd).file]
At(fd) == NodeOf(fd).file.offset

sys_write(fd, data) ==
  LET Return(w, call) ==
        \/ /\ Ends(w, call) /\ SetFile(fd, w, NodeOf(fd).offset + w.cnt)
           /\ unsynced' = unsynced \cup {call.path}
        \/ PowerFails(w, call)
      Run(w) == Ok(w) /\ Return(w, [op |-> "write", path |-> NodeOf(fd).path, at |-> At(fd),
                                    data |-> data, err |-> w.err, n |-> w.cnt])
  IN  Running /\ fd \in FileFds /\ Run(fat_file_write(RunOf(fd), data))

\* A read may allocate: it moves the cursor behind the last byte.
sys_read(fd, len) ==
  LET Return(w, call) ==
        \/ /\ Ends(w, call) /\ UNCHANGED unsynced
           /\ SetFile(fd, w, IF Ok(w) THEN NodeOf(fd).offset + Len(w.got) ELSE NodeOf(fd).offset)
        \/ PowerFails(w, call)
      Run(w) == w.err # "DENIED" /\ Return(w, [op |-> "read", path |-> NodeOf(fd).path,
                                               at |-> At(fd), err |-> w.err, data |-> w.got])
  IN  Running /\ fd \in FileFds /\ Run(fat_file_read(RunOf(fd), len))

sys_lseek(fd, to) ==
  LET Return(w, call) ==
        \/ /\ Ends(w, call) /\ UNCHANGED unsynced
           /\ SetFile(fd, w, IF Ok(w) THEN w.file.offset ELSE NodeOf(fd).offset)
        \/ PowerFails(w, call)
      Run(w) == Return(w, [op |-> "lseek", path |-> NodeOf(fd).path, err |-> w.err])
  IN  Running /\ fd \in FileFds /\ Run(fat_file_seek(RunOf(fd), to[1], to[2]))

CloseRun(fd) == IF NodeOf(fd).is_dir THEN run ELSE fat_file_close(RunOf(fd))
CloseCall(fd) == [op |-> "close", path |-> NodeOf(fd).path, err |-> "NONE"]
Synced(fd) == IF NodeOf(fd).is_dir THEN unsynced ELSE unsynced \ {NodeOf(fd).path}

sys_close(fd) ==
  LET Run(w) == \/ /\ Ends(w, CloseCall(fd)) /\ vfs_close(fd) /\ UNCHANGED g_fd_is_dir
                   /\ unsynced' = Synced(fd)
                \/ PowerFails(w, CloseCall(fd))
  IN  Running /\ g_fd_table[fd] # 0 /\ Run(CloseRun(fd))

sys_opendir(path) ==
  LET Node(w) == [in_use |-> TRUE, is_dir |-> TRUE, path |-> path, dir |-> w.dir]
      Run(w) ==
        /\ Ends(w, [op |-> "list", path |-> path, err |-> w.err, name |-> "none"]) /\ UNCHANGED unsynced
        /\ IF Ok(w) THEN /\ Bind(LowestFd, alloc_node, Node(w))
                         /\ g_fd_is_dir' = [g_fd_is_dir EXCEPT ![LowestFd] = TRUE]
           ELSE SameDescriptors
  IN  Running /\ FreeFds # {} /\ InUse # 1 .. NODES /\ Run(fat_dir_open(run, path))

\* The adaptor steps on once more than fat_dir_read did.
fat_vfs_readdir(v) ==
  Then(fat_dir_read(v), LAMBDA r : [fat_dir_next(r) EXCEPT !.err = "NONE"])

sys_readdir(fd) ==
  LET Run(w) ==
        /\ Ends(w, [op |-> "list", path |-> NodeOf(fd).path, err |-> w.err, name |-> w.entry.name])
        /\ g_node_pool' = [g_node_pool EXCEPT ![g_fd_table[fd]].dir = w.dir]
        /\ UNCHANGED <<unsynced, g_fd_table, g_fd_is_dir>>
  IN  Running /\ fd \in DirFds /\ g_fd_is_dir[fd] /\ Run(fat_vfs_readdir([run EXCEPT !.dir = NodeOf(fd).dir]))

sys_closedir(fd) ==
  LET Run(w) == /\ Ends(w, CloseCall(fd)) /\ vfs_close(fd) /\ unsynced' = Synced(fd)
                /\ g_fd_is_dir' = [g_fd_is_dir EXCEPT ![fd] = FALSE]
  IN  Running /\ g_fd_table[fd] # 0 /\ g_fd_is_dir[fd] /\ Run(CloseRun(fd))

\* A call without a descriptor; synced: the path is closed when it returns.
PathCall(w, call, synced) ==
  \/ Ends(w, call) /\ SameDescriptors /\ unsynced' = IF synced THEN unsynced \ {call.path} ELSE unsynced
  \/ PowerFails(w, call)

sys_unlink(path) ==
  LET Run(w) == PathCall(w, [op |-> "unlink", path |-> path, err |-> w.err], FALSE)
  IN  Running /\ MayReplace(path) /\ Run(fat_unlink(run, path))

sys_mkdir(path) ==
  LET Run(w) == PathCall(w, [op |-> "mkdir", path |-> path, err |-> w.err], FALSE)
  IN  Running /\ Run(fat_dir_create(run, path))

sys_stat(path) ==
  LET Run(w) == /\ Ends(w, [op |-> "stat", path |-> path, err |-> w.err, size |-> w.entry.size])
                /\ SameDescriptors /\ UNCHANGED unsynced
  IN  Running /\ Run(fat_stat(run, path))

\* The kernel shell's echo TEXT > PATH, cat PATH and cp.
fs_write_string(path, text) ==
  LET Run(w) == PathCall(w, [op |-> "echo", path |-> path, data |-> text, err |-> w.err], TRUE)
  IN  /\ Running /\ MayReplace(path) /\ (Careful => ~IsDir(path))
      /\ Run(Then(fat_file_open(run, path, {"CREATE", "WRITE", "TRUNC"}),
                  LAMBDA x : fat_file_close(fat_file_write(x, text))))

fs_cat(path) ==
  LET Run(w) == PathCall(w, [op |-> "read", path |-> path, at |-> 0, err |-> w.err, data |-> w.got], FALSE)
  IN  /\ Running /\ MayOpen(path, {"READ"})
      /\ Run(Then(fat_file_open(run, path, {"READ"}),
                  LAMBDA x : fat_file_close(fat_file_read(x, x.file.size))))

\* file is the source and other the copy, sector by sector; errors are ignored.
fs_redirect_to_file(from, path) ==
  LET Swap(w) == [w EXCEPT !.file = w.other, !.other = w.file]
      Part(r) == IF r.got = <<>> THEN [r EXCEPT !.halt = TRUE]
                 ELSE Swap(fat_file_write(Swap([r EXCEPT !.err = "NONE"]), r.got))
      Step(w) == IF w.file.offset >= w.file.size THEN [w EXCEPT !.halt = TRUE]
                 ELSE Part([fat_file_read(w, BYTES) EXCEPT !.halt = FALSE])
      Closed(w) == fat_file_close(Swap(fat_file_close(w)))
      Copied(w, s) == IF Ok(w) THEN Closed(Loop(Step, Swap([w EXCEPT !.other = s.file])))
                      ELSE fat_file_close([w EXCEPT !.file = s.file])
      Into(s) == Copied(fat_file_open(s, path, {"CREATE", "WRITE", "TRUNC"}), s)
      Run(w) == PathCall(w, [op |-> "copy", path |-> path, from |-> from, err |-> w.err], TRUE)
  IN  /\ Running /\ from # path /\ MayOpen(from, {"READ"}) /\ MayReplace(path) /\ (Careful => ~IsDir(path))
      /\ Run(Then(fat_file_open(run, from, {"READ"}), Into))

Init ==
  /\ \E d \in Disks : fat_mount(d).ok /\ vol = fat_mount(d).vol
  /\ g_fd_table = [fd \in FDS |-> 0] /\ g_fd_is_dir = [fd \in FDS |-> FALSE]
  /\ g_node_pool = [n \in 1 .. NODES |-> FreeNode]
  /\ last = NoCall /\ held = ContentsOf(vol, g_node_pool) /\ unsynced = {} /\ torn = FALSE /\ steps = 0 /\ crashes = 0

Observed == held' = ContentsOf(vol', g_node_pool')

Next ==
  \/ \E p \in FilePaths, f \in FlagSets : sys_open(p, f) /\ Observed
  \/ \E fd \in FDS, t \in Texts : sys_write(fd, t) /\ Observed
  \/ \E fd \in FDS, n \in Lens : sys_read(fd, n) /\ Observed
  \/ \E fd \in FDS, to \in Seeks : sys_lseek(fd, to) /\ Observed
  \/ \E fd \in FDS : sys_close(fd) /\ Observed
  \/ \E p \in DirPaths : sys_opendir(p) /\ Observed
  \/ \E fd \in FDS : sys_readdir(fd) /\ Observed
  \/ \E fd \in FDS : sys_closedir(fd) /\ Observed
  \/ \E p \in Paths : sys_unlink(p) /\ Observed
  \/ \E p \in DirPaths : sys_mkdir(p) /\ Observed
  \/ \E p \in FilePaths : sys_stat(p) /\ Observed
  \/ \E p \in FilePaths, t \in Texts : fs_write_string(p, t) /\ Observed
  \/ \E p \in FilePaths : fs_cat(p) /\ Observed
  \/ \E p, q \in FilePaths : fs_redirect_to_file(p, q) /\ Observed

Spec == Init /\ [][Next]_vars

-----------------------------------------------------------------------------
\* Sectors, clusters, descriptors and nodes stay in their tables: a cluster
\* number or a sector computed from one never leaves the volume.
TypeOK ==
  /\ vol.sect \in Sectors /\ vol.last_used \in 0 .. clust_cnt - 1
  /\ g_fd_table \in [FDS -> 0 .. NODES] /\ g_fd_is_dir \in [FDS -> BOOLEAN]
  /\ \A n \in InUse : LET node == g_node_pool[n] IN
       (IF node.is_dir THEN node.dir.sect ELSE node.file.sect) \in Sectors
  /\ unsynced \subseteq Paths /\ torn \in BOOLEAN /\ crashes \in 0 .. MaxCrashes

Slots(disk) == {RootSlot} \cup UNION {Lookup(disk, p) : p \in Paths}

SoundChains(disk) ==
  /\ \A s \in Slots(disk) : LET ch == ChainOf(disk, s.clust) IN
       /\ Item(disk, ch[Len(ch)]) = EOC
       /\ s.size <= Len(ch) * CSIZE
       /\ \A i, j \in DOMAIN ch : ch[i] = ch[j] => i = j
  /\ \A s, t \in Slots(disk) : s # t =>
       LET c == ChainOf(disk, s.clust)
           d == ChainOf(disk, t.clust)
       IN  \A i \in DOMAIN c, j \in DOMAIN d : c[i] # d[j]

\* Every chain of the volume as the driver sees it ends in an end mark, has a
\* cluster for every byte of the size, no loop and no cluster of another
\* chain, after any calls and a power failure between any two sector writes.
\* The exception is a power failure inside fat_unlink, between the release of
\* the chain and the removal of the entry (torn).
ChainsSound == ~torn => SoundChains(Live)

\* The same of what lies on the disk while the driver's buffer is not written
\* back: switching off between two calls never leaves a broken chain.
DiskSound == ~torn => SoundChains(vol.disk)

\* dir_search and fat_dir_read stop at a LAST slot: dir_add, which overwrites
\* the old one and may add a cluster, always leaves another behind it.
DirTerminated == ~torn => \A s \in Slots(Live) : "DIR" \in s.attr =>
  \E i \in DOMAIN DirSlots(Live, s.clust) : DirSlots(Live, s.clust)[i].t = "last"

\* Until power fails the count of free clusters that fat.c keeps in memory is
\* the number of free items, and the two copies of the table are the same.
TablesAgree == crashes = 0 =>
  /\ vol.free_cnt = Cardinality({c \in 0 .. clust_cnt - 1 : Item(Live, c) = 0})
  /\ \A k \in 0 .. FAT_SECTS - 1 : Live[fat_sect[1] + k] = Live[fat_sect[2] + k]

\* Whatever sequence of calls has run, and wherever power failed in it: chains
\* end and do not cross, directories end, and the driver's tables and counters
\* agree with the volume.
VolumeSound == TypeOK /\ ChainsSound /\ DirTerminated /\ TablesAgree

\* The cluster an open file remembers is the one its offset lies in, counted
\* along the chain, however seeks, reads and writes moved and grew it.
CursorOnChain == \A n \in OpenFiles :
  LET f == g_node_pool[n].file
      ch == ChainOf(Live, f.sclust)
  IN  ~g_node_pool[n].stuck => f.offset \div CSIZE < Len(ch) /\ f.clust = ch[f.offset \div CSIZE + 1]

\* Every call returns, and none finds the volume broken: the loops of the
\* driver over chains and slots end, also after a power failure and when the
\* volume is full.
CallsReturn == [][~torn' => last'.err \notin {"HANG", "BROKEN"}]_vars

Store == INSTANCE FileStore WITH PathNames <- Paths, DirMark <- DirMark,
           files <- held, unsynced <- unsynced, call <- last

\* The calls implement FileStore: each changes the file it names and no other,
\* reads deliver what was written, a directory with files stays, and a power
\* failure harms only what was not closed.
StoreRefined == Store!Init /\ [][~torn' => Store!Next]_vars

\* fat.c:1356 says of fat_file_write that it returns the error code and the
\* number of bytes written: without an error, so many bytes are in the file.
WriteReported ==
  [][last'.op = "write" /\ last'.err = "NONE" =>
       \E s \in held'[last'.path] : /\ Len(s) >= last'.at + last'.n
                                    /\ SubSeq(s, last'.at + 1, last'.at + last'.n) = SubSeq(last'.data, 1, last'.n)]_vars

\* vfs.h:84 says of readdir that it reads the next entry: every name it
\* delivers is the name of an entry of the directory.
ReadsEntries ==
  [][last'.op = "list" /\ last'.err = "NONE" /\ last'.name # "none" =>
       \E s \in Lookup(Live, last'.path) : \E e \in EntriesOf(Live, s.clust) \cup
            {[name |-> n, sfn |-> 0] : n \in {"dot", "dotdot"}} : e.name = last'.name]_vars

\* VIEW: the state without the call made last and what follows from it.
View == <<vol, g_fd_table, g_fd_is_dir, g_node_pool, unsynced, torn, steps, crashes>>

=============================================================================
