------------------------------ MODULE FatFiles ------------------------------
(***************************************************************************)
(* The interface of the FAT32 driver (src/fs/fat.c from line 998): mount,  *)
(* files and directories, over the sectors, chains and slots of Fat.       *)
(***************************************************************************)
EXTENDS Fat

NoSect == -1     \* file->sect of a file without a sector yet

Least(a, b) == IF a < b THEN a ELSE b

\* What mounting reads from the disk; false: there is no volume.
fat_mount(disk) ==
  LET info == disk[info_sect] IN
  [ok |-> "boot" \in DOMAIN disk[0] /\ "next_free" \in DOMAIN info,
   vol |-> [disk |-> disk, buf |-> ZeroSector, sect |-> 0, dirty |-> FALSE, info_dirty |-> FALSE,
            last_used |-> info.next_free, free_cnt |-> info.free_cnt]]

\* dir moves on behind the entry it delivers.
fat_dir_read(v) ==
  LET Take(w, name) == [dir_next([w EXCEPT !.entry = [name |-> name, size |-> Slot(w).size]])
                          EXCEPT !.err = "NONE", !.halt = TRUE]
      At(w) == IF Slot(w).t = "last" THEN Fail(w, "EOF")
               ELSE IF Slot(w).t = "free" THEN dir_next(w)
               ELSE IF Slot(w).t # "lfn" THEN Take(w, Slot(w).name)
               ELSE Then(parse_lfn_name(w), LAMBDA p : Take(p, p.entry.name))
  IN  Loop(LAMBDA u : At(Load(u)), v)

fat_stat(v, path) == Then(follow_path(v, path), LAMBDA w : fat_dir_read(AtLoc(w)))

\* A directory may go when nothing is behind its first two slots.
IsEmptyDir(v, clust) ==
  LET At(w) == IF Slot(w).t = "last" THEN [w EXCEPT !.halt = TRUE]
               ELSE IF Slot(w).t # "free" THEN Fail(w, "DENIED") ELSE dir_next(w)
  IN  Then(Then(Then(dir_enter(v, clust), dir_next), dir_next),
           LAMBDA w : Loop(LAMBDA u : At(Load(u)), w))

fat_unlink_NoSync(v, path) ==
  LET Entries(w, at) == remove_entries([w EXCEPT !.dir = at.dir, !.loc = at.loc])
      Remove(at) == Then(remove_chain(at, Slot(at).clust), LAMBDA w : Entries(w, at))
  IN  Then(follow_path(v, path), Remove)

fat_unlink(v, path) ==
  LET Emptied(at) == IF "DIR" \in Slot(at).attr THEN IsEmptyDir(at, Slot(at).clust) ELSE at
      Chain(w, at) == remove_chain(w, Slot(at).clust)
      Entries(w, at) == remove_entries([w EXCEPT !.dir = at.dir, !.loc = at.loc])
      Remove(at) ==
        IF dir_at_root(at) \/ Slot(at).attr \cap {"RO", "SYS", "LABEL"} # {} THEN Fail(at, "DENIED")
        ELSE Then(Then(Then(Emptied(at), LAMBDA w : Chain(w, at)), LAMBDA w : Entries(w, at)), sync_fs)
  IN  Then(follow_path(v, path), Remove)

-----------------------------------------------------------------------------
\* Open files.  The cursor is the cluster, the sector and the offset; buf is
\* the sector's content.  SeekFrom follows the chain from the file's cursor
\* and leaves the new sector in sect; a chain that ends is stretched.
SectOf(clust, off) == clust_to_sect(clust) + ((off \div BYTES) % SECT_PER_CLUST)

SeekFrom_NoRewind(v, off) ==
  LET Step(w) == Then(get_fat(w, w.file.clust), LAMBDA g :
        IF IsLast(g.val) THEN Then(stretch_chain(g, g.file.clust), LAMBDA s : [s EXCEPT !.file.clust = s.next])
        ELSE [g EXCEPT !.file.clust = g.val])
      count == IF off \div CSIZE < v.file.offset \div CSIZE THEN off \div CSIZE
               ELSE off \div CSIZE - v.file.offset \div CSIZE
      walk[i \in 0 .. count] == IF i = 0 THEN v ELSE LET y == walk[i - 1] IN Then(y, Step)
  IN  Then(walk[count], LAMBDA w : [w EXCEPT !.file.offset = off, !.file.sect = SectOf(w.file.clust, off)])

SeekFrom(v, off) ==
  LET f   == v.file
      dst == off \div CSIZE
      src == f.offset \div CSIZE
      from == IF dst < src THEN [v EXCEPT !.file.clust = f.sclust, !.file.offset = 0,
                                          !.file.sect = clust_to_sect(f.sclust)] ELSE v
      count == IF dst < src THEN dst ELSE dst - src
      Next_(g) == IF IsFree(g.val) THEN Fail(g, "BROKEN")
                  ELSE IF ~IsLast(g.val) THEN [g EXCEPT !.file.clust = g.val]
                  ELSE Then(stretch_chain(g, g.file.clust), LAMBDA s : [s EXCEPT !.file.clust = s.next])
      walk[i \in 0 .. count] ==
        IF i = 0 THEN from ELSE LET y == walk[i - 1] IN Then(y, LAMBDA w : Then(get_fat(w, w.file.clust), Next_))
  IN  Then(walk[count], LAMBDA w : [w EXCEPT !.file.offset = off, !.file.sect = SectOf(w.file.clust, off)])

SeekTarget(f, offset, whence) ==
  offset + (CASE whence = "SET" -> 0 [] whence = "CUR" -> f.offset [] OTHER -> f.size)

Refilled(v) == [v EXCEPT !.file.buf = v.disk[v.file.sect]]

fat_file_seek_NoFlush(v, offset, whence) ==
  Then(SeekFrom(v, SeekTarget(v.file, offset, whence)), Refilled)

\* A dirty buffer goes to the old sector before the new one is read.
fat_file_seek(v, offset, whence) ==
  LET f == v.file
      Flushed(w) == IF "DIRTY" \in f.flags
                    THEN [ops_write(w, f.sect, f.buf) EXCEPT !.file.flags = @ \ {"DIRTY"}] ELSE w
      Arrive(w) == IF w.file.sect = f.sect THEN w ELSE Refilled(Flushed(w))
  IN  IF SeekTarget(f, offset, whence) < 0 THEN Fail(v, "EOF")
      ELSE Then(SeekFrom(v, SeekTarget(f, offset, whence)), Arrive)

fat_file_read(v, len) ==
  LET Take(w, f, idx, cnt) ==
        fat_file_seek([w EXCEPT !.left = SubSeq(@, cnt + 1, Len(@)),
                                !.got = @ \o [i \in 1 .. cnt |-> ByteIn(f.buf, idx + i - 1)]], cnt, "CUR")
      Step(w) == IF w.left = <<>> \/ w.file.offset >= w.file.size THEN [w EXCEPT !.halt = TRUE]
                 ELSE LET idx == w.file.offset % BYTES
                      IN  Take(w, w.file, idx,
                               Least(Len(w.left), Least(BYTES - idx, w.file.size - w.file.offset)))
      acc == [v EXCEPT !.file.flags = @ \cup {"ACCESSED"}, !.left = [i \in 1 .. len |-> i], !.got = <<>>]
  IN  IF "READ" \in v.file.flags THEN Loop(Step, acc) ELSE Fail(v, "DENIED")

\* cnt counts the bytes taken, kept or not; the error of a seek stays inside.
fat_file_write(v, data) ==
  LET Filled(w, idx, cnt) == [i \in 0 .. BYTES - 1 |->
        IF i \in idx .. idx + cnt - 1 THEN w.left[i - idx + 1] ELSE ByteIn(w.file.buf, i)]
      Put(w, idx, cnt) ==
        fat_file_seek([w EXCEPT !.file.buf = [byte |-> Filled(w, idx, cnt)], !.cnt = @ + cnt,
                                !.file.flags = @ \cup {"DIRTY"}, !.left = SubSeq(@, cnt + 1, Len(@))],
                      cnt, "CUR")
      Step(w) == IF w.left = <<>> THEN [w EXCEPT !.halt = TRUE]
                 ELSE LET idx == w.file.offset % BYTES IN Put(w, idx, Least(Len(w.left), BYTES - idx))
      Sized(w) == [w EXCEPT !.file.size = IF w.file.offset > @ THEN w.file.offset ELSE @,
                            !.err = IF @ = "HANG" THEN @ ELSE "NONE"]
      begun == [v EXCEPT !.file.flags = @ \cup {"MODIFIED", "ACCESSED"}, !.left = data, !.cnt = 0]
  IN  IF "WRITE" \in v.file.flags THEN Sized(Loop(Step, begun)) ELSE Fail(v, "DENIED")

\* Whatever the file was opened for, its buffer goes to its sector.
fat_file_sync(v) ==
  LET f == v.file
      Entry(x) == SetSlot(x, IF "MODIFIED" \in f.flags THEN [Slot(x) EXCEPT !.size = f.size] ELSE Slot(x))
      Booked(w) == IF f.flags \cap {"ACCESSED", "MODIFIED"} = {} THEN w
                   ELSE Entry(Load([w EXCEPT !.dir.sect = f.dir_sect, !.dir.idx = f.dir_idx]))
  IN  [sync_fs(Booked(ops_write(v, f.sect, f.buf))) EXCEPT !.file.flags = @ \ {"ACCESSED", "MODIFIED"}]

fat_file_close(v) == fat_file_sync(v)

\* A missing last component is created, with a chain of one cluster.
fat_file_open(v, path, flags) ==
  LET Add(w, p) == dir_add([w EXCEPT !.dir = p.dir], path[Len(path)], {}, w.next)
      Found(p) == IF p.err # "EOF" THEN p
                  ELSE IF "CREATE" \notin flags THEN Fail(p, "DENIED")
                  ELSE IF p.rest < Len(path) THEN Fail(p, "PATH")
                  ELSE Then(stretch_chain([p EXCEPT !.err = "NONE"], 0), LAMBDA w : Add(w, p))
      Fill(w, s, cut) ==
        [w EXCEPT !.file = [dir_sect |-> w.dir.sect, dir_idx |-> w.dir.idx, sclust |-> s.clust,
           clust |-> s.clust, sect |-> NoSect, offset |-> 0, size |-> IF cut THEN 0 ELSE s.size,
           flags |-> flags \cup IF cut THEN {"MODIFIED"} ELSE {}, buf |-> ZeroSector]]
      Opened(w) == fat_file_seek(Fill(w, Slot(w), Slot(w).size > 0 /\ "TRUNC" \in flags),
                                 0, IF "APPEND" \in flags THEN "END" ELSE "SET")
  IN  Then(Found(follow_path(v, path)), Opened)

-----------------------------------------------------------------------------
\* Directories.
\* The new cluster, cleared, with its two first slots; left remembers it.
fat_dir_create(v, path) ==
  LET Parent(p) == IF p.dir.sclust = root_clust THEN 0 ELSE p.dir.sclust
      Dotted(x, p) ==
        [x EXCEPT !.dirty = TRUE, !.left = <<x.next>>,
           !.buf = SlotSector([i \in 0 .. SLOTS - 1 |->
                     IF i = 0 THEN SfnSlot("dot", {"DIR"}, x.next, 0)
                     ELSE IF i = 1 THEN SfnSlot("dotdot", {"DIR"}, Parent(p), 0) ELSE SlotIn(x.buf, i)])]
      Dots(w, p) == Dotted(update_buf(clust_clear(w, w.next), clust_to_sect(w.next)), p)
      Add(w, p) == dir_add([w EXCEPT !.dir = p.dir], path[Len(path)], {"DIR"}, w.left[1])
      Enter(w) == sync_fs(dir_enter(w, w.left[1]))
      Made(p) == IF p.err # "EOF" THEN p
                 ELSE IF p.rest < Len(path) THEN Fail(p, "PATH")
                 ELSE Then(Then(stretch_chain([p EXCEPT !.err = "NONE"], 0),
                                LAMBDA w : Add(Dots(w, p), p)), Enter)
  IN  Made(follow_path(v, path))

fat_dir_open(v, path) ==
  LET Enter(x) == IF "DIR" \in Slot(x).attr THEN dir_enter(x, Slot(x).clust) ELSE Fail(x, "PATH")
  IN  Then(follow_path(v, path), LAMBDA w : IF dir_at_root(w) THEN w ELSE Enter(Load(w)))

fat_dir_next(v) == dir_next(v)

=============================================================================
