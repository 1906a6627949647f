-------------------------------- MODULE Fat --------------------------------
(***************************************************************************)
(* The FAT32 driver of ParinOS (src/fs/fat.c): one sector buffer over a    *)
(* disk, cluster chains in two copies of the table, directories of 32-byte *)
(* slots, open files with a sector buffer of their own.                    *)
(*                                                                         *)
(* Each function of fat.c is an operator from a run v of the driver to a   *)
(* run: the volume, the cursor and file in use, the error, and the log of  *)
(* the sectors written, in order.  Power may fail after any of them.       *)
(* A sector holds slots, table items, bytes or the FsInfo block, whichever *)
(* was written last.  Time stamps and the hidden bits of attributes are    *)
(* left out; reads and writes of the disk succeed as long as there is      *)
(* power.  X_Y before X is a faulty variant of X.                          *)
(***************************************************************************)
EXTENDS Integers, Sequences, FiniteSets, TLC

CONSTANTS
  Names,        \* long names
  Sfn,          \* [Names -> short names]: put_sfn_name, not injective
  Lfns,         \* [Names -> number of LFN slots]
  ITEMS,        \* table items in a sector
  FAT_SECTS,    \* sectors of one table
  SLOTS,        \* directory slots in a sector
  BYTES,        \* bytes in a sector
  SECT_PER_CLUST,
  EOC,          \* an end-of-chain value
  LOOPS         \* bound: steps of a loop before it counts as endless

clust_cnt == FAT_SECTS * ITEMS
info_sect == 1
fat_sect  == <<2, 2 + FAT_SECTS>>           \* active table, mirror
data_sect == 2 + 2 * FAT_SECTS
root_clust == 2
Clusters  == 2 .. clust_cnt - 1
CSIZE     == BYTES * SECT_PER_CLUST

ASSUME FatAssumption ==
  /\ ITEMS \in Nat /\ FAT_SECTS \in Nat /\ clust_cnt > 2
  /\ SLOTS \in Nat \ {0} /\ BYTES \in Nat \ {0} /\ SECT_PER_CLUST \in Nat \ {0}
  /\ DOMAIN Sfn = Names /\ DOMAIN Lfns = Names
  /\ \A n \in Names : Lfns[n] \in Nat \ {0}
  /\ EOC >= clust_cnt
  /\ data_sect % SECT_PER_CLUST = 0      \* the formatter aligns the data area

clust_to_sect(c) == (c - 2) * SECT_PER_CLUST + data_sect
sect_to_clust(s) == (s - data_sect) \div SECT_PER_CLUST + 2
Sectors == 0 .. clust_to_sect(clust_cnt) - 1

-----------------------------------------------------------------------------
\* What sectors hold.
Last == [t |-> "last"]
Freed == [t |-> "free"]
LfnSlot(n, i) == [t |-> "lfn", name |-> n, seq |-> i, head |-> i = Lfns[n], crc |-> Sfn[n]]
SfnSlot(s, attr, c, size) == [t |-> "sfn", name |-> s, attr |-> attr, clust |-> c, size |-> size]

SlotSector(f) == [slot |-> f]
ZeroSector == SlotSector([i \in 0 .. SLOTS - 1 |-> Last])
SlotIn(content, i) == IF "slot" \in DOMAIN content THEN content.slot[i] ELSE [t |-> "junk"]
ItemIn(content, i) == IF "item" \in DOMAIN content THEN content.item[i] ELSE 1
ByteIn(content, i) == IF "byte" \in DOMAIN content THEN content.byte[i] ELSE 0

-----------------------------------------------------------------------------
\* A run of the driver on a volume.
NoDir == [sclust |-> 0, clust |-> 0, sect |-> 0, idx |-> 0]

Begin(vol) == vol @@
  [err |-> "NONE", log |-> <<>>, halt |-> FALSE, val |-> 0, dir |-> NoDir, loc |-> NoDir,
   rest |-> 0, next |-> 0, enterable |-> FALSE, cnt |-> 0, eod |-> FALSE,
   file |-> [sect |-> 0], other |-> [sect |-> 0], left |-> <<>>, got |-> <<>>, entry |-> [name |-> "none", size |-> 0]]

Volume(v) ==
  [disk |-> v.disk, buf |-> v.buf, sect |-> v.sect, dirty |-> v.dirty,
   info_dirty |-> v.info_dirty, last_used |-> v.last_used, free_cnt |-> v.free_cnt]

Ok(v) == v.err = "NONE"
Fail(v, e) == [v EXCEPT !.err = e]
Then(v, F(_)) == IF Ok(v) THEN F(v) ELSE v

\* A loop of the code: until a step halts or fails.
Loop(Step(_), v) ==
  LET Stopped(w) == w.halt \/ ~Ok(w)
      it[i \in 0 .. LOOPS] ==
        IF i = 0 THEN [v EXCEPT !.halt = FALSE]
        ELSE LET w == it[i - 1] IN IF Stopped(w) THEN w ELSE Step(w)
      Checked(end) == IF Stopped(end) THEN end ELSE Fail(end, "HANG")
  IN  Checked(it[LOOPS])

ops_write(v, s, content) == [v EXCEPT !.disk[s] = content, !.log = Append(@, <<s, content>>)]

-----------------------------------------------------------------------------
\* The sector buffer.
sync_buf(v) == IF v.dirty THEN [ops_write(v, v.sect, v.buf) EXCEPT !.dirty = FALSE] ELSE v

Refill(v, s) == [v EXCEPT !.buf = v.disk[s], !.sect = s]

update_buf(v, s) == IF v.sect = s THEN v ELSE Refill(sync_buf(v), s)

sync_fs(v) ==
  LET Info(w) == [w EXCEPT !.buf = [next_free |-> w.last_used, free_cnt |-> w.free_cnt],
                           !.dirty = TRUE, !.info_dirty = FALSE]
  IN  IF v.info_dirty THEN sync_buf(Info(update_buf(sync_buf(v), info_sect))) ELSE sync_buf(v)

\* The table: val is what get_fat delivers, its flags are IsFree and IsLast.
IsFree(val) == val = 0
IsLast(val) == val = EOC

get_fat(v, c) ==
  LET Read(w) == IF ItemIn(w.buf, c % ITEMS) \in Clusters \cup {0, EOC}
                 THEN [w EXCEPT !.val = ItemIn(w.buf, c % ITEMS)] ELSE Fail(w, "BROKEN")
  IN  Read(update_buf(v, fat_sect[1] + c \div ITEMS))

put_fat2(v, first, c, val) ==
  LET Put(w) == [w EXCEPT !.dirty = TRUE,
        !.buf = [item |-> [i \in 0 .. ITEMS - 1 |-> IF i = c % ITEMS THEN val ELSE ItemIn(w.buf, i)]]]
  IN  Put(update_buf(v, first + c \div ITEMS))

put_fat(v, c, val) == put_fat2(put_fat2(v, fat_sect[2], c, val), fat_sect[1], c, val)

\* next is the cluster to release.
remove_chain(v, clust) ==
  LET Release(g) ==
        IF IsFree(g.val) THEN Fail(g, "BROKEN")
        ELSE [put_fat(g, g.next, 0) EXCEPT !.free_cnt = @ + 1, !.next = g.val, !.halt = IsLast(g.val)]
      Step(w) == Then(get_fat(w, w.next), Release)
  IN  Then(Loop(Step, [v EXCEPT !.info_dirty = TRUE, !.next = clust]), sync_fs)

\* The cluster behind c, round the end of the table.
After(c) == IF c + 1 >= clust_cnt THEN 2 ELSE c + 1

\* A free cluster becomes the end of the chain that prev ends (prev = 0: a new
\* chain): the one behind prev, or else the first behind last_used.  It is
\* left in next.
FreeBehind_NoFull(v, prev) ==
  LET Probe(w, c) == Then(get_fat([w EXCEPT !.next = c], c), LAMBDA g : [g EXCEPT !.halt = IsFree(g.val)])
  IN  Loop(LAMBDA u : Probe(u, After(u.next)), [v EXCEPT !.next = v.last_used])

FreeBehind(v, prev) ==
  LET Probe(w, c) == IF c = w.last_used THEN Fail(w, "FULL")
                     ELSE Then(get_fat([w EXCEPT !.next = c], c),
                               LAMBDA g : [g EXCEPT !.halt = IsFree(g.val)])
      Search(w) == Loop(LAMBDA u : Probe(u, After(u.next)), [w EXCEPT !.next = w.last_used])
      Near(g) == IF IsFree(g.val) THEN g ELSE Search(g)
  IN  IF prev = 0 THEN Search(v)
      ELSE Then(get_fat([v EXCEPT !.next = After(prev)], After(prev)), Near)

stretch_chain_LinkLate(v, prev) ==
  LET Link(w) == sync_fs([put_fat(w, w.next, EOC) EXCEPT !.last_used = w.next, !.free_cnt = @ - 1])
  IN  Then(FreeBehind([v EXCEPT !.info_dirty = TRUE], prev), Link)

stretch_chain(v, prev) ==
  LET Join(w) == IF prev = 0 THEN w ELSE put_fat(w, prev, w.next)
      Link(w) == sync_fs([Join(put_fat(w, w.next, EOC)) EXCEPT !.last_used = w.next, !.free_cnt = @ - 1])
  IN  Then(FreeBehind([v EXCEPT !.info_dirty = TRUE], prev), Link)

clust_clear(v, c) ==
  LET w[i \in 0 .. SECT_PER_CLUST] ==
        IF i = 0 THEN [sync_buf(v) EXCEPT !.buf = ZeroSector]
        ELSE sync_buf([w[i - 1] EXCEPT !.dirty = TRUE, !.sect = clust_to_sect(c) + i - 1])
  IN  w[SECT_PER_CLUST]

-----------------------------------------------------------------------------
\* The directory cursor v.dir.
dir_at_clust(v, c) == [v EXCEPT !.dir.clust = c, !.dir.sect = clust_to_sect(c), !.dir.idx = 0]

dir_enter(v, clust) ==
  LET c == IF clust = 0 THEN root_clust ELSE clust
  IN  dir_at_clust([v EXCEPT !.dir.sclust = c], c)

\* dir_ptr of the slot that loc remembers.
AtLoc(v) == [v EXCEPT !.dir.clust = sect_to_clust(v.loc.sect), !.dir.sect = v.loc.sect,
                      !.dir.idx = v.loc.idx]

InSameCluster(sect) == sect % SECT_PER_CLUST # 0   \* counted from the start of the disk

dir_next(v) ==
  LET Sector == [v EXCEPT !.dir.idx = 0, !.dir.sect = @ + 1]
      Follow(g) == IF IsFree(g.val) THEN Fail(g, "BROKEN")
                   ELSE IF IsLast(g.val) THEN Fail(g, "EOF") ELSE dir_at_clust(g, g.val)
  IN  IF v.dir.idx + 1 < SLOTS THEN [v EXCEPT !.dir.idx = @ + 1]
      ELSE IF InSameCluster(v.dir.sect + 1) THEN Sector
      ELSE Then(get_fat(Sector, v.dir.clust), Follow)

\* A directory that ends gets another cluster, cleared.
dir_next_stretch(v) ==
  LET Enter(w) == clust_clear(dir_at_clust(w, w.next), w.next)
      Grown(n) == IF n.err # "EOF" THEN n
                  ELSE Then(stretch_chain([n EXCEPT !.err = "NONE"], n.dir.clust), Enter)
  IN  Grown(dir_next(v))

Load(v) == update_buf(v, v.dir.sect)
Slot(v) == SlotIn(v.buf, v.dir.idx)
SetSlot(v, slot) ==
  LET new == [i \in 0 .. SLOTS - 1 |-> IF i = v.dir.idx THEN slot ELSE SlotIn(v.buf, i)]
  IN  [v EXCEPT !.buf = SlotSector(new), !.dirty = TRUE]
IsFreeSlot(s) == s.t \in {"last", "free"}

\* From a head slot to the SFN slot behind the fragments, which the checksum
\* in the fragments must fit; entry.name is the long name.
parse_lfn_name(v) ==
  LET first == Slot(v)
      Fragment(x) == IF Slot(x).t # "lfn" \/ Slot(x).crc # first.crc THEN Fail(x, "BROKEN")
                     ELSE Then(dir_next(x), Load)
      w[i \in 0 .. first.seq] == IF i = 0 THEN [v EXCEPT !.entry.name = first.name]
                                 ELSE LET x == w[i - 1] IN Then(x, Fragment)
      Short(x) == IF Slot(x).t # "sfn" \/ Slot(x).name # first.crc THEN Fail(x, "BROKEN") ELSE x
  IN  IF first.head THEN Then(w[first.seq], Short) ELSE Fail(v, "BROKEN")

\* Entries with a long name are compared by it, the others by the short form.
dir_search(v, name) ==
  LET Found(w) == [w EXCEPT !.halt = TRUE]
      Long(p) == IF p.entry.name = name THEN Found(p) ELSE dir_next(p)
      Compare(w, s) ==
        IF s.t = "last" THEN Fail(w, "EOF")
        ELSE IF s.t = "free" THEN dir_next(w)
        ELSE IF s.t = "lfn" THEN Then(parse_lfn_name([w EXCEPT !.loc = w.dir]), Long)
        ELSE IF s.t = "sfn" /\ s.name = Sfn[name] THEN Found([w EXCEPT !.loc = w.dir])
        ELSE dir_next([w EXCEPT !.loc = w.dir])
      At(w) == Compare(w, Slot(w))
  IN  Loop(LAMBDA u : At(Load(u)), dir_at_clust(v, v.dir.sclust))

\* dir ends at the SFN of the last component, or in the directory in which
\* component number rest was not found.  The buffer holds that sector.
follow_path(v, path) ==
  LET Entered(s) == [s EXCEPT !.next = Slot(s).clust, !.enterable = "DIR" \in Slot(s).attr]
      Into(x, i) == IF x.enterable THEN Then(dir_search(dir_enter([x EXCEPT !.rest = i], x.next), path[i]), Entered)
                    ELSE Fail([x EXCEPT !.rest = i], "PATH")
      w[i \in 0 .. Len(path)] ==
        IF i = 0 THEN [dir_enter(v, root_clust) EXCEPT !.next = root_clust, !.enterable = TRUE]
        ELSE LET y == w[i - 1] IN Then(y, LAMBDA x : Into(x, i))
  IN  w[Len(path)]

dir_at_root(v) ==
  v.dir.clust = root_clust /\ v.dir.sect = clust_to_sect(root_clust) /\ v.dir.idx = 0

\* From loc to the cursor, all slots become free.
remove_entries(v) ==
  LET Cleared(w) == IF w.dir.sect = v.dir.sect /\ w.dir.idx = v.dir.idx THEN [w EXCEPT !.halt = TRUE]
                    ELSE dir_next(w)
  IN  Loop(LAMBDA u : Cleared(SetSlot(Load(u), Freed)), AtLoc(v))

\* The first Lfns + 1 free slots in a row; the cursor is left behind them, and
\* eod says that the old end of the directory lies in front of the cursor.
FindSlots(v, name) ==
  LET Fits(w) == w.eod \/ IsFreeSlot(Slot(w))
      Counted(w) == [w EXCEPT !.loc = IF Fits(w) /\ w.cnt = 0 THEN w.dir ELSE @,
                              !.cnt = IF Fits(w) THEN @ + 1 ELSE 0,
                              !.eod = @ \/ Slot(w).t = "last"]
      Step(u) == Then(dir_next_stretch(Counted(Load(u))),
                      LAMBDA n : [n EXCEPT !.halt = n.cnt = Lfns[name] + 1])
  IN  Loop(Step, [dir_enter(v, v.dir.sclust) EXCEPT !.cnt = 0, !.eod = FALSE])

\* From loc on, the LFN slots, last fragment first, then the short slot.
PutEntry(v, name, slot) ==
  LET p[i \in 0 .. Lfns[name]] ==
        IF i = 0 THEN AtLoc(v)
        ELSE LET y == p[i - 1] IN Then(y, LAMBDA x : dir_next(SetSlot(Load(x), LfnSlot(name, Lfns[name] + 1 - i))))
  IN  Then(p[Lfns[name]], LAMBDA x : SetSlot(Load(x), slot))

\* Behind the old end of the directory a new end is written first.
dir_add(v, name, attr, clust) ==
  LET End(w) == IF w.eod THEN SetSlot(Load(w), Last) ELSE w
  IN  Then(FindSlots(v, name), LAMBDA w : PutEntry(End(w), name, SfnSlot(Sfn[name], attr, clust, 0)))

=============================================================================
