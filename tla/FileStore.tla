----------------------------- MODULE FileStore -----------------------------
(***************************************************************************)
(* What the file system of ParinOS promises its callers: a tree of files,  *)
(* each call changes the file it names and no other, and power failure     *)
(* harms only files with changes that were not closed yet.                 *)
(***************************************************************************)
EXTENDS Integers, Sequences, FiniteSets

CONSTANT PathNames, DirMark     \* paths; the value of a directory

VARIABLES
  files,     \* [paths -> {} or, for what exists, {a sequence of bytes or DirMark}]
  unsynced,  \* paths changed since they were last closed
  call       \* the call made last

svars == <<files, unsynced>>

Keeps(p) == \A q \in PathNames \ {p} : files'[q] = files[q]

\* A first part of data, k bytes, is written at offset at; the file may grow.
Overwritten(old, new, at, data) == \E k \in 0 .. Len(data) :
  /\ Len(new) <= IF at + k > Len(old) THEN at + k ELSE Len(old)
  /\ Len(new) >= Len(old)
  /\ \A i \in 1 .. Len(new) :
       IF i > at /\ i <= at + k THEN new[i] = data[i - at] ELSE i <= Len(old) => new[i] = old[i]

Open == LET p == call'.path IN
  /\ call'.op = "open" /\ Keeps(p)
  /\ \/ files'[p] = files[p]
     \/ "TRUNC" \in call'.flags /\ files[p] # {DirMark} /\ files'[p] = {<<>>}
     \/ "CREATE" \in call'.flags /\ files[p] = {} /\ files'[p] = {<<>>}
  /\ unsynced' = IF files' = files THEN unsynced ELSE unsynced \cup {p}

Write == LET p == call'.path IN
  /\ call'.op = "write" /\ Keeps(p) /\ unsynced' = unsynced \cup {p}
  /\ \E old \in files[p], new \in files'[p] : Overwritten(old, new, call'.at, call'.data)

Close ==
  /\ call'.op = "close" /\ files' = files /\ unsynced' = unsynced \ {call'.path}

\* The shell's echo: the file holds a first part of the text.
Echo == LET p == call'.path IN
  /\ call'.op = "echo" /\ Keeps(p) /\ unsynced' = unsynced \ {p}
  /\ \/ files'[p] = files[p]
     \/ \E new \in files'[p] : Overwritten(<<>>, new, 0, call'.data)

\* The shell's cp: the file holds a first part of the source.
Copy == LET p == call'.path IN
  /\ call'.op = "copy" /\ Keeps(p) /\ unsynced' = unsynced \ {p}
  /\ \/ files'[p] = files[p]
     \/ \E s \in files[call'.from], new \in files'[p] : Overwritten(<<>>, new, 0, s)

\* What lies in a directory keeps it.
Unlink == LET p == call'.path IN
  /\ call'.op = "unlink" /\ Keeps(p) /\ UNCHANGED unsynced
  /\ \/ files'[p] = files[p]
     \/ /\ files'[p] = {}
        /\ \A q \in PathNames : Len(q) > Len(p) /\ SubSeq(q, 1, Len(p)) = p => files[q] = {}

Mkdir == LET p == call'.path IN
  /\ call'.op = "mkdir" /\ Keeps(p) /\ UNCHANGED unsynced
  /\ files'[p] = files[p] \/ (files[p] = {} /\ files'[p] = {DirMark})

\* Reading delivers what the file holds at the offset.
Read == LET p == call'.path IN
  /\ call'.op = "read" /\ UNCHANGED svars
  /\ call'.err = "NONE" =>
       \E s \in files[p] : call'.data = SubSeq(s, call'.at + 1, call'.at + Len(call'.data))

\* Seeking, looking up and listing.
Look == call'.op \in {"lseek", "stat", "list"} /\ UNCHANGED svars

PowerLoss ==
  /\ call'.op = "power" /\ unsynced' = {}
  /\ \A q \in PathNames \ (unsynced \cup {call'.path}) : files'[q] = files[q]

Init == unsynced = {}

Next == Open \/ Write \/ Close \/ Echo \/ Copy \/ Unlink \/ Mkdir \/ Read \/ Look \/ PowerLoss

Spec == Init /\ [][Next]_svars

=============================================================================
