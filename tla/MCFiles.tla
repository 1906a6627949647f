------------------------------ MODULE MCFiles ------------------------------
(***************************************************************************)
(* Small volumes for Files: eight clusters of one sector of two bytes or   *)
(* four slots, a file and a directory on it.                               *)
(***************************************************************************)
EXTENDS Files

MCNames == {"a", "b", "d"}
MCSfn == [n \in MCNames |-> n]
MCShort == [n \in MCNames |-> CASE n = "a" -> "A" [] n = "b" -> "B" [] OTHER -> "D"]
MCLfns == [n \in MCNames |-> 1]
MCFilePaths == {<<"a">>, <<"d", "b">>}
MCDirPaths == {<<"d">>}
ListPaths == {<<>>, <<"d">>}
MCFlagSets == {{"READ"}, {"READ", "WRITE", "CREATE"}, {"WRITE", "TRUNC", "APPEND"}}
MCTexts == {<<1, 2, 3>>}
MCLens == {3}
MCSeeks == {<<1, "SET">>, <<0, "END">>}

Dir2(f) == [slot |-> [i \in 0 .. SLOTS - 1 |-> IF i \in DOMAIN f THEN f[i] ELSE Last]]
Table(f) == [item |-> [i \in 0 .. ITEMS - 1 |-> IF i \in DOMAIN f THEN f[i] ELSE IF i < 2 THEN EOC ELSE 0]]
Info(used, free) == [next_free |-> used, free_cnt |-> free]

\* Freshly formatted; with the file a of two clusters, 3 bytes, and the directory d.
Formatted == [s \in Sectors |-> CASE s = 0 -> [boot |-> 0] [] s = info_sect -> Info(2, clust_cnt - 3)
   [] s \in {fat_sect[1], fat_sect[2]} -> Table(2 :> EOC) [] OTHER -> ZeroSector]
Used == [Formatted EXCEPT
  ![info_sect] = Info(6, clust_cnt - 7),
  ![fat_sect[1]] = Table(2 :> 6 @@ 6 :> EOC @@ 3 :> 4 @@ 4 :> EOC @@ 5 :> EOC),
  ![fat_sect[2]] = Table(2 :> 6 @@ 6 :> EOC @@ 3 :> 4 @@ 4 :> EOC @@ 5 :> EOC),
  ![clust_to_sect(2)] = Dir2(0 :> LfnSlot("a", 1) @@ 1 :> SfnSlot(Sfn["a"], {}, 3, 3)
                          @@ 2 :> LfnSlot("d", 1) @@ 3 :> SfnSlot(Sfn["d"], {"DIR"}, 5, 0)),
  ![clust_to_sect(3)] = [byte |-> [i \in 0 .. BYTES - 1 |-> 7]],
  ![clust_to_sect(4)] = [byte |-> [i \in 0 .. BYTES - 1 |-> 8]],
  ![clust_to_sect(7)] = [byte |-> [i \in 0 .. BYTES - 1 |-> 9]],     \* left by a file that is gone
  ![clust_to_sect(5)] = Dir2(0 :> SfnSlot("dot", {"DIR"}, 5, 0) @@ 1 :> SfnSlot("dotdot", {"DIR"}, 0, 0))]
MCDisks == {Formatted, Used}
FullDisks == {Formatted}

=============================================================================
