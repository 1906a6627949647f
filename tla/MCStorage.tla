----------------------------- MODULE MCStorage -----------------------------
(***************************************************************************)
(* Files of up to four sectors with two program headers, some damaged and  *)
(* some too large for the buffer; buses with two devices of three          *)
(* functions.  Two ports; the first may hold a disk whose size needs the   *)
(* fourth digit, so does the second, without 48-bit numbers.               *)
(***************************************************************************)
EXTENDS Startup

MCDiskSize(p) == IF p = 1 THEN 10 ELSE 5
MCLba48(p) == p = 1

Segment(load, offset, paddr, filesz, memsz) ==
  [load |-> load, offset |-> offset, paddr |-> paddr, filesz |-> filesz, memsz |-> memsz]
Low == {Segment(load, offset, 0, filesz, memsz) :
         load \in BOOLEAN, offset \in {0, 3, 6}, filesz \in 0 .. 3, memsz \in 2 .. 3}
High == {Segment(TRUE, offset, 3, filesz, 3) : offset \in 2 .. 6, filesz \in 0 .. 3}
File(bad, phoff, headers) == [bad |-> bad, phoff |-> phoff, phdr |-> headers]
MCImages ==
  {File("", phoff, headers) : phoff \in {1, 2}, headers \in {<<l, h>> : l \in Low, h \in High} \cup {<<h, l>> : l \in Low, h \in High}}
  \cup {File("", 1, <<h>>) : h \in High}
  \cup {File(bad, 1, <<h>>) : bad \in {"magic", "LERR_NOT_ELF32", "LERR_NOT_LSB", "LERR_NOT_386"}, h \in High}
  \cup {File("", 0, <<>>)}
  \cup {File("", phoff, <<h>>) : phoff \in {7, 8}, h \in High}

Functions(d, ids) == [{d} \X (0 .. FUNCTIONS - 1) -> {"none"} \cup ids]
MCMachines ==
  {[id |-> [s \in DOMAIN f \cup DOMAIN g |-> IF s \in DOMAIN f THEN f[s] ELSE g[s]], multi |-> multi] :
     f \in Functions(0, {"sata"}), g \in Functions(1, {"other", "ich9"}), multi \in SUBSET {0, 1}}
=============================================================================
