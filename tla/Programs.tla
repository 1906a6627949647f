-------------------------------- MODULE Programs --------------------------------
(***************************************************************************)
(* What runs in user mode.  sys_exec loads one program and waits for it    *)
(* (Exec!ParentWaits), so the Java virtual machine of Jvm and the tools of *)
(* Tools never run at the same time and share no memory: a behaviour is    *)
(* one image's.                                                            *)
(***************************************************************************)
EXTENDS Jvm, Tools

VARIABLE image   \* which kind of program was loaded

ProgramsInit == Init /\ ToolsInit /\ image \in {"jvm", "tools"}

ProgramsNext == \/ image = "jvm" /\ Next /\ UNCHANGED <<toolVars, image>>
                \/ image = "tools" /\ ToolsNext /\ UNCHANGED <<vars, image>>

ProgramsSpec == ProgramsInit /\ [][ProgramsNext]_<<vars, toolVars, image>>
=============================================================================
