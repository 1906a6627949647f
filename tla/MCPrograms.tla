------------------------------ MODULE MCPrograms ------------------------------
EXTENDS Programs, MCJvm, MCTools
=============================================================================
