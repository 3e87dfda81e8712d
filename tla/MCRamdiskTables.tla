--------------------------- MODULE MCRamdiskTables ---------------------------
(***************************************************************************)
(* Processes that fork one another, with one file.  Pids are interchangeable: *)
(* nothing orders or counts them.                                          *)
(***************************************************************************)
EXTENDS RamdiskTables

Symmetry == Permutations(Procs)
=============================================================================
