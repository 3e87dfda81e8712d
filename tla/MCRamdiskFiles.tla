--------------------------- MODULE MCRamdiskFiles ---------------------------
(* An instance of RamdiskFiles for TLC: two files, index blocks of two words, *)
(* so that the largest file is 2 + 2 + 2 * 2 blocks, which is 16 words.       *)
EXTENDS RamdiskFiles, TLC

Symmetry == Permutations(Files)
=============================================================================
