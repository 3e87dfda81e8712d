----------------------------- MODULE MCScreens -----------------------------
(***************************************************************************)
(* A window of three rows of four columns in a memory of ten; texts shorter *)
(* than a row, as long and longer.  Maps of up to two regions, of the sizes *)
(* that loaders use, in words of twelve bits and megabytes of 256 bytes.    *)
(***************************************************************************)
EXTENDS Screens

MCTexts == {<<65>>, <<66, 67, 68>>, <<69, 70, 71, 72>>, <<73, 74, 75, 76, 77, 78>>}
=============================================================================
