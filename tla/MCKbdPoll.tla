----------------------------- MODULE MCKbdPoll -----------------------------
(***************************************************************************)
(* Two readers with either driver, three presses of which the last is the    *)
(* newline that ends a reader, and a keyboard that holds two bytes.        *)
(***************************************************************************)
EXTENDS KbdPoll
=============================================================================
