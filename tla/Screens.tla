------------------------------ MODULE Screens ------------------------------
(***************************************************************************)
(* The screen of the machine with one of the systems that draw on it: the   *)
(* terminal of FIFOS-1 and FIFOS-2, or memos-2, which has none and places   *)
(* its texts itself.                                                        *)
(***************************************************************************)
EXTENDS Terminal, MemMap

VARIABLE booted     \* the system that runs

vars == <<terminal, memos, booted>>

Init ==
    /\ terminal_initialize
    /\ \/ booted = "FIFOS" /\ MemInit /\ regions = <<>>
       \/ booted = "memos-2" /\ MemInit

Next ==
    \/ booted = "FIFOS" /\ TerminalNext /\ UNCHANGED <<memos, booted>>
    \/ booted = "memos-2" /\ MemNext /\ UNCHANGED <<terminal, booted>>

Spec == Init /\ [][Next]_vars

TypeOK == TerminalTypeOK /\ MemTypeOK
=============================================================================
