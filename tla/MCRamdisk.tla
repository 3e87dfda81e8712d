----------------------------- MODULE MCRamdisk -----------------------------
(* Instances of Ramdisk for TLC. *)
EXTENDS Ramdisk

\* The paths the programs of the instance use: names in the current directory,
\* in a directory below it, and in the parent.
P(up, dirs, leaf) == [up |-> up, abs |-> FALSE, dirs |-> dirs, leaf |-> leaf]
Absolute(dirs, leaf) == [up |-> 0, abs |-> TRUE, dirs |-> dirs, leaf |-> leaf]

\* A file and a directory, and a file in the directory.
FewPaths == {P(0, <<>>, "f"), P(0, <<>>, "d"), P(0, <<"d">>, "f")}

\* A directory, a file in it, and a file beside the directory one is in.
UpPaths == {P(0, <<>>, "d"), P(0, <<"d">>, "f"), P(1, <<>>, "f")}

\* FewPaths by other ways as well: from below, from too far below, from the root.
AllPaths == FewPaths \cup {P(0, <<>>, "long"), P(1, <<>>, "f"), P(2, <<>>, "f"),
                          Absolute(<<>>, "f")}
=============================================================================
