---------------------------- MODULE MCCoopFIFOS ----------------------------
(***************************************************************************)
(* Instances of CoopFIFOS for TLC.                                         *)
(***************************************************************************)
EXTENDS CoopFIFOS

CONSTANTS MaxJobs,    \* jobs created at most
          MaxQuota    \* lines a job prints at most

\* Every program of 0 to MaxJobs jobs with quotas up to MaxQuota.
SmallPrograms == UNION {[1..k -> 0..MaxQuota] : k \in 0..MaxJobs}

\* The program of init.c, in every order of its three threads, and with a
\* fourth thread for which there is no TCB.
ShippedPrograms ==
    {<<a, b, c>> : a, b, c \in {3, 4, 5}}
        \cap {w \in [1..3 -> {3, 4, 5}] : {w[1], w[2], w[3]} = {3, 4, 5}}

CrowdedPrograms == {Append(w, q) : w \in ShippedPrograms, q \in {1, 2}}

MCWorkloads == SmallPrograms \cup ShippedPrograms \cup CrowdedPrograms
=============================================================================
