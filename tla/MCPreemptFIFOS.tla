--------------------------- MODULE MCPreemptFIFOS ---------------------------
(***************************************************************************)
(* Instances of PreemptFIFOS for TLC.                                      *)
(***************************************************************************)
EXTENDS PreemptFIFOS

CONSTANTS MaxJobs,    \* jobs created at most
          MaxQuota    \* lines a job prints at most

\* Every program of 1 to MaxJobs jobs with quotas up to MaxQuota.
SmallPrograms == UNION {[1..k -> 1..MaxQuota] : k \in 1..MaxJobs}

\* Those and the program of init.c.
MCWorkloads == SmallPrograms \cup {<<3, 4, 5>>}
=============================================================================
