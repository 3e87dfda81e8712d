\* Every program of up to four jobs on three TCBs, and the shipped one.
CONSTANTS
    N = 3
    MaxJobs = 4
    MaxQuota = 3
    Workloads <- MCWorkloads
SPECIFICATION Spec
INVARIANTS TypeOK StacksKeptApart FairShare ExactQuota ScreenFits
PROPERTIES AllDone RoundRobinSpec
