\* Every program of up to four jobs on three TCBs, and the shipped one.
CONSTANTS
    N = 3
    MaxJobs = 4
    MaxQuota = 2
    Workloads <- MCWorkloads
    SpacedTicks = FALSE
SPECIFICATION Spec
INVARIANTS TypeOK MaskedInKernel StacksKeptApart FairShare AllOrNothing LeakBounded
PROPERTIES AllDone
