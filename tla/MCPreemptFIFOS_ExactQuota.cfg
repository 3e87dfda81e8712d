\* The shipped program alone.
CONSTANTS
    N = 3
    MaxJobs = 0
    MaxQuota = 1
    Workloads <- MCWorkloads
    SpacedTicks = TRUE
SPECIFICATION Spec
INVARIANT ExactQuota
