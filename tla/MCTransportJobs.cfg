SPECIFICATION JobsSpec
CONSTANTS
    Enabled = {"remote", "blackhole", "network", "transport", "probe"}
    MaxDepth = 7
    MaxStarts = 2
INVARIANTS
    HangsOnlyInJobs
    ManagedTogether
    LockLeak
CHECK_DEADLOCK FALSE
