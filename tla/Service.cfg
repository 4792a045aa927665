SPECIFICATION FairSpec
CONSTANTS
    Procs = {p1, p2}
    Hosts = {"systemd", "windows"}
    MaxOps = 3
    MaxFaults = 2
    SlowHolders = FALSE
INVARIANTS
    OneOperation
    LauncherWorks
    TargetSurvives
    CommittedIsLaunched
PROPERTIES
    OnlyForceInterrupts
    NeverCommitsOverOld
    DeadLockYields
    InstallSucceeds
CHECK_DEADLOCK FALSE
