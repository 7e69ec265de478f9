SPECIFICATION SpecSupervised
CONSTANTS
    Scripts = {"ftst-supervised", "ftst-minimum-supervised", "command line"}
    Binaries = {"current", "reviewed"}
    Entries = {"direct", "check", "rehearse", "restore", "unlock"}
    Faults = {"read", "late", "refuse", "kill"}
    MaxLate = 1
    MaxSignals = 2
    PreflightSamples = 2
    RestoreRetries = 1
    VerifySeconds = 1
    ReleaseRetries = 2
    ReleaseWait = 1
    FallbackSecond = 1
    BaselineWait = 4
    StableSeconds = 2
    ObserveSeconds = 1
    EffectHalfSeconds = 1
    WatchHalfSeconds = 1
INVARIANTS ExitTwoWroteNothing ExitZeroIsWitnessed WrittenMeansWatched
PROPERTY ScriptEnds
