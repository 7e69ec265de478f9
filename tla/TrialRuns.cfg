SPECIFICATION Spec
CONSTANTS
    Entries = {"direct", "check", "rehearse", "restore", "unlock"}
    Faults = {"read", "torn", "reject", "late", "timing", "heat", "load", "wait", "signal"}
    MaxLate = 1
    RestoreRetries = 2
    VerifySeconds = 1
    ReleaseRetries = 2
    ReleaseWait = 2
    FallbackSecond = 1
    BaselineWait = 5
    StableSeconds = 2
    ObserveSeconds = 2
    EffectHalfSeconds = 2
    WatchHalfSeconds = 2
INVARIANTS VerdictIsWitnessed NothingPendingBehindSuccess RejectedWroteNothing
PROPERTIES Terminates NeverClearsUnderManual ZeroesOnlyReleasedPair
