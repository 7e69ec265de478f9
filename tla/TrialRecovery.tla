---------------------------- MODULE TrialRecovery ----------------------------
(***************************************************************************)
(* The three procedures of trial_actions.c that every write trial ends in: *)
(* watching the baseline for a minute, giving the fans back, and giving    *)
(* them back from under a set Ftst.  The program is sequential: p.at is    *)
(* where it is, p.ret the places its calls return to, p.rv what the last   *)
(* call returned, the other fields its counters and flags.  Between two of *)
(* its accesses the SMC may move, so every read and every write is a step. *)
(***************************************************************************)
EXTENDS TrialSmc, Sequences

CONSTANTS
    RestoreRetries,      \* RESTORE_RETRIES
    VerifySeconds,       \* RESTORE_VERIFY_SECONDS
    ReleaseRetries,      \* FTST_RELEASE_RETRIES
    ReleaseWait,         \* FTST_RELEASE_WAIT_SECONDS
    FallbackSecond,      \* FTST_POST_CLEAR_FALLBACK_SECONDS
    BaselineWait,        \* FTST_BASELINE_WAIT_SECONDS
    StableSeconds        \* FTST_BASELINE_STABLE_SECONDS

ASSUME RecoveryAssumption ==
    /\ {RestoreRetries, ReleaseRetries, ReleaseWait, StableSeconds} \subseteq Nat \ {0}
    /\ {VerifySeconds, FallbackSecond, BaselineWait} \subseteq Nat
    /\ FallbackSecond + StableSeconds < BaselineWait

VARIABLES
    p,            \* the program
    interrupted,  \* the flag of the signal handler
    quiet,        \* history: tenths of a second of baseline readings since the
                  \* last write or other reading; -1 when there is none
    pair,         \* history: since the last write a reading has shown both
                  \* fans in mode 0, and no later one anything else
    wrote         \* history: some key has been written

vars == <<hw, late, p, interrupted, quiet, pair, wrote>>

Statuses == {"SUCCEEDED", "BASELINE_REJECTED", "CONTROL_FAILED_SYSTEM_VERIFIED",
             "WRITE_EFFECT_UNVERIFIED", "RESTORE_FAILED"}

\* Tenths of a second between two samples (for a first sample: what it took)
Gaps == {10} \cup (IF "timing" \in Faults THEN {8, 9, 60} ELSE {})

\* What a write and what wait_milliseconds may return
Answers == {TRUE} \cup (IF "reject" \in Faults THEN {FALSE} ELSE {})
Waits == {TRUE} \cup (IF "wait" \in Faults THEN {FALSE} ELSE {})

-----------------------------------------------------------------------------
\* system_modes_and_zero_targets
SystemOwned(o) == \A fan \in Fans : o.mode[fan] = 3 /\ o.target[fan] = ZeroRpm

\* trial_observation_is_baseline
Baseline(o) == o.ftst = 0 /\ SystemOwned(o)

\* modes_released
Released(o) == \A fan \in Fans : o.mode[fan] \in {0, 3}

BothReleased(o) == \A fan \in Fans : o.mode[fan] = 0

\* read_timing_valid for a first sample, sample_timing_valid for a later one
TimingValid(first, gap) == gap <= 50 /\ (first \/ gap >= 9)

\* note_fan_state: only trial_check_ftst asks for the trace
Noted(o) == [p EXCEPT !.changed = @ \/ (p.entry = "check" /\ ~SystemOwned(o))]

-----------------------------------------------------------------------------
\* The locals of a procedure end with it
Goto(q, label) == [q EXCEPT !.at = label]
Call(q, procedure, ret) ==
    [q EXCEPT !.at = procedure, !.ret = <<ret>> \o @, !.rv = "none",
              !.second = 0, !.span = 0, !.samples = 0, !.tries = 0, !.item = 0, !.fresh = TRUE]
Return(q, value) ==
    [q EXCEPT !.at = Head(q.ret), !.ret = Tail(@), !.rv = value, !.manual = {},
              !.second = 0, !.span = 0, !.samples = 0, !.tries = 0, !.item = 0, !.fresh = TRUE]
ReturnTruth(q, b) == Return(q, IF b THEN "yes" ELSE "no")

\* A reading and what it leaves in the history
Read(r, gap) ==
    /\ quiet' = IF ~Baseline(r.seen) THEN -1
                ELSE IF quiet < 0 THEN 0
                ELSE IF quiet + gap > 10 * StableSeconds THEN 10 * StableSeconds
                ELSE quiet + gap
    /\ pair' = BothReleased(r.seen)
    /\ hw' = r.hw
    /\ late' = r.late
    /\ UNCHANGED <<interrupted, wrote>>

\* A write and what it leaves in the history
Write(w, ok) ==
    /\ WriteKey(w, ok)
    /\ quiet' = -1
    /\ pair' = FALSE
    /\ wrote' = TRUE
    /\ UNCHANGED interrupted

NoAccess == UNCHANGED <<hw, late, interrupted, quiet, pair, wrote>>

-----------------------------------------------------------------------------
(* trial_observe_baseline_window, behind trial_observe_after_ftst.  Its     *)
(* callers tell stable and changed apart from everything else: "failed" is  *)
(* a failed read, a failed wait, wrong timing or an interruption.           *)

SampleVerdict(o, gap) ==
    IF o = NoReading \/ ~TimingValid(p.second = 0, gap) THEN "failed"
    ELSE IF ~Baseline(o) THEN "changed"
    ELSE IF p.second < StableSeconds THEN "again"
    ELSE IF p.span + gap >= 10 * StableSeconds THEN "stable"
    ELSE "failed"

Observe ==
    /\ p.at = "observe"
    /\ \/ /\ interrupted
          /\ p' = Return(p, "failed")
          /\ NoAccess
       \/ \E r \in Reads, gap \in Gaps, slept \in Waits :
          LET o == r.seen
              verdict == SampleVerdict(o, gap)
              q == IF o = NoReading THEN p ELSE Noted(o) IN
          /\ ~interrupted
          /\ Read(r, gap)
          /\ p' = IF verdict # "again" THEN Return(q, verdict)
                  ELSE IF ~slept THEN Return(q, "failed")
                  ELSE [q EXCEPT !.second = @ + 1, !.span = IF p.second = 0 THEN 0 ELSE @ + gap]

-----------------------------------------------------------------------------
(* trial_restore_system *)

\* Nothing is written to an SMC that already reads as the baseline
RestoreRead ==
    /\ p.at = "restore"
    /\ \E r \in Reads :
        LET o == r.seen IN
        /\ Read(r, 0)
        /\ p' = IF Baseline(o) THEN Return(p, "yes") ELSE Goto(p, "restore_write")

\* Mode 0, then target 0, of fan 0, then of fan 1
RestoreItem(item) == IF item % 2 = 0 THEN Mode(item \div 2, 0) ELSE Target(item \div 2, ZeroRpm)

\* Mutant: a failing write is tried for ever
RestoreWrite_NoLimit ==
    /\ p.at = "restore_write"
    /\ \E ok \in Answers :
        /\ Write(RestoreItem(p.item), ok)
        /\ p' = IF ~ok THEN p
                ELSE IF p.item < 3 THEN [p EXCEPT !.item = @ + 1, !.tries = 0]
                ELSE [p EXCEPT !.at = "restore_verify", !.item = 0, !.tries = 0]

\* retry_mode, retry_target: a last failure is passed over
RestoreWrite ==
    /\ p.at = "restore_write"
    /\ \E ok \in Answers :
        /\ Write(RestoreItem(p.item), ok)
        /\ p' = IF ~ok /\ p.tries + 1 < RestoreRetries THEN [p EXCEPT !.tries = @ + 1]
                ELSE IF p.item < 3 THEN [p EXCEPT !.item = @ + 1, !.tries = 0]
                ELSE [p EXCEPT !.at = "restore_verify", !.item = 0, !.tries = 0]

RestoreVerify ==
    /\ p.at = "restore_verify"
    /\ \E r \in Reads :
        LET o == r.seen IN
        /\ Read(r, 0)
        /\ p' = IF Baseline(o) THEN Return(p, "yes")
                ELSE IF p.tries < VerifySeconds THEN [p EXCEPT !.tries = @ + 1]
                ELSE Return(p, "no")

-----------------------------------------------------------------------------
(* trial_restore_unlock *)

\* The reading recovery starts from: with Ftst clear the fans are given back,
\* with Ftst set the manual ones are released first
Dispatch(o, delayed) ==
    LET q == [Noted(o) EXCEPT !.delayed = delayed] IN
    CASE o.ftst = 0 -> Call(q, "restore", "unlock_restored")
      [] o.ftst = 1 -> [q EXCEPT !.at = "unlock_release", !.tries = 0,
                                 !.manual = {fan \in Fans : o.mode[fan] = 1}]

UnlockRead ==
    /\ p.at = "unlock"
    /\ \E r \in Reads :
        LET o == r.seen IN
        /\ Read(r, 0)
        /\ p' = CASE o = NoReading /\ p.tries + 1 < ReleaseRetries -> [p EXCEPT !.tries = @ + 1]
                  [] o = NoReading /\ p.tries + 1 = ReleaseRetries -> Return(p, "no")
                  [] o # NoReading /\ Baseline(o) -> Call(p, "observe", "unlock_observed")
                  [] o # NoReading /\ ~Baseline(o) -> Dispatch(o, FALSE)

\* A baseline that changed while it was watched: recover from a fresh reading,
\* and remember that it changed
UnlockReread ==
    /\ p.at = "unlock_reread"
    /\ \E r \in Reads :
        LET o == r.seen IN
        /\ Read(r, 0)
        /\ p' = IF o = NoReading THEN Return(p, "no") ELSE Dispatch(o, TRUE)

\* What follows the calls; a delayed change is recovered from and not vouched for
UnlockResume ==
    /\ p' = CASE p.at = "unlock_observed" ->
                    IF p.rv = "changed" THEN Goto(p, "unlock_reread")
                                        ELSE ReturnTruth(p, p.rv = "stable")
              [] p.at = "unlock_restored" ->
                    IF p.rv = "yes" THEN Call(p, "observe", "unlock_watched") ELSE Return(p, "no")
              [] p.at = "unlock_watched" -> ReturnTruth(p, p.rv = "stable" /\ ~p.delayed)
              [] OTHER -> p
    /\ p.at \in {"unlock_observed", "unlock_restored", "unlock_watched"}
    /\ NoAccess

\* Manual fans first: Ftst stays set while one of them cannot be released
UnlockRelease ==
    /\ p.at = "unlock_release"
    /\ \/ /\ p.manual = {}
          /\ p' = Goto(p, "unlock_check")
          /\ NoAccess
       \/ \E fan \in p.manual, ok \in Answers :
          /\ \A other \in p.manual : fan <= other
          /\ Write(Mode(fan, 0), ok)
          /\ p' = IF ok THEN [p EXCEPT !.manual = @ \ {fan}, !.tries = 0]
                  ELSE IF p.tries + 1 < RestoreRetries THEN [p EXCEPT !.tries = @ + 1]
                  ELSE Return(p, "no")

\* Mutant: only Ftst is looked at again after the modes were written
UnlockCheck_AnyMode ==
    /\ p.at = "unlock_check"
    /\ \E r \in Reads :
        LET o == r.seen IN
        /\ Read(r, 0)
        /\ p' = IF o.ftst # 1 THEN Return(p, "no")
                ELSE IF BothReleased(o) /\ \E fan \in Fans : o.target[fan] # ZeroRpm
                THEN Goto(Noted(o), "unlock_zero")
                ELSE Goto(Noted(o), "unlock_clear")

UnlockCheck ==
    /\ p.at = "unlock_check"
    /\ \E r \in Reads :
        LET o == r.seen IN
        /\ Read(r, 0)
        /\ p' = IF o.ftst # 1 \/ ~Released(o) THEN Return(p, "no")
                ELSE IF BothReleased(o) /\ \E fan \in Fans : o.target[fan] # ZeroRpm
                THEN Goto(Noted(o), "unlock_zero")
                ELSE Goto(Noted(o), "unlock_clear")

\* One zero for each nonzero target, each after a reading of its own
NextZero(q) == IF p.item = 0 THEN [q EXCEPT !.at = "unlock_zero", !.item = 1]
                             ELSE [q EXCEPT !.at = "unlock_zeroed", !.item = 0]

UnlockZero ==
    /\ p.at = "unlock_zero"
    /\ \E r \in Reads :
        LET o == r.seen IN
        /\ Read(r, 0)
        /\ p' = IF o.ftst # 1 \/ ~BothReleased(o) THEN [p EXCEPT !.at = "unlock_zeroed", !.item = 0]
                ELSE IF o.target[p.item] # ZeroRpm THEN Goto(Noted(o), "unlock_zero_write")
                ELSE NextZero(Noted(o))

\* Mutant: the second target is written on the strength of the first reading
UnlockZeroWrite_NoReread ==
    /\ p.at = "unlock_zero_write"
    /\ \E ok \in Answers : Write(Target(p.item, ZeroRpm), ok)
    /\ p' = IF p.item = 0 THEN [p EXCEPT !.item = 1] ELSE NextZero(p)

UnlockZeroWrite ==
    /\ p.at = "unlock_zero_write"
    /\ \E ok \in Answers : Write(Target(p.item, ZeroRpm), ok)
    /\ p' = NextZero(p)

UnlockZeroed ==
    /\ p.at = "unlock_zeroed"
    /\ \E r \in Reads :
        LET o == r.seen IN
        /\ Read(r, 0)
        /\ p' = IF ~Released(o) THEN Return(p, "no")
                ELSE IF o.ftst # 1 THEN Return(Noted(o), "no")
                ELSE Goto(Noted(o), "unlock_clear")

\* tries counts the attempts, second the seconds of one attempt
UnlockClear ==
    /\ p.at = "unlock_clear"
    /\ \E ok \in Answers : Write(Ftst(0), ok)
    /\ p' = Goto(p, "unlock_cleared")

UnlockCleared ==
    /\ p.at = "unlock_cleared"
    /\ \E r \in Reads, slept \in Waits :
        LET o == r.seen IN
        /\ Read(r, 0)
        /\ p' = IF ~Released(o) THEN Return(p, "no")
                ELSE IF o.ftst = 0
                THEN [Noted(o) EXCEPT !.at = "unlock_stable", !.second = 0, !.tries = 0]
                ELSE IF ~slept THEN Return(Noted(o), "no")
                ELSE IF p.second + 1 < ReleaseWait THEN [Noted(o) EXCEPT !.second = @ + 1]
                ELSE IF p.tries + 1 < ReleaseRetries
                THEN [Noted(o) EXCEPT !.at = "unlock_clear", !.second = 0, !.tries = @ + 1]
                ELSE Return(Noted(o), "no")

\* Mutant: a minute is counted from samples of other states as well
Sampled_NoReset(o, gap) ==
    [Noted(o) EXCEPT !.samples = IF Baseline(o) THEN @ + 1 ELSE @,
                     !.span = IF p.samples > 0 THEN @ + gap ELSE 0,
                     !.fresh = FALSE]

\* samples consecutive baseline samples, span tenths of a second from the first
\* to the last; fresh when there is no previous sample to measure from
Sampled(o, gap) ==
    [Noted(o) EXCEPT !.samples = IF Baseline(o) THEN @ + 1 ELSE 0,
                     !.span = IF Baseline(o) /\ p.samples > 0 THEN @ + gap ELSE 0,
                     !.fresh = FALSE]

StableEnough(q) == q.samples > StableSeconds /\ q.span >= 10 * StableSeconds

UnlockStable ==
    /\ p.at = "unlock_stable"
    /\ \E r \in Reads, gap \in Gaps, slept \in Waits :
        LET o == r.seen
            q == Sampled(o, gap) IN
        /\ Read(r, gap)
        /\ p' = IF o.ftst # 0 \/ ~Released(o) \/ ~TimingValid(p.fresh, gap) THEN Return(p, "no")
                ELSE IF StableEnough(q) THEN ReturnTruth(q, ~p.delayed)
                ELSE IF p.second = FallbackSecond /\ BothReleased(o)
                THEN Call(q, "restore", "unlock_fallback")
                ELSE IF p.second = BaselineWait \/ ~slept THEN Return(q, "no")
                ELSE [q EXCEPT !.second = @ + 1]

\* Whatever the one-shot fallback returned, the minute starts again
UnlockFallback ==
    /\ p.at = "unlock_fallback"
    /\ \E slept \in Waits :
        p' = IF slept THEN [p EXCEPT !.at = "unlock_stable", !.second = FallbackSecond + 1]
                      ELSE Return(p, "no")
    /\ NoAccess

-----------------------------------------------------------------------------
RecoveryStep ==
    \/ Observe
    \/ RestoreRead \/ RestoreWrite \/ RestoreVerify
    \/ UnlockRead \/ UnlockReread \/ UnlockResume
    \/ UnlockRelease \/ UnlockCheck
    \/ UnlockZero \/ UnlockZeroWrite \/ UnlockZeroed
    \/ UnlockClear \/ UnlockCleared
    \/ UnlockStable \/ UnlockFallback

=============================================================================
