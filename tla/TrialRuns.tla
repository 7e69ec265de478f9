------------------------------ MODULE TrialRuns ------------------------------
(***************************************************************************)
(* The entry points of trial_actions.c: the direct trial, the Ftst check   *)
(* and the rehearsal of the minimum-target recovery, and the two recovery  *)
(* commands of smc-write-trial.c.  One run of the program is one behaviour.*)
(***************************************************************************)
EXTENDS TrialRecovery

CONSTANTS
    Entries,             \* the entry points of this instance
    ObserveSeconds,      \* OBSERVE_SECONDS
    EffectHalfSeconds,   \* FTST_EFFECT_WAIT_HALF_SECONDS
    WatchHalfSeconds     \* the ten half seconds of the rehearsal

Trials == {"direct", "check", "rehearse"}
Commands == {"restore", "unlock"}

ASSUME RunsAssumption ==
    /\ Entries \subseteq Trials \cup Commands
    /\ {ObserveSeconds, EffectHalfSeconds, WatchHalfSeconds} \subseteq Nat \ {0}

\* temperatures_safe of a reading with temperatures; a clock within its limit
Temperatures == {TRUE} \cup (IF "heat" \in Faults THEN {FALSE} ELSE {})
InTime == {TRUE} \cup (IF "timing" \in Faults THEN {FALSE} ELSE {})

\* manual_state_matches, without the temperatures
Manual(o) == o.ftst = 0 /\ \A fan \in Fans : o.mode[fan] = 1 /\ o.target[fan] = PlanRpm

Finish(q, status) == [q EXCEPT !.at = "done", !.status = status, !.rv = "none"]

-----------------------------------------------------------------------------
(* trial_execute_direct *)

GiveBack(q) == Call([q EXCEPT !.ok = FALSE], "restore", "direct_restored")

DirectMode ==
    /\ p.at = "direct"
    /\ \/ interrupted /\ p' = GiveBack(p) /\ NoAccess
       \/ \E ok \in Answers :
          /\ ~interrupted
          /\ Write(Mode(p.item, 1), ok)
          /\ p' = IF ok THEN Goto(p, "direct_target") ELSE GiveBack(p)

DirectTarget ==
    /\ p.at = "direct_target"
    /\ \E ok \in Answers, inTime \in InTime :
        /\ Write(Target(p.item, PlanRpm), ok)
        /\ p' = IF ~ok \/ ~inTime THEN GiveBack(p)
                ELSE IF p.item = 0 THEN [p EXCEPT !.at = "direct", !.item = 1]
                ELSE Goto(p, "direct_read")

\* Mutant: a reading that does not show manual control still counts as seen
DirectRead_AnyReading ==
    /\ p.at = "direct_read"
    /\ \E r \in Reads, safe \in Temperatures, inTime \in InTime :
        LET o == r.seen
            q == [p EXCEPT !.goal = o # NoReading] IN
        /\ Read(r, 0)
        /\ p' = IF q.goal /\ Manual(o) /\ safe /\ inTime
                THEN [q EXCEPT !.at = "direct_hold", !.second = 1, !.item = 0]
                ELSE GiveBack(q)

DirectRead ==
    /\ p.at = "direct_read"
    /\ \E r \in Reads, safe \in Temperatures, inTime \in InTime :
        LET o == r.seen
            q == [p EXCEPT !.goal = Manual(o) /\ safe] IN
        /\ Read(r, 0)
        /\ p' = IF q.goal /\ inTime THEN [q EXCEPT !.at = "direct_hold", !.second = 1, !.item = 0]
                ELSE GiveBack(q)

DirectHold ==
    /\ p.at = "direct_hold"
    /\ \/ /\ interrupted \/ FALSE \in Waits \cup InTime
          /\ p' = GiveBack(p)
          /\ NoAccess
       \/ \E r \in Reads, safe \in Temperatures, inTime \in InTime, reached \in BOOLEAN :
          LET o == r.seen IN
          /\ ~interrupted
          /\ Read(r, 0)
          /\ p' = IF ~Manual(o) \/ ~safe \/ ~inTime THEN GiveBack(p)
                  ELSE IF p.second < ObserveSeconds THEN [p EXCEPT !.second = @ + 1]
                  ELSE Call([p EXCEPT !.ok = reached], "restore", "direct_restored")

DirectVerdict ==
    IF ~p.goal THEN "WRITE_EFFECT_UNVERIFIED"
    ELSE IF p.ok THEN "SUCCEEDED" ELSE "CONTROL_FAILED_SYSTEM_VERIFIED"

DirectResume ==
    /\ p.at \in {"direct_restored", "direct_after", "direct_again", "direct_again_after"}
    /\ p' = CASE p.rv = "no" -> Finish(p, "RESTORE_FAILED")
              [] p.rv = "yes" /\ p.at = "direct_restored" -> Call(p, "observe", "direct_after")
              [] p.rv = "yes" /\ p.at = "direct_again" -> Call(p, "observe", "direct_again_after")
              [] p.rv = "stable" -> Finish(p, DirectVerdict)
              [] p.rv \in {"changed", "failed"} /\ p.at = "direct_after" ->
                    Call(p, "restore", "direct_again")
              [] OTHER -> Finish(p, "RESTORE_FAILED")
    /\ NoAccess

-----------------------------------------------------------------------------
(* trial_check_ftst and trial_rehearse_ftst_minimum_recovery *)

FtstBase ==
    /\ p.at \in {"check", "rehearse"}
    /\ \E r \in Reads, safe \in Temperatures :
        LET o == r.seen IN
        /\ Read(r, 0)
        /\ p' = IF ~Baseline(o) \/ ~safe \/ interrupted THEN Finish(p, "BASELINE_REJECTED")
                ELSE Goto(p, "ftst_enable")

\* Mutant: a rejected write counts as no write at all
FtstEnable_TrustsRejection ==
    /\ p.at = "ftst_enable"
    /\ \E ok \in Answers :
        /\ Write(Ftst(1), ok)
        /\ p' = IF ~ok THEN Finish(p, "BASELINE_REJECTED")
                ELSE [p EXCEPT !.at = IF p.entry = "check" THEN "check_effect" ELSE "rehearse_watch"]

FtstEnable ==
    /\ p.at = "ftst_enable"
    /\ \E ok \in Answers :
        /\ Write(Ftst(1), ok)
        /\ p' = [p EXCEPT !.ok = ok, !.at = IF p.entry = "check" THEN "check_effect"
                                                                 ELSE "rehearse_watch"]

\* The first reading that is not the baseline is the effect; p.ok becomes unlock_ok
CheckEffect ==
    /\ p.at = "check_effect"
    /\ \E r \in Reads, safe \in Temperatures, slept \in Waits, inTime \in InTime :
        LET o == r.seen IN
        /\ Read(r, 0)
        /\ p' = IF o = NoReading THEN Goto(p, "check_release")
                ELSE IF ~Baseline(o)
                THEN Call([Noted(o) EXCEPT !.ok = @ /\ o.ftst = 1 /\ SystemOwned(o) /\ safe
                                                   /\ inTime /\ ~interrupted],
                          "unlock", "check_restored")
                ELSE IF ~safe \/ interrupted \/ p.second = EffectHalfSeconds \/ ~slept
                THEN Goto(p, "check_release")
                ELSE [p EXCEPT !.second = @ + 1]

\* No effect seen: release for either answer of the first write, and keep watching
CheckRelease ==
    /\ p.at = "check_release"
    /\ \E ok \in Answers :
        /\ Write(Ftst(0), ok)
        /\ p' = Call([p EXCEPT !.released = ok], "observe", "check_later")

CheckVerdict == IF p.ok /\ ~p.changed THEN "SUCCEEDED" ELSE "CONTROL_FAILED_SYSTEM_VERIFIED"
UnseenVerdict == IF p.released THEN "WRITE_EFFECT_UNVERIFIED" ELSE "RESTORE_FAILED"
LastLook == IF p.rv = "stable" THEN "CONTROL_FAILED_SYSTEM_VERIFIED" ELSE "RESTORE_FAILED"

CheckResume ==
    /\ p.at \in {"check_restored", "check_last_look", "check_after", "check_again",
                 "check_again_after", "check_later", "check_late", "check_late_after"}
    /\ p' = CASE p.at = "check_restored" ->
                    Call(p, "observe", IF p.rv = "yes" THEN "check_after" ELSE "check_last_look")
              [] p.at = "check_last_look" -> Finish(p, LastLook)
              [] p.at = "check_after" /\ p.rv # "stable" ->
                    Call([p EXCEPT !.ok = FALSE], "unlock", "check_again")
              [] p.at \in {"check_after", "check_again_after"} /\ p.rv = "stable" ->
                    Finish(p, CheckVerdict)
              [] p.at = "check_later" /\ p.rv # "stable" -> Call(p, "unlock", "check_late")
              [] p.at \in {"check_later", "check_late_after"} /\ p.rv = "stable" ->
                    Finish(p, UnseenVerdict)
              [] p.at \in {"check_again", "check_late"} /\ p.rv = "yes" ->
                    Call(p, "observe", IF p.at = "check_again" THEN "check_again_after"
                                                               ELSE "check_late_after")
              [] OTHER -> Finish(p, "RESTORE_FAILED")
    /\ NoAccess

\* Waits for the state that was seen once: Ftst set, both fans in mode 0 at
\* their minimum
RehearseWatch ==
    /\ p.at = "rehearse_watch"
    /\ \/ interrupted /\ p' = Call(p, "unlock", "rehearse_restored") /\ NoAccess
       \/ \E r \in Reads, safe \in Temperatures, slept \in Waits, inTime \in InTime :
          LET o == r.seen
              q == [p EXCEPT
                      !.unlocked = @ \/ o.ftst = 1,
                      !.goal = o.ftst = 1 /\ \A fan \in Fans : o.mode[fan] = 0
                                                             /\ o.target[fan] = MinimumRpm] IN
          /\ ~interrupted
          /\ Read(r, 0)
          /\ p' = IF o = NoReading \/ ~inTime \/ ~safe
                  THEN Call(p, "unlock", "rehearse_restored")
                  ELSE IF ~SystemOwned(o) \/ p.second = WatchHalfSeconds \/ ~slept
                  THEN Call(q, "unlock", "rehearse_restored")
                  ELSE [q EXCEPT !.second = @ + 1]

RehearseVerdict ==
    IF ~p.ok \/ ~p.unlocked THEN "WRITE_EFFECT_UNVERIFIED"
    ELSE IF p.goal THEN "SUCCEEDED" ELSE "CONTROL_FAILED_SYSTEM_VERIFIED"

RehearseResume ==
    /\ p.at \in {"rehearse_restored", "rehearse_last_look", "rehearse_after", "rehearse_again",
                 "rehearse_again_after"}
    /\ p' = CASE p.at = "rehearse_restored" ->
                    Call(p, "observe", IF p.rv = "yes" THEN "rehearse_after"
                                                       ELSE "rehearse_last_look")
              [] p.at = "rehearse_last_look" -> Finish(p, LastLook)
              [] p.at = "rehearse_after" /\ p.rv # "stable" ->
                    Call([p EXCEPT !.goal = FALSE], "unlock", "rehearse_again")
              [] p.at \in {"rehearse_after", "rehearse_again_after"} /\ p.rv = "stable" ->
                    Finish(p, RehearseVerdict)
              [] p.at = "rehearse_again" /\ p.rv = "yes" ->
                    Call(p, "observe", "rehearse_again_after")
              [] OTHER -> Finish(p, "RESTORE_FAILED")
    /\ NoAccess

-----------------------------------------------------------------------------
(* run_restore and run_restore_unlock: the emergency commands *)

CommandStart ==
    /\ p.at = "command"
    /\ p' = Call(p, p.entry, IF p.entry = "restore" THEN "restore_done" ELSE "unlock_done")
    /\ NoAccess

CommandResume ==
    /\ p.at \in {"restore_done", "restore_watched", "unlock_done"}
    /\ p' = IF p.at = "restore_done" /\ p.rv = "yes" THEN Call(p, "observe", "restore_watched")
            ELSE Finish(p, IF p.rv \in {"yes", "stable"} THEN "RESTORED" ELSE "NOT_RESTORED")
    /\ NoAccess

-----------------------------------------------------------------------------
\* The program when it is asked for an entry point
Started(e) ==
    [entry |-> e, at |-> IF e \in Trials THEN e ELSE "command", ret |-> <<>>, rv |-> "none", status |-> "running",
     second |-> 0, span |-> 0, samples |-> 0, tries |-> 0, item |-> 0, fresh |-> TRUE,
     delayed |-> FALSE, changed |-> FALSE, manual |-> {},
     ok |-> TRUE, goal |-> FALSE, unlocked |-> FALSE, released |-> FALSE]

AtBaseline == [ftst |-> 0, mode |-> [fan \in Fans |-> 3], target |-> [fan \in Fans |-> ZeroRpm]]

\* A trial follows a preflight that read the baseline; a recovery command meets
\* whatever an earlier run left behind
Init ==
    /\ \E e \in Entries : p = Started(e)
    /\ hw \in IF p.entry \in Trials THEN {AtBaseline}
              ELSE [ftst : 0..1, mode : [Fans -> {0, 1, 3}], target : [Fans -> {ZeroRpm, PlanRpm}]]
    /\ late = {}
    /\ interrupted = FALSE
    /\ quiet = -1
    /\ pair = FALSE
    /\ wrote = FALSE

\* on_signal: the flag is never taken back
Signal ==
    /\ "signal" \in Faults
    /\ p.at # "done" /\ p.entry \in Trials
    /\ ~interrupted
    /\ interrupted' = TRUE
    /\ UNCHANGED <<hw, late, p, quiet, pair, wrote>>

Program ==
    \/ RecoveryStep
    \/ DirectMode \/ DirectTarget \/ DirectRead \/ DirectHold \/ DirectResume
    \/ FtstBase \/ FtstEnable \/ CheckEffect \/ CheckRelease \/ CheckResume
    \/ RehearseWatch \/ RehearseResume
    \/ CommandStart \/ CommandResume

Smc == SmcStep /\ UNCHANGED <<p, interrupted, quiet, pair, wrote>>

Over == p.at = "done" /\ UNCHANGED vars

Next == Program \/ Smc \/ Signal \/ Over

\* The program keeps running; nothing is assumed of the SMC
Spec == Init /\ [][Next]_vars /\ WF_vars(Program)

-----------------------------------------------------------------------------
Labels ==
    {"direct", "direct_target", "direct_read", "direct_hold", "direct_restored", "direct_after",
     "direct_again", "direct_again_after", "check", "rehearse", "ftst_enable", "check_effect",
     "check_release", "check_restored", "check_last_look", "check_after", "check_again",
     "check_again_after", "check_later", "check_late", "check_late_after", "rehearse_watch",
     "rehearse_restored", "rehearse_last_look", "rehearse_after", "rehearse_again",
     "rehearse_again_after", "command", "restore_done", "restore_watched", "unlock_done",
     "observe", "restore", "restore_write", "restore_verify", "unlock", "unlock_observed",
     "unlock_reread", "unlock_restored", "unlock_watched", "unlock_release", "unlock_check",
     "unlock_zero", "unlock_zero_write", "unlock_zeroed", "unlock_clear", "unlock_cleared",
     "unlock_stable", "unlock_fallback", "done"}

\* Every variable has its type, and no call is nested deeper than the code nests
\* them (trial_actions.c: entry, restore_unlock, restore_system or the window).
TypeOK ==
    /\ hw \in Observation
    /\ late \subseteq Writes /\ Cardinality(late) <= MaxLate
    /\ p.at \in Labels /\ p.entry \in Entries
    /\ p.ret \in Seq(Labels) /\ Len(p.ret) <= 2
    /\ p.rv \in {"none", "stable", "changed", "failed", "yes", "no"}
    /\ p.status \in Statuses \cup {"running", "RESTORED", "NOT_RESTORED"}
    /\ (p.at = "done") = (p.status # "running")
    /\ p.second \in 0..BaselineWait + ObserveSeconds + EffectHalfSeconds + WatchHalfSeconds
    /\ p.samples \in 0..BaselineWait + 1 /\ p.span \in Nat
    /\ p.tries \in Nat /\ p.item \in 0..3 /\ p.fresh \in BOOLEAN
    /\ p.manual \subseteq Fans
    /\ {p.delayed, p.changed, p.ok, p.goal, p.unlocked, p.released} \subseteq BOOLEAN
    /\ {interrupted, pair, wrote} \subseteq BOOLEAN
    /\ quiet \in -1..10 * StableSeconds

\* What every verdict but "the restore failed" and "nothing was written" claims:
\* a whole minute of baseline readings, by the clock, with no write in it and
\* none after it (trial_execute_direct, trial_check_ftst, the rehearsal and both
\* recovery commands all end in trial_observe_baseline_window or in the 90 s
\* loop of trial_restore_unlock).
VerdictIsWitnessed ==
    p.status \in {"SUCCEEDED", "CONTROL_FAILED_SYSTEM_VERIFIED", "WRITE_EFFECT_UNVERIFIED", "RESTORED"}
        => quiet = 10 * StableSeconds

\* A run that is called a success, and a direct trial that is called verified,
\* leaves no write behind that could still hand a fan to the trial: the effect
\* of every write was seen before it was taken back.  Whoever did not see it
\* reports WRITE_EFFECT_UNVERIFIED or a failed restore (trial_actions.c 448,
\* 528, 624).
NothingPendingBehindSuccess ==
    p.status = "SUCCEEDED" \/ (p.entry = "direct" /\ p.status = "CONTROL_FAILED_SYSTEM_VERIFIED")
        => \A w \in late : ~Enabling(w)

\* BASELINE_REJECTED becomes exit code 2, which tells the supervising scripts
\* that no key was written and nothing has to be observed.
RejectedWroteNothing == p.status = "BASELINE_REJECTED" => ~wrote /\ late = {}

\* "Never clear Ftst while a fan still reports manual mode 1": when recovery
\* writes Ftst = 0 no fan is in mode 1, whatever the release writes returned and
\* whenever they take effect (trial_restore_unlock).
NeverClearsUnderManual ==
    [][p.at = "unlock_clear" /\ p'.at = "unlock_cleared" => \A fan \in Fans : hw.mode[fan] # 1]_vars

\* "Re-read before each write: never touch a target once either fan is
\* system-owned": a target is zeroed before the release only on a reading, later
\* than the last write, that showed both fans in mode 0 (trial_restore_unlock).
ZeroesOnlyReleasedPair ==
    [][p.at = "unlock_zero_write" /\ p' # p => pair]_vars

\* Every run ends, whatever the SMC answers and however often recovery has to
\* start again: all the retries and windows are bounded.
Terminates == <>(p.at = "done")

=============================================================================
