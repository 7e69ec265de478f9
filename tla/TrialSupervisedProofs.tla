------------------------ MODULE TrialSupervisedProofs ------------------------
(***************************************************************************)
(* Proofs about the command line and the scripts of TrialSupervised, for   *)
(* any number of signals and kills at any step, on top of what             *)
(* TrialRunsProofs shows of the program they run.                          *)
(***************************************************************************)
EXTENDS TrialSupervised, TrialRunsProofs

-----------------------------------------------------------------------------
(* The inductive invariant: the child.                                     *)

\* Where main and its gates are, before and after the program of TrialRuns
Outer == {"main", "preflight", "confirm", "preflight_again", "look", "exited"}

\* Nothing that a trial would enable is there or on its way
Unset(h, l) == l = {} /\ \A w \in EnablingWrites : ~Shows(h, w)

\* Before the first write of any child the SMC shows nothing a trial enables.
Untouched == ~wrote => Unset(hw, late)

\* A process has not begun before its gates are behind it
Unbegun(q) ==
    /\ q.ret = << >> /\ q.rv = "none" /\ q.status = "running"
    /\ q.samples = 0 /\ q.item = 0 /\ ~q.goal /\ ~q.unlocked

\* The gates of each command
Gated(q) ==
    /\ q.at \in {"preflight", "confirm", "preflight_again"} => q.entry \in Trials
    /\ q.at = "look" => q.entry \in Commands
    /\ q.at \in Outer \ {"exited"} => Unbegun(q)

\* The child behind its gates is the program of TrialRuns.
ChildInv ==
    /\ SmcInv /\ EnablesItsOwn /\ Untouched /\ quiet \in -1..10 * StableSeconds
    /\ p \in ProgramShape /\ Gated(p)
    /\ p.at \notin Outer => IInv

-----------------------------------------------------------------------------
(* The inductive invariant: the script.                                    *)

ShellPlaces ==
    {"precheck_unlock", "precheck_trial", "starting", "trial", "observe", "recover",
     "recover_observe", "command", "ended", "killed"}
BeforeTrial == {"precheck_unlock", "precheck_trial", "starting"}
Codes == {0, 1, 2, 130, 137}

ShellShape ==
    [script : Supervised \cup {"command line"}, binary : {"current", "reviewed"},
     at : ShellPlaces, started : BOOLEAN, pending : BOOLEAN, trapped : BOOLEAN,
     trial : Codes, recovery : Codes, reboot : BOOLEAN, exit : Codes \cup {-1}]
ChildShape == [form : {"dry", "apply"}, handlers : BOOLEAN, code : Codes]

\* What each place of the script and each way of calling a child stand for.
Staged ==
    /\ sh \in ShellShape /\ child \in ChildShape /\ signals \in 0..MaxSignals
    /\ (sh.at = "ended") = (sh.exit # -1)
    /\ sh.script \notin Supervised => sh.at \in {"command", "ended"} /\ ~sh.pending
    /\ sh.script \in Supervised => sh.at # "command" /\ p.entry # "direct"
    /\ sh.at \in BeforeTrial \/ (sh.script \in Supervised /\ ~sh.started)
         => ~wrote /\ child.form = "dry"
    /\ sh.at \in {"starting", "trial", "observe", "recover", "recover_observe"} => sh.started
    /\ sh.at \in {"observe", "recover_observe"} => p.entry = "observe" /\ child.form = "apply"
    /\ child.form = "dry" =>
         p.at \in {"main", "preflight", "look", "exited"} /\ p.entry # "observe"

\* A child that says nothing was written is believed by the script: it has to be
\* true of every child before it as well.
CodeIsTrue ==
    /\ p.at \in Outer \ {"exited"} /\ p.entry \in Trials => ~wrote
    /\ p.at = "exited" /\ child.code = 2 => ~wrote
    /\ p.at = "exited" /\ child.code = 0 /\ child.form = "apply" => WholeMinute

\* The script has ended: its child has, and the three promises hold.
EndIsTrue ==
    sh.at = "ended" =>
        p.at = "exited" /\ ExitTwoWroteNothing /\ ExitZeroIsWitnessed /\ WrittenMeansWatched

ScriptInv == Staged /\ CodeIsTrue /\ EndIsTrue

SupervisedInv == ChildInv /\ ScriptInv

-----------------------------------------------------------------------------
(* What the steps of the program have in common.                           *)

\* A step of the program accesses nothing, reads, or writes
Accesses == NoAccess \/ (\E r \in Reads, gap \in Nat : Read(r, gap)) \/ wrote'

\* The program moves at its own places only.
LEMMA ProgramAccesses == Program => p.at \in Labels /\ Accesses
<1>1. Observe => p.at \in Labels /\ Accesses BY GapsAreNat, Zenon DEF Observe, Labels, Accesses
<1>2. RestoreRead => p.at \in Labels /\ Accesses BY Zenon DEF RestoreRead, Labels, Accesses
<1>3. RestoreWrite => p.at \in Labels /\ Accesses BY Zenon DEF RestoreWrite, Labels, Accesses, Write
<1>4. RestoreVerify => p.at \in Labels /\ Accesses BY Zenon DEF RestoreVerify, Labels, Accesses
<1>5. UnlockRead => p.at \in Labels /\ Accesses BY Zenon DEF UnlockRead, Labels, Accesses
<1>6. UnlockReread => p.at \in Labels /\ Accesses BY Zenon DEF UnlockReread, Labels, Accesses
<1>7. UnlockResume => p.at \in Labels /\ Accesses BY Zenon DEF UnlockResume, Labels, Accesses
<1>8. UnlockRelease => p.at \in Labels /\ Accesses BY Zenon DEF UnlockRelease, Labels, Accesses, Write
<1>9. UnlockCheck => p.at \in Labels /\ Accesses BY Zenon DEF UnlockCheck, Labels, Accesses
<1>10. UnlockZero => p.at \in Labels /\ Accesses BY Zenon DEF UnlockZero, Labels, Accesses
<1>11. UnlockZeroWrite => p.at \in Labels /\ Accesses BY Zenon DEF UnlockZeroWrite, Labels, Accesses, Write
<1>12. UnlockZeroed => p.at \in Labels /\ Accesses BY Zenon DEF UnlockZeroed, Labels, Accesses
<1>13. UnlockClear => p.at \in Labels /\ Accesses BY Zenon DEF UnlockClear, Labels, Accesses, Write
<1>14. UnlockCleared => p.at \in Labels /\ Accesses BY Zenon DEF UnlockCleared, Labels, Accesses
<1>15. UnlockStable => p.at \in Labels /\ Accesses BY GapsAreNat, Zenon DEF UnlockStable, Labels, Accesses
<1>16. UnlockFallback => p.at \in Labels /\ Accesses BY Zenon DEF UnlockFallback, Labels, Accesses
<1>17. DirectMode => p.at \in Labels /\ Accesses BY Zenon DEF DirectMode, Labels, Accesses, Write
<1>18. DirectTarget => p.at \in Labels /\ Accesses BY Zenon DEF DirectTarget, Labels, Accesses, Write
<1>19. DirectRead => p.at \in Labels /\ Accesses BY Zenon DEF DirectRead, Labels, Accesses
<1>20. DirectHold => p.at \in Labels /\ Accesses BY Zenon DEF DirectHold, Labels, Accesses
<1>21. DirectResume => p.at \in Labels /\ Accesses BY Zenon DEF DirectResume, Labels, Accesses
<1>22. FtstBase => p.at \in Labels /\ Accesses BY Zenon DEF FtstBase, Labels, Accesses
<1>23. FtstEnable => p.at \in Labels /\ Accesses BY Zenon DEF FtstEnable, Labels, Accesses, Write
<1>24. CheckEffect => p.at \in Labels /\ Accesses BY Zenon DEF CheckEffect, Labels, Accesses
<1>25. CheckRelease => p.at \in Labels /\ Accesses BY Zenon DEF CheckRelease, Labels, Accesses, Write
<1>26. CheckResume => p.at \in Labels /\ Accesses BY Zenon DEF CheckResume, Labels, Accesses
<1>27. RehearseWatch => p.at \in Labels /\ Accesses BY Zenon DEF RehearseWatch, Labels, Accesses
<1>28. RehearseResume => p.at \in Labels /\ Accesses BY Zenon DEF RehearseResume, Labels, Accesses
<1>29. CommandStart => p.at \in Labels /\ Accesses BY Zenon DEF CommandStart, Labels, Accesses
<1>30. CommandResume => p.at \in Labels /\ Accesses BY Zenon DEF CommandResume, Labels, Accesses
<1> QED BY <1>1, <1>2, <1>3, <1>4, <1>5, <1>6, <1>7, <1>8, <1>9, <1>10, <1>11, <1>12, <1>13,
       <1>14, <1>15, <1>16, <1>17, <1>18, <1>19, <1>20, <1>21, <1>22, <1>23, <1>24, <1>25,
       <1>26, <1>27, <1>28, <1>29, <1>30 DEF Program, RecoveryStep

\* Neither a call nor a return is another entry point.
LEMMA OperatorsKeepEntry ==
    ASSUME NEW q \in ProgramShape
    PROVE  /\ \A a, b : Call(q, a, b).entry = q.entry
           /\ \A v : Return(q, v).entry = q.entry
           /\ \A l : Goto(q, l).entry = q.entry
BY DEF Call, Return, Goto, ProgramShape

\* Nor is the reading recovery starts from.
LEMMA DispatchKeepsEntry ==
    ASSUME p \in ProgramShape, NEW o \in Observation, NEW delayed \in BOOLEAN
    PROVE  Dispatch(o, delayed).entry = p.entry
<1>1. PICK n, M : n = Noted(o) /\ M = {fan \in Fans : o.mode[fan] = 1} OBVIOUS
<1>2. PICK q : q = [n EXCEPT !.delayed = delayed] OBVIOUS
<1>3. n \in ProgramShape /\ n.entry = p.entry BY <1>1, NotedFields
<1>4. q \in ProgramShape /\ q.entry = p.entry BY <1>2, <1>3 DEF ProgramShape
<1>5. o.ftst = 0 \/ o.ftst = 1 BY DEF Observation
<1>6. CASE o.ftst = 0
  <2>1. Dispatch(o, delayed) = Call(q, "restore", "unlock_restored") BY <1>1, <1>2, <1>6 DEF Dispatch
  <2> QED BY <1>4, <2>1, OperatorsKeepEntry
<1>7. CASE o.ftst = 1
  <2>1. Dispatch(o, delayed) = [q EXCEPT !.at = "unlock_release", !.tries = 0, !.manual = M]
    BY <1>1, <1>2, <1>7 DEF Dispatch
  <2> QED BY <1>4, <2>1 DEF ProgramShape
<1> QED BY <1>5, <1>6, <1>7

\* The entry point of a process is settled when it is launched.
LEMMA ProgramKeepsEntry == ASSUME IInv, Program PROVE p'.entry = p.entry
<1> p \in ProgramShape BY DEF IInv, Shaped
<1>1. Observe => p'.entry = p.entry
  <2> SUFFICES ASSUME Observe, p' # Return(p, "failed") PROVE p'.entry = p.entry
    BY OperatorsKeepEntry
  <2>1. PICK r \in Reads, gap \in Gaps, slept \in Waits :
          LET q == IF r.seen = NoReading THEN p ELSE Noted(r.seen) IN
          p' = IF SampleVerdict(r.seen, gap) # "again" THEN Return(q, SampleVerdict(r.seen, gap))
               ELSE IF ~slept THEN Return(q, "failed")
               ELSE [q EXCEPT !.second = @ + 1, !.span = IF p.second = 0 THEN 0 ELSE @ + gap]
    BY Zenon DEF Observe
  <2>2. PICK q : q = IF r.seen = NoReading THEN p ELSE Noted(r.seen) OBVIOUS
  <2>3. q \in ProgramShape /\ q.entry = p.entry BY <2>2, NotedFields
  <2>4. \/ \E v : p' = Return(q, v)
        \/ \E second, span : p' = [q EXCEPT !.second = second, !.span = span]
    BY <2>1, <2>2
  <2>5. CASE \E v : p' = Return(q, v) BY <2>3, <2>5, OperatorsKeepEntry
  <2>6. CASE \E second, span : p' = [q EXCEPT !.second = second, !.span = span]
    BY <2>3, <2>6 DEF ProgramShape
  <2> QED BY <2>4, <2>5, <2>6
<1>2. RestoreRead => p'.entry = p.entry BY DEF RestoreRead, Return, Goto, ProgramShape
<1>3. RestoreWrite => p'.entry = p.entry BY DEF RestoreWrite, ProgramShape
<1>4. RestoreVerify => p'.entry = p.entry BY DEF RestoreVerify, Return, ProgramShape
<1>5. UnlockRead => p'.entry = p.entry
  <2> SUFFICES ASSUME UnlockRead PROVE p'.entry = p.entry OBVIOUS
  <2>1. PICK r \in Reads :
          /\ Read(r, 0)
          /\ p' = CASE r.seen = NoReading /\ p.tries + 1 < ReleaseRetries -> [p EXCEPT !.tries = @ + 1]
                    [] r.seen = NoReading /\ p.tries + 1 = ReleaseRetries -> Return(p, "no")
                    [] r.seen # NoReading /\ Baseline(r.seen) -> Call(p, "observe", "unlock_observed")
                    [] r.seen # NoReading /\ ~Baseline(r.seen) -> Dispatch(r.seen, FALSE)
    BY Zenon DEF UnlockRead
  <2>2. p.at = "unlock" BY DEF UnlockRead
  <2>3. /\ p.tries \in Nat /\ ReleaseRetries \in Nat
        /\ p.tries + 1 < ReleaseRetries \/ p.tries + 1 = ReleaseRetries
    BY <2>2, RecoveryAssumption DEF IInv, Shaped, Counted, ProgramShape
  <2>4. CASE r.seen = NoReading
    <3>1. CASE p.tries + 1 < ReleaseRetries
      <4>1. p.tries + 1 # ReleaseRetries BY <2>3, <3>1
      <4>2. p' = [p EXCEPT !.tries = @ + 1] BY <2>1, <2>4, <3>1, <4>1
      <4> QED BY <4>2 DEF ProgramShape
    <3>2. CASE p.tries + 1 = ReleaseRetries
      <4>1. ~(p.tries + 1 < ReleaseRetries) BY <2>3, <3>2
      <4>2. p' = Return(p, "no") BY <2>1, <2>4, <3>2, <4>1
      <4> QED BY <4>2, OperatorsKeepEntry
    <3> QED BY <2>3, <3>1, <3>2
  <2>5. CASE r.seen # NoReading /\ Baseline(r.seen)
    <3>1. p' = Call(p, "observe", "unlock_observed") BY <2>1, <2>5
    <3> QED BY <3>1, OperatorsKeepEntry
  <2>6. CASE r.seen # NoReading /\ ~Baseline(r.seen)
    <3>1. p' = Dispatch(r.seen, FALSE) BY <2>1, <2>6
    <3>2. r.seen \in Observation BY <2>1, <2>6, ReadStep
    <3> QED BY <3>1, <3>2, DispatchKeepsEntry
  <2> QED BY <2>4, <2>5, <2>6
<1>6. UnlockReread => p'.entry = p.entry
  <2> SUFFICES ASSUME UnlockReread PROVE p'.entry = p.entry OBVIOUS
  <2>1. PICK r \in Reads :
          /\ Read(r, 0)
          /\ p' = IF r.seen = NoReading THEN Return(p, "no") ELSE Dispatch(r.seen, TRUE)
    BY Zenon DEF UnlockReread
  <2>2. r.seen # NoReading => r.seen \in Observation BY <2>1, ReadStep
  <2> QED BY <2>1, <2>2, DispatchKeepsEntry, OperatorsKeepEntry
<1>7. UnlockResume => p'.entry = p.entry BY DEF UnlockResume, Goto, ReturnTruth, Return, Call, ProgramShape
<1>8. UnlockRelease => p'.entry = p.entry BY DEF UnlockRelease, Goto, Return, ProgramShape
<1>9. UnlockCheck => p'.entry = p.entry BY DEF UnlockCheck, Return, Goto, Noted, ProgramShape
<1>10. UnlockZero => p'.entry = p.entry BY DEF UnlockZero, Goto, Noted, NextZero, ProgramShape
<1>11. UnlockZeroWrite => p'.entry = p.entry BY DEF UnlockZeroWrite, NextZero, ProgramShape
<1>12. UnlockZeroed => p'.entry = p.entry BY DEF UnlockZeroed, Return, Goto, Noted, ProgramShape
<1>13. UnlockClear => p'.entry = p.entry BY DEF UnlockClear, Goto, ProgramShape
<1>14. UnlockCleared => p'.entry = p.entry BY DEF UnlockCleared, Return, Noted, ProgramShape
<1>15. UnlockStable => p'.entry = p.entry BY DEF UnlockStable, Sampled, Noted, Return, ReturnTruth, Call, ProgramShape
<1>16. UnlockFallback => p'.entry = p.entry BY DEF UnlockFallback, Return, ProgramShape
<1>17. DirectMode => p'.entry = p.entry BY DEF DirectMode, GiveBack, Call, Goto, ProgramShape
<1>18. DirectTarget => p'.entry = p.entry BY DEF DirectTarget, GiveBack, Call, Goto, ProgramShape
<1>19. DirectRead => p'.entry = p.entry BY DEF DirectRead, GiveBack, Call, ProgramShape
<1>20. DirectHold => p'.entry = p.entry BY DEF DirectHold, GiveBack, Call, ProgramShape
<1>21. DirectResume => p'.entry = p.entry BY DEF DirectResume, Finish, Call, ProgramShape
<1>22. FtstBase => p'.entry = p.entry BY DEF FtstBase, Finish, Goto, ProgramShape
<1>23. FtstEnable => p'.entry = p.entry BY DEF FtstEnable, ProgramShape
<1>24. CheckEffect => p'.entry = p.entry BY DEF CheckEffect, Goto, Call, Noted, ProgramShape
<1>25. CheckRelease => p'.entry = p.entry BY DEF CheckRelease, Call, ProgramShape
<1>26. CheckResume => p'.entry = p.entry BY DEF CheckResume, Call, Finish, ProgramShape
<1>27. RehearseWatch => p'.entry = p.entry
  <2> SUFFICES ASSUME RehearseWatch, p' # Call(p, "unlock", "rehearse_restored")
               PROVE  p'.entry = p.entry
    BY OperatorsKeepEntry
  <2>1. \E unlocked, goal :
          LET q == [p EXCEPT !.unlocked = unlocked, !.goal = goal] IN
          p' = Call(q, "unlock", "rehearse_restored") \/ p' = [q EXCEPT !.second = @ + 1]
    BY DEF RehearseWatch
  <2> QED BY <2>1 DEF Call, ProgramShape
<1>28. RehearseResume => p'.entry = p.entry BY DEF RehearseResume, Call, Finish, ProgramShape
<1>29. CommandStart => p'.entry = p.entry BY DEF CommandStart, Call, ProgramShape
<1>30. CommandResume => p'.entry = p.entry BY DEF CommandResume, Call, Finish, ProgramShape
<1> QED BY <1>1, <1>2, <1>3, <1>4, <1>5, <1>6, <1>7, <1>8, <1>9, <1>10, <1>11, <1>12, <1>13,
       <1>14, <1>15, <1>16, <1>17, <1>18, <1>19, <1>20, <1>21, <1>22, <1>23, <1>24, <1>25,
       <1>26, <1>27, <1>28, <1>29, <1>30 DEF Program, RecoveryStep

-----------------------------------------------------------------------------
(* The gates.                                                              *)

\* Behind the gates the program is at its own places.
LEMMA StackedPlaces == ASSUME NEW q, Stacked(q) PROVE q.at \notin Outer
BY DEF Stacked, PlacesOf, DirectPlaces, CheckPlaces, RehearsePlaces, CommandPlaces, InUnlock,
       InRestore, UnlockAfterObserve, UnlockAfterRestore, Outer

\* Those are not the places of the gates.
LEMMA LabelsApart == ASSUME NEW place \in Labels PROVE place \notin Outer
BY DEF Labels, Outer

\* A calm step does not set what is unset.
LEMMA UntouchedKeeps ==
    ASSUME SmcInv, Untouched, CalmTo(hw', late'), late' \subseteq late, wrote' = wrote
    PROVE  Untouched'
<1> SUFFICES ASSUME ~wrote PROVE Unset(hw', late') BY DEF Untouched
<1>1. late = {} /\ \A w \in EnablingWrites : ~Shows(hw, w) BY DEF Untouched, Unset
<1>2. late' = {} BY <1>1
<1>3. \A w \in EnablingWrites : w \in Writes /\ Enabling(w) BY DEF EnablingWrites
<1>4. \A w \in EnablingWrites : ~Shows(hw', w) BY <1>1, <1>3 DEF CalmTo
<1> QED BY <1>2, <1>4 DEF Unset

\* What every step of a gate leaves true: it reads at most.
Looks ==
    /\ SmcInv' /\ Untouched' /\ wrote' = wrote /\ quiet' \in -1..10 * StableSeconds
    /\ CalmTo(hw', late') /\ late' \subseteq late

\* A gate that does not access the SMC.
LEMMA IdleLooks == ASSUME ChildInv, UNCHANGED <<hw, late, wrote, quiet>> PROVE Looks
<1>1. CalmTo(hw, late) BY StillCalm DEF ChildInv
<1>2. CalmTo(hw', late') BY <1>1 DEF CalmTo
<1> QED BY <1>2 DEF Looks, ChildInv, SmcInv, Untouched

\* A gate that reads.
LEMMA ReadLooks == ASSUME ChildInv, NEW r \in Reads, Read(r, 0) PROVE Looks
<1>1. hw' = r.hw /\ late' = r.late /\ wrote' = wrote BY DEF Read
<1>2. CalmTo(r.hw, r.late) /\ r.late \subseteq late BY ReadCalm DEF ChildInv
<1>3. CalmTo(hw', late') /\ late' \subseteq late BY <1>1, <1>2
<1>4. Untouched' BY <1>1, <1>3, UntouchedKeeps DEF ChildInv
<1>5. SmcInv' BY <1>3 DEF CalmTo, SmcInv
<1>6. quiet' \in -1..10 * StableSeconds
  <2>1. StableSeconds \in Nat BY RecoveryAssumption
  <2>2. PICK N \in Nat : N = 10 * StableSeconds BY <2>1
  <2>3. quiet' = IF ~Baseline(r.seen) THEN -1
                 ELSE IF quiet < 0 THEN 0
                 ELSE IF quiet + 0 > N THEN N
                 ELSE quiet + 0
    BY <2>2 DEF Read
  <2>4. quiet \in -1..N BY <2>2 DEF ChildInv
  <2>5. quiet' \in -1..N BY <2>3, <2>4
  <2> QED BY <2>2, <2>5
<1> QED BY <1>1, <1>3, <1>4, <1>5, <1>6 DEF Looks

\* What is late belongs to the entry point as long as that stays.
LEMMA OwnKeeps ==
    ASSUME ChildInv, CalmTo(hw', late'), p'.entry = p.entry
    PROVE  EnablesItsOwn'
<1>1. \A w \in late' : Enabling(w) => w \in late /\ w \in Writes BY DEF CalmTo
<1> QED BY <1>1 DEF ChildInv, EnablesItsOwn

\* A child exits: whatever it was doing ends there.
LEMMA ExitChild ==
    ASSUME ChildInv, Looks, p' = Goto(p, "exited")
    PROVE  ChildInv' /\ p'.at = "exited" /\ p'.entry = p.entry
<1>1. "exited" \in Places /\ "exited" \in Outer BY DEF Places, Outer
<1>2. p' \in ProgramShape /\ p'.at = "exited" /\ p'.entry = p.entry
  BY <1>1, GotoFields DEF ChildInv
<1>3. Gated(p') BY <1>2 DEF Gated
<1>4. EnablesItsOwn' BY <1>2, OwnKeeps DEF Looks
<1> QED BY <1>1, <1>2, <1>3, <1>4 DEF ChildInv, Looks

\* A trial begins on an SMC that nobody has written to.
LEMMA TrialBegins ==
    ASSUME SmcInv', EnablesItsOwn', quiet' \in -1..10 * StableSeconds,
           p' \in ProgramShape, p'.entry \in Trials, p'.at = p'.entry, Unbegun(p'),
           ~wrote', Unset(hw', late')
    PROVE  IInv'
<1>1. p'.at \in {"direct", "check", "rehearse"} BY DEF Trials
<1>2. /\ p'.ret = << >> /\ p'.rv = "none" /\ p'.status = "running" /\ p'.samples = 0
      /\ p'.item = 0 /\ ~p'.goal /\ ~p'.unlocked
  BY DEF Unbegun
<1>3. Stacked(p') /\ Bottom(p') = p'.at
  BY <1>1, <1>2 DEF Stacked, PlacesOf, DirectPlaces, CheckPlaces, RehearsePlaces, Bottom
<1>4. Shaped' BY <1>1, <1>2, <1>3 DEF Shaped, Counted, Answered
<1>5. MinuteIsSeen' BY <1>1, <1>2 DEF MinuteIsSeen, VerdictIsWitnessed
<1>6. NothingYet' /\ RejectedWroteNothing' /\ PairIsRead' /\ ReleasedStays'
  BY <1>1, <1>2 DEF NothingYet, RejectedWroteNothing, PairIsRead, ReleasedStays, Releasing, Unset
<1>7. EffectIsOpen'
  <2>1. \A w \in ToWrite(p') : w \in EnablingWrites
    BY <1>1 DEF ToWrite, EnablingWrites, Ftst, Writes, Enabling
  <2> QED BY <2>1 DEF EffectIsOpen, Unset
<1>8. SettledIsOver' BY <1>2 DEF SettledIsOver, NothingPendingBehindSuccess, Unset
<1> QED BY <1>4, <1>5, <1>6, <1>7, <1>8 DEF IInv

\* A recovery command begins on whatever is there.
LEMMA CommandBegins ==
    ASSUME SmcInv', EnablesItsOwn', quiet' \in -1..10 * StableSeconds,
           p' \in ProgramShape, p'.entry \in Commands, p'.at = "command", Unbegun(p')
    PROVE  IInv'
<1>1. /\ p'.ret = << >> /\ p'.status = "running" /\ p'.samples = 0 BY DEF Unbegun
<1>2. Stacked(p') BY <1>1 DEF Stacked, PlacesOf, CommandPlaces
<1>3. Counted(p') BY <1>1 DEF Counted
<1>4. /\ p'.at \notin Releasing \cup {"check", "rehearse", "unlock_stable"}
      /\ p'.at \notin AfterObserve \cup AfterRestore \cup AfterUnlock \cup UnlockAfterObserve
      /\ p'.at \notin Early
  BY DEF Releasing, AfterObserve, AfterRestore, AfterUnlock, UnlockAfterObserve, Early
<1>5. EffectIsOpen' BY <1>4 DEF EffectIsOpen
<1>6. ~Settled(p') BY DEF Settled, Commands
<1> QED BY <1>1, <1>2, <1>3, <1>4, <1>5, <1>6, EntryKeeps

-----------------------------------------------------------------------------
(* Steps of the child.                                                     *)

\* What a step of the child owes to the script, which does not move with it.
LEMMA ChildMoves ==
    ASSUME SupervisedInv, p.at # "exited", UNCHANGED <<sh, signals>>,
           p'.entry = p.entry, child' \in ChildShape, child'.form = child.form,
           child.form = "dry" =>
              wrote' = wrote /\ p'.at \in {"main", "preflight", "look", "exited"},
           ChildInv', CodeIsTrue'
    PROVE  SupervisedInv'
<1>1. Staged' BY DEF SupervisedInv, ScriptInv, Staged
<1>2. EndIsTrue' BY DEF SupervisedInv, ScriptInv, EndIsTrue
<1> QED BY <1>1, <1>2 DEF SupervisedInv, ScriptInv

\* A code that a child exits with is one of the codes, and its form stays.
LEMMA CodeFields ==
    ASSUME child \in ChildShape, NEW code \in Codes
    PROVE  LET c == [child EXCEPT !.code = code] IN
           c \in ChildShape /\ c.form = child.form /\ c.code = code
BY DEF ChildShape

\* A child exits, with the promises of its code.
LEMMA ExitMoves ==
    ASSUME SupervisedInv, p.at # "exited", UNCHANGED <<sh, signals>>, Looks,
           NEW code \in Codes, Exit(code),
           code = 2 => ~wrote,
           code = 0 /\ child.form = "apply" => WholeMinute'
    PROVE  SupervisedInv'
<1>1. ChildInv' /\ p'.at = "exited" /\ p'.entry = p.entry
  BY ExitChild DEF SupervisedInv, Exit
<1>2. child' \in ChildShape /\ child'.form = child.form /\ child'.code = code
  BY CodeFields DEF SupervisedInv, ScriptInv, Staged, Exit
<1>3. CodeIsTrue' BY <1>1, <1>2 DEF CodeIsTrue, Looks
<1> QED BY <1>1, <1>2, <1>3, ChildMoves DEF Looks

\* The program runs as TrialRuns has it.
LEMMA ProgramStep ==
    ASSUME SupervisedInv, Program, UNCHANGED <<child, sh, signals>>
    PROVE  SupervisedInv'
<1>1. p.at \in Labels /\ p.at \notin Outer /\ p.at # "exited"
  BY ProgramAccesses, LabelsApart DEF Outer
<1>2. IInv BY <1>1 DEF SupervisedInv, ChildInv
<1>3. IInv'
  <2>1. Next BY DEF Next
  <2> QED BY <1>2, <2>1, NextKeeps
<1>4. p'.entry = p.entry BY <1>2, ProgramKeepsEntry
<1>5. p'.at \notin Outer /\ p' \in ProgramShape BY <1>3, StackedPlaces DEF IInv, Shaped
<1>6. Untouched'
  <2> SUFFICES ASSUME ~wrote' PROVE Untouched' BY DEF Untouched
  <2>1. CASE NoAccess
    <3>1. Looks BY <2>1, IdleLooks DEF NoAccess, SupervisedInv
    <3> QED BY <3>1 DEF Looks
  <2>2. CASE \E r \in Reads, gap \in Nat : Read(r, gap)
    <3>1. PICK r \in Reads, gap \in Nat : Read(r, gap) BY <2>2
    <3>2. CalmTo(hw', late') /\ late' \subseteq late BY <1>2, <3>1, ReadStep
    <3>3. wrote' = wrote BY <3>1 DEF Read
    <3> QED BY <3>2, <3>3, UntouchedKeeps DEF SupervisedInv, ChildInv
  <2> QED BY <2>1, <2>2, ProgramAccesses DEF Accesses
<1>7. ChildInv'
  <2>1. Gated(p') BY <1>5 DEF Gated, Outer
  <2> QED BY <1>3, <1>5, <1>6, <2>1 DEF ChildInv, IInv, MinuteIsSeen
<1>8. child.form # "dry" BY <1>1 DEF SupervisedInv, ScriptInv, Staged, Outer
<1>9. CodeIsTrue' BY <1>5 DEF CodeIsTrue, Outer
<1>10. child' \in ChildShape /\ child'.form = child.form
  BY DEF SupervisedInv, ScriptInv, Staged
<1> QED BY <1>1, <1>4, <1>7, <1>8, <1>9, <1>10, ChildMoves

\* A gate leads to another gate.
LEMMA GateMoves ==
    ASSUME SupervisedInv, p.at \in Outer \ {"exited"}, UNCHANGED <<sh, signals>>, Looks,
           p' \in ProgramShape, p'.entry = p.entry, p'.at \in Outer \ {"exited"}, Gated(p'),
           child' \in ChildShape, child'.form = child.form,
           child.form = "dry" => p'.at \in {"main", "preflight", "look"}
    PROVE  SupervisedInv'
<1>1. EnablesItsOwn' BY OwnKeeps DEF Looks, SupervisedInv
<1>2. ChildInv' BY <1>1 DEF ChildInv, Looks
<1>3. CodeIsTrue' BY DEF CodeIsTrue, Looks, SupervisedInv, ScriptInv
<1> QED BY <1>2, <1>3, ChildMoves DEF Looks

\* The last gate leads into the program.
LEMMA GateOpens ==
    ASSUME SupervisedInv, p.at \in Outer \ {"exited"}, UNCHANGED <<sh, signals>>, Looks,
           p'.entry = p.entry, IInv',
           child' \in ChildShape, child'.form = child.form, child.form # "dry"
    PROVE  SupervisedInv'
<1>1. p'.at \notin Outer /\ p' \in ProgramShape BY StackedPlaces DEF IInv, Shaped
<1>2. Gated(p') BY <1>1 DEF Gated, Outer
<1>3. ChildInv' BY <1>1, <1>2 DEF ChildInv, Looks, IInv
<1>4. CodeIsTrue' BY <1>1 DEF CodeIsTrue, Outer
<1> QED BY <1>3, <1>4, ChildMoves

\* A gate refuses with code 2 only while nothing has been written.
LEMMA RefusalMoves ==
    ASSUME SupervisedInv, p.at \in Outer \ {"exited"}, UNCHANGED <<sh, signals>>, Looks,
           Exit(NoWriteCode)
    PROVE  SupervisedInv'
<1>1. NoWriteCode \in {1, 2} /\ NoWriteCode \in Codes BY DEF NoWriteCode, Codes
<1>2. NoWriteCode = 2 => p.entry \in Trials BY DEF NoWriteCode, Trials
<1>3. NoWriteCode = 2 => ~wrote BY <1>2 DEF SupervisedInv, ScriptInv, CodeIsTrue
<1> QED BY <1>1, <1>3, ExitMoves

\* main.
LEMMA MainStep == ASSUME SupervisedInv, Main, UNCHANGED <<sh, signals>> PROVE SupervisedInv'
<1>1. p.at = "main" /\ p.at \in Outer \ {"exited"} BY DEF Main, Outer
<1>2. Looks BY IdleLooks DEF Main, NoAccess, SupervisedInv
<1>3. CASE Exit(NoWriteCode) BY <1>1, <1>2, <1>3, RefusalMoves
<1>4. CASE ~Exit(NoWriteCode)
  <2>1. /\ p' = CASE p.entry \in Trials   -> Goto(p, "preflight")
                  [] p.entry \in Commands -> Goto(p, "look")
                  [] p.entry = "observe"  -> Call(p, "observe", "observed")
        /\ child' = [child EXCEPT !.handlers = p.entry = "observe"]
    BY <1>4, Zenon DEF Main
  <2>2. child' \in ChildShape /\ child'.form = child.form
    <3>1. child \in ChildShape BY DEF SupervisedInv, ScriptInv, Staged
    <3> QED BY <2>1, <3>1 DEF ChildShape
  <2>3. p \in ProgramShape /\ Unbegun(p) BY <1>1 DEF SupervisedInv, ChildInv, Gated
  <2>4. p.entry \in Trials \cup Commands \cup {"observe"} BY <2>3 DEF ProgramShape
  <2>5. ASSUME NEW place \in {"preflight", "look"}, p' = Goto(p, place),
               place = "preflight" => p.entry \in Trials,
               place = "look" => p.entry \in Commands
        PROVE  SupervisedInv'
    <3>1. place \in Places BY DEF Places
    <3>2. p' = [p EXCEPT !.at = place] BY <2>5 DEF Goto
    <3>3. p' \in ProgramShape /\ p'.at = place /\ p'.entry = p.entry
      BY <2>3, <2>5, <3>1, GotoFields
    <3>4. Unbegun(p') BY <2>3, <3>2 DEF Unbegun, ProgramShape
    <3>5. Gated(p') BY <2>5, <3>3, <3>4 DEF Gated
    <3>6. p'.at \in Outer \ {"exited"} BY <3>3 DEF Outer
    <3> QED BY <1>1, <1>2, <2>2, <3>3, <3>5, <3>6, GateMoves
  <2>6. CASE p.entry \in Trials
    <3>1. p' = Goto(p, "preflight") BY <2>1, <2>6 DEF Trials, Commands
    <3> QED BY <2>5, <2>6, <3>1
  <2>7. CASE p.entry \in Commands
    <3>1. p' = Goto(p, "look") BY <2>1, <2>7 DEF Trials, Commands
    <3> QED BY <2>5, <2>7, <3>1
  <2>8. CASE p.entry = "observe"
    <3>1. p' = Call(p, "observe", "observed") BY <2>1, <2>8 DEF Trials, Commands
    <3>2. "observe" \in Places /\ "observed" \in Places BY DEF Places, Labels
    <3>3. p'.entry = p.entry BY <2>3, <3>1, <3>2, CallFields
    <3>4. EnablesItsOwn' BY <1>2, <3>3, OwnKeeps DEF Looks, SupervisedInv
    <3>5. PlacesOf(p.entry, "observed") /\ "observed" \in AfterObserve
      BY <2>8 DEF PlacesOf, AfterObserve
    <3>6. ~SettledAt(p, "observed") BY <2>8 DEF SettledAt
    <3>7. p.ret = << >> /\ p.status = "running" BY <2>3 DEF Unbegun
    <3>8. IInv' BY <1>2, <2>3, <3>1, <3>4, <3>5, <3>6, <3>7, EntryCall DEF Looks
    <3>9. child.form # "dry" BY <2>8 DEF SupervisedInv, ScriptInv, Staged
    <3> QED BY <1>1, <1>2, <2>2, <3>3, <3>8, <3>9, GateOpens
  <2> QED BY <2>4, <2>6, <2>7, <2>8
<1> QED BY <1>3, <1>4

\* collect_preflight.
LEMMA PreflightStep ==
    ASSUME SupervisedInv, Preflight, UNCHANGED <<sh, signals>>
    PROVE  SupervisedInv'
<1>1. p.at \in {"preflight", "preflight_again"} /\ p.at \in Outer \ {"exited"}
  BY DEF Preflight, Outer
<1>2. PICK r \in Reads, refused \in Refusals :
        LET last == p.second + 1 = PreflightSamples IN
        /\ Read(r, 0)
        /\ IF ~Baseline(r.seen) \/ (~last /\ interrupted) \/ (last /\ refused)
           THEN Exit(NoWriteCode)
           ELSE IF last /\ child.form = "dry" THEN Exit(0)
           ELSE /\ p' = IF ~last THEN [p EXCEPT !.second = @ + 1]
                        ELSE [p EXCEPT !.second = 0,
                                       !.at = IF @ = "preflight" THEN "confirm" ELSE p.entry]
                /\ UNCHANGED child
  BY Zenon DEF Preflight
<1>3. Looks BY <1>2, ReadLooks DEF SupervisedInv
<1>4. CASE Exit(NoWriteCode) BY <1>1, <1>3, <1>4, RefusalMoves
<1>5. CASE child.form = "dry" /\ Exit(0)
  <2>1. 0 \in Codes BY DEF Codes
  <2> QED BY <1>1, <1>3, <1>5, <2>1, ExitMoves
<1>6. CASE ~Exit(NoWriteCode) /\ ~(child.form = "dry" /\ Exit(0))
  <2> DEFINE last == p.second + 1 = PreflightSamples
  <2>1. /\ UNCHANGED child /\ (last => child.form # "dry")
        /\ p' = IF ~last THEN [p EXCEPT !.second = @ + 1]
                ELSE [p EXCEPT !.second = 0,
                               !.at = IF @ = "preflight" THEN "confirm" ELSE p.entry]
    BY <1>2, <1>6
  <2> HIDE DEF last
  <2>2. child' \in ChildShape /\ child'.form = child.form
    BY <2>1 DEF SupervisedInv, ScriptInv, Staged
  <2>3. p \in ProgramShape /\ Unbegun(p) /\ p.entry \in Trials
    BY <1>1 DEF SupervisedInv, ChildInv, Gated
  <2>4. CASE ~last
    <3>1. p' = [p EXCEPT !.second = @ + 1] BY <2>1, <2>4
    <3>2. p.second \in Nat BY <2>3 DEF ProgramShape
    <3>3. PICK n \in Nat : n = p.second + 1 BY <3>2
    <3>4. p' = [p EXCEPT !.second = n] BY <3>1, <3>3
    <3>5. p' \in ProgramShape BY <2>3, <3>4, Zenon DEF ProgramShape
    <3>6. p'.at = p.at /\ p'.entry = p.entry /\ Unbegun(p')
      BY <2>3, <3>4 DEF ProgramShape, Unbegun
    <3>7. Gated(p') BY <1>1, <2>3, <3>6 DEF Gated
    <3>8. child.form = "dry" => p'.at \in {"main", "preflight", "look"}
      BY <1>1, <3>6 DEF SupervisedInv, ScriptInv, Staged
    <3> QED BY <1>1, <1>3, <2>2, <3>5, <3>6, <3>7, <3>8, GateMoves
  <2>5. CASE last /\ p.at = "preflight"
    <3>1. p' = [p EXCEPT !.second = 0, !.at = "confirm"] BY <2>1, <2>3, <2>5 DEF ProgramShape
    <3>2. "confirm" \in Places /\ "confirm" \in Outer \ {"exited"} /\ 0 \in Nat
      BY DEF Places, Outer
    <3>3. p' \in ProgramShape BY <2>3, <3>1, <3>2, Zenon DEF ProgramShape
    <3>4. p'.at = "confirm" /\ p'.entry = p.entry /\ Unbegun(p')
      BY <2>3, <3>1 DEF ProgramShape, Unbegun
    <3>5. Gated(p') BY <2>3, <3>4 DEF Gated
    <3> QED BY <1>1, <1>3, <2>1, <2>2, <2>5, <3>2, <3>3, <3>4, <3>5, GateMoves
  <2>6. CASE last /\ p.at = "preflight_again"
    <3>1. p' = [p EXCEPT !.second = 0, !.at = p.entry] BY <2>1, <2>3, <2>6 DEF ProgramShape
    <3>2. p.entry \in Places /\ 0 \in Nat BY <2>3 DEF Trials, Places, Labels
    <3>3. p' \in ProgramShape BY <2>3, <3>1, <3>2, Zenon DEF ProgramShape
    <3>4. p'.at = p.entry /\ p'.entry = p.entry /\ Unbegun(p')
      BY <2>3, <3>1 DEF ProgramShape, Unbegun
    <3>5. EnablesItsOwn' BY <1>3, <3>4, OwnKeeps DEF Looks, SupervisedInv
    <3>6. ~wrote' BY <1>1, <1>3, <2>3 DEF SupervisedInv, ScriptInv, CodeIsTrue, Looks
    <3>7. Unset(hw', late') BY <1>3, <3>6 DEF Looks, Untouched
    <3>8. IInv' BY <1>3, <2>3, <3>3, <3>4, <3>5, <3>6, <3>7, TrialBegins DEF Looks
    <3> QED BY <1>1, <1>3, <2>1, <2>2, <2>6, <3>4, <3>8, GateOpens
  <2> QED BY <1>1, <2>4, <2>5, <2>6
<1> QED BY <1>4, <1>5, <1>6

\* The prompt.
LEMMA ConfirmStep ==
    ASSUME SupervisedInv, Confirm, UNCHANGED <<sh, signals>>
    PROVE  SupervisedInv'
<1>1. p.at = "confirm" /\ p.at \in Outer \ {"exited"} BY DEF Confirm, Outer
<1>2. Looks BY IdleLooks DEF Confirm, NoAccess, SupervisedInv
<1>3. CASE Exit(NoWriteCode) BY <1>1, <1>2, <1>3, RefusalMoves
<1>4. CASE p' = Goto(p, "preflight_again") /\ child' = [child EXCEPT !.handlers = TRUE]
  <2>1. child' \in ChildShape /\ child'.form = child.form /\ child.form # "dry"
    <3>1. child \in ChildShape BY DEF SupervisedInv, ScriptInv, Staged
    <3>2. child.form # "dry" BY <1>1 DEF SupervisedInv, ScriptInv, Staged
    <3> QED BY <1>4, <3>1, <3>2 DEF ChildShape
  <2>2. p \in ProgramShape /\ Unbegun(p) /\ p.entry \in Trials
    BY <1>1 DEF SupervisedInv, ChildInv, Gated
  <2>3. "preflight_again" \in Places /\ "preflight_again" \in Outer \ {"exited"}
    BY DEF Places, Outer
  <2>4. p' \in ProgramShape /\ p'.at = "preflight_again" /\ p'.entry = p.entry
    BY <1>4, <2>2, <2>3, GotoFields
  <2>5. Unbegun(p') BY <1>4, <2>2 DEF Unbegun, ProgramShape, Goto
  <2>6. Gated(p') BY <2>2, <2>4, <2>5 DEF Gated
  <2> QED BY <1>1, <1>2, <2>1, <2>3, <2>4, <2>6, GateMoves
<1> QED BY <1>3, <1>4 DEF Confirm

\* The recovery commands look before they act.
LEMMA LookStep == ASSUME SupervisedInv, Look, UNCHANGED <<sh, signals>> PROVE SupervisedInv'
<1>1. p.at = "look" /\ p.at \in Outer \ {"exited"} BY DEF Look, Outer
<1>2. PICK r \in Reads, refused \in Refusals :
        /\ Read(r, 0)
        /\ IF r.seen = NoReading THEN Exit(1)
           ELSE IF child.form = "dry" THEN Exit(0)
           ELSE IF refused THEN Exit(1)
           ELSE p' = Goto(p, "command") /\ UNCHANGED child
  BY Zenon DEF Look
<1>3. Looks BY <1>2, ReadLooks DEF SupervisedInv
<1>4. 0 \in Codes /\ 1 \in Codes BY DEF Codes
<1>5. CASE Exit(1) BY <1>1, <1>3, <1>4, <1>5, ExitMoves
<1>6. CASE child.form = "dry" /\ Exit(0) BY <1>1, <1>3, <1>4, <1>6, ExitMoves
<1>7. CASE child.form # "dry" /\ p' = Goto(p, "command") /\ UNCHANGED child
  <2>1. p \in ProgramShape /\ Unbegun(p) /\ p.entry \in Commands
    BY <1>1 DEF SupervisedInv, ChildInv, Gated
  <2>2. "command" \in Places BY DEF Places, Labels
  <2>3. p' \in ProgramShape /\ p'.at = "command" /\ p'.entry = p.entry
    BY <1>7, <2>1, <2>2, GotoFields
  <2>4. Unbegun(p') BY <1>7, <2>1 DEF Unbegun, ProgramShape, Goto
  <2>5. EnablesItsOwn' BY <1>3, <2>3, OwnKeeps DEF Looks, SupervisedInv
  <2>6. IInv' BY <1>3, <2>1, <2>3, <2>4, <2>5, CommandBegins DEF Looks
  <2>7. child' \in ChildShape /\ child'.form = child.form
    BY <1>7 DEF SupervisedInv, ScriptInv, Staged
  <2> QED BY <1>1, <1>3, <1>7, <2>3, <2>6, <2>7, GateOpens
<1> QED BY <1>2, <1>5, <1>6, <1>7

\* The exit code of a program that has come to its end: code 2 is a rejected baseline
\* and code 0 a minute that was seen.
LEMMA ReportStep == ASSUME SupervisedInv, Report, UNCHANGED <<sh, signals>> PROVE SupervisedInv'
<1>1. p.at \in {"done", "observed"} /\ p.at \notin Outer /\ p.at # "exited" BY DEF Report, Outer
<1>2. Looks BY IdleLooks DEF Report, NoAccess, SupervisedInv
<1>3. IInv BY <1>1 DEF SupervisedInv, ChildInv
<1>4. PICK code : /\ Exit(code)
                  /\ code = IF p.status \in {"SUCCEEDED", "RESTORED"} \/ p.rv = "stable" THEN 0
                            ELSE IF p.status = "BASELINE_REJECTED" THEN 2 ELSE 1
  BY DEF Report
<1>5. code \in Codes BY <1>4 DEF Codes
<1>6. code = 2 => ~wrote BY <1>3, <1>4 DEF IInv, RejectedWroteNothing
<1>7. code = 0 => WholeMinute
  <2>1. p.status \in {"SUCCEEDED", "RESTORED"} => WholeMinute
    BY <1>3 DEF IInv, MinuteIsSeen, VerdictIsWitnessed, WholeMinute
  <2>2. p.rv = "stable" => p.at = "observed" BY <1>1, <1>3 DEF IInv, Shaped, Answered
  <2>3. p.rv = "stable" => WholeMinute BY <1>3, <2>2 DEF IInv, MinuteIsSeen, AfterObserve
  <2> QED BY <1>4, <2>1, <2>3
<1>8. WholeMinute => WholeMinute' BY DEF WholeMinute, Report, NoAccess
<1> QED BY <1>1, <1>2, <1>4, <1>5, <1>6, <1>7, <1>8, ExitMoves

\* Every step of the child.
LEMMA ChildStepKeeps == ASSUME SupervisedInv, ChildStep PROVE SupervisedInv'
BY ProgramStep, MainStep, PreflightStep, ConfirmStep, LookStep, ReportStep DEF ChildStep, Child

-----------------------------------------------------------------------------
(* The SMC, kills and signals.                                             *)

\* The SMC moves by itself, also after everything has ended.
LEMMA EnvironmentKeeps == ASSUME SupervisedInv, Environment PROVE SupervisedInv'
<1>1. /\ UNCHANGED <<p, interrupted, quiet, pair, wrote, sh, child, signals>> /\ SmcStep /\ Smc
  BY DEF Environment, Smc
<1>2. CalmTo(hw', late') /\ late' \subseteq late
  BY <1>1, SmcStepCalm DEF SupervisedInv, ChildInv
<1>3. SmcInv' BY <1>2 DEF CalmTo, SmcInv
<1>4. Untouched' BY <1>1, <1>2, UntouchedKeeps DEF SupervisedInv, ChildInv
<1>5. EnablesItsOwn' BY <1>1, <1>2, OwnKeeps DEF SupervisedInv
<1>6. p'.at \notin Outer => IInv' BY <1>1, SmcKeeps DEF SupervisedInv, ChildInv
<1>7. ChildInv' BY <1>1, <1>3, <1>4, <1>5, <1>6 DEF SupervisedInv, ChildInv
<1>8. Staged' BY <1>1 DEF SupervisedInv, ScriptInv, Staged
<1>9. CodeIsTrue' BY <1>1 DEF SupervisedInv, ScriptInv, CodeIsTrue, WholeMinute
<1>10. EndIsTrue'
  BY <1>1, <1>2 DEF SupervisedInv, ScriptInv, EndIsTrue, ExitTwoWroteNothing,
                    ExitZeroIsWitnessed, WrittenMeansWatched
<1> QED BY <1>7, <1>8, <1>9, <1>10 DEF SupervisedInv, ScriptInv

\* The child is killed wherever it is.
LEMMA KillKeeps == ASSUME SupervisedInv, Kill PROVE SupervisedInv'
<1>1. p.at # "exited" /\ Exit(137) /\ NoAccess /\ UNCHANGED <<sh, signals>> BY DEF Kill
<1>2. Looks BY <1>1, IdleLooks DEF NoAccess, SupervisedInv
<1>3. 137 \in Codes BY DEF Codes
<1> QED BY <1>1, <1>2, <1>3, ExitMoves

\* The child is where it was, or has exited with a code that promises nothing.
LEMMA SignalledChild ==
    ASSUME SupervisedInv, UNCHANGED <<hw, late, quiet, pair, wrote>>,
           Exit(130) \/ UNCHANGED <<p, child>>
    PROVE  /\ ChildInv' /\ CodeIsTrue'
           /\ p'.entry = p.entry /\ p'.at \in {p.at, "exited"}
           /\ child' \in ChildShape /\ child'.form = child.form
<1>1. child \in ChildShape BY DEF SupervisedInv, ScriptInv, Staged
<1>2. CASE Exit(130)
  <2>1. Looks BY IdleLooks DEF SupervisedInv
  <2>2. ChildInv' /\ p'.at = "exited" /\ p'.entry = p.entry
    BY <1>2, <2>1, ExitChild DEF SupervisedInv, Exit
  <2>3. 130 \in Codes BY DEF Codes
  <2>4. child' \in ChildShape /\ child'.form = child.form /\ child'.code = 130
    BY <1>1, <1>2, <2>3, CodeFields DEF Exit
  <2>5. CodeIsTrue' BY <2>2, <2>4 DEF CodeIsTrue
  <2> QED BY <2>2, <2>4, <2>5
<1>3. CASE UNCHANGED <<p, child>>
  <2>1. p'.at \notin Outer => IInv' BY <1>3, StutterKeeps DEF SupervisedInv, ChildInv
  <2>2. ChildInv'
    BY <1>3, <2>1 DEF SupervisedInv, ChildInv, SmcInv, EnablesItsOwn, Untouched
  <2>3. CodeIsTrue' BY <1>3 DEF SupervisedInv, ScriptInv, CodeIsTrue, WholeMinute
  <2> QED BY <1>1, <1>3, <2>2, <2>3
<1> QED BY <1>2, <1>3

\* A signal reaches the script, the child or both.
LEMMA SignalKeeps == ASSUME SupervisedInv, SendSignal PROVE SupervisedInv'
<1>1. /\ UNCHANGED <<hw, late, quiet, pair, wrote>> /\ signals < MaxSignals
      /\ signals' = signals + 1 /\ sh.at \notin {"ended", "killed"}
  BY DEF SendSignal, Running
<1>2. Exit(130) \/ UNCHANGED <<p, child>> BY DEF SendSignal
<1>3. /\ ChildInv' /\ CodeIsTrue'
      /\ p'.entry = p.entry /\ p'.at \in {p.at, "exited"}
      /\ child' \in ChildShape /\ child'.form = child.form
  BY <1>1, <1>2, SignalledChild
<1>4. \/ sh' = sh
      \/ sh.script \in Supervised /\ sh' = [sh EXCEPT !.pending = TRUE]
      \/ sh.script \in Supervised /\ sh' = [sh EXCEPT !.at = "killed"]
  BY DEF SendSignal
<1>5. Staged BY DEF SupervisedInv, ScriptInv
<1>6. "killed" \in ShellPlaces BY DEF ShellPlaces
<1>7. /\ sh' \in ShellShape /\ sh'.script = sh.script /\ sh'.started = sh.started
      /\ sh'.exit = sh.exit /\ sh'.at \in {sh.at, "killed"}
      /\ sh.script \notin Supervised => sh' = sh
      /\ sh'.at = "killed" => sh.script \in Supervised
  BY <1>1, <1>4, <1>5, <1>6 DEF Staged, ShellShape
<1>8. signals' \in 0..MaxSignals
  <2>1. MaxSignals \in Nat BY SupervisedAssumption
  <2> QED BY <1>1, <1>5, <2>1 DEF Staged
<1>9. Staged' BY <1>1, <1>3, <1>5, <1>7, <1>8 DEF Staged, BeforeTrial
<1>10. EndIsTrue' BY <1>1, <1>7 DEF EndIsTrue
<1> QED BY <1>3, <1>9, <1>10 DEF SupervisedInv, ScriptInv

-----------------------------------------------------------------------------
(* Steps of the script.                                                    *)

\* A process that has just been launched.
LEMMA LaunchedFields ==
    ASSUME NEW cmd \in Trials \cup Commands \cup {"observe"}
    PROVE  LET c == [Started(cmd) EXCEPT !.at = "main"] IN
           c \in ProgramShape /\ c.at = "main" /\ c.entry = cmd /\ Unbegun(c) /\ Gated(c)
<1>1. PICK s : s = Started(cmd) OBVIOUS
<1>2. /\ s \in ProgramShape /\ s.entry = cmd /\ s.ret = << >> /\ s.rv = "none"
      /\ s.status = "running" /\ s.samples = 0 /\ s.item = 0 /\ ~s.goal /\ ~s.unlocked
  BY <1>1, StartedFields
<1>3. PICK c : c = [s EXCEPT !.at = "main"] OBVIOUS
<1>4. "main" \in Places BY DEF Places
<1>5. c \in ProgramShape BY <1>2, <1>3, <1>4, Zenon DEF ProgramShape
<1>6. c.at = "main" /\ c.entry = cmd /\ Unbegun(c) BY <1>2, <1>3 DEF ProgramShape, Unbegun
<1>7. Gated(c) BY <1>6 DEF Gated
<1> QED BY <1>1, <1>3, <1>5, <1>6, <1>7

\* The script starts its next child.  What is late is from the trial, which is not the
\* direct one, and belongs to any of the script's children.
LEMMA LaunchMoves ==
    ASSUME SupervisedInv, UNCHANGED signals, sh.script \in Supervised, sh.exit = -1,
           NEW cmd \in {"check", "rehearse", "unlock", "observe"},
           NEW form \in {"dry", "apply"}, Launch(cmd, form),
           sh' \in ShellShape, sh'.script = sh.script, sh'.exit = sh.exit,
           sh'.at \in {"precheck_trial", "trial", "observe", "recover", "recover_observe"},
           sh'.at = "precheck_trial" => ~wrote /\ form = "dry",
           sh'.at # "precheck_trial" => sh'.started,
           ~sh'.started => ~wrote /\ form = "dry",
           sh'.at \in {"observe", "recover_observe"} => cmd = "observe" /\ form = "apply",
           form = "dry" => cmd # "observe",
           cmd \in Trials => ~wrote
    PROVE  SupervisedInv'
<1>1. cmd \in Trials \cup Commands \cup {"observe"} /\ cmd # "direct" BY DEF Trials, Commands
<1>2. /\ p' \in ProgramShape /\ p'.at = "main" /\ p'.entry = cmd /\ Unbegun(p') /\ Gated(p')
      /\ child' = [form |-> form, handlers |-> FALSE, code |-> 0]
      /\ quiet' = -1 /\ UNCHANGED <<hw, late, wrote>>
  BY <1>1, LaunchedFields DEF Launch
<1>3. p.entry # "direct" BY DEF SupervisedInv, ScriptInv, Staged
<1>4. EnablesItsOwn' BY <1>1, <1>2, <1>3 DEF SupervisedInv, ChildInv, EnablesItsOwn
<1>5. quiet' \in -1..10 * StableSeconds
  <2>1. StableSeconds \in Nat BY RecoveryAssumption
  <2> QED BY <1>2, <2>1
<1>6. ChildInv'
  BY <1>2, <1>4, <1>5 DEF SupervisedInv, ChildInv, SmcInv, Untouched, Outer
<1>7. child' \in ChildShape /\ child'.form = form BY <1>2 DEF ChildShape, Codes
<1>8. Staged' BY <1>1, <1>2, <1>7 DEF SupervisedInv, ScriptInv, Staged, BeforeTrial
<1>9. CodeIsTrue' BY <1>2 DEF CodeIsTrue
<1>10. EndIsTrue' BY DEF EndIsTrue
<1> QED BY <1>6, <1>8, <1>9, <1>10 DEF SupervisedInv, ScriptInv

\* The script moves while no process runs.
LEMMA RestMoves ==
    ASSUME SupervisedInv, UNCHANGED <<vars, child, signals>>
    PROVE  ChildInv' /\ CodeIsTrue'
<1>1. UNCHANGED <<hw, late, p, quiet, pair, wrote, child>> BY DEF vars
<1>2. p'.at \notin Outer => IInv' BY <1>1, StutterKeeps DEF SupervisedInv, ChildInv
<1>3. ChildInv'
  BY <1>1, <1>2 DEF SupervisedInv, ChildInv, SmcInv, EnablesItsOwn, Untouched
<1>4. CodeIsTrue' BY <1>1 DEF SupervisedInv, ScriptInv, CodeIsTrue, WholeMinute
<1> QED BY <1>3, <1>4

\* The script ends, with the promises of its exit code.
LEMMA EndMoves ==
    ASSUME SupervisedInv, UNCHANGED <<vars, child, signals>>, p.at = "exited",
           sh' \in ShellShape, sh'.at = "ended", sh'.exit # -1, sh'.script = sh.script,
           sh'.started = sh.started, sh'.pending = sh.pending,
           sh'.exit = 2 => ~wrote,
           sh'.exit = 0 /\ child.form = "apply" =>
              WholeMinute /\ (sh.script \in Supervised => p.entry = "observe"),
           sh.script \in Supervised /\ wrote => sh'.reboot \/ (p.entry = "observe" /\ WholeMinute)
    PROVE  SupervisedInv'
<1>1. UNCHANGED <<hw, late, p, quiet, pair, wrote, child>> BY DEF vars
<1>2. ChildInv' /\ CodeIsTrue' BY RestMoves
<1>3. Staged' BY <1>1 DEF SupervisedInv, ScriptInv, Staged, BeforeTrial
<1>4. ~wrote => late = {} BY DEF SupervisedInv, ChildInv, Untouched, Unset
<1>5. EndIsTrue'
  BY <1>1, <1>4 DEF EndIsTrue, ExitTwoWroteNothing, ExitZeroIsWitnessed, WrittenMeansWatched,
                    WholeMinute
<1> QED BY <1>2, <1>3, <1>5 DEF SupervisedInv, ScriptInv

\* A script that is running: it has no exit code, and only scripts have children in
\* succession.
LEMMA RunningFields ==
    ASSUME SupervisedInv, Running
    PROVE  /\ sh \in ShellShape /\ child \in ChildShape /\ sh.exit = -1
           /\ sh.at # "command" => sh.script \in Supervised
           /\ sh.at = "command" => sh.script \notin Supervised
           /\ sh.pending => sh.script \in Supervised
           /\ sh.at \in {"starting", "trial", "observe", "recover", "recover_observe"} => sh.started
           /\ Staged /\ CodeIsTrue
           /\ {0, 1, 2, 130} \subseteq Codes /\ 0 # -1 /\ 1 # -1 /\ 2 # -1 /\ 130 # -1
           /\ \A c \in Codes : c # -1
BY DEF SupervisedInv, ScriptInv, Staged, Running, Codes

\* The dry runs.
LEMMA PrecheckStep ==
    ASSUME SupervisedInv, Running, p.at = "exited", Precheck, UNCHANGED signals
    PROVE  SupervisedInv'
<1>1. sh.at \in {"precheck_unlock", "precheck_trial", "starting"} BY DEF Precheck
<1>2. /\ sh \in ShellShape /\ sh.exit = -1 /\ sh.script \in Supervised /\ Staged
      /\ ~wrote /\ child.form = "dry"
  BY <1>1, RunningFields DEF Staged, BeforeTrial
<1>3. ShellPlaces = {"precheck_unlock", "precheck_trial", "starting", "trial", "observe",
                     "recover", "recover_observe", "command", "ended", "killed"}
      /\ 2 \in Codes \cup {-1}
  BY DEF ShellPlaces, Codes
<1>4. Trial \in {"check", "rehearse"} BY DEF Trial
<1>5. CASE child.code # 0
  <2>1. sh' = [sh EXCEPT !.at = "ended", !.exit = 2] /\ UNCHANGED <<vars, child>>
    BY <1>5 DEF Precheck
  <2>2. /\ sh' \in ShellShape /\ sh'.at = "ended" /\ sh'.exit = 2 /\ sh'.script = sh.script
        /\ sh'.started = sh.started /\ sh'.pending = sh.pending
    BY <1>2, <1>3, <2>1 DEF ShellShape
  <2> QED BY <1>2, <2>1, <2>2, EndMoves
<1>6. CASE child.code = 0 /\ sh.at = "precheck_unlock"
  <2>1. sh' = [sh EXCEPT !.at = "precheck_trial"] /\ Launch(Trial, "dry") BY <1>6 DEF Precheck
  <2>2. /\ sh' \in ShellShape /\ sh'.at = "precheck_trial" /\ sh'.exit = sh.exit
        /\ sh'.script = sh.script
    BY <1>2, <1>3, <2>1 DEF ShellShape
  <2> QED BY <1>2, <1>4, <2>1, <2>2, LaunchMoves
<1>7. CASE child.code = 0 /\ sh.at = "precheck_trial"
  <2>1. sh' = [sh EXCEPT !.at = "starting", !.started = TRUE] /\ UNCHANGED <<vars, child>>
    BY <1>7 DEF Precheck
  <2>2. /\ sh' \in ShellShape /\ sh'.at = "starting" /\ sh'.exit = sh.exit
        /\ sh'.script = sh.script /\ sh'.started
    BY <1>2, <1>3, <2>1 DEF ShellShape
  <2>3. ChildInv' /\ CodeIsTrue' BY <2>1, RestMoves
  <2>4. UNCHANGED <<p, wrote, child>> BY <2>1 DEF vars
  <2>5. Staged' BY <1>2, <2>2, <2>4 DEF Staged
  <2>6. EndIsTrue' BY <2>2 DEF EndIsTrue
  <2> QED BY <2>3, <2>5, <2>6 DEF SupervisedInv, ScriptInv
<1>8. CASE child.code = 0 /\ sh.at = "starting"
  <2>1. sh' = [sh EXCEPT !.at = "trial"] /\ Launch(Trial, "apply") BY <1>8 DEF Precheck
  <2>2. /\ sh' \in ShellShape /\ sh'.at = "trial" /\ sh'.exit = sh.exit
        /\ sh'.script = sh.script /\ sh'.started = sh.started
    BY <1>2, <1>3, <2>1 DEF ShellShape
  <2>3. sh.started BY <1>8, RunningFields
  <2> QED BY <1>2, <1>4, <2>1, <2>2, <2>3, LaunchMoves
<1> QED BY <1>1, <1>5, <1>6, <1>7, <1>8

\* The trial has ended: code 2 is believed, everything else is watched.
LEMMA AfterTrialStep ==
    ASSUME SupervisedInv, Running, p.at = "exited", AfterTrial, UNCHANGED signals
    PROVE  SupervisedInv'
<1>1. sh.at = "trial" BY DEF AfterTrial
<1>2. /\ sh \in ShellShape /\ child \in ChildShape /\ sh.exit = -1 /\ sh.script \in Supervised
      /\ sh.started /\ CodeIsTrue
  BY <1>1, RunningFields
<1>3. /\ "ended" \in ShellPlaces /\ "observe" \in ShellPlaces /\ 2 \in Codes \cup {-1} /\ 2 # -1
      /\ child.code \in Codes
  BY <1>2 DEF ShellPlaces, Codes, ChildShape
<1>4. CASE child.code = 2
  <2>1. sh' = [sh EXCEPT !.at = "ended", !.exit = 2] /\ UNCHANGED <<vars, child>>
    BY <1>4 DEF AfterTrial
  <2>2. /\ sh' \in ShellShape /\ sh'.at = "ended" /\ sh'.exit = 2 /\ sh'.script = sh.script
        /\ sh'.started = sh.started /\ sh'.pending = sh.pending
    BY <1>2, <1>3, <2>1 DEF ShellShape
  <2>3. ~wrote BY <1>2, <1>4 DEF CodeIsTrue
  <2> QED BY <1>2, <1>3, <2>1, <2>2, <2>3, EndMoves
<1>5. CASE child.code # 2
  <2>1. /\ sh' = [sh EXCEPT !.at = "observe", !.trial = child.code]
        /\ Launch("observe", "apply")
    BY <1>5 DEF AfterTrial
  <2>2. /\ sh' \in ShellShape /\ sh'.at = "observe" /\ sh'.exit = sh.exit
        /\ sh'.script = sh.script /\ sh'.started = sh.started
    BY <1>2, <1>3, <2>1 DEF ShellShape
  <2>3. "observe" \notin Trials BY DEF Trials
  <2> QED BY <1>2, <2>1, <2>2, <2>3, LaunchMoves
<1> QED BY <1>4, <1>5

\* The observer has ended: its code 0 is a minute seen, and without it the script
\* recovers.
LEMMA AfterObserverStep ==
    ASSUME SupervisedInv, Running, p.at = "exited", AfterObserver, UNCHANGED signals
    PROVE  SupervisedInv'
<1>1. sh.at = "observe" BY DEF AfterObserver
<1>2. /\ sh \in ShellShape /\ sh.exit = -1 /\ sh.script \in Supervised
      /\ sh.started /\ CodeIsTrue /\ p.entry = "observe" /\ child.form = "apply"
  BY <1>1, RunningFields DEF Staged
<1>3. /\ "ended" \in ShellPlaces /\ "recover" \in ShellPlaces
      /\ 0 \in Codes \cup {-1} /\ 1 \in Codes \cup {-1} /\ 0 # -1 /\ 1 # -1 /\ 0 # 2 /\ 1 # 2
  BY DEF ShellPlaces, Codes
<1>4. CASE sh' = [sh EXCEPT !.at = "recover"] /\ Launch("unlock", "apply")
  <2>1. /\ sh' \in ShellShape /\ sh'.at = "recover" /\ sh'.exit = sh.exit
        /\ sh'.script = sh.script /\ sh'.started = sh.started
    BY <1>2, <1>3, <1>4 DEF ShellShape
  <2>2. "unlock" \notin Trials BY DEF Trials
  <2> QED BY <1>2, <1>4, <2>1, <2>2, LaunchMoves
<1>5. CASE /\ child.code = 0 /\ UNCHANGED <<vars, child>>
           /\ sh' = [sh EXCEPT !.at = "ended", !.exit = IF sh.trial = 0 THEN 0 ELSE 1]
  <2>1. PICK e \in {0, 1} : sh' = [sh EXCEPT !.at = "ended", !.exit = e] BY <1>5
  <2>2. /\ sh' \in ShellShape /\ sh'.at = "ended" /\ sh'.exit = e /\ sh'.script = sh.script
        /\ sh'.started = sh.started /\ sh'.pending = sh.pending
    BY <1>2, <1>3, <2>1 DEF ShellShape
  <2>3. WholeMinute BY <1>2, <1>5 DEF CodeIsTrue
  <2>4. e # -1 /\ e # 2 BY <1>3
  <2> QED BY <1>2, <1>5, <2>2, <2>3, <2>4, EndMoves
<1> QED BY <1>4, <1>5 DEF AfterObserver

\* The recovery command is followed by an observer; what either did not achieve is told
\* to the user.
LEMMA AfterRecoveryStep ==
    ASSUME SupervisedInv, Running, p.at = "exited", AfterRecovery, UNCHANGED signals
    PROVE  SupervisedInv'
<1>1. sh.at \in {"recover", "recover_observe"} BY DEF AfterRecovery
<1>2. /\ sh \in ShellShape /\ child \in ChildShape /\ sh.exit = -1 /\ sh.script \in Supervised
      /\ sh.started /\ CodeIsTrue
  BY <1>1, RunningFields
<1>3. /\ "ended" \in ShellPlaces /\ "recover_observe" \in ShellPlaces /\ child.code \in Codes
      /\ 1 \in Codes \cup {-1} /\ 130 \in Codes \cup {-1}
      /\ 1 \notin {-1, 0, 2} /\ 130 \notin {-1, 0, 2}
  BY <1>2 DEF ShellPlaces, Codes, ChildShape
<1>4. CASE /\ sh' = [sh EXCEPT !.at = "recover_observe", !.recovery = child.code]
           /\ Launch("observe", "apply")
  <2>1. /\ sh' \in ShellShape /\ sh'.at = "recover_observe" /\ sh'.exit = sh.exit
        /\ sh'.script = sh.script /\ sh'.started = sh.started
    BY <1>2, <1>3, <1>4 DEF ShellShape
  <2>2. "observe" \notin Trials BY DEF Trials
  <2> QED BY <1>2, <1>4, <2>1, <2>2, LaunchMoves
<1>5. CASE /\ sh.at = "recover_observe" /\ UNCHANGED <<vars, child>>
           /\ sh' = [sh EXCEPT !.at = "ended", !.exit = IF sh.trapped THEN 1 ELSE 130,
                               !.reboot = sh.recovery # 0 \/ child.code # 0]
  <2>1. PICK e \in {1, 130}, b \in BOOLEAN :
          /\ sh' = [sh EXCEPT !.at = "ended", !.exit = e, !.reboot = b]
          /\ child.code # 0 => b
    BY <1>5
  <2>2. /\ sh' \in ShellShape /\ sh'.at = "ended" /\ sh'.exit = e /\ sh'.script = sh.script
        /\ sh'.started = sh.started /\ sh'.pending = sh.pending /\ sh'.reboot = b
    BY <1>2, <1>3, <2>1 DEF ShellShape
  <2>3. p.entry = "observe" /\ child.form = "apply" BY <1>5, RunningFields DEF Staged
  <2>4. child.code = 0 => WholeMinute BY <1>2, <2>3 DEF CodeIsTrue
  <2>5. e \notin {-1, 0, 2} BY <1>3
  <2> QED BY <1>2, <1>5, <2>1, <2>2, <2>3, <2>4, <2>5, EndMoves
<1> QED BY <1>4, <1>5 DEF AfterRecovery

\* A command that was run by hand has ended.
LEMMA CommandEndedStep ==
    ASSUME SupervisedInv, Running, p.at = "exited", CommandEnded, UNCHANGED signals
    PROVE  SupervisedInv'
<1>1. /\ sh.at = "command" /\ UNCHANGED <<vars, child>>
      /\ sh' = [sh EXCEPT !.at = "ended", !.exit = child.code]
  BY DEF CommandEnded
<1>2. /\ sh \in ShellShape /\ child \in ChildShape /\ sh.script \notin Supervised /\ CodeIsTrue
  BY <1>1, RunningFields
<1>3. "ended" \in ShellPlaces /\ child.code \in Codes /\ child.code # -1
  BY <1>2 DEF ShellPlaces, ChildShape, Codes
<1>4. /\ sh' \in ShellShape /\ sh'.at = "ended" /\ sh'.exit = child.code
      /\ sh'.script = sh.script /\ sh'.started = sh.started /\ sh'.pending = sh.pending
  BY <1>1, <1>2, <1>3 DEF ShellShape
<1> QED BY <1>1, <1>2, <1>3, <1>4, EndMoves DEF CodeIsTrue

\* The trap runs, wherever the script was: before the trial nothing has been written,
\* after it the recovery comes first.
LEMMA OnInterruptStep ==
    ASSUME SupervisedInv, Running, p.at = "exited", OnInterrupt, UNCHANGED signals
    PROVE  SupervisedInv'
<1>1. sh.pending BY DEF OnInterrupt
<1>2. sh \in ShellShape /\ sh.exit = -1 /\ sh.script \in Supervised /\ Staged
  BY <1>1, RunningFields
<1>3. /\ "ended" \in ShellPlaces /\ "recover" \in ShellPlaces
      /\ 130 \in Codes \cup {-1} /\ 130 \notin {-1, 0, 2}
  BY DEF ShellPlaces, Codes
<1>4. CASE sh.started
  <2>1. /\ sh' = [sh EXCEPT !.at = "recover", !.pending = FALSE, !.trapped = FALSE]
        /\ Launch("unlock", "apply")
    BY <1>4 DEF OnInterrupt
  <2>2. /\ sh' \in ShellShape /\ sh'.at = "recover" /\ sh'.exit = sh.exit
        /\ sh'.script = sh.script /\ sh'.started = sh.started
    BY <1>2, <1>3, <2>1 DEF ShellShape
  <2>3. "unlock" \notin Trials BY DEF Trials
  <2> QED BY <1>2, <1>4, <2>1, <2>2, <2>3, LaunchMoves
<1>5. CASE ~sh.started
  <2>1. sh' = [sh EXCEPT !.at = "ended", !.exit = 130] /\ UNCHANGED <<vars, child>>
    BY <1>5 DEF OnInterrupt
  <2>2. /\ sh' \in ShellShape /\ sh'.at = "ended" /\ sh'.exit = 130 /\ sh'.script = sh.script
        /\ sh'.started = sh.started /\ sh'.pending = sh.pending
    BY <1>2, <1>3, <2>1 DEF ShellShape
  <2>3. ~wrote BY <1>2, <1>5 DEF Staged
  <2> QED BY <1>2, <1>3, <2>1, <2>2, <2>3, EndMoves
<1> QED BY <1>4, <1>5

\* Every step of the script.
LEMMA ShellStepKeeps == ASSUME SupervisedInv, ShellStep PROVE SupervisedInv'
BY PrecheckStep, AfterTrialStep, AfterObserverStep, AfterRecoveryStep, CommandEndedStep,
   OnInterruptStep DEF ShellStep, Shell

-----------------------------------------------------------------------------
(* The theorems.                                                           *)

\* Nothing has been written and the SMC is at the baseline.
LEMMA InitSupervised == Init0 => SupervisedInv
<1> SUFFICES ASSUME Init0 PROVE SupervisedInv OBVIOUS
<1>1. PICK script \in Scripts, binary \in Binaries, cmd \in Entries \cup {"observe"},
           form \in {"dry", "apply"} :
        /\ script \in Supervised => cmd = "unlock" /\ form = "dry"
        /\ cmd = "observe" => form = "apply"
        /\ sh = [script |-> script, binary |-> binary, started |-> FALSE, pending |-> FALSE,
                 trapped |-> TRUE, trial |-> 0, recovery |-> 0, reboot |-> FALSE, exit |-> -1,
                 at |-> IF script \in Supervised THEN "precheck_unlock" ELSE "command"]
        /\ p = [Started(cmd) EXCEPT !.at = "main"]
        /\ child = [form |-> form, handlers |-> FALSE, code |-> 0]
  BY DEF Init0
<1>2. /\ hw = AtBaseline /\ late = {} /\ quiet = -1 /\ wrote = FALSE /\ signals = 0
  BY DEF Init0
<1>3. cmd \in Trials \cup Commands \cup {"observe"} BY RunsAssumption
<1>4. p \in ProgramShape /\ p.at = "main" /\ p.entry = cmd /\ Gated(p)
  BY <1>1, <1>3, LaunchedFields
<1>5. SmcInv BY <1>2 DEF SmcInv, AtBaseline, Observation, ZeroRpm
<1>6. Untouched
  <2> SUFFICES ASSUME NEW w \in EnablingWrites PROVE ~Shows(hw, w)
    BY <1>2 DEF Untouched, Unset
  <2>1. w \in Writes /\ Enabling(w) BY DEF EnablingWrites
  <2>2. /\ w.value # 0
        /\ w.key = "mode" => w.value = 1 /\ w.fan \in Fans
        /\ w.key = "target" => w.fan \in Fans
    BY <2>1 DEF Writes, Enabling
  <2> QED BY <1>2, <2>2 DEF Shows, AtBaseline, ZeroRpm
<1>7. quiet \in -1..10 * StableSeconds
  <2>1. StableSeconds \in Nat BY RecoveryAssumption
  <2> QED BY <1>2, <2>1
<1>8. ChildInv BY <1>2, <1>4, <1>5, <1>6, <1>7 DEF ChildInv, EnablesItsOwn, Outer
<1>9. script \in Supervised \cup {"command line"} /\ binary \in {"current", "reviewed"}
  BY SupervisedAssumption
<1>10. PICK place : place = IF script \in Supervised THEN "precheck_unlock" ELSE "command" OBVIOUS
<1>11. /\ sh \in ShellShape /\ sh.at = place /\ sh.exit = -1 /\ sh.script = script
       /\ ~sh.pending /\ ~sh.started
  <2>1. place \in ShellPlaces /\ 0 \in Codes BY <1>10 DEF ShellPlaces, Codes
  <2> QED BY <1>1, <1>9, <1>10, <2>1 DEF ShellShape
<1>12. child \in ChildShape /\ child.form = form BY <1>1 DEF ChildShape, Codes
<1>13. Staged
  <2>1. signals \in 0..MaxSignals
    <3>1. MaxSignals \in Nat BY SupervisedAssumption
    <3>2. 0 \in 0..MaxSignals BY <3>1
    <3> QED BY <1>2, <3>2
  <2>2. place \in BeforeTrial => script \in Supervised BY <1>10 DEF BeforeTrial
  <2> QED BY <1>1, <1>2, <1>4, <1>10, <1>11, <1>12, <2>1, <2>2 DEF Staged
<1>14. CodeIsTrue BY <1>2, <1>4 DEF CodeIsTrue
<1>15. EndIsTrue BY <1>10, <1>11 DEF EndIsTrue
<1> QED BY <1>8, <1>13, <1>14, <1>15 DEF SupervisedInv, ScriptInv

\* Every step preserves the invariant.
LEMMA NextSupervisedKeeps == SupervisedInv /\ [NextSupervised]_supervisedVars => SupervisedInv'
<1> SUFFICES ASSUME SupervisedInv, [NextSupervised]_supervisedVars PROVE SupervisedInv' OBVIOUS
<1>1. CASE UNCHANGED supervisedVars
  <2>1. UNCHANGED <<vars, sh, child, signals>> /\ UNCHANGED <<p, wrote, late, quiet>>
    BY <1>1 DEF supervisedVars, vars
  <2>2. ChildInv' /\ CodeIsTrue' BY <2>1, RestMoves
  <2>3. Staged' BY <2>1 DEF SupervisedInv, ScriptInv, Staged
  <2>4. EndIsTrue'
    BY <2>1 DEF SupervisedInv, ScriptInv, EndIsTrue, ExitTwoWroteNothing, ExitZeroIsWitnessed,
                WrittenMeansWatched
  <2> QED BY <2>2, <2>3, <2>4 DEF SupervisedInv, ScriptInv
<1> QED BY <1>1, ChildStepKeeps, ShellStepKeeps, EnvironmentKeeps, SignalKeeps, KillKeeps
        DEF NextSupervised, Ended

\* The inductive invariant holds in every state of every script and command.
THEOREM SupervisedIInv == SpecSupervised => []SupervisedInv
BY InitSupervised, NextSupervisedKeeps, PTL DEF SpecSupervised

\* While a script has not ended it has no exit code, so that the promises of the exit
\* codes are those of a script that has ended.
LEMMA PromisesHold ==
    SupervisedInv => ExitTwoWroteNothing /\ ExitZeroIsWitnessed /\ WrittenMeansWatched
<1> SUFFICES ASSUME SupervisedInv
             PROVE  ExitTwoWroteNothing /\ ExitZeroIsWitnessed /\ WrittenMeansWatched
  OBVIOUS
<1>1. sh.at # "ended" => sh.exit = -1 BY DEF SupervisedInv, ScriptInv, Staged
<1>2. CASE sh.at = "ended" BY <1>2 DEF SupervisedInv, ScriptInv, EndIsTrue
<1>3. CASE sh.at # "ended"
  BY <1>1, <1>3 DEF ExitTwoWroteNothing, ExitZeroIsWitnessed, WrittenMeansWatched
<1> QED BY <1>2, <1>3

\* For any number of signals and kills: exit code 2, of a script or of a command, says
\* that no child has written a key and that nothing is still to take effect.
THEOREM TwoIsNoWrite == SpecSupervised => []ExitTwoWroteNothing
BY SupervisedIInv, PromisesHold, PTL

\* For every length of the window and any number of signals and kills: exit code 0 of what
\* may write stands for a whole minute at the baseline, which for a script its last child
\* has seen, an observer.
THEOREM ZeroIsWitnessed == SpecSupervised => []ExitZeroIsWitnessed
BY SupervisedIInv, PromisesHold, PTL

\* However its children were interrupted, killed or refused: a script that ends by itself
\* after a write has either just had the whole minute observed, or asked for a reboot.
THEOREM WatchedOrReboot == SpecSupervised => []WrittenMeansWatched
BY SupervisedIInv, PromisesHold, PTL

=============================================================================
