--------------------------- MODULE TrialRunsProofs ---------------------------
(***************************************************************************)
(* Proofs about TrialRuns for every number of retries, every window and    *)
(* every set of faults, with any number of writes that are late.           *)
(***************************************************************************)
EXTENDS TrialRuns, SequenceTheorems, TLAPS

-----------------------------------------------------------------------------
(* The inductive invariant: the program.                                   *)

\* The places of the program, those of the command line included
Places ==
    Labels \cup {"main", "preflight", "confirm", "preflight_again", "look", "observed", "exited"}
Values == {"none", "yes", "no", "stable", "changed", "failed"}
Verdicts == Statuses \cup {"running", "RESTORED", "NOT_RESTORED"}

ProgramShape ==
    [entry : Trials \cup Commands \cup {"observe"}, at : Places, ret : Seq(Places), rv : Values,
     status : Verdicts,
     second : Nat, span : Nat, samples : Nat, tries : Nat, item : 0..3, fresh : BOOLEAN,
     delayed : BOOLEAN, changed : BOOLEAN, manual : SUBSET Fans,
     ok : BOOLEAN, goal : BOOLEAN, unlocked : BOOLEAN, released : BOOLEAN]

\* Where each of the three procedures returns to, in the entry points and in
\* trial_restore_unlock ("observed" is the observer's command line)
AfterObserve ==
    {"direct_after", "direct_again_after", "check_last_look", "check_after", "check_again_after",
     "check_later", "check_late_after", "rehearse_last_look", "rehearse_after",
     "rehearse_again_after", "restore_watched", "observed"}
AfterRestore == {"direct_restored", "direct_again", "restore_done"}
AfterUnlock ==
    {"check_restored", "check_again", "check_late", "rehearse_restored", "rehearse_again",
     "unlock_done"}
UnlockAfterObserve == {"unlock_observed", "unlock_watched"}
UnlockAfterRestore == {"unlock_restored", "unlock_fallback"}

InRestore == {"restore", "restore_write", "restore_verify"}
InUnlock ==
    {"unlock", "unlock_reread", "unlock_release", "unlock_check", "unlock_zero",
     "unlock_zero_write", "unlock_zeroed", "unlock_clear", "unlock_cleared", "unlock_stable"}
    \cup UnlockAfterObserve \cup UnlockAfterRestore

Inside == {"observe"} \cup InRestore \cup InUnlock

\* The places of each entry point itself
DirectPlaces ==
    {"direct", "direct_target", "direct_read", "direct_hold", "direct_restored", "direct_after",
     "direct_again", "direct_again_after"}
CheckPlaces ==
    {"check", "ftst_enable", "check_effect", "check_release", "check_restored", "check_last_look",
     "check_after", "check_again", "check_again_after", "check_later", "check_late",
     "check_late_after"}
RehearsePlaces ==
    {"rehearse", "ftst_enable", "rehearse_watch", "rehearse_restored", "rehearse_last_look",
     "rehearse_after", "rehearse_again", "rehearse_again_after"}
CommandPlaces == {"command", "restore_done", "restore_watched", "unlock_done"}

PlacesOf(e, place) ==
    \/ e = "direct" /\ place \in DirectPlaces
    \/ e = "check" /\ place \in CheckPlaces
    \/ e = "rehearse" /\ place \in RehearsePlaces
    \/ e \in Commands /\ place \in CommandPlaces
    \/ e = "observe" /\ place = "observed"

\* The place of the entry point, below whatever it has called
Bottom(q) == IF q.ret = << >> THEN q.at ELSE q.ret[Len(q.ret)]

\* The stack: an entry point calls a procedure, trial_restore_unlock calls the other
\* two, and each returns to where it was called.
Stacked(q) ==
    \/ q.at = "done" /\ q.ret = << >>
    \/ PlacesOf(q.entry, q.at) /\ q.ret = << >>
    \/ \E b \in AfterUnlock : PlacesOf(q.entry, b) /\ q.at \in InUnlock /\ q.ret = <<b>>
    \/ \E b \in AfterRestore : PlacesOf(q.entry, b) /\ q.at \in InRestore /\ q.ret = <<b>>
    \/ \E b \in AfterObserve : PlacesOf(q.entry, b) /\ q.at = "observe" /\ q.ret = <<b>>
    \/ \E b \in AfterUnlock, u \in UnlockAfterRestore :
          PlacesOf(q.entry, b) /\ q.at \in InRestore /\ q.ret = <<u, b>>
    \/ \E b \in AfterUnlock, u \in UnlockAfterObserve :
          PlacesOf(q.entry, b) /\ q.at = "observe" /\ q.ret = <<u, b>>

\* The counters that index something
Counted(q) ==
    /\ q.at = "unlock" => q.tries + 1 <= ReleaseRetries
    /\ q.at \in {"direct", "direct_target", "unlock_zero", "unlock_zero_write"} => q.item \in 0..1
    /\ q.at \in {"unlock", "unlock_observed", "unlock_reread", "unlock_release", "unlock_check"}
         => q.item = 0
    /\ q.at # "unlock_stable" => q.samples = 0

\* A verdict is the end, and a procedure returns what that procedure can return
Answered(q) ==
    /\ q.status = "running" \/ q.at = "done"
    /\ q.at = "done" => q.rv = "none"
    /\ q.at \in AfterObserve => q.rv # "yes"
    /\ q.at \in AfterRestore \cup AfterUnlock => q.rv # "stable"

Shaped == p \in ProgramShape /\ Stacked(p) /\ Counted(p) /\ Answered(p)

-----------------------------------------------------------------------------
(* The inductive invariant: what has been seen.                            *)

WholeMinute == quiet = 10 * StableSeconds

\* The history has at least the length of a span the program has counted
Covers(span) == quiet >= 0 /\ (quiet >= span \/ WholeMinute)

\* What the two loops have counted was seen without a write in it, and what they
\* return, and a verdict made of it, is a whole minute.
MinuteIsSeen ==
    /\ quiet \in -1..10 * StableSeconds
    /\ p.at = "observe" /\ p.second > 0 => Covers(p.span)
    /\ p.at = "unlock_stable" /\ p.samples > 0 => Covers(p.span)
    /\ p.at \in AfterObserve \cup UnlockAfterObserve /\ p.rv = "stable" => WholeMinute
    /\ p.at \in AfterUnlock /\ p.rv = "yes" => WholeMinute
    /\ VerdictIsWitnessed

\* Nothing was written before a trial's own reading of the baseline
NothingYet == p.at \in {"check", "rehearse"} => ~wrote /\ late = {}

\* A target is zeroed on the reading just made
PairIsRead == p.at = "unlock_zero_write" => pair

-----------------------------------------------------------------------------
(* The inductive invariant: what is still to take effect.                  *)

\* The SMC holds what a write wanted
Shows(h, w) ==
    \/ w.key = "ftst" /\ h.ftst = w.value
    \/ w.key = "mode" /\ h.mode[w.fan] = w.value
    \/ w.key = "target" /\ h.target[w.fan] = w.value

EnablingWrites == {w \in Writes : Enabling(w)}

\* A trial enables what it is for, the direct one fans and the others Ftst.
EnablesItsOwn == \A w \in late : Enabling(w) => (w.key = "ftst") = (p.entry # "direct")

\* The enabling writes a trial has still to make
ToWrite(q) ==
    CASE q.at = "direct" ->
            {w \in EnablingWrites : w.key # "ftst" /\ w.fan >= q.item}
      [] q.at = "direct_target" ->
            {w \in EnablingWrites : w.key # "ftst" /\ w.fan >= q.item} \ {Mode(q.item, 1)}
      [] q.at \in {"check", "rehearse", "ftst_enable"} -> {Ftst(1)}
      [] OTHER -> {}

\* The places before the effect of its writes has been read
Early ==
    {"direct", "direct_target", "direct_read", "check", "rehearse", "ftst_enable",
     "check_effect", "rehearse_watch"}

\* Until a trial has read the effect of its writes, an enabling write that is late is
\* not what the SMC holds, and neither is one that has not been made.
EffectIsOpen ==
    p.at \in Early =>
        /\ \A w \in late : Enabling(w) => ~Shows(hw, w)
        /\ \A w \in ToWrite(p) : w \notin late /\ ~Shows(hw, w)

\* The trial has read the effect of all it has enabled
Settled(q) ==
    \/ q.entry = "direct" /\ q.goal
    \/ q.entry = "rehearse" /\ q.unlocked
    \/ /\ q.entry = "check" /\ q.ok
       /\ Bottom(q) \in {"check_restored", "check_last_look", "check_after", "check_again",
                         "check_again_after"}

\* Nothing that was enabled is late once its effect has been read.
SettledIsOver ==
    /\ Settled(p) => \A w \in late : ~Enabling(w)
    /\ p.at \in {"direct", "direct_target"} => ~p.goal
    /\ p.at \in {"check", "rehearse", "ftst_enable"} => ~p.unlocked
    /\ NothingPendingBehindSuccess

\* From the reading that allows the release to the release no fan is manual.
Releasing ==
    {"unlock_zero", "unlock_zero_write", "unlock_zeroed", "unlock_clear", "unlock_cleared"}
ReleasedStays == p.at \in Releasing => \A fan \in Fans : hw.mode[fan] # 1

SmcInv == hw \in Observation /\ late \subseteq Writes

IInv ==
    /\ Shaped /\ SmcInv
    /\ MinuteIsSeen /\ NothingYet /\ RejectedWroteNothing /\ PairIsRead
    /\ EnablesItsOwn /\ EffectIsOpen /\ SettledIsOver /\ ReleasedStays

-----------------------------------------------------------------------------
(* The stack and the program's record.                                     *)

\* What a call and a return make of the stacks that occur.
LEMMA StackOps ==
    ASSUME NEW S, NEW u \in S, NEW b \in S
    PROVE  /\ << >> \in Seq(S) /\ <<b>> \in Seq(S) /\ <<u, b>> \in Seq(S)
           /\ <<b>> \o << >> = <<b>> /\ <<u>> \o <<b>> = <<u, b>>
           /\ Head(<<b>>) = b /\ Tail(<<b>>) = << >>
           /\ Head(<<u, b>>) = u /\ Tail(<<u, b>>) = <<b>>
           /\ <<b>> # << >> /\ <<b>>[Len(<<b>>)] = b
           /\ <<u, b>> # << >> /\ <<u, b>>[Len(<<u, b>>)] = b
<1>1. << >> \in Seq(S) /\ <<u>> \in Seq(S) /\ <<b>> \in Seq(S) /\ <<u, b>> \in Seq(S) OBVIOUS
<1>2. <<u>> \o <<b>> = <<u, b>>
  <2>1. Len(<<u>> \o <<b>>) = 2 /\ \A i \in 1..2 : (<<u>> \o <<b>>)[i] = <<u, b>>[i]
    BY <1>1, ConcatProperties
  <2>2. <<u>> \o <<b>> \in Seq(S) BY <1>1, ConcatProperties
  <2> QED BY <1>1, <2>1, <2>2, SeqEqual
<1>3. Tail(<<u, b>>) = <<b>>
  <2>1. Len(Tail(<<u, b>>)) = 1 /\ Tail(<<u, b>>)[1] = b OBVIOUS
  <2>2. Tail(<<u, b>>) \in Seq(S) BY <1>1
  <2> QED BY <1>1, <2>1, <2>2, SeqEqual
<1>4. <<b>> \o << >> = <<b>> BY <1>1, ConcatEmptySeq
<1>5. /\ Head(<<b>>) = b /\ Tail(<<b>>) = << >> /\ Head(<<u, b>>) = u
      /\ <<b>> # << >> /\ <<b>>[Len(<<b>>)] = b
      /\ <<u, b>> # << >> /\ <<u, b>>[Len(<<u, b>>)] = b
  OBVIOUS
<1> QED BY <1>1, <1>2, <1>3, <1>4, <1>5

\* A call enters the procedure with fresh counters and leaves the rest alone.
LEMMA CallFields ==
    ASSUME NEW q \in ProgramShape, NEW procedure \in Places, NEW ret \in Places
    PROVE  LET c == Call(q, procedure, ret) IN
           /\ c \in ProgramShape
           /\ c.at = procedure /\ c.ret = <<ret>> \o q.ret /\ c.rv = "none"
           /\ c.second = 0 /\ c.span = 0 /\ c.samples = 0 /\ c.tries = 0 /\ c.item = 0
           /\ c.entry = q.entry /\ c.status = q.status /\ c.ok = q.ok /\ c.goal = q.goal
           /\ c.unlocked = q.unlocked /\ c.released = q.released
<1> DEFINE stack == <<ret>> \o q.ret
<1>1. stack \in Seq(Places)
  <2>1. <<ret>> \in Seq(Places) BY StackOps
  <2>2. q.ret \in Seq(Places) BY DEF ProgramShape
  <2> QED BY <2>1, <2>2, ConcatProperties
<1>2. 0 \in Nat /\ 0 \in 0..3 /\ "none" \in Values BY DEF Values
<1>3. Call(q, procedure, ret) =
        [q EXCEPT !.at = procedure, !.ret = stack, !.rv = "none", !.second = 0, !.span = 0,
                  !.samples = 0, !.tries = 0, !.item = 0, !.fresh = TRUE]
  BY DEF Call
<1> HIDE DEF stack
<1>4. Call(q, procedure, ret) \in ProgramShape BY <1>1, <1>2, <1>3, Zenon DEF ProgramShape
<1>5. /\ Call(q, procedure, ret).ret = stack
      /\ LET c == Call(q, procedure, ret) IN
         /\ c.at = procedure /\ c.rv = "none"
         /\ c.second = 0 /\ c.span = 0 /\ c.samples = 0 /\ c.tries = 0 /\ c.item = 0
         /\ c.entry = q.entry /\ c.status = q.status /\ c.ok = q.ok /\ c.goal = q.goal
         /\ c.unlocked = q.unlocked /\ c.released = q.released
  BY <1>3 DEF ProgramShape
<1> QED BY <1>4, <1>5 DEF stack

\* A return goes to where the call was made, with fresh counters.
LEMMA ReturnFields ==
    ASSUME NEW q \in ProgramShape, q.ret # << >>, NEW value \in Values
    PROVE  LET c == Return(q, value) IN
           /\ c \in ProgramShape
           /\ c.at = Head(q.ret) /\ c.ret = Tail(q.ret) /\ c.rv = value
           /\ c.second = 0 /\ c.span = 0 /\ c.samples = 0 /\ c.tries = 0 /\ c.item = 0
           /\ c.entry = q.entry /\ c.status = q.status /\ c.ok = q.ok /\ c.goal = q.goal
           /\ c.unlocked = q.unlocked /\ c.released = q.released
<1>1. Head(q.ret) \in Places /\ Tail(q.ret) \in Seq(Places) BY DEF ProgramShape
<1>2. 0 \in Nat /\ 0 \in 0..3 /\ "none" \in Values BY DEF Values
<1>3. Return(q, value) \in ProgramShape BY <1>1, <1>2, Zenon DEF Return, ProgramShape
<1> QED BY <1>3 DEF Return, ProgramShape

\* The truth a procedure returns.
LEMMA TruthFields ==
    ASSUME NEW q \in ProgramShape, q.ret # << >>, NEW b \in BOOLEAN
    PROVE  /\ ReturnTruth(q, b) = Return(q, IF b THEN "yes" ELSE "no")
           /\ (IF b THEN "yes" ELSE "no") \in Values
BY DEF ReturnTruth, Values

\* A jump changes the place only.
LEMMA GotoFields ==
    ASSUME NEW q \in ProgramShape, NEW label \in Places
    PROVE  LET c == Goto(q, label) IN
           /\ c \in ProgramShape /\ c.at = label /\ c.ret = q.ret /\ c.rv = q.rv
           /\ c.second = q.second /\ c.span = q.span /\ c.samples = q.samples
           /\ c.tries = q.tries /\ c.item = q.item
           /\ c.entry = q.entry /\ c.status = q.status /\ c.ok = q.ok /\ c.goal = q.goal
           /\ c.unlocked = q.unlocked /\ c.released = q.released
BY DEF Goto, ProgramShape

\* A noted reading changes nothing the invariant looks at.
LEMMA NotedFields ==
    ASSUME p \in ProgramShape, NEW o
    PROVE  LET c == Noted(o) IN
           /\ c \in ProgramShape /\ c.at = p.at /\ c.ret = p.ret /\ c.rv = p.rv
           /\ c.second = p.second /\ c.span = p.span /\ c.samples = p.samples
           /\ c.tries = p.tries /\ c.item = p.item
           /\ c.entry = p.entry /\ c.status = p.status /\ c.ok = p.ok /\ c.goal = p.goal
           /\ c.unlocked = p.unlocked /\ c.released = p.released
<1>1. (p.changed \/ (p.entry = "check" /\ ~SystemOwned(o))) \in BOOLEAN OBVIOUS
<1>2. Noted(o) = [p EXCEPT !.changed = p.changed \/ (p.entry = "check" /\ ~SystemOwned(o))]
  BY DEF Noted
<1>3. Noted(o) \in ProgramShape BY <1>1, <1>2, Zenon DEF ProgramShape
<1> QED BY <1>2, <1>3 DEF ProgramShape

\* A verdict ends the run.
LEMMA FinishFields ==
    ASSUME NEW q \in ProgramShape, NEW status \in Verdicts
    PROVE  LET c == Finish(q, status) IN
           /\ c \in ProgramShape /\ c.at = "done" /\ c.ret = q.ret /\ c.rv = "none"
           /\ c.status = status /\ c.samples = q.samples
           /\ c.entry = q.entry /\ c.ok = q.ok /\ c.goal = q.goal
           /\ c.unlocked = q.unlocked /\ c.released = q.released
<1>1. "done" \in Places /\ "none" \in Values BY DEF Places, Labels, Values
<1>2. Finish(q, status) \in ProgramShape BY <1>1, Zenon DEF Finish, ProgramShape
<1> QED BY <1>2 DEF Finish, ProgramShape

-----------------------------------------------------------------------------
(* The SMC.                                                                *)

\* A step after which nothing is enabled that was not: what is late and enabling was
\* late before, and what the SMC newly shows of it has been late until now.
CalmTo(h, l) ==
    /\ h \in Observation /\ l \subseteq Writes
    /\ \A w \in Writes : Enabling(w) =>
          /\ w \in l => w \in late
          /\ Shows(h, w) => Shows(hw, w) \/ (w \in late /\ w \notin l)

\* A key that is written shows its write, and every other key what it showed.
LEMMA LandedShows ==
    ASSUME NEW h \in Observation, NEW w \in Writes, NEW v \in Writes
    PROVE  /\ Landed(h, w) \in Observation
           /\ Shows(Landed(h, w), v) => v = w \/ Shows(h, v)
           /\ Shows(Landed(h, w), w)
<1>1. CASE w.key = "ftst"
  <2>1. w = Ftst(w.value) /\ w.value \in 0..1 BY <1>1 DEF Writes, Ftst
  <2>2. Landed(h, w) = [h EXCEPT !.ftst = w.value] BY <1>1 DEF Landed
  <2>3. /\ Landed(h, w) \in Observation
        /\ Landed(h, w).ftst = w.value /\ Landed(h, w).mode = h.mode /\ Landed(h, w).target = h.target
    BY <2>1, <2>2 DEF Observation
  <2>4. v.key = "ftst" => v = Ftst(v.value) BY DEF Writes, Ftst
  <2> QED BY <1>1, <2>1, <2>3, <2>4 DEF Shows
<1>2. CASE w.key = "mode"
  <2>1. w = Mode(w.fan, w.value) /\ w.fan \in Fans /\ w.value \in {0, 1} BY <1>2 DEF Writes, Mode
  <2>2. Landed(h, w) = [h EXCEPT !.mode[w.fan] = w.value] BY <1>2 DEF Landed
  <2>3. /\ Landed(h, w) \in Observation
        /\ Landed(h, w).ftst = h.ftst /\ Landed(h, w).target = h.target
        /\ Landed(h, w).mode = [h.mode EXCEPT ![w.fan] = w.value]
    BY <2>1, <2>2 DEF Observation
  <2>4. h.mode \in [Fans -> {0, 1, 3}] BY DEF Observation
  <2>5. v.key = "mode" => v = Mode(v.fan, v.value) /\ v.fan \in Fans BY DEF Writes, Mode
  <2> QED BY <1>2, <2>1, <2>3, <2>4, <2>5 DEF Shows
<1>3. CASE w.key = "target"
  <2>1. w = Target(w.fan, w.value) /\ w.fan \in Fans /\ w.value \in 0..2
    BY <1>3 DEF Writes, Target, ZeroRpm, PlanRpm
  <2>2. Landed(h, w) = [h EXCEPT !.target[w.fan] = w.value] BY <1>3 DEF Landed
  <2>3. /\ Landed(h, w) \in Observation
        /\ Landed(h, w).ftst = h.ftst /\ Landed(h, w).mode = h.mode
        /\ Landed(h, w).target = [h.target EXCEPT ![w.fan] = w.value]
    BY <2>1, <2>2 DEF Observation
  <2>4. h.target \in [Fans -> 0..2] BY DEF Observation
  <2>5. v.key = "target" => v = Target(v.fan, v.value) /\ v.fan \in Fans BY DEF Writes, Target
  <2> QED BY <1>3, <2>1, <2>3, <2>4, <2>5 DEF Shows
<1> QED BY <1>1, <1>2, <1>3 DEF Writes

\* A fan the system takes, leaves or regulates.
LEMMA SystemShows ==
    ASSUME SmcInv, NEW fan \in Fans, NEW mode \in {0, 3}, NEW rpm \in {ZeroRpm, MinimumRpm},
           NEW w \in Writes, Enabling(w)
    PROVE  Left(fan, mode, rpm) \in Observation /\ (Shows(Left(fan, mode, rpm), w) => Shows(hw, w))
<1> DEFINE g == Left(fan, mode, rpm)
<1>1. hw.mode \in [Fans -> {0, 1, 3}] /\ hw.target \in [Fans -> 0..2] BY DEF Observation, SmcInv
<1>2. /\ g \in Observation /\ g.ftst = hw.ftst
      /\ g.mode = [hw.mode EXCEPT ![fan] = mode]
      /\ g.target = [hw.target EXCEPT ![fan] = rpm]
  <2>1. rpm \in 0..2 /\ mode \in {0, 1, 3} BY DEF ZeroRpm, MinimumRpm
  <2> QED BY <2>1 DEF Observation, SmcInv, Left
<1>3. /\ w.key = "mode" => w.value = 1 /\ w.fan \in Fans
      /\ w.key = "target" => w.value = 2 /\ w.fan \in Fans
  BY DEF Writes, Enabling, ZeroRpm, PlanRpm
<1> HIDE DEF g
<1>4. Shows(g, w) => Shows(hw, w) BY <1>1, <1>2, <1>3 DEF Shows, ZeroRpm, MinimumRpm
<1> QED BY <1>2, <1>4 DEF g

\* What the SMC does of its own accord.
LEMMA MoveCalm ==
    ASSUME SmcInv, NEW m \in Moves
    PROVE  CalmTo(m.hw, m.late) /\ m.late \subseteq late
<1>1. CASE m \in Landings
  <2>1. PICK w \in late : m = [hw |-> Landed(hw, w), late |-> late \ {w}] BY <1>1 DEF Landings
  <2>2. m.hw = Landed(hw, w) /\ m.late = late \ {w} /\ w \in Writes BY <2>1 DEF SmcInv
  <2>3. \A v \in Writes : Shows(Landed(hw, w), v) => v = w \/ Shows(hw, v)
    BY <2>2, LandedShows DEF SmcInv
  <2>4. Landed(hw, w) \in Observation BY <2>2, LandedShows DEF SmcInv
  <2> QED BY <2>2, <2>3, <2>4 DEF CalmTo, SmcInv
<1>2. CASE m \notin Landings
  <2>1. PICK h \in Reclaims \cup LetsGo \cup Regulates : m = [hw |-> h, late |-> late]
    BY <1>2 DEF Moves
  <2>2. \E fan \in Fans, mode \in {0, 3}, rpm \in {ZeroRpm, MinimumRpm} : h = Left(fan, mode, rpm)
    <3>0. SystemRpm \subseteq {ZeroRpm, MinimumRpm} BY DEF SystemRpm
    <3>1. CASE h \in Reclaims BY <3>0, <3>1 DEF Reclaims, InMode
    <3>2. CASE h \in LetsGo BY <3>0, <3>2 DEF LetsGo, InMode
    <3>3. CASE h \in Regulates BY <3>0, <3>3 DEF Regulates, InMode
    <3> QED BY <2>1, <3>1, <3>2, <3>3
  <2>3. \A w \in Writes : Enabling(w) => h \in Observation /\ (Shows(h, w) => Shows(hw, w))
    BY <2>2, SystemShows DEF SmcInv
  <2>4. Ftst(1) \in Writes /\ Enabling(Ftst(1)) BY DEF Writes, Ftst, Enabling
  <2>5. m.hw = h /\ m.late = late BY <2>1
  <2> QED BY <2>3, <2>4, <2>5 DEF CalmTo, SmcInv
<1> QED BY <1>1, <1>2

\* The SMC moves between two steps of the program.
LEMMA SmcStepCalm ==
    ASSUME SmcInv, SmcStep
    PROVE  CalmTo(hw', late') /\ late' \subseteq late
<1>1. PICK m \in Moves : hw' = m.hw /\ late' = m.late BY DEF SmcStep
<1> QED BY <1>1, MoveCalm

\* Nothing moves.
LEMMA StillCalm == ASSUME SmcInv PROVE CalmTo(hw, late)
BY DEF CalmTo, SmcInv

\* A snapshot fails, or has the modes of its beginning and the rest of its end.
LEMMA ReadCalm ==
    ASSUME SmcInv, NEW r \in Reads
    PROVE  /\ CalmTo(r.hw, r.late) /\ r.late \subseteq late
           /\ \/ r.seen = NoReading
              \/ /\ r.seen \in Observation
                 /\ r.seen.mode = hw.mode
                 /\ r.seen.target = r.hw.target /\ r.seen.ftst = r.hw.ftst
<1>1. CASE \E o \in {hw, NoReading} : r = [seen |-> o, hw |-> hw, late |-> late]
  <2>1. r.hw = hw /\ r.late = late /\ (r.seen = hw \/ r.seen = NoReading) BY <1>1
  <2> QED BY <2>1, StillCalm DEF SmcInv
<1>2. CASE \E m \in Moves : r = [seen |-> [m.hw EXCEPT !.mode = hw.mode], hw |-> m.hw, late |-> m.late]
  <2>1. PICK m \in Moves :
          r = [seen |-> [m.hw EXCEPT !.mode = hw.mode], hw |-> m.hw, late |-> m.late]
    BY <1>2
  <2>2. r.seen = [m.hw EXCEPT !.mode = hw.mode] /\ r.hw = m.hw /\ r.late = m.late BY <2>1
  <2>3. CalmTo(m.hw, m.late) /\ m.late \subseteq late BY MoveCalm
  <2>4. m.hw \in Observation /\ hw \in Observation BY <2>3 DEF CalmTo, SmcInv
  <2>5. /\ r.seen \in Observation /\ r.seen.mode = hw.mode
        /\ r.seen.target = m.hw.target /\ r.seen.ftst = m.hw.ftst
    BY <2>2, <2>4 DEF Observation
  <2> QED BY <2>2, <2>3, <2>5
<1> QED BY <1>1, <1>2 DEF Reads

\* A write that enables nothing, whatever becomes of it.
LEMMA WriteCalm ==
    ASSUME SmcInv, NEW w \in Writes, ~Enabling(w), NEW ok, WriteKey(w, ok)
    PROVE  CalmTo(hw', late')
<1>1. CASE hw' = Landed(hw, w) /\ late' = late
  <2>1. \A v \in Writes : Shows(Landed(hw, w), v) => v = w \/ Shows(hw, v)
    BY LandedShows DEF SmcInv
  <2>2. Landed(hw, w) \in Observation BY LandedShows DEF SmcInv
  <2> QED BY <1>1, <2>1, <2>2 DEF CalmTo, SmcInv
<1>2. CASE hw' = hw /\ late' = late BY <1>2, StillCalm
<1>3. CASE hw' = hw /\ late' = late \cup {w} BY <1>3 DEF CalmTo, SmcInv
<1> QED BY <1>1, <1>2, <1>3 DEF WriteKey

-----------------------------------------------------------------------------
(* Steps inside the three procedures.                                      *)

\* The places of the entry points and of the procedures are different ones.
LEMMA PlacesApart ==
    ASSUME NEW e, NEW b, PlacesOf(e, b)
    PROVE  b \notin Inside /\ b # "done" /\ b \in Places
BY DEF PlacesOf, Inside, InRestore, InUnlock, UnlockAfterObserve, UnlockAfterRestore,
       DirectPlaces, CheckPlaces, RehearsePlaces, CommandPlaces, Places, Labels

\* Where calls return to.
LEMMA ReturnPlaces ==
    /\ AfterObserve \cup AfterRestore \cup AfterUnlock \subseteq Places \ (Early \cup {"done"})
    /\ Inside \subseteq Places \ (Early \cup {"done"})
    /\ (AfterObserve \cup AfterRestore \cup AfterUnlock) \cap Inside = {}
    /\ UnlockAfterObserve \cup UnlockAfterRestore \subseteq InUnlock
    /\ AfterObserve \cap (AfterRestore \cup AfterUnlock) = {}
    /\ AfterRestore \cap AfterUnlock = {}
    /\ InUnlock \cap InRestore = {} /\ "observe" \notin InUnlock \cup InRestore
BY DEF AfterObserve, AfterRestore, AfterUnlock, Places, Labels, Early, Inside, InRestore, InUnlock,
       UnlockAfterObserve, UnlockAfterRestore

\* What a step inside a procedure leaves alone: the entry point's own variables.
Same(q) ==
    /\ q \in ProgramShape
    /\ q.entry = p.entry /\ q.status = p.status
    /\ q.ok = p.ok /\ q.goal = p.goal /\ q.unlocked = p.unlocked

\* The stack of a procedure, by where it was called.
LEMMA InsideStack ==
    ASSUME Shaped, p.at \in Inside
    PROVE  \E b \in Places :
             /\ PlacesOf(p.entry, b) /\ Bottom(p) = b
             /\ \/ /\ p.ret = <<b>>
                   /\ p.at \in InUnlock => b \in AfterUnlock
                   /\ p.at \in InRestore => b \in AfterRestore
                   /\ p.at = "observe" => b \in AfterObserve
                \/ /\ p.at \notin InUnlock /\ b \in AfterUnlock
                   /\ \E u \in Places :
                        /\ p.ret = <<u, b>>
                        /\ p.at \in InRestore => u \in UnlockAfterRestore
                        /\ p.at = "observe" => u \in UnlockAfterObserve
<1>1. p.at # "done" /\ ~PlacesOf(p.entry, p.at) BY PlacesApart, ReturnPlaces
<1>2. Stacked(p) BY DEF Shaped
<1>3. ASSUME NEW b \in Places, PlacesOf(p.entry, b), p.ret = <<b>> PROVE Bottom(p) = b
  BY <1>3, StackOps DEF Bottom
<1>4. ASSUME NEW u \in Places, NEW b \in Places, PlacesOf(p.entry, b), p.ret = <<u, b>>
      PROVE  Bottom(p) = b
  BY <1>4, StackOps DEF Bottom
<1>5. CASE \E b \in AfterUnlock : PlacesOf(p.entry, b) /\ p.at \in InUnlock /\ p.ret = <<b>>
  BY <1>5, <1>3, ReturnPlaces
<1>6. CASE \E b \in AfterRestore : PlacesOf(p.entry, b) /\ p.at \in InRestore /\ p.ret = <<b>>
  BY <1>6, <1>3, ReturnPlaces
<1>7. CASE \E b \in AfterObserve : PlacesOf(p.entry, b) /\ p.at = "observe" /\ p.ret = <<b>>
  BY <1>7, <1>3, ReturnPlaces
<1>8. CASE \E b \in AfterUnlock, u \in UnlockAfterRestore :
             PlacesOf(p.entry, b) /\ p.at \in InRestore /\ p.ret = <<u, b>>
  BY <1>8, <1>4, ReturnPlaces DEF Inside
<1>9. CASE \E b \in AfterUnlock, u \in UnlockAfterObserve :
             PlacesOf(p.entry, b) /\ p.at = "observe" /\ p.ret = <<u, b>>
  BY <1>9, <1>4, ReturnPlaces DEF Inside
<1> QED BY <1>1, <1>2, <1>5, <1>6, <1>7, <1>8, <1>9 DEF Stacked

\* A procedure returns to its caller.
LEMMA ReturnStack ==
    ASSUME Shaped, p.at \in Inside, NEW q, Same(q), q.ret = p.ret, NEW v \in Values
    PROVE  LET c == Return(q, v) IN
           /\ Same(c) /\ Stacked(c) /\ Bottom(c) = Bottom(p) /\ c.at \notin Early \cup {"done"}
           /\ c.rv = v /\ c.second = 0 /\ c.span = 0 /\ c.samples = 0 /\ c.tries = 0 /\ c.item = 0
           /\ p.at = "observe" => c.at \in AfterObserve \cup UnlockAfterObserve
           /\ p.at \in InRestore => c.at \in AfterRestore \cup UnlockAfterRestore
           /\ p.at \in InUnlock => c.at \in AfterUnlock
<1> DEFINE c == Return(q, v)
<1>1. PICK b \in Places :
             /\ PlacesOf(p.entry, b) /\ Bottom(p) = b
             /\ \/ /\ p.ret = <<b>>
                   /\ p.at \in InUnlock => b \in AfterUnlock
                   /\ p.at \in InRestore => b \in AfterRestore
                   /\ p.at = "observe" => b \in AfterObserve
                \/ /\ p.at \notin InUnlock /\ b \in AfterUnlock
                   /\ \E u \in Places :
                        /\ p.ret = <<u, b>>
                        /\ p.at \in InRestore => u \in UnlockAfterRestore
                        /\ p.at = "observe" => u \in UnlockAfterObserve
  BY InsideStack
<1>2. q.ret # << >> BY <1>1, StackOps
<1>3. /\ c \in ProgramShape
      /\ c.at = Head(q.ret) /\ c.ret = Tail(q.ret) /\ c.rv = v
      /\ c.second = 0 /\ c.span = 0 /\ c.samples = 0 /\ c.tries = 0 /\ c.item = 0
      /\ c.entry = q.entry /\ c.status = q.status /\ c.ok = q.ok /\ c.goal = q.goal
      /\ c.unlocked = q.unlocked
  BY <1>2, ReturnFields DEF Same
<1> HIDE DEF c
<1>4. Same(c) BY <1>3 DEF Same
<1>5. CASE p.ret = <<b>>
  <2>1. c.at = b /\ c.ret = << >> BY <1>3, <1>5, StackOps
  <2>2. /\ p.at \in InUnlock => b \in AfterUnlock
        /\ p.at \in InRestore => b \in AfterRestore
        /\ p.at = "observe" => b \in AfterObserve
    <3>1. \A u \in Places : p.ret # <<u, b>> BY <1>5
    <3> QED BY <1>1, <3>1
  <2>3. Stacked(c) BY <1>1, <1>4, <2>1 DEF Stacked, Same
  <2>4. c.at \notin Early \cup {"done"} BY <2>1, <2>2, ReturnPlaces DEF Inside
  <2> QED BY <1>1, <1>3, <1>4, <2>1, <2>2, <2>3, <2>4 DEF Bottom, c
<1>6. CASE p.ret # <<b>>
  <2>1. PICK u \in Places :
           /\ p.at \notin InUnlock /\ b \in AfterUnlock /\ p.ret = <<u, b>>
           /\ p.at \in InRestore => u \in UnlockAfterRestore
           /\ p.at = "observe" => u \in UnlockAfterObserve
    BY <1>1, <1>6
  <2>2. c.at = u /\ c.ret = <<b>> BY <1>3, <2>1, StackOps
  <2>3. u \in InUnlock BY <2>1, ReturnPlaces DEF Inside
  <2>4. Stacked(c) BY <1>1, <1>4, <2>1, <2>2, <2>3 DEF Stacked, Same
  <2>5. Bottom(c) = b BY <2>2, StackOps DEF Bottom
  <2>6. c.at \notin Early \cup {"done"} BY <2>2, <2>3, ReturnPlaces DEF Inside
  <2> QED BY <1>1, <1>3, <1>4, <2>1, <2>2, <2>4, <2>5, <2>6 DEF c
<1> QED BY <1>5, <1>6

\* trial_restore_unlock calls one of the other two.
LEMMA CallStack ==
    ASSUME Shaped, p.at \in InUnlock, NEW q, Same(q), q.ret = p.ret, NEW procedure, NEW u,
           \/ procedure = "observe" /\ u \in UnlockAfterObserve
           \/ procedure = "restore" /\ u \in UnlockAfterRestore
    PROVE  LET c == Call(q, procedure, u) IN
           /\ Same(c) /\ Stacked(c) /\ Bottom(c) = Bottom(p)
           /\ c.at = procedure /\ c.rv = "none" /\ c.second = 0 /\ c.span = 0 /\ c.samples = 0
           /\ c.tries = 0 /\ c.item = 0
<1> DEFINE c == Call(q, procedure, u)
<1>1. procedure \in Places /\ u \in Places /\ p.at \in Inside /\ p.at \in InUnlock
  BY ReturnPlaces DEF Inside, InRestore
<1>2. PICK b \in AfterUnlock : PlacesOf(p.entry, b) /\ p.ret = <<b>> /\ Bottom(p) = b
  BY <1>1, InsideStack
<1>3. b \in Places BY ReturnPlaces
<1>4. /\ c \in ProgramShape
      /\ c.at = procedure /\ c.ret = <<u>> \o q.ret /\ c.rv = "none"
      /\ c.second = 0 /\ c.span = 0 /\ c.samples = 0 /\ c.tries = 0 /\ c.item = 0
      /\ c.entry = q.entry /\ c.status = q.status /\ c.ok = q.ok /\ c.goal = q.goal
      /\ c.unlocked = q.unlocked
  BY <1>1, CallFields DEF Same
<1> HIDE DEF c
<1>5. c.ret = <<u, b>>
  <2>1. <<u>> \o <<b>> = <<u, b>> BY <1>1, <1>3, StackOps
  <2>2. q.ret = <<b>> BY <1>2
  <2> QED BY <1>4, <2>1, <2>2
<1>6. Same(c) BY <1>4 DEF Same
<1>7. Stacked(c) BY <1>2, <1>4, <1>5, <1>6 DEF Stacked, Same, InRestore
<1>8. Bottom(c) = b BY <1>1, <1>3, <1>5, StackOps DEF Bottom
<1> QED BY <1>2, <1>4, <1>6, <1>7, <1>8 DEF c

\* A procedure goes on.
LEMMA StayStack ==
    ASSUME Shaped, p.at \in Inside, NEW q, Same(q), q.ret = p.ret,
           \/ p.at \in InUnlock /\ q.at \in InUnlock
           \/ p.at \in InRestore /\ q.at \in InRestore
           \/ p.at = "observe" /\ q.at = "observe"
    PROVE  Stacked(q) /\ Bottom(q) = Bottom(p) /\ q.at \notin Early \cup {"done"}
<1>1. PICK b \in Places :
             /\ PlacesOf(p.entry, b) /\ Bottom(p) = b
             /\ \/ /\ p.ret = <<b>>
                   /\ p.at \in InUnlock => b \in AfterUnlock
                   /\ p.at \in InRestore => b \in AfterRestore
                   /\ p.at = "observe" => b \in AfterObserve
                \/ /\ p.at \notin InUnlock /\ b \in AfterUnlock
                   /\ \E u \in Places :
                        /\ p.ret = <<u, b>>
                        /\ p.at \in InRestore => u \in UnlockAfterRestore
                        /\ p.at = "observe" => u \in UnlockAfterObserve
  BY InsideStack
<1>2. q.at \in Inside BY DEF Inside
<1>3. p.ret # << >> BY <1>1, StackOps
<1>4. Bottom(q) = Bottom(p) BY <1>3 DEF Bottom
<1>5. q.entry = p.entry BY DEF Same
<1>6. Stacked(q)
  <2>1. CASE p.ret = <<b>> /\ (p.at \in InUnlock => b \in AfterUnlock)
             /\ (p.at \in InRestore => b \in AfterRestore) /\ (p.at = "observe" => b \in AfterObserve)
    BY <1>1, <1>5, <2>1 DEF Stacked
  <2>2. CASE p.at \notin InUnlock /\ b \in AfterUnlock
    BY <1>1, <1>5, <2>2, ReturnPlaces DEF Stacked
  <2> QED BY <1>1, <2>1, <2>2
<1> QED BY <1>2, <1>4, <1>6, ReturnPlaces

-----------------------------------------------------------------------------
(* What such a step preserves.                                             *)

\* A reading goes on with the history, or ends it.
LEMMA ReadQuiet ==
    ASSUME MinuteIsSeen, NEW r, NEW gap \in Nat, Read(r, gap)
    PROVE  /\ quiet' \in -1..10 * StableSeconds
           /\ Baseline(r.seen) => Covers(0)'
           /\ \A span \in Nat : Baseline(r.seen) /\ Covers(span) => Covers(span + gap)'
           /\ pair' = BothReleased(r.seen)
           /\ hw' = r.hw /\ late' = r.late /\ wrote' = wrote
<1>1. StableSeconds \in Nat BY RecoveryAssumption
<1>2. quiet \in -1..10 * StableSeconds BY DEF MinuteIsSeen
<1> DEFINE N == 10 * StableSeconds
<1>3. N \in Nat BY <1>1
<1>4. quiet' = IF ~Baseline(r.seen) THEN -1
                ELSE IF quiet < 0 THEN 0
                ELSE IF quiet + gap > N THEN N
                ELSE quiet + gap
  BY DEF Read
<1>5. quiet' \in -1..N BY <1>2, <1>3, <1>4
<1>6. Baseline(r.seen) => Covers(0)' BY <1>2, <1>3, <1>4 DEF Covers, WholeMinute
<1>7. ASSUME NEW span \in Nat, Baseline(r.seen), Covers(span) PROVE Covers(span + gap)'
  BY <1>2, <1>3, <1>4, <1>7 DEF Covers, WholeMinute
<1> QED BY <1>5, <1>6, <1>7 DEF Read

\* What hangs on the SMC and on what has been enabled survives every calm step that
\* leaves a trial's writes and flags alone.
LEMMA CalmKeeps ==
    ASSUME IInv, CalmTo(hw', late'), p'.entry = p.entry,
           p'.at \in Early => p.at \in Early /\ ToWrite(p') \subseteq ToWrite(p),
           p'.at \in Releasing =>
              p.entry # "direct" /\ (p.at \in Releasing \/ \A fan \in Fans : hw.mode[fan] # 1)
    PROVE  /\ SmcInv' /\ EnablesItsOwn' /\ EffectIsOpen' /\ ReleasedStays'
           /\ (\A w \in late : ~Enabling(w)) => (\A w \in late' : ~Enabling(w))
<1>1. SmcInv' BY DEF CalmTo, SmcInv
<1>2. \A w \in late' : Enabling(w) => w \in late /\ w \in Writes BY DEF CalmTo
<1>3. EnablesItsOwn' BY <1>2 DEF EnablesItsOwn, IInv
<1>4. EffectIsOpen'
  <2> SUFFICES ASSUME p'.at \in Early
               PROVE  /\ \A w \in late' : Enabling(w) => ~Shows(hw', w)
                      /\ \A w \in ToWrite(p') : w \notin late' /\ ~Shows(hw', w)
    BY DEF EffectIsOpen
  <2>1. /\ \A w \in late : Enabling(w) => ~Shows(hw, w)
        /\ \A w \in ToWrite(p) : w \notin late /\ ~Shows(hw, w)
    BY DEF IInv, EffectIsOpen
  <2>2. \A w \in ToWrite(p) : w \in Writes /\ Enabling(w)
    BY DEF ToWrite, EnablingWrites, Ftst, Writes, Enabling
  <2> QED BY <1>2, <2>1, <2>2 DEF CalmTo
<1>5. ReleasedStays'
  <2> SUFFICES ASSUME p'.at \in Releasing, NEW fan \in Fans PROVE hw'.mode[fan] # 1
    BY DEF ReleasedStays
  <2>1. hw.mode[fan] # 1 BY DEF IInv, ReleasedStays
  <2>2. Mode(fan, 1) \in Writes /\ Enabling(Mode(fan, 1)) BY DEF Mode, Writes, Enabling
  <2>3. Mode(fan, 1) \notin late BY <2>2 DEF IInv, EnablesItsOwn, Mode
  <2>4. ~Shows(hw, Mode(fan, 1)) BY <2>1 DEF Shows, Mode
  <2>5. ~Shows(hw', Mode(fan, 1)) BY <2>2, <2>3, <2>4 DEF CalmTo
  <2> QED BY <2>5 DEF Shows, Mode
<1> QED BY <1>1, <1>2, <1>3, <1>4, <1>5

\* A step inside a procedure preserves the invariant, given what the place it gets to
\* demands.
LEMMA InsideKeeps ==
    ASSUME IInv, p.at \in Inside, CalmTo(hw', late'),
           Same(p'), Stacked(p'), Bottom(p') = Bottom(p), p'.at \notin Early \cup {"done"},
           Counted(p'),
           p'.at \in AfterObserve => p'.rv # "yes",
           p'.at \in AfterRestore \cup AfterUnlock => p'.rv # "stable",
           quiet' \in -1..10 * StableSeconds,
           p'.at = "observe" /\ p'.second > 0 => Covers(p.span)' /\ p'.span \in Nat,
           p'.at = "unlock_stable" /\ p'.samples > 0 => Covers(p.span)',
           p'.at \in AfterObserve \cup UnlockAfterObserve /\ p'.rv = "stable" => WholeMinute',
           p'.at \in AfterUnlock /\ p'.rv = "yes" => WholeMinute',
           p'.at = "unlock_zero_write" => pair',
           p'.at \in Releasing =>
              p.at \in InUnlock /\ (p.at \in Releasing \/ \A fan \in Fans : hw.mode[fan] # 1)
    PROVE  IInv'
<1>1. Shaped /\ p.at # "done" BY ReturnPlaces DEF IInv
<1>2. p.status = "running" BY <1>1 DEF Shaped, Answered
<1>3. p'.status = "running" /\ p'.entry = p.entry BY <1>2 DEF Same
<1>4. p.at \in InUnlock => p.entry # "direct"
  <2>1. p.at \in InUnlock => \E b \in AfterUnlock : PlacesOf(p.entry, b)
    BY <1>1, InsideStack, ReturnPlaces
  <2>2. ~ \E b \in AfterUnlock : PlacesOf("direct", b)
    BY DEF AfterUnlock, PlacesOf, DirectPlaces, Commands
  <2> QED BY <2>1, <2>2
<1>5. /\ SmcInv' /\ EnablesItsOwn' /\ EffectIsOpen' /\ ReleasedStays'
      /\ (\A w \in late : ~Enabling(w)) => (\A w \in late' : ~Enabling(w))
  BY <1>3, <1>4, CalmKeeps
<1>6. Shaped' BY <1>3 DEF Shaped, Answered, Same
<1>7. MinuteIsSeen' BY <1>3 DEF MinuteIsSeen, VerdictIsWitnessed
<1>8. NothingYet' /\ RejectedWroteNothing' /\ PairIsRead'
  BY <1>3 DEF NothingYet, RejectedWroteNothing, PairIsRead, Early
<1>9. SettledIsOver'
  <2>1. Settled(p') <=> Settled(p) BY DEF Settled, Same
  <2>2. Settled(p) => \A w \in late : ~Enabling(w) BY DEF IInv, SettledIsOver
  <2>3. Settled(p)' <=> Settled(p') OBVIOUS
  <2> QED BY <1>3, <1>5, <2>1, <2>2 DEF SettledIsOver, NothingPendingBehindSuccess, Early
<1> QED BY <1>5, <1>6, <1>7, <1>8, <1>9 DEF IInv

\* A procedure returns; a minute or a truth it vouches for has been seen.
LEMMA ReturnKeeps ==
    ASSUME IInv, p.at \in Inside, CalmTo(hw', late'), quiet' \in -1..10 * StableSeconds,
           NEW q, Same(q), q.ret = p.ret, NEW v \in Values, p' = Return(q, v),
           v = "stable" => p.at = "observe" /\ WholeMinute',
           v = "yes" => p.at \in InRestore \/ (p.at \in InUnlock /\ WholeMinute')
    PROVE  IInv'
<1>1. Shaped BY DEF IInv
<1>2. /\ Same(p') /\ Stacked(p') /\ Bottom(p') = Bottom(p) /\ p'.at \notin Early \cup {"done"}
      /\ p'.rv = v /\ p'.second = 0 /\ p'.span = 0 /\ p'.samples = 0 /\ p'.tries = 0 /\ p'.item = 0
      /\ p.at = "observe" => p'.at \in AfterObserve \cup UnlockAfterObserve
      /\ p.at \in InRestore => p'.at \in AfterRestore \cup UnlockAfterRestore
      /\ p.at \in InUnlock => p'.at \in AfterUnlock
  BY <1>1, ReturnStack
<1>3. p'.at \notin {"observe", "unlock", "unlock_stable", "unlock_zero_write"} \cup Releasing
  BY <1>2 DEF Inside, AfterObserve, AfterRestore, AfterUnlock, UnlockAfterObserve,
              UnlockAfterRestore, Releasing
<1>4. Counted(p') BY <1>2, <1>3 DEF Counted
<1>5. /\ p'.at \in AfterObserve => p'.rv # "yes"
      /\ p'.at \in AfterRestore \cup AfterUnlock => p'.rv # "stable"
      /\ p'.at \in AfterObserve \cup UnlockAfterObserve /\ p'.rv = "stable" => WholeMinute'
      /\ p'.at \in AfterUnlock /\ p'.rv = "yes" => WholeMinute'
  BY <1>2, ReturnPlaces DEF Inside, AfterObserve, AfterRestore, AfterUnlock, UnlockAfterObserve,
              UnlockAfterRestore
<1> QED BY <1>2, <1>3, <1>4, <1>5, InsideKeeps

\* trial_restore_unlock makes a call.
LEMMA CallKeeps ==
    ASSUME IInv, p.at \in InUnlock, CalmTo(hw', late'), quiet' \in -1..10 * StableSeconds,
           NEW q, Same(q), q.ret = p.ret, NEW procedure, NEW u, p' = Call(q, procedure, u),
           \/ procedure = "observe" /\ u \in UnlockAfterObserve
           \/ procedure = "restore" /\ u \in UnlockAfterRestore
    PROVE  IInv'
<1>1. Shaped /\ p.at \in Inside BY DEF IInv, Inside
<1>2. /\ Same(p') /\ Stacked(p') /\ Bottom(p') = Bottom(p)
      /\ p'.at = procedure /\ p'.rv = "none" /\ p'.second = 0 /\ p'.span = 0 /\ p'.samples = 0
      /\ p'.tries = 0 /\ p'.item = 0
  BY <1>1, CallStack
<1>3. /\ p'.at \in {"observe", "restore"} /\ p'.at \notin Early \cup {"done"}
      /\ p'.at \notin AfterObserve \cup AfterRestore \cup AfterUnlock \cup UnlockAfterObserve
      /\ p'.at \notin Releasing
  BY <1>2 DEF Early, AfterObserve, AfterRestore, AfterUnlock, UnlockAfterObserve, Releasing
<1>4. Counted(p') BY <1>2, <1>3 DEF Counted
<1> QED BY <1>1, <1>2, <1>3, <1>4, InsideKeeps

\* A procedure goes on outside its two loops.
LEMMA StayKeeps ==
    ASSUME IInv, p.at \in Inside, CalmTo(hw', late'), quiet' \in -1..10 * StableSeconds,
           Same(p'), p'.ret = p.ret, Counted(p'),
           \/ p.at \in InUnlock /\ p'.at \in InUnlock \ ({"unlock_stable"} \cup UnlockAfterObserve)
           \/ p.at \in InRestore /\ p'.at \in InRestore,
           p'.at = "unlock_zero_write" => pair',
           p'.at \in Releasing => p.at \in Releasing \/ \A fan \in Fans : hw.mode[fan] # 1
    PROVE  IInv'
<1>1. Shaped BY DEF IInv
<1>2. Stacked(p') /\ Bottom(p') = Bottom(p) /\ p'.at \notin Early \cup {"done"}
  BY <1>1, StayStack
<1>3. /\ p'.at \notin {"observe", "unlock_stable"} \cup AfterObserve \cup AfterRestore \cup AfterUnlock
      /\ p'.at \notin UnlockAfterObserve
      /\ p'.at \in Releasing => p.at \in InUnlock
  BY ReturnPlaces DEF Inside, InRestore, Releasing, UnlockAfterObserve
<1> QED BY <1>2, <1>3, InsideKeeps

\* The three kinds of access: none, a reading, a write that enables nothing.
LEMMA NoAccessStep ==
    ASSUME IInv, NoAccess
    PROVE  CalmTo(hw', late') /\ quiet' = quiet /\ quiet' \in -1..10 * StableSeconds /\ pair' = pair
<1>1. CalmTo(hw, late) BY StillCalm DEF IInv
<1> QED BY <1>1 DEF NoAccess, IInv, MinuteIsSeen, CalmTo

\* A reading is calm, and what it shows is the mode from before it and the rest from after.
LEMMA ReadStep ==
    ASSUME IInv, NEW r \in Reads, NEW gap \in Nat, Read(r, gap)
    PROVE  /\ CalmTo(hw', late') /\ late' \subseteq late
           /\ quiet' \in -1..10 * StableSeconds
           /\ pair' = BothReleased(r.seen)
           /\ \/ r.seen = NoReading
              \/ /\ r.seen \in Observation /\ r.seen.mode = hw.mode
                 /\ r.seen.target = hw'.target /\ r.seen.ftst = hw'.ftst
<1>1. hw' = r.hw /\ late' = r.late /\ pair' = BothReleased(r.seen) /\ quiet' \in -1..10 * StableSeconds
  BY ReadQuiet DEF IInv
<1>2. /\ CalmTo(r.hw, r.late) /\ r.late \subseteq late
      /\ \/ r.seen = NoReading
         \/ /\ r.seen \in Observation
            /\ r.seen.mode = hw.mode
            /\ r.seen.target = r.hw.target /\ r.seen.ftst = r.hw.ftst
  BY ReadCalm DEF IInv
<1>3. CalmTo(hw', late') BY <1>1, <1>2
<1> QED BY <1>1, <1>2, <1>3

\* A write that enables nothing is calm.
LEMMA WriteStep ==
    ASSUME IInv, NEW w \in Writes, ~Enabling(w), NEW ok, Write(w, ok)
    PROVE  CalmTo(hw', late') /\ quiet' \in -1..10 * StableSeconds
<1>1. CalmTo(hw', late') BY WriteCalm DEF Write, IInv
<1>2. quiet' = -1 BY DEF Write
<1>3. StableSeconds \in Nat BY RecoveryAssumption
<1> QED BY <1>1, <1>2, <1>3

\* The record before and after a reading was noted.
LEMMA SameNoted ==
    ASSUME IInv
    PROVE  /\ p \in ProgramShape /\ Same(p)
           /\ \A o : /\ Same(Noted(o)) /\ Noted(o) \in ProgramShape /\ Noted(o).ret = p.ret
                     /\ Noted(o).at = p.at /\ Noted(o).second = p.second /\ Noted(o).span = p.span
                     /\ Noted(o).samples = p.samples /\ Noted(o).tries = p.tries
                     /\ Noted(o).item = p.item
<1>1. p \in ProgramShape BY DEF IInv, Shaped
<1> QED BY <1>1, NotedFields DEF Same

\* The clock does not run backwards.
LEMMA GapsAreNat == Gaps \subseteq Nat
BY DEF Gaps

-----------------------------------------------------------------------------
(* trial_observe_baseline_window *)

\* One sample, or none when interrupted: the window goes on, or returns "stable" on
\* a whole minute.
LEMMA ObserveKeeps == IInv /\ Observe => IInv'
<1> SUFFICES ASSUME IInv, Observe PROVE IInv' OBVIOUS
<1>1. p.at = "observe" /\ p.at \in Inside BY DEF Observe, Inside
<1>2. p \in ProgramShape /\ Same(p) BY SameNoted
<1>3. CASE interrupted /\ p' = Return(p, "failed") /\ NoAccess
  <2>1. CalmTo(hw', late') /\ quiet' \in -1..10 * StableSeconds BY <1>3, NoAccessStep
  <2>2. "failed" \in Values BY DEF Values
  <2> QED BY <1>1, <1>2, <1>3, <2>1, <2>2, ReturnKeeps
<1>4. ASSUME NEW r \in Reads, NEW gap \in Gaps, NEW slept \in Waits, Read(r, gap),
             NEW q, q = IF r.seen = NoReading THEN p ELSE Noted(r.seen),
             NEW verdict, verdict = SampleVerdict(r.seen, gap),
             p' = IF verdict # "again" THEN Return(q, verdict)
                  ELSE IF ~slept THEN Return(q, "failed")
                  ELSE [q EXCEPT !.second = @ + 1, !.span = IF p.second = 0 THEN 0 ELSE @ + gap]
      PROVE  IInv'
  <2>1. gap \in Nat BY GapsAreNat
  <2>2. CalmTo(hw', late') /\ quiet' \in -1..10 * StableSeconds BY <1>4, <2>1, ReadStep
  <2>3. /\ Baseline(r.seen) => Covers(0)'
        /\ \A span \in Nat : Baseline(r.seen) /\ Covers(span) => Covers(span + gap)'
    BY <1>4, <2>1, ReadQuiet DEF IInv
  <2>4. /\ Same(q) /\ q \in ProgramShape /\ q.ret = p.ret /\ q.at = p.at /\ q.second = p.second
        /\ q.span = p.span /\ q.samples = p.samples /\ q.tries = p.tries /\ q.item = p.item
    BY <1>2, <1>4, SameNoted
  <2>5. /\ p.second \in Nat /\ p.span \in Nat /\ StableSeconds \in Nat \ {0}
        /\ quiet \in -1..10 * StableSeconds
        /\ p.second > 0 => Covers(p.span)
    BY <1>1, <1>2, RecoveryAssumption DEF ProgramShape, IInv, MinuteIsSeen
  <2>6. /\ verdict \in {"failed", "changed", "again", "stable"}
        /\ verdict = "again" => Baseline(r.seen)
        /\ verdict = "stable" => /\ Baseline(r.seen) /\ p.second >= StableSeconds
                                 /\ p.span + gap >= 10 * StableSeconds
    <3>1. p.second < StableSeconds \/ p.second >= StableSeconds BY <2>5
    <3> QED BY <1>4, <3>1 DEF SampleVerdict
  <2>7. CASE verdict # "again"
    <3>1. p' = Return(q, verdict) /\ verdict \in Values BY <1>4, <2>6, <2>7 DEF Values
    <3>2. verdict = "stable" => WholeMinute'
      <4>1. verdict = "stable" => Covers(p.span) BY <2>5, <2>6
      <4>2. verdict = "stable" => quiet' >= p.span + gap \/ WholeMinute'
        BY <2>3, <2>5, <2>6, <4>1 DEF Covers
      <4> QED BY <2>1, <2>2, <2>5, <2>6, <4>2 DEF WholeMinute
    <3> QED BY <1>1, <2>2, <2>4, <2>6, <3>1, <3>2, ReturnKeeps
  <2>8. CASE verdict = "again" /\ ~slept
    <3>1. p' = Return(q, "failed") /\ "failed" \in Values BY <1>4, <2>8 DEF Values
    <3> QED BY <1>1, <2>2, <2>4, <3>1, ReturnKeeps
  <2>9. CASE verdict = "again" /\ slept
    <3>0. PICK span : span = IF p.second = 0 THEN 0 ELSE p.span + gap OBVIOUS
    <3>1. span \in Nat /\ p.second + 1 \in Nat /\ p.second + 1 > 0 BY <2>1, <2>5, <3>0
    <3>2. p' = [q EXCEPT !.second = p.second + 1, !.span = span] BY <1>4, <2>4, <2>9, <3>0
    <3>3. /\ Same(p') /\ p'.ret = p.ret /\ p'.at = p.at /\ p'.second = p.second + 1
          /\ p'.span = span /\ p'.samples = p.samples /\ p'.tries = p.tries /\ p'.item = p.item
      BY <2>4, <3>1, <3>2 DEF Same, ProgramShape
    <3>4. Stacked(p') /\ Bottom(p') = Bottom(p) /\ p'.at \notin Early \cup {"done"}
      BY <1>1, <3>3, StayStack DEF IInv
    <3>5. Covers(span)' BY <2>3, <2>5, <2>6, <2>9, <3>0
    <3>6. Covers(p.span)' BY <3>3, <3>5 DEF Covers, WholeMinute
    <3>7. Counted(p') BY <1>1, <3>3 DEF IInv, Shaped, Counted
    <3> QED
      BY <1>1, <2>2, <3>1, <3>3, <3>4, <3>6, <3>7, InsideKeeps
         DEF AfterObserve, AfterRestore, AfterUnlock, UnlockAfterObserve, Releasing
  <2> QED BY <2>7, <2>8, <2>9
<1>5. CASE ~(interrupted /\ p' = Return(p, "failed") /\ NoAccess)
  <2>1. PICK r \in Reads, gap \in Gaps, slept \in Waits :
          /\ Read(r, gap)
          /\ p' = LET q == IF r.seen = NoReading THEN p ELSE Noted(r.seen) IN
                  IF SampleVerdict(r.seen, gap) # "again" THEN Return(q, SampleVerdict(r.seen, gap))
                  ELSE IF ~slept THEN Return(q, "failed")
                  ELSE [q EXCEPT !.second = @ + 1, !.span = IF p.second = 0 THEN 0 ELSE @ + gap]
    BY <1>5, Zenon DEF Observe
  <2> QED BY <1>4, <2>1, Zenon
<1> QED BY <1>3, <1>5

-----------------------------------------------------------------------------
(* trial_restore_system *)

\* The first reading: the baseline already, or writes.
LEMMA RestoreReadKeeps == IInv /\ RestoreRead => IInv'
<1> SUFFICES ASSUME IInv, RestoreRead PROVE IInv' OBVIOUS
<1>1. p.at = "restore" /\ p.at \in InRestore /\ p.at \in Inside BY DEF RestoreRead, Inside, InRestore
<1>2. p \in ProgramShape /\ Same(p) /\ Counted(p) BY SameNoted DEF IInv, Shaped
<1>3. PICK r \in Reads :
        Read(r, 0) /\ p' = IF Baseline(r.seen) THEN Return(p, "yes") ELSE Goto(p, "restore_write")
  BY Zenon DEF RestoreRead
<1>4. CalmTo(hw', late') /\ quiet' \in -1..10 * StableSeconds BY <1>3, ReadStep
<1>5. CASE p' = Return(p, "yes")
  <2>1. "yes" \in Values BY DEF Values
  <2> QED BY <1>1, <1>2, <1>4, <1>5, <2>1, ReturnKeeps
<1>6. CASE p' = Goto(p, "restore_write")
  <2>1. "restore_write" \in Places /\ "restore_write" \in InRestore
    BY DEF Places, Labels, InRestore
  <2>2. /\ p' \in ProgramShape /\ p'.at = "restore_write" /\ p'.ret = p.ret
        /\ p'.samples = p.samples /\ Same(p')
    BY <1>2, <1>6, <2>1, GotoFields DEF Same
  <2>3. Counted(p') BY <1>1, <1>2, <2>2 DEF Counted
  <2>4. p'.at \notin Releasing BY <2>2 DEF Releasing
  <2> QED BY <1>1, <1>4, <2>1, <2>2, <2>3, <2>4, StayKeeps
<1> QED BY <1>3, <1>5, <1>6

\* The four writes of trial_restore_system enable nothing.
LEMMA RestoreItems == \A item \in 0..3 : RestoreItem(item) \in Writes /\ ~Enabling(RestoreItem(item))
<1>1. \A item \in 0..3 : item \div 2 \in Fans BY DEF Fans
<1> QED BY <1>1 DEF RestoreItem, Writes, Enabling, Mode, Target, ZeroRpm

\* A write, tried again or passed over.
LEMMA RestoreWriteKeeps == IInv /\ RestoreWrite => IInv'
<1> SUFFICES ASSUME IInv, RestoreWrite PROVE IInv' OBVIOUS
<1>1. p.at = "restore_write" /\ p.at \in InRestore /\ p.at \in Inside
  BY DEF RestoreWrite, Inside, InRestore
<1>2. p \in ProgramShape /\ Same(p) /\ Counted(p) BY SameNoted DEF IInv, Shaped
<1>3. PICK ok \in Answers :
        /\ Write(RestoreItem(p.item), ok)
        /\ p' = IF ~ok /\ p.tries + 1 < RestoreRetries THEN [p EXCEPT !.tries = @ + 1]
                ELSE IF p.item < 3 THEN [p EXCEPT !.item = @ + 1, !.tries = 0]
                ELSE [p EXCEPT !.at = "restore_verify", !.item = 0, !.tries = 0]
  BY Zenon DEF RestoreWrite
<1>4. p.item \in 0..3 /\ p.tries \in Nat BY <1>2 DEF ProgramShape
<1>5. CalmTo(hw', late') /\ quiet' \in -1..10 * StableSeconds
  <2>1. RestoreItem(p.item) \in Writes /\ ~Enabling(RestoreItem(p.item)) BY <1>4, RestoreItems
  <2> QED BY <1>3, <2>1, WriteStep
<1>6. /\ Same(p') /\ p'.ret = p.ret /\ p'.samples = p.samples
      /\ p'.at \in {"restore_write", "restore_verify"}
  <2>1. p.tries + 1 \in Nat /\ (p.item < 3 => p.item + 1 \in 0..3) BY <1>4
  <2>2. "restore_verify" \in Places BY DEF Places, Labels
  <2>3. CASE p' = [p EXCEPT !.tries = @ + 1] BY <1>1, <1>2, <2>1, <2>3 DEF Same, ProgramShape
  <2>4. CASE p.item < 3 /\ p' = [p EXCEPT !.item = @ + 1, !.tries = 0]
    BY <1>1, <1>2, <2>1, <2>4 DEF Same, ProgramShape
  <2>5. CASE p' = [p EXCEPT !.at = "restore_verify", !.item = 0, !.tries = 0]
    <3>1. 0 \in Nat /\ 0 \in 0..3 OBVIOUS
    <3>2. p' \in ProgramShape BY <1>2, <2>2, <2>5, <3>1, Zenon DEF ProgramShape
    <3> QED BY <1>1, <1>2, <2>2, <2>5, <3>2 DEF Same, ProgramShape
  <2> QED BY <1>3, <2>3, <2>4, <2>5
<1>7. Counted(p') BY <1>1, <1>2, <1>6 DEF Counted
<1>8. p'.at \notin Releasing /\ p'.at # "unlock_zero_write" /\ p'.at \in InRestore
  BY <1>6 DEF Releasing, InRestore
<1> QED BY <1>1, <1>5, <1>6, <1>7, <1>8, StayKeeps

\* A reading of what the writes have done.
LEMMA RestoreVerifyKeeps == IInv /\ RestoreVerify => IInv'
<1> SUFFICES ASSUME IInv, RestoreVerify PROVE IInv' OBVIOUS
<1>1. p.at = "restore_verify" /\ p.at \in InRestore /\ p.at \in Inside
  BY DEF RestoreVerify, Inside, InRestore
<1>2. p \in ProgramShape /\ Same(p) /\ Counted(p) BY SameNoted DEF IInv, Shaped
<1>3. PICK r \in Reads :
        /\ Read(r, 0)
        /\ p' = IF Baseline(r.seen) THEN Return(p, "yes")
                ELSE IF p.tries < VerifySeconds THEN [p EXCEPT !.tries = @ + 1]
                ELSE Return(p, "no")
  BY Zenon DEF RestoreVerify
<1>4. CalmTo(hw', late') /\ quiet' \in -1..10 * StableSeconds BY <1>3, ReadStep
<1>5. CASE \E v \in {"yes", "no"} : p' = Return(p, v)
  <2>1. {"yes", "no"} \subseteq Values BY DEF Values
  <2> QED BY <1>1, <1>2, <1>4, <1>5, <2>1, ReturnKeeps
<1>6. CASE p' = [p EXCEPT !.tries = @ + 1]
  <2>1. p.tries + 1 \in Nat BY <1>2 DEF ProgramShape
  <2>2. Same(p') /\ p'.at = p.at /\ p'.ret = p.ret /\ p'.samples = p.samples
    BY <1>2, <1>6, <2>1 DEF Same, ProgramShape
  <2>3. Counted(p') BY <1>1, <1>2, <2>2 DEF Counted
  <2>4. p'.at \notin Releasing BY <1>1, <2>2 DEF Releasing
  <2> QED BY <1>1, <1>4, <2>2, <2>3, <2>4, StayKeeps
<1> QED BY <1>3, <1>5, <1>6

-----------------------------------------------------------------------------
(* trial_restore_unlock *)

\* What every step of the procedure starts from.
LEMMA UnlockPlace ==
    ASSUME IInv, p.at \in InUnlock
    PROVE  /\ p.at \in Inside /\ p \in ProgramShape /\ Same(p) /\ Counted(p)
           /\ p.tries \in Nat /\ p.second \in Nat /\ p.item \in 0..3
           /\ p.samples \in Nat /\ p.span \in Nat /\ p.delayed \in BOOLEAN
           /\ p.at # "unlock_stable" => p.samples = 0
           /\ {"yes", "no"} \subseteq Values /\ InUnlock \subseteq Places
<1>1. p \in ProgramShape /\ Same(p) /\ Counted(p) BY SameNoted DEF IInv, Shaped
<1>2. {"yes", "no"} \subseteq Values BY DEF Values
<1>3. InUnlock \subseteq Places BY ReturnPlaces DEF Inside
<1> QED BY <1>1, <1>2, <1>3 DEF ProgramShape, Counted, Inside

\* Recovery starts from a reading: through trial_restore_system or by releasing.
LEMMA DispatchKeeps ==
    ASSUME IInv, p.at \in {"unlock", "unlock_reread"}, CalmTo(hw', late'),
           quiet' \in -1..10 * StableSeconds, NEW o \in Observation, NEW delayed \in BOOLEAN,
           p' = Dispatch(o, delayed)
    PROVE  IInv'
<1> DEFINE n == Noted(o)
           q == [n EXCEPT !.delayed = delayed]
<1>1. p.at \in InUnlock BY DEF InUnlock
<1>2. /\ p \in ProgramShape /\ Counted(p) /\ p.samples = 0 /\ p.item = 0
  BY <1>1, UnlockPlace DEF Counted
<1>3. /\ Same(n) /\ n \in ProgramShape /\ n.ret = p.ret /\ n.at = p.at
      /\ n.samples = p.samples /\ n.item = p.item
  BY SameNoted
<1>4. /\ o.ftst = 0 => p' = Call(q, "restore", "unlock_restored")
      /\ o.ftst = 1 => p' = [q EXCEPT !.at = "unlock_release", !.tries = 0,
                                      !.manual = {fan \in Fans : o.mode[fan] = 1}]
  BY DEF Dispatch
<1>5. o.ftst = 0 \/ o.ftst = 1 BY DEF Observation
<1> HIDE DEF n
<1>6. Same(q) /\ q \in ProgramShape /\ q.ret = p.ret /\ q.at = p.at /\ q.samples = 0 /\ q.item = 0
  <2>1. q \in ProgramShape BY <1>3, Zenon DEF ProgramShape
  <2> QED BY <1>2, <1>3, <2>1 DEF Same, ProgramShape
<1> HIDE DEF q
<1>7. CASE o.ftst = 0
  <2>1. p' = Call(q, "restore", "unlock_restored") /\ "unlock_restored" \in UnlockAfterRestore
    BY <1>4, <1>7 DEF UnlockAfterRestore
  <2> QED BY <1>1, <1>6, <2>1, CallKeeps
<1>8. CASE o.ftst = 1
  <2>1. PICK M : M = {fan \in Fans : o.mode[fan] = 1} OBVIOUS
  <2>2. M \in SUBSET Fans /\ 0 \in Nat BY <2>1
  <2>3. "unlock_release" \in Places BY DEF Places, Labels
  <2>4. p' = [q EXCEPT !.at = "unlock_release", !.tries = 0, !.manual = M] BY <1>4, <1>8, <2>1
  <2>5. p' \in ProgramShape BY <1>6, <2>2, <2>3, <2>4, Zenon DEF ProgramShape
  <2>6. /\ Same(p') /\ p'.ret = p.ret /\ p'.at = "unlock_release" /\ p'.samples = 0 /\ p'.item = 0
    BY <1>6, <2>4, <2>5 DEF Same, ProgramShape
  <2>7. Counted(p') BY <2>6 DEF Counted
  <2>8. p'.at \in InUnlock \ ({"unlock_stable"} \cup UnlockAfterObserve) /\ p'.at \notin Releasing
    BY <2>6 DEF InUnlock, UnlockAfterObserve, Releasing
  <2>9. p'.at # "unlock_zero_write" /\ p.at \in Inside BY <1>1, <2>6, UnlockPlace
  <2> QED BY <1>1, <2>6, <2>7, <2>8, <2>9, StayKeeps
<1> QED BY <1>5, <1>7, <1>8

\* The first reading of recovery, tried again when it fails.
LEMMA UnlockReadKeeps == IInv /\ UnlockRead => IInv'
<1> SUFFICES ASSUME IInv, UnlockRead PROVE IInv' OBVIOUS
<1>1. p.at = "unlock" /\ p.at \in InUnlock BY DEF UnlockRead, InUnlock
<1>2. /\ p.at \in Inside /\ p \in ProgramShape /\ Same(p) /\ Counted(p) /\ p.tries \in Nat
      /\ p.samples = 0 /\ "no" \in Values
  BY <1>1, UnlockPlace
<1>3. PICK r \in Reads :
        /\ Read(r, 0)
        /\ p' = CASE r.seen = NoReading /\ p.tries + 1 < ReleaseRetries -> [p EXCEPT !.tries = @ + 1]
                  [] r.seen = NoReading /\ p.tries + 1 = ReleaseRetries -> Return(p, "no")
                  [] r.seen # NoReading /\ Baseline(r.seen) -> Call(p, "observe", "unlock_observed")
                  [] r.seen # NoReading /\ ~Baseline(r.seen) -> Dispatch(r.seen, FALSE)
  BY Zenon DEF UnlockRead
<1>4. CalmTo(hw', late') /\ quiet' \in -1..10 * StableSeconds BY <1>3, ReadStep
<1>5. r.seen = NoReading \/ r.seen \in Observation BY <1>3, ReadStep
<1>6. p.tries + 1 <= ReleaseRetries /\ ReleaseRetries \in Nat /\ p.item = 0
  BY <1>1, <1>2, RecoveryAssumption DEF Counted
<1>7. CASE r.seen = NoReading /\ p.tries + 1 < ReleaseRetries
  <2>1. p' = [p EXCEPT !.tries = p.tries + 1] BY <1>2, <1>3, <1>6, <1>7
  <2>2. p.tries + 1 \in Nat BY <1>2
  <2>3. Same(p') /\ p'.at = p.at /\ p'.ret = p.ret /\ p'.samples = p.samples /\ p'.item = p.item
        /\ p'.tries = p.tries + 1
    BY <1>2, <2>1, <2>2 DEF Same, ProgramShape
  <2>4. Counted(p') BY <1>1, <1>2, <1>6, <1>7, <2>3 DEF Counted
  <2>5. p'.at \notin Releasing /\ p'.at \in InUnlock \ ({"unlock_stable"} \cup UnlockAfterObserve)
    BY <1>1, <2>3 DEF Releasing, UnlockAfterObserve
  <2> QED BY <1>1, <1>2, <1>4, <2>3, <2>4, <2>5, StayKeeps
<1>8. CASE r.seen = NoReading /\ p.tries + 1 = ReleaseRetries
  <2>1. p' = Return(p, "no") BY <1>3, <1>6, <1>8
  <2> QED BY <1>2, <1>4, <2>1, ReturnKeeps
<1>9. CASE r.seen # NoReading /\ Baseline(r.seen)
  <2>1. p' = Call(p, "observe", "unlock_observed") /\ "unlock_observed" \in UnlockAfterObserve
    BY <1>3, <1>9 DEF UnlockAfterObserve
  <2> QED BY <1>1, <1>2, <1>4, <2>1, CallKeeps
<1>10. CASE r.seen # NoReading /\ ~Baseline(r.seen)
  <2>1. p' = Dispatch(r.seen, FALSE) BY <1>3, <1>10
  <2> QED BY <1>1, <1>4, <1>5, <1>10, <2>1, DispatchKeeps
<1>11. p.tries + 1 < ReleaseRetries \/ p.tries + 1 = ReleaseRetries BY <1>2, <1>6
<1> QED BY <1>7, <1>8, <1>9, <1>10, <1>11

\* The reading after a baseline that changed.
LEMMA UnlockRereadKeeps == IInv /\ UnlockReread => IInv'
<1> SUFFICES ASSUME IInv, UnlockReread PROVE IInv' OBVIOUS
<1>1. p.at = "unlock_reread" /\ p.at \in InUnlock BY DEF UnlockReread, InUnlock
<1>2. p.at \in Inside /\ Same(p) /\ "no" \in Values BY <1>1, UnlockPlace
<1>3. PICK r \in Reads :
        Read(r, 0) /\ p' = IF r.seen = NoReading THEN Return(p, "no") ELSE Dispatch(r.seen, TRUE)
  BY Zenon DEF UnlockReread
<1>4. CalmTo(hw', late') /\ quiet' \in -1..10 * StableSeconds BY <1>3, ReadStep
<1>5. CASE r.seen = NoReading
  <2>1. p' = Return(p, "no") BY <1>3, <1>5
  <2> QED BY <1>2, <1>4, <2>1, ReturnKeeps
<1>6. CASE r.seen # NoReading
  <2>1. r.seen \in Observation /\ p' = Dispatch(r.seen, TRUE) BY <1>3, <1>6, ReadStep
  <2> QED BY <1>1, <1>4, <2>1, DispatchKeeps
<1> QED BY <1>5, <1>6

\* A step that stays in trial_restore_unlock and outside its loop, of which only the
\* place and the counters matter.
LEMMA UnlockGoesOn ==
    ASSUME IInv, p.at \in InUnlock, CalmTo(hw', late'), quiet' \in -1..10 * StableSeconds,
           Same(p'), p'.ret = p.ret, p'.samples = 0,
           p'.at \in {"unlock_zero", "unlock_zero_write"} => p'.item \in 0..1,
           p'.at \in InUnlock \ ({"unlock", "unlock_stable"} \cup UnlockAfterObserve),
           p'.at \in {"unlock_reread", "unlock_release", "unlock_check"} => p'.item = 0,
           p'.at = "unlock_zero_write" => pair',
           p'.at \in Releasing => p.at \in Releasing \/ \A fan \in Fans : hw.mode[fan] # 1
    PROVE  IInv'
<1>1. p.at \in Inside BY UnlockPlace
<1>2. Counted(p') BY DEF Counted, UnlockAfterObserve, InUnlock, UnlockAfterRestore
<1> QED BY <1>1, <1>2, StayKeeps

\* A jump inside trial_restore_unlock.
LEMMA UnlockGoto ==
    ASSUME IInv, p.at \in InUnlock, CalmTo(hw', late'), quiet' \in -1..10 * StableSeconds,
           NEW q, Same(q), q.ret = p.ret, q.samples = 0,
           NEW label \in InUnlock \ ({"unlock", "unlock_stable"} \cup UnlockAfterObserve),
           p' = Goto(q, label),
           label \in {"unlock_zero", "unlock_zero_write"} => q.item \in 0..1,
           label \in {"unlock_reread", "unlock_release", "unlock_check"} => q.item = 0,
           label = "unlock_zero_write" => pair',
           label \in Releasing => p.at \in Releasing \/ \A fan \in Fans : hw.mode[fan] # 1
    PROVE  IInv'
<1>1. label \in Places BY UnlockPlace
<1>2. /\ p' \in ProgramShape /\ p'.at = label /\ p'.ret = q.ret /\ p'.samples = q.samples
      /\ p'.item = q.item /\ p'.entry = q.entry /\ p'.status = q.status /\ p'.ok = q.ok
      /\ p'.goal = q.goal /\ p'.unlocked = q.unlocked
  BY <1>1, GotoFields DEF Same
<1>3. Same(p') BY <1>2 DEF Same
<1> QED BY <1>2, <1>3, UnlockGoesOn

\* What follows the calls of trial_restore_unlock.
LEMMA UnlockResumeKeeps == IInv /\ UnlockResume => IInv'
<1> SUFFICES ASSUME IInv, UnlockResume PROVE IInv' OBVIOUS
<1>1. p.at \in {"unlock_observed", "unlock_restored", "unlock_watched"} /\ p.at \in InUnlock
  BY DEF UnlockResume, InUnlock, UnlockAfterObserve, UnlockAfterRestore
<1>2. /\ p.at \in Inside /\ p \in ProgramShape /\ Same(p) /\ Counted(p) /\ p.samples = 0
      /\ {"yes", "no"} \subseteq Values
  BY <1>1, UnlockPlace
<1>3. NoAccess BY DEF UnlockResume
<1>4. CalmTo(hw', late') /\ quiet' \in -1..10 * StableSeconds /\ quiet' = quiet BY <1>3, NoAccessStep
<1>5. p.at \in {"unlock_observed", "unlock_watched"} /\ p.rv = "stable" => WholeMinute'
  BY <1>4 DEF IInv, MinuteIsSeen, UnlockAfterObserve, WholeMinute
<1>6. CASE p.at = "unlock_observed" /\ p.rv = "changed"
  <2>1. p' = Goto(p, "unlock_reread") BY <1>6 DEF UnlockResume
  <2>2. "unlock_reread" \in InUnlock \ ({"unlock", "unlock_stable"} \cup UnlockAfterObserve)
    BY DEF InUnlock, UnlockAfterObserve
  <2>3. p.item = 0 /\ p.item \in 0..1 BY <1>2, <1>6 DEF Counted
  <2>4. "unlock_reread" \notin Releasing BY DEF Releasing
  <2> QED BY <1>1, <1>2, <1>4, <2>1, <2>2, <2>3, <2>4, UnlockGoto
<1>7. ASSUME NEW b \in BOOLEAN, p' = ReturnTruth(p, b), b => WholeMinute' PROVE IInv'
  <2>1. PICK v : v = IF b THEN "yes" ELSE "no" OBVIOUS
  <2>2. p' = Return(p, v) /\ v \in Values BY <1>2, <1>7, <2>1 DEF ReturnTruth
  <2>3. v # "stable" /\ (v = "yes" => WholeMinute') BY <1>7, <2>1
  <2> QED BY <1>1, <1>2, <1>4, <2>2, <2>3, ReturnKeeps
<1>8. CASE p.at = "unlock_observed" /\ p.rv # "changed"
  <2>1. p' = ReturnTruth(p, p.rv = "stable") BY <1>8 DEF UnlockResume
  <2> QED BY <1>5, <1>7, <1>8, <2>1
<1>9. CASE p.at = "unlock_watched"
  <2>1. p' = ReturnTruth(p, p.rv = "stable" /\ ~p.delayed) BY <1>9 DEF UnlockResume
  <2> QED BY <1>5, <1>7, <1>9, <2>1
<1>10. CASE p.at = "unlock_restored" /\ p.rv = "yes"
  <2>1. p' = Call(p, "observe", "unlock_watched") /\ "unlock_watched" \in UnlockAfterObserve
    BY <1>10 DEF UnlockResume, UnlockAfterObserve
  <2> QED BY <1>1, <1>2, <1>4, <2>1, CallKeeps
<1>11. CASE p.at = "unlock_restored" /\ p.rv # "yes"
  <2>1. p' = Return(p, "no") BY <1>11 DEF UnlockResume
  <2> QED BY <1>1, <1>2, <1>4, <2>1, ReturnKeeps
<1> QED BY <1>1, <1>6, <1>8, <1>9, <1>10, <1>11

\* The manual fans are released one after another.
LEMMA UnlockReleaseKeeps == IInv /\ UnlockRelease => IInv'
<1> SUFFICES ASSUME IInv, UnlockRelease PROVE IInv' OBVIOUS
<1>1. p.at = "unlock_release" /\ p.at \in InUnlock BY DEF UnlockRelease, InUnlock
<1>2. /\ p.at \in Inside /\ p \in ProgramShape /\ Same(p) /\ Counted(p) /\ p.samples = 0
      /\ p.tries \in Nat /\ "no" \in Values
  BY <1>1, UnlockPlace
<1>3. p.item = 0 /\ p.item \in 0..1 /\ p.manual \subseteq Fans BY <1>1, <1>2 DEF Counted, ProgramShape
<1>4. CASE p' = Goto(p, "unlock_check") /\ NoAccess
  <2>1. CalmTo(hw', late') /\ quiet' \in -1..10 * StableSeconds BY <1>4, NoAccessStep
  <2>2. "unlock_check" \in InUnlock \ ({"unlock", "unlock_stable"} \cup UnlockAfterObserve)
    BY DEF InUnlock, UnlockAfterObserve
  <2>3. "unlock_check" \notin Releasing BY DEF Releasing
  <2> QED BY <1>1, <1>2, <1>3, <1>4, <2>1, <2>2, <2>3, UnlockGoto
<1>5. CASE ~(p' = Goto(p, "unlock_check") /\ NoAccess)
  <2>1. PICK fan \in p.manual, ok \in Answers :
          /\ Write(Mode(fan, 0), ok)
          /\ p' = IF ok THEN [p EXCEPT !.manual = @ \ {fan}, !.tries = 0]
                  ELSE IF p.tries + 1 < RestoreRetries THEN [p EXCEPT !.tries = @ + 1]
                  ELSE Return(p, "no")
    BY <1>5, Zenon DEF UnlockRelease
  <2>2. Mode(fan, 0) \in Writes /\ ~Enabling(Mode(fan, 0)) BY <1>3 DEF Mode, Writes, Enabling
  <2>3. CalmTo(hw', late') /\ quiet' \in -1..10 * StableSeconds BY <2>1, <2>2, WriteStep
  <2>4. CASE p' = Return(p, "no") BY <1>1, <1>2, <2>3, <2>4, ReturnKeeps
  <2>5. CASE p' = [p EXCEPT !.manual = @ \ {fan}, !.tries = 0] \/ p' = [p EXCEPT !.tries = @ + 1]
    <3>1. p.manual \ {fan} \in SUBSET Fans /\ p.tries + 1 \in Nat /\ 0 \in Nat BY <1>2, <1>3
    <3>2. p' \in ProgramShape
      <4>1. CASE p' = [p EXCEPT !.manual = @ \ {fan}, !.tries = 0]
        BY <1>2, <3>1, <4>1, Zenon DEF ProgramShape
      <4>2. CASE p' = [p EXCEPT !.tries = @ + 1] BY <1>2, <3>1, <4>2, Zenon DEF ProgramShape
      <4> QED BY <2>5, <4>1, <4>2
    <3>3. Same(p') /\ p'.at = p.at /\ p'.ret = p.ret /\ p'.samples = p.samples /\ p'.item = p.item
      BY <1>2, <2>5, <3>2 DEF Same, ProgramShape
    <3>4. p'.at \in InUnlock \ ({"unlock", "unlock_stable"} \cup UnlockAfterObserve)
      BY <1>1, <3>3 DEF UnlockAfterObserve
    <3>5. p'.at \notin Releasing BY <1>1, <3>3 DEF Releasing
    <3>6. p'.samples = 0 /\ p'.item \in 0..1 /\ p'.item = 0 /\ p'.at # "unlock_zero_write"
      BY <1>1, <1>2, <1>3, <3>3
    <3> QED BY <1>1, <2>3, <3>3, <3>4, <3>5, <3>6, UnlockGoesOn
  <2> QED BY <2>1, <2>4, <2>5
<1> QED BY <1>4, <1>5

\* The reading that allows the release: no fan is manual when it is over.
LEMMA UnlockCheckKeeps == IInv /\ UnlockCheck => IInv'
<1> SUFFICES ASSUME IInv, UnlockCheck PROVE IInv' OBVIOUS
<1>1. p.at = "unlock_check" /\ p.at \in InUnlock BY DEF UnlockCheck, InUnlock
<1>2. /\ p.at \in Inside /\ p \in ProgramShape /\ Same(p) /\ Counted(p) /\ p.samples = 0
      /\ "no" \in Values
  BY <1>1, UnlockPlace
<1>3. PICK r \in Reads :
        /\ Read(r, 0)
        /\ p' = IF r.seen.ftst # 1 \/ ~Released(r.seen) THEN Return(p, "no")
                ELSE IF BothReleased(r.seen) /\ \E fan \in Fans : r.seen.target[fan] # ZeroRpm
                THEN Goto(Noted(r.seen), "unlock_zero")
                ELSE Goto(Noted(r.seen), "unlock_clear")
  BY Zenon DEF UnlockCheck
<1>4. CalmTo(hw', late') /\ quiet' \in -1..10 * StableSeconds BY <1>3, ReadStep
<1>5. CASE r.seen.ftst # 1 \/ ~Released(r.seen)
  <2>1. p' = Return(p, "no") BY <1>3, <1>5
  <2> QED BY <1>2, <1>4, <2>1, ReturnKeeps
<1>6. CASE r.seen.ftst = 1 /\ Released(r.seen)
  <2>1. r.seen.mode = hw.mode BY <1>3, <1>6, ReadStep DEF NoReading
  <2>2. \A fan \in Fans : hw.mode[fan] # 1 BY <1>6, <2>1 DEF Released
  <2>3. PICK label \in {"unlock_zero", "unlock_clear"} : p' = Goto(Noted(r.seen), label)
    BY <1>3, <1>6
  <2>4. /\ Same(Noted(r.seen)) /\ Noted(r.seen).ret = p.ret /\ Noted(r.seen).samples = 0
        /\ Noted(r.seen).item \in 0..1
    BY <1>1, <1>2, SameNoted DEF Counted
  <2>5. label \in InUnlock \ ({"unlock", "unlock_stable"} \cup UnlockAfterObserve)
    BY DEF InUnlock, UnlockAfterObserve
  <2>6. PICK q : q = Noted(r.seen) OBVIOUS
  <2> QED BY <1>1, <1>4, <2>2, <2>3, <2>4, <2>5, <2>6, UnlockGoto
<1> QED BY <1>3, <1>5, <1>6

\* Between two zeroed targets.
LEMMA NextZeroFields ==
    ASSUME NEW q \in ProgramShape, Same(q), p.item \in 0..1
    PROVE  LET c == NextZero(q) IN
           /\ Same(c) /\ c.ret = q.ret /\ c.samples = q.samples /\ c.item \in 0..1
           /\ c.at \in {"unlock_zero", "unlock_zeroed"}
<1>1. /\ {"unlock_zero", "unlock_zeroed"} \subseteq Places
      /\ 0 \in 0..3 /\ 1 \in 0..3
  BY DEF Places, Labels
<1>2. CASE p.item = 0
  <2>1. NextZero(q) = [q EXCEPT !.at = "unlock_zero", !.item = 1] BY <1>2 DEF NextZero
  <2>2. NextZero(q) \in ProgramShape BY <1>1, <2>1, Zenon DEF ProgramShape
  <2> QED BY <2>1, <2>2 DEF Same, ProgramShape
<1>3. CASE p.item # 0
  <2>1. NextZero(q) = [q EXCEPT !.at = "unlock_zeroed", !.item = 0] BY <1>3 DEF NextZero
  <2>2. NextZero(q) \in ProgramShape BY <1>1, <2>1, Zenon DEF ProgramShape
  <2> QED BY <2>1, <2>2 DEF Same, ProgramShape
<1> QED BY <1>2, <1>3

\* The reading before each zero.
LEMMA UnlockZeroKeeps == IInv /\ UnlockZero => IInv'
<1> SUFFICES ASSUME IInv, UnlockZero PROVE IInv' OBVIOUS
<1>1. p.at = "unlock_zero" /\ p.at \in InUnlock /\ p.at \in Releasing
  BY DEF UnlockZero, InUnlock, Releasing
<1>2. /\ p.at \in Inside /\ p \in ProgramShape /\ Same(p) /\ Counted(p) /\ p.samples = 0
  BY <1>1, UnlockPlace
<1>3. p.item \in 0..1 BY <1>1, <1>2 DEF Counted
<1>4. PICK r \in Reads :
        /\ Read(r, 0)
        /\ p' = IF r.seen.ftst # 1 \/ ~BothReleased(r.seen)
                THEN [p EXCEPT !.at = "unlock_zeroed", !.item = 0]
                ELSE IF r.seen.target[p.item] # ZeroRpm THEN Goto(Noted(r.seen), "unlock_zero_write")
                ELSE NextZero(Noted(r.seen))
  BY Zenon DEF UnlockZero
<1>5. CalmTo(hw', late') /\ quiet' \in -1..10 * StableSeconds /\ pair' = BothReleased(r.seen)
  BY <1>4, ReadStep
<1>6. PICK q : q = Noted(r.seen) OBVIOUS
<1>7. q \in ProgramShape /\ Same(q) /\ q.ret = p.ret /\ q.samples = 0 /\ q.item = p.item
  BY <1>2, <1>6, SameNoted
<1>8. {"unlock_zero", "unlock_zeroed", "unlock_zero_write"}
        \subseteq InUnlock \ ({"unlock", "unlock_stable"} \cup UnlockAfterObserve)
  BY DEF InUnlock, UnlockAfterObserve
<1>9. CASE p' = [p EXCEPT !.at = "unlock_zeroed", !.item = 0]
  <2>1. "unlock_zeroed" \in Places /\ 0 \in 0..3 BY DEF Places, Labels
  <2>2. p' \in ProgramShape BY <1>2, <1>9, <2>1, Zenon DEF ProgramShape
  <2>3. Same(p') /\ p'.ret = p.ret /\ p'.samples = 0 /\ p'.item \in 0..1 /\ p'.at = "unlock_zeroed"
    BY <1>2, <1>9, <2>2 DEF Same, ProgramShape
  <2> QED BY <1>1, <1>5, <1>8, <2>3, UnlockGoesOn
<1>10. CASE BothReleased(r.seen) /\ p' = Goto(q, "unlock_zero_write")
  <2>1. "unlock_zero_write" \in InUnlock \ ({"unlock", "unlock_stable"} \cup UnlockAfterObserve)
    BY <1>8
  <2>2. q.item \in 0..1 /\ pair' BY <1>3, <1>5, <1>7, <1>10
  <2> QED BY <1>1, <1>5, <1>7, <1>10, <2>1, <2>2, UnlockGoto
<1>11. CASE p' = NextZero(q)
  <2>1. /\ Same(p') /\ p'.ret = q.ret /\ p'.samples = q.samples /\ p'.item \in 0..1
        /\ p'.at \in {"unlock_zero", "unlock_zeroed"}
    BY <1>3, <1>7, <1>11, NextZeroFields
  <2>2. p'.at \in InUnlock \ ({"unlock", "unlock_stable"} \cup UnlockAfterObserve) BY <1>8, <2>1
  <2> QED BY <1>1, <1>5, <1>7, <2>1, <2>2, UnlockGoesOn
<1> QED BY <1>4, <1>6, <1>9, <1>10, <1>11

\* A target is zeroed.
LEMMA UnlockZeroWriteKeeps == IInv /\ UnlockZeroWrite => IInv'
<1> SUFFICES ASSUME IInv, UnlockZeroWrite PROVE IInv' OBVIOUS
<1>1. p.at = "unlock_zero_write" /\ p.at \in InUnlock /\ p.at \in Releasing
  BY DEF UnlockZeroWrite, InUnlock, Releasing
<1>2. p \in ProgramShape /\ Same(p) /\ Counted(p) /\ p.samples = 0 BY <1>1, UnlockPlace
<1>3. p.item \in 0..1 BY <1>1, <1>2 DEF Counted
<1>4. PICK ok \in Answers : Write(Target(p.item, ZeroRpm), ok) BY DEF UnlockZeroWrite
<1>5. Target(p.item, ZeroRpm) \in Writes /\ ~Enabling(Target(p.item, ZeroRpm))
  BY <1>3 DEF Target, Writes, Enabling, ZeroRpm, Fans
<1>6. CalmTo(hw', late') /\ quiet' \in -1..10 * StableSeconds BY <1>4, <1>5, WriteStep
<1>7. p' = NextZero(p) BY DEF UnlockZeroWrite
<1>8. /\ Same(p') /\ p'.ret = p.ret /\ p'.samples = p.samples /\ p'.item \in 0..1
      /\ p'.at \in {"unlock_zero", "unlock_zeroed"}
  BY <1>2, <1>3, <1>7, NextZeroFields
<1>9. p'.at \in InUnlock \ ({"unlock", "unlock_stable"} \cup UnlockAfterObserve)
  BY <1>8 DEF InUnlock, UnlockAfterObserve
<1> QED BY <1>1, <1>2, <1>6, <1>8, <1>9, UnlockGoesOn

\* The reading after the zeroes.
LEMMA UnlockZeroedKeeps == IInv /\ UnlockZeroed => IInv'
<1> SUFFICES ASSUME IInv, UnlockZeroed PROVE IInv' OBVIOUS
<1>1. p.at = "unlock_zeroed" /\ p.at \in InUnlock /\ p.at \in Releasing
  BY DEF UnlockZeroed, InUnlock, Releasing
<1>2. p.at \in Inside /\ Same(p) /\ p.samples = 0 /\ "no" \in Values BY <1>1, UnlockPlace
<1>3. PICK r \in Reads :
        /\ Read(r, 0)
        /\ p' = IF ~Released(r.seen) THEN Return(p, "no")
                ELSE IF r.seen.ftst # 1 THEN Return(Noted(r.seen), "no")
                ELSE Goto(Noted(r.seen), "unlock_clear")
  BY Zenon DEF UnlockZeroed
<1>4. CalmTo(hw', late') /\ quiet' \in -1..10 * StableSeconds BY <1>3, ReadStep
<1>5. PICK q : q = Noted(r.seen) OBVIOUS
<1>6. Same(q) /\ q.ret = p.ret /\ q.samples = 0 BY <1>2, <1>5, SameNoted
<1>7. CASE \E c \in {p, q} : p' = Return(c, "no") BY <1>2, <1>4, <1>6, <1>7, ReturnKeeps
<1>8. CASE p' = Goto(q, "unlock_clear")
  <2>1. "unlock_clear" \in InUnlock \ ({"unlock", "unlock_stable"} \cup UnlockAfterObserve)
    BY DEF InUnlock, UnlockAfterObserve
  <2> QED BY <1>1, <1>4, <1>6, <1>8, <2>1, UnlockGoto
<1> QED BY <1>3, <1>5, <1>7, <1>8

\* Ftst is cleared.
LEMMA UnlockClearKeeps == IInv /\ UnlockClear => IInv'
<1> SUFFICES ASSUME IInv, UnlockClear PROVE IInv' OBVIOUS
<1>1. p.at = "unlock_clear" /\ p.at \in InUnlock /\ p.at \in Releasing
  BY DEF UnlockClear, InUnlock, Releasing
<1>2. Same(p) /\ p.samples = 0 BY <1>1, UnlockPlace
<1>3. PICK ok \in Answers : Write(Ftst(0), ok) BY DEF UnlockClear
<1>4. Ftst(0) \in Writes /\ ~Enabling(Ftst(0)) BY DEF Ftst, Writes, Enabling
<1>5. CalmTo(hw', late') /\ quiet' \in -1..10 * StableSeconds BY <1>3, <1>4, WriteStep
<1>6. p' = Goto(p, "unlock_cleared") BY DEF UnlockClear
<1>7. "unlock_cleared" \in InUnlock \ ({"unlock", "unlock_stable"} \cup UnlockAfterObserve)
  BY DEF InUnlock, UnlockAfterObserve
<1> QED BY <1>1, <1>2, <1>5, <1>6, <1>7, UnlockGoto

\* The loop of the last minute begins, or goes on with what has been counted.
LEMMA LoopKeeps ==
    ASSUME IInv, p.at \in InUnlock, CalmTo(hw', late'), quiet' \in -1..10 * StableSeconds,
           Same(p'), p'.ret = p.ret, p'.at = "unlock_stable",
           p'.samples > 0 => Covers(p.span)'
    PROVE  IInv'
<1>1. Shaped /\ p.at \in Inside BY UnlockPlace DEF IInv
<1>2. p'.at \in InUnlock BY DEF InUnlock
<1>3. Stacked(p') /\ Bottom(p') = Bottom(p) /\ p'.at \notin Early \cup {"done"}
  BY <1>1, <1>2, StayStack
<1>4. Counted(p') BY DEF Counted
<1>5. p'.at \notin {"observe", "unlock_zero_write"} \cup AfterObserve \cup AfterRestore \cup AfterUnlock
                    \cup UnlockAfterObserve \cup Releasing
  BY DEF AfterObserve, AfterRestore, AfterUnlock, UnlockAfterObserve, Releasing
<1> QED BY <1>1, <1>3, <1>4, <1>5, InsideKeeps

\* The readings that wait for Ftst to be clear.
LEMMA UnlockClearedKeeps == IInv /\ UnlockCleared => IInv'
<1> SUFFICES ASSUME IInv, UnlockCleared PROVE IInv' OBVIOUS
<1>1. p.at = "unlock_cleared" /\ p.at \in InUnlock /\ p.at \in Releasing
  BY DEF UnlockCleared, InUnlock, Releasing
<1>2. /\ p.at \in Inside /\ Same(p) /\ p.samples = 0 /\ p.tries \in Nat /\ p.second \in Nat
      /\ "no" \in Values
  BY <1>1, UnlockPlace
<1>3. PICK r \in Reads, slept \in Waits :
        /\ Read(r, 0)
        /\ p' = IF ~Released(r.seen) THEN Return(p, "no")
                ELSE IF r.seen.ftst = 0
                THEN [Noted(r.seen) EXCEPT !.at = "unlock_stable", !.second = 0, !.tries = 0]
                ELSE IF ~slept THEN Return(Noted(r.seen), "no")
                ELSE IF p.second + 1 < ReleaseWait THEN [Noted(r.seen) EXCEPT !.second = @ + 1]
                ELSE IF p.tries + 1 < ReleaseRetries
                THEN [Noted(r.seen) EXCEPT !.at = "unlock_clear", !.second = 0, !.tries = @ + 1]
                ELSE Return(Noted(r.seen), "no")
  BY Zenon DEF UnlockCleared
<1>4. CalmTo(hw', late') /\ quiet' \in -1..10 * StableSeconds BY <1>3, ReadStep
<1>5. PICK q : q = Noted(r.seen) OBVIOUS
<1>6. /\ q \in ProgramShape /\ Same(q) /\ q.ret = p.ret /\ q.at = p.at /\ q.samples = 0
      /\ q.second = p.second /\ q.tries = p.tries
  BY <1>2, <1>5, SameNoted
<1>7. /\ {"unlock_stable", "unlock_clear"} \subseteq Places
      /\ 0 \in Nat /\ p.second + 1 \in Nat /\ p.tries + 1 \in Nat
  BY <1>2 DEF Places, Labels
<1>8. CASE \E c \in {p, q} : p' = Return(c, "no") BY <1>2, <1>4, <1>6, <1>8, ReturnKeeps
<1>9. CASE p' = [q EXCEPT !.at = "unlock_stable", !.second = 0, !.tries = 0]
  <2>1. p' \in ProgramShape BY <1>6, <1>7, <1>9, Zenon DEF ProgramShape
  <2>2. Same(p') /\ p'.ret = p.ret /\ p'.at = "unlock_stable" /\ p'.samples = 0
    BY <1>6, <1>9, <2>1 DEF Same, ProgramShape
  <2> QED BY <1>1, <1>4, <2>2, LoopKeeps
<1>10. CASE p' = [q EXCEPT !.second = @ + 1]
  <2>1. p' = [q EXCEPT !.second = p.second + 1] BY <1>6, <1>10
  <2>2. p' \in ProgramShape BY <1>6, <1>7, <2>1, Zenon DEF ProgramShape
  <2>3. Same(p') /\ p'.ret = p.ret /\ p'.at = p.at /\ p'.samples = 0
    BY <1>6, <2>1, <2>2 DEF Same, ProgramShape
  <2>4. p'.at \in InUnlock \ ({"unlock", "unlock_stable"} \cup UnlockAfterObserve)
    BY <1>1, <2>3 DEF UnlockAfterObserve
  <2> QED BY <1>1, <1>4, <2>3, <2>4, UnlockGoesOn
<1>11. CASE p' = [q EXCEPT !.at = "unlock_clear", !.second = 0, !.tries = @ + 1]
  <2>1. p' = [q EXCEPT !.at = "unlock_clear", !.second = 0, !.tries = p.tries + 1] BY <1>6, <1>11
  <2>2. p' \in ProgramShape BY <1>6, <1>7, <2>1, Zenon DEF ProgramShape
  <2>3. Same(p') /\ p'.ret = p.ret /\ p'.at = "unlock_clear" /\ p'.samples = 0
    BY <1>6, <2>1, <2>2 DEF Same, ProgramShape
  <2>4. p'.at \in InUnlock \ ({"unlock", "unlock_stable"} \cup UnlockAfterObserve)
    BY <2>3 DEF InUnlock, UnlockAfterObserve
  <2> QED BY <1>1, <1>4, <2>3, <2>4, UnlockGoesOn
<1> QED BY <1>3, <1>5, <1>8, <1>9, <1>10, <1>11

\* The minute starts again after the fallback.
LEMMA UnlockFallbackKeeps == IInv /\ UnlockFallback => IInv'
<1> SUFFICES ASSUME IInv, UnlockFallback PROVE IInv' OBVIOUS
<1>1. p.at = "unlock_fallback" /\ p.at \in InUnlock
  BY DEF UnlockFallback, InUnlock, UnlockAfterRestore
<1>2. p.at \in Inside /\ p \in ProgramShape /\ Same(p) /\ p.samples = 0 /\ "no" \in Values
  BY <1>1, UnlockPlace
<1>3. NoAccess BY DEF UnlockFallback
<1>4. CalmTo(hw', late') /\ quiet' \in -1..10 * StableSeconds BY <1>3, NoAccessStep
<1>5. CASE p' = Return(p, "no") BY <1>1, <1>2, <1>4, <1>5, ReturnKeeps
<1>6. CASE p' = [p EXCEPT !.at = "unlock_stable", !.second = FallbackSecond + 1]
  <2>1. "unlock_stable" \in Places BY DEF Places, Labels
  <2>2. FallbackSecond + 1 \in Nat BY RecoveryAssumption
  <2>3. p' \in ProgramShape BY <1>2, <1>6, <2>1, <2>2, Zenon DEF ProgramShape
  <2>4. Same(p') /\ p'.ret = p.ret /\ p'.at = "unlock_stable" /\ p'.samples = 0
    BY <1>2, <1>6, <2>3 DEF Same, ProgramShape
  <2> QED BY <1>1, <1>4, <2>4, LoopKeeps
<1> QED BY <1>5, <1>6 DEF UnlockFallback

\* One sample of the last minute: what is counted has been seen.
LEMMA UnlockStableKeeps == IInv /\ UnlockStable => IInv'
<1> SUFFICES ASSUME IInv, UnlockStable PROVE IInv' OBVIOUS
<1>1. p.at = "unlock_stable" /\ p.at \in InUnlock BY DEF UnlockStable, InUnlock
<1>2. /\ p.at \in Inside /\ p \in ProgramShape /\ Same(p) /\ p.samples \in Nat /\ p.span \in Nat
      /\ p.second \in Nat /\ p.delayed \in BOOLEAN /\ {"yes", "no"} \subseteq Values
  BY <1>1, UnlockPlace
<1>3. PICK r \in Reads, gap \in Gaps, slept \in Waits :
        LET q == Sampled(r.seen, gap) IN
        /\ Read(r, gap)
        /\ p' = IF r.seen.ftst # 0 \/ ~Released(r.seen) \/ ~TimingValid(p.fresh, gap)
                THEN Return(p, "no")
                ELSE IF StableEnough(q) THEN ReturnTruth(q, ~p.delayed)
                ELSE IF p.second = FallbackSecond /\ BothReleased(r.seen)
                THEN Call(q, "restore", "unlock_fallback")
                ELSE IF p.second = BaselineWait \/ ~slept THEN Return(q, "no")
                ELSE [q EXCEPT !.second = @ + 1]
  BY Zenon DEF UnlockStable
<1>4. gap \in Nat BY GapsAreNat
<1>5. CalmTo(hw', late') /\ quiet' \in -1..10 * StableSeconds BY <1>3, <1>4, ReadStep
<1>6. PICK q : q = Sampled(r.seen, gap) OBVIOUS
<1>7. PICK samples, span :
        /\ samples = IF Baseline(r.seen) THEN p.samples + 1 ELSE 0
        /\ span = IF Baseline(r.seen) /\ p.samples > 0 THEN p.span + gap ELSE 0
  OBVIOUS
<1>8. samples \in Nat /\ span \in Nat BY <1>2, <1>4, <1>7
<1>9. /\ q \in ProgramShape /\ Same(q) /\ q.ret = p.ret /\ q.at = p.at /\ q.second = p.second
      /\ q.samples = samples /\ q.span = span
  <2>1. PICK n : n = Noted(r.seen) OBVIOUS
  <2>2. /\ n \in ProgramShape /\ Same(n) /\ n.ret = p.ret /\ n.at = p.at /\ n.second = p.second
        /\ n.samples = p.samples /\ n.span = p.span
    BY <2>1, SameNoted
  <2>3. q = [n EXCEPT !.samples = samples, !.span = span, !.fresh = FALSE]
    BY <1>6, <1>7, <2>1, <2>2 DEF Sampled
  <2>4. q \in ProgramShape BY <1>8, <2>2, <2>3, Zenon DEF ProgramShape
  <2> QED BY <2>2, <2>3, <2>4 DEF Same, ProgramShape
<1>10. samples > 0 => Covers(span)'
  <2>1. /\ Baseline(r.seen) => Covers(0)'
        /\ \A s \in Nat : Baseline(r.seen) /\ Covers(s) => Covers(s + gap)'
    BY <1>3, <1>4, ReadQuiet DEF IInv
  <2>2. p.samples > 0 => Covers(p.span) BY <1>1 DEF IInv, MinuteIsSeen
  <2> QED BY <1>2, <1>7, <2>1, <2>2
<1>11. CASE \E c \in {p, q} : p' = Return(c, "no") BY <1>1, <1>2, <1>5, <1>9, <1>11, ReturnKeeps
<1>12. CASE StableEnough(q) /\ p' = ReturnTruth(q, ~p.delayed)
  <2>1. StableSeconds \in Nat \ {0} BY RecoveryAssumption
  <2>2. samples > StableSeconds /\ span >= 10 * StableSeconds BY <1>9, <1>12 DEF StableEnough
  <2>3. WholeMinute'
    <3>1. quiet' >= span \/ WholeMinute' BY <1>8, <1>10, <2>1, <2>2 DEF Covers
    <3> QED BY <1>5, <1>8, <2>1, <2>2, <3>1 DEF WholeMinute
  <2>4. PICK v : v = IF ~p.delayed THEN "yes" ELSE "no" OBVIOUS
  <2>5. p' = Return(q, v) /\ v \in Values /\ v # "stable" BY <1>2, <1>12, <2>4 DEF ReturnTruth
  <2> QED BY <1>1, <1>2, <1>5, <1>9, <2>3, <2>5, ReturnKeeps
<1>13. CASE p' = Call(q, "restore", "unlock_fallback")
  <2>1. "unlock_fallback" \in UnlockAfterRestore BY DEF UnlockAfterRestore
  <2> QED BY <1>1, <1>5, <1>9, <1>13, <2>1, CallKeeps
<1>14. CASE p' = [q EXCEPT !.second = @ + 1]
  <2>1. p' = [q EXCEPT !.second = p.second + 1] /\ p.second + 1 \in Nat BY <1>2, <1>9, <1>14
  <2>2. p' \in ProgramShape BY <1>9, <2>1, Zenon DEF ProgramShape
  <2>3. Same(p') /\ p'.ret = p.ret /\ p'.at = p.at /\ p'.samples = samples /\ p'.span = span
    BY <1>9, <2>1, <2>2 DEF Same, ProgramShape
  <2>4. p'.samples > 0 => Covers(p.span)' BY <1>10, <2>3 DEF Covers, WholeMinute
  <2> QED BY <1>1, <1>5, <2>3, <2>4, LoopKeeps
<1> QED BY <1>3, <1>6, <1>11, <1>12, <1>13, <1>14

\* Every step of the three procedures preserves the invariant.
LEMMA RecoveryKeeps == IInv /\ RecoveryStep => IInv'
BY ObserveKeeps, RestoreReadKeeps, RestoreWriteKeeps, RestoreVerifyKeeps, UnlockReadKeeps,
   UnlockRereadKeeps, UnlockResumeKeeps, UnlockReleaseKeeps, UnlockCheckKeeps, UnlockZeroKeeps,
   UnlockZeroWriteKeeps, UnlockZeroedKeeps, UnlockClearKeeps, UnlockClearedKeeps,
   UnlockStableKeeps, UnlockFallbackKeeps
   DEF RecoveryStep

-----------------------------------------------------------------------------
(* Steps of the entry points.                                              *)

\* Outside the procedures nothing has been called and there is no verdict yet.
LEMMA EntryPlace ==
    ASSUME IInv, p.at \notin Inside \cup {"done"}
    PROVE  /\ p \in ProgramShape /\ PlacesOf(p.entry, p.at) /\ p.ret = << >>
           /\ p.status = "running" /\ p.samples = 0 /\ Bottom(p) = p.at
<1>1. Shaped BY DEF IInv
<1>2. p.at \notin InUnlock \cup InRestore \cup {"observe"} BY DEF Inside
<1>3. PlacesOf(p.entry, p.at) /\ p.ret = << >> BY <1>1, <1>2 DEF Shaped, Stacked
<1>4. p.at # "unlock_stable" BY <1>2 DEF InUnlock
<1> QED BY <1>1, <1>3, <1>4 DEF Shaped, Answered, Counted, Bottom

\* Where a step of an entry point may leave the program; the rest is what it has to
\* have seen to do so.
LEMMA EntryKeeps ==
    ASSUME SmcInv', EnablesItsOwn', EffectIsOpen', quiet' \in -1..10 * StableSeconds,
           p' \in ProgramShape, Stacked(p'), Counted(p'),
           p'.at \notin Releasing \cup {"check", "rehearse", "unlock_stable"},
           p'.at \notin AfterObserve \cup AfterRestore \cup AfterUnlock \cup UnlockAfterObserve,
           p'.at = "observe" => p'.second = 0,
           p'.at = "done" => p'.rv = "none",
           Settled(p') => \A w \in late' : ~Enabling(w),
           p'.at \in {"direct", "direct_target"} => ~p'.goal,
           p'.at = "ftst_enable" => ~p'.unlocked,
           \/ p'.status = "running"
           \/ /\ p'.at = "done" /\ VerdictIsWitnessed' /\ NothingPendingBehindSuccess'
              /\ RejectedWroteNothing'
    PROVE  IInv'
<1>1. VerdictIsWitnessed' /\ NothingPendingBehindSuccess' /\ RejectedWroteNothing'
  BY DEF VerdictIsWitnessed, NothingPendingBehindSuccess, RejectedWroteNothing
<1>2. Shaped' BY DEF Shaped, Answered
<1>3. MinuteIsSeen'
  <2>1. ~(p'.at = "observe" /\ p'.second > 0) OBVIOUS
  <2> QED BY <1>1, <2>1 DEF MinuteIsSeen
<1>4. NothingYet' BY DEF NothingYet
<1>5. PairIsRead' /\ ReleasedStays' BY DEF PairIsRead, ReleasedStays, Releasing
<1>6. SettledIsOver' BY <1>1 DEF SettledIsOver
<1> QED BY <1>1, <1>2, <1>3, <1>4, <1>5, <1>6 DEF IInv

\* The places behind which a check has read the effect of its write
CheckedBehind == {"check_restored", "check_last_look", "check_after", "check_again", "check_again_after"}

\* The same for a program whose entry point is at, or waits at, a place
SettledAt(q, place) ==
    \/ q.entry = "direct" /\ q.goal
    \/ q.entry = "rehearse" /\ q.unlocked
    \/ q.entry = "check" /\ q.ok /\ place \in CheckedBehind

\* An entry point calls a procedure.
LEMMA EntryCall ==
    ASSUME SmcInv', EnablesItsOwn', quiet' \in -1..10 * StableSeconds,
           NEW q \in ProgramShape, q.ret = << >>, q.status = "running",
           NEW procedure, NEW b, p' = Call(q, procedure, b), PlacesOf(q.entry, b),
           \/ procedure = "observe" /\ b \in AfterObserve
           \/ procedure = "restore" /\ b \in AfterRestore
           \/ procedure = "unlock" /\ b \in AfterUnlock,
           SettledAt(q, b) => \A w \in late' : ~Enabling(w)
    PROVE  IInv'
<1>1. procedure \in Places /\ b \in Places BY ReturnPlaces DEF Places, Labels
<1>2. /\ p' \in ProgramShape
      /\ p'.at = procedure /\ p'.ret = <<b>> \o q.ret
      /\ p'.second = 0 /\ p'.span = 0 /\ p'.samples = 0 /\ p'.tries = 0 /\ p'.item = 0
      /\ p'.entry = q.entry /\ p'.status = q.status /\ p'.ok = q.ok /\ p'.goal = q.goal
      /\ p'.unlocked = q.unlocked
  BY <1>1, CallFields
<1>3. p'.ret = <<b>> BY <1>1, <1>2, StackOps
<1>4. Stacked(p') BY <1>2, <1>3 DEF Stacked, InRestore, InUnlock
<1>5. Bottom(p') = b BY <1>1, <1>3, StackOps DEF Bottom
<1>6. Counted(p')
  <2>1. 0 + 1 <= ReleaseRetries BY RecoveryAssumption
  <2> QED BY <1>2, <2>1 DEF Counted
<1>7. /\ p'.at \notin Releasing \cup {"check", "rehearse", "unlock_stable", "direct",
                                      "direct_target", "ftst_enable", "done"}
      /\ p'.at \notin AfterObserve \cup AfterRestore \cup AfterUnlock \cup UnlockAfterObserve
      /\ p'.at \notin Early
  BY <1>2 DEF Releasing, AfterObserve, AfterRestore, AfterUnlock, UnlockAfterObserve, Early
<1>8. EffectIsOpen' BY <1>7 DEF EffectIsOpen
<1>9. Settled(p') => \A w \in late' : ~Enabling(w)
  BY <1>2, <1>5 DEF Settled, SettledAt, CheckedBehind
<1> QED BY <1>2, <1>4, <1>6, <1>7, <1>8, <1>9, EntryKeeps

\* An entry point gives its verdict.
LEMMA EntryFinish ==
    ASSUME SmcInv', EnablesItsOwn', quiet' \in -1..10 * StableSeconds,
           NEW q \in ProgramShape, q.ret = << >>, q.samples = 0,
           NEW status \in Verdicts, p' = Finish(q, status),
           status \in {"SUCCEEDED", "CONTROL_FAILED_SYSTEM_VERIFIED", "WRITE_EFFECT_UNVERIFIED",
                       "RESTORED"} => WholeMinute',
           status = "SUCCEEDED" \/ (q.entry = "direct" /\ status = "CONTROL_FAILED_SYSTEM_VERIFIED")
             => \A w \in late' : ~Enabling(w),
           status = "BASELINE_REJECTED" => ~wrote' /\ late' = {},
           SettledAt(q, "done") => \A w \in late' : ~Enabling(w)
    PROVE  IInv'
<1>1. /\ p' \in ProgramShape /\ p'.at = "done" /\ p'.ret = << >> /\ p'.rv = "none"
      /\ p'.status = status /\ p'.samples = 0 /\ p'.entry = q.entry /\ p'.ok = q.ok
      /\ p'.goal = q.goal /\ p'.unlocked = q.unlocked
  BY FinishFields
<1>2. Stacked(p') /\ Counted(p') /\ Bottom(p') = "done" BY <1>1 DEF Stacked, Counted, Bottom
<1>3. /\ p'.at \notin Releasing \cup {"check", "rehearse", "unlock_stable"}
      /\ p'.at \notin AfterObserve \cup AfterRestore \cup AfterUnlock \cup UnlockAfterObserve
      /\ p'.at \notin Early
  BY <1>1 DEF Releasing, AfterObserve, AfterRestore, AfterUnlock, UnlockAfterObserve, Early
<1>4. EffectIsOpen' BY <1>3 DEF EffectIsOpen
<1>5. Settled(p') => \A w \in late' : ~Enabling(w)
  BY <1>1, <1>2 DEF Settled, SettledAt, CheckedBehind
<1>6. VerdictIsWitnessed' /\ NothingPendingBehindSuccess' /\ RejectedWroteNothing'
  BY <1>1 DEF VerdictIsWitnessed, WholeMinute, NothingPendingBehindSuccess, RejectedWroteNothing
<1> QED BY <1>1, <1>2, <1>3, <1>4, <1>5, <1>6, EntryKeeps

\* Where an entry point goes by itself
OwnPlaces == {"direct", "direct_target", "direct_read", "direct_hold", "ftst_enable", "check_effect",
              "check_release", "rehearse_watch"}

\* An entry point goes on.
LEMMA EntryStays ==
    ASSUME SmcInv', EnablesItsOwn', EffectIsOpen', quiet' \in -1..10 * StableSeconds,
           p' \in ProgramShape, p'.ret = << >>, p'.status = "running", p'.samples = 0,
           p'.at \in OwnPlaces, PlacesOf(p'.entry, p'.at),
           p'.at \in {"direct", "direct_target"} => p'.item \in 0..1 /\ ~p'.goal,
           p'.at = "ftst_enable" => ~p'.unlocked,
           SettledAt(p', p'.at) => \A w \in late' : ~Enabling(w)
    PROVE  IInv'
<1>1. Stacked(p') /\ Bottom(p') = p'.at BY DEF Stacked, Bottom
<1>2. Counted(p') BY DEF Counted, OwnPlaces
<1>3. /\ p'.at \notin Releasing \cup {"check", "rehearse", "unlock_stable"}
      /\ p'.at \notin AfterObserve \cup AfterRestore \cup AfterUnlock \cup UnlockAfterObserve
      /\ p'.at \notin {"observe", "done"}
  BY DEF Releasing, AfterObserve, AfterRestore, AfterUnlock, UnlockAfterObserve, OwnPlaces
<1>4. Settled(p') => \A w \in late' : ~Enabling(w)
  BY <1>1 DEF Settled, SettledAt, CheckedBehind
<1> QED BY <1>1, <1>2, <1>3, <1>4, EntryKeeps

\* What a calm step leaves true of the SMC.
LEMMA CalmEntry ==
    ASSUME IInv, CalmTo(hw', late'), p'.entry = p.entry
    PROVE  /\ SmcInv' /\ EnablesItsOwn'
           /\ (\A w \in late : ~Enabling(w)) => (\A w \in late' : ~Enabling(w))
<1>1. \A w \in late' : Enabling(w) => w \in late /\ w \in Writes BY DEF CalmTo
<1> QED BY <1>1 DEF CalmTo, SmcInv, EnablesItsOwn, IInv

\* A calm step keeps the effect of the writes open.
LEMMA CalmOpen ==
    ASSUME IInv, CalmTo(hw', late'), p.at \in Early
    PROVE  \A w \in late' : Enabling(w) => w \in Writes /\ w \in late /\ ~Shows(hw, w) /\ ~Shows(hw', w)
BY DEF CalmTo, IInv, EffectIsOpen

\* An enabling write, whatever becomes of it: it is late and does not show, or it is
\* not late; the others are as before.
LEMMA EnablingWrite ==
    ASSUME IInv, p.at \in Early, NEW w \in ToWrite(p), NEW ok, Write(w, ok),
           (w.key = "ftst") = (p.entry # "direct"), p'.entry = p.entry
    PROVE  /\ SmcInv' /\ EnablesItsOwn' /\ quiet' \in -1..10 * StableSeconds
           /\ \A v \in late' : Enabling(v) => ~Shows(hw', v)
           /\ \A v \in ToWrite(p) \ {w} : v \notin late' /\ ~Shows(hw', v)
<1>1. \A v \in ToWrite(p) : v \in Writes /\ Enabling(v)
  BY DEF ToWrite, EnablingWrites, Ftst, Writes, Enabling
<1>2. quiet' \in -1..10 * StableSeconds
  <2>1. quiet' = -1 BY DEF Write
  <2>2. StableSeconds \in Nat BY RecoveryAssumption
  <2> QED BY <2>1, <2>2
<1>3. /\ \A v \in late : v \in Writes /\ (Enabling(v) => ~Shows(hw, v))
      /\ \A v \in ToWrite(p) : v \notin late /\ ~Shows(hw, v)
      /\ hw \in Observation
      /\ \A v \in late : Enabling(v) => (v.key = "ftst") = (p.entry # "direct")
  BY DEF IInv, EffectIsOpen, SmcInv, EnablesItsOwn
<1>4. /\ Landed(hw, w) \in Observation
      /\ \A v \in Writes : Shows(Landed(hw, w), v) => v = w \/ Shows(hw, v)
  BY <1>1, <1>3, LandedShows
<1>5. \/ hw' = Landed(hw, w) /\ late' = late
      \/ hw' = hw /\ late' = late
      \/ hw' = hw /\ late' = late \cup {w}
  BY DEF Write, WriteKey
<1>6. SmcInv' BY <1>1, <1>3, <1>4, <1>5 DEF SmcInv
<1>7. EnablesItsOwn' BY <1>3, <1>5 DEF EnablesItsOwn
<1>8. \A v \in late' : Enabling(v) => ~Shows(hw', v) BY <1>1, <1>3, <1>4, <1>5
<1>9. \A v \in ToWrite(p) \ {w} : v \notin late' /\ ~Shows(hw', v) BY <1>1, <1>3, <1>4, <1>5
<1> QED BY <1>2, <1>6, <1>7, <1>8, <1>9

-----------------------------------------------------------------------------
(* trial_execute_direct *)

\* The direct trial gives the fans back.
LEMMA GiveBackKeeps ==
    ASSUME SmcInv', EnablesItsOwn', quiet' \in -1..10 * StableSeconds,
           NEW q \in ProgramShape, q.ret = << >>, q.status = "running", q.entry = "direct",
           q.goal => \A w \in late' : ~Enabling(w),
           NEW ok \in BOOLEAN, p' = Call([q EXCEPT !.ok = ok], "restore", "direct_restored")
    PROVE  IInv'
<1>1. PICK c : c = [q EXCEPT !.ok = ok] OBVIOUS
<1>2. /\ c \in ProgramShape /\ c.ret = << >> /\ c.status = "running" /\ c.entry = "direct"
      /\ c.goal = q.goal
  BY <1>1 DEF ProgramShape
<1>3. "direct_restored" \in AfterRestore /\ PlacesOf(c.entry, "direct_restored")
  BY <1>2 DEF AfterRestore, PlacesOf, DirectPlaces
<1>4. SettledAt(c, "direct_restored") => \A w \in late' : ~Enabling(w) BY <1>2 DEF SettledAt
<1> QED BY <1>1, <1>2, <1>3, <1>4, EntryCall

\* The entry of a call is that of its caller.
LEMMA GiveBackEntry ==
    ASSUME NEW q \in ProgramShape, NEW ok \in BOOLEAN
    PROVE  Call([q EXCEPT !.ok = ok], "restore", "direct_restored").entry = q.entry
<1>1. PICK c : c = [q EXCEPT !.ok = ok] OBVIOUS
<1>2. c \in ProgramShape /\ c.entry = q.entry BY <1>1 DEF ProgramShape
<1>3. "restore" \in Places /\ "direct_restored" \in Places BY DEF Places, Labels
<1>4. Call(c, "restore", "direct_restored").entry = c.entry BY <1>2, <1>3, CallFields
<1> QED BY <1>1, <1>2, <1>4

\* What every step of the direct trial starts from.
LEMMA DirectPlace ==
    ASSUME IInv, p.at \in {"direct", "direct_target", "direct_read", "direct_hold"}
    PROVE  /\ p \in ProgramShape /\ p.entry = "direct" /\ p.ret = << >> /\ p.status = "running"
           /\ p.samples = 0
           /\ p.at \in {"direct", "direct_target"} => ~p.goal /\ p.item \in 0..1
           /\ p.goal => \A w \in late : ~Enabling(w)
<1>1. p.at \notin Inside \cup {"done"}
  BY DEF Inside, InRestore, InUnlock, UnlockAfterObserve, UnlockAfterRestore
<1>2. /\ p \in ProgramShape /\ PlacesOf(p.entry, p.at) /\ p.ret = << >> /\ p.status = "running"
      /\ p.samples = 0
  BY <1>1, EntryPlace
<1>3. p.entry = "direct"
  BY <1>2 DEF PlacesOf, CheckPlaces, RehearsePlaces, CommandPlaces
<1>4. p.at \in {"direct", "direct_target"} => ~p.goal /\ p.item \in 0..1
  BY DEF IInv, SettledIsOver, Shaped, Counted
<1>5. p.goal => \A w \in late : ~Enabling(w) BY <1>3 DEF IInv, SettledIsOver, Settled
<1> QED BY <1>2, <1>3, <1>4, <1>5

\* A fan is switched to manual.
LEMMA DirectModeKeeps == IInv /\ DirectMode => IInv'
<1> SUFFICES ASSUME IInv, DirectMode PROVE IInv' OBVIOUS
<1>1. p.at = "direct" /\ p.at \in Early BY DEF DirectMode, Early
<1>2. /\ p \in ProgramShape /\ p.entry = "direct" /\ p.ret = << >> /\ p.status = "running"
      /\ p.samples = 0 /\ ~p.goal /\ p.item \in 0..1
  BY <1>1, DirectPlace
<1>3. GiveBack(p) = Call([p EXCEPT !.ok = FALSE], "restore", "direct_restored") BY DEF GiveBack
<1>4. GiveBack(p).entry = p.entry BY <1>2, <1>3, GiveBackEntry
<1>5. CASE p' = GiveBack(p) /\ NoAccess
  <2>1. CalmTo(hw', late') /\ quiet' \in -1..10 * StableSeconds BY <1>5, NoAccessStep
  <2>2. SmcInv' /\ EnablesItsOwn' BY <1>4, <1>5, <2>1, CalmEntry
  <2> QED BY <1>2, <1>3, <1>5, <2>1, <2>2, GiveBackKeeps
<1>6. CASE ~(p' = GiveBack(p) /\ NoAccess)
  <2>1. PICK ok \in Answers :
          /\ Write(Mode(p.item, 1), ok)
          /\ p' = IF ok THEN Goto(p, "direct_target") ELSE GiveBack(p)
    BY <1>6, Zenon DEF DirectMode
  <2>2. PICK w : w = Mode(p.item, 1) OBVIOUS
  <2>3. w \in ToWrite(p) /\ w.key # "ftst"
    <3>1. w \in EnablingWrites /\ w.key # "ftst" /\ w.fan = p.item
      BY <1>2, <2>2 DEF Mode, EnablingWrites, Writes, Enabling, Fans
    <3> QED BY <1>1, <1>2, <3>1 DEF ToWrite
  <2>4. "direct_target" \in Places BY DEF Places, Labels
  <2>5. p'.entry = p.entry BY <1>2, <1>4, <2>1, <2>4, GotoFields
  <2>6. /\ SmcInv' /\ EnablesItsOwn' /\ quiet' \in -1..10 * StableSeconds
        /\ \A v \in late' : Enabling(v) => ~Shows(hw', v)
        /\ \A v \in ToWrite(p) \ {w} : v \notin late' /\ ~Shows(hw', v)
    BY <1>1, <1>2, <2>1, <2>2, <2>3, <2>5, EnablingWrite
  <2>7. CASE p' = GiveBack(p) BY <1>2, <1>3, <2>6, <2>7, GiveBackKeeps
  <2>8. CASE p' = Goto(p, "direct_target")
    <3>1. /\ p' \in ProgramShape /\ p'.at = "direct_target" /\ p'.ret = << >> /\ p'.samples = 0
          /\ p'.item = p.item /\ p'.entry = "direct" /\ p'.status = "running" /\ p'.goal = p.goal
      BY <1>2, <2>4, <2>8, GotoFields
    <3>2. ToWrite(p') = ToWrite(p) \ {w} BY <1>1, <2>2, <3>1 DEF ToWrite
    <3>3. EffectIsOpen' BY <2>6, <3>2 DEF EffectIsOpen
    <3>4. PlacesOf(p'.entry, p'.at) /\ p'.at \in OwnPlaces
      BY <3>1 DEF PlacesOf, DirectPlaces, OwnPlaces
    <3>5. ~SettledAt(p', p'.at) BY <1>2, <3>1 DEF SettledAt
    <3> QED BY <1>2, <2>6, <3>1, <3>3, <3>4, <3>5, EntryStays
  <2> QED BY <2>1, <2>7, <2>8
<1> QED BY <1>5, <1>6

\* A fan is given its target.
LEMMA DirectTargetKeeps == IInv /\ DirectTarget => IInv'
<1> SUFFICES ASSUME IInv, DirectTarget PROVE IInv' OBVIOUS
<1>1. p.at = "direct_target" /\ p.at \in Early BY DEF DirectTarget, Early
<1>2. /\ p \in ProgramShape /\ p.entry = "direct" /\ p.ret = << >> /\ p.status = "running"
      /\ p.samples = 0 /\ ~p.goal /\ p.item \in 0..1
  BY <1>1, DirectPlace
<1>3. GiveBack(p) = Call([p EXCEPT !.ok = FALSE], "restore", "direct_restored") BY DEF GiveBack
<1>4. GiveBack(p).entry = p.entry BY <1>2, <1>3, GiveBackEntry
<1>5. PICK ok \in Answers, inTime \in InTime :
        /\ Write(Target(p.item, PlanRpm), ok)
        /\ p' = IF ~ok \/ ~inTime THEN GiveBack(p)
                ELSE IF p.item = 0 THEN [p EXCEPT !.at = "direct", !.item = 1]
                ELSE Goto(p, "direct_read")
  BY Zenon DEF DirectTarget
<1>6. PICK w : w = Target(p.item, PlanRpm) OBVIOUS
<1>7. w \in ToWrite(p) /\ w.key # "ftst" /\ w.fan = p.item
  <2>1. w \in EnablingWrites /\ w.key # "ftst" /\ w.fan = p.item /\ w # Mode(p.item, 1)
    BY <1>2, <1>6 DEF Target, Mode, EnablingWrites, Writes, Enabling, PlanRpm, Fans
  <2> QED BY <1>1, <1>2, <2>1 DEF ToWrite
<1>8. {"direct", "direct_read"} \subseteq Places /\ 1 \in 0..3 BY DEF Places, Labels
<1>9. \/ p' = GiveBack(p)
      \/ p.item = 0 /\ p' = [p EXCEPT !.at = "direct", !.item = 1]
      \/ p' = Goto(p, "direct_read")
  BY <1>5
<1>10. ASSUME p' = [p EXCEPT !.at = "direct", !.item = 1]
       PROVE  /\ p' \in ProgramShape /\ p'.at = "direct" /\ p'.ret = << >> /\ p'.samples = 0
              /\ p'.item = 1 /\ p'.entry = "direct" /\ p'.status = "running" /\ p'.goal = p.goal
  <2>1. p' \in ProgramShape BY <1>2, <1>8, <1>10, Zenon DEF ProgramShape
  <2> QED BY <1>2, <1>10, <2>1 DEF ProgramShape
<1>11. ASSUME p' = Goto(p, "direct_read")
       PROVE  /\ p' \in ProgramShape /\ p'.at = "direct_read" /\ p'.ret = << >> /\ p'.samples = 0
              /\ p'.entry = "direct" /\ p'.status = "running" /\ p'.goal = p.goal
  BY <1>2, <1>8, <1>11, GotoFields
<1>12. p'.entry = p.entry BY <1>2, <1>4, <1>9, <1>10, <1>11
<1>13. /\ SmcInv' /\ EnablesItsOwn' /\ quiet' \in -1..10 * StableSeconds
       /\ \A v \in late' : Enabling(v) => ~Shows(hw', v)
       /\ \A v \in ToWrite(p) \ {w} : v \notin late' /\ ~Shows(hw', v)
  BY <1>1, <1>2, <1>5, <1>6, <1>7, <1>12, EnablingWrite
<1>14. CASE p' = GiveBack(p) BY <1>2, <1>3, <1>13, <1>14, GiveBackKeeps
<1>15. CASE p.item = 0 /\ p' = [p EXCEPT !.at = "direct", !.item = 1]
  <2>1. ToWrite(p') \subseteq ToWrite(p) \ {w}
    <3>1. ToWrite(p') = {v \in EnablingWrites : v.key # "ftst" /\ v.fan >= 1}
      BY <1>10, <1>15 DEF ToWrite
    <3>2. ToWrite(p) = {v \in EnablingWrites : v.key # "ftst" /\ v.fan >= 0} \ {Mode(0, 1)}
      BY <1>1, <1>15 DEF ToWrite
    <3>3. \A v \in EnablingWrites : v.fan \in 0..1 BY DEF EnablingWrites, Writes, Fans
    <3>4. Mode(0, 1).fan = 0 BY DEF Mode
    <3> QED BY <1>7, <1>15, <3>1, <3>2, <3>3, <3>4
  <2>2. EffectIsOpen' BY <1>13, <2>1 DEF EffectIsOpen
  <2>3. PlacesOf(p'.entry, p'.at) /\ p'.at \in OwnPlaces
    BY <1>10, <1>15 DEF PlacesOf, DirectPlaces, OwnPlaces
  <2>4. ~SettledAt(p', p'.at) BY <1>2, <1>10, <1>15 DEF SettledAt
  <2> QED BY <1>2, <1>10, <1>13, <1>15, <2>2, <2>3, <2>4, EntryStays
<1>16. CASE p' = Goto(p, "direct_read")
  <2>1. ToWrite(p') = {} BY <1>11, <1>16 DEF ToWrite
  <2>2. EffectIsOpen' BY <1>13, <2>1 DEF EffectIsOpen
  <2>3. PlacesOf(p'.entry, p'.at) /\ p'.at \in OwnPlaces
    BY <1>11, <1>16 DEF PlacesOf, DirectPlaces, OwnPlaces
  <2>4. ~SettledAt(p', p'.at) BY <1>2, <1>11, <1>16 DEF SettledAt
  <2> QED BY <1>2, <1>11, <1>13, <1>16, <2>2, <2>3, <2>4, EntryStays
<1> QED BY <1>9, <1>14, <1>15, <1>16

\* The reading that shows manual control: every write has taken effect.
LEMMA DirectReadKeeps == IInv /\ DirectRead => IInv'
<1> SUFFICES ASSUME IInv, DirectRead PROVE IInv' OBVIOUS
<1>1. p.at = "direct_read" /\ p.at \in Early BY DEF DirectRead, Early
<1>2. /\ p \in ProgramShape /\ p.entry = "direct" /\ p.ret = << >> /\ p.status = "running"
      /\ p.samples = 0
  BY <1>1, DirectPlace
<1>3. PICK r \in Reads, safe \in Temperatures, inTime \in InTime :
        LET q == [p EXCEPT !.goal = Manual(r.seen) /\ safe] IN
        /\ Read(r, 0)
        /\ p' = IF q.goal /\ inTime THEN [q EXCEPT !.at = "direct_hold", !.second = 1, !.item = 0]
                ELSE GiveBack(q)
  BY Zenon DEF DirectRead
<1>4. CalmTo(hw', late') /\ quiet' \in -1..10 * StableSeconds BY <1>3, ReadStep
<1>5. PICK q : q = [p EXCEPT !.goal = Manual(r.seen) /\ safe] OBVIOUS
<1>6. /\ q \in ProgramShape /\ q.entry = "direct" /\ q.ret = << >> /\ q.status = "running"
      /\ q.samples = 0 /\ q.goal = (Manual(r.seen) /\ safe)
  <2>1. (Manual(r.seen) /\ safe) \in BOOLEAN OBVIOUS
  <2>2. q \in ProgramShape BY <1>2, <1>5, <2>1, Zenon DEF ProgramShape
  <2> QED BY <1>2, <1>5, <2>1, <2>2 DEF ProgramShape
<1>7. q.goal => \A w \in late' : ~Enabling(w)
  <2> SUFFICES ASSUME Manual(r.seen), NEW w \in late', Enabling(w) PROVE FALSE BY <1>6
  <2>1. w \in Writes /\ w \in late /\ ~Shows(hw, w) /\ ~Shows(hw', w) BY <1>1, <1>4, CalmOpen
  <2>2. w.key # "ftst" BY <1>2, <2>1 DEF IInv, EnablesItsOwn
  <2>3. /\ w.fan \in Fans
        /\ (w.key = "mode" /\ w.value = 1) \/ (w.key = "target" /\ w.value = PlanRpm)
    BY <2>1, <2>2 DEF Writes, Enabling, ZeroRpm
  <2>4. r.seen.mode = hw.mode /\ r.seen.target = hw'.target
    <3>1. r.seen # NoReading BY DEF Manual, NoReading
    <3> QED BY <1>3, <3>1, ReadStep
  <2> QED BY <2>1, <2>3, <2>4 DEF Manual, Shows
<1>8. CASE p' = GiveBack(q)
  <2>1. p' = Call([q EXCEPT !.ok = FALSE], "restore", "direct_restored") BY <1>8 DEF GiveBack
  <2>2. p'.entry = p.entry BY <1>2, <1>6, <2>1, GiveBackEntry
  <2>3. SmcInv' /\ EnablesItsOwn' BY <1>4, <2>2, CalmEntry
  <2> QED BY <1>4, <1>6, <1>7, <2>1, <2>3, GiveBackKeeps
<1>9. CASE p' = [q EXCEPT !.at = "direct_hold", !.second = 1, !.item = 0]
  <2>1. "direct_hold" \in Places /\ 1 \in Nat /\ 0 \in 0..3 BY DEF Places, Labels
  <2>2. p' \in ProgramShape BY <1>6, <1>9, <2>1, Zenon DEF ProgramShape
  <2>3. /\ p'.at = "direct_hold" /\ p'.entry = "direct" /\ p'.ret = << >> /\ p'.status = "running"
        /\ p'.samples = 0 /\ p'.goal = q.goal
    BY <1>6, <1>9, <2>2 DEF ProgramShape
  <2>4. SmcInv' /\ EnablesItsOwn' BY <1>2, <1>4, <2>3, CalmEntry
  <2>5. EffectIsOpen' BY <2>3 DEF EffectIsOpen, Early
  <2>6. PlacesOf(p'.entry, p'.at) /\ p'.at \in OwnPlaces BY <2>3 DEF PlacesOf, DirectPlaces, OwnPlaces
  <2>7. SettledAt(p', p'.at) => \A w \in late' : ~Enabling(w) BY <1>7, <2>3 DEF SettledAt
  <2> QED BY <1>4, <2>2, <2>3, <2>4, <2>5, <2>6, <2>7, EntryStays
<1> QED BY <1>3, <1>5, <1>8, <1>9

\* The minute of manual control is watched, second by second.
LEMMA DirectHoldKeeps == IInv /\ DirectHold => IInv'
<1> SUFFICES ASSUME IInv, DirectHold PROVE IInv' OBVIOUS
<1>1. p.at = "direct_hold" BY DEF DirectHold
<1>2. /\ p \in ProgramShape /\ p.entry = "direct" /\ p.ret = << >> /\ p.status = "running"
      /\ p.samples = 0 /\ (p.goal => \A w \in late : ~Enabling(w))
  BY <1>1, DirectPlace
<1>3. ASSUME CalmTo(hw', late'), quiet' \in -1..10 * StableSeconds, NEW ok \in BOOLEAN,
             p' = Call([p EXCEPT !.ok = ok], "restore", "direct_restored")
      PROVE  IInv'
  <2>1. p'.entry = p.entry BY <1>2, <1>3, GiveBackEntry
  <2>2. /\ SmcInv' /\ EnablesItsOwn'
        /\ (\A w \in late : ~Enabling(w)) => (\A w \in late' : ~Enabling(w))
    BY <1>3, <2>1, CalmEntry
  <2> QED BY <1>2, <1>3, <2>2, GiveBackKeeps
<1>4. GiveBack(p) = Call([p EXCEPT !.ok = FALSE], "restore", "direct_restored") BY DEF GiveBack
<1>5. CASE p' = GiveBack(p) /\ NoAccess
  <2>1. CalmTo(hw', late') /\ quiet' \in -1..10 * StableSeconds BY <1>5, NoAccessStep
  <2> QED BY <1>3, <1>4, <1>5, <2>1
<1>6. CASE ~(p' = GiveBack(p) /\ NoAccess)
  <2>1. PICK r \in Reads, safe \in Temperatures, inTime \in InTime, reached \in BOOLEAN :
          /\ Read(r, 0)
          /\ p' = IF ~Manual(r.seen) \/ ~safe \/ ~inTime THEN GiveBack(p)
                  ELSE IF p.second < ObserveSeconds THEN [p EXCEPT !.second = @ + 1]
                  ELSE Call([p EXCEPT !.ok = reached], "restore", "direct_restored")
    BY <1>6, Zenon DEF DirectHold
  <2>2. CalmTo(hw', late') /\ quiet' \in -1..10 * StableSeconds BY <2>1, ReadStep
  <2>3. CASE p' = GiveBack(p) BY <1>3, <1>4, <2>2, <2>3
  <2>4. CASE p' = Call([p EXCEPT !.ok = reached], "restore", "direct_restored") BY <1>3, <2>2, <2>4
  <2>5. CASE p' = [p EXCEPT !.second = @ + 1]
    <3>1. p.second + 1 \in Nat BY <1>2 DEF ProgramShape
    <3>2. p' \in ProgramShape BY <1>2, <2>5, <3>1, Zenon DEF ProgramShape
    <3>3. /\ p'.at = "direct_hold" /\ p'.entry = "direct" /\ p'.ret = << >>
          /\ p'.status = "running" /\ p'.samples = 0 /\ p'.goal = p.goal
      BY <1>1, <1>2, <2>5, <3>2 DEF ProgramShape
    <3>4. /\ SmcInv' /\ EnablesItsOwn'
          /\ (\A w \in late : ~Enabling(w)) => (\A w \in late' : ~Enabling(w))
      BY <1>2, <2>2, <3>3, CalmEntry
    <3>5. EffectIsOpen' BY <3>3 DEF EffectIsOpen, Early
    <3>6. PlacesOf(p'.entry, p'.at) /\ p'.at \in OwnPlaces
      BY <3>3 DEF PlacesOf, DirectPlaces, OwnPlaces
    <3>7. SettledAt(p', p'.at) => \A w \in late' : ~Enabling(w) BY <1>2, <3>3, <3>4 DEF SettledAt
    <3> QED BY <2>2, <3>2, <3>3, <3>4, <3>5, <3>6, <3>7, EntryStays
  <2> QED BY <2>1, <2>3, <2>4, <2>5
<1> QED BY <1>5, <1>6

-----------------------------------------------------------------------------
(* What an entry point makes of an answer.                                 *)

\* The SMC and the history stay, and so does what has been seen.
LEMMA Resumed ==
    ASSUME IInv, p.at \notin Inside \cup {"done"}, NoAccess, p'.entry = p.entry
    PROVE  /\ SmcInv' /\ EnablesItsOwn' /\ quiet' \in -1..10 * StableSeconds
           /\ WholeMinute => WholeMinute'
           /\ SettledAt(p, p.at) => \A w \in late' : ~Enabling(w)
<1>1. CalmTo(hw', late') /\ quiet' \in -1..10 * StableSeconds /\ quiet' = quiet BY NoAccessStep
<1>2. /\ SmcInv' /\ EnablesItsOwn'
      /\ (\A w \in late : ~Enabling(w)) => (\A w \in late' : ~Enabling(w))
  BY <1>1, CalmEntry
<1>3. SettledAt(p, p.at) => \A w \in late : ~Enabling(w)
  BY EntryPlace DEF SettledAt, CheckedBehind, IInv, SettledIsOver, Settled
<1> QED BY <1>1, <1>2, <1>3 DEF WholeMinute

\* It calls another procedure.
LEMMA ResumeCall ==
    ASSUME IInv, p.at \notin Inside \cup {"done"}, NoAccess,
           NEW q \in ProgramShape, q.ret = p.ret, q.status = p.status, q.entry = p.entry,
           NEW procedure, NEW b, p' = Call(q, procedure, b), PlacesOf(p.entry, b),
           \/ procedure = "observe" /\ b \in AfterObserve
           \/ procedure = "restore" /\ b \in AfterRestore
           \/ procedure = "unlock" /\ b \in AfterUnlock,
           SettledAt(q, b) => SettledAt(p, p.at)
    PROVE  IInv'
<1>1. p.ret = << >> /\ p.status = "running" BY EntryPlace
<1>2. procedure \in Places /\ b \in Places BY ReturnPlaces DEF Places, Labels
<1>3. p'.entry = q.entry BY <1>2, CallFields
<1>4. /\ SmcInv' /\ EnablesItsOwn' /\ quiet' \in -1..10 * StableSeconds
      /\ SettledAt(p, p.at) => \A w \in late' : ~Enabling(w)
  BY <1>3, Resumed
<1> QED BY <1>1, <1>4, EntryCall

\* It gives its verdict.
LEMMA ResumeFinish ==
    ASSUME IInv, p.at \notin Inside \cup {"done"}, NoAccess,
           NEW status \in Verdicts, p' = Finish(p, status),
           status \in {"SUCCEEDED", "CONTROL_FAILED_SYSTEM_VERIFIED", "WRITE_EFFECT_UNVERIFIED",
                       "RESTORED"} => WholeMinute,
           status = "SUCCEEDED" \/ (p.entry = "direct" /\ status = "CONTROL_FAILED_SYSTEM_VERIFIED")
             => SettledAt(p, p.at),
           status # "BASELINE_REJECTED"
    PROVE  IInv'
<1>1. p \in ProgramShape /\ p.ret = << >> /\ p.samples = 0 BY EntryPlace
<1>2. p'.entry = p.entry BY <1>1, FinishFields
<1>3. /\ SmcInv' /\ EnablesItsOwn' /\ quiet' \in -1..10 * StableSeconds
      /\ WholeMinute => WholeMinute'
      /\ SettledAt(p, p.at) => \A w \in late' : ~Enabling(w)
  BY <1>2, Resumed
<1>4. SettledAt(p, "done") => SettledAt(p, p.at) BY DEF SettledAt, CheckedBehind
<1> QED BY <1>1, <1>3, <1>4, EntryFinish

\* What follows the calls of the direct trial.
LEMMA DirectResumeKeeps == IInv /\ DirectResume => IInv'
<1> SUFFICES ASSUME IInv, DirectResume PROVE IInv' OBVIOUS
<1>1. /\ p.at \in {"direct_restored", "direct_after", "direct_again", "direct_again_after"}
      /\ NoAccess
  BY DEF DirectResume
<1>2. p.at \notin Inside \cup {"done"}
  BY <1>1 DEF Inside, InRestore, InUnlock, UnlockAfterObserve, UnlockAfterRestore
<1>3. p \in ProgramShape /\ PlacesOf(p.entry, p.at) BY <1>2, EntryPlace
<1>4. p.entry = "direct" BY <1>1, <1>3 DEF PlacesOf, CheckPlaces, RehearsePlaces, CommandPlaces
<1>5. p.rv = "stable" => WholeMinute
  BY <1>1 DEF IInv, Shaped, Answered, MinuteIsSeen, AfterObserve, AfterRestore
<1>6. \/ p' = Finish(p, "RESTORE_FAILED")
      \/ p' = Call(p, "observe", "direct_after")
      \/ p' = Call(p, "observe", "direct_again_after")
      \/ p.rv = "stable" /\ p' = Finish(p, DirectVerdict)
      \/ p' = Call(p, "restore", "direct_again")
  <2>1. p.rv \in Values BY <1>3 DEF ProgramShape
  <2> QED BY <1>1, <2>1 DEF DirectResume, Values
<1>7. CASE p' = Finish(p, "RESTORE_FAILED")
  <2>1. "RESTORE_FAILED" \in Verdicts BY DEF Verdicts, Statuses
  <2> QED BY <1>1, <1>2, <1>7, <2>1, ResumeFinish
<1>8. CASE p.rv = "stable" /\ p' = Finish(p, DirectVerdict)
  <2>1. /\ DirectVerdict \in Verdicts /\ DirectVerdict # "BASELINE_REJECTED"
        /\ DirectVerdict \in {"SUCCEEDED", "CONTROL_FAILED_SYSTEM_VERIFIED"} => p.goal
    BY DEF DirectVerdict, Verdicts, Statuses
  <2>2. p.goal => SettledAt(p, p.at) BY <1>4 DEF SettledAt
  <2>3. PICK status : status = DirectVerdict OBVIOUS
  <2> QED BY <1>1, <1>2, <1>5, <1>8, <2>1, <2>2, <2>3, ResumeFinish
<1>9. CASE \E b \in {"direct_after", "direct_again_after"} : p' = Call(p, "observe", b)
  <2>1. PICK b \in {"direct_after", "direct_again_after"} : p' = Call(p, "observe", b) BY <1>9
  <2>2. b \in AfterObserve /\ PlacesOf(p.entry, b) BY <1>4 DEF AfterObserve, PlacesOf, DirectPlaces
  <2>3. SettledAt(p, b) => SettledAt(p, p.at) BY <1>4 DEF SettledAt
  <2> QED BY <1>1, <1>2, <1>3, <2>1, <2>2, <2>3, ResumeCall
<1>10. CASE p' = Call(p, "restore", "direct_again")
  <2>1. "direct_again" \in AfterRestore /\ PlacesOf(p.entry, "direct_again")
    BY <1>4 DEF AfterRestore, PlacesOf, DirectPlaces
  <2>2. SettledAt(p, "direct_again") => SettledAt(p, p.at) BY <1>4 DEF SettledAt
  <2> QED BY <1>1, <1>2, <1>3, <1>10, <2>1, <2>2, ResumeCall
<1> QED BY <1>6, <1>7, <1>8, <1>9, <1>10

-----------------------------------------------------------------------------
(* trial_check_ftst and trial_rehearse_ftst_minimum_recovery *)

\* What every step of the two starts from.
LEMMA FtstPlace ==
    ASSUME IInv,
           p.at \in {"check", "rehearse", "ftst_enable", "check_effect", "check_release",
                     "rehearse_watch"}
    PROVE  /\ p \in ProgramShape /\ p.entry \in {"check", "rehearse"} /\ p.ret = << >>
           /\ p.status = "running" /\ p.samples = 0
           /\ p.at \in {"check", "check_effect", "check_release"} => p.entry = "check"
           /\ p.at \in {"rehearse", "rehearse_watch"} => p.entry = "rehearse"
           /\ p.at \in {"check", "rehearse", "ftst_enable"} => ~p.unlocked
           /\ p.entry = "rehearse" /\ p.unlocked => \A w \in late : ~Enabling(w)
<1>1. p.at \notin Inside \cup {"done"}
  BY DEF Inside, InRestore, InUnlock, UnlockAfterObserve, UnlockAfterRestore
<1>2. /\ p \in ProgramShape /\ PlacesOf(p.entry, p.at) /\ p.ret = << >> /\ p.status = "running"
      /\ p.samples = 0
  BY <1>1, EntryPlace
<1>3. /\ p.entry \in {"check", "rehearse"}
      /\ p.at \in {"check", "check_effect", "check_release"} => p.entry = "check"
      /\ p.at \in {"rehearse", "rehearse_watch"} => p.entry = "rehearse"
  BY <1>2 DEF PlacesOf, DirectPlaces, CheckPlaces, RehearsePlaces, CommandPlaces
<1>4. /\ p.at \in {"check", "rehearse", "ftst_enable"} => ~p.unlocked
      /\ p.entry = "rehearse" /\ p.unlocked => \A w \in late : ~Enabling(w)
  BY DEF IInv, SettledIsOver, Settled
<1> QED BY <1>2, <1>3, <1>4

\* A reading with Ftst set: the only write that enables anything has taken effect.
LEMMA FtstSeen ==
    ASSUME IInv, p.at \in {"check_effect", "rehearse_watch"}, NEW r \in Reads, Read(r, 0),
           r.seen.ftst = 1
    PROVE  \A w \in late' : ~Enabling(w)
<1> SUFFICES ASSUME NEW w \in late', Enabling(w) PROVE FALSE OBVIOUS
<1>1. p.at \in Early BY DEF Early
<1>2. CalmTo(hw', late') BY ReadStep
<1>3. w \in Writes /\ w \in late /\ ~Shows(hw', w) BY <1>1, <1>2, CalmOpen
<1>4. p.entry # "direct" BY FtstPlace
<1>5. w.key = "ftst" BY <1>3, <1>4 DEF IInv, EnablesItsOwn
<1>6. w.value = 1 BY <1>3, <1>5 DEF Writes, Enabling
<1>7. hw'.ftst = 1
  <2>1. r.seen # NoReading BY DEF NoReading
  <2> QED BY <2>1, ReadStep
<1> QED BY <1>3, <1>5, <1>6, <1>7 DEF Shows

\* The trial's own reading of the baseline.
LEMMA FtstBaseKeeps == IInv /\ FtstBase => IInv'
<1> SUFFICES ASSUME IInv, FtstBase PROVE IInv' OBVIOUS
<1>1. p.at \in {"check", "rehearse"} /\ p.at \in Early BY DEF FtstBase, Early
<1>2. /\ p \in ProgramShape /\ p.entry \in {"check", "rehearse"} /\ p.ret = << >>
      /\ p.status = "running" /\ p.samples = 0 /\ ~p.unlocked
  BY <1>1, FtstPlace
<1>3. PICK r \in Reads, safe \in Temperatures :
        /\ Read(r, 0)
        /\ p' = IF ~Baseline(r.seen) \/ ~safe \/ interrupted THEN Finish(p, "BASELINE_REJECTED")
                ELSE Goto(p, "ftst_enable")
  BY Zenon DEF FtstBase
<1>4. CalmTo(hw', late') /\ quiet' \in -1..10 * StableSeconds /\ late' \subseteq late
  BY <1>3, ReadStep
<1>5. CASE p' = Finish(p, "BASELINE_REJECTED")
  <2>1. "BASELINE_REJECTED" \in Verdicts BY DEF Verdicts, Statuses
  <2>2. p'.entry = p.entry BY <1>2, <1>5, <2>1, FinishFields
  <2>3. SmcInv' /\ EnablesItsOwn' BY <1>4, <2>2, CalmEntry
  <2>4. ~wrote /\ late = {} BY <1>1 DEF IInv, NothingYet
  <2>5. ~wrote' /\ late' = {} BY <1>3, <1>4, <2>4 DEF Read
  <2>6. ~SettledAt(p, "done") BY <1>2 DEF SettledAt, CheckedBehind
  <2> QED BY <1>2, <1>4, <1>5, <2>1, <2>3, <2>5, <2>6, EntryFinish
<1>6. CASE p' = Goto(p, "ftst_enable")
  <2>1. "ftst_enable" \in Places BY DEF Places, Labels
  <2>2. /\ p' \in ProgramShape /\ p'.at = "ftst_enable" /\ p'.ret = << >> /\ p'.samples = 0
        /\ p'.entry = p.entry /\ p'.status = "running" /\ p'.unlocked = p.unlocked
    BY <1>2, <1>6, <2>1, GotoFields
  <2>3. ToWrite(p') \subseteq ToWrite(p) BY <1>1, <2>2 DEF ToWrite
  <2>4. p'.at \notin Releasing BY <2>2 DEF Releasing
  <2>5. SmcInv' /\ EnablesItsOwn' /\ EffectIsOpen' BY <1>1, <1>4, <2>2, <2>3, <2>4, CalmKeeps
  <2>6. PlacesOf(p'.entry, p'.at) /\ p'.at \in OwnPlaces
    BY <1>2, <2>2 DEF PlacesOf, CheckPlaces, RehearsePlaces, OwnPlaces
  <2>7. ~SettledAt(p', p'.at) BY <1>2, <2>2 DEF SettledAt, CheckedBehind
  <2> QED BY <1>2, <1>4, <2>2, <2>5, <2>6, <2>7, EntryStays
<1> QED BY <1>3, <1>5, <1>6

\* Ftst is set.
LEMMA FtstEnableKeeps == IInv /\ FtstEnable => IInv'
<1> SUFFICES ASSUME IInv, FtstEnable PROVE IInv' OBVIOUS
<1>1. p.at = "ftst_enable" /\ p.at \in Early BY DEF FtstEnable, Early
<1>2. /\ p \in ProgramShape /\ p.entry \in {"check", "rehearse"} /\ p.ret = << >>
      /\ p.status = "running" /\ p.samples = 0 /\ ~p.unlocked
  BY <1>1, FtstPlace
<1>3. PICK place : place = IF p.entry = "check" THEN "check_effect" ELSE "rehearse_watch" OBVIOUS
<1>4. PICK ok \in Answers : Write(Ftst(1), ok) /\ p' = [p EXCEPT !.ok = ok, !.at = place]
  BY <1>3, Zenon DEF FtstEnable
<1>5. ok \in BOOLEAN BY DEF Answers
<1>6. place \in Places /\ PlacesOf(p.entry, place) /\ place \in OwnPlaces /\ place \in Early
      /\ place \in {"check_effect", "rehearse_watch"}
  BY <1>2, <1>3 DEF Places, Labels, PlacesOf, CheckPlaces, RehearsePlaces, OwnPlaces, Early
<1>7. p' \in ProgramShape BY <1>2, <1>4, <1>5, <1>6, Zenon DEF ProgramShape
<1>8. /\ p'.at = place /\ p'.ret = << >> /\ p'.samples = 0 /\ p'.entry = p.entry
      /\ p'.status = "running" /\ p'.unlocked = p.unlocked
  BY <1>2, <1>4, <1>7 DEF ProgramShape
<1>9. Ftst(1) \in ToWrite(p) /\ Ftst(1).key = "ftst" BY <1>1 DEF ToWrite, Ftst
<1>10. (Ftst(1).key = "ftst") = (p.entry # "direct") BY <1>2, <1>9
<1>11. /\ SmcInv' /\ EnablesItsOwn' /\ quiet' \in -1..10 * StableSeconds
       /\ \A v \in late' : Enabling(v) => ~Shows(hw', v)
  BY <1>1, <1>4, <1>8, <1>9, <1>10, EnablingWrite
<1>12. ToWrite(p') = {} BY <1>6, <1>8 DEF ToWrite
<1>13. EffectIsOpen' BY <1>11, <1>12 DEF EffectIsOpen
<1>14. ~SettledAt(p', p'.at) BY <1>2, <1>6, <1>8 DEF SettledAt, CheckedBehind
<1>15. p'.at \notin {"direct", "direct_target", "ftst_enable"} BY <1>6, <1>8
<1>16. PlacesOf(p'.entry, p'.at) /\ p'.at \in OwnPlaces BY <1>6, <1>8
<1> QED BY <1>7, <1>8, <1>11, <1>13, <1>14, <1>15, <1>16, EntryStays

\* The check looks for the effect of its write.
LEMMA CheckEffectKeeps == IInv /\ CheckEffect => IInv'
<1> SUFFICES ASSUME IInv, CheckEffect PROVE IInv' OBVIOUS
<1>1. p.at = "check_effect" /\ p.at \in Early BY DEF CheckEffect, Early
<1>2. /\ p \in ProgramShape /\ p.entry = "check" /\ p.ret = << >>
      /\ p.status = "running" /\ p.samples = 0
  BY <1>1, FtstPlace
<1>3. PICK r \in Reads, safe \in Temperatures, slept \in Waits, inTime \in InTime :
        LET o == r.seen IN
        /\ Read(r, 0)
        /\ p' = IF o = NoReading THEN Goto(p, "check_release")
                ELSE IF ~Baseline(o)
                THEN Call([Noted(o) EXCEPT !.ok = @ /\ o.ftst = 1 /\ SystemOwned(o) /\ safe
                                                   /\ inTime /\ ~interrupted],
                          "unlock", "check_restored")
                ELSE IF ~safe \/ interrupted \/ p.second = EffectHalfSeconds \/ ~slept
                THEN Goto(p, "check_release")
                ELSE [p EXCEPT !.second = @ + 1]
  BY Zenon DEF CheckEffect
<1>4. CalmTo(hw', late') /\ quiet' \in -1..10 * StableSeconds BY <1>3, ReadStep
<1>5. CASE p' = Goto(p, "check_release")
  <2>1. "check_release" \in Places BY DEF Places, Labels
  <2>2. /\ p' \in ProgramShape /\ p'.at = "check_release" /\ p'.ret = << >> /\ p'.samples = 0
        /\ p'.entry = p.entry /\ p'.status = "running"
    BY <1>2, <1>5, <2>1, GotoFields
  <2>3. SmcInv' /\ EnablesItsOwn' BY <1>4, <2>2, CalmEntry
  <2>4. EffectIsOpen' BY <2>2 DEF EffectIsOpen, Early
  <2>5. PlacesOf(p'.entry, p'.at) /\ p'.at \in OwnPlaces
    BY <1>2, <2>2 DEF PlacesOf, CheckPlaces, OwnPlaces
  <2>6. ~SettledAt(p', p'.at) BY <1>2, <2>2 DEF SettledAt, CheckedBehind
  <2> QED BY <1>4, <2>2, <2>3, <2>4, <2>5, <2>6, EntryStays
<1>6. CASE p' = [p EXCEPT !.second = @ + 1]
  <2>1. p.second + 1 \in Nat BY <1>2 DEF ProgramShape
  <2>2. p' \in ProgramShape BY <1>2, <1>6, <2>1, Zenon DEF ProgramShape
  <2>3. /\ p'.at = "check_effect" /\ p'.ret = << >> /\ p'.samples = 0
        /\ p'.entry = p.entry /\ p'.status = "running"
    BY <1>1, <1>2, <1>6, <2>2 DEF ProgramShape
  <2>4. ToWrite(p') \subseteq ToWrite(p) BY <2>3 DEF ToWrite
  <2>5. p'.at \notin Releasing BY <2>3 DEF Releasing
  <2>6. SmcInv' /\ EnablesItsOwn' /\ EffectIsOpen' BY <1>1, <1>4, <2>3, <2>4, <2>5, CalmKeeps
  <2>7. PlacesOf(p'.entry, p'.at) /\ p'.at \in OwnPlaces
    BY <1>2, <2>3 DEF PlacesOf, CheckPlaces, OwnPlaces
  <2>8. ~SettledAt(p', p'.at) BY <1>2, <2>3 DEF SettledAt, CheckedBehind
  <2> QED BY <1>4, <2>2, <2>3, <2>6, <2>7, <2>8, EntryStays
<1>7. CASE ~(p' = Goto(p, "check_release") \/ p' = [p EXCEPT !.second = @ + 1])
  <2>1. PICK n : n = Noted(r.seen) OBVIOUS
  <2>2. PICK ok : ok = (n.ok /\ r.seen.ftst = 1 /\ SystemOwned(r.seen) /\ safe
                            /\ inTime /\ ~interrupted)
    OBVIOUS
  <2>3. PICK q : q = [n EXCEPT !.ok = ok] OBVIOUS
  <2>4. p' = Call(q, "unlock", "check_restored") BY <1>3, <1>7, <2>1, <2>2, <2>3
  <2>5. /\ n \in ProgramShape /\ n.entry = "check" /\ n.ret = << >> /\ n.status = "running"
    BY <1>2, <2>1, NotedFields
  <2>6. ok \in BOOLEAN BY <2>2
  <2>7. q \in ProgramShape BY <2>3, <2>5, <2>6, Zenon DEF ProgramShape
  <2>8. q.entry = "check" /\ q.ret = << >> /\ q.status = "running" /\ q.ok = ok
    BY <2>3, <2>5, <2>7 DEF ProgramShape
  <2>9. ok => \A w \in late' : ~Enabling(w) BY <1>1, <1>3, <2>2, FtstSeen
  <2>10. "check_restored" \in AfterUnlock /\ PlacesOf(q.entry, "check_restored")
    BY <2>8 DEF AfterUnlock, PlacesOf, CheckPlaces
  <2>11. {"unlock", "check_restored"} \subseteq Places BY DEF Places, Labels
  <2>12. p'.entry = p.entry BY <1>2, <2>4, <2>7, <2>8, <2>11, CallFields
  <2>13. SmcInv' /\ EnablesItsOwn' BY <1>4, <2>12, CalmEntry
  <2>14. SettledAt(q, "check_restored") => \A w \in late' : ~Enabling(w) BY <2>8, <2>9 DEF SettledAt
  <2> QED BY <1>4, <2>4, <2>7, <2>8, <2>10, <2>13, <2>14, EntryCall
<1> QED BY <1>5, <1>6, <1>7

\* The check releases what it has not seen take effect.
LEMMA CheckReleaseKeeps == IInv /\ CheckRelease => IInv'
<1> SUFFICES ASSUME IInv, CheckRelease PROVE IInv' OBVIOUS
<1>1. p.at = "check_release" BY DEF CheckRelease
<1>2. p \in ProgramShape /\ p.entry = "check" /\ p.ret = << >> /\ p.status = "running"
  BY <1>1, FtstPlace
<1>3. PICK ok \in Answers :
        Write(Ftst(0), ok) /\ p' = Call([p EXCEPT !.released = ok], "observe", "check_later")
  BY Zenon DEF CheckRelease
<1>4. ok \in BOOLEAN BY DEF Answers
<1>5. Ftst(0) \in Writes /\ ~Enabling(Ftst(0)) BY DEF Ftst, Writes, Enabling
<1>6. CalmTo(hw', late') /\ quiet' \in -1..10 * StableSeconds BY <1>3, <1>5, WriteStep
<1>7. PICK q : q = [p EXCEPT !.released = ok] OBVIOUS
<1>8. q \in ProgramShape BY <1>2, <1>4, <1>7, Zenon DEF ProgramShape
<1>9. q.entry = "check" /\ q.ret = << >> /\ q.status = "running" BY <1>2, <1>7, <1>8 DEF ProgramShape
<1>10. p' = Call(q, "observe", "check_later") BY <1>3, <1>7
<1>11. {"observe", "check_later"} \subseteq Places BY DEF Places, Labels
<1>12. p'.entry = p.entry BY <1>2, <1>8, <1>9, <1>10, <1>11, CallFields
<1>13. SmcInv' /\ EnablesItsOwn' BY <1>6, <1>12, CalmEntry
<1>14. "check_later" \in AfterObserve /\ PlacesOf(q.entry, "check_later")
  BY <1>9 DEF AfterObserve, PlacesOf, CheckPlaces
<1>15. ~SettledAt(q, "check_later") BY <1>9 DEF SettledAt, CheckedBehind
<1> QED BY <1>6, <1>8, <1>9, <1>10, <1>13, <1>14, <1>15, EntryCall

\* What follows the calls of the check.
LEMMA CheckResumeKeeps == IInv /\ CheckResume => IInv'
<1> SUFFICES ASSUME IInv, CheckResume PROVE IInv' OBVIOUS
<1>1. /\ p.at \in {"check_restored", "check_last_look", "check_after", "check_again",
                   "check_again_after", "check_later", "check_late", "check_late_after"}
      /\ NoAccess
  BY DEF CheckResume
<1>2. p.at \notin Inside \cup {"done"}
  BY <1>1 DEF Inside, InRestore, InUnlock, UnlockAfterObserve, UnlockAfterRestore
<1>3. p \in ProgramShape /\ PlacesOf(p.entry, p.at) BY <1>2, EntryPlace
<1>4. p.entry = "check" BY <1>1, <1>3 DEF PlacesOf, DirectPlaces, RehearsePlaces, CommandPlaces
<1>5. p.rv = "stable" => WholeMinute
  BY <1>1 DEF IInv, Shaped, Answered, MinuteIsSeen, AfterObserve, AfterUnlock
<1>6. \/ p.at = "check_restored"
         /\ \E b \in {"check_after", "check_last_look"} : p' = Call(p, "observe", b)
      \/ p' = Finish(p, LastLook)
      \/ p' = Call([p EXCEPT !.ok = FALSE], "unlock", "check_again")
      \/ p.at \in {"check_after", "check_again_after"} /\ p.rv = "stable"
         /\ p' = Finish(p, CheckVerdict)
      \/ p' = Call(p, "unlock", "check_late")
      \/ p.rv = "stable" /\ p' = Finish(p, UnseenVerdict)
      \/ p.at = "check_again" /\ p' = Call(p, "observe", "check_again_after")
      \/ p' = Call(p, "observe", "check_late_after")
      \/ p' = Finish(p, "RESTORE_FAILED")
  BY <1>1 DEF CheckResume
<1>7. ASSUME NEW b \in {"check_after", "check_last_look", "check_again_after", "check_late_after"},
             p' = Call(p, "observe", b), b # "check_late_after" => p.at \in CheckedBehind
      PROVE  IInv'
  <2>1. b \in AfterObserve /\ PlacesOf(p.entry, b)
    BY <1>4 DEF AfterObserve, PlacesOf, CheckPlaces
  <2>2. SettledAt(p, b) => SettledAt(p, p.at) BY <1>4, <1>7 DEF SettledAt, CheckedBehind
  <2> QED BY <1>1, <1>2, <1>3, <1>7, <2>1, <2>2, ResumeCall
<1>8. ASSUME NEW status \in Verdicts, p' = Finish(p, status), status # "BASELINE_REJECTED",
             status # "RESTORED",
             status \in {"SUCCEEDED", "CONTROL_FAILED_SYSTEM_VERIFIED", "WRITE_EFFECT_UNVERIFIED"}
                => p.rv = "stable",
             status = "SUCCEEDED" => p.ok /\ p.at \in CheckedBehind
      PROVE  IInv'
  <2>1. status = "SUCCEEDED" => SettledAt(p, p.at) BY <1>4, <1>8 DEF SettledAt
  <2> QED BY <1>1, <1>2, <1>4, <1>5, <1>8, <2>1, ResumeFinish
<1>9. CASE p.at = "check_restored"
           /\ \E b \in {"check_after", "check_last_look"} : p' = Call(p, "observe", b)
  BY <1>7, <1>9 DEF CheckedBehind
<1>10. CASE p.at = "check_again" /\ p' = Call(p, "observe", "check_again_after")
  BY <1>7, <1>10 DEF CheckedBehind
<1>11. CASE p' = Call(p, "observe", "check_late_after") BY <1>7, <1>11
<1>12. CASE p' = Call([p EXCEPT !.ok = FALSE], "unlock", "check_again")
  <2>1. PICK q : q = [p EXCEPT !.ok = FALSE] OBVIOUS
  <2>2. /\ q \in ProgramShape /\ q.entry = p.entry /\ q.ret = p.ret /\ q.status = p.status /\ ~q.ok
    BY <1>3, <2>1 DEF ProgramShape
  <2>3. "check_again" \in AfterUnlock /\ PlacesOf(p.entry, "check_again")
    BY <1>4 DEF AfterUnlock, PlacesOf, CheckPlaces
  <2>4. ~SettledAt(q, "check_again") BY <1>4, <2>2 DEF SettledAt
  <2> QED BY <1>1, <1>2, <1>12, <2>1, <2>2, <2>3, <2>4, ResumeCall
<1>13. CASE p' = Call(p, "unlock", "check_late")
  <2>1. "check_late" \in AfterUnlock /\ PlacesOf(p.entry, "check_late")
    BY <1>4 DEF AfterUnlock, PlacesOf, CheckPlaces
  <2>2. ~SettledAt(p, "check_late") BY <1>4 DEF SettledAt, CheckedBehind
  <2> QED BY <1>1, <1>2, <1>3, <1>13, <2>1, <2>2, ResumeCall
<1>14. CASE p' = Finish(p, LastLook)
  <2>1. PICK status : status = LastLook OBVIOUS
  <2> QED BY <1>8, <1>14, <2>1 DEF LastLook, Verdicts, Statuses
<1>15. CASE p.at \in {"check_after", "check_again_after"} /\ p.rv = "stable"
            /\ p' = Finish(p, CheckVerdict)
  <2>1. PICK status : status = CheckVerdict OBVIOUS
  <2> QED BY <1>8, <1>15, <2>1 DEF CheckVerdict, Verdicts, Statuses, CheckedBehind
<1>16. CASE p.rv = "stable" /\ p' = Finish(p, UnseenVerdict)
  <2>1. PICK status : status = UnseenVerdict OBVIOUS
  <2> QED BY <1>8, <1>16, <2>1 DEF UnseenVerdict, Verdicts, Statuses
<1>17. CASE p' = Finish(p, "RESTORE_FAILED") BY <1>8, <1>17 DEF Verdicts, Statuses
<1> QED BY <1>6, <1>9, <1>10, <1>11, <1>12, <1>13, <1>14, <1>15, <1>16, <1>17

\* The rehearsal waits for the fans to be left at their minimum.
LEMMA RehearseWatchKeeps == IInv /\ RehearseWatch => IInv'
<1> SUFFICES ASSUME IInv, RehearseWatch PROVE IInv' OBVIOUS
<1>1. p.at = "rehearse_watch" /\ p.at \in Early BY DEF RehearseWatch, Early
<1>2. /\ p \in ProgramShape /\ p.entry = "rehearse" /\ p.ret = << >>
      /\ p.status = "running" /\ p.samples = 0
      /\ p.unlocked => \A w \in late : ~Enabling(w)
  BY <1>1, FtstPlace
<1>3. {"unlock", "rehearse_restored"} \subseteq Places BY DEF Places, Labels
<1>4. "rehearse_restored" \in AfterUnlock /\ PlacesOf("rehearse", "rehearse_restored")
  BY DEF AfterUnlock, PlacesOf, RehearsePlaces
<1>5. ASSUME CalmTo(hw', late'), quiet' \in -1..10 * StableSeconds, NEW q \in ProgramShape,
             q.entry = "rehearse", q.ret = << >>, q.status = "running",
             q.unlocked => \A w \in late' : ~Enabling(w),
             p' = Call(q, "unlock", "rehearse_restored")
      PROVE  IInv'
  <2>1. p'.entry = p.entry BY <1>2, <1>3, <1>5, CallFields
  <2>2. SmcInv' /\ EnablesItsOwn' BY <1>5, <2>1, CalmEntry
  <2>3. SettledAt(q, "rehearse_restored") => \A w \in late' : ~Enabling(w) BY <1>5 DEF SettledAt
  <2> QED BY <1>4, <1>5, <2>2, <2>3, EntryCall
<1>6. ASSUME CalmTo(hw', late') PROVE p.unlocked => \A w \in late' : ~Enabling(w)
  BY <1>2, <1>6 DEF CalmTo
<1>7. CASE p' = Call(p, "unlock", "rehearse_restored") /\ NoAccess
  <2>1. CalmTo(hw', late') /\ quiet' \in -1..10 * StableSeconds BY <1>7, NoAccessStep
  <2> QED BY <1>2, <1>5, <1>6, <1>7, <2>1
<1>8. CASE ~(p' = Call(p, "unlock", "rehearse_restored") /\ NoAccess)
  <2>1. PICK r \in Reads, safe \in Temperatures, slept \in Waits, inTime \in InTime :
          LET o == r.seen
              q == [p EXCEPT
                      !.unlocked = @ \/ o.ftst = 1,
                      !.goal = o.ftst = 1 /\ \A fan \in Fans : o.mode[fan] = 0
                                                             /\ o.target[fan] = MinimumRpm] IN
          /\ ~interrupted
          /\ Read(r, 0)
          /\ p' = IF o = NoReading \/ ~inTime \/ ~safe
                  THEN Call(p, "unlock", "rehearse_restored")
                  ELSE IF ~SystemOwned(o) \/ p.second = WatchHalfSeconds \/ ~slept
                  THEN Call(q, "unlock", "rehearse_restored")
                  ELSE [q EXCEPT !.second = @ + 1]
    BY <1>8, Zenon DEF RehearseWatch
  <2>2. CalmTo(hw', late') /\ quiet' \in -1..10 * StableSeconds BY <2>1, ReadStep
  <2>3. PICK unlocked, goal :
          /\ unlocked = (p.unlocked \/ r.seen.ftst = 1)
          /\ goal = (r.seen.ftst = 1 /\ \A fan \in Fans : r.seen.mode[fan] = 0
                                                        /\ r.seen.target[fan] = MinimumRpm)
    OBVIOUS
  <2>4. PICK q : q = [p EXCEPT !.unlocked = unlocked, !.goal = goal] OBVIOUS
  <2>5. \/ p' = Call(p, "unlock", "rehearse_restored")
        \/ p' = Call(q, "unlock", "rehearse_restored")
        \/ p' = [q EXCEPT !.second = @ + 1]
    BY <2>1, <2>3, <2>4
  <2>6. unlocked \in BOOLEAN /\ goal \in BOOLEAN BY <2>3
  <2>7. q \in ProgramShape BY <1>2, <2>4, <2>6, Zenon DEF ProgramShape
  <2>8. /\ q.entry = "rehearse" /\ q.ret = << >> /\ q.status = "running" /\ q.unlocked = unlocked
        /\ q.at = p.at /\ q.samples = 0 /\ q.second = p.second
    BY <1>2, <2>4, <2>7 DEF ProgramShape
  <2>9. unlocked => \A w \in late' : ~Enabling(w)
    <3>1. p.unlocked => \A w \in late' : ~Enabling(w) BY <1>6, <2>2
    <3>2. r.seen.ftst = 1 => \A w \in late' : ~Enabling(w) BY <1>1, <2>1, FtstSeen
    <3> QED BY <2>3, <3>1, <3>2
  <2>10. CASE p' = Call(p, "unlock", "rehearse_restored") BY <1>2, <1>5, <1>6, <2>2, <2>10
  <2>11. CASE p' = Call(q, "unlock", "rehearse_restored") BY <1>5, <2>2, <2>7, <2>8, <2>9, <2>11
  <2>12. CASE p' = [q EXCEPT !.second = @ + 1]
    <3>1. p.second + 1 \in Nat BY <1>2 DEF ProgramShape
    <3>2. p' = [q EXCEPT !.second = p.second + 1] BY <2>8, <2>12
    <3>3. p' \in ProgramShape BY <2>7, <3>1, <3>2, Zenon DEF ProgramShape
    <3>4. /\ p'.at = "rehearse_watch" /\ p'.ret = << >> /\ p'.samples = 0
          /\ p'.entry = "rehearse" /\ p'.status = "running" /\ p'.unlocked = unlocked
      BY <1>1, <2>7, <2>8, <3>2, <3>3 DEF ProgramShape
    <3>5. ToWrite(p') \subseteq ToWrite(p) /\ p'.at \notin Releasing BY <3>4 DEF ToWrite, Releasing
    <3>6. SmcInv' /\ EnablesItsOwn' /\ EffectIsOpen' BY <1>1, <1>2, <2>2, <3>4, <3>5, CalmKeeps
    <3>7. PlacesOf(p'.entry, p'.at) /\ p'.at \in OwnPlaces
      BY <3>4 DEF PlacesOf, RehearsePlaces, OwnPlaces
    <3>8. SettledAt(p', p'.at) => \A w \in late' : ~Enabling(w) BY <2>9, <3>4 DEF SettledAt
    <3> QED BY <2>2, <3>3, <3>4, <3>6, <3>7, <3>8, EntryStays
  <2> QED BY <2>5, <2>10, <2>11, <2>12
<1> QED BY <1>7, <1>8

\* What follows the calls of the rehearsal.
LEMMA RehearseResumeKeeps == IInv /\ RehearseResume => IInv'
<1> SUFFICES ASSUME IInv, RehearseResume PROVE IInv' OBVIOUS
<1>1. /\ p.at \in {"rehearse_restored", "rehearse_last_look", "rehearse_after", "rehearse_again",
                   "rehearse_again_after"}
      /\ NoAccess
  BY DEF RehearseResume
<1>2. p.at \notin Inside \cup {"done"}
  BY <1>1 DEF Inside, InRestore, InUnlock, UnlockAfterObserve, UnlockAfterRestore
<1>3. p \in ProgramShape /\ PlacesOf(p.entry, p.at) BY <1>2, EntryPlace
<1>4. p.entry = "rehearse" BY <1>1, <1>3 DEF PlacesOf, DirectPlaces, CheckPlaces, CommandPlaces
<1>5. p.rv = "stable" => WholeMinute
  BY <1>1 DEF IInv, Shaped, Answered, MinuteIsSeen, AfterObserve, AfterUnlock
<1>6. \/ \E b \in {"rehearse_after", "rehearse_last_look", "rehearse_again_after"} :
            p' = Call(p, "observe", b)
      \/ p' = Finish(p, LastLook)
      \/ p' = Call([p EXCEPT !.goal = FALSE], "unlock", "rehearse_again")
      \/ p.rv = "stable" /\ p' = Finish(p, RehearseVerdict)
      \/ p' = Finish(p, "RESTORE_FAILED")
  BY <1>1 DEF RehearseResume
<1>7. CASE \E b \in {"rehearse_after", "rehearse_last_look", "rehearse_again_after"} :
            p' = Call(p, "observe", b)
  <2>1. PICK b \in {"rehearse_after", "rehearse_last_look", "rehearse_again_after"} :
          p' = Call(p, "observe", b)
    BY <1>7
  <2>2. b \in AfterObserve /\ PlacesOf(p.entry, b)
    BY <1>4 DEF AfterObserve, PlacesOf, RehearsePlaces
  <2>3. SettledAt(p, b) => SettledAt(p, p.at) BY <1>4 DEF SettledAt
  <2> QED BY <1>1, <1>2, <1>3, <2>1, <2>2, <2>3, ResumeCall
<1>8. ASSUME NEW status \in Verdicts, p' = Finish(p, status), status # "BASELINE_REJECTED",
             status # "RESTORED",
             status \in {"SUCCEEDED", "CONTROL_FAILED_SYSTEM_VERIFIED", "WRITE_EFFECT_UNVERIFIED"}
                => p.rv = "stable",
             status = "SUCCEEDED" => p.unlocked
      PROVE  IInv'
  <2>1. status = "SUCCEEDED" => SettledAt(p, p.at) BY <1>4, <1>8 DEF SettledAt
  <2> QED BY <1>1, <1>2, <1>4, <1>5, <1>8, <2>1, ResumeFinish
<1>9. CASE p' = Call([p EXCEPT !.goal = FALSE], "unlock", "rehearse_again")
  <2>1. PICK q : q = [p EXCEPT !.goal = FALSE] OBVIOUS
  <2>2. /\ q \in ProgramShape /\ q.entry = p.entry /\ q.ret = p.ret /\ q.status = p.status
        /\ q.unlocked = p.unlocked
    BY <1>3, <2>1 DEF ProgramShape
  <2>3. "rehearse_again" \in AfterUnlock /\ PlacesOf(p.entry, "rehearse_again")
    BY <1>4 DEF AfterUnlock, PlacesOf, RehearsePlaces
  <2>4. SettledAt(q, "rehearse_again") => SettledAt(p, p.at) BY <1>4, <2>2 DEF SettledAt
  <2> QED BY <1>1, <1>2, <1>9, <2>1, <2>2, <2>3, <2>4, ResumeCall
<1>10. CASE p' = Finish(p, LastLook)
  <2>1. PICK status : status = LastLook OBVIOUS
  <2> QED BY <1>8, <1>10, <2>1 DEF LastLook, Verdicts, Statuses
<1>11. CASE p.rv = "stable" /\ p' = Finish(p, RehearseVerdict)
  <2>1. PICK status : status = RehearseVerdict OBVIOUS
  <2> QED BY <1>8, <1>11, <2>1 DEF RehearseVerdict, Verdicts, Statuses
<1>12. CASE p' = Finish(p, "RESTORE_FAILED") BY <1>8, <1>12 DEF Verdicts, Statuses
<1> QED BY <1>6, <1>7, <1>9, <1>10, <1>11, <1>12

-----------------------------------------------------------------------------
(* run_restore and run_restore_unlock *)

\* A command calls its procedure.
LEMMA CommandStartKeeps == IInv /\ CommandStart => IInv'
<1> SUFFICES ASSUME IInv, CommandStart PROVE IInv' OBVIOUS
<1>1. p.at = "command" /\ NoAccess BY DEF CommandStart
<1>2. p.at \notin Inside \cup {"done"}
  BY <1>1 DEF Inside, InRestore, InUnlock, UnlockAfterObserve, UnlockAfterRestore
<1>3. p \in ProgramShape /\ PlacesOf(p.entry, p.at) BY <1>2, EntryPlace
<1>4. p.entry \in {"restore", "unlock"}
  BY <1>1, <1>3 DEF PlacesOf, DirectPlaces, CheckPlaces, RehearsePlaces, Commands
<1>5. PICK b : b = IF p.entry = "restore" THEN "restore_done" ELSE "unlock_done" OBVIOUS
<1>6. p' = Call(p, p.entry, b) BY <1>5 DEF CommandStart
<1>7. PlacesOf(p.entry, b) BY <1>4, <1>5 DEF PlacesOf, CommandPlaces, Commands
<1>8. \/ p.entry = "restore" /\ b \in AfterRestore
      \/ p.entry = "unlock" /\ b \in AfterUnlock
  BY <1>4, <1>5 DEF AfterRestore, AfterUnlock
<1>9. ~SettledAt(p, b) BY <1>4 DEF SettledAt
<1>10. PICK procedure : procedure = p.entry OBVIOUS
<1> QED BY <1>1, <1>2, <1>3, <1>6, <1>7, <1>8, <1>9, <1>10, ResumeCall

\* What follows the calls of the commands.
LEMMA CommandResumeKeeps == IInv /\ CommandResume => IInv'
<1> SUFFICES ASSUME IInv, CommandResume PROVE IInv' OBVIOUS
<1>1. p.at \in {"restore_done", "restore_watched", "unlock_done"} /\ NoAccess BY DEF CommandResume
<1>2. p.at \notin Inside \cup {"done"}
  BY <1>1 DEF Inside, InRestore, InUnlock, UnlockAfterObserve, UnlockAfterRestore
<1>3. p \in ProgramShape /\ PlacesOf(p.entry, p.at) BY <1>2, EntryPlace
<1>4. p.entry \in {"restore", "unlock"}
  BY <1>1, <1>3 DEF PlacesOf, DirectPlaces, CheckPlaces, RehearsePlaces, Commands
<1>5. CASE p.at = "restore_done" /\ p.rv = "yes"
  <2>1. p' = Call(p, "observe", "restore_watched") BY <1>5 DEF CommandResume
  <2>2. "restore_watched" \in AfterObserve /\ PlacesOf(p.entry, "restore_watched")
    BY <1>4 DEF AfterObserve, PlacesOf, CommandPlaces, Commands
  <2>3. ~SettledAt(p, "restore_watched") BY <1>4 DEF SettledAt
  <2> QED BY <1>1, <1>2, <1>3, <2>1, <2>2, <2>3, ResumeCall
<1>6. CASE ~(p.at = "restore_done" /\ p.rv = "yes")
  <2>1. PICK status : status = IF p.rv \in {"yes", "stable"} THEN "RESTORED" ELSE "NOT_RESTORED"
    OBVIOUS
  <2>2. p' = Finish(p, status) BY <1>6, <2>1 DEF CommandResume
  <2>3. p.rv \in {"yes", "stable"} => WholeMinute
    BY <1>1, <1>6 DEF IInv, Shaped, Answered, MinuteIsSeen, AfterObserve, AfterRestore, AfterUnlock
  <2>4. status \in Verdicts /\ status \in {"RESTORED", "NOT_RESTORED"} BY <2>1 DEF Verdicts
  <2> QED BY <1>1, <1>2, <1>4, <2>1, <2>2, <2>3, <2>4, ResumeFinish
<1> QED BY <1>5, <1>6

-----------------------------------------------------------------------------
(* The whole specification.                                                *)

\* trial_restore_unlock is not for the direct trial.
LEMMA ReleasingIsNotDirect == ASSUME IInv, p.at \in Releasing PROVE p.entry # "direct"
<1>1. p.at \in InUnlock /\ p.at \in Inside BY DEF Releasing, InUnlock, Inside
<1>2. \E b \in AfterUnlock : PlacesOf(p.entry, b) BY <1>1, InsideStack, ReturnPlaces DEF IInv
<1>3. ~ \E b \in AfterUnlock : PlacesOf("direct", b)
  BY DEF AfterUnlock, PlacesOf, DirectPlaces, Commands
<1> QED BY <1>2, <1>3

\* The SMC moves by itself.
LEMMA SmcKeeps == IInv /\ Smc => IInv'
<1> SUFFICES ASSUME IInv, Smc PROVE IInv' OBVIOUS
<1>1. p' = p /\ quiet' = quiet /\ pair' = pair /\ wrote' = wrote BY DEF Smc
<1>2. CalmTo(hw', late') /\ late' \subseteq late BY SmcStepCalm DEF Smc, IInv
<1>3. /\ SmcInv' /\ EnablesItsOwn' /\ EffectIsOpen' /\ ReleasedStays'
      /\ (\A w \in late : ~Enabling(w)) => (\A w \in late' : ~Enabling(w))
  BY <1>1, <1>2, ReleasingIsNotDirect, CalmKeeps
<1>4. Shaped' /\ PairIsRead' BY <1>1 DEF IInv, Shaped, PairIsRead
<1>5. MinuteIsSeen' BY <1>1 DEF IInv, MinuteIsSeen, Covers, WholeMinute, VerdictIsWitnessed
<1>6. NothingYet' /\ RejectedWroteNothing' BY <1>1, <1>2 DEF IInv, NothingYet, RejectedWroteNothing
<1>7. SettledIsOver' BY <1>1, <1>3 DEF IInv, SettledIsOver, NothingPendingBehindSuccess
<1> QED BY <1>3, <1>4, <1>5, <1>6, <1>7 DEF IInv

\* A step that leaves everything but the flag of the signal handler alone.
LEMMA StutterKeeps ==
    ASSUME IInv, UNCHANGED <<hw, late, p, quiet, pair, wrote>>
    PROVE  IInv'
<1>1. Shaped' /\ SmcInv' BY DEF IInv, Shaped, SmcInv
<1>2. MinuteIsSeen' BY DEF IInv, MinuteIsSeen, Covers, WholeMinute, VerdictIsWitnessed
<1>3. NothingYet' /\ RejectedWroteNothing' /\ PairIsRead'
  BY DEF IInv, NothingYet, RejectedWroteNothing, PairIsRead
<1>4. EnablesItsOwn' /\ EffectIsOpen' /\ ReleasedStays'
  BY DEF IInv, EnablesItsOwn, EffectIsOpen, ReleasedStays
<1>5. SettledIsOver' BY DEF IInv, SettledIsOver, NothingPendingBehindSuccess
<1> QED BY <1>1, <1>2, <1>3, <1>4, <1>5 DEF IInv

\* Every step preserves the invariant.
LEMMA NextKeeps == IInv /\ [Next]_vars => IInv'
<1> SUFFICES ASSUME IInv, [Next]_vars PROVE IInv' OBVIOUS
<1>1. CASE Program
  BY <1>1, RecoveryKeeps, DirectModeKeeps, DirectTargetKeeps, DirectReadKeeps, DirectHoldKeeps,
     DirectResumeKeeps, FtstBaseKeeps, FtstEnableKeeps, CheckEffectKeeps, CheckReleaseKeeps,
     CheckResumeKeeps, RehearseWatchKeeps, RehearseResumeKeeps, CommandStartKeeps,
     CommandResumeKeeps
     DEF Program
<1>2. CASE Smc BY <1>2, SmcKeeps
<1>3. CASE Signal BY <1>3, StutterKeeps DEF Signal
<1>4. CASE UNCHANGED vars BY <1>4, StutterKeeps DEF vars
<1> QED BY <1>1, <1>2, <1>3, <1>4 DEF Next, Over

\* The program as it is started is of the shape.
LEMMA StartedFields ==
    ASSUME NEW e \in Trials \cup Commands \cup {"observe"}
    PROVE  LET c == Started(e) IN
           /\ c \in ProgramShape
           /\ c.entry = e /\ c.at = (IF e \in Trials THEN e ELSE "command") /\ c.ret = << >>
           /\ c.rv = "none" /\ c.status = "running" /\ c.samples = 0 /\ c.item = 0
           /\ c.goal = FALSE /\ c.unlocked = FALSE
<1>1. PICK place : place = IF e \in Trials THEN e ELSE "command" OBVIOUS
<1>2. place \in Places BY <1>1 DEF Trials, Places, Labels
<1>3. << >> \in Seq(Places) BY <1>2, StackOps
<1>4. /\ "none" \in Values /\ "running" \in Verdicts /\ 0 \in Nat /\ 0 \in 0..3
      /\ {} \in SUBSET Fans /\ e \in Trials \cup Commands \cup {"observe"}
  BY DEF Values, Verdicts
<1>5. Started(e) =
        [entry |-> e, at |-> place, ret |-> << >>, rv |-> "none", status |-> "running",
         second |-> 0, span |-> 0, samples |-> 0, tries |-> 0, item |-> 0, fresh |-> TRUE,
         delayed |-> FALSE, changed |-> FALSE, manual |-> {},
         ok |-> TRUE, goal |-> FALSE, unlocked |-> FALSE, released |-> FALSE]
  BY <1>1 DEF Started
<1>6. Started(e) \in ProgramShape BY <1>2, <1>3, <1>4, <1>5 DEF ProgramShape
<1> QED BY <1>1, <1>5, <1>6

\* A trial starts from the baseline, with all it will enable still to be written.
LEMMA InitIInv == Init => IInv
<1> SUFFICES ASSUME Init PROVE IInv OBVIOUS
<1>1. PICK e \in Trials \cup Commands : p = Started(e) BY RunsAssumption DEF Init
<1>2. PICK place : place = IF e \in Trials THEN e ELSE "command" OBVIOUS
<1>3. /\ p \in ProgramShape /\ p.entry = e /\ p.at = place /\ p.ret = << >> /\ p.rv = "none"
      /\ p.status = "running" /\ p.samples = 0 /\ p.item = 0 /\ ~p.goal /\ ~p.unlocked
  BY <1>1, <1>2, StartedFields
<1>4. place \in {"direct", "check", "rehearse", "command"} /\ PlacesOf(e, place)
  BY <1>2 DEF Trials, Commands, PlacesOf, DirectPlaces, CheckPlaces, RehearsePlaces, CommandPlaces
<1>5. late = {} /\ quiet = -1 /\ wrote = FALSE BY DEF Init
<1>6. SmcInv
  <2>1. AtBaseline \in Observation BY DEF AtBaseline, Observation, ZeroRpm
  <2>2. CASE p.entry \in Trials BY <1>5, <2>1, <2>2 DEF Init, SmcInv
  <2>3. CASE p.entry \notin Trials
    BY <1>5, <2>3 DEF Init, SmcInv, Observation, ZeroRpm, PlanRpm
  <2> QED BY <2>2, <2>3
<1>7. Shaped
  <2>1. Stacked(p) BY <1>3, <1>4 DEF Stacked
  <2>2. Counted(p) BY <1>3, <1>4 DEF Counted
  <2>3. Answered(p) BY <1>3 DEF Answered
  <2> QED BY <1>3, <2>1, <2>2, <2>3 DEF Shaped
<1>8. MinuteIsSeen
  <2>1. StableSeconds \in Nat BY RecoveryAssumption
  <2>2. quiet \in -1..10 * StableSeconds BY <1>5, <2>1
  <2> QED BY <1>3, <1>4, <2>2 DEF MinuteIsSeen, VerdictIsWitnessed
<1>9. NothingYet /\ RejectedWroteNothing BY <1>3, <1>5 DEF NothingYet, RejectedWroteNothing
<1>10. PairIsRead /\ EnablesItsOwn /\ ReleasedStays
  BY <1>3, <1>4, <1>5 DEF PairIsRead, EnablesItsOwn, ReleasedStays, Releasing
<1>11. EffectIsOpen
  <2> SUFFICES ASSUME p.at \in Early, NEW w \in ToWrite(p) PROVE ~Shows(hw, w)
    BY <1>5 DEF EffectIsOpen
  <2>1. e \in Trials BY <1>2, <1>3 DEF Early
  <2>2. hw = AtBaseline BY <1>3, <2>1 DEF Init
  <2>3. w \in Writes /\ Enabling(w) BY DEF ToWrite, EnablingWrites, Ftst, Writes, Enabling
  <2>4. /\ w.value # 0
        /\ w.key = "mode" => w.value = 1 /\ w.fan \in Fans
        /\ w.key = "target" => w.fan \in Fans
    BY <2>3 DEF Writes, Enabling
  <2> QED BY <2>2, <2>4 DEF Shows, AtBaseline, ZeroRpm
<1>12. SettledIsOver
  BY <1>3, <1>5 DEF SettledIsOver, NothingPendingBehindSuccess
<1> QED BY <1>6, <1>7, <1>8, <1>9, <1>10, <1>11, <1>12 DEF IInv

\* The inductive invariant holds in every state of every run.
THEOREM SpecIInv == Spec => []IInv
BY InitIInv, NextKeeps, PTL DEF Spec

\* For every number of retries and every length of the windows: whenever a trial or a
\* recovery command reports anything but a failed restore or an untouched SMC, the last
\* StableSeconds by the clock were baseline readings with no write among them.
THEOREM Witnessed == Spec => []VerdictIsWitnessed
<1>1. IInv => VerdictIsWitnessed BY DEF IInv, MinuteIsSeen
<1> QED BY <1>1, SpecIInv, PTL

\* For any number of writes that are late and any order in which they land: a run that is
\* called a success, and a direct trial called verified, has seen every enabling write
\* take effect, so none of them is still to come.
THEOREM NothingPending == Spec => []NothingPendingBehindSuccess
<1>1. IInv => NothingPendingBehindSuccess BY DEF IInv, SettledIsOver
<1> QED BY <1>1, SpecIInv, PTL

\* The status behind exit code 2 is given before the first write only.
THEOREM RejectedIsUntouched == Spec => []RejectedWroteNothing
<1>1. IInv => RejectedWroteNothing BY DEF IInv
<1> QED BY <1>1, SpecIInv, PTL

\* From the reading that shows no manual fan to the write that clears Ftst nothing can
\* make a fan manual: neither a release that is late, nor the system, nor a landing of
\* anything else the run has written.
THEOREM ClearsOnlyReleased == Spec => NeverClearsUnderManual
<1>1. IInv /\ [Next]_vars =>
        [p.at = "unlock_clear" /\ p'.at = "unlock_cleared" => \A fan \in Fans : hw.mode[fan] # 1]_vars
  BY DEF IInv, ReleasedStays, Releasing
<1> QED BY <1>1, SpecIInv, PTL DEF Spec, NeverClearsUnderManual

\* A target is zeroed before the release only on a reading of its own, later than every
\* write, that showed both fans in mode 0.
THEOREM ZeroesOnRead == Spec => ZeroesOnlyReleasedPair
<1>1. IInv /\ [Next]_vars => [p.at = "unlock_zero_write" /\ p' # p => pair]_vars
  BY DEF IInv, PairIsRead
<1> QED BY <1>1, SpecIInv, PTL DEF Spec, ZeroesOnlyReleasedPair

=============================================================================
