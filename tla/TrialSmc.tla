------------------------------ MODULE TrialSmc ------------------------------
(***************************************************************************)
(* The SMC as the write trial meets it: the key Ftst and, for each fan, a  *)
(* mode and a target.  The hardware is not part of the repository; it is   *)
(* modelled from what smc-write-trial does with it and from the behaviours *)
(* that trial_actions_test.c makes its mock show: a write takes effect at  *)
(* once, later, or not at all, whatever the call returned; the system      *)
(* takes released fans back in its own time and, under load, sets targets  *)
(* of its own.                                                             *)
(***************************************************************************)
EXTENDS Integers, FiniteSets

CONSTANTS
    Faults,     \* what may go wrong in this instance
    MaxLate     \* bound: writes that are accepted or failed and still to land

FaultKinds == {"read", "torn", "reject", "late", "timing", "heat", "load", "wait", "signal", "kill", "refuse"}

ASSUME FaultsAssumption == Faults \subseteq FaultKinds
ASSUME MaxLateAssumption == MaxLate \in Nat

Fans == 0..1
ZeroRpm == 0        \* a target within 1 rpm of zero
MinimumRpm == 1     \* the minimum of the fan, what the SMC itself may set
PlanRpm == 2        \* the target of the trial's plan

Observation == [ftst : 0..1, mode : [Fans -> {0, 1, 3}], target : [Fans -> 0..2]]

\* One key written: "ftst" has no fan (0 stands in for it)
Writes == [key : {"ftst"}, fan : {0}, value : 0..1]
          \cup [key : {"mode"}, fan : Fans, value : {0, 1}]
          \cup [key : {"target"}, fan : Fans, value : {ZeroRpm, PlanRpm}]

Ftst(value) == [key |-> "ftst", fan |-> 0, value |-> value]
Mode(fan, value) == [key |-> "mode", fan |-> fan, value |-> value]
Target(fan, rpm) == [key |-> "target", fan |-> fan, value |-> rpm]

VARIABLES
    hw,     \* what the SMC holds
    late    \* the writes that have not taken effect yet

\* A write that hands a fan, or the lock on the fans, to the trial
Enabling(w) == w.value # 0

Landed(h, w) ==
    CASE w.key = "ftst"   -> [h EXCEPT !.ftst = w.value]
      [] w.key = "mode"   -> [h EXCEPT !.mode[w.fan] = w.value]
      [] w.key = "target" -> [h EXCEPT !.target[w.fan] = w.value]

\* write_key_exact: TRUE only when the transport and the SMC accepted the write.
\* Neither answer tells when, or for a failure whether, it takes effect.
WriteKey(w, ok) ==
    \/ /\ ok
       /\ hw' = Landed(hw, w)
       /\ UNCHANGED late
    \/ /\ ~ok
       /\ "reject" \in Faults
       /\ UNCHANGED <<hw, late>>
    \/ /\ ok \/ "reject" \in Faults
       /\ "late" \in Faults
       /\ Cardinality(late \cup {w}) <= MaxLate
       /\ late' = late \cup {w}
       /\ UNCHANGED hw

-----------------------------------------------------------------------------
\* What the SMC may do of its own accord, as the states it may move to

\* A delayed write takes effect
Landings == {[hw |-> Landed(hw, w), late |-> late \ {w}] : w \in late}

InMode(mode) == {fan \in Fans : hw.mode[fan] = mode}

\* The targets the system sets: none, and under load the minimum
SystemRpm == {ZeroRpm} \cup (IF "load" \in Faults THEN {MinimumRpm} ELSE {})

\* A fan as the system leaves it
Left(fan, mode, rpm) == [hw EXCEPT !.mode[fan] = mode, !.target[fan] = rpm]

\* With Ftst clear the system takes a released fan back
Reclaims ==
    IF hw.ftst = 0
    THEN {Left(fan, 3, rpm) : fan \in InMode(0), rpm \in SystemRpm}
    ELSE {}

\* With Ftst set the system lets go of a fan and leaves it at its minimum
LetsGo ==
    IF hw.ftst = 1
    THEN {Left(fan, 0, MinimumRpm) : fan \in InMode(3)}
    ELSE {}

\* Under load the system runs a fan of its own, and stops it again
Regulates ==
    IF "load" \in Faults
    THEN {Left(fan, 3, rpm) : fan \in InMode(3), rpm \in SystemRpm} \ {hw}
    ELSE {}

Moves == Landings \cup {[hw |-> h, late |-> late] : h \in Reclaims \cup LetsGo \cup Regulates}

SmcStep == \E m \in Moves : hw' = m.hw /\ late' = m.late

\* read_snapshot asks for the keys one after another, the mode of a fan before
\* its target.  A move of the SMC in between is seen whole, not at all, or, when
\* it changes both keys of a fan, as the old mode with the new target.  Bound: one
\* such move within a snapshot.
NoReading == [ftst |-> -1, mode |-> [fan \in Fans |-> -1], target |-> [fan \in Fans |-> -1]]
Reads ==
    {[seen |-> o, hw |-> hw, late |-> late] :
        o \in {hw} \cup (IF "read" \in Faults THEN {NoReading} ELSE {})}
    \cup {[seen |-> [m.hw EXCEPT !.mode = hw.mode], hw |-> m.hw, late |-> m.late] :
            m \in IF "torn" \in Faults THEN Moves ELSE {}}

=============================================================================
