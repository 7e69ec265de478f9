------------------------------ MODULE TrialPlan ------------------------------
(***************************************************************************)
(* The arithmetic of the write trial for one of the two fans: the target   *)
(* trial_make_plan plans from the last snapshot of the preflight, the      *)
(* transport's own check of a target, the word it is encoded into, and     *)
(* what the two checks of a reading make of that word.  The other fan      *)
(* passes through the same steps; a plan needs both.                       *)
(*                                                                         *)
(* Speeds are in eighths of an rpm.  A float holds each of them exactly up *)
(* to 2^21 rpm; fpe2 has two bits behind the point and loses the third.    *)
(***************************************************************************)
EXTENDS Integers

CONSTANT Rpms       \* the speeds a key can hold in this instance, in eighths

ASSUME RpmsAssumption == Rpms \subseteq Int

Rpm == 8
TargetDelta == 300 * Rpm
Words == 65536      \* the values of 16 bits
FixedLimit == 16383 * Rpm
Types == {"flt ", "fpe2", "ui16"}

VARIABLES
    fan,    \* the fan's keys in the snapshot
    plan,   \* plan->target_rpm of the fan, -1 without a plan
    asked,  \* the speed last given to write_target
    word,   \* the word the target key then got
    seen,   \* the target read back
    at

vars == <<fan, plan, asked, word, seen, at>>

Init ==
    /\ fan \in [actual : Rpms, target : Rpms, min : Rpms, max : Rpms, type : Types]
    /\ plan = -1 /\ asked = -1 /\ word = -1 /\ seen = -1
    /\ at = "preflight"

-----------------------------------------------------------------------------
\* fabs(a - b) <= tolerance
Within(a, b, tolerance) == a - b <= tolerance /\ b - a <= tolerance

ValidRange(f) ==
    /\ f.actual >= 0 /\ Within(f.target, 0, Rpm)
    /\ f.min >= 0 /\ f.min < f.max

\* Mutant: the fan's present speed is not looked at
TargetOf_MinimumOnly(f) == f.min + TargetDelta

TargetOf(f) == (IF f.actual > f.min THEN f.actual ELSE f.min) + TargetDelta

\* The fan's part of trial_make_plan
trial_make_plan(f) == ValidRange(f) /\ f.type \in {"flt ", "fpe2"} /\ TargetOf(f) <= f.max

\* trial_target_write_allowed: the tolerance is 0.01 rpm, below one eighth
trial_target_write_allowed(p, rpm) == rpm >= 0 /\ (rpm = 0 \/ (p # -1 /\ rpm = p))

\* Mutant: whole revolutions instead of quarters
trial_encode_rpm_Whole(type, rpm) == IF type = "flt " THEN rpm ELSE (rpm \div Rpm) % Words

\* The word of a speed; fpe2 counts quarters, in 16 bits
trial_encode_rpm(type, rpm) == IF type = "flt " THEN rpm ELSE ((4 * rpm) \div Rpm) % Words

Encodable(type, rpm) == type = "flt " \/ (type = "fpe2" /\ rpm <= FixedLimit)

\* read_number of the target key
read_number(type, w) == IF type = "flt " THEN w ELSE (w * Rpm) \div 4

\* manual_state_matches and system_modes_and_zero_targets, of the target
MatchesPlan(rpm) == Within(rpm, plan, Rpm)
IsZeroTarget(rpm) == Within(rpm, 0, Rpm)

-----------------------------------------------------------------------------
Preflight ==
    /\ at = "preflight"
    /\ IF trial_make_plan(fan) THEN plan' = TargetOf(fan) /\ at' = "planned"
                               ELSE at' = "rejected" /\ UNCHANGED plan
    /\ UNCHANGED <<fan, asked, word, seen>>

\* backend_write_target, whatever speed it is given: the plan's, the zero of a
\* recovery, or one that is neither
WriteTarget(rpm) ==
    /\ at \in {"planned", "read"}
    /\ asked' = rpm
    /\ IF trial_target_write_allowed(plan, rpm) /\ Encodable(fan.type, rpm)
       THEN word' = trial_encode_rpm(fan.type, rpm) /\ at' = "written"
       ELSE at' = "refused" /\ UNCHANGED word
    /\ UNCHANGED <<fan, plan, seen>>

ReadBack ==
    /\ at = "written"
    /\ seen' = read_number(fan.type, word)
    /\ at' = "read"
    /\ UNCHANGED <<fan, plan, asked, word>>

\* A refused plan or write ends the fan's part of the trial
Over == at \in {"rejected", "refused"} /\ UNCHANGED vars

Next == Preflight \/ (\E rpm \in Rpms \cup {plan} : WriteTarget(rpm)) \/ ReadBack \/ Over

Spec == Init /\ [][Next]_vars

-----------------------------------------------------------------------------
\* The variables have their types; a word fits its key.
TypeOK ==
    /\ {plan, asked, seen} \subseteq Int
    /\ fan.type = "fpe2" => word \in -1..Words - 1
    /\ at \in {"preflight", "rejected", "planned", "written", "refused", "read"}

\* What the trial asked for is what its checks find, across the encoding and the
\* reading: a planned target is recognised as the plan's and not as the system's
\* zero, and a zero as the system's and not as the plan's (manual_state_matches,
\* system_modes_and_zero_targets).
ReadingTellsWhatWasAsked ==
    at = "read" => /\ MatchesPlan(seen) <=> asked = plan
                   /\ IsZeroTarget(seen) <=> asked = 0

\* No target other than zero is below the cooling of the snapshot or beyond the
\* fan's own range: at least 299.75 rpm above its speed and its minimum, and not
\* above its maximum (docs/features/manual-fan-control-trial.md, 152).
NeverCoolsLess ==
    at = "read" /\ seen # 0 =>
        /\ seen >= fan.actual + TargetDelta - (Rpm \div 4)
        /\ seen >= fan.min + TargetDelta - (Rpm \div 4)
        /\ seen <= fan.max

=============================================================================
