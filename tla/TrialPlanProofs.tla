-------------------------- MODULE TrialPlanProofs --------------------------
(***************************************************************************)
(* Proofs about TrialPlan for every set of speeds.                         *)
(***************************************************************************)
EXTENDS TrialPlan, TLAPS

-----------------------------------------------------------------------------
(* The inductive invariant.                                                *)

Fan == [actual : Int, target : Int, min : Int, max : Int, type : Types]

\* A plan comes from the snapshot it was made of.
PlanIsOfSnapshot ==
    at \in {"planned", "written", "refused", "read"} => trial_make_plan(fan) /\ plan = TargetOf(fan)

\* A word in the key encodes one of the two speeds the transport lets through.
WordIsAllowed ==
    at \in {"written", "read"} =>
        /\ asked \in {0, plan} /\ Encodable(fan.type, asked)
        /\ word = trial_encode_rpm(fan.type, asked)

ReadIsOfWord == at = "read" => seen = read_number(fan.type, word)

IInv ==
    /\ fan \in Fan
    /\ {plan, asked, seen} \subseteq Int
    /\ at \in {"preflight", "rejected", "planned", "written", "refused", "read"}
    /\ PlanIsOfSnapshot /\ WordIsAllowed /\ ReadIsOfWord

-----------------------------------------------------------------------------
(* The arithmetic.                                                         *)

\* A planned target lies beyond every tolerance around zero.
LEMMA PlanIsFarFromZero ==
    ASSUME NEW f \in Fan, trial_make_plan(f)
    PROVE  /\ TargetOf(f) \in Nat /\ TargetOf(f) >= TargetDelta
           /\ TargetOf(f) >= f.actual + TargetDelta
           /\ TargetOf(f) >= f.min + TargetDelta
           /\ TargetOf(f) <= f.max
<1>1. f.actual \in Int /\ f.min \in Int /\ f.max \in Int BY DEF Fan
<1>2. f.actual >= 0 /\ f.min >= 0 /\ TargetOf(f) <= f.max BY DEF trial_make_plan, ValidRange
<1>3. TargetDelta = 2400 BY DEF TargetDelta, Rpm
<1>4. TargetOf(f) = (IF f.actual > f.min THEN f.actual ELSE f.min) + 2400 BY <1>3 DEF TargetOf
<1> QED BY <1>1, <1>2, <1>3, <1>4

\* A speed that can be encoded is read back to within an eighth, and never higher.
LEMMA ReadBackIsClose ==
    ASSUME NEW type \in Types, NEW rpm \in Nat, Encodable(type, rpm)
    PROVE  LET r == read_number(type, trial_encode_rpm(type, rpm))
           IN  r \in Int /\ r <= rpm /\ rpm <= r + 1
<1>1. CASE type = "flt "
  <2>1. trial_encode_rpm(type, rpm) = rpm BY <1>1 DEF trial_encode_rpm
  <2>2. read_number(type, rpm) = rpm BY <1>1 DEF read_number
  <2> QED BY <2>1, <2>2
<1>2. CASE type # "flt "
  <2>1. rpm <= 16383 * 8
    <3>1. rpm <= FixedLimit BY <1>2, Zenon DEF Encodable
    <3> QED BY <3>1 DEF FixedLimit, Rpm
  <2> DEFINE q == (4 * rpm) \div 8
  <2>2. q \in Nat /\ 8 * q <= 4 * rpm /\ 4 * rpm < 8 * q + 8 OBVIOUS
  <2>3. q < 65536 BY <2>1, <2>2
  <2>4. q % 65536 = q BY <2>2, <2>3
  <2> HIDE DEF q
  <2>5. (q * 8) \div 4 = 2 * q BY <2>2
  <2>6. trial_encode_rpm(type, rpm) = q
    <3>1. trial_encode_rpm(type, rpm) = ((4 * rpm) \div Rpm) % Words
      BY <1>2 DEF trial_encode_rpm
    <3>2. ((4 * rpm) \div Rpm) % Words = q % 65536 BY DEF Rpm, Words, q
    <3> QED BY <3>1, <3>2, <2>4
  <2>7. read_number(type, trial_encode_rpm(type, rpm)) = 2 * q
    BY <1>2, <2>5, <2>6 DEF read_number, Rpm
  <2> QED BY <2>2, <2>7
<1> QED BY <1>1, <1>2

\* Zero is read back as zero.
LEMMA ZeroIsReadBack ==
    ASSUME NEW type \in Types
    PROVE  read_number(type, trial_encode_rpm(type, 0)) = 0
BY DEF read_number, trial_encode_rpm, Words, Rpm

-----------------------------------------------------------------------------
(* The steps.                                                              *)

\* Any snapshot, no plan.
LEMMA InitIInv == Init => IInv
<1> SUFFICES ASSUME Init PROVE IInv OBVIOUS
<1>1. fan \in Fan BY RpmsAssumption, Zenon DEF Init, Fan
<1> QED BY <1>1 DEF Init, IInv, PlanIsOfSnapshot, WordIsAllowed, ReadIsOfWord, Words

\* The plan is made of the snapshot or not at all.
LEMMA PreflightIInv == IInv /\ Preflight => IInv'
<1> SUFFICES ASSUME IInv, Preflight PROVE IInv' OBVIOUS
<1>1. fan \in Fan BY DEF IInv
<1>2. trial_make_plan(fan) => TargetOf(fan) \in Int BY <1>1, PlanIsFarFromZero
<1> QED BY <1>2 DEF IInv, Preflight, PlanIsOfSnapshot, WordIsAllowed, ReadIsOfWord

\* The transport lets the plan and zero through and refuses the rest.
LEMMA WriteTargetIInv ==
    ASSUME IInv, NEW rpm \in Rpms \cup {plan}, WriteTarget(rpm)
    PROVE  IInv'
<1>1. rpm \in Int BY RpmsAssumption DEF IInv
<1>2. at' = "written" => rpm \in {0, plan} BY DEF WriteTarget, trial_target_write_allowed
<1> QED
  BY <1>1, <1>2 DEF IInv, WriteTarget, PlanIsOfSnapshot, WordIsAllowed, ReadIsOfWord

\* A reading shows what the key holds.
LEMMA ReadBackIInv == IInv /\ ReadBack => IInv'
<1> SUFFICES ASSUME IInv, ReadBack PROVE IInv' OBVIOUS
<1>1. fan \in Fan /\ fan.type \in Types BY DEF IInv, Fan
<1>2. asked \in {0, plan} /\ plan = TargetOf(fan) /\ trial_make_plan(fan)
  BY DEF IInv, ReadBack, WordIsAllowed, PlanIsOfSnapshot
<1>3. asked \in Nat BY <1>1, <1>2, PlanIsFarFromZero
<1>4. Encodable(fan.type, asked) /\ word = trial_encode_rpm(fan.type, asked)
  BY DEF IInv, ReadBack, WordIsAllowed
<1>5. read_number(fan.type, word) \in Int BY <1>1, <1>3, <1>4, ReadBackIsClose
<1> QED BY <1>5 DEF IInv, ReadBack, PlanIsOfSnapshot, WordIsAllowed, ReadIsOfWord

\* The invariant of every behaviour.
LEMMA SpecIInv == Spec => []IInv
<1>1. IInv /\ [Next]_vars => IInv'
  <2> SUFFICES ASSUME IInv, [Next]_vars PROVE IInv' OBVIOUS
  <2>1. CASE UNCHANGED vars
    BY <2>1 DEF vars, IInv, PlanIsOfSnapshot, WordIsAllowed, ReadIsOfWord
  <2>2. CASE Over
    BY <2>2 DEF Over, vars, IInv, PlanIsOfSnapshot, WordIsAllowed, ReadIsOfWord
  <2>3. CASE Preflight BY <2>3, PreflightIInv
  <2>4. CASE \E rpm \in Rpms \cup {plan} : WriteTarget(rpm) BY <2>4, WriteTargetIInv
  <2>5. CASE ReadBack BY <2>5, ReadBackIInv
  <2> QED BY <2>1, <2>2, <2>3, <2>4, <2>5 DEF Next
<1> QED BY <1>1, InitIInv, PTL DEF Spec

-----------------------------------------------------------------------------
(* The theorems.                                                           *)

\* The facts about a reading that both theorems need.
LEMMA WhatIsRead ==
    ASSUME IInv, at = "read"
    PROVE  /\ asked \in {0, plan} /\ seen \in Int /\ plan \in Nat /\ plan >= 2400
           /\ asked = 0 => seen = 0
           /\ asked = plan => seen <= plan /\ plan <= seen + 1
<1>1. fan \in Fan /\ fan.type \in Types /\ trial_make_plan(fan) /\ plan = TargetOf(fan)
  BY DEF IInv, PlanIsOfSnapshot, Fan
<1>2. plan \in Nat /\ plan >= 2400 BY <1>1, PlanIsFarFromZero DEF TargetDelta, Rpm
<1>3. /\ asked \in {0, plan} /\ Encodable(fan.type, asked)
      /\ seen = read_number(fan.type, trial_encode_rpm(fan.type, asked))
  BY DEF IInv, WordIsAllowed, ReadIsOfWord
<1>4. seen \in Int /\ seen <= asked /\ asked <= seen + 1 BY <1>1, <1>2, <1>3, ReadBackIsClose
<1>5. asked = 0 => seen = 0 BY <1>1, <1>3, ZeroIsReadBack
<1> QED BY <1>2, <1>3, <1>4, <1>5

\* For every snapshot and every request, the two checks of a reading find the plan
\* exactly when the plan was asked for, and zero exactly when zero was
\* (trial_encode_rpm, read_number and the tolerances of 1 rpm).
THEOREM ReadingTells == Spec => []ReadingTellsWhatWasAsked
<1>1. IInv => ReadingTellsWhatWasAsked
  BY WhatIsRead DEF ReadingTellsWhatWasAsked, MatchesPlan, IsZeroTarget, Within, Rpm
<1> QED BY <1>1, SpecIInv, PTL

\* For every snapshot, a target that is not zero cools more than the snapshot did
\* and stays within the fan's range (trial_make_plan, trial_encode_rpm).
THEOREM CoolsMore == Spec => []NeverCoolsLess
<1>1. IInv => NeverCoolsLess
  <2> SUFFICES ASSUME IInv, at = "read", seen # 0
               PROVE  /\ seen >= fan.actual + TargetDelta - (Rpm \div 4)
                      /\ seen >= fan.min + TargetDelta - (Rpm \div 4)
                      /\ seen <= fan.max
    BY DEF NeverCoolsLess
  <2>1. asked = plan /\ seen \in Int /\ seen <= plan /\ plan <= seen + 1 BY WhatIsRead
  <2>2. fan \in Fan /\ trial_make_plan(fan) /\ plan = TargetOf(fan) BY DEF IInv, PlanIsOfSnapshot
  <2>3. /\ plan \in Nat /\ plan >= fan.actual + TargetDelta
        /\ plan >= fan.min + TargetDelta /\ plan <= fan.max
    BY <2>2, PlanIsFarFromZero
  <2>4. Rpm \div 4 = 2 BY DEF Rpm
  <2>5. TargetDelta = 2400 /\ fan.actual \in Int /\ fan.min \in Int /\ fan.max \in Int
    BY <2>2 DEF TargetDelta, Rpm, Fan
  <2> QED BY <2>1, <2>3, <2>4, <2>5
<1> QED BY <1>1, SpecIInv, PTL
=============================================================================
