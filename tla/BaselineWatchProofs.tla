------------------------ MODULE BaselineWatchProofs ------------------------
(***************************************************************************)
(* Proofs about BaselineWatch for a window of any length, any limits of    *)
(* the gaps and any number of starts.                                      *)
(***************************************************************************)
EXTENDS BaselineWatch, TLAPS

Entry == [reading : Readings, at : 0..MaxTime]

-----------------------------------------------------------------------------
(* The inductive invariant.                                                *)

\* The types, with the times of the watch and of the blocks on the clock.
Typed ==
  /\ TypeOK
  /\ \A t \in timers : t.at \in 0..MaxTime

\* The last n + 1 entries of s are a chain of system readings from one time to
\* another.
Chain(s, n, from, to) ==
  /\ Len(s) - n >= 1
  /\ \A i \in (Len(s) - n)..Len(s) : s[i].reading = "system"
  /\ \A i \in (Len(s) - n + 1)..Len(s) : s[i].at - s[i - 1].at \in MinGap..MaxGap
  /\ s[Len(s) - n].at = from
  /\ s[Len(s)].at = to

\* What the reducer's counters stand for: the readings of the window really are in
\* the log, one after another.
WindowIsLogged ==
  watch.status \in {"running", "stable"} =>
    Chain(log, watch.last_second, watch.started, watch.last)

\* A stable watch has counted to the end and long enough.
StableIsComplete ==
  watch.status = "stable" =>
    watch.last_second = LastSecond /\ watch.last - watch.started >= Duration

IInv == Typed /\ OneTimerChain /\ WindowIsLogged /\ StableIsComplete /\ ChangeIsFinal

-----------------------------------------------------------------------------
(* The log.                                                                *)

\* Appending keeps the entries and adds one.
LEMMA Appended ==
  ASSUME NEW s \in Seq(Entry), NEW e \in Entry
  PROVE  /\ Append(s, e) \in Seq(Entry)
         /\ Len(Append(s, e)) = Len(s) + 1
         /\ \A i \in 1..Len(s) : Append(s, e)[i] = s[i]
         /\ Append(s, e)[Len(s) + 1] = e
OBVIOUS

\* A system reading in time makes a chain one longer.
LEMMA ChainGrows ==
  ASSUME NEW s \in Seq(Entry), NEW n \in Nat, NEW from \in Nat, NEW to \in Nat,
         Chain(s, n, from, to),
         NEW at \in 0..MaxTime, at - to \in MinGap..MaxGap
  PROVE  Chain(Append(s, [reading |-> "system", at |-> at]), n + 1, from, at)
<1> DEFINE e == [reading |-> "system", at |-> at]
           u == Append(s, e)
<1>1. e \in Entry BY DEF Entry, Readings
<1>2. /\ Len(u) = Len(s) + 1 /\ Len(s) \in Nat
      /\ \A i \in 1..Len(s) : u[i] = s[i]
      /\ u[Len(s) + 1] = e
  BY <1>1, Appended
<1>3. e.reading = "system" /\ e.at = at OBVIOUS
<1> HIDE DEF u, e
<1>4. Len(u) - (n + 1) = Len(s) - n /\ Len(s) - n >= 1 /\ Len(s) - n <= Len(s)
  BY <1>2 DEF Chain
<1>5. \A i \in (Len(s) - n)..Len(u) : u[i].reading = "system"
  <2> TAKE i \in (Len(s) - n)..Len(u)
  <2>1. CASE i = Len(u) BY <2>1, <1>2, <1>3
  <2>2. CASE i # Len(u)
    <3>1. i \in (Len(s) - n)..Len(s) /\ i \in 1..Len(s) BY <2>2, <1>2, <1>4
    <3>2. u[i] = s[i] BY <3>1, <1>2
    <3> QED BY <3>1, <3>2 DEF Chain
  <2> QED BY <2>1, <2>2
<1>6. \A i \in (Len(s) - n + 1)..Len(u) : u[i].at - u[i - 1].at \in MinGap..MaxGap
  <2> TAKE i \in (Len(s) - n + 1)..Len(u)
  <2>1. CASE i = Len(u)
    <3>1. u[i] = e /\ u[i - 1] = s[Len(s)] BY <2>1, <1>2, <1>4
    <3> QED BY <3>1, <1>3 DEF Chain
  <2>2. CASE i # Len(u)
    <3>1. i \in (Len(s) - n + 1)..Len(s) BY <2>2, <1>2, <1>4
    <3>2. i \in 1..Len(s) /\ i - 1 \in 1..Len(s) BY <3>1, <1>2, <1>4
    <3>3. u[i] = s[i] /\ u[i - 1] = s[i - 1] BY <3>2, <1>2
    <3> QED BY <3>1, <3>3 DEF Chain
  <2> QED BY <2>1, <2>2
<1>7. u[Len(s) - n] = s[Len(s) - n] BY <1>2, <1>4
<1>8. Chain(u, n + 1, from, at)
  BY <1>2, <1>3, <1>4, <1>5, <1>6, <1>7 DEF Chain
<1> QED BY <1>8 DEF u, e

\* One system reading is a chain.
LEMMA ChainStarts ==
  ASSUME NEW s \in Seq(Entry), NEW at \in 0..MaxTime
  PROVE  Chain(Append(s, [reading |-> "system", at |-> at]), 0, at, at)
<1> DEFINE e == [reading |-> "system", at |-> at]
           u == Append(s, e)
<1>1. e \in Entry BY DEF Entry, Readings
<1>2. /\ Len(u) = Len(s) + 1 /\ Len(s) \in Nat
      /\ u[Len(s) + 1] = e
  BY <1>1, Appended
<1>3. e.reading = "system" /\ e.at = at OBVIOUS
<1> HIDE DEF u, e
<1>4. Chain(u, 0, at, at) BY <1>2, <1>3 DEF Chain
<1> QED BY <1>4 DEF u, e

-----------------------------------------------------------------------------
(* The steps.                                                              *)

\* The daemon starts with an empty log and an idle watch.
LEMMA InitIInv == Init => IInv
<1> SUFFICES ASSUME Init PROVE IInv OBVIOUS
<1>1. watch.status = "idle" /\ watch \in Watch
  BY WatchAssumption DEF Init, IdleWatch, Watch
<1>2. log \in Seq(Entry) /\ Len(log) = 0 BY DEF Init
<1>3. Typed
  BY <1>1, <1>2, WatchAssumption DEF Init, Typed, TypeOK, Entry
<1> QED
  BY <1>1, <1>2, <1>3 DEF Init, IInv, OneTimerChain, WindowIsLogged, StableIsComplete, ChangeIsFinal

\* A daemon that died starts again like the first one.
LEMMA CrashIInv == IInv /\ Crash => IInv'
<1> SUFFICES ASSUME IInv, Crash PROVE IInv' OBVIOUS
<1>1. watch'.status = "idle" /\ watch' \in Watch
  BY WatchAssumption DEF Crash, IdleWatch, Watch
<1>2. log' \in Seq(Entry) /\ Len(log') = 0 BY DEF Crash
<1>3. Typed'
  BY <1>1, <1>2, WatchAssumption DEF Crash, IInv, Typed, TypeOK, Entry
<1> QED
  BY <1>1, <1>2, <1>3 DEF Crash, IInv, OneTimerChain, WindowIsLogged, StableIsComplete, ChangeIsFinal

\* Time changes none of it.
LEMMA AdvanceIInv == IInv /\ Advance => IInv'
  BY WatchAssumption DEF Advance, IInv, Typed, TypeOK, OneTimerChain, WindowIsLogged,
     StableIsComplete, ChangeIsFinal

\* A block that reads stays the only one.
LEMMA ReadIInv ==
  ASSUME IInv, NEW t \in timers, NEW r \in Readings, Read(t, r)
  PROVE  IInv'
<1> DEFINE u == [t EXCEPT !.reading = r, !.at = now]
<1>1. t \in Timers /\ now \in 0..MaxTime /\ now \in Nat
  BY WatchAssumption DEF IInv, Typed, TypeOK
<1>2. u \in Timers /\ u.at = now /\ u.second = t.second /\ u.generation = t.generation
  BY <1>1 DEF Timers
<1>3. timers = {t} BY DEF IInv, OneTimerChain
<1>4. timers' = {u} BY <1>3 DEF Read
<1> HIDE DEF u
<1>5. Typed' BY <1>1, <1>2, <1>4 DEF Read, IInv, Typed, TypeOK
<1>6. OneTimerChain' BY <1>2, <1>4 DEF Read, IInv, OneTimerChain
<1>7. WindowIsLogged' /\ StableIsComplete' /\ ChangeIsFinal'
  BY DEF Read, IInv, WindowIsLogged, StableIsComplete, ChangeIsFinal
<1> QED BY <1>5, <1>6, <1>7 DEF IInv

\* A start begins a window with its own first reading; there is no block left of
\* an earlier one.
LEMMA StartIInv ==
  ASSUME IInv, NEW r \in Readings, Start(r)
  PROVE  IInv'
<1> DEFINE e == [reading |-> r, at |-> now]
<1>1. now \in 0..MaxTime /\ now \in Nat /\ log \in Seq(Entry) /\ e \in Entry
  BY WatchAssumption DEF IInv, Typed, TypeOK, Entry
<1>2. timers = {} BY DEF Start, IInv, OneTimerChain
<1>3. /\ watch' \in Watch
      /\ watch'.status \in {"running", "changed", "read_failed"}
      /\ watch'.status = "running" =>
           r = "system" /\ watch'.last_second = 0 /\ watch'.started = now /\ watch'.last = now
      /\ r # "system" => watch'.status \in {"changed", "read_failed"}
  BY <1>1, WatchAssumption DEF Start, baseline_watch_begin, IdleWatch, Watch, Readings
<1>4. generation' = generation + 1 /\ generation' \in 0..MaxStarts /\ generation' \in Nat
  BY WatchAssumption DEF Start, IInv, Typed, TypeOK
<1>5. /\ log' \in Seq(Entry) /\ Len(log') = Len(log) + 1 /\ Len(log) \in Nat
      /\ \A i \in 1..Len(log) : log'[i] = log[i]
      /\ log'[Len(log) + 1] = e
  BY <1>1, Appended DEF Start
<1>6. timers' = IF watch'.status = "running" THEN {Timer(1, generation')} ELSE {}
  BY <1>2 DEF Start
<1>7. Timer(1, generation') \in Timers /\ Timer(1, generation').at = 0
      /\ Timer(1, generation').second = 1 /\ Timer(1, generation').generation = generation'
  BY <1>4 DEF Timer, Timers
<1>8. Typed'
  BY <1>1, <1>3, <1>4, <1>5, <1>6, <1>7, WatchAssumption DEF Start, IInv, Typed, TypeOK, Entry
<1>9. OneTimerChain' BY <1>3, <1>6, <1>7 DEF OneTimerChain
<1>10. WindowIsLogged'
  <2> SUFFICES ASSUME watch'.status \in {"running", "stable"}
               PROVE  Chain(log', watch'.last_second, watch'.started, watch'.last)
    BY DEF WindowIsLogged
  <2>1. r = "system" /\ watch'.last_second = 0 /\ watch'.started = now /\ watch'.last = now
    BY <1>3
  <2> QED BY <1>1, <2>1, ChainStarts DEF Start
<1>11. StableIsComplete' BY <1>3 DEF StableIsComplete
<1>12. ChangeIsFinal'
  <2>1. \A i \in 1..Len(log) : log[i].reading = "system"
    BY DEF IInv, ChangeIsFinal, Start
  <2>2. e.reading = r OBVIOUS
  <2>3. (\E i \in 1..Len(log') : log'[i].reading # "system") => r # "system"
    BY <1>5, <2>1, <2>2
  <2> QED BY <2>3, <1>3 DEF ChangeIsFinal
<1> QED BY <1>8, <1>9, <1>10, <1>11, <1>12 DEF IInv

\* What the reducer makes of one more reading of a running window.
LEMMA NextReading ==
  ASSUME NEW w \in Watch, w.status = "running", NEW r \in Readings, NEW at \in 0..MaxTime
  PROVE  LET v == baseline_watch_next(w, w.last_second + 1, r, at)
         IN  /\ v \in Watch
             /\ v.status \in {"running", "stable", "changed", "read_failed"}
             /\ r # "system" => v.status \in {"changed", "read_failed"}
             /\ v.status \in {"running", "stable"} =>
                  /\ r = "system"
                  /\ v.last_second = w.last_second + 1 /\ v.last = at /\ v.started = w.started
                  /\ at - w.last \in MinGap..MaxGap
             /\ v.status = "stable" =>
                  v.last_second = LastSecond /\ at - w.started >= Duration
<1> DEFINE s == w.last_second + 1
           good == [w EXCEPT !.samples = @ + 1, !.last_second = s, !.last = at,
                 !.status = IF r # "system" THEN "changed"
                            ELSE IF s = LastSecond THEN "stable" ELSE "running"]
           bad == [w EXCEPT !.status = "read_failed"]
<1>1. w.last_second \in Nat /\ w.samples \in Nat /\ w.started \in Nat /\ w.last \in Nat /\ at \in Nat
  BY WatchAssumption DEF Watch
<1>2. bad \in Watch /\ bad.status = "read_failed" BY DEF Watch
<1>3. CASE s > LastSecond \/ r = "failed" \/ ~gap_allowed(w, s, at)
  <2>1. baseline_watch_next(w, s, r, at) = bad BY <1>3 DEF baseline_watch_next
  <2> QED BY <2>1, <1>2 DEF Readings
<1>4. CASE ~(s > LastSecond \/ r = "failed" \/ ~gap_allowed(w, s, at))
  <2>1. baseline_watch_next(w, s, r, at) = good BY <1>4 DEF baseline_watch_next
  <2>2. s \in 0..LastSecond BY <1>1, <1>4, WatchAssumption
  <2>3. at - w.last \in MinGap..MaxGap BY <1>1, <1>4, WatchAssumption DEF gap_allowed
  <2>4. s = LastSecond => at - w.started >= Duration BY <1>4 DEF gap_allowed
  <2>5. good \in Watch
    <3>1. w.samples + 1 \in Nat BY <1>1
    <3> HIDE DEF s
    <3> QED BY <1>1, <2>2, <3>1, Zenon DEF Watch
  <2>6. good.last_second = s /\ good.last = at /\ good.started = w.started
        /\ good.status = IF r # "system" THEN "changed" ELSE IF s = LastSecond THEN "stable" ELSE "running"
    BY DEF Watch
  <2> HIDE DEF good, s
  <2> QED BY <2>1, <2>3, <2>4, <2>5, <2>6 DEF s
<1> QED BY <1>3, <1>4

\* A block that applies finds its own window and either ends it or makes it one
\* reading longer; the generation test never rejects.
LEMMA ApplyIInv ==
  ASSUME IInv, NEW t \in timers, Apply(t)
  PROVE  IInv'
<1>1. /\ t \in Timers /\ t.at \in 0..MaxTime /\ t.reading \in Readings
      /\ watch \in Watch /\ log \in Seq(Entry)
  BY DEF IInv, Typed, TypeOK, Apply, Timers, Entry
<1>2. /\ timers = {t} /\ watch.status = "running" /\ t.generation = generation
      /\ t.second = watch.last_second + 1
  BY DEF IInv, OneTimerChain
<1> DEFINE e == [reading |-> t.reading, at |-> t.at]
           n == Timer(t.second + 1, t.generation)
<1>3. /\ watch' = baseline_watch_next(watch, watch.last_second + 1, t.reading, t.at)
      /\ timers' = IF watch'.status = "running" THEN {n} ELSE {}
      /\ log' = Append(log, e)
      /\ UNCHANGED <<generation, now>>
  BY <1>2 DEF Apply
<1>4. /\ watch' \in Watch
      /\ watch'.status \in {"running", "stable", "changed", "read_failed"}
      /\ t.reading # "system" => watch'.status \in {"changed", "read_failed"}
      /\ watch'.status \in {"running", "stable"} =>
           /\ t.reading = "system"
           /\ watch'.last_second = watch.last_second + 1
           /\ watch'.last = t.at /\ watch'.started = watch.started
           /\ t.at - watch.last \in MinGap..MaxGap
      /\ watch'.status = "stable" =>
           watch'.last_second = LastSecond /\ t.at - watch.started >= Duration
  BY <1>1, <1>2, <1>3, NextReading
<1>5. e \in Entry /\ e.reading = t.reading BY <1>1 DEF Entry
<1>6. /\ log' \in Seq(Entry) /\ Len(log') = Len(log) + 1 /\ Len(log) \in Nat
      /\ \A i \in 1..Len(log) : log'[i] = log[i]
      /\ log'[Len(log) + 1] = e
  BY <1>1, <1>3, <1>5, Appended
<1>7. n \in Timers /\ n.second = t.second + 1 /\ n.generation = t.generation /\ n.at = 0
  BY <1>1, WatchAssumption DEF Timer, Timers
<1>8. Typed'
  <2> HIDE DEF n
  <2> QED BY <1>3, <1>4, <1>6, <1>7, WatchAssumption DEF IInv, Typed, TypeOK, Entry
<1>9. OneTimerChain'
  <2> HIDE DEF n
  <2> QED BY <1>2, <1>3, <1>4, <1>7 DEF OneTimerChain
<1>10. WindowIsLogged'
  <2> SUFFICES ASSUME watch'.status \in {"running", "stable"}
               PROVE  Chain(log', watch'.last_second, watch'.started, watch'.last)
    BY DEF WindowIsLogged
  <2>1. watch.last_second \in Nat /\ watch.started \in Nat /\ watch.last \in Nat
    BY <1>1, WatchAssumption DEF Watch
  <2>2. Chain(log, watch.last_second, watch.started, watch.last)
    BY <1>2 DEF IInv, WindowIsLogged
  <2>3. Chain(log', watch.last_second + 1, watch.started, t.at)
    BY <1>1, <1>3, <1>4, <2>1, <2>2, ChainGrows
  <2> QED BY <2>3, <1>4
<1>11. StableIsComplete' BY <1>4 DEF StableIsComplete
<1>12. ChangeIsFinal'
  <2>1. \A i \in 1..Len(log) : log[i].reading = "system"
    BY <1>2 DEF IInv, ChangeIsFinal
  <2>2. (\E i \in 1..Len(log') : log'[i].reading # "system") => t.reading # "system"
    BY <1>5, <1>6, <2>1
  <2> QED BY <2>2, <1>4 DEF ChangeIsFinal
<1> QED BY <1>8, <1>9, <1>10, <1>11, <1>12 DEF IInv

\* Every step of the daemon keeps the invariant.
LEMMA NextIInv == IInv /\ [Next]_vars => IInv'
<1> SUFFICES ASSUME IInv, [Next]_vars PROVE IInv' OBVIOUS
<1>1. CASE UNCHANGED vars
  BY <1>1 DEF vars, IInv, Typed, TypeOK, OneTimerChain, WindowIsLogged, StableIsComplete, ChangeIsFinal
<1>2. CASE Advance BY <1>2, AdvanceIInv
<1>3. CASE Crash BY <1>3, CrashIInv
<1>4. CASE \E r \in Readings : Start(r) BY <1>4, StartIInv
<1>5. CASE \E t \in timers : Apply(t) BY <1>5, ApplyIInv
<1>6. CASE \E t \in timers, r \in Readings : Read(t, r) BY <1>6, ReadIInv
<1> QED BY <1>1, <1>2, <1>3, <1>4, <1>5, <1>6 DEF Next

\* The invariant of every behaviour.
LEMMA SpecIInv == Spec => []IInv
BY InitIInv, NextIInv, PTL DEF Spec

-----------------------------------------------------------------------------
(* The theorems.                                                           *)

\* There is never a second chain of timer blocks, whatever start requests come
\* between the reading of a block and its application (start, scheduleSecond).
THEOREM OneChain == Spec => []OneTimerChain
<1>1. IInv => OneTimerChain BY DEF IInv
<1> QED BY <1>1, SpecIInv, PTL

\* "stable" is reported only for a whole window of system readings, of any length
\* and with any limits, one sleep included (baseline_watch_next).
THEOREM StableWindow == Spec => []StableIsWholeWindow
<1>1. IInv => StableIsWholeWindow
  BY DEF IInv, WindowIsLogged, StableIsComplete, StableIsWholeWindow, Chain
<1> QED BY <1>1, SpecIInv, PTL

\* A change or a failed reading decides the watch for the life of the daemon
\* (start keeps it, a late block cannot hide it).
THEOREM ChangeDecides == Spec => []ChangeIsFinal
<1>1. IInv => ChangeIsFinal BY DEF IInv
<1> QED BY <1>1, SpecIInv, PTL
=============================================================================
