--------------------------- MODULE BaselineWatch ---------------------------
(***************************************************************************)
(* The delayed-change watch of the daemon: the reducer BaselineWatch.c and *)
(* its driver BaselineWatchController.m.  A timer block reads the fans     *)
(* outside the controller's lock and applies the reading inside it, so a   *)
(* start request, the end of the machine's sleep or another block may come *)
(* between the two.                                                        *)
(***************************************************************************)
EXTENDS Integers, Sequences

CONSTANTS
  LastSecond,   \* BASELINE_WATCH_LAST_SECOND (60)
  MinGap,       \* BASELINE_WATCH_MIN_GAP_NS (0.9 s)
  MaxGap,       \* BASELINE_WATCH_MAX_GAP_NS (5 s)
  Duration,     \* BASELINE_WATCH_DURATION_NS (60 s)
  MaxTime,      \* bound on the continuous clock
  MaxStarts     \* bound on accepted start requests

ASSUME WatchAssumption ==
  /\ LastSecond \in Nat \ {0}
  /\ MinGap \in Nat \ {0} /\ MaxGap \in Nat /\ MinGap <= MaxGap
  /\ Duration \in Nat /\ MaxTime \in Nat \ {0} /\ MaxStarts \in Nat

VARIABLES
  watch,       \* the reducer's record
  generation,  \* _generation: accepted starts
  timers,      \* timer blocks that wait, or have read and not applied
  now,         \* CLOCK_MONOTONIC_RAW, which goes on during sleep
  log          \* history: the readings applied in the life of this daemon

vars == <<watch, generation, timers, now, log>>

Readings == {"system", "manual", "failed"}

Watch == [status : {"idle", "running", "stable", "changed", "read_failed"}, samples : Nat,
          last_second : 0..LastSecond, started : Nat, last : Nat]

IdleWatch == [status |-> "idle", samples |-> 0, last_second |-> 0, started |-> 0, last |-> 0]

\* A block waits for its second, then holds its reading and the time it has.
Timers == [second : Nat, generation : Nat, reading : Readings \cup {"none"}, at : Nat]

Timer(second, gen) == [second |-> second, generation |-> gen, reading |-> "none", at |-> 0]

-----------------------------------------------------------------------------
baseline_watch_begin(r, at) ==
  IF r = "failed" \/ at = 0 THEN [IdleWatch EXCEPT !.status = "read_failed"]
  ELSE [status |-> IF r = "system" THEN "running" ELSE "changed", samples |-> 1,
        last_second |-> 0, started |-> at, last |-> at]

\* Mutant: only the number of readings is checked, as a timer that stops during
\* sleep would suggest.
gap_allowed_by_count(w, second, at) == at > w.last

gap_allowed(w, second, at) ==
  /\ at > w.last /\ at - w.last >= MinGap /\ at - w.last <= MaxGap
  /\ second = LastSecond => at - w.started >= Duration

baseline_watch_next(w, second, r, at) ==
  IF w.status # "running" THEN w
  ELSE IF second # w.last_second + 1 \/ second > LastSecond \/ r = "failed"
          \/ ~gap_allowed(w, second, at)
    THEN [w EXCEPT !.status = "read_failed"]
  ELSE [w EXCEPT !.samples = @ + 1, !.last_second = second, !.last = at,
                 !.status = IF r # "system" THEN "changed"
                            ELSE IF second = LastSecond THEN "stable" ELSE "running"]

-----------------------------------------------------------------------------
Init ==
  /\ watch = IdleWatch
  /\ generation = 0
  /\ timers = {}
  /\ now = 1
  /\ log = << >>

\* Mutant: a request during a running window starts another one.
Start_while_running(r) ==
  /\ watch.status \notin {"changed", "read_failed"}
  /\ generation < MaxStarts
  /\ watch' = baseline_watch_begin(r, now)
  /\ generation' = generation + 1
  /\ timers' = timers \cup (IF watch'.status = "running" THEN {Timer(1, generation')} ELSE {})
  /\ log' = Append(log, [reading |-> r, at |-> now])
  /\ UNCHANGED now

\* Mutant: a new request forgets a detected change.
Start_after_change(r) ==
  /\ watch.status # "running"
  /\ generation < MaxStarts
  /\ watch' = baseline_watch_begin(r, now)
  /\ generation' = generation + 1
  /\ timers' = timers \cup (IF watch'.status = "running" THEN {Timer(1, generation')} ELSE {})
  /\ log' = Append(log, [reading |-> r, at |-> now])
  /\ UNCHANGED now

\* start: a running window and a detected change or failure are kept.
Start(r) ==
  /\ watch.status \notin {"running", "changed", "read_failed"}
  /\ generation < MaxStarts
  /\ watch' = baseline_watch_begin(r, now)
  /\ generation' = generation + 1
  /\ timers' = timers \cup (IF watch'.status = "running" THEN {Timer(1, generation')} ELSE {})
  /\ log' = Append(log, [reading |-> r, at |-> now])
  /\ UNCHANGED now

\* scheduleSecond: the block reads without the lock ...
Read(t, r) ==
  /\ t.reading = "none"
  /\ timers' = (timers \ {t}) \cup {[t EXCEPT !.reading = r, !.at = now]}
  /\ UNCHANGED <<watch, generation, now, log>>

\* Mutant: a block that finds a failed reading waits for the next second.
Apply_retries_failure(t) ==
  /\ t.reading # "none"
  /\ IF t.reading = "failed"
       THEN timers' = (timers \ {t}) \cup {Timer(t.second, t.generation)} /\ UNCHANGED <<watch, log>>
       ELSE /\ watch' = baseline_watch_next(watch, t.second, t.reading, t.at)
            /\ timers' = (timers \ {t}) \cup (IF watch'.status = "running"
                           THEN {Timer(t.second + 1, t.generation)} ELSE {})
            /\ log' = Append(log, [reading |-> t.reading, at |-> t.at])
  /\ UNCHANGED <<generation, now>>

\* ... and applies under it, unless the watch is no longer its own.
Apply(t) ==
  /\ t.reading # "none"
  /\ IF generation # t.generation \/ watch.status # "running"
       THEN timers' = timers \ {t} /\ UNCHANGED <<watch, log>>
       ELSE /\ watch' = baseline_watch_next(watch, t.second, t.reading, t.at)
            /\ timers' = (timers \ {t}) \cup (IF watch'.status = "running"
                           THEN {Timer(t.second + 1, t.generation)} ELSE {})
            /\ log' = Append(log, [reading |-> t.reading, at |-> t.at])
  /\ UNCHANGED <<generation, now>>

\* Time passes: the second of a timer, a slow read, or the machine's sleep.
Advance == now < MaxTime /\ now' = now + 1 /\ UNCHANGED <<watch, generation, timers, log>>

\* The daemon dies; launchd starts a new one with an empty memory.
Crash ==
  /\ watch' = IdleWatch /\ generation' = 0 /\ timers' = {} /\ log' = << >>
  /\ UNCHANGED now

Next ==
  \/ Advance \/ Crash
  \/ \E r \in Readings : Start(r)
  \/ \E t \in timers : Apply(t) \/ \E r \in Readings : Read(t, r)

Spec == Init /\ [][Next]_vars

\* Queued blocks run: dispatch_after fires, and a block that read goes on.
FairSpec == Spec /\ WF_vars(\E t \in timers : Apply(t) \/ \E r \in Readings : Read(t, r))

-----------------------------------------------------------------------------
\* The type invariant: last_second and the timers stay within the window.
TypeOK ==
  /\ watch \in Watch
  /\ generation \in 0..MaxStarts
  /\ timers \subseteq Timers
  /\ now \in 0..MaxTime
  /\ log \in Seq([reading : Readings, at : 0..MaxTime])

\* "stable" is a whole window of one start and one daemon: the last LastSecond + 1
\* applied readings are all of the system, no two further apart than MaxGap on the
\* clock that sleep does not stop, and cover at least Duration.
StableIsWholeWindow ==
  LET first == Len(log) - LastSecond
  IN  watch.status = "stable" =>
        /\ first >= 1
        /\ \A i \in first..Len(log) : log[i].reading = "system"
        /\ \A i \in (first + 1)..Len(log) : log[i].at - log[i - 1].at \in MinGap..MaxGap
        /\ log[Len(log)].at - log[first].at >= Duration

\* One chain of timers: whatever start requests come between reading and applying,
\* no second chain exists, so that no window is fed twice and the generation test
\* in the block never has anything to reject.
OneTimerChain ==
  \A t \in timers : watch.status = "running" /\ t.generation = generation
                    /\ t.second = watch.last_second + 1 /\ timers = {t}

\* One reading that was not the system's, ever applied by this daemon, decides the
\* watch for good: no later start, late block or quiet window hides it.
ChangeIsFinal ==
  (\E i \in 1..Len(log) : log[i].reading # "system") => watch.status \in {"changed", "read_failed"}

\* A running window ends under every interleaving of blocks: in time as stable,
\* otherwise as changed or read_failed (scheduleSecond).
WindowEnds == watch.status = "running" ~> watch.status # "running"
=============================================================================
