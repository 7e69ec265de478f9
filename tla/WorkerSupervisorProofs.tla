----------------------- MODULE WorkerSupervisorProofs -----------------------
(***************************************************************************)
(* Proofs about WorkerSupervisor for any number of runners, pids, lock     *)
(* files and faults, and any window.                                       *)
(***************************************************************************)
EXTENDS WorkerSupervisor, TLAPS

-----------------------------------------------------------------------------
(* The inductive invariant: shapes.  What a clock has counted up to is left *)
(* open: no safety property depends on the range of the time.              *)

LeaseShape ==
  [state : LeaseStates, owner : Owners \cup {0}, expires_at : Int, observation_started : Int,
   last_sample : Int, samples : Nat, write_pending : BOOLEAN, recovery_verified : BOOLEAN]

RunnerShape ==
  [pc : Steps, goal : {"none", "baseline", "run", "resume", "cleanup"}, phase : Phases,
   lease : LeaseShape, now : Int, latest : Readings, fd : Inodes \cup {0}, flocked : BOOLEAN,
   child : Pids \cup {NoPid}, samples : Nat, reaped : BOOLEAN, exited_ok : BOOLEAN,
   result : Results]

ProcessShape ==
  [state : {"free", "foreign", "blocked", "running", "zombie"},
   role : Phases, parent : Runners \cup {"none"}, inode : Inodes \cup {0},
   grant : BOOLEAN, connected : BOOLEAN, stalled : BOOLEAN, killed : BOOLEAN,
   left : Int, exit : {"none", "ok", "failed"}]

Shaped ==
  /\ run \in [Runners -> RunnerShape]
  /\ proc \in [Pids -> ProcessShape]
  /\ pipe \in [Runners -> Seq(Readings)]
  /\ lockFile \in Inodes \cup {0}
  /\ seen \in Nat

-----------------------------------------------------------------------------
(* The inductive invariant: the lock.                                      *)

\* The steps of a runner that has forked its worker, of one that is in a phase, of one
\* that owns the directory, and of one that has the lock.
Spawned == {"record", "grant", "wait", "stop", "reap"}
Working == Spawned \cup {"fork", "clear"}
Owning  == Working \cup {"owned", "unlink_lock"}
Locking == Owning \cup {"check", "finish", "sync_cleanup"}

HasChild(r) == run[r].pc \in Spawned /\ ~run[r].reaped

\* A runner has the lock from flock to its return, and the file open from open on.
LockIsHeld ==
  \A r \in Runners :
    /\ run[r].flocked <=> run[r].pc \in Locking
    /\ run[r].fd # 0 <=> run[r].pc \in Locking \cup {"flock"}

\* One runner has a file locked, and what lives with its lock is the worker of its
\* present phase.
LockIsExclusive ==
  \A r \in Runners : run[r].flocked =>
    /\ \A s \in Runners : run[s].flocked /\ run[s].fd = run[r].fd => s = r
    /\ \A p \in Pids : Alive(p) /\ proc[p].inode = run[r].fd =>
         /\ HasChild(r) /\ run[r].child = p
         /\ proc[p].parent = r /\ proc[p].role = run[r].phase

\* Owners of the directory and living workers have the file that is named.
OwnerIsNamed ==
  /\ \A r \in Runners : run[r].pc \in Owning => run[r].fd = lockFile
  /\ \A p \in Pids : Alive(p) => proc[p].inode = lockFile /\ lockFile # 0

\* A phase is entered by an owner, its worker has a pid, and reaped workers are
\* waited for no longer.
PhaseIsOwned ==
  \A r \in Runners :
    /\ run[r].phase # "none" => run[r].pc \in Working
    /\ run[r].pc \in Working \ {"wait", "clear"} => ~run[r].reaped
    /\ HasChild(r) => run[r].child \in Pids

LockInv == LockIsHeld /\ LockIsExclusive /\ OwnerIsNamed /\ PhaseIsOwned /\ AtMostOneWorker

-----------------------------------------------------------------------------
(* The inductive invariant: the marker and the fans.                       *)

Pending == marker = "pending" /\ disk = "pending"

\* Fans that were taken, may have been or may still be taken are covered.
FansAreMarked ==
  /\ hw = "manual" => Pending
  /\ exposed => Pending
  /\ \A p \in Pids : Alive(p) /\ proc[p].role = "operate" => Pending

-----------------------------------------------------------------------------
(* The inductive invariant: what holds of each runner.                     *)

\* A worker is granted after it is recorded.
GrantFollowsRecord(r) ==
  /\ run[r].pc = "record" /\ Alive(run[r].child) => ~proc[run[r].child].grant
  /\ run[r].pc = "grant" => record = run[r].child /\ recordDisk = run[r].child

\* The steps of a runner before its window fails.
Reading == {"fork", "record", "grant", "wait"}

\* An operation has a marker and a lease; the lease of a runner on its way to a
\* verification has lost its owner.
LeaseIsLost(r) ==
  LET R == run[r] IN
  /\ R.phase = "operate" => Pending /\ held_by(R.lease, R.lease.owner)
  /\ \/ R.phase = "recover"
     \/ R.phase = "verify" /\ R.pc \in Reading /\ R.samples = 0
     \/ R.goal = "resume" /\ R.pc \in {"open", "flock", "check", "finish", "owned"}
     => R.lease.state = "recovery_required"

\* A verification that has begun saw the fans with the system, and so did whatever
\* is still in its pipe.
VerifiedIsSystem(r) ==
  LET R == run[r] IN
  /\ R.phase = "verify" /\ R.samples > 0 => hw = "system"
  /\ R.phase = "verify" =>
       \A i \in 1..Len(pipe[r]) : smc_baseline_is_system(pipe[r][i]) => hw = "system"
  /\ R.pc = "clear" => R.phase = "verify" /\ R.samples > 0

\* The lease counts what its runner counts until the window is complete.
LeaseCounts(r) ==
  LET R == run[r] IN
  R.phase = "verify" /\ R.pc = "wait" /\ R.samples > 0 =>
    \/ R.lease.state = "verifying_recovery" /\ R.lease.samples = R.samples
    \/ R.lease.state = "stable" /\ R.samples >= RequiredSamples

AllSystem(readings) == \A i \in 1..Len(readings) : smc_baseline_is_system(readings[i])

\* What a verification has accepted, and what it may still accept, was shown in a row.
WindowIsSeen(r) ==
  LET R == run[r] IN
  /\ R.phase = "verify" /\ R.pc \in {"fork", "record", "grant"} =>
       R.samples = 0 /\ pipe[r] = << >>
  /\ /\ R.phase = "verify" /\ R.pc = "wait"
     /\ R.samples <= RequiredSamples /\ AllSystem(pipe[r])
     => seen >= R.samples + Len(pipe[r])
  /\ R.pc = "clear" => seen >= RequiredSamples

RunnerInv(r) ==
  /\ GrantFollowsRecord(r) /\ LeaseIsLost(r) /\ VerifiedIsSystem(r)
  /\ LeaseCounts(r) /\ WindowIsSeen(r)

IInv ==
  /\ Shaped /\ LockInv
  /\ GrantedIsRecorded /\ FansAreMarked
  /\ \A r \in Runners : RunnerInv(r)

-----------------------------------------------------------------------------
(* Shapes of leases.                                                       *)

\* The zeroed lease.
LEMMA ZeroShape == ZeroLease \in LeaseShape
<1>1. 0 \in Int /\ 0 \in Nat OBVIOUS
<1> QED BY <1>1, Zenon DEF ZeroLease, LeaseShape, LeaseStates

\* The three changes the reducer is made of.
LEMMA ChangeShape ==
  ASSUME NEW l \in LeaseShape
  PROVE  /\ require_recovery(l) \in LeaseShape /\ require_recovery(l).state = "recovery_required"
         /\ read_failed(l) \in LeaseShape /\ read_failed(l).state = "read_failed"
         /\ \A b \in BOOLEAN : /\ [l EXCEPT !.write_pending = b] \in LeaseShape
                               /\ [l EXCEPT !.recovery_verified = b] \in LeaseShape
         /\ \A state \in LeaseStates, now \in Int :
              /\ open_window(l, state, now) \in LeaseShape
              /\ open_window(l, state, now).state = state
              /\ open_window(l, state, now).samples = 1
<1>1. 0 \in Int /\ 1 \in Nat OBVIOUS
<1>2. require_recovery(l) \in LeaseShape
  BY <1>1, Zenon DEF require_recovery, LeaseShape, LeaseStates
<1>3. read_failed(l) \in LeaseShape BY Zenon DEF read_failed, LeaseShape, LeaseStates
<1>4. \A b \in BOOLEAN : /\ [l EXCEPT !.write_pending = b] \in LeaseShape
                         /\ [l EXCEPT !.recovery_verified = b] \in LeaseShape
  BY DEF LeaseShape
<1>5. \A state \in LeaseStates, now \in Int : open_window(l, state, now) \in LeaseShape
  BY <1>1, Zenon DEF open_window, LeaseShape
<1> QED
  BY <1>2, <1>3, <1>4, <1>5 DEF require_recovery, read_failed, open_window, LeaseShape

\* A window that is started.
LEMMA StartShape ==
  ASSUME NEW intent, NEW r, NEW now \in Int
  PROVE  /\ control_lease_start(intent, r, now) \in LeaseShape
         /\ intent = "pending" => control_lease_start(intent, r, now).state = "recovery_required"
<1>1. [ZeroLease EXCEPT !.write_pending = TRUE] \in LeaseShape BY ZeroShape, ChangeShape
<1>2. "observing" \in LeaseStates BY DEF LeaseStates
<1> QED BY <1>1, <1>2, ZeroShape, ChangeShape DEF control_lease_start

\* A sample.  It keeps count while it keeps the window open.
LEMMA SampleShape ==
  ASSUME NEW l \in LeaseShape, NEW r, NEW now \in Int
  PROVE  LET m == control_lease_sample(l, r, now) IN
         /\ m \in LeaseShape
         /\ l.state = "verifying_recovery" /\ m.state \in {"verifying_recovery", "stable"} =>
              /\ smc_baseline_is_system(r) /\ m.samples = l.samples + 1
              /\ m.state = "stable" => m.samples >= RequiredSamples
         /\ l.state = "stable" => m = l
<1> DEFINE counted == [l EXCEPT !.last_sample = now, !.samples = @ + 1]
           done == [counted EXCEPT !.recovery_verified = (l.state = "verifying_recovery"),
                                   !.state = "stable", !.write_pending = FALSE,
                                   !.owner = 0, !.expires_at = 0]
<1>1. l.samples + 1 \in Nat /\ 0 \in Int BY DEF LeaseShape
<1>2. /\ counted \in LeaseShape
      /\ counted.state = l.state /\ counted.samples = l.samples + 1
  <2>1. counted \in LeaseShape BY <1>1, Zenon DEF LeaseShape
  <2> QED BY <2>1 DEF LeaseShape
<1>3. (l.state = "verifying_recovery") \in BOOLEAN OBVIOUS
<1> HIDE DEF counted
<1>4. /\ done \in LeaseShape /\ done.state = "stable" /\ done.samples = counted.samples
  <2>1. done \in LeaseShape BY <1>1, <1>2, <1>3, Zenon DEF LeaseShape, LeaseStates
  <2> QED BY <1>2, <2>1 DEF LeaseShape
<1>5. control_lease_sample(l, r, now) =
        IF ~observing(l) THEN l
        ELSE IF ~sample_in_time(l, r, now) THEN read_failed(l)
        ELSE IF ~smc_baseline_is_system(r) THEN require_recovery(counted)
        ELSE IF window_complete(counted) THEN done
        ELSE counted
  BY DEF control_lease_sample, counted
<1> HIDE DEF done
<1>6. window_complete(counted) => counted.samples >= RequiredSamples BY DEF window_complete
<1>7. /\ read_failed(l) \in LeaseShape /\ read_failed(l).state = "read_failed"
      /\ require_recovery(counted) \in LeaseShape
      /\ require_recovery(counted).state = "recovery_required"
  BY <1>2, ChangeShape
<1>8. l.state = "stable" => ~observing(l) BY DEF observing
<1>9. l.state = "verifying_recovery" => observing(l) BY DEF observing
<1>10. control_lease_sample(l, r, now) \in LeaseShape
  BY <1>2, <1>4, <1>5, <1>7
<1>11. CASE l.state = "stable" BY <1>5, <1>8, <1>10, <1>11
<1>12. CASE l.state = "verifying_recovery"
  <2>1. CASE ~sample_in_time(l, r, now) BY <2>1, <1>5, <1>7, <1>9, <1>10, <1>12
  <2>2. CASE sample_in_time(l, r, now) /\ ~smc_baseline_is_system(r)
    BY <2>2, <1>5, <1>7, <1>9, <1>10, <1>12
  <2>3. CASE sample_in_time(l, r, now) /\ smc_baseline_is_system(r) /\ window_complete(counted)
    BY <2>3, <1>2, <1>4, <1>5, <1>6, <1>9, <1>10, <1>12
  <2>4. CASE sample_in_time(l, r, now) /\ smc_baseline_is_system(r) /\ ~window_complete(counted)
    BY <2>4, <1>2, <1>5, <1>9, <1>10, <1>12
  <2> QED BY <2>1, <2>2, <2>3, <2>4
<1> QED BY <1>10, <1>11, <1>12

\* The first sample of a verification opens a window on a system reading only.
LEMMA RecoveryStartShape ==
  ASSUME NEW l \in LeaseShape, NEW r, NEW now \in Int
  PROVE  LET m == control_lease_recovery_started(l, r, now) IN
         /\ m \in LeaseShape
         /\ l.state = "recovery_required" /\ m.state \in {"verifying_recovery", "stable"} =>
              smc_baseline_is_system(r) /\ m.state = "verifying_recovery" /\ m.samples = 1
<1>1. [l EXCEPT !.recovery_verified = FALSE] \in LeaseShape BY ChangeShape
<1>2. "verifying_recovery" \in LeaseStates BY DEF LeaseStates
<1> QED BY <1>1, <1>2, ChangeShape DEF control_lease_recovery_started

\* The other calls of the supervisor.
LEMMA CallShape ==
  ASSUME NEW l \in LeaseShape
  PROVE  /\ \A owner : control_lease_owner_lost(l, owner) \in LeaseShape
         /\ held_by(l, l.owner) => control_lease_owner_lost(l, l.owner).state = "recovery_required"
         /\ control_lease_sleep(l) \in LeaseShape
         /\ control_lease_take_recovery_proof(l) \in LeaseShape
         /\ control_lease_prepare_persistent_intent(l) \in LeaseShape
         /\ control_lease_prepare_persistent_intent(l).state = l.state
         /\ control_lease_prepare_persistent_intent(l).owner = l.owner
BY ChangeShape
DEF control_lease_owner_lost, control_lease_sleep, control_lease_take_recovery_proof,
    control_lease_prepare_persistent_intent, LeaseShape

\* A claim.
LEMMA ClaimShape ==
  ASSUME NEW l \in LeaseShape, NEW owner \in Owners, NEW now \in Int, NEW v, NEW intent, NEW r
  PROVE  control_lease_claim(l, owner, now, v, intent, r) \in LeaseShape
<1> DEFINE claimed == [l EXCEPT !.state = "held", !.owner = owner, !.last_sample = now,
                                !.expires_at = now + LeaseTTL, !.write_pending = FALSE]
<1>1. now + LeaseTTL \in Int BY LeaseAssumption
<1>2. claimed \in LeaseShape BY <1>1, Zenon DEF LeaseShape, LeaseStates
<1> HIDE DEF claimed
<1>3. control_lease_claim(l, owner, now, v, intent, r) \in
        {l, require_recovery(l), read_failed(l), claimed}
  BY DEF control_lease_claim, claimed
<1> QED BY <1>2, <1>3, ChangeShape

\* The intent is marked in the lease only while it is held.
LEMMA MarkedShape ==
  ASSUME NEW l \in LeaseShape, NEW out, NEW now \in Int
  PROVE  /\ intent_marked(l, out, now) \in LeaseShape
         /\ intentAccepted(l, out, now) =>
              /\ held_by(intent_marked(l, out, now), intent_marked(l, out, now).owner)
              /\ out.durable
<1> DEFINE prepared == control_lease_prepare_persistent_intent(l)
           marked == control_lease_mark_write_pending(prepared, l.owner, now, "pending")
<1>1. prepared \in LeaseShape /\ prepared.owner = l.owner BY CallShape
<1> HIDE DEF prepared
<1>2. /\ marked \in LeaseShape
      /\ markWritePendingAccepted(prepared, l.owner, now, "pending") =>
           held_by(marked, marked.owner)
  <2>1. /\ [prepared EXCEPT !.write_pending = TRUE] \in LeaseShape
        /\ [prepared EXCEPT !.write_pending = TRUE].state = prepared.state
        /\ [prepared EXCEPT !.write_pending = TRUE].owner = prepared.owner
    BY <1>1 DEF LeaseShape
  <2> QED
    BY <1>1, <2>1, ChangeShape
    DEF control_lease_mark_write_pending, markWritePendingAccepted, held_by
<1> HIDE DEF marked
<1>3. /\ intentAccepted(l, out, now) <=>
           out.durable /\ markWritePendingAccepted(prepared, l.owner, now, "pending")
      /\ intent_marked(l, out, now) =
           IF intentAccepted(l, out, now) THEN marked
           ELSE control_lease_owner_lost(IF out.durable THEN marked ELSE prepared, l.owner)
  BY DEF intentAccepted, intent_marked, prepared, marked
<1> QED BY <1>1, <1>2, <1>3, CallShape

-----------------------------------------------------------------------------
(* Shapes of runners.                                                      *)

\* A runner that is not there.
LEMMA NoRunnerShape == NoRunner \in RunnerShape
<1>1. 0 \in Int /\ 0 \in Nat OBVIOUS
<1> QED
  BY <1>1, ZeroShape, Zenon
  DEF NoRunner, RunnerShape, Steps, Phases, Readings, NoPid, Results

\* One that returns has closed its lock and has no phase.
LEMMA ReturnedShape ==
  ASSUME NEW R \in RunnerShape, NEW result \in Results
  PROVE  LET Q == Returned(R, result) IN
         /\ Q \in RunnerShape
         /\ Q.pc = "done" /\ Q.fd = 0 /\ ~Q.flocked /\ Q.phase = "none" /\ ~Q.reaped
         /\ Q.result = result /\ Q.lease = R.lease /\ Q.goal = R.goal
<1>1. 0 \in Int /\ 0 \in Nat OBVIOUS
<1>2. Returned(R, result) \in RunnerShape
  BY <1>1, Zenon DEF Returned, RunnerShape, Steps, Phases, Readings, NoPid
<1> QED BY <1>2 DEF Returned, RunnerShape

\* One that enters a phase forks next.
LEMMA EnterShape ==
  ASSUME NEW R \in RunnerShape, NEW phase \in Phases
  PROVE  LET Q == Enter(R, phase) IN
         /\ Q \in RunnerShape
         /\ Q.pc = "fork" /\ Q.phase = phase /\ ~Q.reaped /\ Q.samples = 0
         /\ Q.fd = R.fd /\ Q.flocked = R.flocked /\ Q.goal = R.goal /\ Q.lease = R.lease
         /\ Q.result = R.result
<1>1. 0 \in Nat OBVIOUS
<1>2. Enter(R, phase) \in RunnerShape BY <1>1, Zenon DEF Enter, RunnerShape, Steps, NoPid
<1> QED BY <1>2 DEF Enter, RunnerShape

\* A runner with another lease.
LEMMA LeaseChangeShape ==
  ASSUME NEW R \in RunnerShape, NEW l \in LeaseShape
  PROVE  LET Q == [R EXCEPT !.lease = l] IN
         /\ Q \in RunnerShape
         /\ Q.pc = R.pc /\ Q.fd = R.fd /\ Q.flocked = R.flocked /\ Q.phase = R.phase
         /\ Q.goal = R.goal /\ Q.lease = l /\ Q.result = R.result
BY DEF RunnerShape

\* The ways a phase may end: the runner returns, enters the next phase or clears the
\* marker.
Gone(Q) == /\ Q.pc \in {"done", "claim", "idle"} /\ Q.fd = 0 /\ ~Q.flocked /\ Q.phase = "none"
           /\ ~Q.reaped /\ Q.result # "recovered"

NextPhase(R, Q) ==
  /\ Q.pc = "fork" /\ ~Q.reaped /\ Q.samples = 0
  /\ Q.fd = R.fd /\ Q.flocked = R.flocked /\ Q.result = R.result
  /\ \/ /\ R.phase = "operate" /\ Q.phase = "recover"
        /\ held_by(R.lease, R.lease.owner) => Q.lease.state = "recovery_required"
     \/ R.phase = "recover" /\ Q.phase = "verify" /\ Q.lease = R.lease

Clears(R, Q) ==
  /\ R.phase = "verify" /\ Q.pc = "clear" /\ Q.phase = "verify" /\ Q.samples = R.samples
  /\ Q.fd = R.fd /\ Q.flocked = R.flocked /\ Q.result = R.result

\* What the rest of observe_baseline, run_owned and recover_owned makes of a runner.
LEMMA PhaseOverShape ==
  ASSUME NEW R \in RunnerShape, NEW ok \in BOOLEAN
  PROVE  LET Q == PhaseOver(R, ok) IN
         /\ Q \in RunnerShape
         /\ \/ Gone(Q)
            \/ NextPhase(R, Q) /\ (Q.phase = "verify" => ok)
            \/ Clears(R, Q) /\ ok
<1>1. R.lease \in LeaseShape /\ R.phase \in Phases BY DEF RunnerShape
<1>2. CASE R.phase = "baseline" /\ ok
  <2> DEFINE Q == Returned(R, "none")
             S == [Q EXCEPT !.pc = "claim", !.latest = R.latest, !.now = R.now]
  <2>1. /\ Q \in RunnerShape /\ Q.fd = 0 /\ ~Q.flocked /\ Q.phase = "none" /\ ~Q.reaped
        /\ Q.result = "none"
    BY ReturnedShape DEF Results
  <2>2. PhaseOver(R, ok) = S BY <1>2 DEF PhaseOver
  <2> HIDE DEF Q
  <2>3. S \in RunnerShape /\ S.pc = "claim" /\ S.fd = Q.fd /\ S.flocked = Q.flocked
        /\ S.phase = Q.phase /\ S.reaped = Q.reaped /\ S.result = Q.result
    BY <2>1 DEF RunnerShape, Steps
  <2> QED BY <2>1, <2>2, <2>3 DEF Gone
<1>3. CASE R.phase = "operate"
  <2> DEFINE l == control_lease_owner_lost(R.lease, R.lease.owner)
             S == [R EXCEPT !.lease = l]
  <2>1. /\ l \in LeaseShape
        /\ held_by(R.lease, R.lease.owner) => l.state = "recovery_required"
    BY <1>1, CallShape
  <2>2. PhaseOver(R, ok) = Enter(S, "recover") BY <1>3 DEF PhaseOver
  <2> HIDE DEF l
  <2>3. S \in RunnerShape /\ S.fd = R.fd /\ S.flocked = R.flocked /\ S.lease = l
        /\ S.result = R.result
    BY <2>1, LeaseChangeShape
  <2> HIDE DEF S
  <2>4. "recover" \in Phases BY DEF Phases
  <2> QED BY <1>3, <2>1, <2>2, <2>3, <2>4, EnterShape DEF NextPhase
<1>4. CASE R.phase = "recover" /\ ok
  <2>1. PhaseOver(R, ok) = Enter(R, "verify") BY <1>4 DEF PhaseOver
  <2>2. "verify" \in Phases BY DEF Phases
  <2>3. Enter(R, "verify") \in RunnerShape BY <2>2, EnterShape
  <2>4. NextPhase(R, Enter(R, "verify")) BY <1>4, <2>2, EnterShape DEF NextPhase
  <2> QED BY <1>4, <2>1, <2>3, <2>4
<1>5. CASE R.phase = "recover" /\ ~ok
  <2>1. PhaseOver(R, ok) = Returned(R, "recovery_failed") BY <1>5 DEF PhaseOver
  <2>2. "recovery_failed" \in Results BY DEF Results
  <2> QED BY <2>1, <2>2, ReturnedShape DEF Gone
<1>6. CASE R.phase = "verify" /\ ok
  <2>1. PhaseOver(R, ok) = [R EXCEPT !.pc = "clear", !.child = NoPid] BY <1>6 DEF PhaseOver
  <2> QED BY <1>6, <2>1 DEF Clears, RunnerShape, Steps
<1>7. CASE R.phase = "none" \/ (R.phase \in {"baseline", "verify"} /\ ~ok)
  <2> DEFINE S == [R EXCEPT !.lease = control_lease_sleep(R.lease)]
  <2>1. PhaseOver(R, ok) = Returned(S, "observation_failed") BY <1>7 DEF PhaseOver
  <2>2. S \in RunnerShape BY <1>1, CallShape, LeaseChangeShape
  <2>3. "observation_failed" \in Results BY DEF Results
  <2> HIDE DEF S
  <2> QED BY <2>1, <2>2, <2>3, ReturnedShape DEF Gone
<1> QED BY <1>1, <1>2, <1>3, <1>4, <1>5, <1>6, <1>7 DEF Phases

\* A supervisor that cannot stop its worker returns.
LEMMA StopFailedShape ==
  ASSUME NEW R \in RunnerShape
  PROVE  StopFailed(R) \in RunnerShape /\ Gone(StopFailed(R))
<1> DEFINE l == CASE R.phase = "operate" -> control_lease_owner_lost(R.lease, R.lease.owner)
                  [] Observes(R.phase)   -> control_lease_sleep(R.lease)
                  [] OTHER               -> R.lease
           S == [R EXCEPT !.lease = l]
<1>1. R.lease \in LeaseShape BY DEF RunnerShape
<1>2. l \in LeaseShape BY <1>1, CallShape DEF Observes
<1>3. StopFailed(R) = Returned(S, "stop_failed") BY DEF StopFailed
<1> HIDE DEF l
<1>4. S \in RunnerShape BY <1>2, LeaseChangeShape
<1> HIDE DEF S
<1>5. "stop_failed" \in Results BY DEF Results
<1> QED BY <1>3, <1>4, <1>5, ReturnedShape DEF Gone

-----------------------------------------------------------------------------
(* The invariant over a step of one runner.                                *)

\* What a step does that gives no worker life: those that live are as they were,
\* except that a runner that ends orphans its own.
AliveKept(r) ==
  \A p \in Pids : Alive(p)' =>
    /\ Alive(p)
    /\ proc'[p].inode = proc[p].inode /\ proc'[p].role = proc[p].role
    /\ proc'[p].parent = proc[p].parent \/ proc[p].parent = r
    /\ proc'[p].grant => proc[p].grant

Moves(r, R) == R \in RunnerShape /\ run' = [run EXCEPT ![r] = R]

\* Two runners that own the directory are one.
LEMMA OneOwner ==
  ASSUME LockInv, NEW r \in Runners, NEW s \in Runners,
         run[r].pc \in Owning, run[s].pc \in Owning
  PROVE  r = s
BY DEF LockInv, LockIsHeld, LockIsExclusive, OwnerIsNamed, Locking

\* A worker that lives while a runner owns the directory is that runner's.
LEMMA OnlyItsWorker ==
  ASSUME LockInv, NEW r \in Runners, NEW p \in Pids, run[r].pc \in Owning, Alive(p)
  PROVE  /\ HasChild(r) /\ run[r].child = p
         /\ proc[p].parent = r /\ proc[p].role = run[r].phase
BY DEF LockInv, LockIsHeld, LockIsExclusive, OwnerIsNamed, Locking

\* Nobody lives while a runner with the named lock has no worker.
LEMMA NobodyLives ==
  ASSUME LockInv, NEW r \in Runners, run[r].flocked, run[r].fd = lockFile, ~HasChild(r)
  PROVE  \A p \in Pids : ~Alive(p)
BY DEF LockInv, LockIsExclusive, OwnerIsNamed

\* A step of a runner that has no lock afterwards.
LEMMA LockLeave ==
  ASSUME Shaped, LockInv, NEW r \in Runners, NEW R, Moves(r, R), AliveKept(r), UNCHANGED lockFile,
         ~R.flocked, R.pc \notin Locking, R.fd # 0 <=> R.pc = "flock", R.phase = "none"
  PROVE  LockInv'
<1>1. run'[r] = R /\ \A s \in Runners : s # r => run'[s] = run[s] BY DEF Moves, Shaped
<1>2. "flock" \notin Locking /\ Spawned \subseteq Locking /\ Owning \subseteq Locking
      /\ Working \subseteq Locking
  BY DEF Locking, Owning, Working, Spawned
<1>3. LockIsHeld' BY <1>1, <1>2 DEF LockInv, LockIsHeld
<1>4. LockIsExclusive'
  <2> SUFFICES ASSUME NEW s \in Runners, run'[s].flocked
               PROVE  /\ \A t \in Runners : run'[t].flocked /\ run'[t].fd = run'[s].fd => t = s
                      /\ \A p \in Pids : Alive(p)' /\ proc'[p].inode = run'[s].fd =>
                           /\ HasChild(s)' /\ run'[s].child = p
                           /\ proc'[p].parent = s /\ proc'[p].role = run'[s].phase
    BY DEF LockIsExclusive
  <2>1. s # r /\ run'[s] = run[s] /\ run[s].flocked BY <1>1
  <2>2. \A t \in Runners : run'[t].flocked /\ run'[t].fd = run'[s].fd => t = s
    BY <1>1, <2>1 DEF LockInv, LockIsExclusive
  <2>3. ASSUME NEW p \in Pids, Alive(p)', proc'[p].inode = run'[s].fd
        PROVE  /\ HasChild(s)' /\ run'[s].child = p
               /\ proc'[p].parent = s /\ proc'[p].role = run'[s].phase
    <3>1. /\ Alive(p) /\ proc[p].inode = run[s].fd /\ proc'[p].role = proc[p].role
          /\ proc'[p].parent = proc[p].parent \/ proc[p].parent = r
      BY <2>1, <2>3 DEF AliveKept
    <3>2. /\ HasChild(s) /\ run[s].child = p /\ proc[p].parent = s /\ proc[p].role = run[s].phase
      BY <2>1, <3>1 DEF LockInv, LockIsExclusive
    <3> QED BY <2>1, <3>1, <3>2 DEF HasChild
  <2> QED BY <2>2, <2>3
<1>5. OwnerIsNamed' BY <1>1, <1>2 DEF LockInv, OwnerIsNamed, AliveKept
<1>6. PhaseIsOwned' BY <1>1, <1>2 DEF LockInv, PhaseIsOwned, HasChild
<1>7. AtMostOneWorker' BY DEF LockInv, AtMostOneWorker, AliveKept
<1> QED BY <1>3, <1>4, <1>5, <1>6, <1>7 DEF LockInv

\* A step of a runner that has the lock before and after it; who lives with its lock
\* afterwards, a worker it has just forked included, is its child.
LEMMA LockStay ==
  ASSUME Shaped, LockInv, NEW r \in Runners, NEW R, Moves(r, R), UNCHANGED lockFile,
         run[r].flocked, R.flocked, R.fd = run[r].fd, R.pc \in Locking,
         R.pc \in Owning => R.fd = lockFile,
         R.phase # "none" => R.pc \in Working,
         R.pc \in Working \ {"wait", "clear"} => ~R.reaped,
         R.pc \in Spawned /\ ~R.reaped => R.child \in Pids,
         \A p \in Pids : Alive(p)' =>
           \/ /\ Alive(p) /\ proc'[p].inode = proc[p].inode
              /\ proc'[p].role = proc[p].role /\ proc'[p].parent = proc[p].parent
           \/ proc'[p].inode = R.fd /\ R.fd = lockFile,
         \A p \in Pids : Alive(p)' /\ proc'[p].inode = R.fd =>
           /\ R.pc \in Spawned /\ ~R.reaped /\ R.child = p
           /\ proc'[p].parent = r /\ proc'[p].role = R.phase
  PROVE  LockInv'
<1>1. run'[r] = R /\ \A s \in Runners : s # r => run'[s] = run[s] BY DEF Moves, Shaped
<1>2. R.fd # 0 BY DEF LockInv, LockIsHeld
<1>3. LockIsHeld' BY <1>1, <1>2 DEF LockInv, LockIsHeld
<1>4. \A s \in Runners : s # r /\ run[s].flocked => run[s].fd # R.fd
  BY DEF LockInv, LockIsExclusive
<1>5. LockIsExclusive'
  <2> SUFFICES ASSUME NEW s \in Runners, run'[s].flocked
               PROVE  /\ \A t \in Runners : run'[t].flocked /\ run'[t].fd = run'[s].fd => t = s
                      /\ \A p \in Pids : Alive(p)' /\ proc'[p].inode = run'[s].fd =>
                           /\ HasChild(s)' /\ run'[s].child = p
                           /\ proc'[p].parent = s /\ proc'[p].role = run'[s].phase
    BY DEF LockIsExclusive
  <2>1. \A t \in Runners : run'[t].flocked /\ run'[t].fd = run'[s].fd => t = s
    BY <1>1, <1>4 DEF LockInv, LockIsExclusive
  <2>2. ASSUME NEW p \in Pids, Alive(p)', proc'[p].inode = run'[s].fd
        PROVE  /\ HasChild(s)' /\ run'[s].child = p
               /\ proc'[p].parent = s /\ proc'[p].role = run'[s].phase
    <3>1. CASE s = r BY <3>1, <1>1, <2>2 DEF HasChild
    <3>2. CASE s # r
      <4>1. run'[s] = run[s] /\ run[s].flocked /\ run[s].fd # R.fd BY <1>1, <1>4, <3>2
      <4>2. /\ Alive(p) /\ proc'[p].inode = proc[p].inode
            /\ proc'[p].role = proc[p].role /\ proc'[p].parent = proc[p].parent
        BY <2>2, <4>1
      <4>3. /\ HasChild(s) /\ run[s].child = p
            /\ proc[p].parent = s /\ proc[p].role = run[s].phase
        BY <2>2, <4>1, <4>2 DEF LockInv, LockIsExclusive
      <4> QED BY <4>1, <4>2, <4>3 DEF HasChild
    <3> QED BY <3>1, <3>2
  <2> QED BY <2>1, <2>2
<1>6. OwnerIsNamed' BY <1>1, <1>2 DEF LockInv, OwnerIsNamed
<1>7. PhaseIsOwned' BY <1>1 DEF LockInv, PhaseIsOwned, HasChild
<1>8. AtMostOneWorker' BY DEF LockInv, AtMostOneWorker, OwnerIsNamed
<1> QED BY <1>3, <1>5, <1>6, <1>7, <1>8 DEF LockInv

\* What holds of a runner that a step leaves alone and that does not own the directory.
LEMMA OutsideKept ==
  ASSUME LockInv, NEW s \in Runners, RunnerInv(s), run'[s] = run[s], run[s].pc \notin Owning
  PROVE  RunnerInv(s)'
<1>1. run[s].phase = "none" BY DEF LockInv, PhaseIsOwned, Owning
<1>2. run[s].pc \notin {"record", "grant", "clear"} BY DEF Owning, Working, Spawned
<1> QED
  BY <1>1, <1>2 DEF RunnerInv, GrantFollowsRecord, LeaseIsLost, VerifiedIsSystem, LeaseCounts,
                    WindowIsSeen

\* What holds of a runner that a step leaves alone with all it depends on.
LEMMA SameKept ==
  ASSUME NEW s \in Runners, RunnerInv(s), run'[s] = run[s], pipe'[s] = pipe[s],
         UNCHANGED <<marker, disk, record, hw, seen>>, recordDisk' \in {record, recordDisk},
         \A p \in Pids : Alive(p)' /\ proc'[p].grant => Alive(p) /\ proc[p].grant,
         LockInv
  PROVE  RunnerInv(s)'
<1>1. run[s].pc = "record" => run[s].child \in Pids
  BY DEF LockInv, PhaseIsOwned, HasChild, Working, Spawned
<1>2. GrantFollowsRecord(s)'
  <2>1. CASE run[s].pc = "record"
    <3>1. PICK p \in Pids : p = run[s].child BY <1>1, <2>1
    <3>2. Alive(p) => ~proc[p].grant BY <2>1, <3>1 DEF RunnerInv, GrantFollowsRecord
    <3>3. Alive(p)' => ~proc'[p].grant BY <3>2
    <3> QED BY <2>1, <3>1, <3>3 DEF GrantFollowsRecord, Alive
  <2>2. CASE run[s].pc # "record" BY <2>2 DEF RunnerInv, GrantFollowsRecord
  <2> QED BY <2>1, <2>2
<1> QED
  BY <1>2 DEF RunnerInv, LeaseIsLost, VerifiedIsSystem, LeaseCounts, WindowIsSeen, Pending

\* A step of an owner leaves the others alone.
LEMMA OwnerSteps ==
  ASSUME IInv, NEW r \in Runners, NEW R, Moves(r, R), run[r].flocked, run[r].fd = lockFile,
         RunnerInv(r)'
  PROVE  \A s \in Runners : RunnerInv(s)'
<1> SUFFICES ASSUME NEW s \in Runners, s # r PROVE RunnerInv(s)' OBVIOUS
<1>1. run'[s] = run[s] BY DEF Moves, IInv, Shaped
<1>2. run[s].pc \notin Owning
  BY DEF IInv, LockInv, LockIsHeld, LockIsExclusive, OwnerIsNamed, Locking
<1> QED BY <1>1, <1>2, OutsideKept DEF IInv

\* What is granted stays recorded while nobody else is granted.
LEMMA GrantsKept ==
  ASSUME GrantedIsRecorded, UNCHANGED record, recordDisk' \in {record, recordDisk},
         \A p \in Pids : Alive(p)' /\ proc'[p].grant => Alive(p) /\ proc[p].grant
  PROVE  GrantedIsRecorded'
BY DEF GrantedIsRecorded

\* Who is covered stays covered while the journal stays and no new operation begins.
LEMMA FansKept ==
  ASSUME FansAreMarked, UNCHANGED <<marker, disk, hw, exposed>>,
         \A p \in Pids : Alive(p)' => Alive(p) /\ proc'[p].role = proc[p].role
  PROVE  FansAreMarked'
BY DEF FansAreMarked, Pending

\* A step of a runner without the lock afterwards, which changes no file; it may have
\* synchronised the directory.
LEMMA LeaveInv ==
  ASSUME IInv, NEW r \in Runners, NEW R, Moves(r, R), AliveKept(r),
         proc' \in [Pids -> ProcessShape], pipe' \in [Runners -> Seq(Readings)],
         \A s \in Runners : s # r => pipe'[s] = pipe[s],
         UNCHANGED <<marker, disk, record, lockFile, hw, history>>,
         recordDisk' \in {record, recordDisk},
         ~R.flocked, R.pc \notin Locking, R.fd # 0 <=> R.pc = "flock", R.phase = "none",
         R.goal = "resume" /\ R.pc \in {"open", "flock"} => R.lease.state = "recovery_required"
  PROVE  IInv'
<1>0. Shaped /\ LockInv BY DEF IInv
<1>1. run'[r] = R /\ \A s \in Runners : s # r => run'[s] = run[s] BY DEF Moves, IInv, Shaped
<1>2. Shaped' BY <1>1 DEF Moves, IInv, Shaped, history
<1>3. LockInv' BY <1>0, LockLeave
<1>4. GrantedIsRecorded' BY GrantsKept DEF IInv, AliveKept
<1>5. FansAreMarked' BY FansKept DEF IInv, AliveKept, history
<1>6. ASSUME NEW s \in Runners PROVE RunnerInv(s)'
  <2>1. CASE s = r
    <3>1. R.pc \notin {"record", "grant", "clear", "check", "finish", "owned"}
      BY DEF Locking, Owning, Working, Spawned
    <3> QED
      BY <1>1, <2>1, <3>1 DEF RunnerInv, GrantFollowsRecord, LeaseIsLost, VerifiedIsSystem,
                              LeaseCounts, WindowIsSeen
  <2>2. CASE s # r
    <3>1. \A p \in Pids : Alive(p)' /\ proc'[p].grant => Alive(p) /\ proc[p].grant
      BY DEF AliveKept
    <3> QED BY <1>0, <1>1, <2>2, <3>1, SameKept DEF IInv, history
  <2> QED BY <2>1, <2>2
<1> QED BY <1>2, <1>3, <1>4, <1>5, <1>6 DEF IInv

\* A step of a worker or of the system around it that leaves every runner alone and
\* gives no worker life.
LEMMA WorkerInv ==
  ASSUME IInv, UNCHANGED <<run, files>>, proc' \in [Pids -> ProcessShape],
         \A p \in Pids : Alive(p)' =>
           /\ Alive(p)
           /\ proc'[p].inode = proc[p].inode /\ proc'[p].role = proc[p].role
           /\ proc'[p].parent = proc[p].parent /\ (proc'[p].grant => proc[p].grant),
         pipe' \in [Runners -> Seq(Readings)], seen' \in Nat, FansAreMarked',
         \A r \in Runners : run[r].pc \in Owning => RunnerInv(r)'
  PROVE  IInv'
<1>1. Shaped' BY DEF IInv, Shaped, files
<1>2. LockInv'
  <2>1. LockIsHeld' /\ PhaseIsOwned' BY DEF IInv, LockInv, LockIsHeld, PhaseIsOwned, HasChild
  <2>2. LockIsExclusive' BY DEF IInv, LockInv, LockIsExclusive, HasChild
  <2>3. OwnerIsNamed' BY DEF IInv, LockInv, OwnerIsNamed, files
  <2>4. AtMostOneWorker' BY DEF IInv, LockInv, AtMostOneWorker
  <2> QED BY <2>1, <2>2, <2>3, <2>4 DEF LockInv
<1>3. GrantedIsRecorded' BY GrantsKept DEF IInv, files
<1>4. \A r \in Runners : RunnerInv(r)' BY OutsideKept DEF IInv
<1> QED BY <1>1, <1>2, <1>3, <1>4 DEF IInv

\* A step of an owner that keeps its lock and the journal.
LEMMA OwnerInv ==
  ASSUME IInv, NEW r \in Runners, NEW R, Moves(r, R),
         \A p \in Pids : Alive(p)' =>
           /\ Alive(p)
           /\ proc'[p].inode = proc[p].inode /\ proc'[p].role = proc[p].role
           /\ proc'[p].parent = proc[p].parent,
         proc' \in [Pids -> ProcessShape], pipe' \in [Runners -> Seq(Readings)],
         UNCHANGED <<marker, disk, lockFile, hw, exposed>>, seen' \in Nat, GrantedIsRecorded',
         run[r].pc \in Owning, R.pc \in Working, R.flocked = run[r].flocked, R.fd = run[r].fd,
         R.pc \in Working \ {"wait", "clear"} => ~R.reaped,
         R.pc \in Spawned /\ ~R.reaped => HasChild(r) /\ R.child = run[r].child,
         (R.pc \in Spawned /\ ~R.reaped) \/ \A p \in Pids : ~Alive(p)',
         R.pc \in Spawned => R.phase = run[r].phase,
         RunnerInv(r)'
  PROVE  IInv'
<1>0. Shaped /\ LockInv BY DEF IInv
<1>1. run[r].flocked /\ run[r].fd = lockFile
  BY DEF IInv, LockInv, LockIsHeld, OwnerIsNamed, Locking
<1>2. Shaped' BY DEF Moves, IInv, Shaped
<1>3. \A p \in Pids : Alive(p)' =>
        /\ R.pc \in Spawned /\ ~R.reaped /\ R.child = p
        /\ proc'[p].parent = r /\ proc'[p].role = R.phase
  BY <1>0, OnlyItsWorker
<1>4. R.pc \in Spawned /\ ~R.reaped => R.child \in Pids BY DEF IInv, LockInv, PhaseIsOwned
<1>5. R.pc \in Locking /\ R.pc \in Owning BY DEF Locking, Owning
<1>6. LockInv'
  <2>1. UNCHANGED lockFile OBVIOUS
  <2>2. \A p \in Pids : Alive(p)' =>
           \/ /\ Alive(p) /\ proc'[p].inode = proc[p].inode
              /\ proc'[p].role = proc[p].role /\ proc'[p].parent = proc[p].parent
           \/ proc'[p].inode = R.fd /\ R.fd = lockFile
    OBVIOUS
  <2>3. \A p \in Pids : Alive(p)' /\ proc'[p].inode = R.fd =>
           /\ R.pc \in Spawned /\ ~R.reaped /\ R.child = p
           /\ proc'[p].parent = r /\ proc'[p].role = R.phase
    BY <1>3
  <2>4. R.flocked /\ R.fd = lockFile BY <1>1
  <2> QED BY <1>0, <1>1, <1>4, <1>5, <2>1, <2>2, <2>3, <2>4, LockStay
<1>8. FansAreMarked' BY FansKept DEF IInv
<1>9. \A s \in Runners : RunnerInv(s)' BY <1>1, OwnerSteps
<1> QED BY <1>2, <1>6, <1>8, <1>9 DEF IInv

\* A step of an owner that keeps its lock, changes no file and grants nobody.
LEMMA StayInv ==
  ASSUME IInv, NEW r \in Runners, NEW R, Moves(r, R),
         \A p \in Pids : Alive(p)' =>
           /\ Alive(p)
           /\ proc'[p].inode = proc[p].inode /\ proc'[p].role = proc[p].role
           /\ proc'[p].parent = proc[p].parent /\ (proc'[p].grant => proc[p].grant),
         proc' \in [Pids -> ProcessShape], pipe' \in [Runners -> Seq(Readings)],
         UNCHANGED <<files, hw, history>>,
         run[r].pc \in Owning, R.pc \in Working, R.flocked = run[r].flocked, R.fd = run[r].fd,
         R.pc \in Working \ {"wait", "clear"} => ~R.reaped,
         R.pc \in Spawned /\ ~R.reaped => HasChild(r) /\ R.child = run[r].child,
         (R.pc \in Spawned /\ ~R.reaped) \/ \A p \in Pids : ~Alive(p)',
         R.pc \in Spawned => R.phase = run[r].phase,
         RunnerInv(r)'
  PROVE  IInv'
<1>1. GrantedIsRecorded' BY GrantsKept DEF IInv, files
<1>2. seen' \in Nat BY DEF IInv, Shaped, history
<1> QED BY <1>1, <1>2, OwnerInv DEF files, history

\* A step of a runner that holds the named lock and has no worker: nobody lives, and
\* nobody else owns the directory, so the files are its own.
LEMMA ExclusiveInv ==
  ASSUME IInv, NEW r \in Runners, NEW R, Moves(r, R),
         run[r].flocked, run[r].fd = lockFile, ~HasChild(r),
         UNCHANGED <<proc, pipe, lockFile>>, seen' \in Nat,
         (hw' = "manual" \/ exposed') => Pending', RunnerInv(r)',
         \/ ~R.flocked /\ R.pc \notin Locking /\ R.fd = 0 /\ R.pc # "flock" /\ R.phase = "none"
         \/ /\ R.flocked /\ R.fd = run[r].fd /\ R.pc \in Locking \ Spawned
            /\ R.phase # "none" => R.pc \in Working
            /\ R.pc = "fork" => ~R.reaped
  PROVE  IInv' /\ \A p \in Pids : ~Alive(p)
<1>0. Shaped /\ LockInv BY DEF IInv
<1>1. \A p \in Pids : ~Alive(p) BY <1>0, NobodyLives
<1>2. \A p \in Pids : ~Alive(p)' BY <1>1 DEF Alive
<1>3. Shaped' BY DEF Moves, IInv, Shaped
<1>4. LockInv'
  <2>1. CASE ~R.flocked /\ R.pc \notin Locking /\ R.fd = 0 /\ R.pc # "flock" /\ R.phase = "none"
    <3>1. AliveKept(r) BY <1>2 DEF AliveKept
    <3> QED BY <1>0, <2>1, <3>1, LockLeave
  <2>2. CASE /\ R.flocked /\ R.fd = run[r].fd /\ R.pc \in Locking \ Spawned
             /\ R.phase # "none" => R.pc \in Working
             /\ R.pc = "fork" => ~R.reaped
    <3>1. R.pc \in Working \ {"wait", "clear"} => ~R.reaped BY <2>2 DEF Working
    <3> QED BY <1>0, <1>2, <2>2, <3>1, LockStay
  <2> QED BY <2>1, <2>2
<1>5. GrantedIsRecorded' BY <1>2 DEF GrantedIsRecorded
<1>6. FansAreMarked' BY <1>2 DEF FansAreMarked
<1>7. \A s \in Runners : RunnerInv(s)' BY OwnerSteps
<1> QED BY <1>1, <1>3, <1>4, <1>5, <1>6, <1>7 DEF IInv

\* A step of a runner that changes only itself and has no lock afterwards.
LEMMA AloneInv ==
  ASSUME IInv, NEW r \in Runners, NEW R, Moves(r, R), UNCHANGED <<proc, pipe, files, hw, history>>,
         ~R.flocked, R.pc \notin Locking, R.fd # 0 <=> R.pc = "flock", R.phase = "none",
         R.goal = "resume" /\ R.pc \in {"open", "flock"} => R.lease.state = "recovery_required"
  PROVE  IInv'
<1>1. AliveKept(r) BY DEF AliveKept, Alive
<1>2. proc' \in [Pids -> ProcessShape] /\ pipe' \in [Runners -> Seq(Readings)] BY DEF IInv, Shaped
<1> QED BY <1>1, <1>2, LeaveInv DEF files

\* A runner that is refused.
LEMMA BlockInv ==
  ASSUME IInv, NEW r \in Runners, Block(r), UNCHANGED <<proc, pipe, files, hw, history>>
  PROVE  IInv'
<1>1. Moves(r, NoRunner) BY NoRunnerShape DEF Block, Moves
<1>2. /\ ~NoRunner.flocked /\ NoRunner.pc \notin Locking /\ NoRunner.fd = 0
      /\ NoRunner.pc = "idle" /\ NoRunner.phase = "none" /\ NoRunner.goal = "none"
  BY DEF NoRunner, Locking, Owning, Working, Spawned
<1> QED BY <1>1, <1>2, AloneInv

-----------------------------------------------------------------------------
(* Admission.                                                              *)

\* The entry points.
LEMMA LaunchInv ==
  ASSUME IInv, NEW r \in Runners, NEW goal \in {"baseline", "resume", "cleanup"}, NEW intent,
         Launch(r, goal, intent)
  PROVE  IInv'
<1> DEFINE l == IF goal = "resume" THEN control_lease_start("pending", "failed", 1) ELSE NoRunner.lease
           R == [NoRunner EXCEPT !.pc = "open", !.goal = goal, !.now = 1, !.lease = l]
<1>1. l \in LeaseShape /\ (goal = "resume" => l.state = "recovery_required")
  BY StartShape, NoRunnerShape DEF RunnerShape
<1>2. run' = [run EXCEPT ![r] = R] BY DEF Launch
<1> HIDE DEF l
<1>3. R \in RunnerShape
  <2>1. 1 \in Int /\ goal \in {"none", "baseline", "run", "resume", "cleanup"} OBVIOUS
  <2>2. NoRunner \in RunnerShape BY NoRunnerShape
  <2> QED BY <1>1, <2>1, <2>2, Zenon DEF RunnerShape, Steps
<1>4. /\ R.pc = "open" /\ R.goal = goal /\ R.lease = l /\ R.fd = 0 /\ R.flocked = FALSE
      /\ R.phase = "none"
  BY DEF NoRunner
<1> HIDE DEF R
<1>5. "open" \notin Locking BY DEF Locking, Owning, Working, Spawned
<1> QED BY <1>1, <1>2, <1>3, <1>4, <1>5, AloneInv DEF Moves, Launch

\* What is known of a runner without the lock.
LEMMA OutsideFacts ==
  ASSUME IInv, NEW r \in Runners, run[r].pc \notin Locking
  PROVE  /\ run[r] \in RunnerShape /\ run[r].lease \in LeaseShape /\ run[r].now \in Int
         /\ ~run[r].flocked /\ run[r].phase = "none"
         /\ run[r].pc # "flock" => run[r].fd = 0
BY DEF IInv, Shaped, RunnerShape, LockInv, LockIsHeld, PhaseIsOwned, Locking, Owning

\* The claim and the entry of worker_supervisor_run.
LEMMA ClaimInv ==
  ASSUME IInv, NEW r \in Runners, NEW intent, NEW d \in Delays, Claim(r, intent, d) \/ Run(r, intent, d)
  PROVE  IInv'
<1>1. CASE Block(r) /\ UNCHANGED <<proc, pipe, files, hw, history>> BY <1>1, BlockInv
<1>2. /\ run[r] \in RunnerShape /\ run[r].lease \in LeaseShape /\ run[r].now \in Int
      /\ ~run[r].flocked /\ run[r].phase = "none" /\ run[r].fd = 0
  BY OutsideFacts DEF Claim, Run, At, Locking, Owning, Working, Spawned
<1>3. d \in Int /\ 1 \in Owners BY SupervisorAssumption
<1> DEFINE now == run[r].now + d
<1>4. now \in Int BY <1>2, <1>3
<1> HIDE DEF now
<1>5. "open" \notin Locking /\ "run" \notin Locking BY DEF Locking, Owning, Working, Spawned
<1>6. ASSUME Claim(r, intent, d), ~Block(r) PROVE IInv'
  <2> DEFINE l == control_lease_claim(run[r].lease, 1, now, TRUE, intent, run[r].latest)
             R == [run[r] EXCEPT !.pc = "run", !.now = now, !.latest = "failed", !.lease = l]
  <2>1. l \in LeaseShape BY <1>2, <1>3, <1>4, ClaimShape
  <2>2. run' = [run EXCEPT ![r] = R] BY <1>6, <1>2 DEF Claim, IInv, Shaped, now
  <2> HIDE DEF l
  <2>3. R \in RunnerShape BY <1>2, <1>4, <2>1 DEF RunnerShape, Steps, Readings
  <2>4. R.pc = "run" /\ R.flocked = FALSE /\ R.phase = "none" /\ R.fd = 0
    BY <1>2 DEF RunnerShape
  <2> HIDE DEF R
  <2> QED BY <1>5, <1>6, <2>2, <2>3, <2>4, AloneInv DEF Moves, Claim
<1>7. ASSUME Run(r, intent, d), ~Block(r) PROVE IInv'
  <2> DEFINE R == [run[r] EXCEPT !.pc = "open", !.goal = "run", !.now = now]
  <2>1. run' = [run EXCEPT ![r] = R] BY <1>7, <1>2 DEF Run, IInv, Shaped, now
  <2>2. R \in RunnerShape BY <1>2, <1>4 DEF RunnerShape, Steps
  <2>3. R.pc = "open" /\ R.flocked = FALSE /\ R.phase = "none" /\ R.fd = 0 /\ R.goal = "run"
    BY <1>2 DEF RunnerShape
  <2> HIDE DEF R
  <2> QED BY <1>5, <1>7, <2>1, <2>2, <2>3, AloneInv DEF Moves, Run
<1> QED BY <1>1, <1>6, <1>7 DEF Claim, Run

\* A runner of which only the step changes.
SameButPc(R, Q) ==
  /\ Q.goal = R.goal /\ Q.phase = R.phase /\ Q.lease = R.lease /\ Q.fd = R.fd
  /\ Q.flocked = R.flocked /\ Q.child = R.child /\ Q.samples = R.samples
  /\ Q.reaped = R.reaped /\ Q.result = R.result

\* A runner that goes to another step keeps the rest.
LEMMA GotoMoves ==
  ASSUME Shaped, NEW r \in Runners, NEW step \in Steps, Goto(r, step)
  PROVE  \E R : Moves(r, R) /\ R.pc = step /\ SameButPc(run[r], R)
<1> DEFINE R == [run[r] EXCEPT !.pc = step]
<1>1. run[r] \in RunnerShape BY DEF Shaped
<1>2. R \in RunnerShape /\ R.pc = step /\ SameButPc(run[r], R) BY <1>1 DEF RunnerShape, SameButPc
<1>3. run' = [run EXCEPT ![r] = R] BY <1>1 DEF Goto, Shaped
<1> HIDE DEF R
<1> WITNESS R
<1> QED BY <1>2, <1>3 DEF Moves

\* What holds of a runner that has no phase after a step.
LEMMA NoPhaseInv ==
  ASSUME NEW r \in Runners, run'[r].phase = "none", run'[r].pc \notin {"record", "grant", "clear"},
         run'[r].goal = "resume" /\ run'[r].pc \in {"open", "flock", "check", "finish", "owned"} =>
           run'[r].lease.state = "recovery_required"
  PROVE  RunnerInv(r)'
BY DEF RunnerInv, GrantFollowsRecord, LeaseIsLost, VerifiedIsSystem, LeaseCounts, WindowIsSeen

\* A step that changes one runner and perhaps the name of the lock file.
LEMMA SelfInv ==
  ASSUME IInv, NEW r \in Runners, NEW R, Moves(r, R),
         UNCHANGED <<proc, pipe, marker, disk, record, recordDisk, hw, history>>,
         lockFile' \in Inodes \cup {0}, LockInv', RunnerInv(r)'
  PROVE  IInv'
<1>0. LockInv BY DEF IInv
<1>1. Shaped' BY DEF Moves, IInv, Shaped, history
<1>2. \A p \in Pids : Alive(p)' => Alive(p) /\ proc'[p] = proc[p] BY DEF Alive
<1>3. GrantedIsRecorded' BY <1>2, GrantsKept DEF IInv
<1>4. FansAreMarked' BY <1>2, FansKept DEF IInv, history
<1>5. ASSUME NEW s \in Runners, s # r PROVE RunnerInv(s)'
  <2>1. run'[s] = run[s] /\ pipe'[s] = pipe[s] BY <1>5 DEF Moves, IInv, Shaped
  <2>2. RunnerInv(s) BY DEF IInv
  <2> QED BY <1>0, <1>2, <2>1, <2>2, SameKept DEF history
<1> QED BY <1>1, <1>3, <1>4, <1>5 DEF IInv

\* open: of an existing lock file, or creating one while nobody uses any.
LEMMA AcquireOpenInv ==
  ASSUME IInv, NEW r \in Runners, AcquireOpen(r)
  PROVE  IInv'
<1>0. Shaped /\ LockInv BY DEF IInv
<1>1. PICK inode \in Inodes : 
        /\ run' = [run EXCEPT ![r].pc = "flock", ![r].fd = inode]
        /\ lockFile' = inode
        /\ \/ lockFile = inode
           \/ lockFile = 0 /\ Unused(inode)
  BY <1>0 DEF AcquireOpen, Shaped
<1> DEFINE R == [run[r] EXCEPT !.pc = "flock", !.fd = inode]
<1>2. /\ run[r] \in RunnerShape /\ ~run[r].flocked /\ run[r].phase = "none"
      /\ run[r].goal = "resume" => run[r].lease.state = "recovery_required"
  <2>1. run[r].pc = "open" BY DEF AcquireOpen, At
  <2>2. RunnerInv(r) BY DEF IInv
  <2>3. "open" \notin Locking BY DEF Locking, Owning, Working, Spawned
  <2> QED BY <2>1, <2>2, <2>3, OutsideFacts DEF RunnerInv, LeaseIsLost
<1>3. R \in RunnerShape BY <1>2 DEF RunnerShape, Steps
<1>4. R.pc = "flock" /\ R.fd = inode /\ R.flocked = FALSE /\ R.phase = "none" /\ R.goal = run[r].goal
      /\ R.lease = run[r].lease
  BY <1>2 DEF RunnerShape
<1>5. run' = [run EXCEPT ![r] = R] BY <1>0, <1>1, <1>2 DEF Shaped
<1> HIDE DEF R
<1>6. Moves(r, R) BY <1>3, <1>5 DEF Moves
<1>7. inode # 0 BY SupervisorAssumption
<1>8. "flock" \notin Locking BY DEF Locking, Owning, Working, Spawned
<1>9. CASE lockFile = inode
  BY <1>1, <1>2, <1>4, <1>6, <1>7, <1>8, <1>9, AloneInv DEF AcquireOpen, files
<1>10. CASE lockFile = 0 /\ Unused(inode)
  <2>1. \A p \in Pids : ~Alive(p) /\ ~Alive(p)'
    BY <1>0, <1>10 DEF LockInv, OwnerIsNamed, AcquireOpen, Alive
  <2>2. \A s \in Runners : run[s].pc \notin Owning
    BY <1>0, <1>10 DEF LockInv, OwnerIsNamed, LockIsHeld, Locking
  <2>3. run'[r] = R /\ \A s \in Runners : s # r => run'[s] = run[s] BY <1>0, <1>6 DEF Moves, Shaped
  <2>4. LockIsHeld' BY <1>0, <1>4, <1>7, <1>8, <2>3 DEF LockInv, LockIsHeld
  <2>5. LockIsExclusive' BY <1>0, <1>4, <2>1, <2>3 DEF LockInv, LockIsExclusive
  <2>6. OwnerIsNamed' BY <1>4, <1>8, <2>1, <2>2, <2>3 DEF OwnerIsNamed, Locking
  <2>7. PhaseIsOwned'
    <3>1. R.pc \notin Spawned /\ R.pc \notin Working BY <1>4 DEF Working, Spawned
    <3> QED BY <1>0, <1>4, <2>3, <3>1 DEF LockInv, PhaseIsOwned, HasChild
  <2>8. LockInv' BY <2>1, <2>4, <2>5, <2>6, <2>7 DEF LockInv, AtMostOneWorker
  <2>9. RunnerInv(r)' BY <1>2, <1>4, <2>3, NoPhaseInv
  <2>10. lockFile' \in Inodes \cup {0} BY <1>1
  <2> QED BY <1>6, <2>8, <2>9, <2>10, SelfInv DEF AcquireOpen
<1> QED BY <1>1, <1>9, <1>10

\* flock: granted while nobody else has the file locked.
LEMMA AcquireFlockInv ==
  ASSUME IInv, NEW r \in Runners, AcquireFlock(r)
  PROVE  IInv'
<1>0. Shaped /\ LockInv BY DEF IInv
<1>1. CASE Locked(run[r].fd) BY <1>1, BlockInv DEF AcquireFlock
<1>2. CASE ~Locked(run[r].fd)
  <2> DEFINE R == [run[r] EXCEPT !.pc = "check", !.flocked = TRUE]
  <2>1. /\ run[r] \in RunnerShape /\ run[r].phase = "none" /\ run[r].fd # 0
        /\ run[r].goal = "resume" => run[r].lease.state = "recovery_required"
    <3>1. run[r].pc = "flock" BY DEF AcquireFlock, At
    <3>2. RunnerInv(r) BY DEF IInv
    <3>3. "flock" \notin Locking BY DEF Locking, Owning, Working, Spawned
    <3>4. run[r].fd # 0 BY <1>0, <3>1 DEF LockInv, LockIsHeld
    <3> QED BY <3>1, <3>2, <3>3, <3>4, OutsideFacts DEF RunnerInv, LeaseIsLost
  <2>2. R \in RunnerShape BY <2>1 DEF RunnerShape, Steps
  <2>3. /\ R.pc = "check" /\ R.fd = run[r].fd /\ R.flocked = TRUE /\ R.phase = "none"
        /\ R.goal = run[r].goal /\ R.lease = run[r].lease
    BY <2>1 DEF RunnerShape
  <2>4. run' = [run EXCEPT ![r] = R] BY <1>0, <1>2, <2>1 DEF Shaped, AcquireFlock
  <2> HIDE DEF R
  <2>5. Moves(r, R) BY <2>2, <2>4 DEF Moves
  <2>6. run'[r] = R /\ \A s \in Runners : s # r => run'[s] = run[s] BY <1>0, <2>5 DEF Moves, Shaped
  <2>7. "check" \in Locking /\ "check" \notin Owning /\ "check" \notin Working /\ "check" \notin Spawned
    BY DEF Locking, Owning, Working, Spawned
  <2>8. \A p \in Pids : Alive(p)' <=> Alive(p) BY DEF AcquireFlock, Alive
  <2>9. UNCHANGED proc BY DEF AcquireFlock
  <2>10. LockIsHeld' BY <1>0, <2>1, <2>3, <2>6, <2>7 DEF LockInv, LockIsHeld
  <2>11. LockIsExclusive'
    <3>1. \A s \in Runners : s # r /\ run[s].flocked => run[s].fd # R.fd BY <1>2, <2>3 DEF Locked
    <3>2. \A p \in Pids : Alive(p) => proc[p].inode # R.fd BY <1>2, <2>3 DEF Locked
    <3>3. \A s \in Runners : s # r => (HasChild(s)' <=> HasChild(s)) BY <2>6 DEF HasChild
    <3> QED BY <1>0, <2>3, <2>6, <2>8, <2>9, <3>1, <3>2, <3>3 DEF LockInv, LockIsExclusive
  <2>12. OwnerIsNamed'
    <3>1. UNCHANGED lockFile BY DEF AcquireFlock, files
    <3> QED BY <1>0, <2>3, <2>6, <2>7, <2>8, <2>9, <3>1 DEF LockInv, OwnerIsNamed
  <2>13. PhaseIsOwned' BY <1>0, <2>3, <2>6, <2>7 DEF LockInv, PhaseIsOwned, HasChild
  <2>14. LockInv' BY <1>0, <2>8, <2>10, <2>11, <2>12, <2>13 DEF LockInv, AtMostOneWorker
  <2>15. RunnerInv(r)' BY <2>1, <2>3, <2>6, NoPhaseInv
  <2>16. lockFile' \in Inodes \cup {0} BY <1>0 DEF AcquireFlock, files, Shaped
  <2> QED BY <2>5, <2>14, <2>15, <2>16, SelfInv DEF AcquireFlock, files
<1> QED BY <1>1, <1>2

\* The two reads under the lock.
LEMMA AcquireCheckInv ==
  ASSUME IInv, NEW r \in Runners, NEW intent, AcquireCheck(r, intent)
  PROVE  IInv'
<1>0. Shaped /\ LockInv BY DEF IInv
<1>1. CASE Block(r) BY <1>1, BlockInv DEF AcquireCheck
<1>2. CASE Goto(r, "finish")
  <2>1. PICK R : Moves(r, R) /\ R.pc = "finish" /\ SameButPc(run[r], R)
    <3>1. "finish" \in Steps BY DEF Steps
    <3> QED BY <1>0, <1>2, <3>1, GotoMoves
  <2>2. run[r].pc = "check" BY DEF AcquireCheck, At
  <2>3. /\ run[r].flocked /\ run[r].phase = "none" /\ ~HasChild(r)
        /\ run[r].goal = "resume" => run[r].lease.state = "recovery_required"
    <3>1. "check" \in Locking /\ "check" \notin Working /\ "check" \notin Spawned
      BY DEF Locking, Owning, Working, Spawned
    <3>2. LeaseIsLost(r) BY DEF IInv, RunnerInv
    <3> QED BY <1>0, <2>2, <3>1, <3>2 DEF LockInv, LockIsHeld, PhaseIsOwned, HasChild, LeaseIsLost
  <2>4. R.pc \in Locking /\ R.pc \notin Owning /\ R.pc \notin Working /\ R.pc \notin Spawned
    BY <2>1 DEF Locking, Owning, Working, Spawned
  <2>5. /\ R.flocked /\ R.fd = run[r].fd /\ R.phase = "none"
        /\ R.goal = run[r].goal /\ R.lease = run[r].lease
    BY <2>1, <2>3 DEF SameButPc
  <2>6. UNCHANGED <<proc, lockFile>> BY DEF AcquireCheck, files
  <2>7. \A p \in Pids : Alive(p)' => Alive(p) /\ proc[p].inode # R.fd
    BY <1>0, <2>3, <2>5, <2>6 DEF LockInv, LockIsExclusive, Alive
  <2>8. LockInv' BY <1>0, <2>1, <2>3, <2>4, <2>5, <2>6, <2>7, LockStay
  <2>9. run'[r] = R BY <1>0, <2>1 DEF Moves, Shaped
  <2>10. RunnerInv(r)' BY <2>1, <2>3, <2>5, <2>9, NoPhaseInv
  <2>11. lockFile' \in Inodes \cup {0} BY <1>0, <2>6 DEF Shaped
  <2> QED BY <2>1, <2>8, <2>10, <2>11, SelfInv DEF AcquireCheck, files
<1> QED BY <1>1, <1>2 DEF AcquireCheck

\* The comparison of the inode with the name, and the zero record.
LEMMA AcquireFinishInv ==
  ASSUME IInv, NEW r \in Runners, NEW saved \in BOOLEAN, AcquireFinish(r, saved)
  PROVE  IInv'
<1>0. Shaped /\ LockInv BY DEF IInv
<1>1. CASE run[r].fd # lockFile BY <1>1, BlockInv DEF AcquireFinish, files
<1>2. CASE run[r].fd = lockFile
  <2>1. run[r].pc = "finish" BY DEF AcquireFinish, At
  <2>2. /\ run[r].flocked /\ run[r].phase = "none" /\ ~HasChild(r)
        /\ run[r].goal = "resume" => run[r].lease.state = "recovery_required"
    <3>1. "finish" \in Locking /\ "finish" \notin Working /\ "finish" \notin Spawned
      BY DEF Locking, Owning, Working, Spawned
    <3>2. LeaseIsLost(r) BY DEF IInv, RunnerInv
    <3> QED BY <1>0, <2>1, <3>1, <3>2 DEF LockInv, LockIsHeld, PhaseIsOwned, HasChild, LeaseIsLost
  <2>3. /\ UNCHANGED <<proc, pipe, marker, disk, lockFile, hw, history>>
        /\ seen' \in Nat /\ ((hw' = "manual" \/ exposed') => Pending')
    BY DEF AcquireFinish, history, IInv, Shaped, FansAreMarked, Pending
  <2>4. CASE Goto(r, "owned")
    <3>1. PICK R : Moves(r, R) /\ R.pc = "owned" /\ SameButPc(run[r], R)
      <4>1. "owned" \in Steps BY DEF Steps
      <4> QED BY <1>0, <2>4, <4>1, GotoMoves
    <3>2. R.pc \in Locking \ Spawned BY <3>1 DEF Locking, Owning, Working, Spawned
    <3>3. R.flocked /\ R.fd = run[r].fd /\ R.phase = "none" /\ R.lease = run[r].lease
          /\ R.goal = run[r].goal
      BY <2>2, <3>1 DEF SameButPc
    <3>4. run'[r] = R BY <1>0, <3>1 DEF Moves, Shaped
    <3>5. RunnerInv(r)' BY <2>2, <3>1, <3>3, <3>4, NoPhaseInv
    <3> QED BY <1>2, <2>2, <2>3, <3>1, <3>2, <3>3, <3>5, ExclusiveInv
  <2>5. CASE Block(r)
    <3>1. Moves(r, NoRunner) BY <2>5, NoRunnerShape DEF Block, Moves
    <3>2. /\ ~NoRunner.flocked /\ NoRunner.pc \notin Locking /\ NoRunner.fd = 0
          /\ NoRunner.pc = "idle" /\ NoRunner.phase = "none" /\ NoRunner.goal = "none"
      BY DEF NoRunner, Locking, Owning, Working, Spawned
    <3>3. run'[r] = NoRunner BY <1>0, <3>1 DEF Moves, Shaped
    <3>4. RunnerInv(r)' BY <3>2, <3>3, NoPhaseInv
    <3> QED BY <1>2, <2>2, <2>3, <3>1, <3>2, <3>4, ExclusiveInv
  <2> QED BY <1>2, <2>4, <2>5 DEF AcquireFinish
<1> QED BY <1>1, <1>2

-----------------------------------------------------------------------------
(* What an owner does.                                                     *)

\* What is known of an owner without a worker.
LEMMA OwnerFacts ==
  ASSUME IInv, NEW r \in Runners, run[r].pc \in Owning
  PROVE  /\ run[r] \in RunnerShape /\ run[r].lease \in LeaseShape /\ run[r].now \in Int
         /\ run[r].flocked /\ run[r].fd = lockFile
         /\ run[r].pc \notin Spawned \/ run[r].reaped => ~HasChild(r)
BY DEF IInv, Shaped, RunnerShape, LockInv, LockIsHeld, OwnerIsNamed, Locking, HasChild

\* The first phase of a baseline and of a resumed recovery.
LEMMA StartInv ==
  ASSUME IInv, NEW r \in Runners, StartBaseline(r) \/ StartRecovery(r)
  PROVE  IInv'
<1>0. Shaped /\ LockInv BY DEF IInv
<1>1. run[r].pc = "owned" BY DEF StartBaseline, StartRecovery, At
<1>2. /\ run[r] \in RunnerShape /\ run[r].flocked /\ run[r].fd = lockFile /\ ~HasChild(r)
  BY <1>1, OwnerFacts DEF Owning, Working, Spawned
<1>3. /\ UNCHANGED <<proc, pipe, marker, disk, lockFile, hw, history>>
      /\ seen' \in Nat /\ ((hw' = "manual" \/ exposed') => Pending')
  BY DEF StartBaseline, StartRecovery, files, history, IInv, Shaped, FansAreMarked, Pending
<1>4. \E R : /\ Moves(r, R) /\ R.pc = "fork" /\ ~R.reaped /\ R.flocked /\ R.fd = run[r].fd
             /\ \/ R.phase = "baseline"
                \/ R.phase = "recover" /\ R.lease.state = "recovery_required"
  <2>1. CASE StartBaseline(r)
    <3> DEFINE S == [run[r] EXCEPT !.lease = ZeroLease]
               R == Enter(S, "baseline")
    <3>1. S \in RunnerShape /\ S.fd = run[r].fd /\ S.flocked = run[r].flocked
      BY <1>2, ZeroShape, LeaseChangeShape
    <3>2. run' = [run EXCEPT ![r] = R] BY <2>1 DEF StartBaseline
    <3> HIDE DEF S
    <3>3. "baseline" \in Phases BY DEF Phases
    <3>4. R \in RunnerShape /\ R.pc = "fork" /\ ~R.reaped /\ R.flocked /\ R.fd = run[r].fd /\ R.phase = "baseline"
      BY <1>2, <3>1, <3>3, EnterShape
    <3> HIDE DEF R
    <3> QED BY <3>2, <3>4 DEF Moves
  <2>2. CASE StartRecovery(r)
    <3> DEFINE R == Enter(run[r], "recover")
    <3>1. run' = [run EXCEPT ![r] = R] BY <2>2 DEF StartRecovery
    <3>2. run[r].lease.state = "recovery_required"
      BY <1>1, <2>2 DEF IInv, RunnerInv, LeaseIsLost, StartRecovery
    <3>3. "recover" \in Phases BY DEF Phases
    <3>4. R \in RunnerShape /\ R.pc = "fork" /\ ~R.reaped /\ R.flocked /\ R.fd = run[r].fd /\ R.phase = "recover"
          /\ R.lease = run[r].lease
      BY <1>2, <3>3, EnterShape
    <3> HIDE DEF R
    <3> QED BY <3>1, <3>2, <3>4 DEF Moves
  <2> QED BY <2>1, <2>2
<1>5. PICK R : /\ Moves(r, R) /\ R.pc = "fork" /\ ~R.reaped /\ R.flocked /\ R.fd = run[r].fd
               /\ \/ R.phase = "baseline"
                  \/ R.phase = "recover" /\ R.lease.state = "recovery_required"
  BY <1>4
<1>6. R.pc \in Locking \ Spawned /\ R.pc \in Working BY <1>5 DEF Locking, Owning, Working, Spawned
<1>7. run'[r] = R BY <1>0, <1>5 DEF Moves, Shaped
<1>8. RunnerInv(r)'
  BY <1>5, <1>7 DEF RunnerInv, GrantFollowsRecord, LeaseIsLost, VerifiedIsSystem, LeaseCounts,
                    WindowIsSeen
<1> QED BY <1>2, <1>3, <1>5, <1>6, <1>8, ExclusiveInv

\* What marking the journal may leave: only an absent marker is changed, and only into
\* one that exists; a durable one is there for a reboot too.
LEMMA MarkFacts ==
  ASSUME NEW l, NEW intent \in control_intent_read(marker),
         NEW out \in control_intent_mark_pending(l, intent, marker, disk)
  PROVE  /\ out.durable => out.marker = "pending" /\ out.disk = "pending"
         /\ marker # "absent" => out.marker = marker /\ out.disk = disk
         /\ out.marker # marker => out.marker # "absent"
<1>1. intent = "clear" => marker = "absent" BY DEF control_intent_read
<1>2. CASE out = [marker |-> marker, disk |-> disk, durable |-> FALSE] BY <1>2
<1>3. CASE out \in MarkPendingOutcomes(marker, disk) /\ marker = "absent"
  <2>1. CASE out \in [marker : {"malformed"}, disk : {disk, "malformed"}, durable : {FALSE}]
    BY <1>3, <2>1
  <2>2. CASE out \in [marker : {"pending"}, disk : {disk, "malformed", "pending"}, durable : {FALSE}]
    BY <1>3, <2>2
  <2>3. CASE out = [marker |-> "pending", disk |-> "pending", durable |-> TRUE] BY <1>3, <2>3
  <2> QED BY <1>2, <1>3, <2>1, <2>2, <2>3 DEF MarkPendingOutcomes
<1> QED BY <1>1, <1>2, <1>3 DEF control_intent_mark_pending

\* The intent is durable before the operation is forked.
LEMMA MarkIntentInv ==
  ASSUME IInv, NEW r \in Runners, NEW intent \in control_intent_read(marker), NEW d \in Delays,
         NEW out \in control_intent_mark_pending(run[r].lease, intent, marker, disk),
         MarkIntent(r, out, d)
  PROVE  IInv'
<1>0. Shaped /\ LockInv BY DEF IInv
<1>1. run[r].pc = "owned" BY DEF MarkIntent, At
<1>2. /\ run[r] \in RunnerShape /\ run[r].lease \in LeaseShape /\ run[r].now \in Int
      /\ run[r].flocked /\ run[r].fd = lockFile /\ ~HasChild(r)
  BY <1>1, OwnerFacts DEF Owning, Working, Spawned
<1>3. /\ UNCHANGED <<proc, pipe, lockFile, hw, exposed>> /\ seen' \in Nat
      /\ marker' = out.marker /\ disk' = out.disk
  BY DEF MarkIntent, IInv, Shaped
<1>4. (hw' = "manual" \/ exposed') => Pending'
  BY <1>3, MarkFacts DEF IInv, FansAreMarked, Pending
<1> DEFINE now == run[r].now + d
           l == intent_marked(run[r].lease, out, now)
           S == [run[r] EXCEPT !.now = now, !.lease = l]
<1>5. now \in Int BY <1>2, SupervisorAssumption
<1>6. CASE intentAccepted(run[r].lease, out, now)
  <2>1. run' = [run EXCEPT ![r] = Enter(S, "operate")] BY <1>6 DEF MarkIntent
  <2>2. l \in LeaseShape /\ held_by(l, l.owner) /\ out.durable
    <3> HIDE DEF now
    <3> QED BY <1>2, <1>5, <1>6, MarkedShape
  <2> HIDE DEF l, now
  <2>3. S \in RunnerShape /\ S.fd = run[r].fd /\ S.flocked = run[r].flocked /\ S.lease = l
    BY <1>2, <1>5, <2>2 DEF RunnerShape
  <2> HIDE DEF S
  <2>4. "operate" \in Phases BY DEF Phases
  <2> DEFINE R == Enter(S, "operate")
  <2>5. /\ R \in RunnerShape /\ R.pc = "fork" /\ ~R.reaped /\ R.flocked /\ R.fd = run[r].fd
        /\ R.phase = "operate" /\ R.lease = l
    BY <1>2, <2>3, <2>4, EnterShape
  <2> HIDE DEF R
  <2>6. Moves(r, R) BY <2>1, <2>5 DEF R, Moves
  <2>7. R.pc \in Locking \ Spawned /\ R.pc \in Working BY <2>5 DEF Locking, Owning, Working, Spawned
  <2>8. run'[r] = R BY <1>0, <2>6 DEF Moves, Shaped
  <2>9. Pending' BY <1>3, <2>2, MarkFacts DEF Pending
  <2>10. RunnerInv(r)'
    BY <2>2, <2>5, <2>8, <2>9
    DEF RunnerInv, GrantFollowsRecord, LeaseIsLost, VerifiedIsSystem, LeaseCounts, WindowIsSeen
  <2> QED BY <1>2, <1>3, <1>4, <2>5, <2>6, <2>7, <2>10, ExclusiveInv
<1>7. CASE ~intentAccepted(run[r].lease, out, now)
  <2>1. Moves(r, NoRunner) BY <1>7, NoRunnerShape DEF MarkIntent, Moves
  <2>2. /\ ~NoRunner.flocked /\ NoRunner.pc \notin Locking /\ NoRunner.fd = 0
        /\ NoRunner.pc = "idle" /\ NoRunner.phase = "none" /\ NoRunner.goal = "none"
    BY DEF NoRunner, Locking, Owning, Working, Spawned
  <2>3. run'[r] = NoRunner BY <1>0, <2>1 DEF Moves, Shaped
  <2>4. RunnerInv(r)' BY <2>2, <2>3, NoPhaseInv
  <2> QED BY <1>2, <1>3, <1>4, <2>1, <2>2, <2>4, ExclusiveInv
<1> QED BY <1>6, <1>7

\* The record is unlinked.
LEMMA CleanupRecordInv ==
  ASSUME IInv, NEW r \in Runners, NEW ok \in BOOLEAN, CleanupRecord(r, ok)
  PROVE  IInv'
<1>0. Shaped /\ LockInv BY DEF IInv
<1>1. run[r].pc = "owned" /\ run[r].goal = "cleanup" BY DEF CleanupRecord, At
<1>2. run[r] \in RunnerShape /\ run[r].flocked /\ run[r].fd = lockFile /\ ~HasChild(r)
  BY <1>1, OwnerFacts DEF Owning, Working, Spawned
<1>3. /\ UNCHANGED <<proc, pipe, lockFile>>
      /\ seen' \in Nat /\ ((hw' = "manual" \/ exposed') => Pending')
  BY DEF CleanupRecord, history, IInv, Shaped, FansAreMarked, Pending
<1>4. PICK R : Moves(r, R) /\ R.pc = "unlink_lock" /\ SameButPc(run[r], R)
  <2>1. "unlink_lock" \in Steps BY DEF Steps
  <2> QED BY <1>0, <2>1, GotoMoves DEF CleanupRecord
<1>5. R.pc \in Locking \ Spawned BY <1>4 DEF Locking, Owning, Working, Spawned
<1>6. R.flocked /\ R.fd = run[r].fd /\ R.phase = "none" /\ R.goal = "cleanup"
  BY <1>0, <1>1, <1>2, <1>4 DEF SameButPc, LockInv, PhaseIsOwned, Working, Spawned
<1>7. run'[r] = R BY <1>0, <1>4 DEF Moves, Shaped
<1>8. RunnerInv(r)' BY <1>4, <1>6, <1>7, NoPhaseInv
<1> QED BY <1>2, <1>3, <1>4, <1>5, <1>6, <1>8, ExclusiveInv

\* The lock file is unlinked: its owner still has it locked, and nobody lives.
LEMMA CleanupLockInv ==
  ASSUME IInv, NEW r \in Runners, NEW ok \in BOOLEAN, CleanupLock(r, ok)
  PROVE  IInv'
<1>0. Shaped /\ LockInv BY DEF IInv
<1>1. run[r].pc = "unlink_lock" BY DEF CleanupLock, At
<1>2. run[r].flocked /\ run[r].fd = lockFile /\ ~HasChild(r)
  BY <1>1, OwnerFacts DEF Owning, Working, Spawned
<1>3. UNCHANGED <<proc, pipe, marker, disk, record, recordDisk, hw, history>>
  BY DEF CleanupLock
<1>4. PICK R : Moves(r, R) /\ R.pc = "sync_cleanup" /\ SameButPc(run[r], R)
  <2>1. "sync_cleanup" \in Steps BY DEF Steps
  <2> QED BY <1>0, <2>1, GotoMoves DEF CleanupLock
<1>5. R.flocked /\ R.fd = run[r].fd /\ R.phase = "none" /\ R.fd # 0
  BY <1>0, <1>1, <1>2, <1>4
  DEF SameButPc, LockInv, LockIsHeld, PhaseIsOwned, Locking, Owning, Working, Spawned
<1>6. run'[r] = R /\ \A s \in Runners : s # r => run'[s] = run[s] BY <1>0, <1>4 DEF Moves, Shaped
<1>7. \A p \in Pids : ~Alive(p)' BY <1>0, <1>2, <1>3, NobodyLives DEF Alive
<1>8. \A s \in Runners : s # r => run[s].pc \notin Owning
  BY <1>0, <1>1, OneOwner DEF Owning
<1>9. R.pc \in Locking /\ R.pc \notin Owning /\ R.pc \notin Working /\ R.pc \notin Spawned
  BY <1>4 DEF Locking, Owning, Working, Spawned
<1>10. LockIsHeld' BY <1>0, <1>5, <1>6, <1>9 DEF LockInv, LockIsHeld
<1>11. LockIsExclusive' BY <1>0, <1>2, <1>5, <1>6, <1>7 DEF LockInv, LockIsExclusive
<1>12. OwnerIsNamed' BY <1>6, <1>7, <1>8, <1>9 DEF OwnerIsNamed
<1>13. PhaseIsOwned' BY <1>0, <1>5, <1>6, <1>9 DEF LockInv, PhaseIsOwned, HasChild
<1>14. LockInv' BY <1>7, <1>10, <1>11, <1>12, <1>13 DEF LockInv, AtMostOneWorker
<1>15. RunnerInv(r)' BY <1>4, <1>5, <1>6, NoPhaseInv
<1>16. lockFile' \in Inodes \cup {0} BY <1>0 DEF CleanupLock, Shaped
<1> QED BY <1>3, <1>4, <1>14, <1>15, <1>16, SelfInv

\* The directory is synchronised while another runner may already own the next lock file.
LEMMA CleanupSyncInv ==
  ASSUME IInv, NEW r \in Runners, NEW ok \in BOOLEAN, CleanupSync(r, ok)
  PROVE  IInv'
<1> DEFINE R == Returned(run[r], "cleaned")
<1>1. run[r] \in RunnerShape BY DEF IInv, Shaped
<1>2. "cleaned" \in Results BY DEF Results
<1>3. R \in RunnerShape /\ R.pc = "done" /\ R.fd = 0 /\ ~R.flocked /\ R.phase = "none"
  BY <1>1, <1>2, ReturnedShape
<1>4. run' = [run EXCEPT ![r] = R] BY DEF CleanupSync, Return
<1> HIDE DEF R
<1>5. Moves(r, R) BY <1>3, <1>4 DEF Moves
<1>6. R.pc \notin Locking /\ R.pc # "flock" BY <1>3 DEF Locking, Owning, Working, Spawned
<1>7. AliveKept(r) BY DEF AliveKept, Alive, CleanupSync
<1>8. /\ proc' \in [Pids -> ProcessShape] /\ pipe' \in [Runners -> Seq(Readings)]
      /\ \A s \in Runners : s # r => pipe'[s] = pipe[s]
  BY DEF CleanupSync, IInv, Shaped
<1>9. recordDisk' \in {record, recordDisk} /\ UNCHANGED <<marker, disk, record, lockFile, hw, history>>
  BY DEF CleanupSync
<1> QED BY <1>3, <1>5, <1>6, <1>7, <1>8, <1>9, LeaveInv

\* What is known when the marker is about to be cleared: the fans are the system's, and a
\* whole window has been seen.
LEMMA ClearFacts ==
  ASSUME IInv, NEW r \in Runners, run[r].pc = "clear"
  PROVE  hw = "system" /\ seen >= RequiredSamples /\ \A p \in Pids : ~Alive(p)
<1>1. RunnerInv(r) /\ LockInv BY DEF IInv
<1>2. hw = "system" /\ seen >= RequiredSamples BY <1>1 DEF RunnerInv, VerifiedIsSystem, WindowIsSeen
<1>3. ~HasChild(r) /\ run[r].pc \in Owning BY DEF HasChild, Owning, Working, Spawned
<1> QED BY <1>1, <1>2, <1>3, OnlyItsWorker

\* The end of a recovery.
LEMMA ClearVerifiedInv ==
  ASSUME IInv, NEW r \in Runners, NEW intent, NEW unlinked \in BOOLEAN, NEW synced \in BOOLEAN,
         ClearVerified(r, intent, unlinked, synced)
  PROVE  IInv'
<1>0. Shaped /\ LockInv BY DEF IInv
<1>1. run[r].pc = "clear" BY DEF ClearVerified, At
<1>2. /\ run[r] \in RunnerShape /\ run[r].lease \in LeaseShape
      /\ run[r].flocked /\ run[r].fd = lockFile /\ ~HasChild(r)
  BY <1>1, OwnerFacts DEF Owning, Working, Spawned
<1>3. UNCHANGED <<proc, pipe, lockFile, hw>> /\ seen' \in Nat
  BY <1>0 DEF ClearVerified, Shaped
<1>4. (hw' = "manual" \/ exposed') => Pending'
  BY <1>1, ClearFacts DEF ClearVerified, IInv, FansAreMarked, Pending
<1>5. \E R : /\ Moves(r, R) /\ R.pc = "done" /\ R.fd = 0 /\ ~R.flocked /\ R.phase = "none"
  <2> DEFINE taken == IF intent = "pending"
                       THEN [run[r] EXCEPT !.lease = control_lease_take_recovery_proof(@)] ELSE run[r]
             slept == [taken EXCEPT !.lease = control_lease_sleep(@)]
  <2>1. \/ run' = [run EXCEPT ![r] = Returned(taken, "recovered")]
        \/ run' = [run EXCEPT ![r] = Returned(slept, "observation_failed")]
    BY DEF ClearVerified
  <2>2. taken \in RunnerShape BY <1>2, CallShape, LeaseChangeShape
  <2> HIDE DEF taken
  <2>3. taken.lease \in LeaseShape BY <2>2 DEF RunnerShape
  <2>4. slept \in RunnerShape BY <2>2, <2>3, CallShape, LeaseChangeShape
  <2> HIDE DEF slept
  <2>5. "recovered" \in Results /\ "observation_failed" \in Results BY DEF Results
  <2> QED BY <2>1, <2>2, <2>4, <2>5, ReturnedShape DEF Moves
<1>6. PICK R : /\ Moves(r, R) /\ R.pc = "done" /\ R.fd = 0 /\ ~R.flocked /\ R.phase = "none"
  BY <1>5
<1>7. R.pc \notin Locking /\ R.pc # "flock" BY <1>6 DEF Locking, Owning, Working, Spawned
<1>8. run'[r] = R BY <1>0, <1>6 DEF Moves, Shaped
<1>9. RunnerInv(r)' BY <1>6, <1>8, NoPhaseInv
<1> QED BY <1>2, <1>3, <1>4, <1>6, <1>7, <1>9, ExclusiveInv
-----------------------------------------------------------------------------
(* Phases.                                                                 *)

\* A phase that ends with nobody living: in a return, in the next phase or, after a
\* verification that saw its whole window, in the clearing of the marker.
LEMMA OverInv ==
  ASSUME IInv, NEW r \in Runners, NEW B \in RunnerShape, NEW ok \in BOOLEAN,
         run' = [run EXCEPT ![r] = PhaseOver(B, ok)], run[r].pc \in Owning,
         B.fd = run[r].fd, B.flocked = run[r].flocked, B.phase = run[r].phase,
         B.phase \in {"operate", "recover"} => B.lease = run[r].lease,
         \A p \in Pids : ~Alive(p)',
         proc' \in [Pids -> ProcessShape], pipe' \in [Runners -> Seq(Readings)],
         \A s \in Runners : s # r => pipe'[s] = pipe[s], ok => pipe'[r] = << >>,
         UNCHANGED <<files, hw, history>>,
         B.phase = "verify" /\ ok => hw = "system" /\ seen >= RequiredSamples /\ B.samples > 0
  PROVE  IInv'
<1>0. Shaped /\ LockInv /\ RunnerInv(r) BY DEF IInv
<1>1. PICK Q \in RunnerShape : /\ run' = [run EXCEPT ![r] = Q]
                               /\ \/ Gone(Q)
                                  \/ NextPhase(B, Q) /\ (Q.phase = "verify" => ok)
                                  \/ Clears(B, Q) /\ ok
  BY PhaseOverShape
<1>2. Moves(r, Q) BY <1>1 DEF Moves
<1>3. run'[r] = Q BY <1>0, <1>2 DEF Moves, Shaped
<1>4. CASE Gone(Q)
  <2>1. AliveKept(r) BY DEF AliveKept
  <2>2. /\ ~Q.flocked /\ Q.pc \notin Locking /\ Q.fd = 0 /\ Q.pc # "flock" /\ Q.phase = "none"
        /\ Q.pc \notin {"open", "flock"}
    BY <1>4 DEF Gone, Locking, Owning, Working, Spawned
  <2> QED BY <1>2, <2>1, <2>2, LeaveInv DEF files
<1>5. CASE NextPhase(B, Q) /\ (Q.phase = "verify" => ok)
  <2>1. /\ Q.pc = "fork" /\ ~Q.reaped /\ Q.samples = 0 /\ Q.fd = run[r].fd
        /\ Q.flocked = run[r].flocked
    BY <1>5 DEF NextPhase
  <2>2. Q.phase \in {"recover", "verify"} /\ Q.lease.state = "recovery_required"
    BY <1>0, <1>5 DEF NextPhase, RunnerInv, LeaseIsLost
  <2>3. Q.phase = "verify" => pipe'[r] = << >> BY <1>5
  <2>4. RunnerInv(r)'
    BY <1>3, <2>1, <2>2, <2>3
    DEF RunnerInv, GrantFollowsRecord, LeaseIsLost, VerifiedIsSystem, LeaseCounts, WindowIsSeen
  <2>5. Q.pc \in Working /\ Q.pc \notin Spawned BY <2>1 DEF Working, Spawned
  <2> QED BY <1>2, <2>1, <2>4, <2>5, StayInv
<1>6. CASE Clears(B, Q) /\ ok
  <2>1. /\ Q.pc = "clear" /\ Q.phase = "verify" /\ Q.samples > 0 /\ Q.fd = run[r].fd
        /\ Q.flocked = run[r].flocked /\ hw' = "system" /\ seen' >= RequiredSamples
    BY <1>6 DEF Clears, history
  <2>2. RunnerInv(r)'
    BY <1>3, <2>1
    DEF RunnerInv, GrantFollowsRecord, LeaseIsLost, VerifiedIsSystem, LeaseCounts, WindowIsSeen,
        Reading
  <2>3. Q.pc \in Working /\ Q.pc \notin Spawned BY <2>1 DEF Working, Spawned
  <2> QED BY <1>2, <2>1, <2>2, <2>3, StayInv
<1> QED BY <1>1, <1>4, <1>5, <1>6

\* A worker that could not be forked.
LEMMA ForkFailedInv ==
  ASSUME IInv, NEW r \in Runners, ForkFailed(r)
  PROVE  IInv'
<1>1. run[r].pc = "fork" BY DEF ForkFailed, At
<1>2. run[r].pc \in Owning /\ run[r] \in RunnerShape /\ ~HasChild(r) /\ LockInv
  BY <1>1, OwnerFacts DEF Owning, Working, Spawned, IInv
<1>3. \A p \in Pids : ~Alive(p)' BY <1>2, OnlyItsWorker DEF ForkFailed, Alive
<1>4. /\ run' = [run EXCEPT ![r] = PhaseOver(run[r], FALSE)]
      /\ proc' \in [Pids -> ProcessShape] /\ pipe' \in [Runners -> Seq(Readings)]
      /\ UNCHANGED <<pipe, files, hw, history>>
  BY DEF ForkFailed, IInv, Shaped
<1> QED BY <1>2, <1>3, <1>4, OverInv

\* A pid that is free again.
LEMMA FreeShape == FreePid \in ProcessShape
<1>1. 0 \in Int OBVIOUS
<1> QED BY <1>1, Zenon DEF FreePid, ProcessShape, Phases

\* An exit that waitpid returned.
LEMMA CollectInv ==
  ASSUME IInv, NEW r \in Runners, NEW ok \in BOOLEAN, run[r].pc \in {"wait", "stop", "reap"},
         Collect(r, ok), run[r].phase = "verify" => ~ok
  PROVE  IInv'
<1>1. run[r].pc \in Owning /\ run[r] \in RunnerShape /\ LockInv
  BY OwnerFacts DEF Owning, Working, Spawned, IInv
<1>2. \A p \in Pids : ~Alive(p)'
  <2> SUFFICES ASSUME NEW p \in Pids, Alive(p)' PROVE FALSE OBVIOUS
  <2>1. Alive(p) /\ p # run[r].child
    BY DEF Collect, Alive, FreePid, IInv, Shaped
  <2> QED BY <1>1, <2>1, OnlyItsWorker
<1>3. /\ run' = [run EXCEPT ![r] = PhaseOver(run[r], ok)]
      /\ UNCHANGED <<files, hw, history>>
  BY DEF Collect
<1>4. proc' \in [Pids -> ProcessShape] BY FreeShape DEF Collect, IInv, Shaped
<1>5. /\ pipe' \in [Runners -> Seq(Readings)] /\ pipe'[r] = << >>
      /\ \A s \in Runners : s # r => pipe'[s] = pipe[s]
  BY DEF Collect, IInv, Shaped
<1> QED BY <1>1, <1>2, <1>3, <1>4, <1>5, OverInv

\* wait_phase and stop_and_reap, when the worker has ended.
LEMMA CollectsInv ==
  ASSUME IInv, NEW r \in Runners, WaitPhase(r) \/ StopCollect(r) \/ Reap(r)
  PROVE  IInv'
<1>1. (proc[run[r].child].exit = "ok") \in BOOLEAN OBVIOUS
<1> QED BY <1>1, CollectInv DEF WaitPhase, StopCollect, Reap, At, Observes

\* The phase goes on without its readings: what is left is to stop the worker.
LEMMA StopInv ==
  ASSUME IInv, NEW r \in Runners, NEW B \in RunnerShape, run[r].pc = "wait",
         B.fd = run[r].fd, B.flocked = run[r].flocked, B.phase = run[r].phase,
         B.child = run[r].child, B.reaped = run[r].reaped, B.samples = run[r].samples,
         B.phase \in {"operate", "recover"} => B.lease = run[r].lease,
         run' = [run EXCEPT ![r] = IF B.reaped THEN PhaseOver(B, FALSE) ELSE [B EXCEPT !.pc = "stop"]],
         pipe' = [pipe EXCEPT ![r] = << >>],
         UNCHANGED <<proc, files, hw, history>>
  PROVE  IInv'
<1>0. LockInv /\ Shaped /\ RunnerInv(r) BY DEF IInv
<1>1. run[r].pc \in Owning BY DEF Owning, Working, Spawned
<1>2. proc' \in [Pids -> ProcessShape] /\ pipe' \in [Runners -> Seq(Readings)]
      /\ pipe'[r] = << >> /\ \A s \in Runners : s # r => pipe'[s] = pipe[s]
  BY <1>0 DEF Shaped
<1>3. CASE B.reaped
  <2>1. \A p \in Pids : ~Alive(p)' BY <1>0, <1>1, <1>3, OnlyItsWorker DEF Alive, HasChild
  <2> QED BY <1>1, <1>2, <1>3, <2>1, OverInv
<1>4. CASE ~B.reaped
  <2> DEFINE R == [B EXCEPT !.pc = "stop"]
  <2>1. run' = [run EXCEPT ![r] = R] BY <1>4
  <2>2. R \in RunnerShape BY DEF RunnerShape, Steps
  <2>3. /\ R.pc = "stop" /\ R.fd = run[r].fd /\ R.flocked = run[r].flocked
        /\ R.phase = run[r].phase /\ R.child = run[r].child /\ ~R.reaped
        /\ R.samples = run[r].samples
        /\ R.phase \in {"operate", "recover"} => R.lease = run[r].lease
    BY <1>4 DEF RunnerShape
  <2> HIDE DEF R
  <2>4. Moves(r, R) /\ run'[r] = R BY <1>0, <2>1, <2>2 DEF Moves, Shaped
  <2>5. RunnerInv(r)'
    <3>1. UNCHANGED <<marker, disk, hw>> BY DEF files
    <3>2. LeaseIsLost(r)' BY <1>0, <2>3, <2>4, <3>1 DEF RunnerInv, LeaseIsLost, Reading, Pending
    <3>3. VerifiedIsSystem(r)'
      <4>1. Len(pipe'[r]) = 0 BY <1>2
      <4>2. hw' = hw /\ run'[r].phase = run[r].phase /\ run'[r].samples = run[r].samples
        BY <2>3, <2>4, <3>1
      <4>3. run'[r].pc # "clear" BY <2>3, <2>4
      <4>4. \A i \in 1..Len(pipe'[r]) : FALSE BY <4>1
      <4> QED BY <1>0, <4>2, <4>3, <4>4 DEF RunnerInv, VerifiedIsSystem
    <3>4. GrantFollowsRecord(r)' /\ LeaseCounts(r)' /\ WindowIsSeen(r)'
      BY <2>3, <2>4 DEF GrantFollowsRecord, LeaseCounts, WindowIsSeen
    <3> QED BY <3>2, <3>3, <3>4 DEF RunnerInv
  <2>6. R.pc \in Working /\ R.pc \in Spawned /\ HasChild(r) BY <1>4, <2>3 DEF Working, Spawned, HasChild
  <2>7. \A p \in Pids : Alive(p)' => Alive(p) /\ proc'[p] = proc[p] BY DEF Alive
  <2> QED BY <1>1, <1>2, <2>3, <2>4, <2>5, <2>6, <2>7, StayInv
<1> QED BY <1>3, <1>4

\* A deadline, an owner that cancels or an observer without progress.
LEMMA DeadlineInv ==
  ASSUME IInv, NEW r \in Runners, Deadline(r)
  PROVE  IInv'
<1>1. run[r] \in RunnerShape BY DEF IInv, Shaped
<1> QED BY <1>1, StopInv DEF Deadline, At

\* A process with another flag.
LEMMA FlagShape ==
  ASSUME NEW P \in ProcessShape, NEW b \in BOOLEAN
  PROVE  /\ [P EXCEPT !.killed = b] \in ProcessShape
         /\ [P EXCEPT !.connected = b] \in ProcessShape
         /\ [P EXCEPT !.grant = b] \in ProcessShape
         /\ [P EXCEPT !.stalled = b] \in ProcessShape
BY Zenon DEF ProcessShape

\* SIGKILL to a worker that has not ended.
LEMMA StopKillInv ==
  ASSUME IInv, NEW r \in Runners, StopKill(r)
  PROVE  IInv'
<1>0. LockInv /\ Shaped /\ RunnerInv(r) BY DEF IInv
<1>1. run[r].pc = "stop" BY DEF StopKill, At
<1>2. run[r].pc \in Owning /\ HasChild(r)
  BY <1>0, <1>1 DEF Owning, Working, Spawned, HasChild, LockInv, PhaseIsOwned
<1>3. PICK R : Moves(r, R) /\ R.pc = "reap" /\ SameButPc(run[r], R)
  <2>1. "reap" \in Steps BY DEF Steps
  <2> QED BY <1>0, <2>1, GotoMoves DEF StopKill
<1>4. run'[r] = R BY <1>0, <1>3 DEF Moves, Shaped
<1>5. /\ R.fd = run[r].fd /\ R.flocked = run[r].flocked /\ R.phase = run[r].phase
      /\ R.child = run[r].child /\ ~R.reaped /\ R.samples = run[r].samples
      /\ R.lease = run[r].lease /\ R.goal = run[r].goal
  BY <1>2, <1>3 DEF SameButPc, HasChild
<1>6. proc' \in [Pids -> ProcessShape] BY <1>0, FlagShape DEF StopKill, Shaped
<1>7. \A p \in Pids : Alive(p)' =>
        /\ Alive(p)
        /\ proc'[p].inode = proc[p].inode /\ proc'[p].role = proc[p].role
        /\ proc'[p].parent = proc[p].parent /\ (proc'[p].grant => proc[p].grant)
  BY <1>0 DEF StopKill, Shaped, ProcessShape, Alive
<1>8. UNCHANGED <<pipe, files, hw, history>> /\ pipe' \in [Runners -> Seq(Readings)]
  BY <1>0 DEF StopKill, Shaped
<1>9. RunnerInv(r)'
  <2>1. UNCHANGED <<marker, disk, hw, pipe>> BY <1>8 DEF files
  <2>2. LeaseIsLost(r)' BY <1>0, <1>3, <1>4, <1>5, <2>1 DEF RunnerInv, LeaseIsLost, Reading, Pending
  <2>3. VerifiedIsSystem(r)' BY <1>0, <1>3, <1>4, <1>5, <2>1 DEF RunnerInv, VerifiedIsSystem
  <2>4. GrantFollowsRecord(r)' /\ LeaseCounts(r)' /\ WindowIsSeen(r)'
    BY <1>3, <1>4 DEF GrantFollowsRecord, LeaseCounts, WindowIsSeen
  <2> QED BY <2>2, <2>3, <2>4 DEF RunnerInv
<1>10. R.pc \in Working /\ R.pc \in Spawned BY <1>3 DEF Working, Spawned
<1> QED BY <1>2, <1>3, <1>5, <1>6, <1>7, <1>8, <1>9, <1>10, StayInv

\* A worker that survives SIGKILL past the deadline is left to its lock.
LEMMA ReapTimeoutInv ==
  ASSUME IInv, NEW r \in Runners, ReapTimeout(r)
  PROVE  IInv'
<1>0. Shaped BY DEF IInv
<1> DEFINE R == StopFailed(run[r])
<1>1. R \in RunnerShape /\ Gone(R) BY <1>0, StopFailedShape DEF Shaped
<1>2. run' = [run EXCEPT ![r] = R] BY DEF ReapTimeout
<1> HIDE DEF R
<1>3. Moves(r, R) BY <1>1, <1>2 DEF Moves
<1>4. /\ ~R.flocked /\ R.pc \notin Locking /\ R.fd = 0 /\ R.pc # "flock" /\ R.phase = "none"
      /\ R.pc \notin {"open", "flock"}
  BY <1>1 DEF Gone, Locking, Owning, Working, Spawned
<1>5. proc' \in [Pids -> ProcessShape] BY <1>0, FlagShape DEF ReapTimeout, Shaped
<1>6. AliveKept(r) BY <1>0 DEF AliveKept, ReapTimeout, Shaped, ProcessShape, Alive
<1>7. /\ pipe' \in [Runners -> Seq(Readings)]
      /\ \A s \in Runners : s # r => pipe'[s] = pipe[s]
      /\ UNCHANGED <<files, hw, history>>
  BY <1>0 DEF ReapTimeout, Shaped
<1> QED BY <1>3, <1>4, <1>5, <1>6, <1>7, LeaveInv DEF files

\* The exit of an observer is collected while its window is still read.
LEMMA ReapObserverInv ==
  ASSUME IInv, NEW r \in Runners, ReapObserver(r)
  PROVE  IInv'
<1>0. LockInv /\ Shaped /\ RunnerInv(r) BY DEF IInv
<1>1. run[r].pc = "wait" /\ ~run[r].reaped BY DEF ReapObserver, At
<1>2. run[r].pc \in Owning /\ run[r] \in RunnerShape
  BY <1>0, <1>1 DEF Owning, Working, Spawned, Shaped
<1> DEFINE R == [run[r] EXCEPT !.reaped = TRUE, !.exited_ok = (proc[run[r].child].exit = "ok"),
                               !.child = NoPid]
<1>3. run' = [run EXCEPT ![r] = R] BY <1>0 DEF ReapObserver, Shaped
<1>4. R \in RunnerShape
  <2>1. (proc[run[r].child].exit = "ok") \in BOOLEAN OBVIOUS
  <2> QED BY <1>2, <2>1, Zenon DEF RunnerShape
<1>5. /\ R.pc = "wait" /\ R.fd = run[r].fd /\ R.flocked = run[r].flocked /\ R.phase = run[r].phase
      /\ R.reaped /\ R.samples = run[r].samples /\ R.lease = run[r].lease /\ R.goal = run[r].goal
  BY <1>1, <1>2 DEF RunnerShape
<1> HIDE DEF R
<1>6. Moves(r, R) /\ run'[r] = R BY <1>0, <1>3, <1>4 DEF Moves, Shaped
<1>7. \A p \in Pids : ~Alive(p)'
  <2> SUFFICES ASSUME NEW p \in Pids, Alive(p)' PROVE FALSE OBVIOUS
  <2>1. Alive(p) /\ p # run[r].child BY <1>0 DEF ReapObserver, Alive, FreePid, Shaped
  <2> QED BY <1>0, <1>2, <2>1, OnlyItsWorker
<1>8. proc' \in [Pids -> ProcessShape] BY <1>0, FreeShape DEF ReapObserver, Shaped
<1>9. UNCHANGED <<pipe, files, hw, history>> /\ pipe' \in [Runners -> Seq(Readings)]
  BY <1>0 DEF ReapObserver, Shaped
<1>10. RunnerInv(r)'
  <2>1. UNCHANGED <<marker, disk, hw, pipe, seen>> BY <1>9 DEF files, history
  <2>2. LeaseIsLost(r)' BY <1>0, <1>1, <1>5, <1>6, <2>1 DEF RunnerInv, LeaseIsLost, Reading, Pending
  <2>3. VerifiedIsSystem(r)' BY <1>0, <1>5, <1>6, <2>1 DEF RunnerInv, VerifiedIsSystem
  <2>4. GrantFollowsRecord(r)' /\ LeaseCounts(r)'
    BY <1>0, <1>1, <1>5, <1>6 DEF RunnerInv, GrantFollowsRecord, LeaseCounts
  <2>5. WindowIsSeen(r)' BY <1>0, <1>1, <1>5, <1>6, <2>1 DEF RunnerInv, WindowIsSeen
  <2> QED BY <2>2, <2>3, <2>4, <2>5 DEF RunnerInv
<1>11. R.pc \in Working BY <1>5 DEF Working, Spawned
<1>12. R.pc \notin Spawned \ {"wait"} BY <1>5
<1> QED BY <1>2, <1>5, <1>6, <1>7, <1>8, <1>9, <1>10, <1>11, <1>12, StayInv

\* The end of an observer whose pipe is read out.
LEMMA FinishObserverInv ==
  ASSUME IInv, NEW r \in Runners, FinishObserver(r)
  PROVE  IInv'
<1>0. LockInv /\ Shaped /\ RunnerInv(r) BY DEF IInv
<1>1. run[r].pc = "wait" /\ run[r].reaped /\ pipe[r] = << >> BY DEF FinishObserver, At
<1>2. run[r].pc \in Owning /\ run[r] \in RunnerShape
  BY <1>0, <1>1 DEF Owning, Working, Spawned, Shaped
<1> DEFINE ok == /\ run[r].exited_ok /\ run[r].samples = RequiredSamples
                 /\ run[r].lease.state = "stable"
                 /\ run[r].lease.recovery_verified = Recovering(run[r].phase)
<1>3. run' = [run EXCEPT ![r] = PhaseOver(run[r], ok)] BY DEF FinishObserver
<1>4. ok \in BOOLEAN OBVIOUS
<1>5. ok => run[r].samples = RequiredSamples OBVIOUS
<1> HIDE DEF ok
<1>6. run[r].phase = "verify" /\ ok =>
        hw = "system" /\ seen >= RequiredSamples /\ run[r].samples > 0
  <2> SUFFICES ASSUME run[r].phase = "verify", ok
               PROVE  hw = "system" /\ seen >= RequiredSamples /\ run[r].samples > 0
    OBVIOUS
  <2>1. run[r].samples > 0 /\ run[r].samples <= RequiredSamples BY <1>5, LeaseAssumption
  <2>2. hw = "system" BY <1>0, <2>1 DEF RunnerInv, VerifiedIsSystem
  <2>3. AllSystem(pipe[r]) /\ Len(pipe[r]) = 0 BY <1>1 DEF AllSystem
  <2>4. seen >= run[r].samples + Len(pipe[r]) BY <1>0, <1>1, <2>1, <2>3 DEF RunnerInv, WindowIsSeen
  <2> QED BY <1>5, <2>1, <2>2, <2>3, <2>4, LeaseAssumption
<1>7. /\ UNCHANGED <<proc, pipe, files, hw, history>>
      /\ proc' \in [Pids -> ProcessShape] /\ pipe' \in [Runners -> Seq(Readings)]
  BY <1>0 DEF FinishObserver, Shaped
<1>8. \A p \in Pids : ~Alive(p)' BY <1>0, <1>1, <1>2, <1>7, OnlyItsWorker DEF Alive, HasChild
<1>9. pipe'[r] = << >> BY <1>1, <1>7
<1> QED BY <1>2, <1>3, <1>4, <1>6, <1>7, <1>8, <1>9, OverInv
-----------------------------------------------------------------------------
(* spawn_worker and the observations.                                      *)

\* A fork gives the only worker of the machine its runner's lock.
LEMMA ForkInv ==
  ASSUME IInv, NEW r \in Runners, NEW p \in Pids, Fork(r, p)
  PROVE  IInv'
<1>0. LockInv /\ Shaped /\ RunnerInv(r) BY DEF IInv
<1>1. run[r].pc = "fork" BY DEF Fork, At
<1>2. /\ run[r].pc \in Owning /\ run[r] \in RunnerShape /\ ~HasChild(r)
      /\ run[r].flocked /\ run[r].fd = lockFile
  BY <1>1, OwnerFacts DEF Owning, Working, Spawned
<1>3. \A q \in Pids : ~Alive(q) BY <1>0, <1>2, NobodyLives
<1> DEFINE R == [run[r] EXCEPT !.pc = "record", !.child = p]
<1>4. run' = [run EXCEPT ![r] = R] BY <1>0 DEF Fork, Shaped
<1>5. R \in RunnerShape BY <1>2 DEF RunnerShape, Steps
<1>6. /\ R.pc = "record" /\ R.fd = run[r].fd /\ R.flocked = run[r].flocked /\ R.phase = run[r].phase
      /\ R.child = p /\ R.reaped = run[r].reaped /\ R.samples = run[r].samples
      /\ R.lease = run[r].lease /\ R.goal = run[r].goal
  BY <1>2 DEF RunnerShape
<1> HIDE DEF R
<1>7. Moves(r, R) /\ run'[r] = R BY <1>0, <1>4, <1>5 DEF Moves, Shaped
<1>8. /\ Worker(r) \in ProcessShape
      /\ Worker(r).role = run[r].phase /\ Worker(r).parent = r /\ Worker(r).inode = run[r].fd
      /\ Worker(r).grant = FALSE
  <2> DEFINE left == IF Observes(run[r].phase) THEN RequiredSamples ELSE 0
  <2>1. left \in Int BY LeaseAssumption
  <2>2. run[r].phase \in Phases /\ run[r].fd \in Inodes \cup {0} BY <1>2 DEF RunnerShape
  <2>3. Worker(r) = [FreePid EXCEPT !.state = "blocked", !.role = run[r].phase, !.parent = r,
                                    !.inode = run[r].fd, !.connected = TRUE, !.left = left]
    BY DEF Worker
  <2> HIDE DEF left
  <2>4. Worker(r) \in ProcessShape BY <2>1, <2>2, <2>3, FreeShape, Zenon DEF ProcessShape
  <2> QED BY <2>3, <2>4 DEF FreePid
<1>9. /\ proc' = [proc EXCEPT ![p] = Worker(r)] /\ proc' \in [Pids -> ProcessShape]
  BY <1>0, <1>8 DEF Fork, Shaped
<1>10. \A q \in Pids : Alive(q)' => q = p /\ proc'[q] = Worker(r)
  BY <1>0, <1>3, <1>9 DEF Alive, Shaped
<1>11. ~R.reaped BY <1>0, <1>1, <1>6 DEF LockInv, PhaseIsOwned, Working
<1>12. R.pc \in Locking /\ R.pc \in Working /\ R.pc \in Spawned
  BY <1>6 DEF Locking, Owning, Working, Spawned
<1>13. UNCHANGED <<pipe, files, hw, exposed>> /\ seen' = 0 BY DEF Fork
<1>14. LockInv'
  <2>1. UNCHANGED lockFile BY <1>13 DEF files
  <2>2. \A q \in Pids : Alive(q)' =>
          /\ proc'[q].inode = R.fd /\ R.fd = lockFile
          /\ R.pc \in Spawned /\ ~R.reaped /\ R.child = q
          /\ proc'[q].parent = r /\ proc'[q].role = R.phase
    BY <1>2, <1>6, <1>8, <1>10, <1>11, <1>12
  <2>3. R.flocked /\ R.fd = lockFile /\ R.child \in Pids BY <1>2, <1>6
  <2> QED BY <1>0, <1>2, <1>6, <1>7, <1>11, <1>12, <2>1, <2>2, <2>3, LockStay
<1>15. RunnerInv(r)'
  <2>1. UNCHANGED <<marker, disk, hw, pipe>> BY <1>13 DEF files
  <2>2. GrantFollowsRecord(r)'
    BY <1>0, <1>6, <1>7, <1>8, <1>9 DEF GrantFollowsRecord, Shaped
  <2>3. LeaseIsLost(r)'
    BY <1>0, <1>1, <1>6, <1>7, <2>1 DEF RunnerInv, LeaseIsLost, Reading, Pending
  <2>4. VerifiedIsSystem(r)' /\ LeaseCounts(r)'
    BY <1>0, <1>6, <1>7, <2>1 DEF RunnerInv, VerifiedIsSystem, LeaseCounts
  <2>5. WindowIsSeen(r)' BY <1>0, <1>1, <1>6, <1>7, <2>1 DEF RunnerInv, WindowIsSeen
  <2> QED BY <2>2, <2>3, <2>4, <2>5 DEF RunnerInv
<1>16. Shaped' BY <1>0, <1>7, <1>9, <1>13 DEF Shaped, Moves, files
<1>17. GrantedIsRecorded' BY <1>8, <1>10 DEF GrantedIsRecorded
<1>18. FansAreMarked'
  <2>1. run[r].phase = "operate" => Pending BY <1>0 DEF RunnerInv, LeaseIsLost
  <2> QED BY <1>8, <1>10, <1>13, <2>1 DEF IInv, FansAreMarked, Pending, files
<1>19. \A s \in Runners : RunnerInv(s)' BY <1>2, <1>7, <1>15, OwnerSteps
<1> QED BY <1>14, <1>16, <1>17, <1>18, <1>19 DEF IInv

\* The worker of a runner that waits for its record or its grant.
LEMMA SpawnFacts ==
  ASSUME IInv, NEW r \in Runners, run[r].pc \in {"record", "grant"}
  PROVE  run[r].pc \in Owning /\ HasChild(r) /\ run[r].child \in Pids /\ ~run[r].reaped
BY DEF IInv, LockInv, PhaseIsOwned, HasChild, Owning, Working, Spawned

\* What holds of a runner whose phase goes on to its grant or to its wait.
LEMMA SpawnKept ==
  ASSUME IInv, NEW r \in Runners, run[r].pc \in {"record", "grant"}, SameButPc(run[r], run'[r]),
         run'[r].pc \in {"grant", "wait"}, UNCHANGED <<marker, disk, hw, pipe, seen>>,
         run'[r].pc = "grant" => record' = run[r].child /\ recordDisk' = run[r].child
  PROVE  RunnerInv(r)'
<1>0. RunnerInv(r) BY DEF IInv
<1>1. LeaseIsLost(r)' BY <1>0 DEF RunnerInv, LeaseIsLost, Reading, Pending, SameButPc
<1>2. VerifiedIsSystem(r)' BY <1>0 DEF RunnerInv, VerifiedIsSystem, SameButPc
<1>3. run[r].phase = "verify" => run[r].samples = 0 /\ pipe[r] = << >>
  BY <1>0 DEF RunnerInv, WindowIsSeen
<1>4. LeaseCounts(r)' BY <1>3 DEF LeaseCounts, SameButPc
<1>5. WindowIsSeen(r)'
  <2>1. seen >= 0 /\ Len(<< >>) = 0 BY DEF IInv, Shaped
  <2> QED BY <1>3, <2>1 DEF WindowIsSeen, SameButPc
<1>6. GrantFollowsRecord(r)' BY DEF GrantFollowsRecord, SameButPc
<1> QED BY <1>1, <1>2, <1>4, <1>5, <1>6 DEF RunnerInv

\* The pid is recorded before the grant; a pid that could not be recorded gets none.
LEMMA RecordWorkerInv ==
  ASSUME IInv, NEW r \in Runners, NEW saved \in BOOLEAN, RecordWorker(r, saved)
  PROVE  IInv'
<1>0. LockInv /\ Shaped /\ RunnerInv(r) BY DEF IInv
<1>1. run[r].pc = "record" BY DEF RecordWorker, At
<1>2. run[r].pc \in Owning /\ HasChild(r) /\ run[r].child \in Pids /\ ~run[r].reaped
  BY <1>1, SpawnFacts
<1> DEFINE step == IF saved THEN "grant" ELSE "wait"
<1>3. step \in Steps /\ step \in {"grant", "wait"} BY DEF Steps
<1>4. PICK R : Moves(r, R) /\ R.pc = step /\ SameButPc(run[r], R)
  BY <1>0, <1>3, GotoMoves DEF RecordWorker
<1>5. run'[r] = R BY <1>0, <1>4 DEF Moves, Shaped
<1>6. /\ R.fd = run[r].fd /\ R.flocked = run[r].flocked /\ R.phase = run[r].phase
      /\ R.child = run[r].child /\ ~R.reaped
  BY <1>2, <1>4 DEF SameButPc
<1>7. /\ UNCHANGED <<marker, disk, lockFile, hw, pipe, exposed, seen>>
      /\ pipe' \in [Runners -> Seq(Readings)] /\ seen' \in Nat
  BY <1>0 DEF RecordWorker, Shaped, history
<1>8. proc' \in [Pids -> ProcessShape] BY <1>0, FlagShape DEF RecordWorker, Shaped
<1>9. \A p \in Pids : Alive(p)' =>
        /\ Alive(p)
        /\ proc'[p].inode = proc[p].inode /\ proc'[p].role = proc[p].role
        /\ proc'[p].parent = proc[p].parent /\ proc'[p].grant = proc[p].grant
  BY <1>0 DEF RecordWorker, Shaped, ProcessShape, Alive
<1>10. \A p \in Pids : Alive(p) => ~proc[p].grant
  BY <1>0, <1>1, <1>2, OnlyItsWorker DEF RunnerInv, GrantFollowsRecord
<1>11. GrantedIsRecorded' BY <1>9, <1>10 DEF GrantedIsRecorded
<1>12. R.pc = "grant" => record' = run[r].child /\ recordDisk' = run[r].child
  BY <1>4 DEF RecordWorker, supervisor_ownership_record
<1>13. RunnerInv(r)' BY <1>1, <1>3, <1>4, <1>5, <1>7, <1>12, SpawnKept
<1>14. R.pc \in Working /\ R.pc \in Spawned BY <1>3, <1>4 DEF Working, Spawned
<1> HIDE DEF step
<1> QED BY <1>2, <1>4, <1>6, <1>7, <1>8, <1>9, <1>11, <1>13, <1>14, OwnerInv

\* The grant is written to the worker that is recorded.
LEMMA GrantInv ==
  ASSUME IInv, NEW r \in Runners, Grant(r)
  PROVE  IInv'
<1>0. LockInv /\ Shaped /\ RunnerInv(r) BY DEF IInv
<1>1. run[r].pc = "grant" BY DEF Grant, At
<1>2. run[r].pc \in Owning /\ HasChild(r) /\ run[r].child \in Pids /\ ~run[r].reaped
  BY <1>1, SpawnFacts
<1>3. PICK R : Moves(r, R) /\ R.pc = "wait" /\ SameButPc(run[r], R)
  <2>1. "wait" \in Steps BY DEF Steps
  <2> QED BY <1>0, <2>1, GotoMoves DEF Grant
<1>4. run'[r] = R BY <1>0, <1>3 DEF Moves, Shaped
<1>5. /\ R.fd = run[r].fd /\ R.flocked = run[r].flocked /\ R.phase = run[r].phase
      /\ R.child = run[r].child /\ ~R.reaped
  BY <1>2, <1>3 DEF SameButPc
<1>6. /\ UNCHANGED <<marker, disk, record, recordDisk, lockFile, hw, pipe, exposed, seen>>
      /\ pipe' \in [Runners -> Seq(Readings)] /\ seen' \in Nat
  BY <1>0 DEF Grant, Shaped, history, files
<1>7. Alive(run[r].child) \in BOOLEAN BY DEF Alive
<1>8. PICK p \in Pids, b \in BOOLEAN : p = run[r].child /\ proc' = [proc EXCEPT ![p].grant = b, ![p].connected = b]
  BY <1>2, <1>7 DEF Grant
<1>9. proc' \in [Pids -> ProcessShape]
  <2>1. proc[p] \in ProcessShape BY <1>0 DEF Shaped
  <2>2. [proc[p] EXCEPT !.grant = b] \in ProcessShape BY <2>1, FlagShape
  <2> DEFINE P == [[proc[p] EXCEPT !.grant = b] EXCEPT !.connected = b]
  <2>3. P \in ProcessShape BY <2>2, FlagShape
  <2>4. proc' = [proc EXCEPT ![p] = P] BY <1>0, <1>8 DEF Shaped
  <2> HIDE DEF P
  <2> QED BY <1>0, <2>3, <2>4 DEF Shaped
<1>10. \A q \in Pids : Alive(q)' =>
        /\ Alive(q)
        /\ proc'[q].inode = proc[q].inode /\ proc'[q].role = proc[q].role
        /\ proc'[q].parent = proc[q].parent
  BY <1>0, <1>8 DEF Shaped, ProcessShape, Alive
<1>11. GrantedIsRecorded'
  <2>1. \A q \in Pids : Alive(q)' => q = run[r].child BY <1>0, <1>2, <1>10, OnlyItsWorker
  <2>2. record = run[r].child /\ recordDisk = run[r].child
    BY <1>0, <1>1 DEF RunnerInv, GrantFollowsRecord
  <2> QED BY <1>6, <2>1, <2>2 DEF GrantedIsRecorded
<1>12. RunnerInv(r)' BY <1>1, <1>3, <1>4, <1>6, SpawnKept
<1>13. R.pc \in Working /\ R.pc \in Spawned BY <1>3 DEF Working, Spawned
<1> QED BY <1>2, <1>3, <1>5, <1>6, <1>9, <1>10, <1>11, <1>12, <1>13, OwnerInv

\* What the lease says of the next reading of a verification that it accepts.
LEMMA AcceptedFacts ==
  ASSUME NEW R \in RunnerShape, NEW reading, NEW now \in Int, R.phase = "verify",
         R.samples = 0 => R.lease.state = "recovery_required",
         R.samples > 0 => \/ R.lease.state = "verifying_recovery" /\ R.lease.samples = R.samples
                          \/ R.lease.state = "stable" /\ R.samples >= RequiredSamples,
         acceptedWindow(accept_observation(R, reading, now), TRUE)
  PROVE  LET l == accept_observation(R, reading, now) IN
         /\ \/ l.state = "verifying_recovery" /\ l.samples = R.samples + 1
            \/ l.state = "stable" /\ R.samples + 1 >= RequiredSamples
         /\ smc_baseline_is_system(reading) \/ R.samples >= RequiredSamples
<1>0. R.lease \in LeaseShape /\ R.samples \in Nat BY DEF RunnerShape
<1> DEFINE l == accept_observation(R, reading, now)
<1>1. l.state \in {"verifying_recovery", "stable"} BY DEF acceptedWindow
<1>2. CASE R.samples = 0
  <2>1. l = control_lease_recovery_started(R.lease, reading, now)
    BY <1>2 DEF accept_observation, Recovering
  <2> HIDE DEF l
  <2> QED BY <1>0, <1>1, <1>2, <2>1, RecoveryStartShape DEF l
<1>3. CASE R.samples > 0
  <2>1. l = control_lease_sample(R.lease, reading, now) BY <1>3 DEF accept_observation
  <2>2. CASE R.lease.state = "stable" /\ R.samples >= RequiredSamples
    <3>1. l = R.lease BY <1>0, <2>1, <2>2, SampleShape
    <3> QED BY <1>0, <2>2, <3>1, LeaseAssumption
  <2>3. CASE R.lease.state = "verifying_recovery" /\ R.lease.samples = R.samples
    <3>1. smc_baseline_is_system(reading) /\ l.samples = R.samples + 1
          /\ (l.state = "stable" => l.samples >= RequiredSamples)
      <4> HIDE DEF l
      <4> QED BY <1>0, <1>1, <2>1, <2>3, SampleShape
    <3> HIDE DEF l
    <3> QED BY <1>1, <3>1 DEF l
  <2> QED BY <1>3, <2>2, <2>3
<1> QED BY <1>0, <1>2, <1>3

\* The lease after an observation.
LEMMA ObservedShape ==
  ASSUME NEW R \in RunnerShape, NEW reading, NEW now \in Int
  PROVE  accept_observation(R, reading, now) \in LeaseShape
<1>1. R.lease \in LeaseShape BY DEF RunnerShape
<1> QED BY <1>1, SampleShape, RecoveryStartShape, StartShape DEF accept_observation

\* An observation that the lease accepts: a verification counts it with the lease, and
\* what it has counted and may still count was seen.
LEMMA AcceptInv ==
  ASSUME IInv, NEW r \in Runners, NEW d \in Delays, AcceptObservation(r, d, TRUE),
         acceptedWindow(accept_observation(run[r], Head(pipe[r]), run[r].now + d),
                        Recovering(run[r].phase))
  PROVE  IInv'
<1>0. LockInv /\ Shaped /\ RunnerInv(r) BY DEF IInv
<1>1. run[r].pc = "wait" /\ Observes(run[r].phase) /\ pipe[r] # << >>
  BY DEF AcceptObservation, At
<1>2. /\ run[r].pc \in Owning /\ run[r] \in RunnerShape /\ run[r].now \in Int
      /\ pipe[r] \in Seq(Readings)
  BY <1>0, <1>1, OwnerFacts DEF Owning, Working, Spawned, Shaped
<1> DEFINE now == run[r].now + d
           x == Head(pipe[r])
           l == accept_observation(run[r], x, now)
           latest == IF run[r].phase = "baseline" THEN x ELSE run[r].latest
           R == [run[r] EXCEPT !.now = now, !.lease = l, !.samples = @ + 1, !.latest = latest]
<1>3. now \in Int BY <1>2, SupervisorAssumption
<1>4. x \in Readings /\ latest \in Readings BY <1>1, <1>2 DEF RunnerShape
<1>5. l \in LeaseShape
  <2> HIDE DEF now, x
  <2> QED BY <1>2, <1>3, ObservedShape
<1>6. /\ run' = [run EXCEPT ![r] = R]
      /\ pipe' = [pipe EXCEPT ![r] = Tail(@)]
  <2> DEFINE S == [run[r] EXCEPT !.now = now, !.lease = l]
  <2>1. S.phase = run[r].phase /\ S.samples = run[r].samples /\ S.latest = run[r].latest
    BY <1>2 DEF RunnerShape
  <2>2. R = [S EXCEPT !.samples = @ + 1,
                      !.latest = IF S.phase = "baseline" THEN x ELSE @]
    BY <1>2, <2>1 DEF RunnerShape
  <2>3. /\ run' = [run EXCEPT ![r] = [S EXCEPT !.samples = @ + 1,
                                       !.latest = IF S.phase = "baseline" THEN x ELSE @]]
        /\ pipe' = [pipe EXCEPT ![r] = Tail(@)]
    <3>1. acceptedWindow(l, Recovering(S.phase)) BY <2>1
    <3> QED BY <3>1 DEF AcceptObservation
  <2> QED BY <2>2, <2>3
<1>7. R \in RunnerShape
  <2>1. run[r].samples + 1 \in Nat BY <1>2 DEF RunnerShape
  <2> HIDE DEF now, x, l, latest
  <2> QED BY <1>2, <1>3, <1>4, <1>5, <2>1 DEF RunnerShape
<1>8. /\ R.pc = "wait" /\ R.fd = run[r].fd /\ R.flocked = run[r].flocked /\ R.phase = run[r].phase
      /\ R.child = run[r].child /\ R.reaped = run[r].reaped /\ R.lease = l /\ R.goal = run[r].goal
      /\ R.samples = run[r].samples + 1
  <2> HIDE DEF now, x, l, latest
  <2> QED BY <1>1, <1>2 DEF RunnerShape
<1> HIDE DEF R
<1>9. Moves(r, R) /\ run'[r] = R BY <1>0, <1>6, <1>7 DEF Moves, Shaped
<1>10. /\ UNCHANGED <<proc, files, hw, history>> /\ UNCHANGED <<marker, disk, seen>>
       /\ proc' \in [Pids -> ProcessShape]
  BY <1>0 DEF AcceptObservation, Shaped, files, history
<1>11. /\ pipe' \in [Runners -> Seq(Readings)] /\ pipe'[r] = Tail(pipe[r])
       /\ Len(pipe'[r]) = Len(pipe[r]) - 1 /\ Len(pipe[r]) \in Nat /\ Len(pipe[r]) > 0
       /\ \A i \in 1..Len(pipe'[r]) : i + 1 \in 1..Len(pipe[r]) /\ pipe'[r][i] = pipe[r][i + 1]
       /\ x = pipe[r][1]
  <2>1. Tail(pipe[r]) \in Seq(Readings) BY <1>1, <1>2
  <2>2. pipe'[r] = Tail(pipe[r]) BY <1>0, <1>6 DEF Shaped
  <2>3. pipe' \in [Runners -> Seq(Readings)] BY <1>0, <1>6, <2>1 DEF Shaped
  <2>4. Len(pipe'[r]) = Len(pipe[r]) - 1 /\ Len(pipe[r]) \in Nat /\ Len(pipe[r]) > 0
    BY <1>1, <1>2, <2>2
  <2>5. \A i \in 1..Len(pipe'[r]) : i + 1 \in 1..Len(pipe[r]) /\ pipe'[r][i] = pipe[r][i + 1]
    BY <1>1, <1>2, <2>2, <2>4
  <2> QED BY <1>1, <1>2, <2>2, <2>3, <2>4, <2>5
<1>12. RunnerInv(r)'
  <2>1. CASE run[r].phase # "verify"
    <3>1. run[r].phase = "baseline" BY <1>1, <2>1 DEF Observes
    <3> QED
      BY <1>8, <1>9, <3>1
      DEF RunnerInv, GrantFollowsRecord, LeaseIsLost, VerifiedIsSystem, LeaseCounts, WindowIsSeen
  <2>2. CASE run[r].phase = "verify"
    <3>1. run[r].samples \in Nat BY <1>2 DEF RunnerShape
    <3>2. run[r].samples = 0 => run[r].lease.state = "recovery_required"
      BY <1>0, <1>1, <2>2 DEF RunnerInv, LeaseIsLost, Reading
    <3>3. run[r].samples > 0 =>
            \/ run[r].lease.state = "verifying_recovery" /\ run[r].lease.samples = run[r].samples
            \/ run[r].lease.state = "stable" /\ run[r].samples >= RequiredSamples
      BY <1>0, <1>1, <2>2 DEF RunnerInv, LeaseCounts
    <3>4. acceptedWindow(l, TRUE) BY <2>2 DEF Recovering
    <3>5. /\ \/ l.state = "verifying_recovery" /\ l.samples = run[r].samples + 1
             \/ l.state = "stable" /\ run[r].samples + 1 >= RequiredSamples
          /\ smc_baseline_is_system(x) \/ run[r].samples >= RequiredSamples
      <4> HIDE DEF now, x
      <4> QED BY <1>2, <1>3, <2>2, <3>2, <3>3, <3>4, AcceptedFacts
    <3> HIDE DEF l, x, now
    <3>6. hw = "system"
      <4>1. CASE run[r].samples > 0 BY <1>0, <2>2, <4>1 DEF RunnerInv, VerifiedIsSystem
      <4>2. CASE run[r].samples = 0
        <5>1. smc_baseline_is_system(pipe[r][1]) BY <1>11, <3>5, <4>2, LeaseAssumption
        <5>2. 1 \in 1..Len(pipe[r]) BY <1>11
        <5> QED BY <1>0, <2>2, <5>1, <5>2 DEF RunnerInv, VerifiedIsSystem
      <4> QED BY <3>1, <4>1, <4>2
    <3>7. LeaseIsLost(r)' BY <1>8, <1>9, <2>2, <3>1 DEF LeaseIsLost
    <3>8. VerifiedIsSystem(r)' BY <1>8, <1>9, <1>10, <3>6 DEF VerifiedIsSystem
    <3>9. LeaseCounts(r)' BY <1>8, <1>9, <3>5 DEF LeaseCounts
    <3>10. WindowIsSeen(r)'
      <4>1. ASSUME run[r].samples + 1 <= RequiredSamples, AllSystem(pipe'[r])
            PROVE  seen >= run[r].samples + 1 + Len(pipe'[r])
        <5>1. smc_baseline_is_system(x) BY <3>1, <3>5, <4>1, LeaseAssumption
        <5>2. AllSystem(pipe[r])
          <6> SUFFICES ASSUME NEW i \in 1..Len(pipe[r]) PROVE smc_baseline_is_system(pipe[r][i])
            BY DEF AllSystem
          <6>1. CASE i = 1 BY <1>11, <5>1, <6>1
          <6>2. CASE i # 1
            <7>1. i - 1 \in 1..Len(pipe'[r]) /\ (i - 1) + 1 = i BY <1>11, <6>2
            <7>2. smc_baseline_is_system(pipe'[r][i - 1]) BY <4>1, <7>1 DEF AllSystem
            <7> QED BY <1>11, <7>1, <7>2
          <6> QED BY <6>1, <6>2
        <5>3. run[r].samples <= RequiredSamples BY <3>1, <4>1, LeaseAssumption
        <5>4. seen >= run[r].samples + Len(pipe[r])
          BY <1>0, <1>1, <2>2, <5>2, <5>3 DEF RunnerInv, WindowIsSeen
        <5>5. seen \in Nat BY <1>0 DEF Shaped
        <5>6. Len(pipe'[r]) = Len(pipe[r]) - 1 /\ Len(pipe[r]) \in Nat BY <1>11
        <5> QED BY <3>1, <5>4, <5>5, <5>6
      <4>2. run'[r].pc = "wait" /\ run'[r].samples = run[r].samples + 1 /\ seen' = seen
        BY <1>8, <1>9, <1>10
      <4>3. AllSystem(pipe[r])' <=> AllSystem(pipe'[r]) BY DEF AllSystem
      <4> QED BY <4>1, <4>2, <4>3 DEF WindowIsSeen, AllSystem
    <3>11. GrantFollowsRecord(r)' BY <1>8, <1>9 DEF GrantFollowsRecord
    <3> QED BY <3>7, <3>8, <3>9, <3>10, <3>11 DEF RunnerInv
  <2> QED BY <2>1, <2>2
<1>13. R.pc \in Working /\ R.pc \in Spawned BY <1>8 DEF Working, Spawned
<1>14. \A p \in Pids : Alive(p)' => Alive(p) /\ proc'[p] = proc[p] BY <1>10 DEF Alive
<1>15. /\ ~R.reaped => HasChild(r)
       /\ ~R.reaped \/ \A p \in Pids : ~Alive(p)'
  BY <1>0, <1>1, <1>2, <1>8, <1>14, OnlyItsWorker DEF HasChild, Spawned
<1>16. R.pc \in Working \ {"wait", "clear"} => ~R.reaped BY <1>8
<1> HIDE DEF now, x, l, latest
<1> QED BY <1>2, <1>8, <1>9, <1>10, <1>11, <1>12, <1>13, <1>14, <1>15, <1>16, StayInv

\* An observation that is late, or that the lease does not accept, ends the window.
LEMMA RejectInv ==
  ASSUME IInv, NEW r \in Runners, NEW d \in Delays, NEW timely \in BOOLEAN,
         AcceptObservation(r, d, timely),
         ~(timely /\ acceptedWindow(accept_observation(run[r], Head(pipe[r]), run[r].now + d),
                                    Recovering(run[r].phase)))
  PROVE  IInv'
<1>1. run[r].pc = "wait" /\ Observes(run[r].phase) BY DEF AcceptObservation, At
<1>2. run[r] \in RunnerShape /\ run[r].now \in Int
  BY <1>1, OwnerFacts DEF Owning, Working, Spawned
<1> DEFINE now == run[r].now + d
           l == accept_observation(run[r], Head(pipe[r]), now)
           S == [run[r] EXCEPT !.now = now, !.lease = l]
           B == IF timely THEN S ELSE run[r]
<1>3. now \in Int BY <1>2, SupervisorAssumption
<1>4. l \in LeaseShape
  <2> HIDE DEF now
  <2> QED BY <1>2, <1>3, ObservedShape
<1>5. /\ S \in RunnerShape
      /\ S.fd = run[r].fd /\ S.flocked = run[r].flocked /\ S.phase = run[r].phase
      /\ S.child = run[r].child /\ S.reaped = run[r].reaped /\ S.samples = run[r].samples
  <2> HIDE DEF now, l
  <2> QED BY <1>2, <1>3, <1>4 DEF RunnerShape
<1>6. /\ run' = [run EXCEPT ![r] = IF B.reaped THEN PhaseOver(B, FALSE) ELSE [B EXCEPT !.pc = "stop"]]
      /\ pipe' = [pipe EXCEPT ![r] = << >>]
      /\ UNCHANGED <<proc, files, hw, history>>
  <2>1. ~(timely /\ acceptedWindow(l, Recovering(S.phase))) BY <1>5
  <2> QED BY <2>1 DEF AcceptObservation
<1> HIDE DEF S
<1>7. /\ B \in RunnerShape
      /\ B.fd = run[r].fd /\ B.flocked = run[r].flocked /\ B.phase = run[r].phase
      /\ B.child = run[r].child /\ B.reaped = run[r].reaped /\ B.samples = run[r].samples
      /\ B.phase \notin {"operate", "recover"}
  BY <1>1, <1>2, <1>5 DEF Observes
<1> HIDE DEF B
<1> QED BY <1>1, <1>6, <1>7, StopInv

\* One read of an observation.
LEMMA AcceptObservationInv ==
  ASSUME IInv, NEW r \in Runners, NEW d \in Delays, NEW timely \in BOOLEAN,
         AcceptObservation(r, d, timely)
  PROVE  IInv'
<1>1. CASE timely = TRUE /\ acceptedWindow(accept_observation(run[r], Head(pipe[r]), run[r].now + d),
                                     Recovering(run[r].phase))
  <2>1. AcceptObservation(r, d, TRUE) BY <1>1
  <2> QED BY <1>1, <2>1, AcceptInv
<1>2. CASE ~(timely /\ acceptedWindow(accept_observation(run[r], Head(pipe[r]), run[r].now + d),
                                      Recovering(run[r].phase)))
  BY <1>2, RejectInv
<1> QED BY <1>1, <1>2
-----------------------------------------------------------------------------
(* Workers and the system.                                                 *)

\* A worker that has ended.
LEMMA ExitShape ==
  ASSUME Shaped, NEW p \in Pids, NEW code \in {"ok", "failed"}, Exits(p, code)
  PROVE  /\ proc' \in [Pids -> ProcessShape]
         /\ \A q \in Pids : Alive(q)' => Alive(q) /\ proc'[q] = proc[q]
<1> DEFINE P == [FreePid EXCEPT !.state = "zombie", !.exit = code, !.parent = proc[p].parent]
<1>1. proc[p].parent \in Runners \cup {"none"} BY DEF Shaped, ProcessShape
<1>2. P \in ProcessShape
  <2>1. code \in {"none", "ok", "failed"} OBVIOUS
  <2>2. FreePid \in ProcessShape BY FreeShape
  <2> QED BY <1>1, <2>1, <2>2, Zenon DEF ProcessShape
<1>3. P.state = "zombie" BY DEF FreePid
<1>4. proc' = [proc EXCEPT ![p] = P] BY DEF Exits
<1> HIDE DEF P
<1> QED BY <1>2, <1>3, <1>4 DEF Shaped, Alive

\* A step that changes only what a worker is, and gives no worker life or grant.
LEMMA QuietInv ==
  ASSUME IInv, UNCHANGED <<run, pipe, files, hw, history>>, proc' \in [Pids -> ProcessShape],
         \A p \in Pids : Alive(p)' =>
           /\ Alive(p)
           /\ proc'[p].inode = proc[p].inode /\ proc'[p].role = proc[p].role
           /\ proc'[p].parent = proc[p].parent /\ (proc'[p].grant => proc[p].grant)
  PROVE  IInv'
<1>0. LockInv BY DEF IInv
<1>1. FansAreMarked' BY FansKept DEF IInv, files, history
<1>2. pipe' \in [Runners -> Seq(Readings)] /\ seen' \in Nat BY DEF IInv, Shaped, history
<1>3. ASSUME NEW r \in Runners PROVE RunnerInv(r)'
  <2>1. RunnerInv(r) BY DEF IInv
  <2>2. run'[r] = run[r] /\ pipe'[r] = pipe[r] OBVIOUS
  <2>3. \A p \in Pids : Alive(p)' /\ proc'[p].grant => Alive(p) /\ proc[p].grant OBVIOUS
  <2> QED BY <1>0, <2>1, <2>2, <2>3, SameKept DEF files, history
<1> QED BY <1>1, <1>2, <1>3, WorkerInv

\* The end of a worker.
LEMMA EndInv ==
  ASSUME IInv, NEW p \in Pids, NEW code \in {"ok", "failed"}, Exits(p, code),
         UNCHANGED <<run, pipe, files, hw, history>>
  PROVE  IInv'
<1>1. Shaped BY DEF IInv
<1> QED BY <1>1, ExitShape, QuietInv

\* A pid that becomes free or another process's.
LEMMA PidInv ==
  ASSUME IInv, NEW p \in Pids, NEW P \in ProcessShape, P.state \in {"free", "foreign"},
         proc' = [proc EXCEPT ![p] = P], UNCHANGED <<run, pipe, files, hw, history>>
  PROVE  IInv'
<1>1. proc' \in [Pids -> ProcessShape] /\ \A q \in Pids : Alive(q)' => Alive(q) /\ proc'[q] = proc[q]
  BY DEF IInv, Shaped, Alive
<1> QED BY <1>1, QuietInv

\* What a worker does by itself, and what the system does to it.
LEMMA WorkerStepInv ==
  ASSUME IInv, NEW p \in Pids,
         \/ WorkerEnds(p) \/ Stall(p) \/ Unstall(p) \/ ForeignStart(p) \/ ForeignExit(p)
         \/ \E code \in {"ok", "failed"} : Finish(p, code)
  PROVE  IInv'
<1>0. Shaped BY DEF IInv
<1>1. CASE ReadGrant(p)
  <2>1. CASE Exits(p, "failed") BY <1>1, <2>1, EndInv DEF ReadGrant
  <2>2. CASE proc' = [proc EXCEPT ![p].state = "running"]
    <3>1. proc[p] \in ProcessShape /\ Alive(p) BY <1>0, <1>1 DEF ReadGrant, Shaped, Alive
    <3>2. [proc[p] EXCEPT !.state = "running"] \in ProcessShape BY <3>1 DEF ProcessShape
    <3>3. proc' \in [Pids -> ProcessShape] BY <1>0, <2>2, <3>2 DEF Shaped
    <3>4. \A q \in Pids : Alive(q)' =>
           /\ Alive(q)
           /\ proc'[q].inode = proc[q].inode /\ proc'[q].role = proc[q].role
           /\ proc'[q].parent = proc[q].parent /\ (proc'[q].grant => proc[q].grant)
      BY <1>0, <2>2, <3>1 DEF Shaped, ProcessShape, Alive
    <3> QED BY <1>1, <3>3, <3>4, QuietInv DEF ReadGrant
  <2> QED BY <1>1, <2>1, <2>2 DEF ReadGrant
<1>2. CASE ReadEof(p) BY <1>2, EndInv DEF ReadEof
<1>3. CASE WatcherExit(p) BY <1>3, EndInv DEF WatcherExit
<1>4. CASE Die(p) BY <1>4, EndInv DEF Die
<1>5. CASE \E code \in {"ok", "failed"} : Finish(p, code) BY <1>5, EndInv DEF Finish
<1>6. CASE ReapOrphan(p) \/ ForeignExit(p)
  <2>1. FreePid.state = "free" BY DEF FreePid
  <2> QED BY <1>6, <2>1, FreeShape, PidInv DEF ReapOrphan, ForeignExit
<1>7. CASE ForeignStart(p)
  <2> DEFINE P == [FreePid EXCEPT !.state = "foreign"]
  <2>1. P \in ProcessShape BY FreeShape DEF ProcessShape
  <2>2. P.state = "foreign" BY DEF FreePid
  <2>3. proc' = [proc EXCEPT ![p] = P] /\ UNCHANGED <<run, pipe, files, hw, history>>
    BY <1>7 DEF ForeignStart
  <2> HIDE DEF P
  <2> QED BY <2>1, <2>2, <2>3, PidInv
<1>8. CASE Stall(p) \/ Unstall(p)
  <2>1. PICK b \in BOOLEAN : proc' = [proc EXCEPT ![p].stalled = b]
    BY <1>8 DEF Stall, Unstall
  <2>2. proc' \in [Pids -> ProcessShape] BY <1>0, <2>1, FlagShape DEF Shaped
  <2>3. \A q \in Pids : Alive(q)' =>
         /\ Alive(q)
         /\ proc'[q].inode = proc[q].inode /\ proc'[q].role = proc[q].role
         /\ proc'[q].parent = proc[q].parent /\ (proc'[q].grant => proc[q].grant)
    BY <1>0, <2>1 DEF Shaped, ProcessShape, Alive
  <2> QED BY <1>8, <2>2, <2>3, QuietInv DEF Stall, Unstall
<1> QED BY <1>1, <1>2, <1>3, <1>4, <1>5, <1>6, <1>7, <1>8 DEF WorkerEnds

\* An operation and a recovery touch the fans while their runner, if it lives, is in
\* their phase.
LEMMA TouchInv ==
  ASSUME IInv, NEW p \in Pids, Touch(p)
  PROVE  IInv'
<1>0. Shaped /\ LockInv BY DEF IInv
<1>1. Alive(p) /\ proc[p].role \in {"operate", "recover"} BY DEF Touch, Runs, Alive
<1>2. UNCHANGED <<run, proc, pipe, files>> /\ seen' \in Nat
      /\ proc' \in [Pids -> ProcessShape] /\ pipe' \in [Runners -> Seq(Readings)]
  BY <1>0 DEF Touch, Shaped
<1>3. \A q \in Pids : Alive(q)' => Alive(q) /\ proc'[q] = proc[q] BY <1>2 DEF Alive
<1>4. FansAreMarked'
  <2>1. FansAreMarked BY DEF IInv
  <2>2. UNCHANGED <<marker, disk>> BY <1>2 DEF files
  <2>3. proc[p].role = "operate" => Pending BY <1>1, <2>1 DEF FansAreMarked
  <2>4. (hw' = "manual" => Pending) /\ (exposed' => Pending)
    BY <2>1, <2>3 DEF Touch, FansAreMarked
  <2>5. \A q \in Pids : Alive(q)' /\ proc'[q].role = "operate" => Pending
    BY <1>3, <2>1 DEF FansAreMarked
  <2> QED BY <2>2, <2>4, <2>5 DEF FansAreMarked, Pending
<1>5. ASSUME NEW r \in Runners, run[r].pc \in Owning PROVE RunnerInv(r)'
  <2>1. run[r].phase \in {"operate", "recover"} BY <1>0, <1>1, <1>5, OnlyItsWorker
  <2>2. RunnerInv(r) BY DEF IInv
  <2>3. run'[r] = run[r] /\ UNCHANGED <<proc, marker, disk, record, recordDisk>> BY <1>2 DEF files
  <2>4. run[r].pc # "clear" BY <2>1, <2>2 DEF RunnerInv, VerifiedIsSystem
  <2>5. GrantFollowsRecord(r)' BY <2>2, <2>3 DEF RunnerInv, GrantFollowsRecord, Alive
  <2>6. LeaseIsLost(r)' BY <2>2, <2>3 DEF RunnerInv, LeaseIsLost, Pending
  <2>7. VerifiedIsSystem(r)' /\ LeaseCounts(r)' /\ WindowIsSeen(r)'
    BY <2>1, <2>3, <2>4 DEF VerifiedIsSystem, LeaseCounts, WindowIsSeen
  <2> QED BY <2>5, <2>6, <2>7 DEF RunnerInv
<1> QED BY <1>2, <1>3, <1>4, <1>5, WorkerInv

\* A reading of an observer: a system reading is one of the fans as they are, and it is
\* seen when it is shown.
LEMMA ObserverReadInv ==
  ASSUME IInv, NEW p \in Pids, NEW reading \in ReadingsOf(hw), ObserverRead(p, reading)
  PROVE  IInv'
<1>0. Shaped /\ LockInv BY DEF IInv
<1>1. Alive(p) /\ reading \in Readings /\ (smc_baseline_is_system(reading) => hw = "system")
  BY SupervisorAssumption DEF ObserverRead, Runs, Alive, ReadingsOf
<1>2. UNCHANGED <<run, files, hw, exposed>> BY DEF ObserverRead
<1>3. /\ seen \in Nat /\ seen' \in Nat
      /\ seen' = IF smc_baseline_is_system(reading) THEN seen + 1 ELSE 0
  BY <1>0 DEF ObserverRead, Shaped
<1>4. /\ proc' \in [Pids -> ProcessShape]
      /\ \A q \in Pids : Alive(q)' =>
           /\ Alive(q)
           /\ proc'[q].inode = proc[q].inode /\ proc'[q].role = proc[q].role
           /\ proc'[q].parent = proc[q].parent /\ (proc'[q].grant => proc[q].grant)
  <2>1. CASE Exits(p, "failed") \/ Exits(p, "ok") BY <1>0, <2>1, ExitShape
  <2>2. CASE proc' = [proc EXCEPT ![p].left = @ - 1]
    <3> DEFINE P == [proc[p] EXCEPT !.left = @ - 1]
    <3>1. proc[p] \in ProcessShape /\ proc[p].left - 1 \in Int BY <1>0 DEF Shaped, ProcessShape
    <3>2. P \in ProcessShape BY <3>1 DEF ProcessShape
    <3>3. P.state = proc[p].state /\ P.inode = proc[p].inode /\ P.role = proc[p].role
          /\ P.parent = proc[p].parent /\ P.grant = proc[p].grant
      BY <3>1 DEF ProcessShape
    <3>4. proc' = [proc EXCEPT ![p] = P] BY <1>0, <2>2 DEF Shaped
    <3> HIDE DEF P
    <3> QED BY <1>0, <3>2, <3>3, <3>4 DEF Shaped, Alive
  <2> QED BY <2>1, <2>2 DEF ObserverRead
<1> DEFINE t == proc[p].parent
           new == IF At(t, "wait") THEN Append(pipe[t], reading) ELSE pipe[t]
<1>5. pipe' = [pipe EXCEPT ![t] = new] BY DEF ObserverRead
<1>6. pipe' \in [Runners -> Seq(Readings)]
  <2>1. CASE t \in Runners
    <3>1. new \in Seq(Readings) BY <1>0, <1>1, <2>1 DEF Shaped
    <3> HIDE DEF new, t
    <3> QED BY <1>0, <1>5, <3>1 DEF Shaped
  <2>2. CASE t \notin Runners
    <3> HIDE DEF new, t
    <3> QED BY <1>0, <1>5, <2>2 DEF Shaped
  <2> QED BY <2>1, <2>2
<1>7. FansAreMarked' BY <1>2, <1>4, FansKept DEF IInv, files
<1>8. ASSUME NEW r \in Runners, run[r].pc \in Owning PROVE RunnerInv(r)'
  <2>1. HasChild(r) /\ t = r BY <1>0, <1>1, <1>8, OnlyItsWorker
  <2>2. RunnerInv(r) BY DEF IInv
  <2>3. run'[r] = run[r] /\ UNCHANGED <<marker, disk, record, recordDisk, hw>> BY <1>2 DEF files
  <2>4. run[r].pc # "clear" BY <2>1 DEF HasChild, Spawned
  <2>5. GrantFollowsRecord(r)'
    <3>1. run[r].pc = "record" => run[r].child \in Pids BY <1>0, <2>1 DEF LockInv, PhaseIsOwned
    <3>2. CASE run[r].pc = "record"
      <4>1. PICK q \in Pids : q = run[r].child BY <3>1, <3>2
      <4>2. Alive(q)' => ~proc'[q].grant
        BY <1>4, <2>2, <3>2, <4>1 DEF RunnerInv, GrantFollowsRecord
      <4> QED BY <2>3, <3>2, <4>1, <4>2 DEF GrantFollowsRecord, Alive
    <3>3. CASE run[r].pc # "record" BY <2>2, <2>3, <3>3 DEF RunnerInv, GrantFollowsRecord
    <3> QED BY <3>2, <3>3
  <2>6. LeaseIsLost(r)' /\ LeaseCounts(r)'
    BY <2>2, <2>3 DEF RunnerInv, LeaseIsLost, LeaseCounts, Pending
  <2>7. CASE run[r].pc # "wait"
    <3>1. pipe'[r] = pipe[r] BY <1>0, <1>5, <2>1, <2>7 DEF At, Shaped
    <3>2. VerifiedIsSystem(r)' BY <2>2, <2>3, <3>1 DEF RunnerInv, VerifiedIsSystem
    <3>3. WindowIsSeen(r)' BY <2>2, <2>3, <2>4, <2>7, <3>1 DEF RunnerInv, WindowIsSeen
    <3> QED BY <2>5, <2>6, <3>2, <3>3 DEF RunnerInv
  <2>8. CASE run[r].pc = "wait"
    <3>1. pipe'[r] = Append(pipe[r], reading) /\ pipe[r] \in Seq(Readings)
      BY <1>0, <1>5, <2>1, <2>8 DEF At, Shaped
    <3>2. /\ Len(pipe[r]) \in Nat /\ Len(pipe'[r]) = Len(pipe[r]) + 1
          /\ pipe'[r][Len(pipe'[r])] = reading
          /\ \A i \in 1..Len(pipe[r]) : pipe'[r][i] = pipe[r][i]
      BY <1>1, <3>1
    <3>3. \A i \in 1..Len(pipe'[r]) : i \in 1..Len(pipe[r]) \/ i = Len(pipe'[r]) BY <3>2
    <3>4. VerifiedIsSystem(r)'
      <4>1. run[r].phase = "verify" =>
              \A i \in 1..Len(pipe'[r]) : smc_baseline_is_system(pipe'[r][i]) => hw = "system"
        BY <1>1, <2>2, <3>2, <3>3 DEF RunnerInv, VerifiedIsSystem
      <4> QED BY <2>2, <2>3, <2>4, <4>1 DEF RunnerInv, VerifiedIsSystem
    <3>5. ASSUME run[r].phase = "verify", run[r].samples <= RequiredSamples, AllSystem(pipe'[r])
          PROVE  seen' >= run[r].samples + Len(pipe'[r])
      <4>1. AllSystem(pipe[r]) /\ smc_baseline_is_system(reading)
        <5>1. Len(pipe'[r]) \in 1..Len(pipe'[r]) /\ 1..Len(pipe[r]) \subseteq 1..Len(pipe'[r])
          BY <3>2
        <5> QED BY <3>2, <3>5, <5>1 DEF AllSystem
      <4>2. seen >= run[r].samples + Len(pipe[r])
        BY <2>2, <2>8, <3>5, <4>1 DEF RunnerInv, WindowIsSeen
      <4>3. run[r].samples \in Nat BY <1>0 DEF Shaped, RunnerShape
      <4>4. seen' = seen + 1 BY <1>3, <4>1
      <4> QED BY <1>3, <3>2, <4>2, <4>3, <4>4
    <3>6. WindowIsSeen(r)' BY <2>3, <2>8, <3>5 DEF WindowIsSeen, AllSystem
    <3> QED BY <2>5, <2>6, <3>4, <3>6 DEF RunnerInv
  <2> QED BY <2>7, <2>8
<1> HIDE DEF t, new
<1> QED BY <1>2, <1>3, <1>4, <1>6, <1>7, <1>8, WorkerInv

\* The end of a runner, by itself or by a kill.
LEMMA RunnerEndsInv ==
  ASSUME IInv, NEW r \in Runners, RunnerEnds(r)
  PROVE  IInv'
<1>0. Shaped BY DEF IInv
<1>1. Moves(r, NoRunner) BY NoRunnerShape DEF RunnerEnds, Moves
<1>2. /\ ~NoRunner.flocked /\ NoRunner.pc \notin Locking /\ NoRunner.fd = 0
      /\ NoRunner.pc = "idle" /\ NoRunner.phase = "none" /\ NoRunner.goal = "none"
  BY DEF NoRunner, Locking, Owning, Working, Spawned
<1>3. /\ proc' \in [Pids -> ProcessShape]
      /\ AliveKept(r)
  <2> DEFINE P(p) == [proc[p] EXCEPT !.parent = "none", !.connected = FALSE]
  <2>1. ASSUME NEW p \in Pids
        PROVE  /\ proc[p] \in ProcessShape /\ P(p) \in ProcessShape
               /\ P(p).state = proc[p].state /\ P(p).inode = proc[p].inode
               /\ P(p).role = proc[p].role /\ P(p).grant = proc[p].grant
    <3>1. proc[p] \in ProcessShape BY <1>0 DEF Shaped
    <3> QED BY <3>1 DEF ProcessShape
  <2>2. proc' = [p \in Pids |-> IF proc[p].parent = r THEN P(p) ELSE proc[p]] BY DEF RunnerEnds
  <2> HIDE DEF P
  <2> QED BY <2>1, <2>2 DEF AliveKept, Alive
<1>4. /\ pipe' \in [Runners -> Seq(Readings)]
      /\ \A s \in Runners : s # r => pipe'[s] = pipe[s]
      /\ UNCHANGED <<files, hw, history>>
  <2>1. pipe' = [pipe EXCEPT ![r] = << >>] /\ UNCHANGED <<files, hw, history>> BY DEF RunnerEnds
  <2>2. << >> \in Seq(Readings) OBVIOUS
  <2> QED BY <1>0, <2>1, <2>2 DEF Shaped
<1> QED BY <1>1, <1>2, <1>3, <1>4, LeaveInv DEF files

\* What a power loss leaves of a durable marker.
LEMMA PendingSurvives ==
  ASSUME Pending, NEW m \in AfterPowerLoss(marker, disk)
  PROVE  m = "pending"
BY DEF Pending, AfterPowerLoss

\* A machine on which nothing runs.
Empty ==
  /\ run = [r \in Runners |-> NoRunner] /\ proc = [p \in Pids |-> FreePid]
  /\ pipe = [r \in Runners |-> << >>] /\ lockFile \in Inodes \cup {0} /\ seen = 0
  /\ (hw = "manual" \/ exposed) => Pending

\* The invariant holds of it.
LEMMA EmptyInv == Empty => IInv
<1> SUFFICES ASSUME Empty PROVE IInv OBVIOUS
<1>1. /\ NoRunner.pc = "idle" /\ ~NoRunner.flocked /\ NoRunner.fd = 0 /\ NoRunner.phase = "none"
      /\ NoRunner.goal = "none"
  BY DEF NoRunner
<1>2. \A r \in Runners : run[r] = NoRunner BY DEF Empty
<1>3. \A p \in Pids : ~Alive(p) BY DEF Empty, Alive, FreePid
<1>4. Shaped BY NoRunnerShape, FreeShape DEF Empty, Shaped
<1>5. "idle" \notin Locking \cup {"flock"} /\ "idle" \notin Owning /\ "idle" \notin Working
      /\ "idle" \notin Spawned
  BY DEF Locking, Owning, Working, Spawned
<1>6. LockIsHeld BY <1>1, <1>2, <1>5 DEF LockIsHeld
<1>7. LockIsExclusive BY <1>1, <1>2 DEF LockIsExclusive
<1>8. OwnerIsNamed BY <1>1, <1>2, <1>3, <1>5 DEF OwnerIsNamed
<1>9. PhaseIsOwned BY <1>1, <1>2, <1>5 DEF PhaseIsOwned, HasChild
<1>10. GrantedIsRecorded BY <1>3 DEF GrantedIsRecorded
<1>11. FansAreMarked BY <1>3 DEF Empty, FansAreMarked
<1>12. \A r \in Runners : RunnerInv(r)
  BY <1>1, <1>2
  DEF RunnerInv, GrantFollowsRecord, LeaseIsLost, VerifiedIsSystem, LeaseCounts, WindowIsSeen
<1>13. AtMostOneWorker BY <1>3 DEF AtMostOneWorker
<1> QED BY <1>4, <1>6, <1>7, <1>8, <1>9, <1>10, <1>11, <1>12, <1>13 DEF IInv, LockInv

\* A power loss.
LEMMA PowerLossInv ==
  ASSUME IInv, PowerLoss
  PROVE  IInv'
<1>1. lockFile' \in Inodes \cup {0} BY DEF IInv, Shaped, PowerLoss
<1>2. (hw' = "manual" \/ exposed') => Pending'
  <2>1. (hw' = "manual" \/ exposed') => Pending BY DEF IInv, FansAreMarked, PowerLoss
  <2>2. Pending => Pending'
    <3>1. marker' \in AfterPowerLoss(marker, disk) /\ disk' = marker' BY DEF PowerLoss
    <3>2. Pending => marker' = "pending" BY <3>1, PendingSurvives
    <3> QED BY <3>1, <3>2 DEF Pending
  <2> QED BY <2>1, <2>2
<1>3. Empty' BY <1>1, <1>2 DEF PowerLoss, Empty
<1> QED BY <1>3, EmptyInv, PTL

-----------------------------------------------------------------------------
(* Theorems.                                                               *)

\* Every step of the system keeps the invariant.
LEMMA NextInv == IInv /\ [Next]_vars => IInv'
<1> SUFFICES ASSUME IInv, [Next]_vars PROVE IInv' OBVIOUS
<1>1. CASE Environment
  <2>1. ASSUME NEW r \in Runners, Crash(r) PROVE IInv' BY <2>1, RunnerEndsInv DEF Crash
  <2>2. ASSUME NEW r \in Runners, NEW goal \in {"baseline", "resume", "cleanup"},
               NEW intent \in control_intent_read(marker), Launch(r, goal, intent)
        PROVE  IInv'
    BY <2>2, LaunchInv
  <2>3. ASSUME NEW p \in Pids, Stall(p) \/ Unstall(p) \/ ForeignStart(p) \/ ForeignExit(p)
        PROVE  IInv'
    BY <2>3, WorkerStepInv
  <2>4. CASE PowerLoss BY <2>4, PowerLossInv
  <2> QED BY <1>1, <2>1, <2>2, <2>3, <2>4 DEF Environment
<1>2. ASSUME NEW r \in Runners, Acquire(r) PROVE IInv'
  BY <1>2, AcquireOpenInv, AcquireFlockInv, AcquireCheckInv, AcquireFinishInv, ClaimInv DEF Acquire
<1>3. ASSUME NEW r \in Runners, Own(r) PROVE IInv'
  BY <1>3, StartInv, MarkIntentInv, CleanupRecordInv, CleanupLockInv, CleanupSyncInv,
     ClearVerifiedInv DEF Own
<1>4. ASSUME NEW r \in Runners, Supervise(r) PROVE IInv'
  BY <1>4, ForkInv, ForkFailedInv, RecordWorkerInv, GrantInv, CollectsInv, DeadlineInv, StopKillInv,
     ReapTimeoutInv, ReapObserverInv, FinishObserverInv, AcceptObservationInv DEF Supervise
<1>5. ASSUME NEW r \in Runners, Exit(r) PROVE IInv' BY <1>5, RunnerEndsInv DEF Exit
<1>6. ASSUME NEW p \in Pids, WorkerEnds(p) \/ Callback(p) PROVE IInv'
  BY <1>6, WorkerStepInv, TouchInv, ObserverReadInv DEF Callback
<1>7. CASE UNCHANGED vars
  <2>1. UNCHANGED <<run, proc, pipe, files, hw, history>> BY <1>7 DEF vars
  <2>2. proc' \in [Pids -> ProcessShape] BY <2>1 DEF IInv, Shaped
  <2>3. \A p \in Pids : Alive(p)' => Alive(p) /\ proc'[p] = proc[p] BY <2>1 DEF Alive
  <2> QED BY <2>1, <2>2, <2>3, QuietInv
<1> QED BY <1>1, <1>2, <1>3, <1>4, <1>5, <1>6, <1>7 DEF Next, RunnerStep

\* The invariant holds of every behaviour.
LEMMA SpecIInv == Spec => []IInv
<1>1. Init => IInv
  <2>1. Init => Empty BY DEF Init, Empty
  <2> QED BY <2>1, EmptyInv
<1> QED BY <1>1, NextInv, PTL DEF Spec

\* No two workers of any runners live at once (supervisor_ownership_acquire and the lock
\* that workers inherit), for any number of runners, pids, lock files and faults.
THEOREM OneWorker == Spec => []AtMostOneWorker
<1>1. IInv => AtMostOneWorker BY DEF IInv, LockInv
<1> QED BY <1>1, SpecIInv, PTL

\* A worker that may run its callback is the recorded one, for processes and for a reboot
\* (spawn_worker records before it grants).
THEOREM Recorded == Spec => []GrantedIsRecorded
<1>1. IInv => GrantedIsRecorded BY DEF IInv
<1> QED BY <1>1, SpecIInv, PTL

\* Fans that an operation took are covered by a durable marker (run_owned marks the intent
\* before it forks, and recover_owned clears it only after a verified window).
THEOREM Covered == Spec => []ManualIsMarked
<1>1. IInv => ManualIsMarked BY DEF IInv, FansAreMarked, ManualIsMarked, Pending
<1> QED BY <1>1, SpecIInv, PTL

-----------------------------------------------------------------------------
(* A reported recovery.                                                    *)

Reports(r) == run'[r].result = "recovered" /\ run[r].result # "recovered"

\* A step that moves one runner, and not to the report of a recovery.
LEMMA NoReport ==
  ASSUME Shaped, NEW s \in Runners, NEW Q, run' = [run EXCEPT ![s] = Q],
         Q.result = run[s].result \/ Q.result # "recovered"
  PROVE  \A r \in Runners : ~Reports(r)
BY DEF Shaped, Reports

\* The end of a phase reports no recovery.
LEMMA OverReports ==
  ASSUME Shaped, NEW s \in Runners, NEW B \in RunnerShape, NEW ok \in BOOLEAN,
         B.result = run[s].result, run' = [run EXCEPT ![s] = PhaseOver(B, ok)]
  PROVE  \A r \in Runners : ~Reports(r)
<1>1. PhaseOver(B, ok).result = B.result \/ PhaseOver(B, ok).result # "recovered"
  BY PhaseOverShape DEF Gone, NextPhase, Clears
<1> QED BY <1>1, NoReport

\* A runner that is refused, or is not there any more, reports nothing.
LEMMA BlockReports ==
  ASSUME Shaped, NEW s \in Runners, run' = [run EXCEPT ![s] = NoRunner]
  PROVE  \A r \in Runners : ~Reports(r)
<1>1. NoRunner.result # "recovered" BY DEF NoRunner
<1> QED BY <1>1, NoReport

\* A runner that only goes to another step reports nothing.
LEMMA GotoReports ==
  ASSUME Shaped, NEW s \in Runners, NEW step \in Steps, Goto(s, step)
  PROVE  \A r \in Runners : ~Reports(r)
<1>1. PICK Q : Moves(s, Q) /\ SameButPc(run[s], Q) BY GotoMoves
<1> QED BY <1>1, NoReport DEF Moves, SameButPc

\* Admission reports nothing.
LEMMA AcquireReports ==
  ASSUME Shaped, NEW s \in Runners, Acquire(s)
  PROVE  \A r \in Runners : ~Reports(r)
<1>0. run[s] \in RunnerShape /\ run \in [Runners -> RunnerShape] BY DEF Shaped
<1>1. "finish" \in Steps /\ "owned" \in Steps BY DEF Steps
<1>2. CASE Block(s) BY <1>2, BlockReports DEF Block
<1>3. CASE AcquireOpen(s)
  BY <1>0, <1>3 DEF AcquireOpen, Reports, RunnerShape
<1>4. CASE AcquireFlock(s) /\ ~Block(s) BY <1>0, <1>4 DEF AcquireFlock, Reports, RunnerShape
<1>5. CASE ~Block(s) /\ \E intent \in control_intent_read(marker) : AcquireCheck(s, intent)
  BY <1>1, <1>5, GotoReports DEF AcquireCheck
<1>6. CASE ~Block(s) /\ \E saved \in BOOLEAN : AcquireFinish(s, saved)
  BY <1>1, <1>6, GotoReports DEF AcquireFinish
<1>7. CASE ~Block(s) /\ \E intent \in control_intent_read(marker), d \in Delays :
                          Claim(s, intent, d) \/ Run(s, intent, d)
  <2>1. PICK intent \in control_intent_read(marker), d \in Delays : Claim(s, intent, d) \/ Run(s, intent, d)
    BY <1>7
  <2>2. CASE Claim(s, intent, d)
    <3> DEFINE now == run[s].now + d
               l == control_lease_claim(run[s].lease, 1, now, TRUE, intent, run[s].latest)
    <3>1. run' = [run EXCEPT ![s].pc = "run", ![s].now = now, ![s].latest = "failed", ![s].lease = l]
      BY <1>0, <1>7, <2>2 DEF Claim
    <3> HIDE DEF now, l
    <3> QED BY <1>0, <3>1 DEF Reports, RunnerShape
  <2>3. CASE Run(s, intent, d) BY <1>0, <1>7, <2>3 DEF Run, Reports, RunnerShape
  <2> QED BY <2>1, <2>2, <2>3
<1> QED BY <1>2, <1>3, <1>4, <1>5, <1>6, <1>7 DEF Acquire

\* What an owner does reports a recovery only when it has cleared the marker for good.
LEMMA OwnReports ==
  ASSUME IInv, NEW s \in Runners, Own(s), NEW r \in Runners, Reports(r)
  PROVE  /\ r = s /\ run[s].pc = "clear"
         /\ marker' = "absent" /\ disk' = "absent"
<1>0. Shaped /\ run[s] \in RunnerShape /\ run[s].lease \in LeaseShape
      /\ run \in [Runners -> RunnerShape]
  BY DEF IInv, Shaped, RunnerShape
<1>1. ASSUME StartBaseline(s) PROVE FALSE
  <2> DEFINE S == [run[s] EXCEPT !.lease = ZeroLease]
  <2>1. S \in RunnerShape /\ S.result = run[s].result BY <1>0, ZeroShape, LeaseChangeShape
  <2>2. run' = [run EXCEPT ![s] = Enter(S, "baseline")] BY <1>1 DEF StartBaseline
  <2> HIDE DEF S
  <2>3. "baseline" \in Phases BY DEF Phases
  <2>4. Enter(S, "baseline").result = run[s].result BY <2>1, <2>3, EnterShape
  <2> QED BY <1>0, <2>2, <2>4, NoReport
<1>2. ASSUME StartRecovery(s) PROVE FALSE
  <2>1. run' = [run EXCEPT ![s] = Enter(run[s], "recover")] BY <1>2 DEF StartRecovery
  <2>2. "recover" \in Phases BY DEF Phases
  <2>3. Enter(run[s], "recover").result = run[s].result BY <1>0, <2>2, EnterShape
  <2> QED BY <1>0, <2>1, <2>3, NoReport
<1>3. ASSUME NEW intent \in control_intent_read(marker), NEW d \in Delays,
             NEW out \in control_intent_mark_pending(run[s].lease, intent, marker, disk),
             MarkIntent(s, out, d)
      PROVE  FALSE
  <2> DEFINE now == run[s].now + d
             l == intent_marked(run[s].lease, out, now)
             S == [run[s] EXCEPT !.now = now, !.lease = l]
  <2>1. now \in Int BY <1>0, SupervisorAssumption DEF RunnerShape
  <2>2. l \in LeaseShape
    <3> HIDE DEF now
    <3> QED BY <1>0, <2>1, MarkedShape
  <2>3. run' = [run EXCEPT ![s] = Enter(S, "operate")] \/ run' = [run EXCEPT ![s] = NoRunner]
    BY <1>3 DEF MarkIntent
  <2> HIDE DEF l, now
  <2>4. S \in RunnerShape /\ S.result = run[s].result BY <1>0, <2>1, <2>2 DEF RunnerShape
  <2> HIDE DEF S
  <2>5. "operate" \in Phases BY DEF Phases
  <2>6. Enter(S, "operate").result = run[s].result BY <2>4, <2>5, EnterShape
  <2> QED BY <1>0, <2>3, <2>6, NoReport, BlockReports
<1>4. ASSUME NEW ok \in BOOLEAN, CleanupRecord(s, ok) \/ CleanupLock(s, ok) \/ CleanupSync(s, ok)
      PROVE  FALSE
  <2>1. "unlink_lock" \in Steps /\ "sync_cleanup" \in Steps /\ "cleaned" \in Results
    BY DEF Steps, Results
  <2>2. Returned(run[s], "cleaned").result = "cleaned" BY <1>0, <2>1, ReturnedShape
  <2>3. CASE CleanupSync(s, ok) BY <1>0, <2>2, <2>3, NoReport DEF CleanupSync, Return
  <2>4. CASE CleanupRecord(s, ok) \/ CleanupLock(s, ok)
    BY <1>0, <2>1, <2>4, GotoReports DEF CleanupRecord, CleanupLock
  <2> QED BY <1>4, <2>3, <2>4
<1>5. ASSUME NEW intent \in control_intent_read(marker), NEW unlinked \in BOOLEAN, NEW synced \in BOOLEAN,
             ClearVerified(s, intent, unlinked, synced)
      PROVE  r = s /\ run[s].pc = "clear" /\ marker' = "absent" /\ disk' = "absent"
  <2> DEFINE R == run[s]
             gone == intent = "pending" /\ takeRecoveryProofAccepted(R.lease) /\ unlinked
             taken == IF intent = "pending"
                        THEN [R EXCEPT !.lease = control_lease_take_recovery_proof(@)] ELSE R
             slept == [taken EXCEPT !.lease = control_lease_sleep(@)]
  <2>1. taken \in RunnerShape BY <1>0, CallShape, LeaseChangeShape
  <2>2. /\ run[s].pc = "clear"
        /\ gone /\ synced => marker' = "absent" /\ disk' = "absent"
        /\ ~(gone /\ synced) => run' = [run EXCEPT ![s] = Returned(slept, "observation_failed")]
        /\ gone /\ synced => run' = [run EXCEPT ![s] = Returned(taken, "recovered")]
    BY <1>5 DEF ClearVerified, At
  <2> HIDE DEF taken, gone
  <2>3. slept \in RunnerShape
    <3>1. taken.lease \in LeaseShape BY <2>1 DEF RunnerShape
    <3> QED BY <2>1, <3>1, CallShape, LeaseChangeShape
  <2> HIDE DEF slept
  <2>4. "observation_failed" \in Results BY DEF Results
  <2>5. gone /\ synced
    <3>1. Returned(slept, "observation_failed").result = "observation_failed"
      BY <2>3, <2>4, ReturnedShape
    <3> QED BY <1>0, <2>2, <3>1, NoReport
  <2>6. r = s BY <1>0, <2>2, <2>5 DEF Reports
  <2> QED BY <2>2, <2>5, <2>6
<1> QED BY <1>1, <1>2, <1>3, <1>4, <1>5 DEF Own

\* The supervision of a worker reports nothing.
LEMMA SuperviseReports ==
  ASSUME Shaped, NEW s \in Runners, Supervise(s)
  PROVE  \A r \in Runners : ~Reports(r)
<1>0. run[s] \in RunnerShape /\ run \in [Runners -> RunnerShape] BY DEF Shaped
<1>1. "grant" \in Steps /\ "wait" \in Steps /\ "reap" \in Steps /\ "stop" \in Steps BY DEF Steps
<1>2. ASSUME NEW p \in Pids, Fork(s, p) PROVE \A r \in Runners : ~Reports(r)
  BY <1>0, <1>2 DEF Fork, Reports, RunnerShape
<1>3. CASE ForkFailed(s) BY <1>0, <1>3, OverReports DEF ForkFailed
<1>4. ASSUME NEW saved \in BOOLEAN, RecordWorker(s, saved) PROVE \A r \in Runners : ~Reports(r)
  <2>1. Goto(s, IF saved THEN "grant" ELSE "wait") BY <1>4 DEF RecordWorker
  <2> QED BY <1>1, <2>1, GotoReports
<1>5. CASE Grant(s) BY <1>1, <1>5, GotoReports DEF Grant
<1>6. CASE WaitPhase(s) \/ StopCollect(s) \/ Reap(s)
  <2>1. (proc[run[s].child].exit = "ok") \in BOOLEAN OBVIOUS
  <2>2. \E ok \in BOOLEAN : run' = [run EXCEPT ![s] = PhaseOver(run[s], ok)]
    BY <1>6, <2>1 DEF WaitPhase, StopCollect, Reap, Collect
  <2> QED BY <1>0, <2>2, OverReports
<1>7. ASSUME NEW B \in RunnerShape, B.result = run[s].result,
             run' = [run EXCEPT ![s] = IF B.reaped THEN PhaseOver(B, FALSE) ELSE [B EXCEPT !.pc = "stop"]]
      PROVE  \A r \in Runners : ~Reports(r)
  <2>1. CASE B.reaped BY <1>7, <2>1, OverReports
  <2>2. CASE ~B.reaped
    <3>1. [B EXCEPT !.pc = "stop"].result = B.result BY DEF RunnerShape
    <3> QED BY <1>7, <2>2, <3>1, NoReport
  <2> QED BY <2>1, <2>2
<1>8. CASE Deadline(s) BY <1>0, <1>7, <1>8 DEF Deadline
<1>9. CASE StopKill(s) BY <1>1, <1>9, GotoReports DEF StopKill
<1>10. CASE ReapTimeout(s)
  <2>1. StopFailed(run[s]).result # "recovered" BY <1>0, StopFailedShape DEF Gone
  <2> QED BY <1>10, <2>1, NoReport DEF ReapTimeout
<1>11. CASE ReapObserver(s) BY <1>0, <1>11 DEF ReapObserver, Reports, RunnerShape
<1>12. CASE FinishObserver(s)
  <2>1. PICK ok \in BOOLEAN : run' = [run EXCEPT ![s] = PhaseOver(run[s], ok)]
    BY <1>12 DEF FinishObserver
  <2> QED BY <1>0, <2>1, OverReports
<1>13. ASSUME NEW d \in Delays, NEW timely \in BOOLEAN, AcceptObservation(s, d, timely)
       PROVE  \A r \in Runners : ~Reports(r)
  <2> DEFINE now == run[s].now + d
             l == accept_observation(run[s], Head(pipe[s]), now)
             S == [run[s] EXCEPT !.now = now, !.lease = l]
             T == [S EXCEPT !.samples = @ + 1,
                            !.latest = IF S.phase = "baseline" THEN Head(pipe[s]) ELSE @]
  <2>1. now \in Int BY <1>0, SupervisorAssumption DEF RunnerShape
  <2>2. l \in LeaseShape
    <3> HIDE DEF now
    <3> QED BY <1>0, <2>1, ObservedShape
  <2>3. \/ run' = [run EXCEPT ![s] = T]
        \/ \E B \in {S, run[s]} :
             run' = [run EXCEPT ![s] = IF B.reaped THEN PhaseOver(B, FALSE) ELSE [B EXCEPT !.pc = "stop"]]
    BY <1>13 DEF AcceptObservation
  <2> HIDE DEF now, l
  <2>4. S \in RunnerShape /\ S.result = run[s].result BY <1>0, <2>1, <2>2 DEF RunnerShape
  <2> HIDE DEF S
  <2>5. T.result = S.result BY <2>4 DEF RunnerShape
  <2> HIDE DEF T
  <2>6. CASE run' = [run EXCEPT ![s] = T] BY <2>4, <2>5, <2>6, NoReport
  <2>7. ASSUME NEW B \in {S, run[s]},
               run' = [run EXCEPT ![s] = IF B.reaped THEN PhaseOver(B, FALSE) ELSE [B EXCEPT !.pc = "stop"]]
        PROVE  \A r \in Runners : ~Reports(r)
    <3>1. B \in RunnerShape /\ B.result = run[s].result BY <1>0, <2>4
    <3> QED BY <1>7, <2>7, <3>1
  <2> QED BY <2>3, <2>6, <2>7
<1> QED
  BY <1>2, <1>3, <1>4, <1>5, <1>6, <1>8, <1>9, <1>10, <1>11, <1>12, <1>13 DEF Supervise

\* Nothing but the end of a recovery reports one.
LEMMA ReportFacts ==
  ASSUME IInv, [Next]_vars, NEW r \in Runners, Reports(r)
  PROVE  run[r].pc = "clear" /\ marker' = "absent" /\ disk' = "absent"
<1>0. Shaped /\ run \in [Runners -> RunnerShape] BY DEF IInv, Shaped
<1>1. ASSUME Environment PROVE FALSE
  <2>1. ASSUME NEW s \in Runners, Crash(s) PROVE FALSE
    BY <1>0, <2>1, BlockReports DEF Crash, RunnerEnds
  <2>2. ASSUME NEW s \in Runners, NEW goal, NEW intent, Launch(s, goal, intent) PROVE FALSE
    <3> DEFINE Q == [NoRunner EXCEPT
                       !.pc = "open", !.goal = goal, !.now = 1,
                       !.lease = IF goal = "resume" THEN control_lease_start("pending", "failed", 1) ELSE @]
    <3>1. run' = [run EXCEPT ![s] = Q] BY <2>2 DEF Launch
    <3>2. Q.result = "none" BY DEF NoRunner
    <3> HIDE DEF Q
    <3> QED BY <1>0, <3>1, <3>2, NoReport
  <2>3. ASSUME NEW p \in Pids, Stall(p) \/ Unstall(p) \/ ForeignStart(p) \/ ForeignExit(p)
        PROVE  FALSE
    BY <2>3 DEF Stall, Unstall, ForeignStart, ForeignExit, Reports
  <2>4. ASSUME PowerLoss PROVE FALSE
    <3>1. run'[r] = NoRunner BY <2>4 DEF PowerLoss
    <3> QED BY <3>1 DEF NoRunner, Reports
  <2> QED BY <1>1, <2>1, <2>2, <2>3, <2>4 DEF Environment
<1>2. ASSUME NEW p \in Pids, WorkerEnds(p) \/ Callback(p) PROVE FALSE
  BY <1>2 DEF WorkerEnds, Callback, ReadGrant, ReadEof, WatcherExit, Die, ReapOrphan, Touch, Finish,
              ObserverRead, Reports
<1>3. ASSUME NEW s \in Runners, Acquire(s) \/ Supervise(s) PROVE FALSE
  BY <1>0, <1>3, AcquireReports, SuperviseReports
<1>4. ASSUME NEW s \in Runners, Exit(s) PROVE FALSE
  BY <1>0, <1>4, BlockReports DEF Exit, RunnerEnds
<1>5. ASSUME UNCHANGED vars PROVE FALSE BY <1>5 DEF vars, Reports
<1>6. PICK s \in Runners : Own(s) BY <1>1, <1>2, <1>3, <1>4, <1>5 DEF Next, RunnerStep
<1> QED BY <1>6, OwnReports

\* A reported recovery is final: the marker is gone for a reboot too, the fans are the
\* system's and nobody is left to take them (control_intent_clear_verified under the owner
\* lock, after a window that was seen whole).
THEOREM FinalRecovery == Spec => RecoveredIsFinal
<1>1. IInv /\ [Next]_vars =>
        [\A r \in Runners : run'[r].result = "recovered" /\ run[r].result # "recovered" =>
           /\ marker' = "absent" /\ disk' = "absent"
           /\ hw = "system"
           /\ \A p \in Pids : ~Alive(p)]_vars
  BY ReportFacts, ClearFacts DEF Reports
<1> QED BY <1>1, SpecIInv, PTL DEF Spec, RecoveredIsFinal

-----------------------------------------------------------------------------
(* The intent protocol.                                                    *)

\* The steps that change what the protocol sees of the marker and of the exposure.
LEMMA JournalSteps ==
  ASSUME [Next]_vars
  PROVE  \/ UNCHANGED <<marker, exposed>>
         \/ \E r \in Runners, intent \in control_intent_read(marker), d \in Delays :
              \E out \in control_intent_mark_pending(run[r].lease, intent, marker, disk) :
                MarkIntent(r, out, d)
         \/ \E r \in Runners, intent \in control_intent_read(marker), unlinked, synced \in BOOLEAN :
              ClearVerified(r, intent, unlinked, synced)
         \/ \E p \in Pids : Touch(p)
         \/ PowerLoss
<1>1. CASE Environment
  BY <1>1 DEF Environment, Crash, RunnerEnds, Launch, Stall, Unstall, ForeignStart, ForeignExit,
              files, history
<1>2. ASSUME NEW r \in Runners, Acquire(r) PROVE UNCHANGED <<marker, exposed>>
  BY <1>2 DEF Acquire, AcquireOpen, AcquireFlock, AcquireCheck, AcquireFinish, Claim, Run, files, history
<1>3. ASSUME NEW r \in Runners, Supervise(r) PROVE UNCHANGED <<marker, exposed>>
  BY <1>3 DEF Supervise, Fork, ForkFailed, RecordWorker, Grant, WaitPhase, StopCollect, Reap, Collect,
              Deadline, StopKill, ReapTimeout, ReapObserver, FinishObserver, AcceptObservation,
              files, history
<1>4. ASSUME NEW r \in Runners, Exit(r) PROVE UNCHANGED <<marker, exposed>>
  BY <1>4 DEF Exit, RunnerEnds, files, history
<1>5. ASSUME NEW p \in Pids, WorkerEnds(p) \/ Callback(p)
      PROVE  UNCHANGED <<marker, exposed>> \/ Touch(p)
  BY <1>5 DEF WorkerEnds, Callback, ReadGrant, ReadEof, WatcherExit, Die, ReapOrphan, Finish,
              ObserverRead, files, history
<1>6. ASSUME NEW r \in Runners, StartBaseline(r) \/ StartRecovery(r)
      PROVE  UNCHANGED <<marker, exposed>>
  BY <1>6 DEF StartBaseline, StartRecovery, files, history
<1>7. ASSUME NEW r \in Runners, NEW ok, CleanupRecord(r, ok) \/ CleanupLock(r, ok) \/ CleanupSync(r, ok)
      PROVE  UNCHANGED <<marker, exposed>>
  BY <1>7 DEF CleanupRecord, CleanupLock, CleanupSync, history
<1>8. CASE UNCHANGED vars BY <1>8 DEF vars, files, history
<1> QED BY <1>1, <1>2, <1>3, <1>4, <1>5, <1>6, <1>7, <1>8 DEF Next, RunnerStep, Own

\* Every step is a step of the protocol, or leaves it alone.
LEMMA ProtocolStep ==
  ASSUME IInv, [Next]_vars
  PROVE  [Protocol!ProtocolNext]_Protocol!protocolVars
<1> USE DEF Protocol!ProtocolNext, Protocol!protocolVars
<1>0. ~(0 >= RequiredSamples) BY LeaseAssumption
<1>1. CASE UNCHANGED <<marker, exposed>> BY <1>1 DEF Protocol!Observe
<1>2. ASSUME NEW r \in Runners, NEW intent \in control_intent_read(marker), NEW d \in Delays,
             NEW out \in control_intent_mark_pending(run[r].lease, intent, marker, disk),
             MarkIntent(r, out, d)
      PROVE  Protocol!ProtocolNext
  <2>1. marker' = out.marker /\ UNCHANGED exposed /\ (marker' # marker => seen' = 0)
    BY <1>2 DEF MarkIntent
  <2>2. CASE marker' = marker BY <2>1, <2>2 DEF Protocol!Observe
  <2>3. CASE marker' # marker
    <3>1. marker = "absent" /\ marker' # "absent" BY <2>1, <2>3, MarkFacts
    <3> QED BY <1>0, <2>1, <2>3, <3>1 DEF Protocol!Arm
  <2> QED BY <2>2, <2>3
<1>3. ASSUME NEW r \in Runners, NEW intent \in control_intent_read(marker), NEW unlinked \in BOOLEAN,
             NEW synced \in BOOLEAN, ClearVerified(r, intent, unlinked, synced)
      PROVE  Protocol!ProtocolNext
  <2> DEFINE gone == intent = "pending" /\ takeRecoveryProofAccepted(run[r].lease) /\ unlinked
  <2>1. /\ run[r].pc = "clear"
        /\ gone => marker' = "absent" /\ exposed' = FALSE /\ seen' = 0
        /\ ~gone => UNCHANGED <<marker, exposed>>
    BY <1>3 DEF ClearVerified, At
  <2>2. gone => marker # "absent" BY DEF control_intent_read
  <2> HIDE DEF gone
  <2>3. seen >= RequiredSamples BY <2>1, ClearFacts
  <2>4. CASE gone BY <1>0, <2>1, <2>2, <2>3, <2>4 DEF Protocol!Disarm
  <2>5. CASE ~gone BY <2>1, <2>5 DEF Protocol!Observe
  <2> QED BY <2>4, <2>5
<1>4. ASSUME NEW p \in Pids, Touch(p) PROVE Protocol!ProtocolNext
  <2>1. UNCHANGED marker /\ seen' = 0 BY <1>4 DEF Touch, files
  <2>2. CASE proc[p].role = "operate"
    <3>1. marker # "absent"
      BY <1>4, <2>2 DEF Touch, Runs, IInv, FansAreMarked, Pending, Alive
    <3>2. exposed' = TRUE BY <1>4, <2>2 DEF Touch
    <3> QED BY <1>0, <2>1, <3>1, <3>2 DEF Protocol!Expose
  <2>3. CASE proc[p].role # "operate"
    <3>1. exposed' = exposed BY <1>4, <2>3 DEF Touch
    <3> QED BY <2>1, <3>1 DEF Protocol!Observe
  <2> QED BY <2>2, <2>3
<1>5. CASE PowerLoss
  <2>1. UNCHANGED exposed /\ seen' = 0 /\ marker' \in AfterPowerLoss(marker, disk) BY <1>5 DEF PowerLoss
  <2>2. CASE exposed
    <3>1. Pending BY <2>2 DEF IInv, FansAreMarked
    <3>2. marker' = marker BY <2>1, <3>1, PendingSurvives DEF Pending
    <3> QED BY <2>1, <3>2 DEF Protocol!Observe
  <2>3. CASE ~exposed
    <3>1. CASE marker = "absent" /\ marker' # "absent" BY <1>0, <2>1, <3>1 DEF Protocol!Arm
    <3>2. CASE marker # "absent" /\ marker' = "absent" BY <2>1, <2>3, <3>2 DEF Protocol!Forget
    <3>3. CASE (marker # "absent") = (marker' # "absent") BY <2>1, <3>3 DEF Protocol!Observe
    <3> QED BY <3>1, <3>2, <3>3
  <2> QED BY <2>2, <2>3
<1> QED BY <1>1, <1>2, <1>3, <1>4, <1>5, JournalSteps

\* Runners, workers and directory implement the intent protocol, through every kill, hang,
\* failed fsync, reused pid and power loss.
THEOREM Refinement == Spec => ImplementsProtocol
<1>1. Init => Protocol!ProtocolInit BY LeaseAssumption DEF Init, Protocol!ProtocolInit
<1>2. IInv /\ [Next]_vars => [Protocol!ProtocolNext]_Protocol!protocolVars BY ProtocolStep
<1> QED BY <1>1, <1>2, SpecIInv, PTL DEF Spec, ImplementsProtocol, Protocol!ProtocolSpec
=============================================================================
