-------------------------- MODULE WorkerSupervisor --------------------------
(***************************************************************************)
(* The worker supervisor (WorkerSupervisor.c) with its ownership protocol  *)
(* (SupervisorOwnership.c), the journal (ControlIntentJournal.c), the      *)
(* cleanup (SupervisorProbeStorage.c) and the control lease, as concurrent *)
(* processes over one private directory.                                   *)
(*                                                                         *)
(* A runner is one supervisor process: it admits itself with a baseline    *)
(* window, claims the lease and runs an operation, or resumes a pending    *)
(* recovery, or cleans the directory.  Its workers are forked processes    *)
(* that inherit its lock and wait for a grant.  Runners may be killed,     *)
(* workers may hang in any state, pids are reused, every fsync may fail    *)
(* and the machine may lose power.  The launch lock of supervisor-probe.c  *)
(* is left out: any number of runners may work at once.                    *)
(*                                                                         *)
(* Deadlines are not counted: a deadline may pass at every check of it.    *)
(* Only the times the lease stores are numbers; each runner has its own    *)
(* clock, which starts with the process.                                   *)
(***************************************************************************)
EXTENDS IntentJournal, Sequences, FiniteSets

CONSTANTS
  Runners,     \* the supervisor processes that may exist at once
  Pids,        \* process ids, reused
  Inodes,      \* how many lock files may be created, 1..n
  Delays,      \* the time that may pass at a step that reads the clock
  Shown,       \* the readings an observer may report
  MaxFaults    \* bound on kills, hangs, reused pids and power losses

ASSUME SupervisorAssumption ==
  /\ IsFiniteSet(Pids) /\ 0 \notin Pids
  /\ Delays \subseteq Nat
  /\ Inodes \subseteq Nat \ {0}
  /\ Shown \subseteq Readings
  /\ MaxFaults \in Nat
  /\ 1 \in Owners

VARIABLES
  run,        \* run[r]: the memory and the descriptors of runner r
  proc,       \* proc[p]: the process with pid p
  pipe,       \* pipe[r]: observations written and not yet read
  marker,     \* control-intent-v1 as processes see it
  disk,       \* control-intent-v1 as a reboot finds it
  record,     \* supervisor-worker-v1 as processes see it
  recordDisk, \* supervisor-worker-v1 as a reboot finds it
  lockFile,   \* inode named supervisor-owner-v1, 0 when there is none
  hw,         \* who controls the fans
  faults,     \* kills, hangs, reused pids and power losses so far
  exposed,    \* history: an operation touched the fans under this marker
  seen        \* history: system readings in a row, see Fork and Touch

files   == <<marker, disk, record, recordDisk, lockFile>>
history == <<exposed, seen>>
vars    == <<run, proc, pipe, files, hw, faults, history>>

-----------------------------------------------------------------------------
(* State.                                                                  *)

NoPid == 0

Missing == "missing"   \* there is no record file
NoWorker == "zero"     \* the record says that no worker was granted

Records == Pids \cup {Missing, NoWorker}

Phases == {"none", "baseline", "operate", "recover", "verify"}

Results == {"none", "recovered", "recovery_failed", "observation_failed",
            "stop_failed", "cleaned"}

Steps == {"idle", "open", "flock", "check", "finish", "owned", "fork",
          "record", "grant", "wait", "stop", "reap", "claim", "run", "clear",
          "unlink_lock", "sync_cleanup", "done"}

Runner ==
  [pc : Steps, goal : {"none", "baseline", "run", "resume", "cleanup"}, phase : Phases,
   lease : Lease, now : Time, latest : Readings, fd : Inodes \cup {0}, flocked : BOOLEAN,
   child : Pids \cup {NoPid}, samples : Nat, reaped : BOOLEAN, exited_ok : BOOLEAN,
   result : Results]

NoRunner ==
  [pc |-> "idle", goal |-> "none", phase |-> "none", lease |-> ZeroLease, now |-> 0,
   latest |-> "failed", fd |-> 0, flocked |-> FALSE, child |-> NoPid, samples |-> 0,
   reaped |-> FALSE, exited_ok |-> FALSE, result |-> "none"]

\* A worker waits for its grant ("blocked"), runs its callback, and is a zombie
\* until its parent or, for an orphan, the system reaps it.
Process ==
  [state : {"free", "foreign", "blocked", "running", "zombie"},
   role : Phases, parent : Runners \cup {"none"}, inode : Inodes \cup {0},
   grant : BOOLEAN, connected : BOOLEAN, stalled : BOOLEAN, killed : BOOLEAN,
   left : Nat, exit : {"none", "ok", "failed"}]

FreePid ==
  [state |-> "free", role |-> "none", parent |-> "none", inode |-> 0, grant |-> FALSE,
   connected |-> FALSE, stalled |-> FALSE, killed |-> FALSE, left |-> 0, exit |-> "none"]

Alive(p) == proc[p].state \in {"blocked", "running"}

\* flock belongs to the open file: the runner that locked it and every worker
\* that inherited the descriptor hold it until the last of them closes it.
Locked(inode) ==
  \/ \E r \in Runners : run[r].flocked /\ run[r].fd = inode
  \/ \E p \in Pids : Alive(p) /\ proc[p].inode = inode

Unused(inode) == ~Locked(inode) /\ \A r \in Runners : run[r].fd # inode

\* A recorded pid that exists in any form blocks; a missing record blocks only
\* a recovery.
old_worker_absent(pending) ==
  CASE record = Missing  -> ~pending
    [] record = NoWorker -> TRUE
    [] OTHER             -> proc[record].state = "free"

Init ==
  /\ run = [r \in Runners |-> NoRunner]
  /\ proc = [p \in Pids |-> FreePid]
  /\ pipe = [r \in Runners |-> << >>]
  /\ marker = "absent" /\ disk = "absent"
  /\ record = Missing /\ recordDisk = Missing
  /\ lockFile = 0
  /\ hw = "system"
  /\ faults = 0
  /\ exposed = FALSE /\ seen = 0

-----------------------------------------------------------------------------
(* Runner: admission to the directory.                                     *)

At(r, step) == run[r].pc = step

Goto(r, step) == run' = [run EXCEPT ![r].pc = step]

\* Every return closes the owner lock; a worker keeps its own reference.
Returned(R, result) ==
  [R EXCEPT !.pc = "done", !.result = result, !.fd = 0, !.flocked = FALSE,
            !.child = NoPid, !.phase = "none", !.samples = 0, !.reaped = FALSE,
            !.exited_ok = FALSE, !.latest = "failed", !.now = 0]

Return(r, result) == run' = [run EXCEPT ![r] = Returned(run[r], result)]

\* SUPERVISOR_BLOCKED: nothing was started, and the process ends.
Block(r) == run' = [run EXCEPT ![r] = NoRunner]

\* The entry points: worker_supervisor_observe_baseline and _resume look at the
\* intent before they try to own the directory; resume forgets its lease first.
Launch(r, goal, intent) ==
  /\ At(r, "idle")
  /\ goal = "baseline" => intent = "clear"
  /\ goal = "resume" => intent = "pending"
  /\ run' = [run EXCEPT ![r] = [NoRunner EXCEPT
               !.pc = "open", !.goal = goal, !.now = 1,
               !.lease = IF goal = "resume" THEN control_lease_start("pending", "failed", 1) ELSE @]]
  /\ UNCHANGED <<proc, pipe, files, hw, faults, history>>

\* The probe claims the lease with the last snapshot of its own baseline.
Claim(r, intent, d) ==
  LET now == run[r].now + d
  IN  /\ At(r, "claim")
      /\ IF claimAccepted(run[r].lease, 1, now, TRUE, intent, run[r].latest)
           THEN run' = [run EXCEPT
                  ![r].pc = "run", ![r].now = now, ![r].latest = "failed",
                  ![r].lease = control_lease_claim(@, 1, now, TRUE, intent, run[r].latest)]
           ELSE Block(r)
      /\ UNCHANGED <<proc, pipe, files, hw, faults, history>>

\* worker_supervisor_run: a held, unexpired, fresh lease and a clear journal.
Run(r, intent, d) ==
  LET l == run[r].lease
      now == run[r].now + d
  IN  /\ At(r, "run")
      /\ IF /\ l.state = "held" /\ l.owner # 0 /\ unexpired(l, now)
            /\ now - l.last_sample <= Freshness
            /\ intent = "clear"
           THEN run' = [run EXCEPT ![r].pc = "open", ![r].goal = "run", ![r].now = now]
           ELSE Block(r)
      /\ UNCHANGED <<proc, pipe, files, hw, faults, history>>

\* supervisor_ownership_acquire, one action per system call that another
\* process may precede: open (creating the file), flock, the two reads under
\* the lock, and the comparison of the inode with the name and the zero record.
AcquireOpen(r) ==
  /\ At(r, "open")
  /\ \/ /\ lockFile # 0
        /\ run' = [run EXCEPT ![r].pc = "flock", ![r].fd = lockFile]
        /\ UNCHANGED lockFile
     \/ /\ lockFile = 0
        /\ \E inode \in {i \in Inodes : Unused(i)} :
             /\ \A i \in Inodes : Unused(i) => inode <= i
             /\ lockFile' = inode
             /\ run' = [run EXCEPT ![r].pc = "flock", ![r].fd = inode]
  /\ UNCHANGED <<proc, pipe, marker, disk, record, recordDisk, hw, faults, history>>

AcquireFlock(r) ==
  /\ At(r, "flock")
  /\ IF Locked(run[r].fd) THEN Block(r)
     ELSE run' = [run EXCEPT ![r].pc = "check", ![r].flocked = TRUE]
  /\ UNCHANGED <<proc, pipe, files, hw, faults, history>>

AcquireCheck(r, intent) ==
  LET pending == run[r].goal = "resume"
  IN  /\ At(r, "check")
      /\ IF intent = (IF pending THEN "pending" ELSE "clear") /\ old_worker_absent(pending)
           THEN Goto(r, "finish")
           ELSE Block(r)
      /\ UNCHANGED <<proc, pipe, files, hw, faults, history>>

\* supervisor_ownership_record: write the next file, fsync, rename, fsync the
\* directory.  It may fail with the name unchanged, or renamed but not durable.
supervisor_ownership_record(value, saved) ==
  \/ saved /\ record' = value /\ recordDisk' = value
  \/ ~saved /\ record' \in {record, value} /\ UNCHANGED recordDisk

\* Mutant: the locked file is not compared with the name.
AcquireFinish_any_inode(r, saved) ==
  /\ At(r, "finish")
  /\ supervisor_ownership_record(NoWorker, saved)
  /\ IF saved THEN Goto(r, "owned") ELSE Block(r)
  /\ UNCHANGED <<proc, pipe, marker, disk, lockFile, hw, faults, history>>

AcquireFinish(r, saved) ==
  /\ At(r, "finish")
  /\ IF run[r].fd # lockFile
       THEN Block(r) /\ UNCHANGED <<record, recordDisk>>
       ELSE /\ supervisor_ownership_record(NoWorker, saved)
            /\ IF saved THEN Goto(r, "owned") ELSE Block(r)
  /\ UNCHANGED <<proc, pipe, marker, disk, lockFile, hw, faults, history>>

-----------------------------------------------------------------------------
(* Runner: what it does once it owns the directory.                        *)

Recovering(phase) == phase = "verify"

Observes(phase) == phase \in {"baseline", "verify"}

\* The next phase of runner record R forks a new worker.
Enter(R, phase) ==
  [R EXCEPT !.pc = "fork", !.phase = phase, !.child = NoPid, !.samples = 0,
            !.reaped = FALSE, !.exited_ok = FALSE]

\* The rest of observe_baseline, run_owned and recover_owned once the phase's
\* worker is reaped, or could not be forked.  A failed operation is recovered
\* from like a finished one.
PhaseOver(R, ok) ==
  CASE R.phase = "baseline" /\ ok ->
         [Returned(R, "none") EXCEPT !.pc = "claim", !.latest = R.latest, !.now = R.now]
    [] R.phase = "operate" ->
         Enter([R EXCEPT !.lease = control_lease_owner_lost(@, @.owner)], "recover")
    [] R.phase = "recover" /\ ok  -> Enter(R, "verify")
    [] R.phase = "recover" /\ ~ok -> Returned(R, "recovery_failed")
    [] R.phase = "verify" /\ ok   -> [R EXCEPT !.pc = "clear", !.child = NoPid]
    [] OTHER -> Returned([R EXCEPT !.lease = control_lease_sleep(@)], "observation_failed")

\* A worker that survives SIGKILL past the deadline is left to its lock.
StopFailed(R) ==
  Returned([R EXCEPT !.lease = CASE R.phase = "operate" -> control_lease_owner_lost(@, @.owner)
                                 [] Observes(R.phase)   -> control_lease_sleep(@)
                                 [] OTHER               -> @], "stop_failed")

StartBaseline(r) ==
  /\ At(r, "owned") /\ run[r].goal = "baseline"
  /\ run' = [run EXCEPT ![r] = Enter([@ EXCEPT !.lease = ZeroLease], "baseline")]
  /\ UNCHANGED <<proc, pipe, files, hw, faults, history>>

\* run_owned: the intent is durable before the operation is forked.
MarkIntent(r, out, d) ==
  LET now == run[r].now + d
      R   == [run[r] EXCEPT !.now = now, !.lease = intent_marked(@, out, now)]
  IN  /\ At(r, "owned") /\ run[r].goal = "run"
      /\ marker' = out.marker /\ disk' = out.disk
      /\ run' = [run EXCEPT ![r] = IF intentAccepted(@.lease, out, now)
                                     THEN Enter(R, "operate") ELSE NoRunner]
      /\ seen' = IF marker' # marker THEN 0 ELSE seen
      /\ UNCHANGED <<proc, pipe, record, recordDisk, lockFile, hw, faults, exposed>>

StartRecovery(r) ==
  /\ At(r, "owned") /\ run[r].goal = "resume"
  /\ run' = [run EXCEPT ![r] = Enter(@, "recover")]
  /\ UNCHANGED <<proc, pipe, files, hw, faults, history>>

\* supervisor_probe_cleanup: the record goes before the lock file, each unlink
\* may fail, and the lock is held to the end.  What it returns is left out.
CleanupRecord(r, unlinked) ==
  /\ At(r, "owned") /\ run[r].goal = "cleanup"
  /\ record' = IF unlinked THEN Missing ELSE record
  /\ Goto(r, "unlink_lock")
  /\ UNCHANGED <<proc, pipe, marker, disk, recordDisk, lockFile, hw, faults, history>>

CleanupLock(r, unlinked) ==
  /\ At(r, "unlink_lock")
  /\ lockFile' = IF unlinked THEN 0 ELSE lockFile
  /\ Goto(r, "sync_cleanup")
  /\ UNCHANGED <<proc, pipe, marker, disk, record, recordDisk, hw, faults, history>>

CleanupSync(r, synced) ==
  /\ At(r, "sync_cleanup")
  /\ recordDisk' = IF synced THEN record ELSE recordDisk
  /\ Return(r, "cleaned")
  /\ UNCHANGED <<proc, pipe, marker, disk, record, lockFile, hw, faults, history>>

-----------------------------------------------------------------------------
(* Runner: spawn_worker.                                                   *)

Worker(r) ==
  [FreePid EXCEPT !.state = "blocked", !.role = run[r].phase, !.parent = r,
                  !.inode = run[r].fd, !.connected = TRUE,
                  !.left = IF Observes(run[r].phase) THEN RequiredSamples ELSE 0]

Fork(r, p) ==
  /\ At(r, "fork")
  /\ proc[p].state = "free"
  /\ proc' = [proc EXCEPT ![p] = Worker(r)]
  /\ run' = [run EXCEPT ![r].pc = "record", ![r].child = p]
  /\ seen' = 0
  /\ UNCHANGED <<pipe, files, hw, faults, exposed>>

ForkFailed(r) ==
  /\ At(r, "fork")
  /\ run' = [run EXCEPT ![r] = PhaseOver(@, FALSE)]
  /\ UNCHANGED <<proc, pipe, files, hw, faults, history>>

\* Mutant: the grant is sent although the pid could not be recorded.
RecordWorker_grants_anyway(r, saved) ==
  /\ At(r, "record")
  /\ supervisor_ownership_record(run[r].child, saved)
  /\ Goto(r, "grant")
  /\ UNCHANGED <<proc, pipe, marker, disk, lockFile, hw, faults, history>>

\* A pid that cannot be recorded is never granted: its connection is closed.
RecordWorker(r, saved) ==
  LET p == run[r].child
  IN  /\ At(r, "record")
      /\ supervisor_ownership_record(p, saved)
      /\ proc' = [proc EXCEPT ![p].connected = saved]
      /\ Goto(r, IF saved THEN "grant" ELSE "wait")
      /\ UNCHANGED <<pipe, marker, disk, lockFile, hw, faults, history>>

Grant(r) ==
  LET p == run[r].child
  IN  /\ At(r, "grant")
      /\ proc' = [proc EXCEPT ![p].grant = Alive(p), ![p].connected = Alive(p)]
      /\ Goto(r, "wait")
      /\ UNCHANGED <<pipe, files, hw, faults, history>>

-----------------------------------------------------------------------------
(* Runner: wait_phase, stop_and_reap and supervise_observer.               *)

\* waitpid returned the worker; the phase ends and its pipe is closed.
Collect(r, ok) ==
  /\ proc[run[r].child].state = "zombie"
  /\ proc' = [proc EXCEPT ![run[r].child] = FreePid]
  /\ run' = [run EXCEPT ![r] = PhaseOver(@, ok)]
  /\ pipe' = [pipe EXCEPT ![r] = << >>]
  /\ UNCHANGED <<files, hw, faults, history>>

WaitPhase(r) ==
  /\ At(r, "wait") /\ ~Observes(run[r].phase)
  /\ Collect(r, proc[run[r].child].exit = "ok")

\* A deadline, an owner that cancels or an observer without progress; an exit
\* that was not collected by then counts for nothing.
Deadline(r) ==
  /\ At(r, "wait")
  /\ run' = [run EXCEPT ![r] = IF @.reaped THEN PhaseOver(@, FALSE)
                               ELSE [@ EXCEPT !.pc = "stop"]]
  /\ pipe' = [pipe EXCEPT ![r] = << >>]
  /\ UNCHANGED <<proc, files, hw, faults, history>>

StopCollect(r) == At(r, "stop") /\ Collect(r, FALSE)

StopKill(r) ==
  /\ At(r, "stop")
  /\ proc[run[r].child].state # "zombie"
  /\ proc' = [proc EXCEPT ![run[r].child].killed = TRUE]
  /\ Goto(r, "reap")
  /\ UNCHANGED <<pipe, files, hw, faults, history>>

Reap(r) == At(r, "reap") /\ Collect(r, FALSE)

\* Mutant: the next phase begins although the worker was not reaped.
ReapTimeout_goes_on(r) ==
  /\ At(r, "reap")
  /\ proc[run[r].child].state # "zombie"
  /\ proc' = [proc EXCEPT ![run[r].child].connected = FALSE]
  /\ run' = [run EXCEPT ![r] = PhaseOver(@, FALSE)]
  /\ pipe' = [pipe EXCEPT ![r] = << >>]
  /\ UNCHANGED <<files, hw, faults, history>>

\* Mutant: waitpid without WNOHANG, so the reap has no deadline.
ReapTimeout_never(r) ==
  /\ At(r, "reap") /\ proc[run[r].child].state = "free"
  /\ UNCHANGED vars

ReapTimeout(r) ==
  /\ At(r, "reap")
  /\ proc[run[r].child].state # "zombie"
  /\ proc' = [proc EXCEPT ![run[r].child].connected = FALSE]
  /\ run' = [run EXCEPT ![r] = StopFailed(@)]
  /\ pipe' = [pipe EXCEPT ![r] = << >>]
  /\ UNCHANGED <<files, hw, faults, history>>

\* accept_observation: the lease after the next observation of the window.
accept_observation(R, reading, now) ==
  IF R.samples > 0 THEN control_lease_sample(R.lease, reading, now)
  ELSE IF Recovering(R.phase) THEN control_lease_recovery_started(R.lease, reading, now)
  ELSE control_lease_start("clear", reading, now)

acceptedWindow(lease, recovering) ==
  \/ lease.state = (IF recovering THEN "verifying_recovery" ELSE "observing")
  \/ lease.state = "stable" /\ lease.recovery_verified = recovering

\* One read of a whole observation, taken d after the one before it.  `timely`
\* stands for the checks on launch, read and delivery times; an observation
\* that fails them is not shown to the lease.
AcceptObservation(r, d, timely) ==
  LET now == run[r].now + d
      l   == accept_observation(run[r], Head(pipe[r]), now)
      R   == [run[r] EXCEPT !.now = now, !.lease = l]
  IN  /\ At(r, "wait") /\ Observes(run[r].phase)
      /\ pipe[r] # << >>
      /\ \/ /\ timely /\ acceptedWindow(l, Recovering(R.phase))
            /\ run' = [run EXCEPT ![r] = [R EXCEPT
                         !.samples = @ + 1,
                         !.latest = IF R.phase = "baseline" THEN Head(pipe[r]) ELSE @]]
            /\ pipe' = [pipe EXCEPT ![r] = Tail(@)]
         \/ /\ ~(timely /\ acceptedWindow(l, Recovering(R.phase)))
            /\ LET B == IF timely THEN R ELSE run[r]
               IN  run' = [run EXCEPT ![r] = IF B.reaped THEN PhaseOver(B, FALSE)
                                             ELSE [B EXCEPT !.pc = "stop"]]
            /\ pipe' = [pipe EXCEPT ![r] = << >>]
      /\ UNCHANGED <<proc, files, hw, faults, history>>

\* The exit may be collected while observations are still in the pipe.
ReapObserver(r) ==
  LET p == run[r].child
  IN  /\ At(r, "wait") /\ Observes(run[r].phase) /\ ~run[r].reaped
      /\ proc[p].state = "zombie"
      /\ run' = [run EXCEPT ![r].reaped = TRUE, ![r].exited_ok = (proc[p].exit = "ok"),
                            ![r].child = NoPid]
      /\ proc' = [proc EXCEPT ![p] = FreePid]
      /\ UNCHANGED <<pipe, files, hw, faults, history>>

FinishObserver(r) ==
  LET R == run[r]
      verified == /\ R.exited_ok /\ R.samples = RequiredSamples
                  /\ R.lease.state = "stable"
                  /\ R.lease.recovery_verified = Recovering(R.phase)
  IN  /\ At(r, "wait") /\ R.reaped /\ pipe[r] = << >>
      /\ run' = [run EXCEPT ![r] = PhaseOver(@, verified)]
      /\ UNCHANGED <<proc, pipe, files, hw, faults, history>>

\* Mutant: the result of fsync after the unlink is ignored.
ClearVerified_unsynced(r, intent, unlinked, synced) ==
  LET gone == intent = "pending" /\ takeRecoveryProofAccepted(run[r].lease) /\ unlinked
  IN  /\ At(r, "clear")
      /\ marker' = IF gone THEN "absent" ELSE marker
      /\ disk' = IF gone /\ synced THEN "absent" ELSE disk
      /\ exposed' = (exposed /\ ~gone)
      /\ seen' = IF gone THEN 0 ELSE seen
      /\ run' = [run EXCEPT ![r] =
           Returned([@ EXCEPT !.lease = control_lease_sleep(@)],
                    IF gone THEN "recovered" ELSE "observation_failed")]
      /\ UNCHANGED <<proc, pipe, record, recordDisk, lockFile, hw, faults>>

\* control_intent_clear_verified, then the end of recover_owned: a proof that
\* did not clear the journal is dropped.  The marker may be gone although the
\* directory could not be synchronised; then the call has failed.
ClearVerified(r, intent, unlinked, synced) ==
  LET R == run[r]
      proven == intent = "pending" /\ takeRecoveryProofAccepted(R.lease)
      taken  == IF intent = "pending"
                  THEN [R EXCEPT !.lease = control_lease_take_recovery_proof(@)] ELSE R
      gone   == proven /\ unlinked
  IN  /\ At(r, "clear")
      /\ marker' = IF gone THEN "absent" ELSE marker
      /\ disk' = IF gone /\ synced THEN "absent" ELSE disk
      /\ exposed' = IF gone THEN FALSE ELSE exposed
      /\ seen' = IF gone THEN 0 ELSE seen
      /\ run' = [run EXCEPT ![r] =
           IF gone /\ synced THEN Returned(taken, "recovered")
           ELSE Returned([taken EXCEPT !.lease = control_lease_sleep(@)], "observation_failed")]
      /\ UNCHANGED <<proc, pipe, record, recordDisk, lockFile, hw, faults>>

-----------------------------------------------------------------------------
(* Workers.                                                                *)

\* _exit, or a signal: descriptors, and with them the lock, are released.
Exits(p, code) ==
  proc' = [proc EXCEPT ![p] = [FreePid EXCEPT !.state = "zombie", !.exit = code,
                                              !.parent = proc[p].parent]]

Runs(p) == proc[p].state = "running" /\ ~proc[p].stalled

\* supervisor_ownership_enter_child: a grant that is read in time starts the
\* callback; a late one, or the end of the connection, ends the worker.
ReadGrant(p) ==
  /\ proc[p].state = "blocked" /\ ~proc[p].stalled
  /\ proc[p].grant
  /\ \/ proc' = [proc EXCEPT ![p].state = "running"]
     \/ Exits(p, "failed")
  /\ UNCHANGED <<run, pipe, files, hw, faults, history>>

ReadEof(p) ==
  /\ proc[p].state = "blocked" /\ ~proc[p].stalled
  /\ ~proc[p].grant /\ ~proc[p].connected
  /\ Exits(p, "failed")
  /\ UNCHANGED <<run, pipe, files, hw, faults, history>>

\* Mutant: no thread watches the connection; only a signal ends the worker.
WatcherExit_killed_only(p) ==
  /\ Runs(p) /\ ~proc[p].connected /\ proc[p].killed
  /\ Exits(p, "failed")
  /\ UNCHANGED <<run, pipe, files, hw, faults, history>>

\* parent_connection_watch, the second thread of every granted worker.
WatcherExit(p) ==
  /\ Runs(p) /\ ~proc[p].connected
  /\ Exits(p, "failed")
  /\ UNCHANGED <<run, pipe, files, hw, faults, history>>

\* The callbacks belong to the backend.  An operation takes the fans from the
\* system, a recovery gives them back; neither has to, and either may fail.
Touch(p) ==
  /\ Runs(p) /\ proc[p].role \in {"operate", "recover"}
  /\ hw' = IF proc[p].role = "operate" THEN "manual" ELSE "system"
  /\ exposed' = IF proc[p].role = "operate" THEN TRUE ELSE exposed
  /\ seen' = 0
  /\ UNCHANGED <<run, proc, pipe, files, faults>>

Finish(p, code) ==
  /\ Runs(p) /\ (Observes(proc[p].role) => code = "failed")
  /\ Exits(p, code)
  /\ UNCHANGED <<run, pipe, files, hw, faults, history>>

\* Fans under manual control are never read as the system's.  The converse may
\* happen: another program may switch them for a moment.
ReadingsOf(control) ==
  {x \in Shown : smc_baseline_is_system(x) => control = "system"}

\* observe_child: one reading, and the end of the worker after a failed or the
\* last one.  Without a parent the write fails, which WatcherExit covers; what
\* is written after the parent stopped reading is dropped.
ObserverRead(p, reading) ==
  LET r == proc[p].parent
  IN  /\ Runs(p) /\ Observes(proc[p].role) /\ proc[p].connected
      /\ pipe' = [pipe EXCEPT ![r] = IF At(r, "wait") THEN Append(@, reading) ELSE @]
      /\ IF reading = "failed" THEN Exits(p, "failed")
         ELSE IF proc[p].left = 1 THEN Exits(p, "ok")
         ELSE proc' = [proc EXCEPT ![p].left = @ - 1]
      /\ seen' = IF smc_baseline_is_system(reading) THEN seen + 1 ELSE 0
      /\ UNCHANGED <<run, files, hw, faults, exposed>>

\* A signal that was sent takes effect unless the process hangs in the kernel.
Die(p) ==
  /\ Alive(p) /\ proc[p].killed /\ ~proc[p].stalled
  /\ Exits(p, "failed")
  /\ UNCHANGED <<run, pipe, files, hw, faults, history>>

-----------------------------------------------------------------------------
(* The system.                                                             *)

\* A system call that does not return: neither SIGKILL nor _exit ends the process.
Stall(p) ==
  /\ Alive(p) /\ ~proc[p].stalled
  /\ faults < MaxFaults /\ faults' = faults + 1
  /\ proc' = [proc EXCEPT ![p].stalled = TRUE]
  /\ UNCHANGED <<run, pipe, files, hw, history>>

Unstall(p) ==
  /\ proc[p].stalled
  /\ proc' = [proc EXCEPT ![p].stalled = FALSE]
  /\ UNCHANGED <<run, pipe, files, hw, faults, history>>

\* launchd reaps orphans.
ReapOrphan(p) ==
  /\ proc[p].state = "zombie" /\ proc[p].parent = "none"
  /\ proc' = [proc EXCEPT ![p] = FreePid]
  /\ UNCHANGED <<run, pipe, files, hw, faults, history>>

\* Another process gets the recorded pid; at any other pid it would not matter.
ForeignStart(p) ==
  /\ proc[p].state = "free" /\ record = p
  /\ faults < MaxFaults /\ faults' = faults + 1
  /\ proc' = [proc EXCEPT ![p] = [FreePid EXCEPT !.state = "foreign"]]
  /\ UNCHANGED <<run, pipe, files, hw, history>>

ForeignExit(p) ==
  /\ proc[p].state = "foreign"
  /\ proc' = [proc EXCEPT ![p] = FreePid]
  /\ UNCHANGED <<run, pipe, files, hw, faults, history>>

\* The end of a runner closes its descriptors and orphans its workers.
RunnerEnds(r) ==
  /\ run' = [run EXCEPT ![r] = NoRunner]
  /\ proc' = [p \in Pids |->
                IF proc[p].parent = r
                  THEN [proc[p] EXCEPT !.parent = "none", !.connected = FALSE]
                ELSE proc[p]]
  /\ pipe' = [pipe EXCEPT ![r] = << >>]
  /\ UNCHANGED <<files, hw, history>>

Exit(r) == At(r, "done") /\ RunnerEnds(r) /\ UNCHANGED faults

\* A kill, or parent_check after the daemon went away, at any point.
Crash(r) ==
  /\ ~At(r, "idle")
  /\ faults < MaxFaults /\ faults' = faults + 1
  /\ RunnerEnds(r)

PowerLoss ==
  /\ faults < MaxFaults /\ faults' = faults + 1
  /\ run' = [r \in Runners |-> NoRunner]
  /\ proc' = [p \in Pids |-> FreePid]
  /\ pipe' = [r \in Runners |-> << >>]
  /\ marker' \in AfterPowerLoss(marker, disk) /\ disk' = marker'
  /\ record' \in {record, recordDisk} /\ recordDisk' = record'
  /\ hw' \in {hw, "system"}
  /\ seen' = 0
  /\ UNCHANGED <<lockFile, exposed>>

-----------------------------------------------------------------------------
Acquire(r) ==
  \/ AcquireOpen(r) \/ AcquireFlock(r)
  \/ \E intent \in control_intent_read(marker) : AcquireCheck(r, intent)
  \/ \E saved \in BOOLEAN : AcquireFinish(r, saved)
  \/ \E intent \in control_intent_read(marker), d \in Delays : Claim(r, intent, d) \/ Run(r, intent, d)

Own(r) ==
  \/ StartBaseline(r) \/ StartRecovery(r)
  \/ \E intent \in control_intent_read(marker), d \in Delays :
       \E out \in control_intent_mark_pending(run[r].lease, intent, marker, disk) :
         MarkIntent(r, out, d)
  \/ \E ok \in BOOLEAN : CleanupRecord(r, ok) \/ CleanupLock(r, ok) \/ CleanupSync(r, ok)
  \/ \E intent \in control_intent_read(marker), unlinked, synced \in BOOLEAN :
       ClearVerified(r, intent, unlinked, synced)

Supervise(r) ==
  \/ \E p \in Pids : Fork(r, p)
  \/ ForkFailed(r)
  \/ \E saved \in BOOLEAN : RecordWorker(r, saved)
  \/ Grant(r) \/ WaitPhase(r) \/ Deadline(r) \/ StopCollect(r) \/ StopKill(r)
  \/ Reap(r) \/ ReapTimeout(r) \/ ReapObserver(r) \/ FinishObserver(r)
  \/ \E d \in Delays, timely \in BOOLEAN : AcceptObservation(r, d, timely)

RunnerStep(r) == Acquire(r) \/ Own(r) \/ Supervise(r) \/ Exit(r)

\* What a worker does by itself whatever its callback does.
WorkerEnds(p) == ReadGrant(p) \/ ReadEof(p) \/ WatcherExit(p) \/ Die(p) \/ ReapOrphan(p)

Callback(p) ==
  \/ Touch(p)
  \/ \E code \in {"ok", "failed"} : Finish(p, code)
  \/ \E reading \in ReadingsOf(hw) : ObserverRead(p, reading)

Environment ==
  \/ \E r \in Runners : Crash(r)
  \/ \E r \in Runners, goal \in {"baseline", "resume", "cleanup"},
        intent \in control_intent_read(marker) : Launch(r, goal, intent)
  \/ \E p \in Pids : Stall(p) \/ Unstall(p) \/ ForeignStart(p) \/ ForeignExit(p)
  \/ PowerLoss

Next ==
  \/ Environment
  \/ \E r \in Runners : RunnerStep(r)
  \/ \E p \in Pids : WorkerEnds(p) \/ Callback(p)

Spec == Init /\ [][Next]_vars

\* A runner that can run does run, and its deadlines pass; a worker that does not
\* hang reads its connection, is ended by a signal, and is reaped.  Callbacks owe
\* nothing, and nobody has to launch a runner.
FairSpec ==
  /\ Spec
  /\ \A r \in Runners : WF_vars(RunnerStep(r))
  /\ \A p \in Pids : WF_vars(WorkerEnds(p))

-----------------------------------------------------------------------------
(* Properties.                                                             *)

\* The type invariant: an observer never shows more than the readings of one
\* window, and every descriptor, record and pid is one that exists.
TypeOK ==
  /\ run \in [Runners -> Runner]
  /\ proc \in [Pids -> Process]
  /\ pipe \in [Runners -> Seq(Readings)]
  /\ marker \in Markers /\ disk \in Markers
  /\ record \in Records /\ recordDisk \in Records
  /\ lockFile \in Inodes \cup {0}
  /\ hw \in {"system", "manual"}
  /\ faults \in 0..MaxFaults
  /\ exposed \in BOOLEAN
  /\ seen \in 0..RequiredSamples

\* No two workers of any runners ever live at once: the inherited lock, the
\* comparison of the inode after flock and the durable pid guard close every gap
\* a killed runner, a worker that survives SIGKILL or a cleanup could open.
AtMostOneWorker == \A p, q \in Pids : Alive(p) /\ Alive(q) => p = q

\* A worker that may run its callback is the one that a later runner finds in the
\* record, even after a power loss of the directory (spawn_worker records, then
\* grants).
GrantedIsRecorded ==
  \A p \in Pids : Alive(p) /\ proc[p].grant => record = p /\ recordDisk = p

\* Fans that an operation took from the system are covered by a durable marker,
\* across every kill, hang, failed fsync, power loss, resume and cleanup.
ManualIsMarked == hw = "manual" => marker = "pending" /\ disk = "pending"

\* A reported recovery is final: the marker is gone for a reboot too, the fans are
\* the system's, and no worker is left to take them.
RecoveredIsFinal ==
  [][\A r \in Runners : run'[r].result = "recovered" /\ run[r].result # "recovered" =>
       /\ marker' = "absent" /\ disk' = "absent"
       /\ hw = "system"
       /\ \A p \in Pids : ~Alive(p)]_vars

\* Runners, workers and directory together implement the abstract protocol.
Protocol == INSTANCE IntentProtocol WITH
  armed <- marker # "absent", exposed <- exposed, good <- seen >= RequiredSamples

\* Every step of every process is a step of the intent protocol: an operation
\* touches the fans only under a marker, and the marker goes only when the last
\* worker was an observer that saw a whole window of system readings.
ImplementsProtocol == Protocol!ProtocolSpec

\* Every launched runner ends, although its workers may hang for ever, ignore
\* SIGKILL or never answer: no wait of the supervisor is without a deadline.
RunnersEnd == \A r \in Runners : run[r].pc # "idle" ~> run[r].pc = "idle"

Orphan(p) == Alive(p) /\ proc[p].parent = "none" /\ ~proc[p].stalled

\* An orphan that does not hang goes away and frees its lock, whatever its
\* callback does (supervisor_ownership_enter_child and its watcher thread).
OrphansEnd == \A p \in Pids : Orphan(p) ~> ~Orphan(p)
=============================================================================
