# A TLA+ model of ventilator's fan control

`ventilator` is a fan monitor for one Mac model, with the prototypes of what may
one day take the fans from the system.  Two of them touch, or are built to touch,
the hardware: the privileged helper in `src/prototype/helper-ipc` (a lease that says
who may write, a journal that says that somebody may have written, a supervisor that
runs every access in a process of its own and believes in no recovery it has not
observed for a whole minute, a root daemon that starts the supervisor for a client)
and the write trial in `src/prototype/smc-write-trial` (a program and two shell
scripts that write a few SMC keys once and give the fans back).  The desktop
application in front of them keeps a login item and a menu bar icon in step with
other processes.  This directory models all three, checks them with TLC and proves
most of their safety properties with TLAPS.

## Inventory

Paths are relative to `src/prototype/`.

| component | state | operations | correct when |
|---|---|---|---|
| control lease, `helper-ipc/ControlLease.c` | one record: state, owner, deadline, observation window, flags | start, sample, claim, prepare, mark_write_pending, renew, owner_lost, tick, sleep, recovery_started, take_recovery_proof | a held lease has one owner and a deadline; a proof stands on a fresh window |
| intent journal, `ControlIntentJournal.c` | the file `control-intent-v1` | read, mark_pending, clear_verified | touched fans are marked on the medium; the marker goes only after a verified recovery |
| ownership, `SupervisorOwnership.c` | the lock file, the pid record, a socket per worker | acquire, record, enter_child, the watcher thread | one worker at a time, found by the next supervisor |
| worker supervisor, `WorkerSupervisor.c` | lease, child, observation window, report | observe_baseline, run, resume | every phase is ended before the next; every call returns; a reported recovery is final |
| baseline watch, `BaselineWatch.c`, `BaselineWatchController.m` | watch record, generation, a timer chain | start, scheduleSecond | "stable" is a whole window, a change is never forgotten |
| probe daemon side, `SupervisorProbeController.m`, `SupervisorProbeOwner.m`, `daemon-status.m` | state, task, owner; a pipe per owner; the staged executable | five XPC requests, stageRunner, completion, invalidate | one task, owned by one connection; a lost client never yields success |
| probe runner, `supervisor-probe.c`, `SupervisorProbeStorage.c`, `SupervisorProbeCrash.c`, `SupervisorRunnerLifetime.c` | the launch lock, the modes | run, crash, resume, cleanup | one probe at a time; ends with its owner |
| SMC reader, `SmcBaselineRead.c` | none | read | reading or failure |
| client bridge and reply validation, `HelperProbeBridge.m`, `HelperSupervisorValidation.h` | one call's variables and its connection | request, poll, time limits, invalidate | a reported success is that of the run that was asked for; a command returns and leaves no runner |
| startup audit, service registration | one captured reading; the system's | | |
| write trial, `smc-write-trial/*.c` | the place in the program, counters, a signal flag; the SMC keys | preflight, plan, write, observe, restore, unlock | a verdict says what was seen; recovery never makes it worse; a run ends |
| shell supervisors, `smc-write-trial/*-supervised.sh` | the child, its exit code, the traps | precheck, trial, observe, recover | an exit code is true; what was written was watched or the user is told to reboot |
| login item, `desktop-app/.../login`, `login-item` | repository status, busy, error, a mutex | poll, toggle | the last click decides; the screen catches up |
| menu bar, `desktop-app/.../menubar`, `DesktopMain.kt`, `menu-bar` | window, screen, message; sends; the icon | start, send, menu commands, quit | the icon becomes current; the window stays reachable |
| monitoring and screens, `desktop-app` | view-model flows | poll, draw | |
| readers and studies, `smc-read`, `kotlin-read`, `kotlin-native-iokit`, `scripts` | none | print | |

Interaction: client → XPC → daemon (`SupervisorProbeController`) → `NSTask` runner
with an ownership pipe → forked workers with a private socket and an inherited
lock.  Lease and journal live in the runner's memory and in a root-only
directory.  Script → trial process → SMC; script → observer process → SMC.  Desktop
application → icon process over two pipes.  The hard behaviours are the ones between
these processes: deaths of each of them at any point, hung workers, reused pids,
failed `fsync`, power loss, lock files that are removed while somebody holds them,
blocks that read outside a lock and apply inside it, clients that disconnect
half-way, SMC writes whose answer does not tell when or whether they take effect,
signals in the middle of a recovery, coroutines that are cancelled while they write.
`PROJECT.json` lists them as hazards, with the property that watches each.

## Modules

    ControlLease        the reducer, as operators            (no state)
      IntentJournal     the journal's calls, as sets of outcomes
        LeaseJournal    lease + journal under any order of calls and faults
          LeaseJournalProofs
        WorkerSupervisor   runners, workers and the directory
          WorkerSupervisorProofs
    IntentProtocol      abstract: arm, expose, observe, disarm, forget
    BaselineWatch       reducer, timer chain, daemon restart
      BaselineWatchProofs
    ProbeDaemon         clients, controller, runners, launch lock
      HelperClient      the client's bridge against that daemon
        ProbeDaemonProofs   both, the daemon's theorems from its own Spec
    TrialSmc            the SMC keys, as the trial meets them (external)
      TrialRecovery     observing, restoring and unlocking
        TrialRuns       the trials and the recovery commands
          TrialRunsProofs
          TrialSupervised   command line, preflight and both scripts
            TrialSupervisedProofs
    TrialPlan           the arithmetic of plan, encoding and reading
      TrialPlanProofs
    LoginItem           clicks, polls and System Settings
      LoginItemProofs
    MenuBar             window, send effect and icon process
    MC*                 TLC instances (symmetry, sets; constants are in the .cfg)

`LeaseJournal` and `WorkerSupervisor` are both shown to implement
`IntentProtocol` (property `ImplementsProtocol` of each).  Definitions named
`x_something` with a comment "Mutant:" are wrong variants of `x`; no
specification uses them, they exist to show that a property can fail.

**ControlLease.**  `control_lease_x(l, ...)` is the lease after the C function of
that name; `xAccepted` is its return value.  Time is a natural number bounded by
`MaxTime`, which stands for `UINT64_MAX`; the wrap-around tests of `claim` and
`renew` are kept.  A snapshot is one of five readings, which is what the reducer
tells apart: failed, or system/manual control with every sensor below 75 °C or
not.

**IntentJournal / LeaseJournal.**  A file has two values, `marker` (what processes
see) and `disk` (what a reboot is sure to find).  `control_intent_mark_pending` is
the set of everything its system calls may leave behind: nothing, a torn file, a
whole file of which one of the two `fsync`s failed, or a durable marker.  Each
entry point is an action; the caller's arguments are chosen freely, except that a
zeroed lease is never sampled, as `accept_observation` guarantees.  `exposed` and
`quiet` are history variables.

**WorkerSupervisor.**  A runner is one supervisor process, its `pc` the system call
it is at: `open`, `flock`, the checks under the lock, the comparison of inodes, then
for every phase `fork`, `record`, `grant`, `wait`, `stop`, `reap`, and `clear`.  A
worker is blocked until its grant, then runs its callback beside the watcher
thread.  `flock` belongs to the open file, so a worker holds its runner's lock until
it exits.  Callbacks belong to a backend that is not in the repository for a writer
(the probe's backend only reads): `Touch` lets an operation take the fans and a
recovery give them back, or not.  The launch lock of the probe is left out, so the
ownership protocol is checked alone against any number of runners.

**BaselineWatch.**  `Read` is what a timer block does before `@synchronized`,
`Apply` what it does inside.  Time may pass anywhere, sleep included.

**ProbeDaemon.**  A request holds the controller's lock from `Request` to
`LaunchTask` or a failure; a client may disconnect, an orphaned runner may move and
the daemon may die between its steps.  A runner is its lock protocol; the probe
itself is one step (`Probe`) which may leave workers that keep the lock
(`lingering`).  `cleanup` removes the executable, the staged copy, the lock and the
directory in the code's order.

**HelperClient.**  Composes `ProbeDaemon` with one call of `fetchDaemon`: `Command`
makes the connection and sends the request, `Receive`, `ReceiveError`, `Timeout` and
`Wake` are the ways its waits end, `Return` invalidates the connection, and the
steps of the daemon that answer a message carry the reply (`Serve`, `Launching`).  A
daemon that dies fails a message or leaves it to its successor; the interruption
handler runs when it runs.  The other client of the daemon does what it likes.  An
incarnation of the daemon stands for its pid and boot time.

**TrialSmc, TrialRecovery, TrialRuns.**  The program is sequential, and everything
hard about it is the SMC.  `p.at` is the place in the program, `p.ret` the stack of
its calls; between two accesses the SMC may move, so that each read and each write is
a step.  A write takes effect at once, later or never, whatever it returned; a
snapshot is read key by key and may be torn by one move of the SMC; the system lets
go of fans under a set `Ftst`, takes them back under a clear one and sets targets of
its own under load.  `TrialRecovery` has `trial_observe_baseline_window`,
`trial_restore_system` and `trial_restore_unlock`; `TrialRuns` the three trials and
the two recovery commands.  The clock is in tenths of a second and only exists as the
distance of two samples (`Gaps`).  `quiet`, `pair` and `wrote` are history variables.
The trials are suspended in the current binary (`main` turns them away), so
`TrialRuns` checks `trial_actions.c` as the library that it is.

**TrialSupervised.**  Adds `main` with its gate and preflight, the prompt, the signal
handlers and the exit codes, and runs that program as the child of one of the scripts
or of a shell.  `Binaries` has the current binary and the `reviewed` one, which is the
same without the gate: the one the scripts were written for.  A signal reaches the
script, the child or both; a child without a handler dies of it, the script runs its
trap when the child in the foreground has ended.

**TrialPlan.**  One fan's keys, in eighths of an rpm: `trial_make_plan`, the
transport's own check, the encoding into `fpe2` (16 bits, quarters) or a float, the
reading, and the two tolerances it is compared with.

**LoginItem.**  Coroutines on one thread; the calls to ServiceManagement are steps of
their own.  A click asks for the opposite of what the screen shows, waits for the
mutex, sets, refreshes twice; the poll takes no mutex.

**MenuBar.**  The user interface thread, the writer threads and the icon are
interleaved; `sends` are the coroutines of the send effect, the cancelled ones that
are not over included.  Starting the bridge is part of `Init`.  A write fails exactly
when the icon is gone.

## Runs

| run | instance | shows |
|---|---|---|
| `lease_journal` | 3 samples over 3 ticks, TTL 2, clock 0..10, 2 owners; 20 000 states | TypeOK, ExposedIsDurable, HeldIsBounded, ClearedOnlyByFreshWindow, refinement |
| `supervisor_pair` | 2 runners, 2 pids, 3 inodes, 1 fault; 1.7 million states | AtMostOneWorker, GrantedIsRecorded |
| `supervisor_solo` | successive runners, 3 faults, delays 1 and 2, all readings, fair; 157 000 states | ManualIsMarked, RecoveredIsFinal, RunnersEnd, OrphansEnd, refinement |
| `baseline_watch` | 4 readings, gaps 1..2, duration 4, 2 starts, clock to 14, fair; 97 000 states | StableIsWholeWindow, OneTimerChain, ChangeIsFinal, WindowEnds |
| `probe_daemon` | 2 clients, 2 runners, 3 inodes, 1 daemon death, fair; 384 000 states | AtMostOneProbe, RunnerHasItsOwner, SuccessWasOwned, AbandonedEnds |
| `probe_staging` | 1 client, 1 runner, 1 daemon death, nothing else fails | **violated**: CleanupIsStaged |
| `helper_client` | the bridge and 1 other client with 1 request, 2 runners, 1 daemon death, 1 poll, fair; 487 000 states | ResultIsOwn, CommandReturns, LeavesNoRunner |
| `trial_runs` | every entry, all SMC faults, 1 late write, fair; 559 000 states | VerdictIsWitnessed, NothingPendingBehindSuccess, RejectedWroteNothing, NeverClearsUnderManual, ZeroesOnlyReleasedPair, Terminates |
| `trial_supervised` | both scripts and the command line, both binaries, 2 signals, kills, failed reads, refusals, 1 late write, fair; 1.2 million states | ExitTwoWroteNothing, ExitZeroIsWitnessed, WrittenMeansWatched, ScriptEnds |
| `trial_plan` | 11 speeds at the edges, 3 key types; 138 000 states | ReadingTellsWhatWasAsked, NeverCoolsLess |
| `login_item` | 3 clicks, 1 change outside, fair; 107 000 states | LastClickDecides, ScreenCatchesUp |
| `menu_bar` | 2 inputs, 2 polls, an icon that starts or not, fair; 152 000 states | IconCatchesUp, StaysReachable, ManualStartShows |

Every run has `TypeOK` (or `ClientTypeOK`, `SupervisedTypeOK`) of its module at hand
as documentation of the state; only that of `LeaseJournal`, which is also proved,
is part of a run.

Bounds.  The windows are as short as they can be while count and duration remain
independent: `(RequiredSamples - 1) * SampleMin < BaselineTime` as in the code, so a
window may have enough samples and be too short.  Three inodes are enough for two
runners (two unlinked files may be open while a third is created).  `MaxFaults`
bounds kills, hangs, reused pids and power losses; a single fault reaches every
pair of states of the lock protocol, three let a second and a third supervisor meet
the remains of the first.  Clocks only bound the length of a behaviour: no guard but
the wrap-around tests looks at `MaxTime`.

The trial's retries and seconds are scaled down and keep their order
(`FallbackSecond + StableSeconds < BaselineWait`, so that a minute fits behind the
fallback); two retries tell a first, a middle and a last attempt apart.  One write
may be late at a time (`MaxLate`) and one move may tear a snapshot.  A minute is
`StableSeconds = 2`, that is three samples: a first one, one in between and a last.
Sample distances of 0.8, 0.9, 1 and 6 s lie on both sides of each limit.  Two signals
are what it takes to meet a script whose traps are gone.  `trial_supervised` has the
faults that reach across processes (`read`, `late`, `refuse`, `kill`); the others are
`trial_runs`' business.  In `trial_plan` the speeds are zero, the tolerances, odd
eighths, the limit of `fpe2` and the speeds whose plan falls on it.

`helper_client` has one poll, since every poll is served alike, one request of the
other client, enough to occupy the controller or to put another result in it, and one
inode, since no lock is contended.  A pid the client remembers is not given to
another runner meanwhile.  Three clicks are the most whose order a mutex could change
(two may wait); one change outside may fall anywhere between them.  Two inputs let a
send be cancelled while the one before it still holds the mutex.  Deadlock is checked
in every run.

Fairness, always weak.  `supervisor_solo`: a runner that can take a step takes
one (deadlines in the supervisor are polled every 10 ms, so a passed deadline is
such a step), and a worker outside the kernel reads its socket, dies of
SIGKILL and is reaped.  Callbacks, hung system calls and new launches have no
fairness.  `baseline_watch`: queued dispatch blocks run.  `probe_daemon`: the same of
the completion block and of the thread that serves a request, a runner moves through
its lock protocol, and `parent_check`, called at least every 10 ms, meets an end of
file; a probe with a living owner may last for ever.  `helper_client`: also the
client's process runs, its waits meet their limits and the daemon serves its
connections; nothing is assumed of the interruption handler.  `trial_runs`: the
program runs (each IOKit call returns); nothing is assumed of the SMC.
`trial_supervised`: child and shell run and a question at the terminal is answered.
`login_item`, `menu_bar`: dispatchers, the user interface thread and the icon run what
is ready; nobody has to click and no icon has to die.

### The violated run

`probe_staging`: the copy of the runner is staged as `supervisor-executable.next`
with `O_EXCL`, and removed afterwards only if this open succeeded
(`SupervisorProbeController.m:82` and `:110`).  A daemon that dies in between leaves
the file.  Every later launch then fails with `signature`, the launch of the cleanup
that is meant to remove the file (`SupervisorProbeStorage.c:34`) included.

### Divergences

Places where the code, as modelled, does something else than a comment or a document
says.  No property of a run states the sentence; the properties above hold in spite
of each of them.  Paths are relative to `src/prototype/`.

- `helper-ipc/WorkerSupervisor.h:68`: "Failure retains the pending marker."
  `control_intent_clear_verified` unlinks the marker and returns the result of the
  directory's `fsync` (`ControlIntentJournal.c:76`).  If only that fails, the call is a
  failure and the marker is gone.  Nothing unsafe follows: the recovery was verified,
  `RecoveredIsFinal` and `ManualIsMarked` hold.
- `smc-write-trial/trial_actions.c:71`: the flag of the signal handler is never taken
  back, and a baseline window returns at once while it is set.  A trial that was
  interrupted and has given its fans back therefore always reports `RESTORE_FAILED`,
  never that the system was verified.  It errs on the safe side, and the scripts
  observe with a new process.
- `smc-write-trial/trial_actions.c:317`: the fallback after the release is chosen on a
  reading with both fans in mode 0, but `trial_restore_system` reads again and writes
  unless that reading is the baseline.  If the system has taken one fan back in
  between, all four keys are written, where `smc-write-trial/README.md:57` says that
  the branch writes nothing for the mixed state `0`/`3`.
- `smc-write-trial/ftst-supervised.sh:39` and `ftst-minimum-supervised.sh:38`:
  `on_interrupt` removes the traps before it recovers.  A second signal then ends the
  script, and its recovery, with neither an observation nor the advice to reboot that
  `smc-write-trial/README.md:38` promises.  `WrittenMeansWatched` speaks of scripts
  that end by themselves.
- `desktop-app/.../login/ui/LoginItemViewModel.kt:36`: the poll refreshes without the
  mutex, so a status read before a click may be published after it and shown until
  the next poll.  `ScreenCatchesUp` says that it does not last.
- `desktop-app/.../menubar/MenuBarBridge.kt:72`: `send` catches the
  `CancellationException` of a newer send like a broken pipe, so the window may come up
  with the message of a lost icon while the icon is alive.
- `desktop-app/.../menubar/MenuBarBridge.kt:64`: without an icon process `send` returns
  at once, so a window closed after a failed start does not come back by itself, unlike
  after the death of an icon (`StaysReachable`).

## Proofs

Every theorem holds for all values of the constants that satisfy the named
assumptions of the modules it is about: any number of processes, any length of a
window, any number of faults.  The scheme is the same everywhere: an inductive
invariant `IInv`, one lemma per action (or per group of actions that change the same
part of the state), then the theorems.  The parts of each `IInv` were first checked
by TLC on the instances of the runs.

**LeaseJournalProofs** (`LeaseAssumption`: at least two samples, positive limits, a
clock longer than the lease): `TypeOK`, `ExposedIsDurable`, `HeldIsBounded`,
`ClearedOnlyByFreshWindow`, `ImplementsProtocol`.  None of the safety properties is
inductive.  `IInv` adds

- `AuthorityIsDurable`: a held lease with `write_pending` has its marker on the
  medium.  This is what makes `Write` preserve `ExposedIsDurable`, and it needs
  `mark_pending` to return true only after both `fsync`s;
- `WindowIsEvidence`: while a recovery is verified, the lease's count, start and last
  sample are those of the readings really shown;
- `ProofIsEvidence`: a proof that can be taken stands on a complete window since the
  marker was made.  It depends on `prepare_persistent_intent` dropping an older
  proof and on every other way out of `stable` dropping it too.

`HeldIsBounded` is carried by lemmas about the reducer alone (`Sound`), one per
function.  `RemovalStep` and `ProtocolStep` derive the action property and the
step simulation from `IInv`.

**WorkerSupervisorProofs** (also `SupervisorAssumption`: pids are not 0, which stands
for no pid, inodes are positive): `AtMostOneWorker`, `GrantedIsRecorded`,
`ManualIsMarked`, `RecoveredIsFinal`, `ImplementsProtocol`, for any number of runners
that are killed, restarted and cleaned up at any step.  The argument:

- *The lock.*  `LockIsExclusive` says more than `flock` does: whatever lives with a
  runner's lock is the worker of that runner's present phase.  A worker inherits the
  open file, so a runner that gets the lock knows that no worker of that file is left.
  That is worth something only for the file that has the name (`OwnerIsNamed`), which
  the comparison of inodes after `flock` establishes, and which a cleanup may end only
  because it has the lock itself.  From the two follows `AtMostOneWorker`, and from
  `GrantFollowsRecord` (a grant is written after the record is durable)
  `GrantedIsRecorded`.
- *The fans.*  `FansAreMarked` has a case for an operation that is still alive:
  `Touch` may take the fans at any time until it is reaped, so that the marker has to
  cover it from before its fork.  What removes the marker is a verification, and this
  needs `VerifiedIsSystem` (since its first accepted sample nobody could take the fans,
  for the only worker is an observer) and `LeaseIsLost` (a verification never starts
  from a lease that still grants something).
- *The window.*  `LeaseCounts` and `WindowIsSeen` relate the lease's counter, the
  samples in the pipe and the readings really shown, for the refinement: the marker
  goes only after a whole window.

The refinement maps an operation's `Touch` to `Expose`, the step that makes the marker
to `Arm`, the one that removes it to `Disarm`, and a power loss to `Forget` or `Arm`
(the medium may be behind or ahead of memory); every other step changes at most what
has been seen (`Observe`).  What the clocks have counted up to is left open in the
invariant (`Shaped`): no safety property depends on it.

**BaselineWatchProofs** (`WatchAssumption`): `OneTimerChain`, `StableIsWholeWindow`,
`ChangeIsFinal`.  The reducer keeps a counter, a start and a last time; `WindowIsLogged`
says that these are the end of the log of applied readings.  It is inductive because
there is one chain of blocks, each of the current generation.

**ProbeDaemonProofs** (`DaemonAssumption`: finitely many pids, none of them the value
for no task): `RunnerHasItsOwner`, `SuccessWasOwned`, `AtMostOneProbe`.  The first needs
`CallIsAlone` (while a request is inside the controller's lock there is no task) and
`WriterIsKept` (between `openChannel` and the launch only a disconnect takes the writer
away); the last is the argument about lock files again, with the workers that a dead
runner leaves.

The same module goes on to the client (`ClientAssumption`: the value for nobody is not a
client).  `ClientIsAClient` says that `HelperClient` implements `ProbeDaemon`: the
daemon's theorems hold for the daemon this client talks to.  `OwnResult` is `ResultIsOwn`
for any number of clients, polls and deaths.  Its invariant `ClientInv` follows the
command's runner: until the first request is answered the client owns nothing
(`OwnsNothing`); an answer "running" names a runner that this very request launched
(`FirstAnswer`); from then on (`Follows`), in the daemon that launched it, the runner is
the task of this client or has been judged, and the pid of any later task is another one;
in a later daemon nothing is claimed, because its identity is another one and
`HelperSupervisorSameRunValid` refuses its answers.  `LaterAnswer` carries the verdict
from the moment of the answer to the moment the bridge reads it.  The proof uses what
`FreePids` states, that a pid is not used again while a command remembers it; without
that the comparison of pids alone does not tell two runs of one daemon apart.

**TrialPlanProofs** (speeds are whole eighths of an rpm): `ReadingTellsWhatWasAsked`,
`NeverCoolsLess` for every snapshot of a fan, by linear arithmetic: the encoding loses
less than the tolerance, and a plan is further from zero than the tolerance.

**LoginItemProofs** (`LoginItemAssumption`): `LastClickDecides` for any number of
clicks.  `ServedInOrder` (the mutex is fair) and `LastBegunDecides` (the registration is
what the last click that got the mutex wanted) carry it.

**TrialRunsProofs** (`RecoveryAssumption`, `RunsAssumption`): `VerdictIsWitnessed`,
`NothingPendingBehindSuccess`, `RejectedWroteNothing`, `NeverClearsUnderManual` and
`ZeroesOnlyReleasedPair`, for every number of retries, every window, every set of faults
and any number of writes that take effect late.  `IInv` has three groups of parts:

- *The program.*  `Stacked` is the call structure of `trial_actions.c`: an entry point
  calls a procedure, `trial_restore_unlock` calls the other two, each returns to the
  place that called it.  `Answered` says what each procedure can return there.
- *What was seen.*  `MinuteIsSeen`: the seconds either loop has counted are covered by
  the history of readings without a write in it, and so is what it returns.  The
  verdicts of the entry points rest on that, across two levels of calls.
- *What is still to take effect.*  Until a trial has read the effect of its writes, a
  late enabling write is one the SMC does not hold yet (`EffectIsOpen`), so the reading
  that shows the effect shows that none is left (`SettledIsOver`); the recovery writes
  nothing that enables.  `ReleasedStays`: from the reading that allows the release up
  to the release no fan can become manual, because late mode writes come only from the
  direct trial (`EnablesItsOwn`), which does not use this recovery.

The lemmas up to `StayKeeps` say once what a call, a return and an access to the SMC
preserve; after them there is one lemma per action.

**TrialSupervisedProofs** (also `SupervisedAssumption`): `ExitTwoWroteNothing`,
`ExitZeroIsWitnessed`, `WrittenMeansWatched`, for any number of signals and kills.
The child behind its gates is the program of `TrialRuns`, and `IInv` is taken over as
it is; what is new is how a child gets there and what survives it:

- `ChildInv`: as long as no child has written, the SMC shows nothing that a trial would
  enable and nothing is late (`Untouched`), so the preflight of the trial leads into a
  state of `IInv` (`TrialBegins`); a recovery command and an observer begin on whatever
  is there, with writes of an earlier, killed child still to come (`CommandBegins`).
  Those stay harmless to them because a script never runs the direct trial.
- `Staged`: what each place of the script says about its child, above all that nothing
  is written before `trial_started` is set, which is what `on_interrupt` relies on.
- `CodeIsTrue`: the code of an exited child as a fact about the SMC, so that the script
  may act on it after the process is gone.  Code 2 speaks of all children so far.

A proof may not choose among the arms of a `CASE` that hold together: `SampleVerdict`,
the daemon's `Verdict` and `Report` had such arms and are now `IF` chains, in the order
of the code's tests.

Only model-checked: all liveness (outside TLAPS's reach), which includes everything that
is stated of `MenuBar`, and the type invariants of `TrialRuns` and `TrialSupervised`.

## Assumptions

- `fsync` that succeeds is durable.  The code does not use `F_FULLFSYNC`; a drive
  that keeps its cache would need it.
- Every file the code refuses for its owner, mode, links or contents is the marker
  `malformed`, or an intent `unknown`, which a read may also return because it failed.
- `waitpid` never returns `ECHILD`: nobody else reaps the workers.
- Deadlines are not counted; one may pass at every test of it.
- The machine's sleep is `Sleep` in `LeaseJournal` and elapsed time elsewhere.
- Clocks of different processes are unrelated.
- The daemon is root and a report fits into 4096 bytes, so the reasons `permission`
  and `output` do not occur in `ProbeDaemon`.

- The SMC of the trial: `Ftst` is 0 or 1, a mode 0, 1 or 3, a target zero, the fan's
  minimum or the plan's.  A recovery command meets no write of an earlier process that
  is still to take effect, except in `TrialSupervised`, where that process is part of
  the model.  Whether the actual speed followed is a free choice.
- A speed is a whole number of eighths of an rpm; a float holds those exactly.

## Not modelled

`PROJECT.json` has the reason for each component.  In short: the startup audit keeps
one reading and changes nothing afterwards; service registration is single calls whose
state is the system's; screens, command line readers, studies and scripts draw, print or
measure.  Partly modelled: the SMC reader (its result, not the IOKit transfer), the
XPC listener (one owner per connection; code signing is the system's), the client
bridge and the validation of replies (the supervisor requests and the identity of a
run; the other requests are one exchange without state), monitoring (as the source of
readings: one mutex serialises it).

## Plan

1. The type invariants of `TrialRuns` and `TrialSupervised` as theorems.
2. A composition of `ProbeDaemon` with the journal, so that cleanup and resume are
   admitted by the marker instead of by choice.

## Running

    tlc -workers 2 -config LeaseJournal.cfg MCLeaseJournal
    for m in *Proofs.tla; do tlapm $m; done

`WorkerSupervisorProofs` and `TrialRunsProofs` take about three minutes each,
`TrialSupervisedProofs` and `ProbeDaemonProofs` two, the others seconds to a minute.
