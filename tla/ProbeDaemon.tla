---------------------------- MODULE ProbeDaemon ----------------------------
(***************************************************************************)
(* The root daemon's side of the supervisor probe: the controller          *)
(* (SupervisorProbeController.m), the owner object of every XPC connection *)
(* (SupervisorProbeOwner.m), and of the runner it launches what the daemon *)
(* depends on: the ownership pipe (SupervisorRunnerLifetime.c), the launch *)
(* lock (SupervisorProbeStorage.c) and the mode dispatch of                *)
(* supervisor-probe.c.  What a runner does with its workers is the subject *)
(* of WorkerSupervisor; here it is one step, "work".                       *)
(*                                                                         *)
(* A request holds the controller's lock from its first test to its reply, *)
(* but a connection may be invalidated, a runner may move and the daemon   *)
(* may die between the steps of a launch.                                  *)
(***************************************************************************)
EXTENDS Naturals, FiniteSets

CONSTANTS
  Clients,     \* owner objects, one per connection, reused after it is gone
  Pids,        \* process ids of runners
  Inodes,      \* how many launch lock files may be created, 1..n
  MayFail,     \* may staging and launching fail for reasons of their own?
  MaxFaults    \* bound on deaths of the daemon

ASSUME DaemonAssumption ==
  /\ IsFiniteSet(Pids) /\ "none" \notin Pids /\ Inodes \subseteq Nat \ {0}
  /\ MayFail \in BOOLEAN /\ MaxFaults \in Nat

VARIABLES
  ctl,        \* the controller: _state, _reason, _task, _owner, _runnerPID
  call,       \* the request that holds the controller's lock
  owner,      \* owner[c]: the owner object of connection c
  proc,       \* proc[p]: the runner with pid p
  lingering,  \* inodes of launch locks held only by workers of ended runners
  lockFile,   \* inode named probe-launch-v1, 0 when there is none
  staging,    \* supervisor-executable.next exists
  executable, \* supervisor-executable-v1 exists
  faults      \* deaths of the daemon so far

files == <<lockFile, staging, executable>>
vars  == <<ctl, call, owner, proc, lingering, files, faults>>

-----------------------------------------------------------------------------
None == "none"

Modes == {"run", "cleanup", "crash", "resume"}

\* "permission" needs a daemon that is not root and "output" a report above 4096
\* bytes; neither happens with this daemon and this runner.
Controller ==
  [state : {"idle", "running", "failed", "cleaned", "finished", "interrupted"},
   reason : {None, "signature", "launch", "exit", "contract", "owner_lost"},
   task : Pids \cup {None}, owner : Clients \cup {None}, runnerPID : Pids \cup {None}]

IdleController ==
  [state |-> "idle", reason |-> None, task |-> None, owner |-> None, runnerPID |-> None]

Call == [client : Clients \cup {None}, mode : Modes \cup {None},
         step : {None, "stage", "copy", "channel", "launch"}]

NoCall == [client |-> None, mode |-> None, step |-> None]

Owner == [lost : BOOLEAN, writer : BOOLEAN]

NewOwner == [lost |-> FALSE, writer |-> FALSE]

\* stdin is the client whose pipe the runner reads, or "eof" once it is closed.
Runner ==
  [pc : {"free", "enter", "open", "flock", "check", "work", "staged", "unlink",
         "rmdir", "exited"},
   mode : Modes \cup {None}, stdin : Clients \cup {None, "eof"}, child : BOOLEAN,
   fd : Inodes \cup {0}, flocked : BOOLEAN,
   outcome : {None, "report", "bad_report", "cleaned", "error", "crash"}]

NoRunner ==
  [pc |-> "free", mode |-> None, stdin |-> None, child |-> FALSE, fd |-> 0,
   flocked |-> FALSE, outcome |-> None]

Init ==
  /\ ctl = IdleController
  /\ call = NoCall
  /\ owner = [c \in Clients |-> NewOwner]
  /\ proc = [p \in Pids |-> NoRunner]
  /\ lingering = {}
  /\ lockFile = 0 /\ staging = FALSE /\ executable = FALSE
  /\ faults = 0

-----------------------------------------------------------------------------
(* Owners.                                                                 *)

\* releaseChannel: the runner at the other end reads end of file.
Closed(P, c) == [p \in Pids |-> IF P[p].stdin = c THEN [P[p] EXCEPT !.stdin = "eof"] ELSE P[p]]

Released(O, c) == [O EXCEPT ![c].writer = FALSE]

\* A connection after a lost one gets an owner object of its own.
Connect(c) ==
  /\ owner[c].lost /\ ctl.owner # c /\ call.client # c
  /\ owner' = [owner EXCEPT ![c] = NewOwner]
  /\ UNCHANGED <<ctl, call, proc, lingering, files, faults>>

\* invalidate, on interruption or invalidation of the connection.
Disconnect(c) ==
  /\ ~owner[c].lost
  /\ owner' = [owner EXCEPT ![c] = [lost |-> TRUE, writer |-> FALSE]]
  /\ proc' = Closed(proc, c)
  /\ UNCHANGED <<ctl, call, lingering, files, faults>>

-----------------------------------------------------------------------------
(* Requests.  One that is refused changes nothing: another owner's while a *)
(* task exists is "busy", the others return the present status.            *)

\* Mutant: the request does not look at the task.
Admitted_without_task(mode) ==
  mode \in {"run", "crash"} => ctl.state \in {"idle", "cleaned"}

Admitted(mode) ==
  /\ ctl.task = None
  /\ mode \in {"run", "crash"} => ctl.state \in {"idle", "cleaned"}

Failed(reason) == [IdleController EXCEPT !.state = "failed", !.reason = reason]

\* launchLocked up to the owner test; the earlier result is forgotten first.
Request(c, mode) ==
  /\ call = NoCall
  /\ Admitted(mode)
  /\ IF owner[c].lost
       THEN ctl' = Failed("owner_lost") /\ UNCHANGED call
       ELSE /\ ctl' = [ctl EXCEPT !.reason = None, !.runnerPID = None]
            /\ call' = [client |-> c, mode |-> mode, step |-> "stage"]
  /\ UNCHANGED <<owner, proc, lingering, files, faults>>

LaunchFails(reason) == ctl' = Failed(reason) /\ call' = NoCall

Continue(step) == call' = [call EXCEPT !.step = step] /\ UNCHANGED ctl

InCall(step) == call.step = step

\* stageRunner up to the O_EXCL open; a file that exists already is not removed.
StageCreate(ok) ==
  /\ InCall("stage")
  /\ ok \/ MayFail
  /\ IF staging \/ ~ok THEN LaunchFails("signature") /\ UNCHANGED staging
     ELSE staging' = TRUE /\ Continue("copy")
  /\ UNCHANGED <<owner, proc, lingering, lockFile, executable, faults>>

\* The copy is verified and renamed; a failure removes it, unless it came after
\* the rename.  A cleanup left by an earlier daemon may have removed it first.
StageFinish(ok) ==
  /\ InCall("copy")
  /\ ok \/ MayFail
  /\ staging' = FALSE
  /\ IF ok /\ staging THEN executable' = TRUE /\ Continue("channel")
     ELSE LaunchFails("signature") /\ executable' \in {executable, executable \/ staging}
  /\ UNCHANGED <<owner, proc, lingering, lockFile, faults>>

OpenChannel ==
  LET c == call.client
  IN  /\ InCall("channel")
      /\ IF owner[c].lost \/ owner[c].writer
           THEN LaunchFails("owner_lost") /\ UNCHANGED owner
           ELSE Continue("launch") /\ owner' = [owner EXCEPT ![c].writer = TRUE]
      /\ UNCHANGED <<proc, lingering, files, faults>>

\* A connection lost since openChannel leaves the queued grant in a closed pipe.
LaunchTask(p) ==
  LET c == call.client
  IN  /\ InCall("launch") /\ executable
      /\ proc[p].pc = "free"
      /\ proc' = [proc EXCEPT ![p] = [NoRunner EXCEPT
                    !.pc = "enter", !.mode = call.mode, !.child = TRUE,
                    !.stdin = IF owner[c].writer THEN c ELSE "eof"]]
      /\ ctl' = [ctl EXCEPT !.state = "running", !.task = p, !.owner = c, !.runnerPID = p]
      /\ call' = NoCall
      /\ UNCHANGED <<owner, lingering, files, faults>>

LaunchTaskFails ==
  /\ InCall("launch") /\ (MayFail \/ ~executable)
  /\ owner' = Released(owner, call.client)
  /\ LaunchFails("launch")
  /\ UNCHANGED <<proc, lingering, files, faults>>

\* What the completion block makes of the exit and the output of its runner.
Verdict(outcome, mode, pidMatches) ==
  IF outcome = "crash" /\ mode = "crash" /\ pidMatches THEN [state |-> "interrupted", reason |-> None]
  ELSE IF outcome \in {"crash", "error"} THEN [state |-> "failed", reason |-> "exit"]
  ELSE IF outcome = "cleaned" /\ mode = "cleanup" THEN [state |-> "cleaned", reason |-> None]
  ELSE IF outcome = "report" /\ mode # "cleanup" /\ pidMatches THEN [state |-> "finished", reason |-> None]
  ELSE [state |-> "failed", reason |-> "contract"]

\* Mutant: the owner is not asked before the result is taken.
Judged_without_owner(p) == Verdict(proc[p].outcome, proc[p].mode, ctl.runnerPID = p)

\* The completion block's test of the owner, then of the result.
Judged(p) ==
  IF owner[ctl.owner].lost THEN [state |-> "failed", reason |-> "owner_lost"]
  ELSE Verdict(proc[p].outcome, proc[p].mode, ctl.runnerPID = p)

\* The completion block: it waits for the end of the output and of the task, then
\* takes the controller's lock.
Complete(p) ==
  /\ call = NoCall
  /\ proc[p].pc = "exited" /\ proc[p].child
  /\ ctl' = [ctl EXCEPT !.state = Judged(p).state, !.reason = Judged(p).reason,
                        !.task = None, !.owner = None]
  /\ owner' = Released(owner, ctl.owner)
  /\ proc' = [proc EXCEPT ![p] = NoRunner]
  /\ UNCHANGED <<call, lingering, files, faults>>

-----------------------------------------------------------------------------
(* The runner.                                                             *)

Goto(p, pc) == proc' = [proc EXCEPT ![p].pc = pc]

\* The exit of a process closes its descriptors: the lock stays with its workers.
Exited(P, p, outcome) ==
  [P EXCEPT ![p].pc = "exited", ![p].outcome = outcome, ![p].fd = 0, ![p].flocked = FALSE]

RunnerExit(p, outcome) == proc' = Exited(proc, p, outcome) /\ UNCHANGED lingering

\* Mutant: end of file after the grant does not end the runner.
OwnerGone_never(p) == FALSE

\* supervisor_runner_lifetime_check: end of file means _exit(125).
OwnerGone(p) == proc[p].stdin = "eof"

\* supervisor_runner_lifetime_enter.
Enter(p) ==
  /\ proc[p].pc = "enter"
  /\ IF OwnerGone(p) THEN RunnerExit(p, "error") ELSE Goto(p, "open") /\ UNCHANGED lingering
  /\ UNCHANGED <<ctl, call, owner, files, faults>>

\* supervisor_probe_lock: the open creates the file when there is none.
LockOpen(p) ==
  /\ proc[p].pc = "open"
  /\ \E i \in Inodes :
       /\ lockFile # 0 => i = lockFile
       /\ \A q \in Pids : lockFile = 0 => proc[q].fd # i
       /\ lockFile = 0 => i \notin lingering
       /\ lockFile' = i
       /\ proc' = [proc EXCEPT ![p].pc = "flock", ![p].fd = i]
  /\ UNCHANGED <<ctl, call, owner, lingering, staging, executable, faults>>

\* The directory was removed under the runner, or the file is not private.
LockOpenFails(p) ==
  /\ proc[p].pc = "open" /\ MayFail
  /\ RunnerExit(p, "error")
  /\ UNCHANGED <<ctl, call, owner, files, faults>>

\* Mutant: only the locks of living runners count.
LockHeld_by_runners(p) == \E q \in Pids \ {p} : proc[q].flocked /\ proc[q].fd = proc[p].fd

\* flock is refused while a runner, or a worker that inherited its descriptor,
\* holds the same file.
LockHeld(p) ==
  \/ \E q \in Pids \ {p} : proc[q].flocked /\ proc[q].fd = proc[p].fd
  \/ proc[p].fd \in lingering

LockFlock(p) ==
  /\ proc[p].pc = "flock"
  /\ IF LockHeld(p) THEN RunnerExit(p, "error")
     ELSE proc' = [proc EXCEPT ![p].pc = "check", ![p].flocked = TRUE] /\ UNCHANGED lingering
  /\ UNCHANGED <<ctl, call, owner, files, faults>>

\* The locked file must still be the one the name leads to.  A cleanup asks for
\* its owner once, here.
LockCheck(p) ==
  /\ proc[p].pc = "check"
  /\ IF proc[p].fd # lockFile \/ (proc[p].mode = "cleanup" /\ OwnerGone(p))
       THEN RunnerExit(p, "error")
       ELSE Goto(p, "work") /\ UNCHANGED lingering
  /\ UNCHANGED <<ctl, call, owner, files, faults>>

Results(mode) == {"report", "bad_report"} \cup (IF mode = "crash" THEN {"crash"} ELSE {})

\* The end of a probe, with or without a worker left behind: its report, or the
\* signal it sends itself in crash mode.
Probe(p, outcome, left) ==
  /\ proc[p].pc = "work" /\ proc[p].mode # "cleanup"
  /\ outcome \in Results(proc[p].mode)
  /\ proc' = Exited(proc, p, outcome)
  /\ lingering' = IF left THEN lingering \cup {proc[p].fd} ELSE lingering
  /\ UNCHANGED <<ctl, call, owner, files, faults>>

\* parent_check anywhere in a probe; the workers follow when they see their
\* socket closed.
OwnerLost(p, left) ==
  /\ proc[p].pc = "work" /\ proc[p].mode # "cleanup"
  /\ OwnerGone(p)
  /\ proc' = Exited(proc, p, "error")
  /\ lingering' = IF left THEN lingering \cup {proc[p].fd} ELSE lingering
  /\ UNCHANGED <<ctl, call, owner, files, faults>>

WorkersGone(i) ==
  /\ i \in lingering
  /\ lingering' = lingering \ {i}
  /\ UNCHANGED <<ctl, call, owner, proc, files, faults>>

\* supervisor_probe_cleanup: the ownership guard, then the files in their order.
CleanupRefused(p) ==
  /\ proc[p].pc = "work" /\ proc[p].mode = "cleanup"
  /\ RunnerExit(p, "error")
  /\ UNCHANGED <<ctl, call, owner, files, faults>>

CleanupExecutable(p) ==
  /\ proc[p].pc = "work" /\ proc[p].mode = "cleanup"
  /\ executable' = FALSE
  /\ Goto(p, "staged")
  /\ UNCHANGED <<ctl, call, owner, lingering, lockFile, staging, faults>>

CleanupStaging(p) ==
  /\ proc[p].pc = "staged"
  /\ staging' = FALSE
  /\ Goto(p, "unlink")
  /\ UNCHANGED <<ctl, call, owner, lingering, lockFile, executable, faults>>

\* The lock is still held on the file whose name goes.
UnlinkLock(p) ==
  /\ proc[p].pc = "unlink"
  /\ lockFile' = 0
  /\ Goto(p, "rmdir")
  /\ UNCHANGED <<ctl, call, owner, lingering, staging, executable, faults>>

\* rmdir succeeds on an empty directory only.
RemoveDirectory(p) ==
  /\ proc[p].pc = "rmdir"
  /\ RunnerExit(p, IF staging \/ executable \/ lockFile # 0 THEN "error" ELSE "cleaned")
  /\ UNCHANGED <<ctl, call, owner, files, faults>>

-----------------------------------------------------------------------------
(* The daemon dies and launchd starts it again: its pipes close, its       *)
(* runners are no longer anybody's task, and nothing is remembered.        *)

DaemonDies ==
  /\ faults < MaxFaults
  /\ faults' = faults + 1
  /\ ctl' = IdleController /\ call' = NoCall
  /\ owner' = [c \in Clients |-> NewOwner]
  /\ proc' = [p \in Pids |-> IF proc[p].pc = "free" THEN proc[p]
                             ELSE [proc[p] EXCEPT !.stdin = "eof", !.child = FALSE]]
  /\ UNCHANGED <<lingering, files>>

\* launchd collects the runners of a dead daemon.
ReapOrphan(p) ==
  /\ proc[p].pc = "exited" /\ ~proc[p].child
  /\ proc' = [proc EXCEPT ![p] = NoRunner]
  /\ UNCHANGED <<ctl, call, owner, lingering, files, faults>>

-----------------------------------------------------------------------------
CallStep ==
  \/ \E ok \in BOOLEAN : StageCreate(ok) \/ StageFinish(ok)
  \/ OpenChannel
  \/ \E p \in Pids : LaunchTask(p)
  \/ LaunchTaskFails

RunnerStep(p) ==
  \/ Enter(p) \/ LockOpen(p) \/ LockOpenFails(p) \/ LockFlock(p) \/ LockCheck(p)
  \/ \E o \in Results(proc[p].mode), left \in BOOLEAN : Probe(p, o, left)
  \/ \E left \in BOOLEAN : OwnerLost(p, left)
  \/ CleanupRefused(p) \/ CleanupExecutable(p) \/ CleanupStaging(p)
  \/ UnlinkLock(p) \/ RemoveDirectory(p)

Next ==
  \/ \E c \in Clients : Connect(c) \/ Disconnect(c)
  \/ \E c \in Clients, mode \in Modes : Request(c, mode)
  \/ CallStep
  \/ \E p \in Pids : RunnerStep(p) \/ Complete(p) \/ ReapOrphan(p)
  \/ \E i \in Inodes : WorkersGone(i)
  \/ DaemonDies

Spec == Init /\ [][Next]_vars

\* The thread that holds a request goes on, the completion block of an ended
\* task runs, and launchd reaps.  A probe whose owner is alive may take as long
\* as it likes; one whose owner is gone is bound to meet parent_check.
Fairness ==
  /\ WF_vars(CallStep)
  /\ \A p \in Pids :
       /\ WF_vars(Enter(p)) /\ WF_vars(LockOpen(p)) /\ WF_vars(LockFlock(p))
       /\ WF_vars(LockCheck(p))
       /\ WF_vars(\E left \in BOOLEAN : OwnerLost(p, left))
       /\ WF_vars(CleanupRefused(p) \/ CleanupExecutable(p) \/ CleanupStaging(p)
                   \/ UnlinkLock(p) \/ RemoveDirectory(p))
       /\ WF_vars(Complete(p)) /\ WF_vars(ReapOrphan(p))

FairSpec == Spec /\ Fairness

-----------------------------------------------------------------------------
(* Properties.                                                             *)

\* The type invariant: every variable holds a value of the code's type.
TypeOK ==
  /\ ctl \in Controller
  /\ call \in Call
  /\ owner \in [Clients -> Owner]
  /\ proc \in [Pids -> Runner]
  /\ lingering \subseteq Inodes
  /\ lockFile \in Inodes \cup {0} /\ staging \in BOOLEAN /\ executable \in BOOLEAN
  /\ faults \in 0..MaxFaults

\* The launch lock allows one probe at a time, the workers a dead runner left
\* behind included (supervisor_probe_lock), although a cleanup removes the file
\* that carries the lock and the daemon that would refuse a second task may have
\* died in between.
AtMostOneProbe ==
  Cardinality({p \in Pids : proc[p].pc \in {"work", "staged", "unlink"}})
    + Cardinality(lingering) <= 1

\* While a runner is the daemon's child it is the controller's one task, and the
\* pipe that keeps it alive is the one of the connection that asked for it: no
\* other client's request or invalidation reaches it (launchLocked, openChannel).
RunnerHasItsOwner ==
  \A p \in Pids : proc[p].child =>
    /\ ctl.task = p /\ ctl.state = "running" /\ ctl.owner \in Clients
    /\ IF owner[ctl.owner].lost THEN proc[p].stdin = "eof" ELSE proc[p].stdin = ctl.owner

\* A result is taken only from a runner whose pipe stayed open from the grant to
\* the completion block: a client lost on the way never turns into a success.
SuccessWasOwned ==
  [][ctl.task # None /\ ctl'.task = None /\ ctl'.state \in {"finished", "cleaned", "interrupted"}
       => proc[ctl.task].stdin = ctl.owner]_vars

\* A runner whose owner or whose daemon is gone ends and is collected, whatever it
\* was doing (supervisor_runner_lifetime_check), and no launch hangs.
AbandonedEnds ==
  /\ \A p \in Pids : proc[p].stdin = "eof" ~> proc[p].pc = "free"
  /\ call # NoCall ~> call = NoCall

\* A cleanup that no other process disturbs is staged and launched: a daemon that
\* died earlier leaves nothing that refuses it (stageRunner, SupervisorProbeStorage.c
\* removes supervisor-executable.next).
CleanupIsStaged ==
  [][InCall("stage") /\ call.mode = "cleanup" /\ (\A p \in Pids : proc[p].pc = "free")
       => ctl'.reason # "signature"]_vars
============================================================================
