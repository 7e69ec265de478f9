------------------------- MODULE ProbeDaemonProofs -------------------------
(***************************************************************************)
(* Proofs about ProbeDaemon for any number of connections, runners, lock   *)
(* files and deaths of the daemon, and about HelperClient on top of them,  *)
(* for any number of polls.  The daemon's theorems are about its own Spec. *)
(***************************************************************************)
EXTENDS HelperClient, FiniteSetTheorems, TLAPS

-----------------------------------------------------------------------------
(* The inductive invariant.                                                *)

\* The request that holds the controller's lock has found no task, and none comes
\* up before it is over.
CallIsAlone ==
  \/ call = NoCall
  \/ /\ call.client \in Clients /\ call.mode \in Modes
     /\ call.step \in {"stage", "copy", "channel", "launch"}
     /\ ctl.task = None

\* A lost connection has no writer, and between openChannel and the launch only the
\* loss of the connection takes the writer away.
WriterIsKept ==
  /\ \A c \in Clients : owner[c].writer => ~owner[c].lost
  /\ call.step = "launch" => (owner[call.client].writer <=> ~owner[call.client].lost)

\* A pid that is free is nobody's child.
FreeIsNobody == \A p \in Pids : proc[p].pc = "free" => ~proc[p].child

\* A runner has the lock from flock to its end, and the file open from open to its end.
Locking == {"check", "work", "staged", "unlink", "rmdir"}
LockIsHeld ==
  \A p \in Pids :
    /\ proc[p].flocked <=> proc[p].pc \in Locking
    /\ proc[p].fd # 0 <=> proc[p].pc \in Locking \cup {"flock"}

\* No two hold a lock on one file, workers left behind included.
LockIsExclusive ==
  \A p \in Pids : proc[p].flocked =>
    /\ proc[p].fd \notin lingering
    /\ \A q \in Pids : proc[q].flocked /\ proc[q].fd = proc[p].fd => p = q

\* Whoever passed the comparison with the name has the file of that name until
\* it removes the name itself, and so have the workers it left.
Inside == {"work", "staged", "unlink"}
InsideIsNamed ==
  /\ \A p \in Pids : proc[p].pc \in Inside => proc[p].fd = lockFile
  /\ lingering \subseteq {lockFile}

OwnerInv == TypeOK /\ CallIsAlone /\ WriterIsKept /\ FreeIsNobody /\ RunnerHasItsOwner

LockInv == LockIsHeld /\ LockIsExclusive /\ InsideIsNamed

-----------------------------------------------------------------------------
(* Types.                                                                  *)

\* The values the daemon resets its variables to have their types.
LEMMA ResetTypes ==
  /\ IdleController \in Controller
  /\ NoCall \in Call
  /\ NewOwner \in Owner
  /\ NoRunner \in Runner
  /\ \A reason \in {"signature", "launch", "exit", "contract", "owner_lost"} :
       Failed(reason) \in Controller /\ Failed(reason).task = None
<1>1. NoRunner \in Runner BY Zenon DEF NoRunner, Runner, None
<1> QED
  BY <1>1 DEF IdleController, Controller, NoCall, Call, NewOwner, Owner, Failed, None

\* A runner's record after a change of one of its fields.
LEMMA RunnerTypes ==
  ASSUME NEW R \in Runner
  PROVE  /\ \A pc \in {"free", "enter", "open", "flock", "check", "work", "staged", "unlink",
                       "rmdir", "exited"} :
              /\ [R EXCEPT !.pc = pc] \in Runner
              /\ \A i \in Inodes : [R EXCEPT !.pc = pc, !.fd = i] \in Runner
              /\ [R EXCEPT !.pc = pc, !.flocked = TRUE] \in Runner
         /\ \A o \in {"report", "bad_report", "cleaned", "error", "crash"} :
              [R EXCEPT !.pc = "exited", !.outcome = o, !.fd = 0, !.flocked = FALSE] \in Runner
         /\ [R EXCEPT !.stdin = "eof"] \in Runner
         /\ [R EXCEPT !.stdin = "eof", !.child = FALSE] \in Runner
<1> DEFINE Pcs == {"free", "enter", "open", "flock", "check", "work", "staged", "unlink",
                   "rmdir", "exited"}
<1>1. \A pc \in Pcs : [R EXCEPT !.pc = pc] \in Runner BY DEF Runner
<1>2. \A pc \in Pcs, i \in Inodes : [R EXCEPT !.pc = pc, !.fd = i] \in Runner BY DEF Runner
<1>3. \A pc \in Pcs : [R EXCEPT !.pc = pc, !.flocked = TRUE] \in Runner BY DEF Runner
<1>4. \A o \in {"report", "bad_report", "cleaned", "error", "crash"} :
         [R EXCEPT !.pc = "exited", !.outcome = o, !.fd = 0, !.flocked = FALSE] \in Runner
  BY DEF Runner
<1>5. [R EXCEPT !.stdin = "eof"] \in Runner BY DEF Runner
<1>6. [R EXCEPT !.stdin = "eof", !.child = FALSE] \in Runner BY DEF Runner
<1> QED BY <1>1, <1>2, <1>3, <1>4, <1>5, <1>6

\* The verdicts are states and reasons of the controller.
LEMMA VerdictTypes ==
  ASSUME NEW o, NEW mode, NEW b \in BOOLEAN
  PROVE  /\ Verdict(o, mode, b).state \in {"failed", "cleaned", "finished", "interrupted"}
         /\ Verdict(o, mode, b).reason \in {None, "exit", "contract"}
BY DEF Verdict, None

\* The start.
LEMMA InitTypes == Init => TypeOK
<1> SUFFICES ASSUME Init PROVE TypeOK OBVIOUS
<1>1. faults \in 0..MaxFaults BY DaemonAssumption DEF Init
<1> QED BY <1>1, ResetTypes DEF Init, TypeOK

\* What a step of a runner changes: its own place, outcome and lock, and the files.
LEMMA RunnerStepShape ==
  ASSUME TypeOK, LockIsHeld, NEW p \in Pids, RunnerStep(p)
  PROVE  /\ UNCHANGED <<ctl, call, owner, faults>>
         /\ proc' \in [Pids -> Runner]
         /\ \A q \in Pids : q # p => proc'[q] = proc[q]
         /\ proc[p].pc # "free" /\ proc'[p].pc # "free"
         /\ proc'[p].child = proc[p].child /\ proc'[p].stdin = proc[p].stdin
         /\ lingering' \subseteq Inodes
         /\ lockFile' \in Inodes \cup {0} /\ staging' \in BOOLEAN /\ executable' \in BOOLEAN
<1>1. proc \in [Pids -> Runner] /\ proc[p] \in Runner BY DEF TypeOK
<1>2. PICK R \in Runner :
        /\ proc' = [proc EXCEPT ![p] = R]
        /\ proc[p].pc # "free" /\ R.pc # "free"
        /\ R.child = proc[p].child /\ R.stdin = proc[p].stdin
  <2>1. ASSUME NEW o \in {"report", "bad_report", "cleaned", "error", "crash"},
               proc' = Exited(proc, p, o), proc[p].pc # "free"
        PROVE  \E R \in Runner :
                 /\ proc' = [proc EXCEPT ![p] = R]
                 /\ proc[p].pc # "free" /\ R.pc # "free"
                 /\ R.child = proc[p].child /\ R.stdin = proc[p].stdin
    <3> DEFINE R == [proc[p] EXCEPT !.pc = "exited", !.outcome = o, !.fd = 0, !.flocked = FALSE]
    <3>1. R \in Runner BY <1>1, RunnerTypes
    <3>2. proc' = [proc EXCEPT ![p] = R] BY <2>1, <1>1 DEF Exited
    <3>3. R.pc # "free" /\ R.child = proc[p].child /\ R.stdin = proc[p].stdin
      BY <1>1 DEF Runner
    <3> HIDE DEF R
    <3> QED BY <3>1, <3>2, <3>3, <2>1
  <2>2. ASSUME NEW pc \in {"enter", "open", "flock", "check", "work", "staged", "unlink", "rmdir"},
               \/ Goto(p, pc)
               \/ \E i \in Inodes : proc' = [proc EXCEPT ![p].pc = pc, ![p].fd = i]
               \/ proc' = [proc EXCEPT ![p].pc = pc, ![p].flocked = TRUE],
               proc[p].pc # "free"
        PROVE  \E R \in Runner :
                 /\ proc' = [proc EXCEPT ![p] = R]
                 /\ proc[p].pc # "free" /\ R.pc # "free"
                 /\ R.child = proc[p].child /\ R.stdin = proc[p].stdin
    <3>1. CASE Goto(p, pc)
      <4> DEFINE R == [proc[p] EXCEPT !.pc = pc]
      <4>1. R \in Runner BY <1>1, RunnerTypes
      <4>2. proc' = [proc EXCEPT ![p] = R] BY <3>1, <1>1 DEF Goto
      <4>3. R.pc # "free" /\ R.child = proc[p].child /\ R.stdin = proc[p].stdin
        BY <1>1 DEF Runner
      <4> HIDE DEF R
      <4> QED BY <4>1, <4>2, <4>3, <2>2
    <3>2. ASSUME NEW i \in Inodes, proc' = [proc EXCEPT ![p].pc = pc, ![p].fd = i]
          PROVE  \E R \in Runner :
                   /\ proc' = [proc EXCEPT ![p] = R]
                   /\ proc[p].pc # "free" /\ R.pc # "free"
                   /\ R.child = proc[p].child /\ R.stdin = proc[p].stdin
      <4> DEFINE R == [proc[p] EXCEPT !.pc = pc, !.fd = i]
      <4>1. R \in Runner BY <1>1, RunnerTypes
      <4>2. proc' = [proc EXCEPT ![p] = R] BY <3>2, <1>1
      <4>3. R.pc # "free" /\ R.child = proc[p].child /\ R.stdin = proc[p].stdin
        BY <1>1 DEF Runner
      <4> HIDE DEF R
      <4> QED BY <4>1, <4>2, <4>3, <2>2
    <3>3. CASE proc' = [proc EXCEPT ![p].pc = pc, ![p].flocked = TRUE]
      <4> DEFINE R == [proc[p] EXCEPT !.pc = pc, !.flocked = TRUE]
      <4>1. R \in Runner BY <1>1, RunnerTypes
      <4>2. proc' = [proc EXCEPT ![p] = R] BY <3>3, <1>1
      <4>3. R.pc # "free" /\ R.child = proc[p].child /\ R.stdin = proc[p].stdin
        BY <1>1 DEF Runner
      <4> HIDE DEF R
      <4> QED BY <4>1, <4>2, <4>3, <2>2
    <3> QED BY <2>2, <3>1, <3>2, <3>3
  <2>3. CASE Enter(p) BY <2>3, <2>1, <2>2 DEF Enter, RunnerExit
  <2>4. CASE LockOpen(p) BY <2>4, <2>2 DEF LockOpen
  <2>5. CASE LockOpenFails(p) BY <2>5, <2>1 DEF LockOpenFails, RunnerExit
  <2>6. CASE LockFlock(p) BY <2>6, <2>1, <2>2 DEF LockFlock, RunnerExit
  <2>7. CASE LockCheck(p) BY <2>7, <2>1, <2>2 DEF LockCheck, RunnerExit
  <2>8. ASSUME NEW o \in Results(proc[p].mode), NEW left \in BOOLEAN, Probe(p, o, left)
        PROVE  \E R \in Runner :
                 /\ proc' = [proc EXCEPT ![p] = R]
                 /\ proc[p].pc # "free" /\ R.pc # "free"
                 /\ R.child = proc[p].child /\ R.stdin = proc[p].stdin
    BY <2>8, <2>1 DEF Probe, Results
  <2>9. ASSUME NEW left \in BOOLEAN, OwnerLost(p, left)
        PROVE  \E R \in Runner :
                 /\ proc' = [proc EXCEPT ![p] = R]
                 /\ proc[p].pc # "free" /\ R.pc # "free"
                 /\ R.child = proc[p].child /\ R.stdin = proc[p].stdin
    BY <2>9, <2>1 DEF OwnerLost
  <2>10. CASE CleanupRefused(p) \/ RemoveDirectory(p)
    BY <2>10, <2>1 DEF CleanupRefused, RemoveDirectory, RunnerExit
  <2>11. CASE CleanupExecutable(p) \/ CleanupStaging(p) \/ UnlinkLock(p)
    BY <2>11, <2>2 DEF CleanupExecutable, CleanupStaging, UnlinkLock
  <2> QED
    BY <2>3, <2>4, <2>5, <2>6, <2>7, <2>8, <2>9, <2>10, <2>11 DEF RunnerStep
<1>3. UNCHANGED <<ctl, call, owner, faults>>
  BY DEF RunnerStep, Enter, LockOpen, LockOpenFails, LockFlock, LockCheck, Probe, OwnerLost,
         CleanupRefused, CleanupExecutable, CleanupStaging, UnlinkLock, RemoveDirectory
<1>4. lockFile' \in Inodes \cup {0} /\ staging' \in BOOLEAN /\ executable' \in BOOLEAN
  BY DEF TypeOK, RunnerStep, Enter, LockOpen, LockOpenFails, LockFlock, LockCheck, Probe,
         OwnerLost, CleanupRefused, CleanupExecutable, CleanupStaging, UnlinkLock,
         RemoveDirectory, files
<1>5. lingering' \subseteq Inodes
  <2>1. proc[p].pc = "work" => proc[p].fd \in Inodes
    BY <1>1 DEF LockIsHeld, Locking, Runner
  <2> QED
    BY <2>1 DEF TypeOK, RunnerStep, Enter, LockOpen, LockOpenFails, LockFlock, LockCheck, Probe,
         OwnerLost, CleanupRefused, CleanupExecutable, CleanupStaging, UnlinkLock,
         RemoveDirectory, RunnerExit
<1> QED BY <1>1, <1>2, <1>3, <1>4, <1>5

-----------------------------------------------------------------------------
(* The owner of a runner.                                                  *)

\* A fresh daemon.
LEMMA InitOwner == Init => OwnerInv
<1> SUFFICES ASSUME Init PROVE OwnerInv OBVIOUS
<1> QED
  BY InitTypes DEF Init, OwnerInv, CallIsAlone, WriterIsKept, FreeIsNobody, RunnerHasItsOwner,
                   NoRunner, NewOwner, NoCall, None

\* A runner's step leaves the ownership alone.
LEMMA RunnerOwner ==
  ASSUME OwnerInv, LockIsHeld, NEW p \in Pids, RunnerStep(p)
  PROVE  OwnerInv'
<1>1. TypeOK BY DEF OwnerInv
<1>2. TypeOK' BY <1>1, RunnerStepShape DEF TypeOK
<1>3. CallIsAlone' /\ WriterIsKept'
  BY <1>1, RunnerStepShape DEF OwnerInv, CallIsAlone, WriterIsKept
<1>4. FreeIsNobody' BY <1>1, RunnerStepShape DEF OwnerInv, FreeIsNobody
<1>5. RunnerHasItsOwner' BY <1>1, RunnerStepShape DEF OwnerInv, RunnerHasItsOwner
<1> QED BY <1>2, <1>3, <1>4, <1>5 DEF OwnerInv

\* A new connection has an owner object of its own, which no runner and no request uses.
LEMMA ConnectOwner ==
  ASSUME OwnerInv, NEW c \in Clients, Connect(c)
  PROVE  OwnerInv'
<1>1. TypeOK' BY ResetTypes DEF OwnerInv, TypeOK, Connect, files
<1>2. /\ owner'[c] = NewOwner /\ \A d \in Clients : d # c => owner'[d] = owner[d]
      /\ UNCHANGED <<ctl, call, proc>> /\ ctl.owner # c /\ call.client # c
  BY DEF OwnerInv, TypeOK, Connect
<1>3. CallIsAlone' BY <1>2 DEF OwnerInv, CallIsAlone
<1>4. WriterIsKept'
  BY <1>2 DEF OwnerInv, CallIsAlone, WriterIsKept, NewOwner, NoCall, None
<1>5. FreeIsNobody' BY <1>2 DEF OwnerInv, FreeIsNobody
<1>6. RunnerHasItsOwner' BY <1>2 DEF OwnerInv, RunnerHasItsOwner
<1> QED BY <1>1, <1>3, <1>4, <1>5, <1>6 DEF OwnerInv

\* The loss of a connection closes the pipe of its runner and of no other.
LEMMA DisconnectOwner ==
  ASSUME OwnerInv, NEW c \in Clients, Disconnect(c)
  PROVE  OwnerInv'
<1>1. /\ proc \in [Pids -> Runner] /\ owner \in [Clients -> Owner]
      /\ UNCHANGED <<ctl, call, lingering, files, faults>>
  BY DEF OwnerInv, TypeOK, Disconnect
<1>2. /\ owner'[c] = [lost |-> TRUE, writer |-> FALSE] /\ owner' \in [Clients -> Owner]
      /\ \A d \in Clients : d # c => owner'[d] = owner[d]
  BY <1>1 DEF Disconnect, Owner
<1>3. /\ proc' \in [Pids -> Runner]
      /\ \A p \in Pids : /\ proc'[p].pc = proc[p].pc /\ proc'[p].child = proc[p].child
                         /\ proc'[p].stdin = IF proc[p].stdin = c THEN "eof" ELSE proc[p].stdin
  <2> SUFFICES ASSUME NEW p \in Pids
               PROVE  /\ proc'[p] \in Runner
                      /\ proc'[p].pc = proc[p].pc /\ proc'[p].child = proc[p].child
                      /\ proc'[p].stdin = IF proc[p].stdin = c THEN "eof" ELSE proc[p].stdin
    BY DEF Disconnect, Closed
  <2>1. proc[p] \in Runner /\ [proc[p] EXCEPT !.stdin = "eof"] \in Runner
    BY <1>1, RunnerTypes
  <2>2. proc'[p] = IF proc[p].stdin = c THEN [proc[p] EXCEPT !.stdin = "eof"] ELSE proc[p]
    BY DEF Disconnect, Closed
  <2> QED BY <2>1, <2>2 DEF Runner
<1>4. TypeOK' BY <1>1, <1>2, <1>3 DEF OwnerInv, TypeOK, files
<1>5. CallIsAlone' BY <1>1 DEF OwnerInv, CallIsAlone
<1>6. WriterIsKept' BY <1>1, <1>2 DEF OwnerInv, CallIsAlone, WriterIsKept, NoCall, None
<1>7. FreeIsNobody' BY <1>3 DEF OwnerInv, FreeIsNobody
<1>8. RunnerHasItsOwner' BY <1>1, <1>2, <1>3 DEF OwnerInv, RunnerHasItsOwner
<1> QED BY <1>4, <1>5, <1>6, <1>7, <1>8 DEF OwnerInv

\* Without a task nobody is the daemon's child.
LEMMA NoTaskNoChild ==
  ASSUME OwnerInv, ctl.task = None
  PROVE  \A p \in Pids : ~proc[p].child
BY DaemonAssumption DEF OwnerInv, RunnerHasItsOwner, None

\* A request that begins, and one that fails, find no runner and leave none.
LEMMA RequestOwner ==
  ASSUME OwnerInv, NEW c \in Clients, NEW mode \in Modes, Request(c, mode)
  PROVE  OwnerInv'
<1>1. ctl.task = None /\ ctl \in Controller BY DEF Request, Admitted, OwnerInv, TypeOK
<1>2. UNCHANGED <<owner, proc, lingering, files, faults>> BY DEF Request
<1>3. ctl' \in Controller /\ ctl'.task = None
  <2>1. CASE ctl' = Failed("owner_lost") BY <2>1, ResetTypes
  <2>2. CASE ctl' = [ctl EXCEPT !.reason = None, !.runnerPID = None]
    BY <2>2, <1>1 DEF Controller
  <2> QED BY <2>1, <2>2 DEF Request
<1>4. call' \in Call BY DEF Request, OwnerInv, TypeOK, Call
<1>5. TypeOK' BY <1>2, <1>3, <1>4 DEF OwnerInv, TypeOK, files
<1>6. CallIsAlone' /\ WriterIsKept'
  BY <1>2, <1>3 DEF Request, OwnerInv, CallIsAlone, WriterIsKept, NoCall, None
<1>7. FreeIsNobody' /\ RunnerHasItsOwner'
  BY <1>1, <1>2, NoTaskNoChild DEF OwnerInv, FreeIsNobody, RunnerHasItsOwner
<1> QED BY <1>5, <1>6, <1>7 DEF OwnerInv

\* The steps of a launch before the runner exists.
LEMMA StageOwner ==
  ASSUME OwnerInv,
         (\E ok \in BOOLEAN : StageCreate(ok) \/ StageFinish(ok)) \/ OpenChannel \/ LaunchTaskFails
  PROVE  OwnerInv'
<1>1. /\ call \in Call /\ call.client \in Clients /\ call.mode \in Modes /\ ctl.task = None
      /\ ctl \in Controller /\ owner \in [Clients -> Owner] /\ call # NoCall
  BY DEF OwnerInv, TypeOK, CallIsAlone, NoCall, None, StageCreate, StageFinish, OpenChannel,
         LaunchTaskFails, InCall
<1>2. UNCHANGED <<proc, lingering, lockFile, faults>>
  BY DEF StageCreate, StageFinish, OpenChannel, LaunchTaskFails, files
<1>3. staging' \in BOOLEAN /\ executable' \in BOOLEAN
  BY DEF StageCreate, StageFinish, OpenChannel, LaunchTaskFails, files, OwnerInv, TypeOK
<1>4. \/ call' = NoCall /\ \E reason \in {"signature", "launch", "owner_lost"} : ctl' = Failed(reason)
      \/ UNCHANGED ctl /\ \E step \in {"copy", "channel"} :
           call' = [call EXCEPT !.step = step] /\ UNCHANGED owner
      \/ /\ UNCHANGED ctl /\ call' = [call EXCEPT !.step = "launch"]
         /\ ~owner[call.client].lost /\ owner' = [owner EXCEPT ![call.client].writer = TRUE]
  BY DEF StageCreate, StageFinish, OpenChannel, LaunchTaskFails, LaunchFails, Continue
<1>5. \/ UNCHANGED owner
      \/ owner' = Released(owner, call.client)
      \/ ~owner[call.client].lost /\ owner' = [owner EXCEPT ![call.client].writer = TRUE]
  BY DEF StageCreate, StageFinish, OpenChannel, LaunchTaskFails
<1>6. /\ owner' \in [Clients -> Owner]
      /\ \A c \in Clients : owner'[c].lost = owner[c].lost /\ (owner'[c].writer => ~owner'[c].lost)
  <2>1. CASE UNCHANGED owner BY <2>1, <1>1 DEF OwnerInv, WriterIsKept
  <2>2. CASE owner' = Released(owner, call.client)
    BY <2>2, <1>1 DEF OwnerInv, WriterIsKept, Released, Owner
  <2>3. CASE ~owner[call.client].lost /\ owner' = [owner EXCEPT ![call.client].writer = TRUE]
    BY <2>3, <1>1 DEF OwnerInv, WriterIsKept, Owner
  <2> QED BY <2>1, <2>2, <2>3, <1>5
<1>7. ctl' \in Controller /\ ctl'.task = None
  BY <1>1, <1>4, ResetTypes
<1>8. call' \in Call
  BY <1>1, <1>4, ResetTypes DEF Call
<1>9. TypeOK' BY <1>2, <1>3, <1>6, <1>7, <1>8 DEF OwnerInv, TypeOK
<1>10. CallIsAlone' BY <1>1, <1>4, <1>7 DEF CallIsAlone, Call
<1>11. WriterIsKept'
  <2>1. CASE call' = NoCall BY <2>1, <1>6 DEF WriterIsKept, NoCall, None
  <2>2. CASE \E step \in {"copy", "channel"} : call' = [call EXCEPT !.step = step]
    BY <2>2, <1>1, <1>6 DEF WriterIsKept, Call
  <2>3. CASE /\ call' = [call EXCEPT !.step = "launch"]
             /\ ~owner[call.client].lost /\ owner' = [owner EXCEPT ![call.client].writer = TRUE]
    <3>1. call'.client = call.client BY <2>3, <1>1 DEF Call
    <3>2. owner'[call.client].writer /\ ~owner'[call.client].lost
      BY <2>3, <1>1 DEF Owner
    <3> QED BY <3>1, <3>2, <1>6 DEF WriterIsKept
  <2> QED BY <2>1, <2>2, <2>3, <1>4
<1>12. FreeIsNobody' /\ RunnerHasItsOwner'
  BY <1>1, <1>2, NoTaskNoChild DEF OwnerInv, FreeIsNobody, RunnerHasItsOwner
<1> QED BY <1>9, <1>10, <1>11, <1>12 DEF OwnerInv

\* The runner is launched with the pipe of the connection that asked, closed if that
\* is gone already.
LEMMA LaunchOwner ==
  ASSUME OwnerInv, NEW p \in Pids, LaunchTask(p)
  PROVE  OwnerInv'
<1> DEFINE c == call.client
           R == [NoRunner EXCEPT !.pc = "enter", !.mode = call.mode, !.child = TRUE,
                                 !.stdin = IF owner[c].writer THEN c ELSE "eof"]
<1>1. /\ call.step = "launch" /\ c \in Clients /\ call.mode \in Modes /\ ctl.task = None
      /\ ctl \in Controller /\ proc \in [Pids -> Runner]
  BY DEF OwnerInv, TypeOK, CallIsAlone, NoCall, None, LaunchTask, InCall
<1>2. R \in Runner BY <1>1, ResetTypes DEF Runner
<1>3. R.pc = "enter" /\ R.child /\ R.stdin = (IF owner[c].writer THEN c ELSE "eof")
  BY DEF NoRunner
<1>4. /\ proc' = [proc EXCEPT ![p] = R] /\ call' = NoCall
      /\ ctl' = [ctl EXCEPT !.state = "running", !.task = p, !.owner = c, !.runnerPID = p]
      /\ UNCHANGED <<owner, lingering, files, faults>>
  BY DEF LaunchTask
<1>5. owner[c].writer <=> ~owner[c].lost BY <1>1 DEF OwnerInv, WriterIsKept
<1> HIDE DEF c, R
<1>6. /\ proc' \in [Pids -> Runner] /\ proc'[p] = R
      /\ \A q \in Pids : q # p => proc'[q] = proc[q]
  BY <1>1, <1>2, <1>4
<1>7. /\ ctl' \in Controller /\ ctl'.task = p /\ ctl'.owner = c /\ ctl'.state = "running"
  BY <1>1, <1>4 DEF Controller
<1>8. TypeOK' BY <1>4, <1>6, <1>7, ResetTypes DEF OwnerInv, TypeOK, files
<1>9. CallIsAlone' BY <1>4 DEF CallIsAlone
<1>10. WriterIsKept' BY <1>4 DEF OwnerInv, WriterIsKept, NoCall, None
<1>11. \A q \in Pids : ~proc[q].child BY <1>1, NoTaskNoChild
<1>12. FreeIsNobody' BY <1>3, <1>6, <1>11 DEF FreeIsNobody
<1>13. RunnerHasItsOwner'
  BY <1>1, <1>3, <1>4, <1>5, <1>6, <1>7, <1>11 DEF RunnerHasItsOwner
<1> QED BY <1>8, <1>9, <1>10, <1>12, <1>13 DEF OwnerInv

\* The end of the task leaves no child.
LEMMA CompleteOwner ==
  ASSUME OwnerInv, NEW p \in Pids, Complete(p)
  PROVE  OwnerInv'
<1>1. /\ ctl \in Controller /\ proc \in [Pids -> Runner] /\ owner \in [Clients -> Owner]
      /\ ctl.task = p /\ ctl.owner \in Clients /\ call = NoCall
  BY DEF OwnerInv, TypeOK, RunnerHasItsOwner, Complete
<1>2. /\ Judged(p).state \in {"failed", "cleaned", "finished", "interrupted"}
      /\ Judged(p).reason \in {None, "exit", "contract", "owner_lost"}
  BY VerdictTypes DEF Judged
<1>3. ctl' \in Controller BY <1>1, <1>2 DEF Complete, Controller
<1>4. /\ owner' \in [Clients -> Owner]
      /\ \A c \in Clients : owner'[c].writer => ~owner'[c].lost
  BY <1>1 DEF Complete, Released, OwnerInv, WriterIsKept, Owner
<1>5. /\ proc' \in [Pids -> Runner] /\ proc'[p] = NoRunner
      /\ \A q \in Pids : q # p => proc'[q] = proc[q]
  BY <1>1, ResetTypes DEF Complete
<1>6. TypeOK' BY <1>3, <1>4, <1>5 DEF OwnerInv, TypeOK, Complete, files
<1>7. CallIsAlone' BY <1>1 DEF CallIsAlone, Complete
<1>8. WriterIsKept' BY <1>1, <1>4 DEF WriterIsKept, Complete, NoCall, None
<1>9. \A q \in Pids : ~proc'[q].child
  BY <1>1, <1>5 DEF OwnerInv, RunnerHasItsOwner, NoRunner
<1> QED BY <1>6, <1>7, <1>8, <1>9 DEF OwnerInv, FreeIsNobody, RunnerHasItsOwner

\* A dead daemon has no children; what launchd and the workers do is not its business.
LEMMA OutsideOwner ==
  ASSUME OwnerInv,
         \/ DaemonDies
         \/ \E p \in Pids : ReapOrphan(p)
         \/ \E i \in Inodes : WorkersGone(i)
         \/ UNCHANGED vars
  PROVE  OwnerInv'
<1>1. CASE DaemonDies
  <2>1. faults' \in 0..MaxFaults
    <3>1. faults \in 0..MaxFaults BY DEF OwnerInv, TypeOK
    <3>2. faults < MaxFaults /\ faults' = faults + 1 BY <1>1 DEF DaemonDies
    <3> QED BY <3>1, <3>2, DaemonAssumption
  <2>2. \A p \in Pids : proc'[p] \in Runner /\ ~proc'[p].child
    <3> SUFFICES ASSUME NEW p \in Pids PROVE proc'[p] \in Runner /\ ~proc'[p].child OBVIOUS
    <3>1. proc[p] \in Runner /\ [proc[p] EXCEPT !.stdin = "eof", !.child = FALSE] \in Runner
      BY RunnerTypes DEF OwnerInv, TypeOK
    <3>2. proc'[p] = IF proc[p].pc = "free" THEN proc[p]
                     ELSE [proc[p] EXCEPT !.stdin = "eof", !.child = FALSE]
      BY <1>1 DEF DaemonDies
    <3> QED BY <3>1, <3>2 DEF OwnerInv, FreeIsNobody, Runner
  <2>3. proc' \in [Pids -> Runner] BY <1>1, <2>2 DEF DaemonDies
  <2>4. TypeOK' BY <1>1, <2>1, <2>3, ResetTypes DEF DaemonDies, OwnerInv, TypeOK, files
  <2>5. CallIsAlone' /\ WriterIsKept'
    BY <1>1 DEF DaemonDies, CallIsAlone, WriterIsKept, NoCall, NewOwner, None
  <2> QED BY <2>2, <2>4, <2>5 DEF OwnerInv, FreeIsNobody, RunnerHasItsOwner
<1>2. CASE \E p \in Pids : ReapOrphan(p)
  <2>1. PICK p \in Pids : ReapOrphan(p) BY <1>2
  <2>2. /\ proc' \in [Pids -> Runner] /\ proc'[p] = NoRunner
        /\ \A q \in Pids : q # p => proc'[q] = proc[q]
        /\ UNCHANGED <<ctl, call, owner, lingering, files, faults>>
    BY <2>1, ResetTypes DEF ReapOrphan, OwnerInv, TypeOK
  <2>3. TypeOK' BY <2>2 DEF OwnerInv, TypeOK, files
  <2> QED BY <2>2, <2>3 DEF OwnerInv, CallIsAlone, WriterIsKept, FreeIsNobody, RunnerHasItsOwner,
                            NoRunner
<1>3. CASE \E i \in Inodes : WorkersGone(i)
  BY <1>3 DEF WorkersGone, OwnerInv, TypeOK, files, CallIsAlone, WriterIsKept, FreeIsNobody,
              RunnerHasItsOwner
<1>4. CASE UNCHANGED vars
  BY <1>4 DEF vars, OwnerInv, TypeOK, files, CallIsAlone, WriterIsKept, FreeIsNobody,
              RunnerHasItsOwner
<1> QED BY <1>1, <1>2, <1>3, <1>4

-----------------------------------------------------------------------------
(* The launch lock.                                                        *)

\* Nobody has opened it.
LEMMA InitLock == Init => LockInv
BY DEF Init, LockInv, LockIsHeld, LockIsExclusive, InsideIsNamed, NoRunner, Locking, Inside

\* A step that moves no runner past a lock operation keeps the lock's invariant.
LEMMA SameLock ==
  ASSUME LockInv,
         \A q \in Pids : /\ proc'[q].pc = proc[q].pc /\ proc'[q].fd = proc[q].fd
                         /\ proc'[q].flocked = proc[q].flocked,
         lingering' \subseteq lingering, UNCHANGED lockFile
  PROVE  LockInv'
BY DEF LockInv, LockIsHeld, LockIsExclusive, InsideIsNamed

\* A runner without the lock and outside of open may appear, end or be collected.
LEMMA OtherLock ==
  ASSUME LockInv, NEW p \in Pids,
         \A q \in Pids : q # p => proc'[q] = proc[q],
         proc'[p].pc \in {"free", "enter", "open", "exited"}, proc'[p].fd = 0, ~proc'[p].flocked,
         UNCHANGED <<lingering, lockFile>>
  PROVE  LockInv'
BY DEF LockInv, LockIsHeld, LockIsExclusive, InsideIsNamed, Locking, Inside

\* What the exit of a runner does to its record.
LEMMA ExitedFields ==
  ASSUME TypeOK, NEW p \in Pids, NEW o, proc' = Exited(proc, p, o)
  PROVE  /\ \A q \in Pids : q # p => proc'[q] = proc[q]
         /\ proc'[p].pc = "exited" /\ proc'[p].fd = 0 /\ proc'[p].flocked = FALSE
BY DEF TypeOK, Runner, Exited

\* What a change of place does to a runner's record.
LEMMA GotoFields ==
  ASSUME TypeOK, NEW p \in Pids, NEW pc, Goto(p, pc)
  PROVE  /\ \A q \in Pids : q # p => proc'[q] = proc[q]
         /\ proc'[p].pc = pc /\ proc'[p].fd = proc[p].fd /\ proc'[p].flocked = proc[p].flocked
BY DEF TypeOK, Runner, Goto

\* Whoever exits without leaving a worker gives the lock up.
LEMMA ExitLock ==
  ASSUME TypeOK, LockInv, NEW p \in Pids, NEW o, RunnerExit(p, o), UNCHANGED lockFile
  PROVE  LockInv'
BY ExitedFields, OtherLock DEF RunnerExit

\* The open: of the file that is there, or of a new one that nobody has.
LEMMA OpenLock ==
  ASSUME TypeOK, LockInv, NEW p \in Pids, LockOpen(p)
  PROVE  LockInv'
<1>1. PICK i \in Inodes :
        /\ lockFile # 0 => i = lockFile
        /\ \A q \in Pids : lockFile = 0 => proc[q].fd # i
        /\ lockFile' = i
        /\ proc' = [proc EXCEPT ![p].pc = "flock", ![p].fd = i]
  BY DEF LockOpen
<1>2. i # 0 /\ 0 \notin Inodes /\ lingering \subseteq Inodes BY DaemonAssumption DEF TypeOK
<1>3. /\ \A q \in Pids : q # p => proc'[q] = proc[q]
      /\ proc'[p].pc = "flock" /\ proc'[p].fd = i /\ proc'[p].flocked = proc[p].flocked
  BY <1>1 DEF TypeOK, Runner
<1>4. ~proc[p].flocked BY DEF LockOpen, LockInv, LockIsHeld, Locking
<1>5. UNCHANGED lingering BY DEF LockOpen
<1>6. LockIsHeld' BY <1>2, <1>3, <1>4 DEF LockInv, LockIsHeld, Locking
<1>7. LockIsExclusive' BY <1>3, <1>4, <1>5 DEF LockInv, LockIsExclusive
<1>8. InsideIsNamed'
  <2>1. CASE lockFile # 0 BY <2>1, <1>1, <1>3, <1>5 DEF LockInv, InsideIsNamed, Inside
  <2>2. CASE lockFile = 0
    <3>1. lingering = {} BY <2>2, <1>2 DEF LockInv, InsideIsNamed
    <3>2. \A q \in Pids : proc[q].pc \notin Inside
      BY <2>2 DEF LockInv, InsideIsNamed, LockIsHeld, Locking, Inside
    <3> QED BY <3>1, <3>2, <1>3, <1>5 DEF InsideIsNamed, Inside
  <2> QED BY <2>1, <2>2
<1> QED BY <1>6, <1>7, <1>8 DEF LockInv

\* flock: granted when nobody else has the file locked.
LEMMA FlockLock ==
  ASSUME TypeOK, LockInv, NEW p \in Pids, LockFlock(p)
  PROVE  LockInv'
<1>1. CASE LockHeld(p) BY <1>1, ExitLock DEF LockFlock, files
<1>2. CASE ~LockHeld(p)
  <2>1. /\ \A q \in Pids : q # p => proc'[q] = proc[q]
        /\ proc'[p].pc = "check" /\ proc'[p].fd = proc[p].fd /\ proc'[p].flocked
        /\ UNCHANGED <<lingering, lockFile>>
    BY <1>2 DEF LockFlock, TypeOK, Runner, files
  <2>2. /\ proc[p].fd \notin lingering
        /\ \A q \in Pids : q # p => ~(proc[q].flocked /\ proc[q].fd = proc[p].fd)
    BY <1>2 DEF LockHeld
  <2>3. LockIsHeld' BY <2>1 DEF LockFlock, LockInv, LockIsHeld, Locking
  <2>4. LockIsExclusive' BY <2>1, <2>2 DEF LockInv, LockIsExclusive
  <2>5. InsideIsNamed' BY <2>1 DEF LockInv, InsideIsNamed, Inside
  <2> QED BY <2>3, <2>4, <2>5 DEF LockInv
<1> QED BY <1>1, <1>2

\* Inside: from the comparison with the name to the last file but the lock's.
LEMMA InsideLock ==
  ASSUME TypeOK, LockInv, NEW p \in Pids,
         LockCheck(p) \/ CleanupExecutable(p) \/ CleanupStaging(p)
  PROVE  LockInv'
<1>1. CASE LockCheck(p) /\ RunnerExit(p, "error") BY <1>1, ExitLock DEF LockCheck, files
<1>2. CASE \E pc \in Inside : /\ Goto(p, pc) /\ proc[p].pc \in Locking /\ proc[p].fd = lockFile
                              /\ UNCHANGED <<lingering, lockFile>>
  BY <1>2, GotoFields
  DEF LockInv, LockIsHeld, LockIsExclusive, InsideIsNamed, Locking, Inside
<1>3. proc[p].pc \in {"work", "staged"} => proc[p].fd = lockFile
  BY DEF LockInv, InsideIsNamed, Inside
<1> QED
  BY <1>1, <1>2, <1>3
  DEF LockCheck, CleanupExecutable, CleanupStaging, files, Inside, Locking

\* The one inside removes the name: there was nobody else inside, and no worker.
LEMMA UnlinkLockLock ==
  ASSUME TypeOK, LockInv, NEW p \in Pids, UnlinkLock(p)
  PROVE  LockInv'
<1>1. /\ \A q \in Pids : q # p => proc'[q] = proc[q]
      /\ proc'[p].pc = "rmdir" /\ proc'[p].fd = proc[p].fd /\ proc'[p].flocked = proc[p].flocked
      /\ lockFile' = 0 /\ UNCHANGED lingering
  BY GotoFields DEF UnlinkLock
<1>2. proc[p].flocked /\ proc[p].fd = lockFile
  BY DEF UnlinkLock, LockInv, LockIsHeld, InsideIsNamed, Locking, Inside
<1>3. lingering = {} BY <1>2 DEF LockInv, LockIsExclusive, InsideIsNamed
<1>4. \A q \in Pids : q # p => proc[q].pc \notin Inside
  BY <1>2 DEF LockInv, LockIsHeld, LockIsExclusive, InsideIsNamed, Locking, Inside
<1>5. LockIsHeld' BY <1>1 DEF LockInv, LockIsHeld, Locking, UnlinkLock
<1>6. LockIsExclusive' BY <1>1 DEF LockInv, LockIsExclusive
<1>7. InsideIsNamed' BY <1>1, <1>3, <1>4 DEF InsideIsNamed, Inside
<1> QED BY <1>5, <1>6, <1>7 DEF LockInv

\* The end of a probe hands the lock to the worker it leaves.
LEMMA ProbeLock ==
  ASSUME TypeOK, LockInv, NEW p \in Pids, NEW left \in BOOLEAN,
         (\E o \in Results(proc[p].mode) : Probe(p, o, left)) \/ OwnerLost(p, left)
  PROVE  LockInv'
<1>1. PICK o : proc' = Exited(proc, p, o) BY DEF Probe, OwnerLost
<1>2. /\ \A q \in Pids : q # p => proc'[q] = proc[q]
      /\ proc'[p].pc = "exited" /\ proc'[p].fd = 0 /\ ~proc'[p].flocked
  BY <1>1, ExitedFields
<1>3. /\ proc[p].pc = "work" /\ UNCHANGED lockFile
      /\ lingering' = IF left THEN lingering \cup {proc[p].fd} ELSE lingering
  BY DEF Probe, OwnerLost, files
<1>4. proc[p].flocked /\ proc[p].fd = lockFile
  BY <1>3 DEF LockInv, LockIsHeld, InsideIsNamed, Locking, Inside
<1>5. LockIsHeld' BY <1>2 DEF LockInv, LockIsHeld, Locking
<1>6. LockIsExclusive' BY <1>2, <1>3, <1>4 DEF LockInv, LockIsExclusive
<1>7. InsideIsNamed' BY <1>2, <1>3, <1>4 DEF LockInv, InsideIsNamed, Inside
<1> QED BY <1>5, <1>6, <1>7 DEF LockInv

\* Every step of a runner.
LEMMA RunnerLock ==
  ASSUME TypeOK, LockInv, NEW p \in Pids, RunnerStep(p)
  PROVE  LockInv'
<1>1. CASE Enter(p)
  <2>1. CASE RunnerExit(p, "error") BY <2>1, <1>1, ExitLock DEF Enter, files
  <2>2. CASE Goto(p, "open") /\ UNCHANGED lingering
    <3>1. ~proc[p].flocked /\ proc[p].fd = 0 BY <1>1 DEF Enter, LockInv, LockIsHeld, Locking
    <3> QED BY <2>2, <3>1, <1>1, GotoFields, OtherLock DEF Enter, files
  <2> QED BY <1>1, <2>1, <2>2 DEF Enter
<1>2. CASE LockOpenFails(p) \/ CleanupRefused(p) \/ RemoveDirectory(p)
  BY <1>2, ExitLock DEF LockOpenFails, CleanupRefused, RemoveDirectory, files
<1> QED
  BY <1>1, <1>2, OpenLock, FlockLock, InsideLock, UnlinkLockLock, ProbeLock DEF RunnerStep

\* The steps of the daemon, its clients and launchd.
LEMMA DaemonLock ==
  ASSUME TypeOK, LockInv,
         \/ \E c \in Clients : Connect(c) \/ Disconnect(c)
         \/ \E c \in Clients, mode \in Modes : Request(c, mode)
         \/ CallStep
         \/ \E p \in Pids : Complete(p) \/ ReapOrphan(p)
         \/ \E i \in Inodes : WorkersGone(i)
         \/ DaemonDies
         \/ UNCHANGED vars
  PROVE  LockInv'
<1>1. proc \in [Pids -> Runner] BY DEF TypeOK
<1>2. ASSUME NEW p \in Pids, LaunchTask(p) PROVE LockInv'
  <2>1. /\ \A q \in Pids : q # p => proc'[q] = proc[q]
        /\ proc'[p].pc = "enter" /\ proc'[p].fd = 0 /\ ~proc'[p].flocked
        /\ UNCHANGED <<lingering, lockFile>>
    BY <1>1, <1>2 DEF LaunchTask, NoRunner, files
  <2> QED BY <2>1, OtherLock
<1>3. ASSUME NEW p \in Pids, Complete(p) \/ ReapOrphan(p) PROVE LockInv'
  <2>1. /\ \A q \in Pids : q # p => proc'[q] = proc[q]
        /\ proc'[p].pc = "free" /\ proc'[p].fd = 0 /\ ~proc'[p].flocked
        /\ UNCHANGED <<lingering, lockFile>>
    <3>1. proc' = [proc EXCEPT ![p] = NoRunner] /\ UNCHANGED <<lingering, lockFile>>
      BY <1>3 DEF Complete, ReapOrphan, files
    <3> QED BY <1>1, <3>1 DEF NoRunner
  <2> QED BY <2>1, OtherLock
<1>4. ASSUME NEW c \in Clients, Disconnect(c) PROVE LockInv'
  <2>1. \A q \in Pids : /\ proc'[q].pc = proc[q].pc /\ proc'[q].fd = proc[q].fd
                        /\ proc'[q].flocked = proc[q].flocked
    <3> SUFFICES ASSUME NEW q \in Pids
                 PROVE  /\ proc'[q].pc = proc[q].pc /\ proc'[q].fd = proc[q].fd
                        /\ proc'[q].flocked = proc[q].flocked
      OBVIOUS
    <3>1. proc[q] \in Runner BY <1>1
    <3>2. proc'[q] = IF proc[q].stdin = c THEN [proc[q] EXCEPT !.stdin = "eof"] ELSE proc[q]
      BY <1>4 DEF Disconnect, Closed
    <3> QED BY <3>1, <3>2 DEF Runner
  <2> QED BY <2>1, <1>4, SameLock DEF Disconnect, files
<1>5. CASE DaemonDies
  <2>1. \A q \in Pids : /\ proc'[q].pc = proc[q].pc /\ proc'[q].fd = proc[q].fd
                        /\ proc'[q].flocked = proc[q].flocked
    <3> SUFFICES ASSUME NEW q \in Pids
                 PROVE  /\ proc'[q].pc = proc[q].pc /\ proc'[q].fd = proc[q].fd
                        /\ proc'[q].flocked = proc[q].flocked
      OBVIOUS
    <3>1. proc[q] \in Runner BY <1>1
    <3>2. proc'[q] = IF proc[q].pc = "free" THEN proc[q]
                     ELSE [proc[q] EXCEPT !.stdin = "eof", !.child = FALSE]
      BY <1>5 DEF DaemonDies
    <3> QED BY <3>1, <3>2 DEF Runner
  <2> QED BY <2>1, <1>5, SameLock DEF DaemonDies, files
<1>6. CASE \/ \E c \in Clients : Connect(c)
           \/ \E c \in Clients, mode \in Modes : Request(c, mode)
           \/ \E ok \in BOOLEAN : StageCreate(ok) \/ StageFinish(ok)
           \/ OpenChannel \/ LaunchTaskFails
           \/ \E i \in Inodes : WorkersGone(i)
           \/ UNCHANGED vars
  <2>1. UNCHANGED <<proc, lockFile>> /\ lingering' \subseteq lingering
    BY <1>6 DEF Connect, Request, StageCreate, StageFinish, OpenChannel, LaunchTaskFails,
                WorkersGone, vars, files
  <2> QED BY <2>1, SameLock
<1> QED BY <1>2, <1>3, <1>4, <1>5, <1>6 DEF CallStep

-----------------------------------------------------------------------------
\* Every step keeps both parts.
LEMMA StepInv == OwnerInv /\ LockInv /\ [Next]_vars => (OwnerInv /\ LockInv)'
<1> SUFFICES ASSUME OwnerInv, LockInv, [Next]_vars PROVE OwnerInv' /\ LockInv' OBVIOUS
<1>1. OwnerInv'
  <2>1. LockIsHeld BY DEF LockInv
  <2> QED
    BY <2>1, RunnerOwner, ConnectOwner, DisconnectOwner, RequestOwner, StageOwner, LaunchOwner,
       CompleteOwner, OutsideOwner
    DEF Next, CallStep
<1>2. LockInv'
  <2>1. TypeOK BY DEF OwnerInv
  <2> QED BY <2>1, RunnerLock, DaemonLock DEF Next
<1> QED BY <1>1, <1>2

\* The invariant of every behaviour.
LEMMA SpecInv == Spec => [](OwnerInv /\ LockInv)
<1>1. Init => OwnerInv /\ LockInv BY InitOwner, InitLock
<1> QED BY <1>1, StepInv, PTL DEF Spec

\* A child of the daemon is the controller's one task and reads the pipe of the
\* connection that asked for it, however requests, launches, lost connections and
\* deaths of the daemon follow one another (SupervisorProbeController.m launchLocked,
\* SupervisorProbeOwner.m).
THEOREM RunnerOwned == Spec => []RunnerHasItsOwner
BY SpecInv, PTL DEF OwnerInv

\* A success is taken only from a runner whose owner was there to the end (the
\* completion block of launchLocked).
THEOREM SuccessOwned == Spec => SuccessWasOwned
<1>1. OwnerInv /\ [Next]_vars =>
        [ctl.task # None /\ ctl'.task = None /\ ctl'.state \in {"finished", "cleaned", "interrupted"}
           => proc[ctl.task].stdin = ctl.owner]_vars
  <2> SUFFICES ASSUME OwnerInv, Next, ctl.task # None, ctl'.task = None,
                      ctl'.state \in {"finished", "cleaned", "interrupted"}
               PROVE  proc[ctl.task].stdin = ctl.owner
    OBVIOUS
  <2>1. call = NoCall BY DEF OwnerInv, CallIsAlone
  <2>2. PICK p \in Pids : Complete(p)
    <3>1. ~CallStep
      BY <2>1 DEF CallStep, StageCreate, StageFinish, OpenChannel, LaunchTask, LaunchTaskFails,
                  InCall, NoCall, None
    <3>2. ~(\E c \in Clients, mode \in Modes : Request(c, mode)) BY DEF Request, Admitted
    <3>3. ~DaemonDies
      <4>1. IdleController.state = "idle" BY DEF IdleController
      <4> QED BY <4>1 DEF DaemonDies
    <3>4. UNCHANGED ctl => FALSE OBVIOUS
    <3>5. \A p \in Pids : RunnerStep(p) => UNCHANGED ctl
      BY DEF RunnerStep, Enter, LockOpen, LockOpenFails, LockFlock, LockCheck, Probe, OwnerLost,
             CleanupRefused, CleanupExecutable, CleanupStaging, UnlinkLock, RemoveDirectory
    <3> QED
      BY <3>1, <3>2, <3>3, <3>4, <3>5 DEF Next, Connect, Disconnect, ReapOrphan, WorkersGone
  <2>3. /\ ctl.task = p /\ ctl.owner \in Clients
        /\ IF owner[ctl.owner].lost THEN proc[p].stdin = "eof" ELSE proc[p].stdin = ctl.owner
    BY <2>2 DEF Complete, OwnerInv, RunnerHasItsOwner
  <2>4. ctl'.state = Judged(p).state BY <2>2 DEF Complete, OwnerInv, TypeOK, Controller
  <2>5. ~owner[ctl.owner].lost BY <2>4 DEF Judged
  <2> QED BY <2>3, <2>5
<1> QED BY <1>1, SpecInv, PTL DEF Spec, SuccessWasOwned

\* The launch lock admits one probe, workers left behind included, for any number of
\* runners and lock files: the comparison of the locked file with the name after flock
\* is what the invariant needs (supervisor_probe_lock).
THEOREM OneProbe == Spec => []AtMostOneProbe
<1>1. OwnerInv /\ LockInv => AtMostOneProbe
  <2> SUFFICES ASSUME OwnerInv, LockInv PROVE AtMostOneProbe OBVIOUS
  <2> DEFINE S == {p \in Pids : proc[p].pc \in {"work", "staged", "unlink"}}
  <2>1. \A p \in S : p \in Pids /\ proc[p].flocked /\ proc[p].fd = lockFile
    BY DEF LockInv, LockIsHeld, InsideIsNamed, Locking, Inside
  <2>2. \A p, q \in S : p = q BY <2>1 DEF LockInv, LockIsExclusive
  <2>3. S # {} => lingering = {} BY <2>1 DEF LockInv, LockIsExclusive, InsideIsNamed
  <2>4. lingering = {} \/ lingering = {lockFile} BY DEF LockInv, InsideIsNamed
  <2> HIDE DEF S
  <2>5. S = {} \/ \E x : S = {x}
    <3>1. ASSUME NEW x \in S PROVE S = {x} BY <2>2, <3>1
    <3> QED BY <3>1
  <2>6. /\ Cardinality({}) = 0 /\ \A x : Cardinality({x}) = 1 BY FS_EmptySet, FS_Singleton
  <2>7. Cardinality(S) + Cardinality(lingering) <= 1 
    <3>1. CASE S = {}
      <4>1. Cardinality(S) = 0 BY <3>1, <2>6
      <4>2. Cardinality(lingering) = 0 \/ Cardinality(lingering) = 1 BY <2>4, <2>6
      <4> QED BY <4>1, <4>2
    <3>2. CASE \E x : S = {x}
      <4>1. lingering = {} /\ Cardinality(S) = 1 BY <3>2, <2>3, <2>6
      <4> QED BY <4>1, <2>6
    <3> QED BY <3>1, <3>2, <2>5
  <2> QED BY <2>7 DEF AtMostOneProbe, S
<1> QED BY <1>1, SpecInv, PTL
-----------------------------------------------------------------------------
(* The client's commands.                                                  *)

\* The controller is running as long as it has a task, and only a task has an owner.
TaskRuns ==
  /\ ctl.task # None <=> ctl.state = "running"
  /\ ctl.task # None => ctl.runnerPID = ctl.task
  /\ ctl.task = None => ctl.owner = None

Success == {"finished", "cleaned", "interrupted"}

OwnRun == [runner : Pids \cup {None}, verdict : {None, "failed"} \cup Success]

\* What a call of fetchDaemon has done at each of its places; while the daemon has
\* its request, the message is in the daemon's hands.
BridgeShape ==
  /\ bridge \in BridgeRecord /\ own \in OwnRun
  /\ bridge.at = "idle" => bridge.sent = None
  /\ bridge.at # "idle" => bridge.request \in Requests
  /\ bridge.at = "sleeping" => bridge.sent = None /\ bridge.started # NoReply
  /\ Busy => bridge.outcome = None
  /\ bridge.at # "over" /\ call.client = Bridge => bridge.sent = "serving" /\ bridge.started = NoReply

\* Until its first request is answered a command owns nothing in the daemon.
Unanswered ==
  \/ bridge.at = "idle"
  \/ bridge.at = "waiting" /\ bridge.started = NoReply /\ bridge.sent \in {"queued", "serving"}
OwnsNothing == Unanswered => ctl.owner # Bridge

\* Runner r of the daemon's incarnation n is the command's own.  If that daemon still
\* lives, it either has the runner as its task, for this client, or has judged it; a
\* later task has another pid.
Follows(n, r) ==
  /\ r \in Pids /\ own.runner = r /\ n <= faults
  /\ n = faults =>
       \/ ctl.owner = Bridge /\ ctl.task = r /\ own.verdict = None
       \/ ctl.owner # Bridge /\ (ctl.runnerPID = r => ctl.task = None /\ ctl.state = own.verdict)

\* The first answer says "running" of a runner that this request started, and is no
\* success when the request always starts one.
FirstAnswer ==
  bridge.at = "waiting" /\ bridge.started = NoReply /\ bridge.sent = "answered" /\ Hold =>
    /\ bridge.reply.state = "running" => Follows(bridge.reply.daemon, bridge.reply.runner)
    /\ bridge.request \in {"resume", "cleanup"} => bridge.reply.state \notin Success

\* A later answer that names the same daemon and runner and is a success is the verdict
\* on it, and stays that.
LaterAnswer ==
  Busy /\ bridge.started # NoReply =>
    /\ Follows(bridge.started.daemon, bridge.started.runner)
    /\ bridge.sent = "answered" /\ SameRun(bridge.started, bridge.reply)
         /\ bridge.reply.state \in Success =>
         /\ own = [runner |-> bridge.reply.runner, verdict |-> bridge.reply.state]
         /\ ctl.owner # Bridge

ClientInv == TaskRuns /\ BridgeShape /\ OwnsNothing /\ FirstAnswer /\ LaterAnswer

\* The values of the client's variables have their types.
LEMMA BridgeTypes ==
  /\ NoReply \in Reply /\ NoCommand \in BridgeRecord /\ NoRun \in OwnRun
  /\ NoReply.state = None /\ NoCommand.at = "idle" /\ NoCommand.sent = None
  /\ NoCommand.started = NoReply /\ NoCommand.outcome = None
<1>1. 0 \in 0..MaxFaults /\ 0 \in 0..MaxPolls BY DaemonAssumption, ClientAssumption
<1>2. NoReply \in Reply BY <1>1 DEF NoReply, Reply, None
<1>3. NoCommand \in BridgeRecord BY <1>1, <1>2 DEF NoCommand, BridgeRecord, None
<1>4. NoRun \in OwnRun BY DEF NoRun, OwnRun
<1> QED BY <1>2, <1>3, <1>4 DEF NoReply, NoCommand

\* The daemon's status is a reply.
LEMMA StatusTypes ==
  ASSUME TypeOK
  PROVE  /\ Status \in Reply /\ BusyStatus \in Reply
         /\ Status.daemon = faults /\ Status.runner = ctl.runnerPID /\ Status.state = ctl.state
         /\ BusyStatus.state = "failed"
<1>1. ctl \in Controller /\ faults \in 0..MaxFaults BY DEF TypeOK
<1> QED BY <1>1 DEF Status, BusyStatus, Controller, Reply, None

\* So is the status after a step.
LEMMA NextStatusTypes ==
  ASSUME TypeOK'
  PROVE  /\ Status' \in Reply
         /\ Status'.daemon = faults' /\ Status'.runner = ctl'.runnerPID /\ Status'.state = ctl'.state
<1>1. ctl' \in Controller /\ faults' \in 0..MaxFaults BY DEF TypeOK
<1> QED BY <1>1 DEF Status, Controller, Reply, None

\* Whatever ends a call, it is over.
LEMMA ReturnShape ==
  ASSUME BridgeShape, bridge.at # "idle", NEW o \in {"result", "error", "timeout", "killed"}, Return(o)
  PROVE  /\ bridge' \in BridgeRecord /\ bridge'.at = "over" /\ bridge'.request \in Requests
         /\ bridge'.outcome = "result" => o = "result"
<1>1. Asks \in Requests BY DEF BridgeShape, Asks, Requests
<1>2. Outcome(o) \in {"result", "error", "timeout", "killed"} /\ (Outcome(o) = "result" => o = "result")
  BY DEF Outcome
<1>3. Pending \in {None, "queued", "serving"} BY DEF Pending
<1> QED BY <1>1, <1>2, <1>3, BridgeTypes DEF Return, BridgeRecord

\* A call that is over has nothing to keep.
LEMMA OverKept ==
  ASSUME bridge'.at = "over"
  PROVE  OwnsNothing' /\ FirstAnswer' /\ LaterAnswer'
BY DEF OwnsNothing, Unanswered, FirstAnswer, LaterAnswer, Busy

\* A command's runner is followed through a step that finds no task and sets none with
\* the runner's pid or for this client.
LEMMA FollowsKept ==
  ASSUME NEW n, NEW r, Follows(n, r), UNCHANGED <<own, faults>>,
         \/ UNCHANGED ctl
         \/ ctl.task = None /\ ctl'.owner # Bridge /\ (ctl'.runnerPID = None \/ ctl'.runnerPID # own.runner)
  PROVE  Follows(n, r)'
<1>1. r # None BY DaemonAssumption DEF Follows, None
<1> QED BY <1>1 DEF Follows

\* So a step of the others keeps what a command knows.
LEMMA ElsewhereKept ==
  ASSUME ClientInv, UNCHANGED <<bridge, own, faults>>,
         call'.client = call.client \/ call'.client # Bridge,
         \/ UNCHANGED ctl
         \/ /\ ctl.task = None /\ ctl'.owner # Bridge
            /\ ctl'.runnerPID = None \/ (Busy => ctl'.runnerPID # own.runner)
  PROVE  BridgeShape' /\ OwnsNothing' /\ FirstAnswer' /\ LaterAnswer'
<1>1. BridgeShape' BY DEF ClientInv, BridgeShape, Busy
<1>2. OwnsNothing' BY DEF ClientInv, OwnsNothing, Unanswered
<1>3. FirstAnswer'
  <2> SUFFICES ASSUME bridge.at = "waiting", bridge.started = NoReply, bridge.sent = "answered", Hold
               PROVE  /\ bridge.reply.state = "running" => Follows(bridge.reply.daemon, bridge.reply.runner)'
                      /\ bridge.request \in {"resume", "cleanup"} => bridge.reply.state \notin Success
    BY DEF FirstAnswer, Hold
  <2>1. PICK n, r : n = bridge.reply.daemon /\ r = bridge.reply.runner OBVIOUS
  <2>2. bridge'.reply.daemon = n /\ bridge'.reply.runner = r BY <2>1
  <2>3. Busy BY DEF Busy
  <2>4. Follows(n, r) => Follows(n, r)' BY <2>3, FollowsKept
  <2> QED BY <2>1, <2>2, <2>4 DEF ClientInv, FirstAnswer
<1>4. LaterAnswer'
  <2> SUFFICES ASSUME Busy, bridge.started # NoReply
               PROVE  /\ Follows(bridge.started.daemon, bridge.started.runner)'
                      /\ bridge.sent = "answered" /\ SameRun(bridge.started, bridge.reply)
                           /\ bridge.reply.state \in Success =>
                           /\ own = [runner |-> bridge.reply.runner, verdict |-> bridge.reply.state]
                           /\ ctl'.owner # Bridge
    BY DEF LaterAnswer, Busy, SameRun
  <2>1. PICK n, r : n = bridge.started.daemon /\ r = bridge.started.runner OBVIOUS
  <2>2. bridge'.started.daemon = n /\ bridge'.started.runner = r BY <2>1
  <2>3. Follows(n, r) BY <2>1 DEF ClientInv, LaterAnswer
  <2>4. Follows(n, r)' BY <2>3, FollowsKept
  <2> QED BY <2>2, <2>4 DEF ClientInv, LaterAnswer
<1> QED BY <1>1, <1>2, <1>3, <1>4

\* The controller's state, its task and its owner change together.
LEMMA TaskRunsKept ==
  ASSUME OwnerInv, TaskRuns, [Next]_vars
  PROVE  TaskRuns'
<1>1. ctl \in Controller BY DEF OwnerInv, TypeOK
<1>2. ASSUME NEW c \in Clients, NEW mode \in Modes, Request(c, mode) PROVE TaskRuns'
  <2>1. CASE ctl' = Failed("owner_lost")
    BY <2>1 DEF Failed, IdleController, TaskRuns, None
  <2>2. CASE ctl' = [ctl EXCEPT !.reason = None, !.runnerPID = None]
    BY <1>1, <1>2, <2>2 DEF Request, Admitted, Controller, TaskRuns, None
  <2> QED BY <1>2, <2>1, <2>2 DEF Request
<1>3. ASSUME NEW p \in Pids, LaunchTask(p) PROVE TaskRuns'
  <2>1. ctl'.state = "running" /\ ctl'.task = p /\ ctl'.runnerPID = p
    BY <1>1, <1>3 DEF LaunchTask, Controller
  <2>2. p # None BY DaemonAssumption DEF None
  <2> QED BY <2>1, <2>2 DEF TaskRuns
<1>4. CASE (\E ok \in BOOLEAN : StageCreate(ok) \/ StageFinish(ok)) \/ OpenChannel \/ LaunchTaskFails
  <2>1. UNCHANGED ctl \/ \E reason \in {"signature", "launch", "owner_lost"} : ctl' = Failed(reason)
    BY <1>4 DEF StageCreate, StageFinish, OpenChannel, LaunchTaskFails, LaunchFails, Continue
  <2>2. CASE UNCHANGED ctl BY <2>2 DEF TaskRuns
  <2>3. ASSUME NEW reason, ctl' = Failed(reason) PROVE TaskRuns'
    BY <2>3 DEF Failed, IdleController, TaskRuns, None
  <2> QED BY <2>1, <2>2, <2>3
<1>5. ASSUME NEW p \in Pids, Complete(p) PROVE TaskRuns'
  <2>1. Judged(p).state \in {"failed", "cleaned", "finished", "interrupted"}
    BY VerdictTypes DEF Judged
  <2>2. ctl'.state = Judged(p).state /\ ctl'.task = None /\ ctl'.owner = None
    BY <1>1, <1>5 DEF Complete, Controller
  <2> QED BY <2>1, <2>2 DEF TaskRuns
<1>6. CASE DaemonDies BY <1>6 DEF DaemonDies, IdleController, TaskRuns, None
<1>7. ASSUME NEW p \in Pids, RunnerStep(p) PROVE UNCHANGED ctl
  BY <1>7 DEF RunnerStep, Enter, LockOpen, LockOpenFails, LockFlock, LockCheck, Probe, OwnerLost,
              CleanupRefused, CleanupExecutable, CleanupStaging, UnlinkLock, RemoveDirectory
<1>8. CASE UNCHANGED ctl BY <1>8 DEF TaskRuns
<1> QED
  BY <1>2, <1>3, <1>4, <1>5, <1>6, <1>7, <1>8
  DEF Next, CallStep, Connect, Disconnect, ReapOrphan, WorkersGone, vars

\* A step of the client's own process.
LEMMA BridgeKept ==
  ASSUME ClientInv,
         \/ \E request \in Requests : Command(request)
         \/ BridgeStep \/ Interrupted \/ ClientDies
  PROVE  BridgeShape' /\ OwnsNothing' /\ FirstAnswer' /\ LaterAnswer'
<1>1. /\ UNCHANGED <<ctl, call, faults, own>> /\ bridge \in BridgeRecord /\ own \in OwnRun
  BY DEF Command, BridgeStep, Interrupted, ClientDies, vars, ClientInv, BridgeShape
<1>2. ASSUME bridge.at # "idle", NEW o \in {"result", "error", "timeout", "killed"}, Return(o)
      PROVE  BridgeShape' /\ OwnsNothing' /\ FirstAnswer' /\ LaterAnswer'
  <2>1. /\ bridge' \in BridgeRecord /\ bridge'.at = "over" /\ bridge'.request \in Requests
    BY <1>2, ReturnShape DEF ClientInv
  <2>2. BridgeShape' BY <1>1, <2>1 DEF BridgeShape, Busy
  <2> QED BY <2>1, <2>2, OverKept
<1>3. ASSUME NEW request \in Requests, Command(request)
      PROVE  BridgeShape' /\ OwnsNothing' /\ FirstAnswer' /\ LaterAnswer'
  <2>1. /\ bridge' \in BridgeRecord /\ bridge'.at = "waiting" /\ bridge'.sent = "queued"
        /\ bridge'.request = request /\ bridge'.started = NoReply /\ bridge'.outcome = None
    BY <1>3, BridgeTypes DEF Command, BridgeRecord
  <2>2. bridge.at = "idle" /\ bridge.sent = None BY <1>3, BridgeTypes DEF Command
  <2>3. call.client # Bridge /\ ctl.owner # Bridge
    BY <2>2 DEF ClientInv, BridgeShape, OwnsNothing, Unanswered, None
  <2>4. BridgeShape' BY <1>1, <2>1, <2>3 DEF BridgeShape
  <2> QED BY <1>1, <2>1, <2>3, <2>4 DEF OwnsNothing, FirstAnswer, LaterAnswer, SameRun
<1>4. ASSUME bridge.at = "waiting", bridge.sent = "answered", Sleep, bridge.reply.state = "running",
             bridge.started = NoReply => Hold
      PROVE  BridgeShape' /\ OwnsNothing' /\ FirstAnswer' /\ LaterAnswer'
  <2>1. PICK d : d = IF bridge.started = NoReply THEN bridge.reply ELSE bridge.started OBVIOUS
  <2>2. /\ bridge' \in BridgeRecord /\ bridge'.at = "sleeping" /\ bridge'.sent = None
        /\ bridge'.started = d
        /\ bridge'.request = bridge.request /\ bridge'.outcome = bridge.outcome
    BY <1>1, <1>4, <2>1 DEF Sleep, BridgeRecord
  <2>3. d # NoReply BY <1>4, <2>1, BridgeTypes DEF None
  <2>4. Busy /\ bridge.outcome = None /\ call.client # Bridge /\ bridge.request \in Requests
    BY <1>4 DEF Busy, ClientInv, BridgeShape
  <2>5. BridgeShape' BY <1>1, <2>2, <2>3, <2>4 DEF BridgeShape, Busy
  <2>6. Follows(d.daemon, d.runner) BY <1>4, <2>1, <2>4 DEF ClientInv, FirstAnswer, LaterAnswer
  <2>7. PICK n, r : n = d.daemon /\ r = d.runner OBVIOUS
  <2>8. Follows(n, r)' BY <1>1, <2>6, <2>7, FollowsKept
  <2>9. Follows(bridge.started.daemon, bridge.started.runner)' BY <2>2, <2>7, <2>8
  <2> QED BY <2>2, <2>3, <2>5, <2>9 DEF OwnsNothing, Unanswered, FirstAnswer, LaterAnswer, None
<1>5. ASSUME bridge.at = "sleeping", bridge.polls < MaxPolls,
             bridge' = [bridge EXCEPT !.at = "waiting", !.sent = "queued", !.reply = NoReply,
                                      !.polls = @ + 1]
      PROVE  BridgeShape' /\ OwnsNothing' /\ FirstAnswer' /\ LaterAnswer'
  <2>1. bridge.polls + 1 \in 0..MaxPolls
    <3>1. bridge.polls \in 0..MaxPolls BY <1>1 DEF BridgeRecord
    <3> QED BY <3>1, <1>5, ClientAssumption
  <2>2. /\ bridge' \in BridgeRecord /\ bridge'.at = "waiting" /\ bridge'.sent = "queued"
        /\ bridge'.started = bridge.started
        /\ bridge'.request = bridge.request /\ bridge'.outcome = bridge.outcome
    BY <1>1, <1>5, <2>1, BridgeTypes DEF BridgeRecord
  <2>3. /\ Busy /\ bridge.outcome = None /\ call.client # Bridge /\ bridge.request \in Requests
        /\ bridge.started # NoReply
    BY <1>5 DEF Busy, ClientInv, BridgeShape, None
  <2>4. BridgeShape' BY <1>1, <2>2, <2>3 DEF BridgeShape, Busy
  <2>5. PICK n, r : n = bridge.started.daemon /\ r = bridge.started.runner OBVIOUS
  <2>6. Follows(n, r)' BY <1>1, <2>3, <2>5, FollowsKept DEF ClientInv, LaterAnswer
  <2>7. Follows(bridge.started.daemon, bridge.started.runner)' BY <2>2, <2>5, <2>6
  <2> QED BY <2>2, <2>3, <2>4, <2>7 DEF OwnsNothing, Unanswered, FirstAnswer, LaterAnswer, None
<1>6. CASE Interrupted
  <2>1. /\ bridge' \in BridgeRecord /\ bridge'.at = bridge.at /\ bridge'.sent = bridge.sent
        /\ bridge'.started = bridge.started /\ bridge'.reply = bridge.reply
        /\ bridge'.request = bridge.request /\ bridge'.outcome = bridge.outcome
    BY <1>1, <1>6 DEF Interrupted, BridgeRecord
  <2>2. BridgeShape' BY <1>1, <2>1 DEF ClientInv, BridgeShape, Busy
  <2>3. OwnsNothing' BY <1>1, <2>1 DEF ClientInv, OwnsNothing, Unanswered
  <2>4. FirstAnswer'
    BY <1>1, <2>1 DEF ClientInv, FirstAnswer, Hold, Follows
  <2>5. LaterAnswer'
    BY <1>1, <2>1 DEF ClientInv, LaterAnswer, Busy, SameRun, Follows
  <2> QED BY <2>2, <2>3, <2>4, <2>5
<1>7. CASE BridgeStep
  <2>1. CASE Receive BY <2>1, <1>2, <1>4 DEF Receive
  <2>2. CASE ReceiveError \/ Timeout BY <2>2, <1>2 DEF ReceiveError, Timeout
  <2>3. CASE Wake BY <2>3, <1>2, <1>5 DEF Wake
  <2> QED BY <1>7, <2>1, <2>2, <2>3 DEF BridgeStep
<1>8. CASE ClientDies BY <1>8, <1>2 DEF ClientDies, Busy
<1> QED BY <1>3, <1>6, <1>7, <1>8

\* A step of the client's system is one of the daemon's, or leaves it alone.
LEMMA ClientDaemon ==
  ASSUME ClientInv, [ClientNext]_clientVars
  PROVE  [Next]_vars
<1>1. CASE Serve
  <2>1. CASE UNCHANGED vars BY <2>1
  <2>2. CASE Request(Bridge, Asks) /\ Asks # "status"
    <3>1. bridge.request \in Requests BY <1>1 DEF Serve, ClientInv, BridgeShape, None
    <3>2. Asks \in Modes BY <2>2, <3>1 DEF Asks, Requests
    <3> QED BY <2>2, <3>2, ClientAssumption DEF Next
  <2> QED BY <1>1, <2>1, <2>2 DEF Serve
<1>2. CASE Launching
  <2>1. FreePids # {} => (CHOOSE p \in FreePids : TRUE) \in Pids BY DEF FreePids
  <2> QED BY <1>2, <2>1 DEF Launching, Next, CallStep
<1>3. CASE Hangup BY <1>3, ClientAssumption DEF Hangup, Next
<1>4. CASE Death BY <1>4 DEF Death, Next
<1>5. CASE \E p \in Pids : Completion(p) BY <1>5 DEF Completion, Next
<1>6. CASE Others BY <1>6 DEF Others, Next
<1>7. CASE Runners BY <1>7 DEF Runners, Next
<1>8. CASE \/ \E request \in Requests : Command(request)
           \/ BridgeStep \/ Interrupted \/ ClientDies \/ Over \/ UNCHANGED clientVars
  BY <1>8 DEF Command, BridgeStep, Interrupted, ClientDies, Over, clientVars
<1> QED BY <1>1, <1>2, <1>3, <1>4, <1>5, <1>6, <1>7, <1>8 DEF ClientNext

\* An answer reaches the call that waits for it, and nobody else.
LEMMA AnsweredShape ==
  ASSUME BridgeShape, NEW reply \in Reply, bridge.sent \in {"queued", "serving"}, Answered(reply)
  PROVE  /\ bridge' \in BridgeRecord /\ bridge.at \in {"waiting", "over"} /\ bridge'.at = bridge.at
         /\ bridge'.started = bridge.started /\ bridge'.request = bridge.request
         /\ bridge'.outcome = bridge.outcome
         /\ bridge.at = "waiting" => bridge'.sent = "answered" /\ bridge'.reply = reply
<1>1. bridge \in BridgeRecord BY DEF BridgeShape
<1>2. bridge.at \in {"waiting", "over"}
  <2>1. bridge.at \in {"idle", "waiting", "sleeping", "over"} BY <1>1 DEF BridgeRecord
  <2> QED BY <2>1 DEF BridgeShape, None
<1>3. CASE bridge.at = "waiting" BY <1>1, <1>3 DEF Answered, BridgeRecord
<1>4. CASE bridge.at = "over" BY <1>1, <1>4 DEF Answered, BridgeRecord
<1> QED BY <1>2, <1>3, <1>4

\* The daemon takes up the message of the command: its answer, or the start of a launch.
LEMMA ServeKept ==
  ASSUME OwnerInv, OwnerInv', ClientInv, Serve
  PROVE  BridgeShape' /\ OwnsNothing' /\ FirstAnswer' /\ LaterAnswer'
<1>1. /\ bridge.sent = "queued" /\ call = NoCall /\ call.client # Bridge /\ UNCHANGED own
      /\ TypeOK /\ TypeOK' /\ BridgeShape /\ bridge \in BridgeRecord /\ own \in OwnRun
      /\ ctl \in Controller
  BY ClientAssumption DEF Serve, NoCall, None, ClientInv, BridgeShape, OwnerInv, TypeOK
<1>2. CASE (Asks = "status" \/ ~Admitted(Asks)) /\ UNCHANGED vars
  <2>1. PICK reply \in Reply :
          /\ Answered(reply)
          /\ reply = IF Asks # "status" /\ ctl.task # None /\ ctl.owner # Bridge
                     THEN BusyStatus ELSE Status
    BY <1>1, <1>2, StatusTypes DEF Serve
  <2>2. /\ bridge' \in BridgeRecord /\ bridge.at \in {"waiting", "over"} /\ bridge'.at = bridge.at
        /\ bridge'.started = bridge.started /\ bridge'.request = bridge.request
        /\ bridge'.outcome = bridge.outcome
        /\ bridge.at = "waiting" => bridge'.sent = "answered" /\ bridge'.reply = reply
    BY <1>1, <2>1, AnsweredShape
  <2>3. UNCHANGED <<ctl, call, faults>> BY <1>2 DEF vars
  <2>4. BridgeShape' BY <1>1, <2>2, <2>3 DEF BridgeShape, Busy
  <2>5. CASE bridge.at = "over" BY <2>2, <2>4, <2>5, OverKept
  <2>6. CASE bridge.at = "waiting" /\ bridge.started = NoReply
    <3>1. ctl.owner # Bridge BY <1>1, <2>6 DEF ClientInv, OwnsNothing, Unanswered
    <3>2. ASSUME Hold
          PROVE  /\ reply.state # "running"
                 /\ bridge.request \in {"resume", "cleanup"} => reply.state \notin Success
      <4>1. Asks = bridge.request /\ Asks # "status" BY <2>6, <3>2 DEF Asks, Hold
      <4>2. CASE ctl.task # None
        <5>1. reply.state = "failed" BY <1>1, <2>1, <3>1, <4>1, <4>2, StatusTypes
        <5> QED BY <5>1 DEF Success
      <4>3. CASE ctl.task = None
        <5>1. reply.state # "running" BY <1>1, <2>1, <4>3, StatusTypes DEF ClientInv, TaskRuns
        <5>2. bridge.request \in {"run", "crash"} BY <1>2, <4>1, <4>3 DEF Admitted
        <5> QED BY <5>1, <5>2
      <4> QED BY <4>2, <4>3
    <3>3. FirstAnswer' BY <2>2, <2>6, <3>2 DEF FirstAnswer, Hold
    <3> QED BY <2>2, <2>4, <2>6, <3>3 DEF OwnsNothing, Unanswered, LaterAnswer
  <2>7. CASE bridge.at = "waiting" /\ bridge.started # NoReply
    <3>1. Busy /\ reply = Status BY <2>1, <2>7 DEF Busy, Asks
    <3>2. PICK n, r : n = bridge.started.daemon /\ r = bridge.started.runner OBVIOUS
    <3>3. Follows(n, r) BY <2>7, <3>1, <3>2 DEF ClientInv, LaterAnswer
    <3>4. Follows(n, r)' BY <1>1, <2>3, <3>3, FollowsKept
    <3>5. Follows(bridge.started.daemon, bridge.started.runner)' BY <2>2, <3>2, <3>4
    <3>6. ASSUME SameRun(bridge.started, reply), reply.state \in Success
          PROVE  own = [runner |-> reply.runner, verdict |-> reply.state] /\ ctl.owner # Bridge
      <4>1. n = faults /\ r = ctl.runnerPID /\ reply.runner = r /\ reply.state = ctl.state
        BY <1>1, <3>1, <3>2, <3>6, StatusTypes DEF SameRun
      <4>2. ctl.task = None /\ ctl.owner # Bridge
        BY <3>6, <4>1, ClientAssumption DEF ClientInv, TaskRuns, Success, None
      <4>3. own.runner = r /\ own.verdict = ctl.state BY <3>3, <4>1, <4>2 DEF Follows
      <4>4. own = [runner |-> own.runner, verdict |-> own.verdict] BY <1>1 DEF OwnRun
      <4> QED BY <4>1, <4>2, <4>3, <4>4
    <3>7. LaterAnswer' BY <1>1, <2>2, <2>3, <2>7, <3>5, <3>6 DEF LaterAnswer, SameRun
    <3> QED BY <2>2, <2>4, <2>7, <3>7 DEF OwnsNothing, Unanswered, FirstAnswer
  <2> QED BY <2>2, <2>5, <2>6, <2>7
<1>3. CASE /\ Asks # "status" /\ Request(Bridge, Asks)
           /\ IF call' = NoCall THEN Answered(Status') ELSE bridge' = [bridge EXCEPT !.sent = "serving"]
  <2>1. bridge.started = NoReply BY <1>3 DEF Asks
  <2>2. CASE owner[Bridge].lost
    <3>1. call' = NoCall /\ ctl' = Failed("owner_lost") /\ Answered(Status')
      BY <1>1, <1>3, <2>2 DEF Request
    <3>2. ctl'.state = "failed" BY <3>1 DEF Failed, IdleController
    <3>3. PICK reply \in Reply : Answered(reply) /\ reply.state = "failed"
      BY <1>1, <3>1, <3>2, NextStatusTypes
    <3>4. /\ bridge' \in BridgeRecord /\ bridge.at \in {"waiting", "over"} /\ bridge'.at = bridge.at
          /\ bridge'.started = bridge.started /\ bridge'.request = bridge.request
          /\ bridge'.outcome = bridge.outcome
          /\ bridge.at = "waiting" => bridge'.sent = "answered" /\ bridge'.reply = reply
      BY <1>1, <3>3, AnsweredShape
    <3>5. call'.client # Bridge BY <3>1, ClientAssumption DEF NoCall, None
    <3>6. BridgeShape' BY <1>1, <3>4, <3>5 DEF BridgeShape, Busy
    <3>7. CASE bridge.at = "over" BY <3>4, <3>6, <3>7, OverKept
    <3>8. CASE bridge.at = "waiting"
      BY <2>1, <3>3, <3>4, <3>6, <3>8 DEF OwnsNothing, Unanswered, FirstAnswer, LaterAnswer, Success
    <3> QED BY <3>4, <3>7, <3>8
  <2>3. CASE ~owner[Bridge].lost
    <3>1. /\ call' # NoCall /\ ctl' = [ctl EXCEPT !.reason = None, !.runnerPID = None]
          /\ call'.client = Bridge
      BY <1>3, <2>3, ClientAssumption DEF Request, NoCall, None
    <3>2. bridge' = [bridge EXCEPT !.sent = "serving"] BY <1>3, <3>1
    <3>3. /\ bridge' \in BridgeRecord /\ bridge'.at = bridge.at /\ bridge'.sent = "serving"
          /\ bridge'.started = bridge.started /\ bridge'.request = bridge.request
          /\ bridge'.outcome = bridge.outcome
      BY <1>1, <3>2 DEF BridgeRecord
    <3>4. bridge.at \in {"waiting", "over"}
      <4>1. bridge.at \in {"idle", "waiting", "sleeping", "over"} BY <1>1 DEF BridgeRecord
      <4> QED BY <1>1, <4>1 DEF BridgeShape, None
    <3>5. BridgeShape' BY <1>1, <2>1, <3>3, <3>4 DEF BridgeShape, Busy
    <3>6. CASE bridge.at = "over" BY <3>3, <3>5, <3>6, OverKept
    <3>7. CASE bridge.at = "waiting"
      <4>1. ctl.owner # Bridge BY <1>1, <2>1, <3>7 DEF ClientInv, OwnsNothing, Unanswered
      <4>2. ctl'.owner # Bridge BY <1>1, <3>1, <4>1 DEF Controller
      <4> QED BY <2>1, <3>3, <3>5, <4>2 DEF OwnsNothing, FirstAnswer, LaterAnswer
    <3> QED BY <3>4, <3>6, <3>7
  <2> QED BY <2>2, <2>3
<1> QED BY <1>2, <1>3 DEF Serve

\* A launch goes on, for this client or for another.
LEMMA LaunchingKept ==
  ASSUME OwnerInv, OwnerInv', ClientInv, Launching
  PROVE  BridgeShape' /\ OwnsNothing' /\ FirstAnswer' /\ LaterAnswer'
<1>1. /\ TypeOK' /\ BridgeShape /\ bridge \in BridgeRecord /\ own \in OwnRun /\ ctl \in Controller
      /\ call \in Call /\ call.client \in Clients /\ ctl.task = None
  <2>1. call.step # None
    BY DEF Launching, StageCreate, StageFinish, OpenChannel, LaunchTask, LaunchTaskFails, InCall, None
  <2>2. call # NoCall BY <2>1 DEF NoCall
  <2> QED BY <2>2 DEF ClientInv, BridgeShape, OwnerInv, TypeOK, CallIsAlone
<1>2. UNCHANGED faults
  BY DEF Launching, StageCreate, StageFinish, OpenChannel, LaunchTask, LaunchTaskFails
<1>3. \/ UNCHANGED ctl /\ \E step \in {"copy", "channel", "launch"} : call' = [call EXCEPT !.step = step]
      \/ call' = NoCall /\ \E reason \in {"signature", "launch", "owner_lost"} : ctl' = Failed(reason)
      \/ \E p \in FreePids : LaunchTask(p)
  BY DEF Launching, StageCreate, StageFinish, OpenChannel, LaunchTaskFails, LaunchFails, Continue
<1>4. /\ own' = IF call.client = Bridge /\ Busy /\ ctl'.task # None
                  THEN [runner |-> ctl'.task, verdict |-> None] ELSE own
      /\ IF call.client = Bridge /\ call' = NoCall THEN Answered(Status') ELSE UNCHANGED bridge
  BY DEF Launching
<1>5. CASE UNCHANGED ctl /\ \E step \in {"copy", "channel", "launch"} : call' = [call EXCEPT !.step = step]
  <2>1. call'.client = call.client /\ call' # NoCall
    BY <1>1, <1>5, ClientAssumption DEF Call, NoCall, None
  <2>2. UNCHANGED <<bridge, own, faults>> BY <1>1, <1>2, <1>4, <1>5, <2>1
  <2> QED BY <1>5, <2>1, <2>2, ElsewhereKept
<1>6. CASE call' = NoCall /\ \E reason \in {"signature", "launch", "owner_lost"} : ctl' = Failed(reason)
  <2>1. ctl'.state = "failed" /\ ctl'.task = None /\ ctl'.runnerPID = None /\ ctl'.owner = None
    BY <1>6 DEF Failed, IdleController
  <2>2. call'.client # Bridge /\ ctl'.owner # Bridge BY <1>6, <2>1, ClientAssumption DEF NoCall, None
  <2>3. UNCHANGED own BY <1>4, <2>1
  <2>4. CASE call.client # Bridge
    <3>1. UNCHANGED bridge BY <1>4, <2>4
    <3> QED BY <1>1, <1>2, <2>1, <2>2, <2>3, <3>1, ElsewhereKept
  <2>5. CASE call.client = Bridge
    <3>1. Answered(Status') BY <1>4, <1>6, <2>5
    <3>2. CASE bridge.at = "over"
      <4>1. /\ bridge' \in BridgeRecord /\ bridge'.at = "over" /\ bridge'.request = bridge.request
        BY <1>1, <3>1, <3>2 DEF Answered, BridgeRecord
      <4>2. BridgeShape' BY <1>1, <2>3, <3>2, <4>1 DEF BridgeShape, Busy
      <4> QED BY <4>1, <4>2, OverKept
    <3>3. CASE bridge.at # "over"
      <4>1. bridge.sent = "serving" /\ bridge.started = NoReply BY <1>1, <2>5, <3>3 DEF BridgeShape
      <4>2. PICK reply \in Reply : Answered(reply) /\ reply.state = "failed"
        BY <1>1, <2>1, <3>1, NextStatusTypes
      <4>3. /\ bridge' \in BridgeRecord /\ bridge.at = "waiting" /\ bridge'.at = "waiting"
            /\ bridge'.started = NoReply /\ bridge'.request = bridge.request
            /\ bridge'.outcome = bridge.outcome /\ bridge'.sent = "answered" /\ bridge'.reply = reply
        BY <1>1, <3>3, <4>1, <4>2, AnsweredShape
      <4>4. BridgeShape' BY <1>1, <2>2, <2>3, <4>3 DEF BridgeShape, Busy
      <4> QED
        BY <2>2, <4>2, <4>3, <4>4 DEF OwnsNothing, FirstAnswer, LaterAnswer, Success
    <3> QED BY <3>2, <3>3
  <2> QED BY <2>4, <2>5
<1>7. ASSUME NEW p \in FreePids, LaunchTask(p)
      PROVE  BridgeShape' /\ OwnsNothing' /\ FirstAnswer' /\ LaterAnswer'
  <2>1. p \in Pids /\ p # None /\ (Busy => p # own.runner) BY DaemonAssumption DEF FreePids, None
  <2>2. /\ ctl'.state = "running" /\ ctl'.task = p /\ ctl'.owner = call.client /\ ctl'.runnerPID = p
        /\ call' = NoCall
    BY <1>1, <1>7 DEF LaunchTask, Controller
  <2>3. call'.client # Bridge BY <2>2, ClientAssumption DEF NoCall, None
  <2>4. CASE call.client # Bridge
    <3>1. UNCHANGED <<bridge, own>> BY <1>4, <2>4
    <3> QED BY <1>1, <1>2, <2>1, <2>2, <2>3, <2>4, <3>1, ElsewhereKept
  <2>5. CASE call.client = Bridge
    <3>1. Answered(Status') BY <1>4, <2>2, <2>5
    <3>2. CASE bridge.at = "over"
      <4>1. /\ bridge' \in BridgeRecord /\ bridge'.at = "over" /\ bridge'.request = bridge.request
        BY <1>1, <3>1, <3>2 DEF Answered, BridgeRecord
      <4>2. own' = own BY <1>4, <3>2 DEF Busy
      <4>3. BridgeShape' BY <1>1, <3>2, <4>1, <4>2 DEF BridgeShape, Busy
      <4> QED BY <4>1, <4>3, OverKept
    <3>3. CASE bridge.at # "over"
      <4>1. bridge.sent = "serving" /\ bridge.started = NoReply BY <1>1, <2>5, <3>3 DEF BridgeShape
      <4>2. PICK reply \in Reply : /\ Answered(reply) /\ reply.daemon = faults' /\ reply.runner = p
                                   /\ reply.state = "running"
        BY <1>1, <2>2, <3>1, NextStatusTypes
      <4>3. /\ bridge' \in BridgeRecord /\ bridge.at = "waiting" /\ bridge'.at = "waiting"
            /\ bridge'.started = NoReply /\ bridge'.request = bridge.request
            /\ bridge'.outcome = bridge.outcome /\ bridge'.sent = "answered" /\ bridge'.reply = reply
        BY <1>1, <3>3, <4>1, <4>2, AnsweredShape
      <4>4. own' = [runner |-> p, verdict |-> None]
        BY <1>4, <2>1, <2>2, <2>5, <4>3 DEF Busy
      <4>5. own' \in OwnRun BY <2>1, <4>4 DEF OwnRun
      <4>6. BridgeShape' BY <1>1, <2>3, <4>3, <4>5 DEF BridgeShape, Busy
      <4>7. faults' \in Nat BY <1>1, DaemonAssumption DEF TypeOK
      <4>8. Follows(reply.daemon, reply.runner)'
        BY <2>1, <2>2, <2>5, <4>2, <4>3, <4>4, <4>7 DEF Follows
      <4>9. FirstAnswer' BY <4>2, <4>3, <4>8 DEF FirstAnswer, Success
      <4> QED BY <4>3, <4>6, <4>9 DEF OwnsNothing, Unanswered, LaterAnswer
    <3> QED BY <3>2, <3>3
  <2> QED BY <2>4, <2>5
<1> QED BY <1>3, <1>5, <1>6, <1>7

\* The task has ended and is judged: the command's own, or another's.
LEMMA CompletionKept ==
  ASSUME OwnerInv, ClientInv, NEW p \in Pids, Completion(p)
  PROVE  BridgeShape' /\ OwnsNothing' /\ FirstAnswer' /\ LaterAnswer'
<1>1. /\ ctl \in Controller /\ ctl.task = p /\ UNCHANGED <<call, bridge, faults>> /\ own \in OwnRun
  BY DEF OwnerInv, TypeOK, RunnerHasItsOwner, Completion, Complete, ClientInv, BridgeShape
<1>2. p # None /\ ctl.runnerPID = p
  BY <1>1, DaemonAssumption DEF ClientInv, TaskRuns, None
<1>3. /\ ctl'.task = None /\ ctl'.owner = None /\ ctl'.runnerPID = ctl.runnerPID
      /\ ctl'.state \in {"failed"} \cup Success
  <2>1. Judged(p).state \in {"failed", "cleaned", "finished", "interrupted"}
    BY VerdictTypes DEF Judged
  <2>2. ctl'.state = Judged(p).state /\ ctl'.task = None /\ ctl'.owner = None
        /\ ctl'.runnerPID = ctl.runnerPID
    BY <1>1 DEF Completion, Complete, Controller
  <2> QED BY <2>1, <2>2 DEF Success
<1>4. ctl'.owner # Bridge BY <1>3, ClientAssumption DEF None
<1>5. own' = IF ctl.owner = Bridge /\ Busy THEN [own EXCEPT !.verdict = ctl'.state] ELSE own
  BY DEF Completion
<1>6. /\ own' \in OwnRun /\ own'.runner = own.runner
      /\ ctl.owner = Bridge /\ Busy => own'.verdict = ctl'.state
      /\ ctl.owner # Bridge => own' = own
  BY <1>1, <1>3, <1>5 DEF OwnRun
<1>7. ASSUME Busy, NEW n, NEW r, Follows(n, r) PROVE Follows(n, r)'
  <2>1. r # None BY <1>7, DaemonAssumption DEF Follows, None
  <2> QED BY <1>1, <1>2, <1>3, <1>4, <1>6, <1>7, <2>1 DEF Follows
<1>8. BridgeShape' BY <1>1, <1>6 DEF ClientInv, BridgeShape, Busy
<1>9. OwnsNothing' BY <1>4 DEF OwnsNothing
<1>10. FirstAnswer'
  <2>1. PICK n, r : n = bridge.reply.daemon /\ r = bridge.reply.runner OBVIOUS
  <2>2. bridge.at = "waiting" => (Follows(n, r) => Follows(n, r)') BY <1>7 DEF Busy
  <2> QED BY <1>1, <2>1, <2>2 DEF ClientInv, FirstAnswer, Hold
<1>11. LaterAnswer'
  <2>1. PICK n, r : n = bridge.started.daemon /\ r = bridge.started.runner OBVIOUS
  <2>2. Busy => (Follows(n, r) => Follows(n, r)') BY <1>7
  <2> QED BY <1>1, <1>4, <1>6, <2>1, <2>2 DEF ClientInv, LaterAnswer, Busy, SameRun
<1> QED BY <1>8, <1>9, <1>10, <1>11

\* The daemon dies: its successor has another identity, and an answer that has come stays.
LEMMA DeathKept ==
  ASSUME OwnerInv, ClientInv, Death
  PROVE  BridgeShape' /\ OwnsNothing' /\ FirstAnswer' /\ LaterAnswer'
<1>1. /\ bridge \in BridgeRecord /\ own \in OwnRun /\ UNCHANGED own /\ faults' = faults + 1
      /\ faults \in Nat
  <2>1. faults \in 0..MaxFaults BY DEF OwnerInv, TypeOK
  <2>2. faults \in Nat BY <2>1, DaemonAssumption
  <2> QED BY <2>2 DEF ClientInv, BridgeShape, Death, DaemonDies
<1>2. call'.client # Bridge /\ ctl'.owner # Bridge
  BY ClientAssumption DEF Death, DaemonDies, NoCall, IdleController, None
<1>3. PICK sent \in {bridge.sent, IF bridge.at = "waiting" THEN "error" ELSE None} :
        /\ bridge.sent \in {None, "answered", "error"} => sent = bridge.sent
        /\ bridge' = [bridge EXCEPT !.sent = sent, !.broken = Busy]
  BY DEF Death
<1>4. /\ bridge' \in BridgeRecord /\ bridge'.at = bridge.at /\ bridge'.sent = sent
      /\ bridge'.started = bridge.started /\ bridge'.reply = bridge.reply
      /\ bridge'.request = bridge.request /\ bridge'.outcome = bridge.outcome
  <2>1. Busy \in BOOLEAN /\ sent \in {None, "queued", "serving", "answered", "error"}
    BY <1>1, <1>3 DEF Busy, BridgeRecord
  <2> QED BY <1>1, <1>3, <2>1 DEF BridgeRecord
<1>5. sent = "answered" => bridge.sent = "answered" BY <1>3 DEF None
<1>6. ASSUME NEW n \in Nat, NEW r, Follows(n, r) PROVE Follows(n, r)'
  <2>1. n <= faults /\ r \in Pids /\ own.runner = r BY <1>6 DEF Follows
  <2>2. n <= faults' /\ n # faults' BY <1>1, <2>1
  <2> QED BY <1>1, <2>1, <2>2 DEF Follows
<1>7. BridgeShape'
  BY <1>1, <1>2, <1>3, <1>4 DEF ClientInv, BridgeShape, Busy, None
<1>8. OwnsNothing' BY <1>2 DEF OwnsNothing
<1>9. \A d \in Reply : d.daemon \in Nat BY DaemonAssumption DEF Reply
<1>10. bridge.reply \in Reply /\ bridge.started \in Reply BY <1>1 DEF BridgeRecord
<1>11. FirstAnswer'
  <2>1. PICK n, r : n = bridge.reply.daemon /\ r = bridge.reply.runner OBVIOUS
  <2>2. n \in Nat /\ (Follows(n, r) => Follows(n, r)') BY <1>6, <1>9, <1>10, <2>1
  <2> QED BY <1>4, <1>5, <2>1, <2>2 DEF ClientInv, FirstAnswer, Hold
<1>12. LaterAnswer'
  <2>1. PICK n, r : n = bridge.started.daemon /\ r = bridge.started.runner OBVIOUS
  <2>2. n \in Nat /\ (Follows(n, r) => Follows(n, r)') BY <1>6, <1>9, <1>10, <2>1
  <2> QED BY <1>1, <1>2, <1>4, <1>5, <2>1, <2>2 DEF ClientInv, LaterAnswer, Busy, SameRun
<1> QED BY <1>7, <1>8, <1>11, <1>12

\* What the other clients, the runners and the end of the connection do.
LEMMA OthersKept ==
  ASSUME OwnerInv, ClientInv,
         \/ (Others \/ Runners) /\ UNCHANGED <<bridge, own>>
         \/ Hangup \/ Over \/ UNCHANGED clientVars
  PROVE  BridgeShape' /\ OwnsNothing' /\ FirstAnswer' /\ LaterAnswer'
<1>1. TypeOK BY DEF OwnerInv
<1>2. ASSUME NEW c \in Clients \ {Bridge}, NEW mode \in Modes, Request(c, mode), UNCHANGED <<bridge, own>>
      PROVE  BridgeShape' /\ OwnsNothing' /\ FirstAnswer' /\ LaterAnswer'
  <2>1. UNCHANGED faults /\ ctl.task = None /\ ctl \in Controller
    BY <1>1, <1>2 DEF Request, Admitted, TypeOK
  <2>2. ctl.owner = None BY <2>1 DEF ClientInv, TaskRuns
  <2>3. ctl'.owner = None /\ ctl'.runnerPID = None
    <3>1. CASE ctl' = Failed("owner_lost") BY <3>1 DEF Failed, IdleController
    <3>2. CASE ctl' = [ctl EXCEPT !.reason = None, !.runnerPID = None]
      BY <2>1, <2>2, <3>2 DEF Controller
    <3> QED BY <1>2, <3>1, <3>2 DEF Request
  <2>4. call'.client = call.client \/ call'.client # Bridge BY <1>2 DEF Request
  <2>5. ctl'.owner # Bridge BY <2>3, ClientAssumption DEF None
  <2> QED BY <1>2, <2>1, <2>3, <2>4, <2>5, ElsewhereKept
<1>3. CASE UNCHANGED <<ctl, call, faults, bridge, own>> BY <1>3, ElsewhereKept
<1>4. CASE Others /\ UNCHANGED <<bridge, own>>
  BY <1>2, <1>3, <1>4 DEF Others, Connect, Disconnect
<1>5. CASE Runners /\ UNCHANGED <<bridge, own>>
  <2>1. ASSUME NEW p \in Pids, RunnerStep(p) PROVE UNCHANGED <<ctl, call, faults>>
    BY <2>1 DEF RunnerStep, Enter, LockOpen, LockOpenFails, LockFlock, LockCheck, Probe, OwnerLost,
                CleanupRefused, CleanupExecutable, CleanupStaging, UnlinkLock, RemoveDirectory
  <2> QED BY <1>3, <1>5, <2>1 DEF Runners, ReapOrphan, WorkersGone
<1>6. CASE Hangup
  <2>1. PICK sent \in {bridge.sent, IF bridge.sent = "queued" THEN None ELSE bridge.sent} :
          bridge' = [bridge EXCEPT !.sent = sent, !.outcome = None]
    BY <1>6 DEF Hangup
  <2>2. bridge \in BridgeRecord /\ bridge.at = "over" BY <1>6 DEF ClientInv, BridgeShape, Hangup
  <2>3. bridge' \in BridgeRecord /\ bridge'.at = "over" /\ bridge'.request = bridge.request
    BY <2>1, <2>2 DEF BridgeRecord
  <2>4. own' \in OwnRun BY <1>6, BridgeTypes DEF Hangup
  <2>5. BridgeShape' BY <2>2, <2>3, <2>4 DEF ClientInv, BridgeShape, Busy
  <2> QED BY <2>3, <2>5, OverKept
<1>7. CASE Over \/ UNCHANGED clientVars BY <1>3, <1>7 DEF Over, clientVars, vars
<1> QED BY <1>4, <1>5, <1>6, <1>7

\* Every step of the client and its daemon keeps the whole invariant.
LEMMA ClientStep ==
  OwnerInv /\ LockInv /\ ClientInv /\ [ClientNext]_clientVars =>
    (OwnerInv /\ LockInv /\ ClientInv)'
<1> SUFFICES ASSUME OwnerInv, LockInv, ClientInv, [ClientNext]_clientVars
             PROVE  OwnerInv' /\ LockInv' /\ ClientInv'
  OBVIOUS
<1>1. [Next]_vars BY ClientDaemon
<1>2. OwnerInv' /\ LockInv' BY <1>1, StepInv
<1>3. TaskRuns' BY <1>1, TaskRunsKept DEF ClientInv
<1>4. BridgeShape' /\ OwnsNothing' /\ FirstAnswer' /\ LaterAnswer'
  BY <1>2, BridgeKept, ServeKept, LaunchingKept, CompletionKept, DeathKept, OthersKept
  DEF ClientNext
<1> QED BY <1>2, <1>3, <1>4 DEF ClientInv

\* The invariant of the client and its daemon.
LEMMA ClientSpecInv == ClientSpec => [](OwnerInv /\ LockInv /\ ClientInv)
<1>1. ClientInit => OwnerInv /\ LockInv /\ ClientInv
  <2> SUFFICES ASSUME ClientInit PROVE OwnerInv /\ LockInv /\ ClientInv OBVIOUS
  <2>1. OwnerInv /\ LockInv BY InitOwner, InitLock DEF ClientInit
  <2>2. ctl = IdleController /\ call = NoCall /\ bridge = NoCommand /\ own = NoRun
    BY DEF ClientInit, Init
  <2>3. TaskRuns BY <2>2 DEF IdleController, TaskRuns, None
  <2>4. call.client # Bridge /\ ctl.owner # Bridge
    BY <2>2, ClientAssumption DEF NoCall, IdleController, None
  <2>5. BridgeShape BY <2>2, <2>4, BridgeTypes DEF BridgeShape, Busy
  <2>6. OwnsNothing /\ FirstAnswer /\ LaterAnswer
    BY <2>2, <2>4, BridgeTypes DEF OwnsNothing, FirstAnswer, LaterAnswer, Busy
  <2> QED BY <2>1, <2>3, <2>5, <2>6 DEF ClientInv
<1> QED BY <1>1, ClientStep, PTL DEF ClientSpec

\* The client is one of the clients that ProbeDaemon allows: whatever is proved of the
\* daemon holds for the daemon that this client talks to (fetchDaemon's requests reach
\* startForOwner, startCrashForOwner, resumeForOwner and cleanupForOwner like anybody's).
THEOREM ClientIsAClient == ClientSpec => Spec
<1>1. ClientInit => Init BY DEF ClientInit
<1>2. ClientInv /\ [ClientNext]_clientVars => [Next]_vars BY ClientDaemon
<1> QED BY <1>1, <1>2, ClientSpecInv, PTL DEF ClientSpec, Spec

\* A success that a command reports after polling, and any success of resume or cleanup,
\* is the verdict on the runner which this command started, however many clients, deaths
\* of the daemon and polls there are (fetchDaemon, HelperSupervisorSameRunValid).
THEOREM OwnResult == ClientSpec => ResultIsOwn
<1>1. ClientInv /\ [ClientNext]_clientVars =>
        [/\ Busy /\ bridge'.outcome = "result"
         /\ bridge.reply.state \in {"finished", "cleaned", "interrupted"}
         /\ bridge.started # NoReply \/ bridge.request \in {"resume", "cleanup"}
         => own = [runner |-> bridge.reply.runner, verdict |-> bridge.reply.state]]_clientVars
  <2> SUFFICES ASSUME ClientInv, ClientNext, Busy, bridge'.outcome = "result",
                      bridge.reply.state \in Success,
                      bridge.started # NoReply \/ bridge.request \in {"resume", "cleanup"}
               PROVE  own = [runner |-> bridge.reply.runner, verdict |-> bridge.reply.state]
    BY DEF Success
  <2>1. bridge.outcome = None /\ bridge \in BridgeRecord /\ bridge.at \notin {"idle", "over"}
    BY DEF ClientInv, BridgeShape, Busy
  <2>2. ASSUME NEW o \in {"error", "timeout", "killed"}, Return(o) PROVE FALSE
    BY <2>1, <2>2, ReturnShape DEF ClientInv
  <2>3. bridge'.outcome # bridge.outcome BY <2>1 DEF None
  <2>4. ~Sleep /\ ~Wake
    <3>1. ~Sleep BY <2>1, <2>3 DEF Sleep, BridgeRecord
    <3>2. bridge' # [bridge EXCEPT !.at = "waiting", !.sent = "queued", !.reply = NoReply,
                                   !.polls = @ + 1]
      BY <2>1, <2>3 DEF BridgeRecord
    <3> QED BY <2>2, <3>1, <3>2 DEF Wake
  <2>5. Receive
    <3>1. ~ReceiveError /\ ~Timeout /\ ~ClientDies
      BY <2>2 DEF ReceiveError, Timeout, ClientDies
    <3>2. \A request : ~Command(request)
      BY <2>1, BridgeTypes DEF Command
    <3>3. ~Interrupted /\ ~Death
      BY <2>1, <2>3 DEF Interrupted, Death, BridgeRecord
    <3>4. \A reply : ~Answered(reply)
      BY <2>1, <2>3 DEF Answered, BridgeRecord
    <3>5. ~Serve
      <4>1. bridge' # [bridge EXCEPT !.sent = "serving"] BY <2>1, <2>3 DEF BridgeRecord
      <4> QED BY <3>4, <4>1 DEF Serve
    <3>6. ~Launching BY <2>3, <3>4 DEF Launching
    <3>7. ~Hangup /\ ~Over BY <2>1 DEF Hangup, Over
    <3>8. \A p : ~Completion(p) BY <2>3 DEF Completion
    <3> QED
      BY <2>3, <2>4, <3>1, <3>2, <3>3, <3>5, <3>6, <3>7, <3>8 DEF ClientNext, BridgeStep
  <2>6. bridge.started # NoReply /\ SameRun(bridge.started, bridge.reply) /\ bridge.sent = "answered"
    <3>1. CASE bridge.started = NoReply
      <4>1. bridge.request \in {"resume", "cleanup"} /\ Hold BY <3>1 DEF Hold
      <4> QED BY <2>5, <3>1, <4>1 DEF Receive, ClientInv, FirstAnswer
    <3>2. CASE bridge.started # NoReply BY <2>2, <2>5, <3>2 DEF Receive
    <3> QED BY <3>1, <3>2
  <2> QED BY <2>6 DEF ClientInv, LaterAnswer
<1> QED BY <1>1, ClientSpecInv, PTL DEF ClientSpec, ResultIsOwn
============================================================================
