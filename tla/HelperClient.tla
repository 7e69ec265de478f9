---------------------------- MODULE HelperClient ----------------------------
(***************************************************************************)
(* The client's side of the supervisor probe: one command of the desktop   *)
(* app (HelperProbeCommand.kt) is one call of fetchDaemon                  *)
(* (HelperProbeBridge.m), which sends a request over a signed connection,  *)
(* keeps that connection while the runner it asked for is running, polls   *)
(* the daemon's status on it and invalidates it at the end.                *)
(*                                                                         *)
(* Bridge is the client with this code; the other clients of ProbeDaemon   *)
(* do what they like.  The daemon may die, and a message then fails or is  *)
(* delivered to the next daemon on the same connection; the interruption   *)
(* handler runs when it runs.                                              *)
(***************************************************************************)
EXTENDS ProbeDaemon

CONSTANTS
  Bridge,     \* the client that runs fetchDaemon
  MaxPolls,   \* how many polls of 200 ms fit into the 180 s of a call
  MaxOthers   \* bound: requests of the other clients that are admitted

ASSUME ClientAssumption ==
  /\ Bridge \in Clients /\ "none" \notin Clients
  /\ MaxPolls \in Nat \ {0} /\ MaxOthers \in Nat

VARIABLES
  bridge,   \* the local variables of fetchDaemon and its connection
  own,      \* history: the runner the command started, and its verdict
  others    \* requests of the other clients so far

clientVars == <<vars, bridge, own, others>>

\* The reply of the controller; an incarnation of the daemon stands for its pid.
Reply == [daemon : 0..MaxFaults, runner : Pids \cup {None},
          state : {"idle", "running", "failed", "cleaned", "finished", "interrupted", None},
          reason : {None, "signature", "launch", "exit", "contract", "owner_lost", "busy"}]

NoReply == [daemon |-> 0, runner |-> None, state |-> None, reason |-> None]

\* The supervisor's commands; all but the last hold the connection.
Requests == Modes \cup {"status"}

\* sent is the message on its way: queued, in the controller's hands ("serving"),
\* answered, or reported to the error handler of the proxy.
BridgeRecord ==
  [at : {"idle", "waiting", "sleeping", "over"}, request : Requests \cup {None},
   sent : {None, "queued", "serving", "answered", "error"}, reply : Reply,
   started : Reply, polls : 0..MaxPolls, broken : BOOLEAN, disconnected : BOOLEAN,
   open : BOOLEAN, outcome : {None, "result", "error", "timeout", "killed"}]

NoCommand ==
  [at |-> "idle", request |-> None, sent |-> None, reply |-> NoReply, started |-> NoReply,
   polls |-> 0, broken |-> FALSE, disconnected |-> FALSE, open |-> FALSE, outcome |-> None]

NoRun == [runner |-> None, verdict |-> None]

ClientInit == Init /\ bridge = NoCommand /\ own = NoRun /\ others = 0

-----------------------------------------------------------------------------
(* The client.                                                             *)

\* The connection is made and the request sent.  One command is one process; the
\* commands before and after it are the other clients'.
Command(request) ==
  /\ bridge = NoCommand
  /\ bridge' = [NoCommand EXCEPT !.at = "waiting", !.request = request, !.sent = "queued", !.open = TRUE]
  /\ UNCHANGED <<vars, own, others>>

Hold == bridge.request # "status"

\* The call of fetchDaemon has not returned.
Busy == bridge.at \in {"waiting", "sleeping"}

\* What the present message asks for: the command's request, then the status.
Asks == IF bridge.started = NoReply THEN bridge.request ELSE "status"

\* The last test of fetchDaemon.
Outcome(outcome) == IF outcome = "result" /\ Hold /\ bridge.disconnected THEN "error" ELSE outcome

Pending == IF bridge.sent \in {"queued", "serving"} THEN bridge.sent ELSE None

\* Mutant: a call that fails leaves its connection to the end of the process.
Return_OnlyResults(outcome) ==
  bridge' = [NoCommand EXCEPT !.at = "over", !.request = Asks, !.sent = Pending,
                              !.outcome = Outcome(outcome), !.open = outcome # "result"]

\* Whatever ended the call, the connection is invalidated.  A message that is
\* still on its way may be served all the same.
Return(outcome) ==
  bridge' = [NoCommand EXCEPT !.at = "over", !.request = Asks, !.sent = Pending,
                              !.outcome = Outcome(outcome), !.open = FALSE]

\* Mutant: the identity of the runner is not compared.
SameRun_AnyRunner(started, reply) == started.daemon = reply.daemon

\* HelperSupervisorSameRunValid.
SameRun(started, reply) == started.daemon = reply.daemon /\ started.runner = reply.runner

Sleep == bridge' = [bridge EXCEPT !.at = "sleeping", !.sent = None,
                      !.started = IF @ = NoReply THEN bridge.reply ELSE @]

\* The semaphore is signalled with a reply: the first one, or one of the loop.
Receive ==
  /\ bridge.at = "waiting" /\ bridge.sent = "answered"
  /\ IF bridge.started = NoReply
       THEN IF Hold /\ bridge.reply.state = "running" THEN Sleep ELSE Return("result")
       ELSE IF bridge.disconnected \/ ~SameRun(bridge.started, bridge.reply) THEN Return("error")
       ELSE IF bridge.reply.state = "running" THEN Sleep ELSE Return("result")

ReceiveError ==
  /\ bridge.at = "waiting" /\ bridge.sent = "error"
  /\ Return("error")

\* Five seconds without an answer.
Timeout ==
  /\ bridge.at = "waiting" /\ bridge.sent \notin {"answered", "error"}
  /\ Return("timeout")

\* Mutant: the loop has no deadline of its own.
Wake_Forever ==
  /\ bridge.at = "sleeping"
  /\ bridge' = [bridge EXCEPT !.at = "waiting", !.sent = "queued", !.reply = NoReply]

\* After 200 ms: the deadline, which is sure to have passed after MaxPolls of
\* them, or another poll.
Wake ==
  /\ bridge.at = "sleeping"
  /\ \/ Return("timeout")
     \/ /\ bridge.polls < MaxPolls
        /\ bridge' = [bridge EXCEPT !.at = "waiting", !.sent = "queued", !.reply = NoReply,
                                    !.polls = @ + 1]

BridgeStep == (Receive \/ ReceiveError \/ Timeout \/ Wake) /\ UNCHANGED <<vars, own, others>>

\* The interruption handler.
Interrupted ==
  /\ bridge.broken
  /\ bridge' = [bridge EXCEPT !.broken = FALSE, !.disconnected = TRUE]
  /\ UNCHANGED <<vars, own, others>>

\* The process of the client is killed: its connection goes with it.
ClientDies ==
  /\ Busy
  /\ Return("killed")
  /\ UNCHANGED <<vars, own, others>>

-----------------------------------------------------------------------------
(* The daemon, as this client meets it.                                    *)

Status == [daemon |-> faults, runner |-> ctl.runnerPID, state |-> ctl.state, reason |-> ctl.reason]

BusyStatus == [Status EXCEPT !.state = "failed", !.reason = "busy"]

\* A reply to a client that has gone is dropped.
Answered(reply) ==
  bridge' = IF bridge.at = "waiting" THEN [bridge EXCEPT !.sent = "answered", !.reply = reply]
            ELSE [bridge EXCEPT !.sent = None]

\* The status, and a request that is refused, change nothing in the daemon.
Serve ==
  /\ bridge.sent = "queued" /\ call = NoCall
  /\ IF Asks = "status" \/ ~Admitted(Asks)
       THEN /\ Answered(IF Asks # "status" /\ ctl.task # None /\ ctl.owner # Bridge
                        THEN BusyStatus ELSE Status)
            /\ UNCHANGED vars
       ELSE /\ Request(Bridge, Asks)
            /\ IF call' = NoCall THEN Answered(Status') ELSE bridge' = [bridge EXCEPT !.sent = "serving"]
  /\ UNCHANGED <<own, others>>

\* Pids are handed out in turn, so the one this client remembers is not used again
\* while it does; which of the others it is makes no difference.
FreePids == {p \in Pids : proc[p].pc = "free" /\ (Busy => p # own.runner)}

\* A launch goes on; its end is the reply to whoever asked for it.
Launching ==
  /\ \/ \E ok \in BOOLEAN : StageCreate(ok) \/ StageFinish(ok)
     \/ OpenChannel
     \/ FreePids # {} /\ LaunchTask(CHOOSE p \in FreePids : TRUE)
     \/ LaunchTaskFails
  /\ own' = IF call.client = Bridge /\ Busy /\ ctl'.task # None
              THEN [runner |-> ctl'.task, verdict |-> None] ELSE own
  /\ IF call.client = Bridge /\ call' = NoCall THEN Answered(Status') ELSE UNCHANGED bridge
  /\ UNCHANGED others

Completion(p) ==
  /\ Complete(p)
  /\ own' = IF ctl.owner = Bridge /\ Busy THEN [own EXCEPT !.verdict = ctl'.state] ELSE own
  /\ UNCHANGED <<bridge, others>>

\* The daemon learns that the connection is gone; messages in it may be lost.
Hangup ==
  /\ bridge.at = "over" /\ ~bridge.open /\ Disconnect(Bridge)
  /\ \E sent \in {bridge.sent, IF bridge.sent = "queued" THEN None ELSE bridge.sent} :
       bridge' = [bridge EXCEPT !.sent = sent, !.outcome = None]
  /\ own' = NoRun
  /\ UNCHANGED others

\* A message that nobody has taken may reach the next daemon.
Death ==
  /\ DaemonDies
  /\ \E sent \in {bridge.sent, IF bridge.at = "waiting" THEN "error" ELSE None} :
       /\ bridge.sent = "serving" => sent # "serving"
       /\ bridge.sent \in {None, "answered", "error"} => sent = bridge.sent
       /\ bridge' = [bridge EXCEPT !.sent = sent, !.broken = Busy]
  /\ UNCHANGED <<own, others>>

Others == \E c \in Clients \ {Bridge} :
  \/ Connect(c) /\ others < MaxOthers /\ UNCHANGED others
  \/ Disconnect(c) /\ UNCHANGED others
  \/ \E mode \in Modes : Request(c, mode) /\ others < MaxOthers /\ others' = others + 1

Runners ==
  /\ \/ \E p \in Pids : RunnerStep(p) \/ ReapOrphan(p)
     \/ \E i \in Inodes : WorkersGone(i)
  /\ UNCHANGED others

\* The command has been answered and nobody asks for another.
Over == bridge.at = "over" /\ bridge.sent = None /\ others = MaxOthers /\ UNCHANGED clientVars

ClientNext ==
  \/ \E request \in Requests : Command(request)
  \/ BridgeStep \/ Interrupted \/ ClientDies
  \/ Serve \/ Launching \/ Hangup \/ Death
  \/ \E p \in Pids : Completion(p)
  \/ (Others \/ Runners) /\ UNCHANGED <<bridge, own>>
  \/ Over

\* What a runner does without being asked, at whichever of its steps it is.
Progress(p) ==
  \/ /\ \/ Enter(p) \/ LockOpen(p) \/ LockFlock(p) \/ LockCheck(p)
        \/ \E left \in BOOLEAN : OwnerLost(p, left)
        \/ CleanupRefused(p) \/ CleanupExecutable(p) \/ CleanupStaging(p)
        \/ UnlinkLock(p) \/ RemoveDirectory(p) \/ ReapOrphan(p)
     /\ UNCHANGED <<bridge, own, others>>
  \/ Completion(p)

\* The client's process runs, a wait meets its limit, the daemon serves its
\* connections, and the daemon and its runners are as fair as in ProbeDaemon.
ClientFairness ==
  /\ WF_clientVars(BridgeStep) /\ WF_clientVars(Serve)
  /\ WF_clientVars(Hangup) /\ WF_clientVars(Launching)
  /\ \A p \in Pids : WF_clientVars(Progress(p))

ClientSpec == ClientInit /\ [][ClientNext]_clientVars /\ ClientFairness

-----------------------------------------------------------------------------
(* Properties.                                                             *)

\* The type of the bridge's variables, beside those of ProbeDaemon.
ClientTypeOK ==
  /\ TypeOK
  /\ bridge \in BridgeRecord
  /\ own.runner \in Pids \cup {None}
  /\ bridge.at = "waiting" => bridge.sent # None

\* A success that a command reports after it has polled, and any success of resume
\* or cleanup, is the verdict on the runner this very command started: never the
\* result of another client's runner, of an earlier run or of a daemon that took
\* the place of the one that was asked (fetchDaemon, HelperSupervisorSameRunValid).
\* Only start may return the result of an earlier run, at once.
ResultIsOwn ==
  [][/\ Busy /\ bridge'.outcome = "result"
     /\ bridge.reply.state \in {"finished", "cleaned", "interrupted"}
     /\ bridge.started # NoReply \/ bridge.request \in {"resume", "cleanup"}
     => own = [runner |-> bridge.reply.runner, verdict |-> bridge.reply.state]]_clientVars

\* Every command returns, even from a daemon that does not answer or a probe that
\* never ends (the 5 s of a wait, the 180 s of the loop in fetchDaemon).
CommandReturns == Busy ~> ~Busy

\* However a command ended, by a result, an error, a time limit or a signal, the
\* runner it started does not go on for ever (invalidate, releaseChannel,
\* supervisor_runner_lifetime_check).
LeavesNoRunner ==
  bridge.at = "over" /\ ctl.owner = Bridge ~> ctl.owner # Bridge
=============================================================================
