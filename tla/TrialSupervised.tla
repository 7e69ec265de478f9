--------------------------- MODULE TrialSupervised ---------------------------
(***************************************************************************)
(* The command line of smc-write-trial and the two scripts that run it     *)
(* under supervision.  A script runs one child at a time: two dry runs,    *)
(* the trial, an observer that is a process of its own and, if need be,    *)
(* the recovery command with another observer.  The child is the program   *)
(* of TrialRuns behind the gate of main, its preflight and its prompt; a   *)
(* signal may reach the script, the child or both, and the child may be    *)
(* killed at any time.                                                     *)
(***************************************************************************)
EXTENDS TrialRuns

CONSTANTS
    Scripts,            \* the scripts of this instance
    Binaries,           \* "current" has its trials suspended, "reviewed" had not yet
    PreflightSamples,   \* TRIAL_PREFLIGHT_SAMPLES
    MaxSignals          \* bound: signals sent to the script and its children

Supervised == {"ftst-supervised", "ftst-minimum-supervised"}

ASSUME SupervisedAssumption ==
    /\ Scripts \subseteq Supervised \cup {"command line"}
    /\ Binaries \subseteq {"current", "reviewed"}
    /\ PreflightSamples \in Nat \ {0} /\ MaxSignals \in Nat

VARIABLES
    sh,         \* the script: where it is and what it knows
    child,      \* the process it runs, beside p: how it was called and what it returned
    signals     \* signals sent so far

supervisedVars == <<vars, sh, child, signals>>

\* What outside the SMC makes a command refuse: another machine or system, no
\* root, no terminal, another answer to the prompt, too little headroom, heat
Refusals == {FALSE} \cup (IF "refuse" \in Faults THEN {TRUE} ELSE {})

-----------------------------------------------------------------------------
(* The child *)

\* Every process starts its own flags and its own history of readings
Launch(cmd, form) ==
    /\ p' = [Started(cmd) EXCEPT !.at = "main"]
    /\ child' = [form |-> form, handlers |-> FALSE, code |-> 0]
    /\ interrupted' = FALSE
    /\ quiet' = -1
    /\ pair' = FALSE
    /\ UNCHANGED <<hw, late, wrote>>

Exit(code) ==
    /\ p' = Goto(p, "exited")
    /\ child' = [child EXCEPT !.code = code]

\* TRIAL_EXIT_NO_WRITE for the reviewed trials
NoWriteCode == IF child.form = "apply" /\ p.entry \in {"check", "rehearse"} THEN 2 ELSE 1

\* main, smc_open and exact_environment
Main ==
    /\ p.at = "main"
    /\ \E refused \in Refusals :
        IF refused \/ (sh.binary = "current" /\ child.form = "apply" /\ p.entry \in Trials)
        THEN Exit(NoWriteCode)
        ELSE /\ p' = CASE p.entry \in Trials   -> Goto(p, "preflight")
                       [] p.entry \in Commands -> Goto(p, "look")
                       [] p.entry = "observe"  -> Call(p, "observe", "observed")
             /\ child' = [child EXCEPT !.handlers = p.entry = "observe"]
    /\ NoAccess

\* collect_preflight, before the prompt and again after it
Preflight ==
    /\ p.at \in {"preflight", "preflight_again"}
    /\ \E r \in Reads, refused \in Refusals :
        LET last == p.second + 1 = PreflightSamples IN
        /\ Read(r, 0)
        /\ IF ~Baseline(r.seen) \/ (~last /\ interrupted) \/ (last /\ refused)
           THEN Exit(NoWriteCode)
           ELSE IF last /\ child.form = "dry" THEN Exit(0)
           ELSE /\ p' = IF ~last THEN [p EXCEPT !.second = @ + 1]
                        ELSE [p EXCEPT !.second = 0,
                                       !.at = IF @ = "preflight" THEN "confirm" ELSE p.entry]
                /\ UNCHANGED child

\* Root, the prompt, install_signal_handlers
Confirm ==
    /\ p.at = "confirm"
    /\ \E refused \in Refusals :
        IF refused THEN Exit(NoWriteCode)
        ELSE p' = Goto(p, "preflight_again") /\ child' = [child EXCEPT !.handlers = TRUE]
    /\ NoAccess

\* run_restore and run_restore_unlock up to the recovery itself.  They install
\* no signal handlers (run_restore only for the window at its end).
Look ==
    /\ p.at = "look"
    /\ \E r \in Reads, refused \in Refusals :
        /\ Read(r, 0)
        /\ IF r.seen = NoReading THEN Exit(1)
           ELSE IF child.form = "dry" THEN Exit(0)
           ELSE IF refused THEN Exit(1)
           ELSE p' = Goto(p, "command") /\ UNCHANGED child

\* Mutant: what was not verified also counts as not written
Report_FailureIsNoWrite ==
    /\ p.at \in {"done", "observed"}
    /\ Exit(IF p.status \in {"SUCCEEDED", "RESTORED"} \/ p.rv = "stable" THEN 0
            ELSE IF p.status \in {"BASELINE_REJECTED", "WRITE_EFFECT_UNVERIFIED"} THEN 2
            ELSE 1)
    /\ NoAccess

\* The exit code
Report ==
    /\ p.at \in {"done", "observed"}
    /\ Exit(IF p.status \in {"SUCCEEDED", "RESTORED"} \/ p.rv = "stable" THEN 0
            ELSE IF p.status = "BASELINE_REJECTED" THEN 2
            ELSE 1)
    /\ NoAccess

Child ==
    \/ Program /\ UNCHANGED child
    \/ Main \/ Preflight \/ Confirm \/ Look \/ Report

-----------------------------------------------------------------------------
(* The script *)

Trial == IF sh.script = "ftst-supervised" THEN "check" ELSE "rehearse"

\* Mutant: the script ends as soon as its trial has ended well
AfterTrial_NoObserver ==
    /\ sh.at = "trial"
    /\ IF child.code \in {0, 2}
       THEN sh' = [sh EXCEPT !.at = "ended", !.exit = child.code] /\ UNCHANGED <<vars, child>>
       ELSE sh' = [sh EXCEPT !.at = "observe", !.trial = child.code] /\ Launch("observe", "apply")

\* Exit code 2 means that nothing was written and nothing has to be watched
AfterTrial ==
    /\ sh.at = "trial"
    /\ IF child.code = 2
       THEN sh' = [sh EXCEPT !.at = "ended", !.exit = 2] /\ UNCHANGED <<vars, child>>
       ELSE sh' = [sh EXCEPT !.at = "observe", !.trial = child.code] /\ Launch("observe", "apply")

\* The minimum-target script recovers after a failed trial as well
AfterObserver ==
    /\ sh.at = "observe"
    /\ IF child.code # 0 \/ (sh.script = "ftst-minimum-supervised" /\ sh.trial # 0)
       THEN sh' = [sh EXCEPT !.at = "recover"] /\ Launch("unlock", "apply")
       ELSE /\ sh' = [sh EXCEPT !.at = "ended", !.exit = IF sh.trial = 0 THEN 0 ELSE 1]
            /\ UNCHANGED <<vars, child>>

\* Mutant: only the recovery command is asked whether the system has its fans back
AfterRecovery_TrustsCommand ==
    \/ /\ sh.at = "recover"
       /\ sh' = [sh EXCEPT !.at = "recover_observe", !.recovery = child.code]
       /\ Launch("observe", "apply")
    \/ /\ sh.at = "recover_observe"
       /\ sh' = [sh EXCEPT !.at = "ended", !.exit = IF sh.trapped THEN 1 ELSE 130,
                           !.reboot = sh.recovery # 0]
       /\ UNCHANGED <<vars, child>>

\* recover_and_verify: the recovery command, then an observer whatever it returned
AfterRecovery ==
    \/ /\ sh.at = "recover"
       /\ sh' = [sh EXCEPT !.at = "recover_observe", !.recovery = child.code]
       /\ Launch("observe", "apply")
    \/ /\ sh.at = "recover_observe"
       /\ sh' = [sh EXCEPT !.at = "ended", !.exit = IF sh.trapped THEN 1 ELSE 130,
                           !.reboot = sh.recovery # 0 \/ child.code # 0]
       /\ UNCHANGED <<vars, child>>

\* The dry runs come before the trial; trial_started is set before it is run
Precheck ==
    /\ sh.at \in {"precheck_unlock", "precheck_trial", "starting"}
    /\ IF child.code # 0
       THEN sh' = [sh EXCEPT !.at = "ended", !.exit = 2] /\ UNCHANGED <<vars, child>>
       ELSE CASE sh.at = "precheck_unlock" ->
                    sh' = [sh EXCEPT !.at = "precheck_trial"] /\ Launch(Trial, "dry")
              [] sh.at = "precheck_trial" ->
                    sh' = [sh EXCEPT !.at = "starting", !.started = TRUE] /\ UNCHANGED <<vars, child>>
              [] sh.at = "starting" ->
                    sh' = [sh EXCEPT !.at = "trial"] /\ Launch(Trial, "apply")

CommandEnded ==
    /\ sh.at = "command"
    /\ sh' = [sh EXCEPT !.at = "ended", !.exit = child.code]
    /\ UNCHANGED <<vars, child>>

\* Mutant: the trap stays set, and pending, while it runs
OnInterrupt_Again ==
    /\ sh.pending
    /\ sh' = [sh EXCEPT !.at = "recover"]
    /\ Launch("unlock", "apply")

\* on_interrupt: bash runs a trap when the command in the foreground has ended
OnInterrupt ==
    /\ sh.pending
    /\ IF sh.started
       THEN /\ sh' = [sh EXCEPT !.at = "recover", !.pending = FALSE, !.trapped = FALSE]
            /\ Launch("unlock", "apply")
       ELSE /\ sh' = [sh EXCEPT !.at = "ended", !.exit = 130]
            /\ UNCHANGED <<vars, child>>

Running == sh.at \notin {"ended", "killed"}

Shell ==
    /\ p.at = "exited" /\ Running
    /\ \/ OnInterrupt
       \/ ~sh.pending /\ (Precheck \/ AfterTrial \/ AfterObserver \/ AfterRecovery \/ CommandEnded)

-----------------------------------------------------------------------------
Init0 ==
    /\ \E script \in Scripts, binary \in Binaries, cmd \in Entries \cup {"observe"},
          form \in {"dry", "apply"} :
        /\ script \in Supervised => cmd = "unlock" /\ form = "dry"
        /\ cmd = "observe" => form = "apply"
        /\ sh = [script |-> script, binary |-> binary, started |-> FALSE, pending |-> FALSE,
                 trapped |-> TRUE, trial |-> 0, recovery |-> 0, reboot |-> FALSE, exit |-> -1,
                 at |-> IF script \in Supervised THEN "precheck_unlock" ELSE "command"]
        /\ p = [Started(cmd) EXCEPT !.at = "main"]
        /\ child = [form |-> form, handlers |-> FALSE, code |-> 0]
    /\ hw = AtBaseline
    /\ late = {}
    /\ interrupted = FALSE
    /\ quiet = -1
    /\ pair = FALSE
    /\ wrote = FALSE
    /\ signals = 0

\* install_signal_handlers: before the repeated preflight of a trial, at the start of
\* the observer, and for the window at the end of restore
Handled == child.handlers \/ (p.entry = "restore" /\ p.at = "observe") \/ p.at = "restore_watched"

\* A signal to the script, to the child or, from the terminal, to both.  Without
\* a handler it ends the child, without a trap the script; the alarm of
\* run_ftst_minimum is a signal to the child alone.
SendSignal ==
    /\ signals < MaxSignals /\ Running
    /\ signals' = signals + 1
    /\ \E toScript \in {sh.script \in Supervised, FALSE}, toChild \in {p.at # "exited", FALSE} :
        /\ toScript \/ toChild
        /\ sh' = IF ~toScript THEN sh
                 ELSE IF sh.trapped THEN [sh EXCEPT !.pending = TRUE] ELSE [sh EXCEPT !.at = "killed"]
        /\ IF toChild /\ ~Handled THEN Exit(130) ELSE UNCHANGED <<p, child>>
        /\ interrupted' = (interrupted \/ (toChild /\ Handled))
    /\ UNCHANGED <<hw, late, quiet, pair, wrote>>

\* SIGKILL, or a crash, of the child
Kill ==
    /\ "kill" \in Faults
    /\ p.at # "exited"
    /\ Exit(137)
    /\ NoAccess
    /\ UNCHANGED <<sh, signals>>

ChildStep == Child /\ UNCHANGED <<sh, signals>>
ShellStep == Shell /\ UNCHANGED signals
Environment == Smc /\ UNCHANGED <<sh, child, signals>>
Ended == ~Running /\ p.at = "exited" /\ UNCHANGED supervisedVars

NextSupervised == ChildStep \/ ShellStep \/ Environment \/ SendSignal \/ Kill \/ Ended

\* Processes run and a question at the terminal is answered
SpecSupervised ==
    Init0 /\ [][NextSupervised]_supervisedVars
          /\ WF_supervisedVars(ChildStep) /\ WF_supervisedVars(ShellStep)

-----------------------------------------------------------------------------
\* The state of the script and of its child, beside the program of TrialRuns.
SupervisedTypeOK ==
    /\ hw \in Observation /\ late \subseteq Writes
    /\ p.at \in Labels \cup {"main", "preflight", "confirm", "preflight_again", "look",
                             "observed", "exited"}
    /\ p.entry \in Trials \cup Commands \cup {"observe"}
    /\ sh.at \in {"precheck_unlock", "precheck_trial", "starting", "trial", "observe", "recover",
                  "recover_observe", "command", "ended", "killed"}
    /\ sh.exit \in {-1, 0, 1, 2, 130, 137} /\ (sh.at = "ended") = (sh.exit # -1)
    /\ {sh.started, sh.pending, sh.trapped, sh.reboot, child.handlers} \subseteq BOOLEAN
    /\ {sh.trial, sh.recovery, child.code} \subseteq {0, 1, 2, 130, 137}
    /\ child.form \in {"dry", "apply"}
    /\ signals \in 0..MaxSignals

\* "Trial stopped before any SMC write; independent observation is unnecessary":
\* when a script or a command ends with code 2 no key has been written, by any
\* of its children, and none can still take effect (ftst-supervised.sh 63).
ExitTwoWroteNothing == sh.exit = 2 => ~wrote /\ late = {}

\* "independent 61-sample baseline observation completed": code 0 of a script, or
\* of a command that may write, stands for a whole minute at the baseline with no
\* write in it, and for a script the minute was seen by one process that itself
\* wrote nothing, after the writer had gone.
ExitZeroIsWitnessed ==
    sh.exit = 0 /\ child.form = "apply"
        => quiet = 10 * StableSeconds /\ (sh.script \in Supervised => p.entry = "observe")

\* However a script ends by itself after something was written, even when its
\* trial or its recovery was interrupted or killed half way: either an observer
\* has just seen the whole minute, or the user was told to reboot
\* (recover_and_verify).
WrittenMeansWatched ==
    sh.at = "ended" /\ sh.script \in Supervised /\ wrote
        => sh.reboot \/ (p.entry = "observe" /\ quiet = 10 * StableSeconds)

\* Every script ends (the prompt is answered, the SMC answers every call).
ScriptEnds == <>[](~Running)

=============================================================================
