------------------------------ MODULE LoginItem ------------------------------
(***************************************************************************)
(* The login item setting of the desktop application: a switch that shows  *)
(* what macOS has registered.  LoginItemViewModel polls the registration   *)
(* every two seconds and, for each click, changes it under a mutex; the    *)
(* poll takes no mutex.  Coroutines run on one thread between their        *)
(* suspension points, and the calls to ServiceManagement run on others.    *)
(***************************************************************************)
EXTENDS Integers

CONSTANTS
    MaxClicks,      \* bound: clicks on the switch
    MaxChanges      \* bound: changes of the registration in System Settings

ASSUME LoginItemAssumption == MaxClicks \in Nat /\ MaxChanges \in Nat

\* What SMAppService reports to a packaged application
Statuses == {"DISABLED", "ENABLED", "REQUIRES_APPROVAL", "NOT_FOUND"}
Clicks == 1..MaxClicks

VARIABLES
    system,     \* the registration in macOS
    status,     \* mutableStatus of the repository
    flags,      \* busy and error of the view model
    ui,         \* uiState as the screen has it
    poll,       \* the polling coroutine: the status it has read and not published
    jobs,       \* for each click its coroutine
    holder,     \* the click that has the mutex, 0 when none
    clicks,     \* clicks so far
    changes     \* changes made outside so far

vars == <<system, status, flags, ui, poll, jobs, holder, clicks, changes>>

Idle == [at |-> "idle", seen |-> "none"]

Init ==
    /\ system \in Statuses
    /\ status = system
    /\ flags = [busy |-> FALSE, error |-> FALSE]
    /\ ui = [status |-> status, busy |-> FALSE, error |-> FALSE]
    /\ poll = Idle
    /\ jobs = [c \in Clicks |-> [at |-> "none", seen |-> "none", want |-> FALSE]]
    /\ holder = 0
    /\ clicks = 0
    /\ changes = 0

-----------------------------------------------------------------------------
\* refreshStatus of the repository: the status is read on another thread, and
\* published when the coroutine is resumed
PollRead ==
    /\ poll = Idle
    /\ poll' = [at |-> "read", seen |-> system]
    /\ UNCHANGED <<system, status, flags, ui, jobs, holder, clicks, changes>>

PollPublish ==
    /\ poll.at = "read"
    /\ status' = poll.seen
    /\ poll' = Idle
    /\ UNCHANGED <<system, flags, ui, jobs, holder, clicks, changes>>

\* combine, stateIn and the recomposition bring a change to the screen
Recompose ==
    /\ ui' = [status |-> status, busy |-> flags.busy, error |-> flags.error]
    /\ ui' # ui
    /\ UNCHANGED <<system, status, flags, poll, jobs, holder, clicks, changes>>

\* The switch asks for the opposite of what it shows; it is disabled while busy,
\* and while the status is not one of these
Click ==
    /\ clicks < MaxClicks
    /\ ~ui.busy /\ ui.status \in {"DISABLED", "ENABLED", "NOT_FOUND"}
    /\ clicks' = clicks + 1
    /\ jobs' = [jobs EXCEPT ![clicks + 1] =
                    [at |-> "queued", seen |-> "none", want |-> ui.status # "ENABLED"]]
    /\ UNCHANGED <<system, status, flags, ui, poll, holder, changes>>

\* Mutant: the clicks do not wait for one another
Begin_NoMutex(c) ==
    /\ jobs[c].at = "queued"
    /\ holder' = c
    /\ flags' = [busy |-> TRUE, error |-> FALSE]
    /\ jobs' = [jobs EXCEPT ![c].at = "set"]
    /\ UNCHANGED <<system, status, ui, poll, clicks, changes>>

\* mutex.withLock: the lock goes to the one that has waited longest
Begin(c) ==
    /\ jobs[c].at = "queued"
    /\ holder = 0
    /\ \A other \in 1..c - 1 : jobs[other].at # "queued"
    /\ holder' = c
    /\ flags' = [busy |-> TRUE, error |-> FALSE]
    /\ jobs' = [jobs EXCEPT ![c].at = "set"]
    /\ UNCHANGED <<system, status, ui, poll, clicks, changes>>

\* setEnabledNative: nothing to do, done, or an error of ServiceManagement
Registered(want) ==
    IF want THEN IF system \in {"ENABLED", "REQUIRES_APPROVAL"} THEN {system}
                                                                ELSE {"ENABLED", "REQUIRES_APPROVAL"}
    ELSE IF system \in {"DISABLED", "NOT_FOUND"} THEN {system} ELSE {"DISABLED"}

SetEnabled(c) ==
    /\ jobs[c].at = "set"
    /\ \/ /\ system' \in Registered(jobs[c].want)
          /\ jobs' = [jobs EXCEPT ![c].at = "refresh"]
          /\ UNCHANGED flags
       \/ /\ system \notin Registered(jobs[c].want)
          /\ flags' = [flags EXCEPT !.error = TRUE]
          /\ jobs' = [jobs EXCEPT ![c].at = "last_refresh"]
          /\ UNCHANGED system
    /\ UNCHANGED <<status, ui, poll, holder, clicks, changes>>

JobRead(c) ==
    /\ jobs[c].at \in {"refresh", "last_refresh"} /\ jobs[c].seen = "none"
    /\ jobs' = [jobs EXCEPT ![c].seen = system]
    /\ UNCHANGED <<system, status, flags, ui, poll, holder, clicks, changes>>

\* Mutant: the switch stays busy after a click
JobPublish_StaysBusy(c) ==
    /\ jobs[c].seen # "none"
    /\ status' = jobs[c].seen
    /\ jobs' = [jobs EXCEPT ![c].seen = "none",
                            ![c].at = IF @ = "refresh" THEN "last_refresh" ELSE "over"]
    /\ IF jobs[c].at = "last_refresh" THEN holder' = 0 ELSE UNCHANGED holder
    /\ UNCHANGED <<system, flags, ui, poll, clicks, changes>>

\* After the refresh of setEnabled the one of the finally block, then the end
JobPublish(c) ==
    /\ jobs[c].seen # "none"
    /\ status' = jobs[c].seen
    /\ jobs' = [jobs EXCEPT ![c].seen = "none",
                            ![c].at = IF @ = "refresh" THEN "last_refresh" ELSE "over"]
    /\ IF jobs[c].at = "last_refresh"
       THEN holder' = 0 /\ flags' = [flags EXCEPT !.busy = FALSE]
       ELSE UNCHANGED <<holder, flags>>
    /\ UNCHANGED <<system, ui, poll, clicks, changes>>

\* The user grants, withdraws or removes the login item in System Settings
ChangeOutside ==
    /\ changes < MaxChanges
    /\ changes' = changes + 1
    /\ system' \in Statuses \ {system}
    /\ UNCHANGED <<status, flags, ui, poll, jobs, holder, clicks>>

-----------------------------------------------------------------------------
Coroutines ==
    \/ PollRead \/ PollPublish \/ Recompose
    \/ \E c \in Clicks : Begin(c) \/ SetEnabled(c) \/ JobRead(c) \/ JobPublish(c)

Next == Coroutines \/ Click \/ ChangeOutside

\* The dispatchers run what is ready; nobody has to click
Fairness ==
    /\ WF_vars(PollRead) /\ WF_vars(PollPublish) /\ WF_vars(Recompose)
    /\ \A c \in Clicks : WF_vars(Begin(c) \/ SetEnabled(c) \/ JobRead(c) \/ JobPublish(c))

Spec == Init /\ [][Next]_vars /\ Fairness

-----------------------------------------------------------------------------
\* The variables have their types, and the mutex has at most one owner at work.
TypeOK ==
    /\ {system, status, ui.status} \subseteq Statuses
    /\ {flags.busy, flags.error, ui.busy, ui.error} \subseteq BOOLEAN
    /\ poll.at \in {"idle", "read"} /\ poll.seen \in Statuses \cup {"none"}
    /\ \A c \in Clicks :
        /\ jobs[c].at \in {"none", "queued", "set", "refresh", "last_refresh", "over"}
        /\ jobs[c].at \in {"set", "refresh", "last_refresh"} => holder = c
    /\ holder \in 0..MaxClicks /\ clicks \in 0..MaxClicks /\ changes \in 0..MaxChanges

\* The last click decides: once the switch has nothing left to do, no error is
\* shown and nobody else has touched the registration, it is what the last click
\* asked for, however the clicks and the polls overlapped (LoginItemViewModel).
LastClickDecides ==
    clicks > 0 /\ changes = 0 /\ ~flags.error /\ (\A c \in 1..clicks : jobs[c].at = "over")
        => system \in IF jobs[clicks].want THEN {"ENABLED", "REQUIRES_APPROVAL"}
                                           ELSE {"DISABLED", "NOT_FOUND"}

\* The screen ends up with the registration of macOS and a switch that works: a
\* poll that read before a click and published after it is corrected by a later
\* one (refreshStatus without the mutex, LoginItemViewModel.kt 36).
ScreenCatchesUp == <>[](ui = [status |-> system, busy |-> FALSE, error |-> flags.error])

=============================================================================
