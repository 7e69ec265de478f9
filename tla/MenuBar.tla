------------------------------- MODULE MenuBar -------------------------------
(***************************************************************************)
(* The menu bar icon of the desktop application: a child process that is   *)
(* sent the readings and the visibility of the window line by line, and    *)
(* answers with the commands of its menu.  Everything that changes the     *)
(* window runs on the user interface thread, one coroutine step at a time; *)
(* the lines are written and the commands are read on other threads.       *)
(* LaunchedEffect starts a send for each new pair of a reading and a       *)
(* visibility and cancels the one before, without waiting for it.          *)
(***************************************************************************)
EXTENDS Integers, Sequences, SequencesExt

CONSTANTS
    LaunchPolls,    \* how often the kind of the launch is asked for (30)
    MaxInputs,      \* bound: changes of the reading, uses of the icon, its menu and the window
    Starts          \* what starting the icon can give

ASSUME MenuBarAssumption ==
    /\ LaunchPolls \in Nat \ {0}
    /\ MaxInputs \in Nat
    /\ Starts \subseteq {"alive", "none"}

Launches == {"undetectable", "login", "manual", "absent"}
MenuCommand == {"SHOW", "HIDE", "TOGGLE", "SETTINGS", "QUIT"}

VARIABLES
    icon,       \* the icon process: alive, dead, or none when it did not start
    stopped,    \* the application has quit and stopped the bridge
    launch,     \* how macOS started the application
    polls,      \* polls of the launch mode left, 0 when that coroutine is over
    visible,    \* windowVisible
    error,      \* statusItemError is set
    settings,   \* the settings screen is open
    reading,    \* trayReading of the monitor, as the number of its change
    effect,     \* the keys of the last send effect
    sends,      \* its coroutine and the cancelled ones before it that are not over
    toIcon,     \* the lines in the pipe to the icon
    shown,      \* the line the icon shows
    commands,   \* the commands on their way to the user interface thread
    inputs      \* changes, clicks and buttons so far

window == <<visible, error, settings>>
vars == <<icon, stopped, launch, polls, window, reading, effect, sends, toIcon, shown, commands, inputs>>

Line == [reading : 0..MaxInputs, visible : BOOLEAN]
Current == [reading |-> reading, visible |-> visible]

\* The application is composed and the bridge has been started, which calls onLost
\* at once when there is no process
Init ==
    /\ icon \in Starts
    /\ stopped = FALSE
    /\ launch \in Launches
    /\ visible = (launch = "undetectable" \/ icon = "none")
    /\ polls = IF launch = "undetectable" THEN 0 ELSE LaunchPolls
    /\ error = (icon = "none")
    /\ settings = FALSE
    /\ reading = 0
    /\ effect = <<>>
    /\ sends = <<>>
    /\ toIcon = <<>>
    /\ shown = [reading |-> 0, visible |-> TRUE]
    /\ commands = <<>>
    /\ inputs = 0

-----------------------------------------------------------------------------
\* The icon is lost: message, monitor screen, window
onLost ==
    /\ error' = TRUE
    /\ settings' = FALSE
    /\ visible' = TRUE

\* Mutant: nothing is done when the last poll is over
LaunchPoll_GivesUp ==
    /\ polls > 0 /\ ~stopped
    /\ \E pending \in IF launch = "absent" THEN {TRUE} ELSE BOOLEAN :
        /\ polls' = IF pending THEN polls - 1 ELSE 0
        /\ visible' = (visible \/ (~pending /\ launch = "manual"))
    /\ UNCHANGED <<icon, stopped, launch, error, settings, reading, effect, sends, toIcon, shown, commands, inputs>>

\* A start by hand shows the window, and so does one whose kind is still pending
\* after the last poll
LaunchPoll ==
    /\ polls > 0 /\ ~stopped
    /\ \E pending \in IF launch = "absent" THEN {TRUE} ELSE BOOLEAN :
        /\ polls' = IF pending THEN polls - 1 ELSE 0
        /\ visible' = (visible \/ (~pending /\ launch = "manual") \/ (pending /\ polls' = 0))
    /\ UNCHANGED <<icon, stopped, launch, error, settings, reading, effect, sends, toIcon, shown, commands, inputs>>

\* The recomposition sees other keys: the running send is cancelled and a new one
\* is launched; a send cancelled before its first step never runs
Recompose ==
    /\ ~stopped
    /\ effect # <<Current>>
    /\ effect' = <<Current>>
    /\ LET begun == SelectSeq(sends, LAMBDA s : s.at # "fresh")
       IN  sends' = Append([i \in DOMAIN begun |-> [begun[i] EXCEPT !.cancelled = TRUE]],
                           [at |-> "fresh", line |-> Current, cancelled |-> FALSE])
    /\ UNCHANGED <<icon, stopped, launch, polls, window, reading, toIcon, shown, commands, inputs>>

\* writeMutex is held from the lock to the resumption after the write
Holds(s) == s.at \in {"locked", "writing", "written", "failed"}

\* Mutant: a send does not wait for the one before
SendBegin_NoMutex(i) ==
    /\ sends[i].at = "fresh"
    /\ sends' = IF icon = "none" THEN RemoveAt(sends, i) ELSE [sends EXCEPT ![i].at = "locked"]
    /\ UNCHANGED <<icon, stopped, launch, polls, window, reading, effect, toIcon, shown, commands, inputs>>

\* send without a process returns; else it takes the mutex or waits for it
SendBegin(i) ==
    /\ sends[i].at = "fresh"
    /\ sends' = IF icon = "none" THEN RemoveAt(sends, i)
                ELSE [sends EXCEPT ![i].at = IF \E j \in 1..i - 1 : sends[j].at = "waiting" \/ Holds(sends[j])
                                             THEN "waiting" ELSE "locked"]
    /\ UNCHANGED <<icon, stopped, launch, polls, window, reading, effect, toIcon, shown, commands, inputs>>

\* The mutex goes to the first that waits; a cancelled one throws instead
SendWakes(i) ==
    /\ sends[i].at = "waiting"
    /\ \/ /\ ~sends[i].cancelled
          /\ \A j \in 1..i - 1 : sends[j].at # "waiting" /\ ~Holds(sends[j])
          /\ sends' = [sends EXCEPT ![i].at = "locked"]
          /\ UNCHANGED window
       \/ /\ sends[i].cancelled
          /\ sends' = RemoveAt(sends, i)
          /\ IF stopped THEN UNCHANGED window ELSE onLost
    /\ UNCHANGED <<icon, stopped, launch, polls, reading, effect, toIcon, shown, commands, inputs>>

\* withContext(Dispatchers.IO): a block cancelled before it runs does not run
SendDispatched(i) ==
    /\ sends[i].at = "locked"
    /\ sends' = [sends EXCEPT ![i].at = IF sends[i].cancelled THEN "written" ELSE "writing"]
    /\ UNCHANGED <<icon, stopped, launch, polls, window, reading, effect, toIcon, shown, commands, inputs>>

\* write and flush on the other thread; they fail once the icon is gone
SendWrites(i) ==
    /\ sends[i].at = "writing"
    /\ IF icon = "alive" /\ ~stopped
       THEN /\ toIcon' = Append(toIcon, sends[i].line)
            /\ sends' = [sends EXCEPT ![i].at = "written"]
       ELSE /\ sends' = [sends EXCEPT ![i].at = "failed"]
            /\ UNCHANGED toIcon
    /\ UNCHANGED <<icon, stopped, launch, polls, window, reading, effect, shown, commands, inputs>>

\* Mutant: a failed write is ignored
SendReturns_Silent(i) ==
    /\ sends[i].at \in {"written", "failed"}
    /\ sends' = RemoveAt(sends, i)
    /\ UNCHANGED <<icon, stopped, launch, polls, window, reading, effect, toIcon, shown, commands, inputs>>

\* The send is resumed and the mutex is free; the catch block takes a failed
\* write and a cancellation alike
SendReturns(i) ==
    /\ sends[i].at \in {"written", "failed"}
    /\ sends' = RemoveAt(sends, i)
    /\ IF (sends[i].at = "failed" \/ sends[i].cancelled) /\ ~stopped THEN onLost ELSE UNCHANGED window
    /\ UNCHANGED <<icon, stopped, launch, polls, reading, effect, toIcon, shown, commands, inputs>>

-----------------------------------------------------------------------------
\* The icon takes a line, on its main queue
IconAccept ==
    /\ icon = "alive" /\ toIcon # <<>>
    /\ shown' = Head(toIcon)
    /\ toIcon' = Tail(toIcon)
    /\ UNCHANGED <<icon, stopped, launch, polls, window, reading, effect, sends, commands, inputs>>

\* A click on the icon, or the window, settings and quit items of its menu: the
\* window item is named after what the icon was last told
IconClick ==
    /\ icon = "alive" /\ ~stopped /\ inputs < MaxInputs
    /\ inputs' = inputs + 1
    /\ \E command \in MenuCommand \ {IF shown.visible THEN "SHOW" ELSE "HIDE"} :
            commands' = Append(commands, command)
    /\ UNCHANGED <<icon, stopped, launch, polls, window, reading, effect, sends, toIcon, shown>>

\* The icon process ends by itself; the reader has its last commands before the
\* end of its output, which is reported behind them
IconDies ==
    /\ icon = "alive" /\ ~stopped
    /\ icon' = "dead"
    /\ toIcon' = <<>>
    /\ commands' = Append(commands, "LOST")
    /\ UNCHANGED <<stopped, launch, polls, window, reading, effect, sends, shown, inputs>>

\* exitApplication disposes of the effects: bridge.stop
Quit ==
    /\ stopped' = TRUE
    /\ sends' = [i \in DOMAIN sends |-> [sends[i] EXCEPT !.cancelled = TRUE]]
    /\ icon' = IF icon = "alive" THEN "dead" ELSE icon
    /\ toIcon' = <<>>
    /\ UNCHANGED window

\* onCommand and the reader's onLost on the user interface thread
HandleCommand ==
    /\ commands # <<>> /\ ~stopped
    /\ commands' = Tail(commands)
    /\ CASE Head(commands) = "QUIT" -> Quit
         [] Head(commands) = "LOST" -> onLost /\ UNCHANGED <<icon, stopped, sends, toIcon>>
         [] OTHER ->
                /\ visible' = CASE Head(commands) = "HIDE" -> FALSE
                                [] Head(commands) = "TOGGLE" -> ~visible
                                [] OTHER -> TRUE
                /\ settings' = (settings \/ Head(commands) = "SETTINGS")
                /\ UNCHANGED <<icon, stopped, error, sends, toIcon>>
    /\ UNCHANGED <<launch, polls, reading, effect, shown, inputs>>

\* The close button hides the window, the buttons of the screens switch them: they
\* are there when the last composition has shown the window
WindowButton ==
    /\ effect # <<>> /\ effect[1].visible
    /\ ~stopped /\ inputs < MaxInputs
    /\ inputs' = inputs + 1
    /\ \/ visible' = FALSE /\ UNCHANGED settings
       \/ settings' = ~settings /\ UNCHANGED visible
    /\ UNCHANGED <<icon, stopped, launch, polls, error, reading, effect, sends, toIcon, shown, commands>>

\* The monitor publishes a snapshot that differs from the last
NewReading ==
    /\ ~stopped /\ inputs < MaxInputs
    /\ inputs' = inputs + 1
    /\ reading' = reading + 1
    /\ UNCHANGED <<icon, stopped, launch, polls, window, effect, sends, toIcon, shown, commands>>

-----------------------------------------------------------------------------
SendStep == \E i \in DOMAIN sends :
    SendBegin(i) \/ SendWakes(i) \/ SendDispatched(i) \/ SendWrites(i) \/ SendReturns(i)

\* Nothing is left to do until somebody clicks: the application waits
Waiting == UNCHANGED vars

Next ==
    \/ LaunchPoll \/ Recompose \/ SendStep \/ IconAccept \/ HandleCommand
    \/ IconClick \/ IconDies \/ WindowButton \/ NewReading \/ Waiting

\* The user interface thread, the writer threads and the icon run what is ready;
\* nobody has to click and the icon does not have to die
Fairness ==
    /\ WF_vars(LaunchPoll) /\ WF_vars(Recompose)
    /\ WF_vars(SendStep) /\ WF_vars(IconAccept) /\ WF_vars(HandleCommand)

Spec == Init /\ [][Next]_vars /\ Fairness

-----------------------------------------------------------------------------
\* The variables have their types.
TypeOK ==
    /\ icon \in {"alive", "dead", "none"}
    /\ {stopped, visible, error, settings} \subseteq BOOLEAN
    /\ launch \in Launches /\ polls \in 0..LaunchPolls /\ inputs \in 0..MaxInputs
    /\ reading \in 0..MaxInputs /\ shown \in Line
    /\ \A i \in DOMAIN toIcon : toIcon[i] \in Line
    /\ \A i \in DOMAIN commands : commands[i] \in MenuCommand \cup {"LOST"}
    /\ \A i \in DOMAIN sends : sends[i].line \in Line

\* Once readings and clicks cease, a living icon shows the last reading and the
\* visibility the window has: cancelled and waiting sends never leave an older line
\* as the last one (MenuBarBridge.send under LaunchedEffect).
IconCatchesUp == <>[](icon = "alive" => shown = Current)

\* When the icon process has ended, the window is shown with the message set, and
\* again each time it is closed: each change of the keys makes another send fail
\* (MenuBarBridge 54 and 72, DesktopMain 117).
StaysReachable == icon = "dead" ~> (visible /\ error) \/ stopped

\* A start by hand, or one whose launch event never comes, shows the window or
\* ends the application (the polls of DesktopMain 76).
ManualStartShows == launch # "login" => <>(visible \/ stopped)

=============================================================================
