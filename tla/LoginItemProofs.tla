-------------------------- MODULE LoginItemProofs --------------------------
(***************************************************************************)
(* Proofs about LoginItem for any number of clicks.                        *)
(***************************************************************************)
EXTENDS LoginItem, TLAPS

-----------------------------------------------------------------------------
(* The inductive invariant.                                                *)

Working == {"set", "refresh", "last_refresh"}
Job == [at : {"none", "queued", "over"} \cup Working, seen : Statuses \cup {"none"}, want : BOOLEAN]

Typed ==
    /\ system \in Statuses
    /\ flags \in [busy : BOOLEAN, error : BOOLEAN]
    /\ jobs \in [Clicks -> Job]
    /\ holder \in 0..MaxClicks /\ clicks \in 0..MaxClicks /\ changes \in 0..MaxChanges

\* The clicks so far, and no other, have a coroutine.
ClickedHaveJobs == \A c \in Clicks : jobs[c].at = "none" <=> c > clicks

\* Only the one that has the mutex works, and it does until it lets go.
HolderWorks == \A c \in Clicks : jobs[c].at \in Working <=> holder = c

\* What was read and not published belongs to a refresh.
SeenIsFresh == \A c \in Clicks : jobs[c].seen # "none" => jobs[c].at \in {"refresh", "last_refresh"}

\* The mutex goes by the order of the clicks.
Begun(c) == jobs[c].at \notin {"none", "queued"}
ServedInOrder == \A c, d \in Clicks : c < d /\ Begun(d) => jobs[c].at = "over"

Wanted(want) == IF want THEN {"ENABLED", "REQUIRES_APPROVAL"} ELSE {"DISABLED", "NOT_FOUND"}

\* After the last one that set the registration, and without an error or a hand in
\* System Settings, the registration is what it wanted.
LastBegunDecides ==
    changes = 0 /\ ~flags.error =>
        \A c \in Clicks :
            /\ jobs[c].at \in {"refresh", "last_refresh", "over"}
            /\ \A d \in Clicks : d > c => ~Begun(d)
            => system \in Wanted(jobs[c].want)

IInv ==
    /\ Typed /\ ClickedHaveJobs /\ HolderWorks /\ SeenIsFresh
    /\ ServedInOrder /\ LastBegunDecides

-----------------------------------------------------------------------------
(* The steps.                                                              *)

\* Nobody has clicked.
LEMMA InitIInv == Init => IInv
<1> SUFFICES ASSUME Init PROVE IInv OBVIOUS
<1>1. jobs \in [Clicks -> Job] BY DEF Init, Job
<1>2. Typed BY <1>1, LoginItemAssumption DEF Init, Typed, Statuses
<1>3. \A c \in Clicks : jobs[c].at = "none" /\ jobs[c].seen = "none" /\ c > 0
  BY LoginItemAssumption DEF Init, Clicks
<1> QED
  BY <1>2, <1>3, LoginItemAssumption
  DEF Init, IInv, ClickedHaveJobs, HolderWorks, SeenIsFresh, ServedInOrder, LastBegunDecides,
      Begun, Working, Clicks

\* Polls and recompositions touch none of it.
LEMMA ScreenIInv == IInv /\ (PollRead \/ PollPublish \/ Recompose \/ UNCHANGED vars) => IInv'
BY DEF PollRead, PollPublish, Recompose, vars, IInv, Typed, ClickedHaveJobs, HolderWorks,
       SeenIsFresh, ServedInOrder, LastBegunDecides, Begun

\* A change in System Settings takes the decision away from the switch.
LEMMA ChangeIInv == IInv /\ ChangeOutside => IInv'
<1> SUFFICES ASSUME IInv, ChangeOutside PROVE IInv' OBVIOUS
<1>1. changes' # 0 /\ changes' \in 0..MaxChanges
  BY LoginItemAssumption DEF ChangeOutside, IInv, Typed
<1> QED
  BY <1>1 DEF ChangeOutside, IInv, Typed, ClickedHaveJobs, HolderWorks, SeenIsFresh,
              ServedInOrder, LastBegunDecides, Begun

\* A click queues behind the others.
LEMMA ClickIInv == IInv /\ Click => IInv'
<1> SUFFICES ASSUME IInv, Click PROVE IInv' OBVIOUS
<1> DEFINE k == clicks + 1
           j == [at |-> "queued", seen |-> "none", want |-> ui.status # "ENABLED"]
<1>1. k \in Clicks /\ clicks' = k /\ clicks' \in 0..MaxClicks /\ clicks \in Nat
  BY LoginItemAssumption DEF Click, IInv, Typed, Clicks
<1>2. j \in Job /\ j.at = "queued" /\ j.seen = "none" BY DEF Job
<1>3. jobs \in [Clicks -> Job] /\ jobs' = [jobs EXCEPT ![k] = j] BY DEF Click, IInv, Typed
<1> HIDE DEF j, k
<1>4. jobs' \in [Clicks -> Job] /\ jobs'[k] = j /\ \A c \in Clicks : c # k => jobs'[c] = jobs[c]
  BY <1>1, <1>2, <1>3
<1>5. \A c \in Clicks : c \in Int BY DEF Clicks
<1>6. k = clicks + 1 BY DEF k
<1>7. jobs[k].at = "none" /\ jobs'[k].at = "queued"
  BY <1>1, <1>2, <1>4, <1>5, <1>6 DEF IInv, ClickedHaveJobs
<1>8. \A c \in Clicks : Begun(c)' <=> Begun(c)
  <2> SUFFICES ASSUME NEW c \in Clicks PROVE Begun(c)' <=> Begun(c) OBVIOUS
  <2>1. CASE c = k BY <2>1, <1>7 DEF Begun
  <2>2. CASE c # k BY <2>2, <1>4 DEF Begun
  <2> QED BY <2>1, <2>2
<1>9. Typed' BY <1>1, <1>4 DEF Click, IInv, Typed
<1>10. ClickedHaveJobs' BY <1>1, <1>2, <1>4, <1>5, <1>6 DEF IInv, ClickedHaveJobs
<1>11. HolderWorks' /\ SeenIsFresh'
  BY <1>1, <1>2, <1>4, <1>7 DEF Click, IInv, HolderWorks, SeenIsFresh, Working
<1>12. ServedInOrder'
  <2> SUFFICES ASSUME NEW c \in Clicks, NEW d \in Clicks, c < d, Begun(d)'
               PROVE  jobs'[c].at = "over"
    BY DEF ServedInOrder
  <2>1. jobs[c].at = "over" BY <1>8 DEF IInv, ServedInOrder
  <2> QED BY <2>1, <1>4, <1>7
<1>13. LastBegunDecides' BY <1>2, <1>4, <1>8 DEF Click, IInv, LastBegunDecides
<1> QED BY <1>9, <1>10, <1>11, <1>12, <1>13 DEF IInv

\* Whoever gets the mutex is the first of those not served, and all before it are
\* over.
LEMMA BeginIInv ==
    ASSUME IInv, NEW c \in Clicks, Begin(c)
    PROVE  IInv'
<1>1. jobs \in [Clicks -> Job] /\ jobs' = [jobs EXCEPT ![c].at = "set"] /\ jobs[c].at = "queued"
  BY DEF Begin, IInv, Typed
<1>2. /\ jobs' \in [Clicks -> Job] /\ jobs'[c].at = "set" /\ jobs'[c].seen = jobs[c].seen
      /\ \A d \in Clicks : d # c => jobs'[d] = jobs[d]
  BY <1>1 DEF Job, Working
<1>3. \A d \in Clicks : d \in Int /\ d >= 1 BY DEF Clicks
<1>4. holder = 0 /\ holder' = c BY DEF Begin
<1>5. \A d \in Clicks : d < c => jobs[d].at = "over"
  <2> SUFFICES ASSUME NEW d \in Clicks, d < c PROVE jobs[d].at = "over" OBVIOUS
  <2>1. jobs[d].at \notin Working BY <1>3, <1>4 DEF IInv, HolderWorks
  <2>2. jobs[d].at # "queued"
    <3>1. d \in 1..c - 1 BY <1>3
    <3> QED BY <3>1 DEF Begin
  <2>3. jobs[d].at # "none"
    <3>1. clicks \in Int BY DEF IInv, Typed
    <3> QED BY <1>1, <1>3, <3>1 DEF IInv, ClickedHaveJobs
  <2>4. jobs[d] \in Job BY <1>1
  <2> QED BY <2>1, <2>2, <2>3, <2>4 DEF Job
<1>6. \A d \in Clicks : d > c => ~Begun(d)
  BY <1>1 DEF IInv, ServedInOrder
<1>7. \A d \in Clicks : d # c => (Begun(d)' <=> Begun(d)) BY <1>2 DEF Begun
<1>8. Begun(c)' BY <1>2 DEF Begun
<1>9. Typed' BY <1>2, <1>3, <1>4 DEF Begin, IInv, Typed, Clicks
<1>10. ClickedHaveJobs' BY <1>1, <1>2 DEF Begin, IInv, ClickedHaveJobs
<1>11. HolderWorks'
  <2> SUFFICES ASSUME NEW d \in Clicks PROVE jobs'[d].at \in Working <=> c = d
    BY <1>4 DEF HolderWorks
  <2>1. CASE d = c BY <2>1, <1>2 DEF Working
  <2>2. CASE d # c BY <2>2, <1>2, <1>3, <1>4 DEF IInv, HolderWorks
  <2> QED BY <2>1, <2>2
<1>12. SeenIsFresh' BY <1>1, <1>2 DEF IInv, SeenIsFresh
<1>13. ServedInOrder'
  <2> SUFFICES ASSUME NEW d \in Clicks, NEW e \in Clicks, d < e, Begun(e)'
               PROVE  jobs'[d].at = "over"
    BY DEF ServedInOrder
  <2>1. CASE e = c BY <2>1, <1>2, <1>3, <1>5
  <2>2. CASE e # c
    <3>1. Begun(e) BY <2>2, <1>7
    <3>2. jobs[d].at = "over" BY <3>1 DEF IInv, ServedInOrder
    <3>3. d # c BY <1>1, <3>2
    <3> QED BY <1>2, <3>2, <3>3
  <2> QED BY <2>1, <2>2
<1>14. LastBegunDecides'
  <2> SUFFICES ASSUME NEW d \in Clicks, jobs'[d].at \in {"refresh", "last_refresh", "over"},
                      \A e \in Clicks : e > d => ~Begun(e)'
               PROVE  FALSE
    BY DEF LastBegunDecides
  <2>1. d # c BY <1>2
  <2>2. ~(c > d) BY <1>8
  <2>3. d > c BY <2>1, <2>2, <1>3
  <2>4. Begun(d) BY <2>1, <1>2 DEF Begun
  <2> QED BY <2>3, <2>4, <1>6
<1> QED BY <1>9, <1>10, <1>11, <1>12, <1>13, <1>14 DEF IInv

\* The facts about a step of the coroutine c, which has the mutex: the others have
\* not begun or are over.
LEMMA HolderIsLast ==
    ASSUME IInv, NEW c \in Clicks, jobs[c].at \in Working
    PROVE  /\ holder = c
           /\ \A d \in Clicks : d > c => ~Begun(d)
           /\ \A d \in Clicks : d < c => jobs[d].at = "over"
<1>1. Begun(c) /\ jobs[c].at # "over" BY DEF Begun, Working
<1>2. holder = c BY DEF IInv, HolderWorks
<1> QED BY <1>1, <1>2 DEF IInv, ServedInOrder

\* A step that moves c on within or out of its work, and changes nothing else of the
\* jobs, keeps what is said of the order.
LEMMA WorkIInv ==
    ASSUME IInv, NEW c \in Clicks, jobs[c].at \in Working,
           NEW at \in Working \cup {"over"}, NEW seen \in Statuses \cup {"none"},
           jobs' = [jobs EXCEPT ![c].at = at, ![c].seen = seen],
           seen # "none" => at \in {"refresh", "last_refresh"},
           holder' = IF at = "over" THEN 0 ELSE holder,
           UNCHANGED <<clicks, changes>>
    PROVE  /\ jobs' \in [Clicks -> Job] /\ holder' \in 0..MaxClicks
           /\ jobs'[c].at = at /\ jobs'[c].want = jobs[c].want
           /\ \A d \in Clicks : d # c => jobs'[d] = jobs[d]
           /\ \A d \in Clicks : Begun(d)' <=> Begun(d)
           /\ ClickedHaveJobs' /\ HolderWorks' /\ SeenIsFresh' /\ ServedInOrder'
<1>1. jobs \in [Clicks -> Job] BY DEF IInv, Typed
<1>2. /\ jobs' \in [Clicks -> Job]
      /\ jobs'[c].at = at /\ jobs'[c].seen = seen /\ jobs'[c].want = jobs[c].want
      /\ \A d \in Clicks : d # c => jobs'[d] = jobs[d]
  BY <1>1 DEF Job
<1>3. /\ holder = c
      /\ \A d \in Clicks : d < c => jobs[d].at = "over"
  BY HolderIsLast
<1>4. holder' \in 0..MaxClicks BY LoginItemAssumption DEF IInv, Typed
<1>5. \A d \in Clicks : d \in Int /\ d >= 1 BY DEF Clicks
<1>6. \A d \in Clicks : Begun(d)' <=> Begun(d) BY <1>2 DEF Begun, Working
<1>7. ClickedHaveJobs' BY <1>2 DEF IInv, ClickedHaveJobs, Working
<1>8. HolderWorks'
  <2> SUFFICES ASSUME NEW d \in Clicks PROVE jobs'[d].at \in Working <=> holder' = d
    BY DEF HolderWorks
  <2>1. CASE d = c BY <2>1, <1>2, <1>3, <1>5 DEF Working
  <2>2. CASE d # c BY <2>2, <1>2, <1>3, <1>5 DEF IInv, HolderWorks
  <2> QED BY <2>1, <2>2
<1>9. SeenIsFresh' BY <1>2 DEF IInv, SeenIsFresh
<1>10. ServedInOrder'
  <2> SUFFICES ASSUME NEW d \in Clicks, NEW e \in Clicks, d < e, Begun(e)'
               PROVE  jobs'[d].at = "over"
    BY DEF ServedInOrder
  <2>1. jobs[d].at = "over" BY <1>6 DEF IInv, ServedInOrder
  <2>2. d # c BY <2>1 DEF Working
  <2> QED BY <1>2, <2>1, <2>2
<1> QED BY <1>2, <1>4, <1>6, <1>7, <1>8, <1>9, <1>10

\* What setEnabled leaves registered is what was wanted.
LEMMA RegisteredIsWanted ==
    ASSUME NEW want \in BOOLEAN, system \in Statuses
    PROVE  Registered(want) \subseteq Wanted(want) /\ Registered(want) \subseteq Statuses
BY DEF Registered, Wanted, Statuses

\* The registration is changed by the one that is served last so far, or an error is
\* shown.
LEMMA SetEnabledIInv ==
    ASSUME IInv, NEW c \in Clicks, SetEnabled(c)
    PROVE  IInv'
<1>1. /\ jobs \in [Clicks -> Job] /\ jobs[c] \in Job /\ jobs[c].at = "set"
      /\ jobs[c].at \in Working /\ jobs[c].want \in BOOLEAN
  BY DEF SetEnabled, IInv, Typed, Job, Working
<1>2. jobs[c].seen = "none" BY <1>1 DEF IInv, SeenIsFresh
<1>3. PICK at \in {"refresh", "last_refresh"} :
        /\ jobs' = [jobs EXCEPT ![c].at = at]
        /\ \/ system' \in Registered(jobs[c].want) /\ UNCHANGED flags
           \/ flags' = [flags EXCEPT !.error = TRUE] /\ UNCHANGED system
  BY DEF SetEnabled
<1>4. jobs' = [jobs EXCEPT ![c].at = at, ![c].seen = "none"]
  BY <1>1, <1>2, <1>3 DEF Job
<1>5. at \in Working /\ at # "over" BY DEF Working
<1>6. /\ jobs' \in [Clicks -> Job] /\ jobs'[c].at = at /\ jobs'[c].want = jobs[c].want
      /\ \A d \in Clicks : d # c => jobs'[d] = jobs[d]
      /\ \A d \in Clicks : Begun(d)' <=> Begun(d)
      /\ ClickedHaveJobs' /\ HolderWorks' /\ SeenIsFresh' /\ ServedInOrder'
  BY <1>1, <1>4, <1>5, WorkIInv DEF SetEnabled
<1>7. \A d \in Clicks : d > c => ~Begun(d) BY <1>1, HolderIsLast
<1>8. system \in Statuses /\ flags \in [busy : BOOLEAN, error : BOOLEAN] BY DEF IInv, Typed
<1>9. \/ system' \in Wanted(jobs[c].want) /\ system' \in Statuses /\ UNCHANGED flags
      \/ flags' \in [busy : BOOLEAN, error : BOOLEAN] /\ flags'.error /\ UNCHANGED system
  <2>1. CASE system' \in Registered(jobs[c].want) /\ UNCHANGED flags
    BY <2>1, <1>1, <1>8, RegisteredIsWanted
  <2>2. CASE flags' = [flags EXCEPT !.error = TRUE] /\ UNCHANGED system BY <2>2, <1>8
  <2> QED BY <2>1, <2>2, <1>3
<1>10. Typed' BY <1>6, <1>8, <1>9 DEF SetEnabled, IInv, Typed
<1>11. LastBegunDecides'
  <2> SUFFICES ASSUME ~flags'.error, NEW d \in Clicks,
                      jobs'[d].at \in {"refresh", "last_refresh", "over"},
                      \A e \in Clicks : e > d => ~Begun(e)'
               PROVE  system' \in Wanted(jobs'[d].want)
    BY DEF LastBegunDecides
  <2>1. Begun(c) BY <1>1 DEF Begun, Working
  <2>2. Begun(d) BY <1>6 DEF Begun
  <2>3. ~(c > d) /\ ~(d > c) BY <1>6, <1>7, <2>1, <2>2
  <2>4. d = c BY <2>3 DEF Clicks
  <2> QED BY <2>4, <1>6, <1>9
<1> QED BY <1>6, <1>10, <1>11 DEF IInv

\* Reading and publishing leave the registration alone.
LEMMA RefreshIInv ==
    ASSUME IInv, NEW c \in Clicks, JobRead(c) \/ JobPublish(c)
    PROVE  IInv'
<1>1. /\ jobs \in [Clicks -> Job] /\ jobs[c] \in Job
      /\ jobs[c].at \in {"refresh", "last_refresh"} /\ jobs[c].at \in Working
  BY DEF JobRead, JobPublish, IInv, Typed, SeenIsFresh, Working
<1>2. system \in Statuses /\ system # "none" /\ flags \in [busy : BOOLEAN, error : BOOLEAN]
  BY DEF IInv, Typed, Statuses
<1>3. PICK at \in {"refresh", "last_refresh", "over"}, seen \in Statuses \cup {"none"} :
        /\ jobs' = [jobs EXCEPT ![c].at = at, ![c].seen = seen]
        /\ seen # "none" => at \in {"refresh", "last_refresh"}
        /\ holder' = IF at = "over" THEN 0 ELSE holder
  <2>1. CASE JobRead(c)
    <3>1. jobs' = [jobs EXCEPT ![c].at = jobs[c].at, ![c].seen = system]
      BY <1>1, <2>1 DEF JobRead, Job
    <3> QED BY <3>1, <2>1, <1>1, <1>2 DEF JobRead
  <2>2. CASE JobPublish(c)
    <3> DEFINE a == IF jobs[c].at = "refresh" THEN "last_refresh" ELSE "over"
    <3>1. jobs' = [jobs EXCEPT ![c].at = a, ![c].seen = "none"]
      BY <1>1, <2>2 DEF JobPublish, Job
    <3>2. holder' = IF a = "over" THEN 0 ELSE holder BY <1>1, <2>2 DEF JobPublish
    <3>3. a \in {"refresh", "last_refresh", "over"} OBVIOUS
    <3> HIDE DEF a
    <3> QED BY <3>1, <3>2, <3>3
  <2> QED BY <2>1, <2>2
<1>4. at \in Working \cup {"over"} BY DEF Working
<1>5. UNCHANGED <<clicks, changes, system>> BY DEF JobRead, JobPublish
<1>6. /\ jobs' \in [Clicks -> Job] /\ holder' \in 0..MaxClicks
      /\ jobs'[c].at = at /\ jobs'[c].want = jobs[c].want
      /\ \A d \in Clicks : d # c => jobs'[d] = jobs[d]
      /\ \A d \in Clicks : Begun(d)' <=> Begun(d)
      /\ ClickedHaveJobs' /\ HolderWorks' /\ SeenIsFresh' /\ ServedInOrder'
  BY <1>1, <1>3, <1>4, <1>5, WorkIInv
<1>7. flags' \in [busy : BOOLEAN, error : BOOLEAN] /\ flags'.error = flags.error
  BY <1>2 DEF JobRead, JobPublish
<1>8. Typed' BY <1>2, <1>5, <1>6, <1>7 DEF IInv, Typed
<1>9. LastBegunDecides'
  <2> SUFFICES ASSUME changes = 0, ~flags.error, NEW d \in Clicks,
                      jobs'[d].at \in {"refresh", "last_refresh", "over"},
                      \A e \in Clicks : e > d => ~Begun(e)
               PROVE  system \in Wanted(jobs'[d].want)
    BY <1>5, <1>6, <1>7 DEF LastBegunDecides
  <2>1. jobs[d].at \in {"refresh", "last_refresh", "over"} /\ jobs'[d].want = jobs[d].want
    BY <1>1, <1>6
  <2> QED BY <2>1 DEF IInv, LastBegunDecides
<1> QED BY <1>6, <1>8, <1>9 DEF IInv

\* The invariant of every behaviour.
LEMMA SpecIInv == Spec => []IInv
<1>1. IInv /\ [Next]_vars => IInv'
  <2> SUFFICES ASSUME IInv, [Next]_vars PROVE IInv' OBVIOUS
  <2>1. CASE PollRead \/ PollPublish \/ Recompose \/ UNCHANGED vars BY <2>1, ScreenIInv
  <2>2. CASE Click BY <2>2, ClickIInv
  <2>3. CASE ChangeOutside BY <2>3, ChangeIInv
  <2>4. ASSUME NEW c \in Clicks, Begin(c) \/ SetEnabled(c) \/ JobRead(c) \/ JobPublish(c)
        PROVE  IInv'
    BY <2>4, BeginIInv, SetEnabledIInv, RefreshIInv
  <2> QED BY <2>1, <2>2, <2>3, <2>4 DEF Next, Coroutines
<1> QED BY <1>1, InitIInv, PTL DEF Spec

-----------------------------------------------------------------------------
\* However many clicks there are and however they overlap with each other, with the
\* polls and with the recompositions, the last one decides (LoginItemViewModel, its
\* mutex and setEnabledNative).
THEOREM LastClick == Spec => []LastClickDecides
<1>1. IInv => LastClickDecides
  <2> SUFFICES ASSUME IInv, clicks > 0, changes = 0, ~flags.error,
                      \A c \in 1..clicks : jobs[c].at = "over"
               PROVE  system \in Wanted(jobs[clicks].want)
    BY DEF LastClickDecides, Wanted
  <2>1. clicks \in Clicks /\ jobs[clicks].at = "over" BY DEF IInv, Typed, Clicks
  <2>2. \A d \in Clicks : d > clicks => ~Begun(d) BY DEF IInv, ClickedHaveJobs, Begun
  <2> QED BY <2>1, <2>2 DEF IInv, LastBegunDecides
<1> QED BY <1>1, SpecIInv, PTL
=============================================================================
