----------------------- MODULE WorkerSupervisionProofs -----------------------
(***************************************************************************)
(* Safety of WorkerSupervision for every set of Windows sessions, restart  *)
(* budget and number of events.                                            *)
(*                                                                         *)
(* The inductive invariant Inv adds to the checked properties what the     *)
(* handlers rely on: without a managed process there is no live process    *)
(* and no capability snapshot (Shape), a snapshot is of the managed        *)
(* process, and a stopped loop has nothing left. Every launch of the code  *)
(* then starts from an Idle manager with the supervisor in Starting of the *)
(* session that is active, so one lemma (LaunchPreserves) serves logon,    *)
(* connect, unlock, replacement and restart alike.                         *)
(***************************************************************************)
EXTENDS WorkerSupervision, TLAPS

\* Live processes and the snapshot are those of the managed process.
Shape(k) ==
    /\ k.proc = None => k.alive = {} /\ k.snap = NoReport
    /\ k.proc # None => k.alive \subseteq {k.proc} /\ k.snap.w \in {None, k.proc}
    /\ k.snap.w = None => k.snap.flags = {}

\* A manager that runs and plans nothing.
Idle(k) ==
    /\ k.proc = None /\ k.wd = None /\ k.alive = {} /\ k.restart = None
    /\ k.snap = NoReport

\* What relates the supervisor, the availability and the manager.
Agree ==
    /\ SupervisorAgrees /\ ReadyIsRunning /\ MediaFollowsSupervisor
    /\ RestartWithinBudget

Down == m.proc = None /\ m.restart = None /\ avail = "unavailable"

Inv ==
    /\ TypeOK /\ Agree /\ Shape(m)
    /\ m.snap.flags # {} => told = m.snap.w
    /\ ~up => Down

\* The inductive invariant implies every property the runs check.
LEMMA InvImplies ==
    Inv => OneWorker /\ AdvertisedIsManaged
<1> SUFFICES ASSUME Inv PROVE OneWorker /\ AdvertisedIsManaged
    OBVIOUS
<1>1. OneWorker
    BY DEF Inv, OneWorker, Shape, Down
<1>2. AdvertisedIsManaged
    BY DEF Inv, AdvertisedIsManaged, Shape, NoReport
<1> QED BY <1>1, <1>2

LEMMA InitInv == Init => Inv
<1> SUFFICES ASSUME Init PROVE Inv
    OBVIOUS
<1>1. m \in Managers
    BY PolicyAssumption DEF Init, Managers, SomeProc, SomeSession, Streaks, NoStreak,
        Snapshots, NoReport
<1>2. TypeOK
    BY <1>1, PolicyAssumption DEF Init, TypeOK, WorkerStates, SomeSession, SomeProc,
        Availability
<1>3. Agree
    BY DEF Init, Agree, SupervisorAgrees, ReadyIsRunning, MediaFollowsSupervisor,
        RestartWithinBudget, Stopped
<1>4. Shape(m)
    BY DEF Init, Shape, NoReport
<1> QED BY <1>2, <1>3, <1>4 DEF Inv, Init, NoReport

----------------------------------------------------------------------------
\* The streak operators stay within the watchdog's counter.

LEMMA NextFailureType ==
    ASSUME NEW k \in Streaks, NEW s \in WinSessions
    PROVE /\ NextFailure(k, s) \in Streaks
          /\ NextFailure(k, s).s = s
          /\ NextFailure(k, s).n \in Nat \ {0}
<1> DEFINE n == IF k.s = s THEN k.n ELSE 0
<1>1. k.n \in 0..FailureLimit /\ n \in 0..FailureLimit
    BY PolicyAssumption DEF Streaks
<1> DEFINE n1 == IF n < FailureLimit THEN n + 1 ELSE n
<1>2. n1 \in 0..FailureLimit /\ n1 \in Nat \ {0}
    BY <1>1, PolicyAssumption
<1>3. NextFailure(k, s) = [s |-> s, n |-> n1]
    BY DEF NextFailure
<1> HIDE DEF n1
<1> QED BY <1>2, <1>3 DEF Streaks, SomeSession

LEMMA StreakTypes ==
    ASSUME NEW k \in Streaks, NEW s \in WinSessions, NEW b \in BOOLEAN
    PROVE /\ StreakAfterLaunch(k, s) \in Streaks
          /\ StreakAfterStop(k, s) \in Streaks
          /\ StreakAfterRun(k, b) \in Streaks
<1>1. NoStreak \in Streaks /\ [k EXCEPT !.n = 0] \in Streaks
    BY PolicyAssumption DEF Streaks, NoStreak, SomeSession
<1> QED BY <1>1 DEF StreakAfterLaunch, StreakAfterStop, StreakAfterRun

\* Decide changes only the streak and the pending restart, within the budget.
LEMMA DecideFields ==
    ASSUME NEW k \in Managers, NEW s \in WinSessions, NEW f \in Streaks,
           f.s = s, f.n \in Nat \ {0}
    PROVE /\ Decide(k, s, f) \in Managers
          /\ Decide(k, s, f).restart = IF GivesUp(f) THEN None ELSE s
          /\ Decide(k, s, f).streak = f
          /\ Decide(k, s, f).proc = k.proc /\ Decide(k, s, f).wd = k.wd
          /\ Decide(k, s, f).alive = k.alive /\ Decide(k, s, f).snap = k.snap
          /\ ~GivesUp(f) => f.n \in 1..MaxFailures
<1>1. (IF GivesUp(f) THEN None ELSE s) \in SomeSession
    BY DEF SomeSession
<1>2. ~GivesUp(f) => f.n \in 1..MaxFailures
    BY PolicyAssumption DEF GivesUp
<1> QED BY <1>1, <1>2 DEF Decide, Managers

\* Stopping the session a manager works for leaves it Idle.
LEMMA StopIsIdle ==
    ASSUME NEW k \in Managers, NEW s \in WinSessions, Shape(k),
           k.wd = k.proc, k.proc # None => k.proc.s = s, k.restart \in {None, s}
    PROVE StopIn(k, s) \in Managers /\ Idle(StopIn(k, s))
<1>1. NoReport \in Snapshots /\ None \in SomeProc /\ None \in SomeSession /\ NoStreak \in Streaks
    BY PolicyAssumption DEF NoReport, Snapshots, SomeProc, SomeSession, NoStreak, Streaks
<1>2. StreakAfterStop(k.streak, s) \in Streaks
    BY <1>1 DEF StreakAfterStop, Managers
<1>3. CASE k.proc = None
  <2>1. StopIn(k, s) = [k EXCEPT !.restart = None, !.wd = None,
                           !.streak = StreakAfterStop(k.streak, s)]
    BY <1>3 DEF StopIn, Managers
  <2> QED BY <2>1, <1>1, <1>2, <1>3 DEF Managers, Idle, Shape
<1>4. CASE k.proc # None
  <2>1. StopIn(k, s) = [k EXCEPT !.restart = None, !.wd = None,
                           !.streak = StreakAfterStop(k.streak, s),
                           !.alive = k.alive \ {k.proc}, !.snap = NoReport, !.proc = None]
    BY <1>4 DEF StopIn, Managers
  <2>2. k.alive \ {k.proc} = {}
    BY <1>4 DEF Shape
  <2> QED BY <2>1, <2>2, <1>1, <1>2 DEF Managers, Idle
<1> QED BY <1>3, <1>4

----------------------------------------------------------------------------
\* The part of the invariant a handler of the loop re-establishes.
Good ==
    /\ worker \in WorkerStates /\ active \in SomeSession /\ m \in Managers
    /\ avail \in Availability /\ media \in {"capturing", "suspended"}
    /\ readers \in SUBSET Procs /\ told \in SomeProc
    /\ Agree /\ Shape(m)
    /\ m.snap.flags # {} => told = m.snap.w

LEMMA LaunchedGood ==
    ASSUME NEW s \in WinSessions, NEW k \in Managers, Idle(k),
           active' = s, readers \in SUBSET Procs, told \in SomeProc,
           Launched(Starting(s), s, k)
    PROVE Good'
<1> DEFINE p == [s |-> s, g |-> k.gen + 1]
<1>0. k.gen \in Nat /\ k.streak \in Streaks /\ k.alive = {} /\ k.snap = NoReport
    BY DEF Managers, Idle
<1>1. PICK reader \in BOOLEAN :
        /\ m' = LaunchIn(k, s, reader)
        /\ readers' = IF reader THEN readers \cup {p} ELSE readers
        /\ worker' = MarkRunning(Starting(s), s)
        /\ avail' = "ready" /\ media' = "capturing" /\ told' = told
    BY DEF Launched
<1>2. p \in Procs /\ p # None /\ p.s = s
  <2>1. p \in [s : WinSessions, g : Nat]
    BY <1>0
  <2>2. None \notin [s : WinSessions, g : Nat]
    BY PolicyAssumption
  <2> QED BY <2>1, <2>2 DEF Procs
<1> DEFINE sn == IF reader THEN [w |-> p, flags |-> {}] ELSE NoReport
<1>3. sn \in Snapshots /\ sn.w \in {None, p} /\ sn.flags = {}
    BY <1>2 DEF Snapshots, NoReport, SomeProc
<1>4. StreakAfterLaunch(k.streak, s) \in Streaks
    BY <1>0, StreakTypes
<1> HIDE DEF p, sn
<1>5. m' = [k EXCEPT !.gen = k.gen + 1, !.proc = p, !.wd = p, !.restart = None,
              !.streak = StreakAfterLaunch(k.streak, s), !.alive = {p}, !.snap = sn]
    BY <1>0, <1>1 DEF LaunchIn, p, sn
<1>6. m' \in Managers
  <2>1. k.gen + 1 \in Nat /\ p \in SomeProc /\ {p} \in SUBSET Procs /\ None \in SomeSession
    BY <1>0, <1>2 DEF SomeProc, SomeSession
  <2> QED BY <2>1, <1>3, <1>4, <1>5 DEF Managers
<1>7. /\ m'.proc = p /\ m'.wd = p /\ m'.restart = None /\ m'.alive = {p} /\ m'.snap = sn
    BY <1>5 DEF Managers
<1>8. worker' = Running(s)
    BY <1>1 DEF MarkRunning
<1>9. Agree'
  <2>1. SupervisorAgrees'
    BY <1>2, <1>7, <1>8, PolicyAssumption DEF SupervisorAgrees, Running, Stopped
  <2>2. ReadyIsRunning' /\ MediaFollowsSupervisor' /\ RestartWithinBudget'
    BY <1>1, <1>7, <1>8, PolicyAssumption
    DEF ReadyIsRunning, MediaFollowsSupervisor, RestartWithinBudget, Running
  <2> QED BY <2>1, <2>2 DEF Agree
<1>10. Shape(m)'
    BY <1>2, <1>3, <1>7 DEF Shape
<1>11. worker' \in WorkerStates
    BY <1>8 DEF WorkerStates, Running
<1>12. readers' \in SUBSET Procs
    BY <1>1, <1>2
<1> QED BY <1>1, <1>3, <1>6, <1>7, <1>9, <1>10, <1>11, <1>12
        DEF Good, SomeSession, Availability

\* A failure that reaches the supervisor in Starting of the active session is
\* retried there or leaves it Stopped, as the manager's pending restart says.
LEMMA FailureGood ==
    ASSUME NEW s \in WinSessions, NEW k \in Managers, NEW f \in Streaks,
           k.proc = None, k.wd = None, k.alive = {}, k.snap = NoReport,
           f.s = s, f.n \in Nat \ {0},
           NEW w \in WorkerStates, w.s = s, NEW a,
           active' = s, m' = Decide(k, s, f), HandleFailure(TRUE, w, s, f, a),
           readers' \in SUBSET Procs, told' \in SomeProc,
           media' \in {"capturing", "suspended"}
    PROVE Good'
<1>1. /\ m' \in Managers
      /\ m'.restart = IF GivesUp(f) THEN None ELSE s
      /\ m'.streak = f /\ m'.proc = None /\ m'.wd = None
      /\ m'.alive = {} /\ m'.snap = NoReport
      /\ ~GivesUp(f) => f.n \in 1..MaxFailures
    BY DecideFields
<1>2. /\ avail' = IF GivesUp(f) THEN "unavailable" ELSE "starting"
      /\ worker' = IF GivesUp(f) THEN Stopped ELSE Starting(s)
    BY DEF HandleFailure, MarkStopped, WorkerCrashed
<1>3. Agree'
  <2>1. SupervisorAgrees'
    BY <1>1, <1>2, PolicyAssumption DEF SupervisorAgrees, Starting, Stopped
  <2>2. ReadyIsRunning' /\ MediaFollowsSupervisor' /\ RestartWithinBudget'
    BY <1>1, <1>2, PolicyAssumption
    DEF ReadyIsRunning, MediaFollowsSupervisor, RestartWithinBudget
  <2> QED BY <2>1, <2>2 DEF Agree
<1>4. Shape(m)'
    BY <1>1 DEF Shape, NoReport
<1>5. worker' \in WorkerStates /\ avail' \in Availability /\ active' \in SomeSession
    BY <1>2 DEF WorkerStates, Starting, Stopped, Availability, SomeSession
<1>6. m'.snap.flags = {}
    BY <1>1 DEF NoReport
<1> QED BY <1>1, <1>3, <1>4, <1>5, <1>6 DEF Good

\* Every launch of the code: from an Idle manager, in Starting of the active
\* session.
LEMMA LaunchGood ==
    ASSUME NEW s \in WinSessions, NEW k \in Managers, Idle(k), NEW a,
           active' = s, readers \in SUBSET Procs, told \in SomeProc,
           media \in {"capturing", "suspended"},
           Launch(Starting(s), s, k, a)
    PROVE Good'
<1>1. CASE Launched(Starting(s), s, k)
    BY <1>1, LaunchedGood
<1>2. CASE LaunchFails(Starting(s), s, k, a)
  <2> DEFINE tried == [k EXCEPT !.gen = k.gen + 1]
             f == NextFailure(k.streak, s)
  <2>0. k.wd = None /\ k.streak \in Streaks /\ k.gen \in Nat
    BY DEF Idle, Managers
  <2>1. /\ m' = Decide(tried, s, f)
        /\ HandleFailure(TRUE, Starting(s), s, f, a)
        /\ media' = media /\ readers' = readers /\ told' = told
    BY <1>2, <2>0 DEF LaunchFails
  <2>2. /\ tried \in Managers /\ tried.proc = None /\ tried.wd = None
        /\ tried.alive = {} /\ tried.snap = NoReport
    BY <2>0 DEF Managers, Idle
  <2>3. f \in Streaks /\ f.s = s /\ f.n \in Nat \ {0}
    BY <2>0, NextFailureType
  <2>4. Starting(s) \in WorkerStates /\ Starting(s).s = s
    BY DEF WorkerStates, Starting
  <2> HIDE DEF tried, f
  <2> QED BY <2>1, <2>2, <2>3, <2>4, FailureGood
<1> QED BY <1>1, <1>2 DEF Launch

----------------------------------------------------------------------------
\* One lemma per handler of the loop, under Inv.

LEMMA GoodIsInv ==
    ASSUME Good', up' = TRUE, users' \in SUBSET WinSessions,
           locked' \in SUBSET WinSessions, left' \in Nat
    PROVE Inv'
BY DEF Good, Inv, TypeOK

LEMMA InvGood == Inv => Good
BY DEF Good, Inv, TypeOK

LEMMA StoppedIsIdle ==
    ASSUME Inv, up, worker = Stopped
    PROVE Idle(m)
BY DEF Inv, Agree, SupervisorAgrees, Shape, Idle, Stopped

\* What stop is called with when the supervisor is not Stopped.
LEMMA StopWorkerIdle ==
    ASSUME Inv, up, worker # Stopped
    PROVE /\ worker.s \in WinSessions
          /\ StopIn(m, worker.s) \in Managers
          /\ Idle(StopIn(m, worker.s))
<1>1. worker.s \in WinSessions /\ m \in Managers /\ Shape(m)
    BY DEF Inv, TypeOK, WorkerStates
<1>2. /\ m.wd = m.proc
      /\ m.proc # None => m.proc.s = worker.s
      /\ m.restart \in {None, worker.s}
    BY DEF Inv, Agree, SupervisorAgrees
<1> QED BY <1>1, <1>2, StopIsIdle

LEMMA ActivateGood ==
    ASSUME Inv, up, up' = up, NEW s \in WinSessions, Activate(s)
    PROVE Good'
<1>0. /\ active' = s /\ m \in Managers /\ readers \in SUBSET Procs /\ told \in SomeProc
      /\ media \in {"capturing", "suspended"}
    BY DEF Activate, Inv, TypeOK
<1>1. CASE worker = Stopped /\ Launch(Starting(s), s, m, "starting")
    BY <1>0, <1>1, StoppedIsIdle, LaunchGood
<1>2. CASE worker.s = s /\ UNCHANGED <<worker, m, avail, media, readers, told>>
  <2>1. worker # Stopped
    BY <1>2, PolicyAssumption DEF Stopped
  <2>2. active' = active
    BY <1>0, <1>2, <2>1 DEF Inv, Agree, SupervisorAgrees
  <2>3. Good
    BY InvGood
  <2>4. Agree' /\ Shape(m)'
    BY <1>2, <2>2, <2>3 DEF Good, Agree, SupervisorAgrees, ReadyIsRunning,
        MediaFollowsSupervisor, RestartWithinBudget, Shape
  <2> QED BY <1>2, <2>2, <2>3, <2>4 DEF Good
<1>3. CASE worker # Stopped /\ Launch(Starting(s), s, StopIn(m, worker.s), "starting")
    BY <1>0, <1>3, StopWorkerIdle, LaunchGood
<1> QED BY <1>1, <1>2, <1>3 DEF Activate

LEMMA LogoffGood ==
    ASSUME Inv, up, up' = up, NEW s \in WinSessions, Logoff(s)
    PROVE Good'
<1>0. /\ m \in Managers /\ media' \in {"capturing", "suspended"}
      /\ readers' \in SUBSET Procs /\ told' \in SomeProc /\ told' = told
      /\ active' = (IF active = s THEN None ELSE active) /\ active' \in SomeSession
    BY DEF Logoff, Inv, TypeOK, SomeSession
<1>1. CASE worker.s = s /\ m' = StopIn(m, s) /\ worker' = Stopped /\ avail' = "unavailable"
  <2>1. worker # Stopped
    BY <1>1, PolicyAssumption DEF Stopped
  <2>2. m' \in Managers /\ Idle(m')
    BY <1>1, <2>1, StopWorkerIdle
  <2>3. Shape(m)' /\ m'.snap.flags = {}
    BY <2>2 DEF Idle, Shape, NoReport
  <2>4. SupervisorAgrees'
    BY <1>1, <2>2 DEF SupervisorAgrees, Idle, Stopped
  <2>5. ReadyIsRunning' /\ MediaFollowsSupervisor' /\ RestartWithinBudget'
    BY <1>1, <2>2 DEF ReadyIsRunning, MediaFollowsSupervisor, RestartWithinBudget, Idle
  <2>6. worker' \in WorkerStates /\ avail' \in Availability
    BY <1>1 DEF WorkerStates, Availability
  <2> QED BY <1>0, <2>2, <2>3, <2>4, <2>5, <2>6 DEF Good, Agree
<1>2. CASE worker.s # s /\ UNCHANGED <<m, worker, avail>>
  <2>1. Good
    BY InvGood
  <2>2. worker # Stopped => active' = active
    BY <1>0, <1>2 DEF Inv, Agree, SupervisorAgrees
  <2>3. media' = media
    BY DEF Logoff
  <2>4. SupervisorAgrees'
    BY <1>2, <2>1, <2>2 DEF Good, Agree, SupervisorAgrees
  <2>5. ReadyIsRunning'
    BY <1>2, <2>1, <2>2 DEF Good, Agree, ReadyIsRunning, Running, Stopped
  <2>6. MediaFollowsSupervisor' /\ RestartWithinBudget' /\ Shape(m)'
    BY <1>2, <2>1, <2>3 DEF Good, Agree, MediaFollowsSupervisor, RestartWithinBudget, Shape
  <2> QED BY <1>0, <1>2, <2>1, <2>4, <2>5, <2>6 DEF Good, Agree
<1> QED BY <1>1, <1>2 DEF Logoff

LEMMA SuspendGood ==
    ASSUME Inv, up, up' = up, NEW s \in WinSessions, SuspendMedia(s)
    PROVE Good'
<1>1. Good
    BY InvGood
<1>2. UNCHANGED <<active, m, readers, told>>
    BY DEF SuspendMedia
<1>3. CASE /\ worker = Running(s) /\ worker' = Suspended(s) /\ avail' = "suspended"
           /\ media' = IF Reaches(s) THEN "suspended" ELSE media
  <2>1. worker.st = "running" /\ worker.s = s /\ worker'.st = "suspended" /\ worker'.s = s
    BY <1>3 DEF Running, Suspended
  <2>2. SupervisorAgrees'
    BY <1>1, <1>2, <2>1 DEF Good, Agree, SupervisorAgrees, Stopped
  <2>3. ReadyIsRunning' /\ RestartWithinBudget' /\ Shape(m)'
    BY <1>1, <1>2, <1>3 DEF Good, Agree, ReadyIsRunning, RestartWithinBudget, Shape
  <2>4. MediaFollowsSupervisor'
    BY <1>1, <1>2, <1>3, <2>1 DEF Good, Agree, SupervisorAgrees, MediaFollowsSupervisor, Reaches
  <2>5. worker' \in WorkerStates /\ avail' \in Availability /\ media' \in {"capturing", "suspended"}
    BY <1>1, <1>3 DEF Good, WorkerStates, Suspended, Availability
  <2> QED BY <1>1, <1>2, <2>2, <2>3, <2>4, <2>5 DEF Good, Agree
<1>4. CASE UNCHANGED <<worker, avail, media>>
    BY <1>1, <1>2, <1>4 DEF Good, Agree, SupervisorAgrees, ReadyIsRunning,
        MediaFollowsSupervisor, RestartWithinBudget, Shape
<1> QED BY <1>3, <1>4 DEF SuspendMedia

LEMMA ResumeGood ==
    ASSUME Inv, up, up' = up, NEW s \in WinSessions,
           worker = Suspended(s), worker' = Running(s),
           avail' = IF Reaches(s) THEN "ready" ELSE "unavailable",
           media' = IF Reaches(s) THEN "capturing" ELSE media,
           UNCHANGED <<active, m, readers, told>>
    PROVE Good'
<1>1. Good
    BY InvGood
<1>2. worker.st = "suspended" /\ worker.s = s /\ worker'.st = "running" /\ worker'.s = s
    BY DEF Running, Suspended
<1>3. SupervisorAgrees'
    BY <1>1, <1>2 DEF Good, Agree, SupervisorAgrees, Stopped
<1>4. active' = s /\ s # None
    BY <1>1, <1>2, PolicyAssumption DEF Good, Agree, SupervisorAgrees, Stopped
<1>5. ReadyIsRunning' /\ RestartWithinBudget' /\ Shape(m)'
    BY <1>1, <1>4 DEF Good, Agree, ReadyIsRunning, RestartWithinBudget, Shape
<1>6. MediaFollowsSupervisor'
    BY <1>1, <1>2 DEF Good, Agree, SupervisorAgrees, MediaFollowsSupervisor, Reaches
<1>7. worker' \in WorkerStates /\ avail' \in Availability /\ media' \in {"capturing", "suspended"}
    BY <1>1 DEF Good, WorkerStates, Running, Availability
<1> QED BY <1>1, <1>3, <1>5, <1>6, <1>7 DEF Good, Agree

LEMMA PollExitGood ==
    ASSUME Inv, NEW healthy \in BOOLEAN, PollExit(healthy)
    PROVE Good'
<1> DEFINE p == m.proc
           run == StreakAfterRun(m.streak, healthy)
           f == NextFailure(run, p.s)
           gone == [m EXCEPT !.proc = None, !.snap = NoReport, !.wd = None]
<1>1. /\ up /\ p # None /\ p \notin m.alive
      /\ m \in Managers /\ Shape(m) /\ worker \in WorkerStates
    BY DEF PollExit, Inv, TypeOK
<1>2. m.wd = p /\ worker.s = p.s /\ active = p.s
    BY <1>1 DEF Inv, Agree, SupervisorAgrees, Stopped
<1>3. p.s \in WinSessions
    BY <1>1 DEF Managers, SomeProc, Procs
<1>4. gone = [[m EXCEPT !.proc = None, !.snap = NoReport] EXCEPT !.wd = None]
    BY <1>1 DEF Managers
<1>5. /\ m' = Decide(gone, p.s, f)
      /\ HandleFailure(TRUE, worker, p.s, f, avail)
      /\ UNCHANGED <<up, active, media, readers, told>>
    BY <1>2, <1>4 DEF PollExit
<1>6. NoReport \in Snapshots /\ None \in SomeProc
    BY DEF NoReport, Snapshots, SomeProc
<1>7. gone \in Managers /\ gone.proc = None /\ gone.wd = None /\ gone.snap = NoReport
    BY <1>1, <1>6 DEF Managers
<1>8. gone.alive = {}
    BY <1>1 DEF Shape, Managers
<1>9. run \in Streaks
    BY <1>1, <1>3, StreakTypes DEF Managers
<1>10. f \in Streaks /\ f.s = p.s /\ f.n \in Nat \ {0}
    BY <1>3, <1>9, NextFailureType
<1>11. /\ readers' \in SUBSET Procs /\ told' \in SomeProc
       /\ media' \in {"capturing", "suspended"} /\ active' = p.s
    BY <1>2, <1>5 DEF Inv, TypeOK
<1> HIDE DEF f, gone, run
<1> QED BY <1>1, <1>2, <1>3, <1>5, <1>7, <1>8, <1>10, <1>11, FailureGood

LEMMA PollRestartGood ==
    ASSUME Inv, PollRestart
    PROVE Good'
<1> DEFINE k == [m EXCEPT !.restart = None]
<1>1. /\ up /\ m.restart # None /\ active' = active
      /\ Launch(worker, m.restart, k, avail)
    BY DEF PollRestart
<1>2. /\ m \in Managers /\ Shape(m) /\ worker \in WorkerStates
      /\ readers \in SUBSET Procs /\ told \in SomeProc
      /\ media \in {"capturing", "suspended"}
    BY DEF Inv, TypeOK
<1>3. worker.st = "starting" /\ m.restart = worker.s
    BY <1>1 DEF Inv, Agree, SupervisorAgrees
<1>4. worker.s \in WinSessions /\ worker = Starting(worker.s)
    BY <1>2, <1>3 DEF WorkerStates, Stopped, Starting
<1>5. m.proc = None /\ m.wd = None /\ active = worker.s
    BY <1>1, <1>3 DEF Inv, Agree, SupervisorAgrees, Stopped
<1>6. k \in Managers /\ Idle(k)
    BY <1>2, <1>5 DEF Managers, Idle, Shape, SomeSession
<1> HIDE DEF k
<1>7. Launch(Starting(worker.s), worker.s, k, avail)
    BY <1>1, <1>3, <1>4
<1> QED BY <1>1, <1>2, <1>4, <1>5, <1>6, <1>7, LaunchGood

LEMMA ServiceStopsInv ==
    ASSUME Inv, ServiceStops
    PROVE Inv'
<1> DEFINE idle == [m EXCEPT !.restart = None]
<1>1. /\ up /\ up' = FALSE /\ avail' = "unavailable"
      /\ m' = IF m.proc # None THEN StopIn(idle, m.proc.s) ELSE idle
      /\ UNCHANGED <<worker, active, media, readers, told, envVars>>
    BY DEF ServiceStops
<1>2. /\ m \in Managers /\ Shape(m) /\ m.wd = m.proc
    BY <1>1 DEF Inv, TypeOK, Agree, SupervisorAgrees
<1>3. /\ idle \in Managers /\ Shape(idle) /\ idle.wd = idle.proc
      /\ idle.restart = None /\ idle.proc = m.proc
    BY <1>2 DEF Managers, Shape, SomeSession
<1>4. m' \in Managers /\ Idle(m')
  <2>1. CASE m.proc = None
    BY <1>1, <1>3, <2>1 DEF Idle, Shape
  <2>2. CASE m.proc # None
    <3>1. m.proc.s \in WinSessions
      BY <1>2, <2>2 DEF Managers, SomeProc, Procs
    <3> HIDE DEF idle
    <3> QED BY <1>1, <1>3, <2>2, <3>1, StopIsIdle
  <2> QED BY <2>1, <2>2
<1>5. Shape(m)' /\ m'.snap.flags = {}
    BY <1>4 DEF Shape, Idle, NoReport
<1>6. Agree'
    BY <1>1, <1>4 DEF Agree, SupervisorAgrees, ReadyIsRunning, MediaFollowsSupervisor,
        RestartWithinBudget, Idle
<1>7. TypeOK'
    BY <1>1, <1>4 DEF Inv, TypeOK, Availability, envVars
<1> QED BY <1>1, <1>4, <1>5, <1>6, <1>7 DEF Inv, Down, Idle

\* Steps that touch neither the supervisor nor the managed process.
LEMMA AsideInv ==
    ASSUME Inv, up' = up, UNCHANGED <<worker, active, media>>,
           avail' \in {avail, "unavailable"},
           m' \in Managers, Shape(m'), m'.proc = m.proc, m'.wd = m.wd,
           m'.restart = m.restart, m'.streak = m.streak, m'.alive \subseteq m.alive,
           m'.snap.flags # {} => told' = m'.snap.w,
           readers' \in SUBSET Procs, told' \in SomeProc,
           users' = users, locked' = locked, left' \in Nat
    PROVE Inv'
<1>1. Agree'
    BY DEF Inv, Agree, SupervisorAgrees, ReadyIsRunning, MediaFollowsSupervisor,
        RestartWithinBudget
<1>2. TypeOK'
    BY DEF Inv, TypeOK, Availability
<1>3. ~up' => Down'
    BY DEF Inv, Down
<1> QED BY <1>1, <1>2, <1>3 DEF Inv

----------------------------------------------------------------------------
\* Readers change only the flags of the snapshot that is theirs.
LEMMA ReaderInv ==
    ASSUME Inv, NEW p \in readers,
           \/ \E flags \in SUBSET Flags : ReaderReports(p, flags)
           \/ \E qualified \in BOOLEAN : ReaderQualifies(p, qualified)
           \/ ReaderEnds(p)
    PROVE Inv'
<1>0. /\ m \in Managers /\ Shape(m) /\ p \in Procs /\ p # None
      /\ readers \in SUBSET Procs /\ told \in SomeProc /\ left \in Nat
  <2>1. None \notin [s : WinSessions, g : Nat]
    BY PolicyAssumption
  <2> QED BY <2>1 DEF Inv, TypeOK, Procs
<1>1. UNCHANGED <<up, worker, active, avail, media, envVars>>
    BY DEF ReaderReports, ReaderQualifies, ReaderEnds
<1>2. readers' \in SUBSET Procs /\ told' \in SomeProc
    BY <1>0 DEF ReaderReports, ReaderQualifies, ReaderEnds, SomeProc
<1>3. CASE m' = m /\ told' = told
    BY <1>0, <1>1, <1>2, <1>3, AsideInv DEF Inv, envVars
<1>4. ASSUME NEW fl \in SUBSET Flags, m.snap.w = p, m' = [m EXCEPT !.snap.flags = fl],
             fl # {} => told' = p
      PROVE Inv'
  <2>1. m.snap \in Snapshots
    BY <1>0 DEF Managers
  <2>2. [m.snap EXCEPT !.flags = fl] \in Snapshots /\ [m.snap EXCEPT !.flags = fl].w = p
            /\ [m.snap EXCEPT !.flags = fl].flags = fl
    BY <1>4, <2>1 DEF Snapshots
  <2> DEFINE sn == [m.snap EXCEPT !.flags = fl]
  <2>3. m' = [m EXCEPT !.snap = sn]
    BY <1>4
  <2> HIDE DEF sn
  <2>4. /\ m' \in Managers /\ m'.proc = m.proc /\ m'.wd = m.wd /\ m'.restart = m.restart
        /\ m'.streak = m.streak /\ m'.alive = m.alive /\ m'.snap = sn
    BY <1>0, <2>2, <2>3 DEF Managers, sn
  <2>5. sn.w = p /\ sn.flags = fl
    BY <2>2 DEF sn
  <2>6. m.proc # None
    BY <1>0, <1>4 DEF Shape, NoReport
  <2>7. Shape(m')
    BY <1>0, <1>4, <2>4, <2>5, <2>6 DEF Shape
  <2> QED BY <1>0, <1>1, <1>2, <1>4, <2>4, <2>5, <2>7, AsideInv DEF envVars
<1>5. CASE \E flags \in SUBSET Flags : ReaderReports(p, flags)
    BY <1>3, <1>4, <1>5 DEF ReaderReports
<1>6. CASE \E qualified \in BOOLEAN : ReaderQualifies(p, qualified)
  <2>1. PICK qualified \in BOOLEAN : ReaderQualifies(p, qualified)
    BY <1>6
  <2> DEFINE fl == IF qualified THEN m.snap.flags \cup {H264} ELSE m.snap.flags \ {H264}
  <2>2. fl \in SUBSET Flags
    BY <1>0 DEF Managers, Snapshots, Flags
  <2>3. CASE m.snap.w # p
    BY <1>3, <2>1, <2>3 DEF ReaderQualifies
  <2>4. CASE m.snap.w = p
    <3>1. m' = [m EXCEPT !.snap.flags = fl] /\ told' = p
      BY <2>1, <2>4 DEF ReaderQualifies
    <3> HIDE DEF fl
    <3> QED BY <1>4, <2>2, <2>4, <3>1
  <2> QED BY <2>3, <2>4
<1>7. CASE ReaderEnds(p)
  <2>1. CASE m.snap.w # p
    BY <1>3, <1>7, <2>1 DEF ReaderEnds
  <2>2. CASE m.snap.w = p
    <3>1. m' = [m EXCEPT !.snap.flags = {}] /\ {} \in SUBSET Flags
      BY <1>7, <2>2 DEF ReaderEnds
    <3> QED BY <1>4, <2>2, <3>1
  <2> QED BY <2>1, <2>2
<1> QED BY <1>5, <1>6, <1>7

LEMMA SpendType == ASSUME Inv, Spend PROVE left' \in Nat
<1>1. left \in Nat
    BY DEF Inv, TypeOK
<1> QED BY <1>1 DEF Spend

LEMMA SessionEventInv ==
    ASSUME Inv, NEW s \in WinSessions,
           Logon(s) \/ Connect(s) \/ Logoff(s) \/ Lock(s) \/ Disconnect(s) \/ Unlock(s)
    PROVE Inv'
<1>0. users \in SUBSET WinSessions /\ locked \in SUBSET WinSessions
    BY DEF Inv, TypeOK
<1>1. CASE Logon(s)
    BY <1>0, <1>1, ActivateGood, SpendType, GoodIsInv DEF Logon
<1>2. CASE Connect(s)
    BY <1>0, <1>2, ActivateGood, SpendType, GoodIsInv DEF Connect
<1>3. CASE Logoff(s)
  <2>1. /\ up /\ up' = up /\ Spend
        /\ users' \in SUBSET WinSessions /\ locked' \in SUBSET WinSessions
    BY <1>0, <1>3 DEF Logoff
  <2> QED BY <1>3, <2>1, LogoffGood, SpendType, GoodIsInv
<1>4. CASE Lock(s)
    BY <1>0, <1>4, SuspendGood, SpendType, GoodIsInv DEF Lock
<1>5. CASE Disconnect(s)
    BY <1>0, <1>5, SuspendGood, SpendType, GoodIsInv DEF Disconnect
<1>6. CASE Unlock(s)
  <2>1. /\ up /\ up' = up /\ Spend
        /\ users' \in SUBSET WinSessions /\ locked' \in SUBSET WinSessions
    BY <1>0, <1>6 DEF Unlock
  <2>2. CASE worker = Suspended(s)
    <3>1. CASE /\ worker' = Running(s)
               /\ avail' = IF Reaches(s) THEN "ready" ELSE "unavailable"
               /\ media' = IF Reaches(s) THEN "capturing" ELSE media
               /\ UNCHANGED <<active, m, readers, told>>
      BY <2>1, <2>2, <3>1, ResumeGood, SpendType, GoodIsInv
    <3> QED BY <1>6, <2>2, <3>1 DEF Unlock
  <2>3. CASE worker # Suspended(s)
    <3>1. Activate(s)
      BY <1>6, <2>3 DEF Unlock
    <3> QED BY <2>1, <3>1, ActivateGood, SpendType, GoodIsInv
  <2> QED BY <2>2, <2>3
<1> QED BY <1>1, <1>2, <1>3, <1>4, <1>5, <1>6

\* Every step of the system preserves the inductive invariant.
LEMMA StepInv == Inv /\ [Next]_vars => Inv'
<1> SUFFICES ASSUME Inv, [Next]_vars PROVE Inv'
    OBVIOUS
<1>0. /\ m \in Managers /\ Shape(m) /\ readers \in SUBSET Procs /\ told \in SomeProc
      /\ users \in SUBSET WinSessions /\ locked \in SUBSET WinSessions /\ left \in Nat
    BY DEF Inv, TypeOK
<1>1. CASE SessionEvent
    BY <1>1, SessionEventInv DEF SessionEvent
<1>2. CASE Poll
  <2>1. up /\ up' = up /\ UNCHANGED envVars
    BY <1>2 DEF Poll, PollRestart, PollExit
  <2>2. Good'
    BY <1>2, PollExitGood, PollRestartGood DEF Poll
  <2> QED BY <1>0, <2>1, <2>2, GoodIsInv DEF envVars
<1>3. CASE InputFails
    BY <1>0, <1>3, AsideInv DEF InputFails, envVars, Inv
<1>4. CASE ServiceStops
    BY <1>4, ServiceStopsInv
<1>5. ASSUME NEW p \in m.alive, WorkerDies(p) PROVE Inv'
  <2>1. m' = [m EXCEPT !.alive = m.alive \ {p}]
    BY <1>5 DEF WorkerDies
  <2>2. /\ m' \in Managers /\ m'.proc = m.proc /\ m'.wd = m.wd /\ m'.restart = m.restart
        /\ m'.streak = m.streak /\ m'.alive = m.alive \ {p} /\ m'.snap = m.snap
    BY <1>0, <2>1 DEF Managers
  <2>3. Shape(m')
    BY <1>0, <2>2 DEF Shape
  <2>4. UNCHANGED <<up, worker, active, avail, media, readers, told, users, locked>> /\ Spend
    BY <1>5 DEF WorkerDies
  <2>5. m'.snap.flags # {} => told' = m'.snap.w
    BY <2>2, <2>4 DEF Inv
  <2> QED BY <1>0, <2>2, <2>3, <2>4, <2>5, SpendType, AsideInv
<1>6. CASE ReaderStep
    BY <1>6, ReaderInv DEF ReaderStep
<1>7. CASE UNCHANGED vars
    BY <1>7 DEF vars, envVars, Inv, TypeOK, Agree, SupervisorAgrees, ReadyIsRunning,
        MediaFollowsSupervisor, RestartWithinBudget, Shape, Down
<1> QED BY <1>1, <1>2, <1>3, <1>4, <1>5, <1>6, <1>7 DEF Next

----------------------------------------------------------------------------
\* The invariant of the supervised Worker holds in every reachable state.
THEOREM InvHolds == Spec => []Inv
<1> QED BY InitInv, StepInv, PTL DEF Spec

\* The type invariant, the u8 failure counter's saturation included.
THEOREM TypeOKHolds == Spec => []TypeOK
<1>1. Inv => TypeOK
    BY DEF Inv
<1> QED BY <1>1, InvHolds, PTL

\* SessionSupervisor, WorkerManager and WorkerWatchdog never disagree about
\* the session, the process or the pending restart.
THEOREM SupervisorAgreesHolds == Spec => []SupervisorAgrees
<1>1. Inv => SupervisorAgrees
    BY DEF Inv, Agree
<1> QED BY <1>1, InvHolds, PTL

\* stop, launch and poll never leave a second Worker process behind.
THEOREM OneWorkerHolds == Spec => []OneWorker
<1> QED BY InvImplies, InvHolds, PTL

\* Input is Ready only with the active session's Worker running.
THEOREM ReadyIsRunningHolds == Spec => []ReadyIsRunning
<1>1. Inv => ReadyIsRunning
    BY DEF Inv, Agree
<1> QED BY <1>1, InvHolds, PTL

\* The generation checks of WorkerCapabilityState keep late readers out.
THEOREM AdvertisedIsManagedHolds == Spec => []AdvertisedIsManaged
<1> QED BY InvImplies, InvHolds, PTL

\* Suspend and resume commands reach the Worker the supervisor means.
THEOREM MediaFollowsSupervisorHolds == Spec => []MediaFollowsSupervisor
<1>1. Inv => MediaFollowsSupervisor
    BY DEF Inv, Agree
<1> QED BY <1>1, InvHolds, PTL

\* apply_restart_decision schedules only within the watchdog's budget.
THEOREM RestartWithinBudgetHolds == Spec => []RestartWithinBudget
<1>1. Inv => RestartWithinBudget
    BY DEF Inv, Agree
<1> QED BY <1>1, InvHolds, PTL

=============================================================================
