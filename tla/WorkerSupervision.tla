-------------------------- MODULE WorkerSupervision --------------------------
(***************************************************************************)
(* Which interactive Worker process the Service runs, and for whom.        *)
(*                                                                         *)
(* The SessionSupervisor turns Windows session events into Worker actions, *)
(* the WorkerManager launches, stops and polls the process, the            *)
(* WorkerWatchdog rations restarts, and one reader thread per launched     *)
(* Worker publishes its capability reports into the snapshot from which    *)
(* control sessions answer a Teacher. Session events and polls are steps   *)
(* of the one Service loop; a Worker may die and a reader thread may run   *)
(* between any two of them.                                                *)
(*                                                                         *)
(* WorkerState::Stopping is only ever seen inside one event handler: the   *)
(* handler that enters it also stops the process and leaves it. The        *)
(* restart delay is abstracted: a pending restart becomes due at some poll.*)
(***************************************************************************)
EXTENDS Naturals, FiniteSets

CONSTANTS
    WinSessions,    \* Windows session ids
    Caps,           \* capability flags other than the H264 qualification
    H264,           \* WORKER_CAP_H264_HARDWARE_ENCODE
    MaxFailures,    \* WorkerRestartPolicy::max_consecutive_failures
    FailureLimit,   \* largest value of the u8 consecutive_failures
    MaxEvents,      \* bound: session events and Worker deaths
    None

ASSUME PolicyAssumption ==
    /\ MaxFailures \in Nat /\ FailureLimit \in Nat /\ MaxFailures < FailureLimit
    /\ MaxEvents \in Nat
    /\ None \notin WinSessions /\ None \notin [s : WinSessions, g : Nat]

VARIABLES
    up,         \* the Service loop runs
    worker,     \* SessionSupervisor::worker
    active,     \* SessionSupervisor::active_session
    m,          \* the WorkerManager, its watchdog, snapshot and processes
    avail,      \* InputAvailability
    media,      \* whether the managed Worker captures
    readers,    \* reader threads, each with the identity of its Worker
    told,       \* history: Worker whose report set the snapshot's flags
    users,      \* Windows: sessions with a logged-on user
    locked,     \* Windows: locked sessions
    left        \* bound: session events and deaths still to come

envVars == <<users, locked, left>>
vars == <<up, worker, active, m, avail, media, readers, told, envVars>>

\* A Worker process: its session and generation (which stands for its pid).
Procs == [s : WinSessions, g : Nat]
Flags == Caps \cup {H264}
SomeSession == WinSessions \cup {None}
SomeProc == Procs \cup {None}

Stopped == [st |-> "stopped", s |-> None]
Starting(s) == [st |-> "starting", s |-> s]
Running(s) == [st |-> "running", s |-> s]
Suspended(s) == [st |-> "suspended", s |-> s]
WorkerStates ==
    {Stopped} \cup [st : {"starting", "running", "suspended"}, s : WinSessions]

\* WorkerWatchdog: failure_session and consecutive_failures
NoStreak == [s |-> None, n |-> 0]
Streaks == [s : SomeSession, n : 0..FailureLimit]

NoReport == [w |-> None, flags |-> {}]
Snapshots == [w : SomeProc, flags : SUBSET Flags]

\* proc: the managed process; wd: the watchdog's process; alive: processes
\* Windows still runs; restart: the session of pending_restart.
Managers == [proc : SomeProc, wd : SomeProc, alive : SUBSET Procs,
             restart : SomeSession, streak : Streaks, gen : Nat, snap : Snapshots]

Availability == {"unavailable", "ready", "suspended", "starting"}

Init ==
    /\ up = TRUE
    /\ worker = Stopped /\ active = None
    /\ m = [proc |-> None, wd |-> None, alive |-> {}, restart |-> None,
            streak |-> NoStreak, gen |-> 0, snap |-> NoReport]
    /\ avail = "unavailable" /\ media = "capturing"
    /\ readers = {} /\ told = None
    /\ users = {} /\ locked = {} /\ left = MaxEvents

----------------------------------------------------------------------------
\* The supervisor's and the watchdog's reactions, as functions.

MarkRunning(w, s) == IF w = Starting(s) THEN Running(s) ELSE w
MarkStopped(w, s) == IF w.s = s THEN Stopped ELSE w
WorkerCrashed(act, s) == IF act = s THEN Starting(s) ELSE Stopped

\* Mutant: the counter does not saturate.
NextFailure_Unsaturated(k, s) ==
    [s |-> s, n |-> IF k.s = s THEN k.n + 1 ELSE 1]

\* next_failure_decision: a streak belongs to one session; the u8 saturates.
NextFailure(k, s) ==
    LET n == IF k.s = s THEN k.n ELSE 0
    IN [s |-> s, n |-> IF n < FailureLimit THEN n + 1 ELSE n]


\* Mutant: off by one, the budget counts a failure too many.
GivesUp_OneMore(k) == k.n > MaxFailures + 1

GivesUp(k) == k.n > MaxFailures

StreakAfterLaunch(k, s) == IF k.s = s THEN k ELSE NoStreak
StreakAfterStop(k, s) == IF k.s = s THEN NoStreak ELSE k
StreakAfterRun(k, healthy) == IF healthy THEN [k EXCEPT !.n = 0] ELSE k

\* apply_restart_decision
Decide(k, s, f) ==
    [k EXCEPT !.streak = f, !.restart = IF GivesUp(f) THEN None ELSE s]


\* Mutant: the pending restart of the stopped session survives.
StopIn_KeepsRestart(k, s) ==
    LET ours == k.proc # None /\ k.proc.s = s
    IN [k EXCEPT !.wd = IF @ # None /\ @.s = s THEN None ELSE @,
                 !.streak = StreakAfterStop(@, s),
                 !.alive = IF ours THEN @ \ {k.proc} ELSE @,
                 !.snap = IF ours THEN NoReport ELSE @,
                 !.proc = IF ours THEN None ELSE @]

\* Mutant: the process is forgotten without being terminated.
StopIn_LeavesProcess(k, s) ==
    LET ours == k.proc # None /\ k.proc.s = s
    IN [k EXCEPT !.restart = IF @ = s THEN None ELSE @,
                 !.wd = IF @ # None /\ @.s = s THEN None ELSE @,
                 !.streak = StreakAfterStop(@, s),
                 !.snap = IF ours THEN NoReport ELSE @,
                 !.proc = IF ours THEN None ELSE @]

\* WorkerManager::stop; terminating a process succeeds.
StopIn(k, s) ==
    LET ours == k.proc # None /\ k.proc.s = s
    IN [k EXCEPT !.restart = IF @ = s THEN None ELSE @,
                 !.wd = IF @ # None /\ @.s = s THEN None ELSE @,
                 !.streak = StreakAfterStop(@, s),
                 !.alive = IF ours THEN @ \ {k.proc} ELSE @,
                 !.snap = IF ours THEN NoReport ELSE @,
                 !.proc = IF ours THEN None ELSE @]

\* WorkerManager::launch, the process started and authenticated. Without a
\* second handle of the pipe there is no reader and no snapshot.
LaunchIn(k, s, reader) ==
    LET p == [s |-> s, g |-> k.gen + 1]
    IN [k EXCEPT !.gen = @ + 1, !.proc = p, !.wd = p, !.restart = None,
                 !.streak = StreakAfterLaunch(@, s),
                 !.alive = @ \cup {p},
                 !.snap = IF reader THEN [w |-> p, flags |-> {}] ELSE @]


\* Mutant: input stays as available as it was.
HandleFailure_KeepsInput(heard, w, s, f, a) ==
    /\ avail' = a
    /\ worker' = CASE ~heard -> w
                   [] heard /\ GivesUp(f) -> MarkStopped(w, s)
                   [] heard /\ ~GivesUp(f) -> WorkerCrashed(active', s)

\* handle_worker_event for the watchdog's decision: Ignore (not heard) leaves
\* the state w and availability a, otherwise RestartScheduled or GiveUp.
HandleFailure(heard, w, s, f, a) ==
    /\ avail' = CASE ~heard -> a
                  [] heard /\ GivesUp(f) -> "unavailable"
                  [] heard /\ ~GivesUp(f) -> "starting"
    /\ worker' = CASE ~heard -> w
                   [] heard /\ GivesUp(f) -> MarkStopped(w, s)
                   [] heard /\ ~GivesUp(f) -> WorkerCrashed(active', s)

Launched(w, s, k) ==
    \E reader \in BOOLEAN :
        /\ m' = LaunchIn(k, s, reader)
        /\ readers' = IF reader THEN readers \cup {[s |-> s, g |-> k.gen + 1]} ELSE readers
        /\ worker' = MarkRunning(w, s)
        /\ avail' = "ready"
        /\ media' = "capturing"
        /\ UNCHANGED told

\* Every way launch fails: no user SID, no pipe, no process, or a peer that
\* does not authenticate and is terminated. launch_failed ignores a failure
\* while the watchdog has a process.
LaunchFails(w, s, k, a) ==
    LET tried == [k EXCEPT !.gen = @ + 1]
        f == NextFailure(k.streak, s)
        heard == k.wd = None
    IN /\ m' = IF heard THEN Decide(tried, s, f) ELSE tried
       /\ HandleFailure(heard, w, s, f, a)
       /\ UNCHANGED <<media, readers, told>>

\* launch with the handling of its event; w and a are the supervisor's state
\* and the availability before it, k the manager.
Launch(w, s, k, a) == Launched(w, s, k) \/ LaunchFails(w, s, k, a)

----------------------------------------------------------------------------
\* Windows session events, one loop step each.

Spend == left > 0 /\ left' = left - 1

\* SessionSupervisor::activate with handle_supervisor_action
Activate(s) ==
    /\ active' = s
    /\ \/ /\ worker = Stopped                          \* LaunchWorker
          /\ Launch(Starting(s), s, m, "starting")
       \/ /\ worker.s = s                              \* None
          /\ UNCHANGED <<worker, m, avail, media, readers, told>>
       \/ /\ worker # Stopped /\ worker.s # s          \* ReplaceWorker
          /\ Launch(Starting(s), s, StopIn(m, worker.s), "starting")

Logon(s) ==
    /\ up /\ Spend
    /\ s \notin users /\ users' = users \cup {s}
    /\ Activate(s)
    /\ UNCHANGED <<up, locked>>

\* ConsoleConnect and RemoteConnect, before or after the user's logon
Connect(s) ==
    /\ up /\ Spend
    /\ Activate(s)
    /\ UNCHANGED <<up, users, locked>>

Logoff(s) ==
    /\ up /\ Spend
    /\ s \in users /\ users' = users \ {s} /\ locked' = locked \ {s}
    /\ active' = IF active = s THEN None ELSE active
    /\ \/ /\ worker.s = s                              \* StopWorker
          /\ m' = StopIn(m, s)
          /\ worker' = Stopped
          /\ avail' = "unavailable"
       \/ /\ worker.s # s
          /\ UNCHANGED <<m, worker, avail>>
    /\ UNCHANGED <<up, media, readers, told>>

\* send_control reaches the Worker when it is the session's and still runs.
Reaches(s) == m.proc # None /\ m.proc.s = s /\ m.proc \in m.alive

\* lock and disconnect: SuspendMedia only for a running Worker
SuspendMedia(s) ==
    /\ \/ /\ worker = Running(s)
          /\ worker' = Suspended(s)
          /\ avail' = "suspended"
          /\ media' = IF Reaches(s) THEN "suspended" ELSE media
       \/ /\ worker # Running(s)
          /\ UNCHANGED <<worker, avail, media>>
    /\ UNCHANGED <<active, m, readers, told>>

Lock(s) ==
    /\ up /\ Spend
    /\ s \in users \ locked /\ locked' = locked \cup {s}
    /\ SuspendMedia(s)
    /\ UNCHANGED <<up, users>>

\* ConsoleDisconnect and RemoteDisconnect
Disconnect(s) ==
    /\ up /\ Spend
    /\ SuspendMedia(s)
    /\ UNCHANGED <<up, users, locked>>


\* Mutant: unlocking resumes the supervisor without telling the Worker.
Unlock_Silent(s) ==
    /\ up /\ Spend
    /\ s \in locked /\ locked' = locked \ {s}
    /\ \/ /\ worker = Suspended(s)
          /\ worker' = Running(s)
          /\ avail' = "ready"
          /\ UNCHANGED <<active, m, media, readers, told>>
       \/ /\ worker # Suspended(s)
          /\ Activate(s)
    /\ UNCHANGED <<up, users>>

Unlock(s) ==
    /\ up /\ Spend
    /\ s \in locked /\ locked' = locked \ {s}
    /\ \/ /\ worker = Suspended(s)                     \* ResumeMedia
          /\ worker' = Running(s)
          /\ avail' = IF Reaches(s) THEN "ready" ELSE "unavailable"
          /\ media' = IF Reaches(s) THEN "capturing" ELSE media
          /\ UNCHANGED <<active, m, readers, told>>
       \/ /\ worker # Suspended(s)
          /\ Activate(s)
    /\ UNCHANGED <<up, users>>

----------------------------------------------------------------------------
\* WorkerManager::poll, every 250 ms


\* Mutant: only the exit of a Worker that is not suspended is noticed.
PollExit_NotSuspended(healthy) ==
    LET p == m.proc
        gone == [m EXCEPT !.proc = None, !.snap = NoReport]
        f == NextFailure(StreakAfterRun(m.streak, healthy), p.s)
    IN /\ up
       /\ p # None /\ p \notin m.alive /\ worker.st = "running"
       /\ m' = IF m.wd = p THEN Decide([gone EXCEPT !.wd = None], p.s, f) ELSE gone
       /\ UNCHANGED <<up, active, media, readers, told, envVars>>
       /\ HandleFailure(m.wd = p, worker, p.s, f, avail)

\* The process has exited: forget it and ask the watchdog, which ignores a
\* process it does not watch.
PollExit(healthy) ==
    LET p == m.proc
        gone == [m EXCEPT !.proc = None, !.snap = NoReport]
        f == NextFailure(StreakAfterRun(m.streak, healthy), p.s)
    IN /\ up
       /\ p # None /\ p \notin m.alive
       /\ m' = IF m.wd = p THEN Decide([gone EXCEPT !.wd = None], p.s, f) ELSE gone
       /\ UNCHANGED <<up, active, media, readers, told, envVars>>
       /\ HandleFailure(m.wd = p, worker, p.s, f, avail)

\* Mutant: a poll without a managed process returns before the restart.
PollRestart_NeedsProcess ==
    /\ up
    /\ m.proc # None /\ m.proc \in m.alive
    /\ m.restart # None
    /\ active' = active
    /\ Launch(worker, m.restart, [m EXCEPT !.restart = None], avail)
    /\ UNCHANGED <<up, envVars>>

\* The pending restart is due.
PollRestart ==
    /\ up
    /\ m.proc # None => m.proc \in m.alive
    /\ m.restart # None
    /\ active' = active
    /\ Launch(worker, m.restart, [m EXCEPT !.restart = None], avail)
    /\ UNCHANGED <<up, envVars>>

\* Queued input or an input release finds no live Worker.
InputFails ==
    /\ up
    /\ m.proc # None => m.proc \notin m.alive
    /\ avail' = "unavailable"
    /\ UNCHANGED <<up, worker, active, m, media, readers, told, envVars>>

\* The loop ends: stop_any.
ServiceStops ==
    LET idle == [m EXCEPT !.restart = None]
    IN /\ up /\ up' = FALSE
       /\ avail' = "unavailable"
       /\ m' = IF m.proc # None THEN StopIn(idle, m.proc.s) ELSE idle
       /\ UNCHANGED <<worker, active, media, readers, told, envVars>>

----------------------------------------------------------------------------
\* Processes and reader threads, concurrent with the loop.

WorkerDies(p) ==
    /\ Spend
    /\ p \in m.alive
    /\ m' = [m EXCEPT !.alive = @ \ {p}]
    /\ UNCHANGED <<up, worker, active, avail, media, readers, told, users, locked>>


\* Mutant: a report is applied to whatever Worker the snapshot is of.
ReaderReports_AnyWorker(p, flags) ==
    /\ p \in readers
    /\ m' = [m EXCEPT !.snap.flags = flags]
    /\ told' = p
    /\ UNCHANGED <<up, worker, active, avail, media, readers, envVars>>

\* apply_report: a report of a replaced Worker ends its reader.
ReaderReports(p, flags) ==
    /\ p \in readers
    /\ \/ /\ m.snap.w = p
          /\ m' = [m EXCEPT !.snap.flags = flags]
          /\ told' = p
          /\ UNCHANGED readers
       \/ /\ m.snap.w # p
          /\ readers' = readers \ {p}
          /\ UNCHANGED <<m, told>>
    /\ UNCHANGED <<up, worker, active, avail, media, envVars>>

\* A cache query or a measurement: apply_h264_qualification. Only the flag
\* of the cache's verdict changes.
ReaderQualifies(p, qualified) ==
    /\ p \in readers
    /\ \/ /\ m.snap.w = p
          /\ m' = [m EXCEPT !.snap.flags =
                     IF qualified THEN @ \cup {H264} ELSE @ \ {H264}]
          /\ told' = p
          /\ UNCHANGED readers
       \/ /\ m.snap.w # p
          /\ readers' = readers \ {p}
          /\ UNCHANGED <<m, told>>
    /\ UNCHANGED <<up, worker, active, avail, media, envVars>>

\* End of the pipe: clear_report_if_current.
ReaderEnds(p) ==
    /\ p \in readers /\ p \notin m.alive
    /\ readers' = readers \ {p}
    /\ m' = IF m.snap.w = p THEN [m EXCEPT !.snap.flags = {}] ELSE m
    /\ UNCHANGED <<up, worker, active, avail, media, told, envVars>>

SessionEvent ==
    \E s \in WinSessions :
        Logon(s) \/ Connect(s) \/ Logoff(s) \/ Lock(s) \/ Disconnect(s) \/ Unlock(s)

Poll == PollRestart \/ \E healthy \in BOOLEAN : PollExit(healthy)

ReaderStep ==
    \E p \in readers :
        \/ \E flags \in SUBSET Flags : ReaderReports(p, flags)
        \/ \E qualified \in BOOLEAN : ReaderQualifies(p, qualified)
        \/ ReaderEnds(p)

Next ==
    \/ SessionEvent \/ Poll \/ InputFails \/ ServiceStops
    \/ \E p \in m.alive : WorkerDies(p)
    \/ ReaderStep

Spec == Init /\ [][Next]_vars

\* The loop polls for ever while it runs; nothing else is promised.
FairSpec == Spec /\ WF_vars(Poll)

----------------------------------------------------------------------------
\* Properties

\* Type invariant of the supervisor, the manager and the Windows state.
TypeOK ==
    /\ up \in BOOLEAN
    /\ worker \in WorkerStates /\ active \in SomeSession
    /\ m \in Managers
    /\ avail \in Availability /\ media \in {"capturing", "suspended"}
    /\ readers \in SUBSET Procs /\ told \in SomeProc
    /\ users \in SUBSET WinSessions /\ locked \in SUBSET WinSessions
    /\ left \in Nat

\* The pure supervisor and the manager with real processes never drift apart,
\* whatever order of session events, launch failures, crashes and polls: a
\* Running or Suspended state has a managed process of that session and vice
\* versa, a Starting state has a restart pending for it, and each is for the
\* active session; the watchdog watches exactly the managed process.
SupervisorAgrees ==
    up => /\ m.wd = m.proc
          /\ worker.st \in {"running", "suspended"} <=> m.proc # None
          /\ m.proc # None => m.proc.s = worker.s
          /\ m.restart = IF worker.st = "starting" THEN worker.s ELSE None
          /\ worker # Stopped => worker.s = active

\* "interactive login launches exactly the intended worker" and "fast user
\* switching replaces the worker cleanly" (docs/ROADMAP.md): no process other
\* than the managed one is ever alive, and none outlives the Service loop.
OneWorker ==
    /\ m.alive \subseteq {m.proc}
    /\ ~up => m.alive = {}

\* Control sessions may inject input only when availability is Ready: then the
\* Worker of the active session runs, and is not suspended.
ReadyIsRunning ==
    avail = "ready" => active # None /\ worker = Running(active)

\* Capabilities offered to a Teacher (hello_capabilities) were reported by the
\* very process the Service manages now, however late the readers of replaced
\* Workers run.
AdvertisedIsManaged ==
    m.snap.flags # {} => m.proc # None /\ m.snap.w = m.proc /\ told = m.proc

\* A live Worker's capture follows the supervisor's suspension.
MediaFollowsSupervisor ==
    up /\ m.proc # None /\ m.proc \in m.alive
        => (media = "suspended" <=> worker.st = "suspended")

\* A pending restart is always the next failure of its own session's streak and
\* inside the policy's budget: after GiveUp nothing is retried.
RestartWithinBudget ==
    m.restart # None => m.streak.s = m.restart /\ m.streak.n \in 1..MaxFailures

\* A launch in progress is decided: it runs, is given up, or is superseded.
StartingResolves ==
    \A s \in WinSessions : worker = Starting(s) /\ up ~> worker # Starting(s) \/ ~up

\* "a worker crash does not require restarting the machine service" (ROADMAP): a
\* dead Worker is noticed and leaves the manager.
DeathNoticed ==
    \A s \in WinSessions :
        (up /\ m.proc # None /\ m.proc.s = s /\ m.proc \notin m.alive)
            ~> (~up \/ m.proc = None \/ m.proc \in m.alive)

\* "lock/unlock suspends/resumes media state" (docs/ROADMAP.md:44): the Worker
\* of a locked session does not capture. Refuted: a Worker launched or
\* relaunched while its session is locked captures and takes input.
LockedIsSuspended ==
    up /\ m.proc # None /\ m.proc \in m.alive /\ m.proc.s \in locked
        => media = "suspended"

\* "An intentional stop/logoff must rearm that session's next lifecycle"
\* (worker.rs:77): after its logoff no failure streak of the session remains.
\* Refuted: a logoff after GiveUp finds the supervisor Stopped, so the manager
\* and its watchdog are never told.
LogoffRearms ==
    [][\A s \in users \ users' : m'.streak.s # s]_vars

=============================================================================
