--------------------------- MODULE PresentationKey ---------------------------
(***************************************************************************)
(* The Student's side of a protected presentation: who owns it, how its    *)
(* key reaches the Worker, how the Worker's receiver is started, and how   *)
(* everything is taken down again.                                         *)
(*                                                                         *)
(* Actors: the control sessions (tasks of control_runtime.rs), the         *)
(* single-threaded Service loop (main.rs, one step per queue element, in   *)
(* the order of the loop body), and the Worker process behind a FIFO pipe  *)
(* (classmesh-worker/main.rs, group_media_receive.rs). The Worker may die  *)
(* or be replaced for another Windows session at any time.                 *)
(*                                                                         *)
(* A presentation id stands for the pair of presentation and stream id.    *)
(***************************************************************************)
EXTENDS Naturals, Sequences

CONSTANTS
    Sessions,           \* control session ids
    Presentations,      \* (presentation id, stream id) pairs
    MaxEpoch,           \* bound: key epochs
    MaxGen,             \* bound: Worker generations
    MaxReq,             \* bound: grants per session (their request ids)
    InstallMayTimeOut,  \* whether PRESENTATION_KEY_INSTALL_TIMEOUT can expire
    None

ASSUME BoundsAssumption ==
    /\ MaxEpoch \in Nat \ {0} /\ MaxGen \in Nat \ {0} /\ MaxReq \in Nat \ {0}
    /\ InstallMayTimeOut \in BOOLEAN

VARIABLES
    owner,          \* PresentationOwnership: <<session, presentation>> or None
    lastReq,        \* request id of a session's latest grant (a Teacher's are unique)
    phase,          \* what each session task is doing
    asked,          \* binding of the install a session waits for
    reply,          \* the one-shot reply a waiting session will read
    installed,      \* installed_presentation_key of each session
    lease,          \* PresentationKeyWorkerLease of each session
    installQ, clearQ, startQ,   \* the bounded queues of capacity one
    pendInstall, pendStart,     \* the Service loop's pending requests
    pc,             \* the part of the loop body that runs next
    gen, up, seen,  \* Worker generation, process alive, process known to Service
    due,            \* WorkerManager::pending_restart is set
    toWorker,       \* the pipe to the Worker
    keyResults, startResults,   \* results of Workers, not yet seen by the loop
    key, recv,      \* Worker: installed key binding, binding of its receiver
    ackGen          \* history: Worker generation that acknowledged a session's key

sessVars == <<owner, lastReq, phase, asked, reply, installed, lease, ackGen>>
queueVars == <<installQ, clearQ, startQ>>
loopVars == <<pendInstall, pendStart, pc>>
procVars == <<gen, up, seen, due>>
workVars == <<toWorker, keyResults, startResults, key, recv>>
vars == <<sessVars, queueVars, loopVars, procVars, workVars>>

Epochs == 1..MaxEpoch

\* PresentationKeyInstallBinding
Bindings == [s : Sessions, q : 1..MaxReq, p : Presentations, e : Epochs]

\* The parts of the Service loop body, in order.
Parts == <<"clears", "abandoned", "keyResults", "installs", "startChecks",
           "startResults", "starts", "events", "poll">>
NextPart ==
    pc' = IF pc = Len(Parts) THEN 1 ELSE pc + 1
At(part) == Parts[pc] = part

\* "stopping": stopped as owner, the clear of its key not yet queued.
\* "keyLate": the install timeout has fired, the reply receiver still exists.
\* "closing": the session function returned; its lease is being dropped.
\* "released": the lease is dropped, the ownerships are not yet released.
Phases == {"open", "stopping", "keyWait", "keyLate", "startWait",
           "closing", "released", "ended"}

Dispatches == [b : Bindings, cancelled : BOOLEAN]
Messages == [kind : {"install", "clear", "start"}, b : Bindings]
Results == [b : Bindings, ok : BOOLEAN, gen : 1..MaxGen]

TypeOK ==
    /\ owner \in {None} \cup (Sessions \X Presentations)
    /\ lastReq \in [Sessions -> 0..MaxReq]
    /\ phase \in [Sessions -> Phases]
    /\ asked \in [Sessions -> Bindings \cup {None}]
    /\ reply \in [Sessions -> {"empty", "ok", "err"}]
    /\ installed \in [Sessions -> Bindings \cup {None}]
    /\ lease \in [Sessions -> Bindings \cup {None}]
    /\ ackGen \in [Sessions -> 0..MaxGen]
    /\ installQ \in Bindings \cup {None}
    /\ clearQ \in Bindings \cup {None}
    /\ startQ \in Dispatches \cup {None}
    /\ pendInstall \in [b : Bindings, gen : 1..MaxGen] \cup {None}
    /\ pendStart \in [b : Bindings, gen : 1..MaxGen] \cup {None}
    /\ pc \in 1..Len(Parts)
    /\ gen \in 1..MaxGen /\ up \in BOOLEAN /\ seen \in BOOLEAN /\ due \in BOOLEAN
    /\ toWorker \in Seq(Messages)
    /\ keyResults \in Seq(Results)
    /\ startResults \in Seq(Results)
    /\ key \in Bindings \cup {None}
    /\ recv \in Bindings \cup {None}

Init ==
    /\ owner = None
    /\ lastReq = [s \in Sessions |-> 0]
    /\ phase = [s \in Sessions |-> "open"]
    /\ asked = [s \in Sessions |-> None]
    /\ reply = [s \in Sessions |-> "empty"]
    /\ installed = [s \in Sessions |-> None]
    /\ lease = [s \in Sessions |-> None]
    /\ ackGen = [s \in Sessions |-> 0]
    /\ installQ = None /\ clearQ = None /\ startQ = None
    /\ pendInstall = None /\ pendStart = None
    /\ pc = 1
    /\ gen = 1 /\ up = TRUE /\ seen = TRUE /\ due = FALSE
    /\ toWorker = <<>> /\ keyResults = <<>> /\ startResults = <<>>
    /\ key = None /\ recv = None

-----------------------------------------------------------------------------
(* Control sessions                                                        *)

Leave(s) == phase' = [phase EXCEPT ![s] = "closing"]

\* Any session may end while it is not waiting: disconnect, heartbeat timeout,
\* lost authorization, a rejected command, a failed reply.
SessionCloses(s) ==
    /\ phase[s] = "open"
    /\ Leave(s)
    /\ UNCHANGED <<lastReq, owner, asked, reply, installed, lease, ackGen,
                   queueVars, loopVars, procVars, workVars>>

\* PresentationOwnership::start; a repeated start by the owner changes nothing.
PresentationStart(s, p) ==
    /\ phase[s] = "open"
    /\ owner = None
    /\ owner' = <<s, p>>
    /\ UNCHANGED <<lastReq, phase, asked, reply, installed, lease, ackGen,
                   queueVars, loopVars, procVars, workVars>>

\* PresentationOwnership::stop: the ownership goes first; the key is forgotten
\* and its clear queued afterwards (StopClearsKey; the send blocks).
PresentationStop(s) ==
    /\ phase[s] = "open"
    /\ \E p \in Presentations : owner = <<s, p>>
    /\ owner' = None
    /\ installed' = [installed EXCEPT ![s] = None]
    /\ phase' = [phase EXCEPT ![s] = "stopping"]
    /\ UNCHANGED <<lastReq, asked, reply, lease, ackGen, queueVars, loopVars, procVars, workVars>>

\* Deviation of ClearNow: the lease is forgotten without a clear.
ClearNow_Silent(s) ==
    /\ lease' = [lease EXCEPT ![s] = None]
    /\ UNCHANGED clearQ

\* PresentationKeyWorkerLease::clear_now
ClearNow(s) ==
    /\ clearQ = None \/ lease[s] = None
    /\ clearQ' = IF lease[s] = None THEN clearQ ELSE lease[s]
    /\ lease' = [lease EXCEPT ![s] = None]

StopClearsKey(s) ==
    /\ phase[s] = "stopping"
    /\ ClearNow(s)
    /\ phase' = [phase EXCEPT ![s] = "open"]
    /\ UNCHANGED <<lastReq, owner, asked, reply, installed, ackGen, installQ, startQ,
                   loopVars, procVars, workVars>>

\* presentation_key_epoch_is_fresh
FreshEpoch(s, b) ==
    installed[s] # None => installed[s].p = b.p /\ b.e > installed[s].e

\* A grant from the owner, with a fresh epoch and room in the queue, is handed
\* to the Service loop; any other closes the session.
KeyGrant(s, b) ==
    /\ phase[s] = "open"
    /\ b.s = s /\ b.q = lastReq[s] + 1
    /\ lastReq' = [lastReq EXCEPT ![s] = b.q]
    /\ \/ /\ owner = <<s, b.p>> /\ FreshEpoch(s, b) /\ installQ = None
          /\ installQ' = b
          /\ phase' = [phase EXCEPT ![s] = "keyWait"]
          /\ asked' = [asked EXCEPT ![s] = b]
          /\ reply' = [reply EXCEPT ![s] = "empty"]
       \/ /\ ~(owner = <<s, b.p>> /\ FreshEpoch(s, b) /\ installQ = None)
          /\ Leave(s)
          /\ UNCHANGED <<installQ, asked, reply>>
    /\ UNCHANGED <<owner, installed, lease, ackGen, clearQ, startQ,
                   loopVars, procVars, workVars>>

\* The reply arrived in time. The lease is taken before the ACK is sent; a
\* failed ACK closes the session with the lease held.
KeyReplied(s) ==
    /\ phase[s] = "keyWait"
    /\ reply[s] # "empty"
    /\ \/ /\ reply[s] = "err"
          /\ Leave(s)
          /\ UNCHANGED <<lease, installed>>
       \/ /\ reply[s] = "ok"
          /\ lease' = [lease EXCEPT ![s] = asked[s]]
          /\ \/ /\ installed' = [installed EXCEPT ![s] = asked[s]]
                /\ phase' = [phase EXCEPT ![s] = "open"]
             \/ Leave(s) /\ UNCHANGED installed
    /\ asked' = [asked EXCEPT ![s] = None]
    /\ reply' = [reply EXCEPT ![s] = "empty"]
    /\ UNCHANGED <<lastReq, owner, ackGen, queueVars, loopVars, procVars, workVars>>

\* The timeout fires; the reply receiver is dropped when the function returns.
KeyTimesOut(s) ==
    /\ InstallMayTimeOut
    /\ phase[s] = "keyWait"
    /\ reply[s] = "empty"
    /\ phase' = [phase EXCEPT ![s] = "keyLate"]
    /\ UNCHANGED <<lastReq, owner, asked, reply, installed, lease, ackGen,
                   queueVars, loopVars, procVars, workVars>>

KeyReceiverDropped(s) ==
    /\ phase[s] = "keyLate"
    /\ Leave(s)
    /\ asked' = [asked EXCEPT ![s] = None]
    /\ reply' = [reply EXCEPT ![s] = "empty"]
    /\ UNCHANGED <<lastReq, owner, installed, lease, ackGen, queueVars, loopVars, procVars, workVars>>

\* The function returned: the lease is dropped (a blocking send on the clear
\* queue), then the listener releases the ownership.
LeaseDropped(s) ==
    /\ phase[s] = "closing"
    /\ ClearNow(s)
    /\ installed' = [installed EXCEPT ![s] = None]
    /\ phase' = [phase EXCEPT ![s] = "released"]
    /\ UNCHANGED <<lastReq, owner, asked, reply, ackGen, installQ, startQ,
                   loopVars, procVars, workVars>>

ReleaseSession(s) ==
    /\ phase[s] = "released"
    /\ owner' = IF \E p \in Presentations : owner = <<s, p>> THEN None ELSE owner
    /\ phase' = [phase EXCEPT ![s] = "ended"]
    /\ UNCHANGED <<lastReq, asked, reply, installed, lease, ackGen,
                   queueVars, loopVars, procVars, workVars>>

\* Deviation of StreamOffer: an owner without an installed key is not refused.
StreamOffer_WithoutKey(s) ==
    /\ phase[s] = "open"
    /\ \E p \in Presentations : owner = <<s, p>>
    /\ lease[s] = installed[s]
    /\ startQ = None
    /\ startQ' = [b |-> lease[s], cancelled |-> FALSE]
    /\ phase' = [phase EXCEPT ![s] = "startWait"]
    /\ reply' = [reply EXCEPT ![s] = "empty"]
    /\ UNCHANGED <<lastReq, owner, asked, installed, lease, ackGen, installQ, clearQ,
                   loopVars, procVars, workVars>>

\* A presentation StreamOffer: answered at once with a refusal (no change)
\* unless the session owns the stream and its lease is the installed key.
StreamOffer(s) ==
    /\ phase[s] = "open"
    /\ installed[s] # None
    /\ owner = <<s, installed[s].p>>
    /\ lease[s] = installed[s]
    /\ startQ = None
    /\ startQ' = [b |-> lease[s], cancelled |-> FALSE]
    /\ phase' = [phase EXCEPT ![s] = "startWait"]
    /\ reply' = [reply EXCEPT ![s] = "empty"]
    /\ UNCHANGED <<lastReq, owner, asked, installed, lease, ackGen, installQ, clearQ,
                   loopVars, procVars, workVars>>

\* await_presentation_start: a reply ends the wait; so does the timeout while
\* the dispatch is not committed, which cancels it. A committed start waits on.
StartReplied(s) ==
    /\ phase[s] = "startWait"
    /\ reply[s] # "empty"
    /\ phase' = [phase EXCEPT ![s] = "open"]
    /\ reply' = [reply EXCEPT ![s] = "empty"]
    /\ UNCHANGED <<lastReq, owner, asked, installed, lease, ackGen,
                   queueVars, loopVars, procVars, workVars>>

StartTimesOut(s) ==
    /\ phase[s] = "startWait"
    /\ reply[s] = "empty"
    /\ startQ # None /\ startQ.b.s = s /\ ~startQ.cancelled
    /\ startQ' = [startQ EXCEPT !.cancelled = TRUE]
    /\ phase' = [phase EXCEPT ![s] = "open"]
    /\ UNCHANGED <<lastReq, owner, asked, reply, installed, lease, ackGen, installQ, clearQ,
                   loopVars, procVars, workVars>>

-----------------------------------------------------------------------------
(* The Service loop                                                        *)

\* A send reaches the Worker unless its process is gone.
CanSend == seen /\ up
Send(m) == toWorker' = IF CanSend THEN Append(toWorker, m) ELSE toWorker

\* A one-shot reply; it is lost if the session no longer waits in that phase.
Answer(s, waiting, r) ==
    reply' = IF phase[s] = waiting THEN [reply EXCEPT ![s] = r] ELSE reply

\* Deviation of LoopClears: the clear queue is never read.
LoopClears_Skipped ==
    /\ At("clears")
    /\ NextPart
    /\ UNCHANGED <<sessVars, queueVars, pendInstall, pendStart, procVars, workVars>>

LoopClears ==
    /\ At("clears")
    /\ \/ /\ clearQ # None
          /\ clearQ' = None
          /\ IF pendStart # None /\ pendStart.b = clearQ
             THEN pendStart' = None /\ Answer(pendStart.b.s, "startWait", "err")
             ELSE UNCHANGED <<pendStart, reply>>
          /\ Send([kind |-> "clear", b |-> clearQ])
          /\ UNCHANGED pc
       \/ /\ clearQ = None
          /\ NextPart
          /\ UNCHANGED <<clearQ, pendStart, reply, toWorker>>
    /\ UNCHANGED <<lastReq, owner, phase, asked, installed, lease, ackGen, installQ, startQ,
                   pendInstall, procVars, keyResults, startResults, key, recv>>

\* Deviation of LoopAbandoned: a closed reply channel is not noticed.
LoopAbandoned_Skipped ==
    /\ At("abandoned")
    /\ NextPart
    /\ UNCHANGED <<sessVars, queueVars, pendInstall, pendStart, procVars, workVars>>

\* An install whose session no longer listens is taken back.
LoopAbandoned ==
    /\ At("abandoned")
    /\ NextPart
    /\ \/ /\ pendInstall # None
          /\ phase[pendInstall.b.s] \notin {"keyWait", "keyLate"}
          /\ Send([kind |-> "clear", b |-> pendInstall.b])
          /\ pendInstall' = None
       \/ /\ pendInstall # None => phase[pendInstall.b.s] \in {"keyWait", "keyLate"}
          /\ UNCHANGED <<toWorker, pendInstall>>
    /\ UNCHANGED <<sessVars, queueVars, pendStart, procVars, keyResults, startResults, key, recv>>

\* is_running_worker and the generation check of a pending request.
SameWorker(pending) == seen /\ up /\ pending.gen = gen

Matches(pending, r) == pending # None /\ r.b = pending.b /\ r.gen = pending.gen

LoopKeyResults ==
    /\ At("keyResults")
    /\ \/ /\ keyResults # <<>>
          /\ keyResults' = Tail(keyResults)
          /\ LET r == Head(keyResults)
                 ok == SameWorker(pendInstall) /\ r.ok IN
             \/ /\ ~Matches(pendInstall, r)
                /\ UNCHANGED <<pendInstall, reply, ackGen>>
             \/ /\ Matches(pendInstall, r)
                /\ pendInstall' = None
                /\ Answer(r.b.s, "keyWait", IF ok THEN "ok" ELSE "err")
                /\ ackGen' = IF ok THEN [ackGen EXCEPT ![r.b.s] = r.gen] ELSE ackGen
          /\ UNCHANGED pc
       \/ /\ keyResults = <<>>
          /\ NextPart
          /\ UNCHANGED <<keyResults, pendInstall, reply, ackGen>>
    /\ UNCHANGED <<lastReq, owner, phase, asked, installed, lease, queueVars, pendStart,
                   procVars, toWorker, startResults, key, recv>>

LoopInstalls ==
    /\ At("installs")
    /\ \/ /\ installQ # None
          /\ installQ' = None
          /\ IF pendInstall = None /\ CanSend
             THEN /\ pendInstall' = [b |-> installQ, gen |-> gen]
                  /\ Send([kind |-> "install", b |-> installQ])
                  /\ UNCHANGED reply
             ELSE /\ Answer(installQ.s, "keyWait", "err")
                  /\ UNCHANGED <<pendInstall, toWorker>>
          /\ UNCHANGED pc
       \/ /\ installQ = None
          /\ NextPart
          /\ UNCHANGED <<installQ, pendInstall, toWorker, reply>>
    /\ UNCHANGED <<lastReq, owner, phase, asked, installed, lease, ackGen, clearQ, startQ,
                   pendStart, procVars, keyResults, startResults, key, recv>>

\* Deviation of LoopStartChecks: a replaced Worker is not noticed.
LoopStartChecks_Skipped ==
    /\ At("startChecks")
    /\ NextPart
    /\ UNCHANGED <<sessVars, queueVars, pendInstall, pendStart, procVars, workVars>>

\* A pending start whose Worker exited or was replaced fails.
LoopStartChecks ==
    /\ At("startChecks")
    /\ NextPart
    /\ IF pendStart # None /\ ~SameWorker(pendStart)
       THEN pendStart' = None /\ Answer(pendStart.b.s, "startWait", "err")
       ELSE UNCHANGED <<pendStart, reply>>
    /\ UNCHANGED <<lastReq, owner, phase, asked, installed, lease, ackGen, queueVars,
                   pendInstall, procVars, workVars>>

LoopStartResults ==
    /\ At("startResults")
    /\ \/ /\ startResults # <<>>
          /\ startResults' = Tail(startResults)
          /\ LET r == Head(startResults) IN
             \/ /\ ~Matches(pendStart, r)
                /\ UNCHANGED <<pendStart, reply>>
             \/ /\ Matches(pendStart, r)
                /\ pendStart' = None
                /\ Answer(r.b.s, "startWait", IF SameWorker(pendStart) /\ r.ok THEN "ok" ELSE "err")
          /\ UNCHANGED pc
       \/ /\ startResults = <<>>
          /\ NextPart
          /\ UNCHANGED <<startResults, pendStart, reply>>
    /\ UNCHANGED <<lastReq, owner, phase, asked, installed, lease, ackGen, queueVars, pendInstall,
                   procVars, toWorker, keyResults, key, recv>>

\* Busy first, then the commit against the session's timeout, then the send.
LoopStarts ==
    /\ At("starts")
    /\ \/ /\ startQ # None
          /\ startQ' = None
          /\ IF pendStart = None /\ ~startQ.cancelled /\ CanSend
             THEN /\ pendStart' = [b |-> startQ.b, gen |-> gen]
                  /\ Send([kind |-> "start", b |-> startQ.b])
                  /\ UNCHANGED reply
             ELSE /\ IF startQ.cancelled THEN UNCHANGED reply
                                         ELSE Answer(startQ.b.s, "startWait", "err")
                  /\ UNCHANGED <<pendStart, toWorker>>
          /\ UNCHANGED pc
       \/ /\ startQ = None
          /\ NextPart
          /\ UNCHANGED <<startQ, pendStart, toWorker, reply>>
    /\ UNCHANGED <<lastReq, owner, phase, asked, installed, lease, ackGen, installQ, clearQ,
                   pendInstall, procVars, keyResults, startResults, key, recv>>

\* A fresh Worker process: no key, no receiver, an empty pipe.
FreshWorker ==
    /\ gen < MaxGen
    /\ gen' = gen + 1 /\ up' = TRUE /\ seen' = TRUE /\ due' = FALSE
    /\ toWorker' = <<>> /\ key' = None /\ recv' = None

\* WorkerManager::stop, with a launch that failed or none: no Worker is left,
\* and a restart may be due.
StopWorker ==
    /\ up' = FALSE /\ seen' = FALSE /\ due' \in BOOLEAN
    /\ toWorker' = <<>> /\ key' = None /\ recv' = None
    /\ UNCHANGED gen

\* A Windows session change may launch, replace or stop the Worker at once; the
\* pending requests are left for their own checks.
LoopEvents ==
    /\ At("events")
    /\ NextPart
    /\ FreshWorker \/ StopWorker \/ UNCHANGED <<procVars, toWorker, key, recv>>
    /\ UNCHANGED <<sessVars, queueVars, pendInstall, pendStart, keyResults, startResults>>

\* WorkerManager::poll, every 250 ms: an exit is noticed, or a restart that is
\* due happens; either fails every pending request.
PollNoticesExit ==
    /\ seen /\ ~up
    /\ seen' = FALSE /\ due' \in BOOLEAN
    /\ UNCHANGED <<gen, up, toWorker, key, recv>>

PollRestarts ==
    /\ due
    /\ FreshWorker \/ (due' \in BOOLEAN /\ UNCHANGED <<gen, up, seen, toWorker, key, recv>>)

LoopPoll ==
    /\ At("poll")
    /\ NextPart
    /\ PollNoticesExit \/ PollRestarts
    /\ reply' = [s \in Sessions |->
          IF \/ pendInstall # None /\ pendInstall.b.s = s /\ phase[s] = "keyWait"
             \/ pendStart # None /\ pendStart.b.s = s /\ phase[s] = "startWait"
          THEN "err" ELSE reply[s]]
    /\ pendInstall' = None /\ pendStart' = None
    /\ UNCHANGED <<lastReq, owner, phase, asked, installed, lease, ackGen, queueVars,
                   keyResults, startResults>>

LoopPollIdle ==
    /\ At("poll")
    /\ NextPart
    /\ UNCHANGED <<sessVars, queueVars, pendInstall, pendStart, procVars, workVars>>

-----------------------------------------------------------------------------
(* The Worker                                                              *)

\* WorkerGroupMediaKeyState::install, and the check of the running receiver.
InstallAccepted(b) ==
    /\ recv = None \/ (recv.s = b.s /\ recv.p = b.p)
    /\ key = None \/ (key.s = b.s /\ key.p = b.p /\ b.e > key.e)

\* start_matches_key_binding
StartMatchesKey(b) == key # None /\ key.s = b.s /\ key.p = b.p

Result(q, b, ok) == Append(q, [b |-> b, ok |-> ok, gen |-> gen])

WorkerInstalls(b) ==
    /\ key' = IF InstallAccepted(b) THEN b ELSE key
    /\ keyResults' = Result(keyResults, b, InstallAccepted(b))
    /\ UNCHANGED <<recv, startResults>>

\* Deviations of WorkerClears: request id and epoch are not compared; the
\* receiver keeps running.
WorkerClears_AnyEpoch(b) ==
    LET match == key # None /\ key.s = b.s /\ key.p = b.p IN
    /\ key' = IF match THEN None ELSE key
    /\ recv' = IF match THEN None ELSE recv
    /\ UNCHANGED <<keyResults, startResults>>
WorkerClears_KeepsReceiver(b) ==
    /\ key' = IF key = b THEN None ELSE key
    /\ UNCHANGED <<recv, keyResults, startResults>>

\* clear_if_matches: only the exact binding; the receiver goes with the key.
WorkerClears(b) ==
    /\ key' = IF key = b THEN None ELSE key
    /\ recv' = IF key = b THEN None ELSE recv
    /\ UNCHANGED <<keyResults, startResults>>

\* With the right key, the sockets and the decoder open or fail to open; what
\* ran before is gone then.
WorkerStarts(b) ==
    /\ \/ /\ StartMatchesKey(b)
          /\ \E ok \in BOOLEAN :
                /\ recv' = IF ok THEN b ELSE None
                /\ startResults' = Result(startResults, b, ok)
       \/ /\ ~StartMatchesKey(b)
          /\ startResults' = Result(startResults, b, FALSE)
          /\ UNCHANGED recv
    /\ UNCHANGED <<key, keyResults>>

WorkerStep ==
    /\ up
    /\ toWorker # <<>>
    /\ toWorker' = Tail(toWorker)
    /\ LET m == Head(toWorker) IN
       \/ m.kind = "install" /\ WorkerInstalls(m.b)
       \/ m.kind = "clear" /\ WorkerClears(m.b)
       \/ m.kind = "start" /\ WorkerStarts(m.b)
    /\ UNCHANGED <<sessVars, queueVars, loopVars, procVars>>

\* The receive runtime fails on its own and is torn down; the key stays.
ReceiverFails ==
    /\ up /\ recv # None
    /\ recv' = None
    /\ UNCHANGED <<sessVars, queueVars, loopVars, procVars, toWorker, keyResults, startResults, key>>

WorkerDies ==
    /\ up
    /\ up' = FALSE
    /\ toWorker' = <<>> /\ key' = None /\ recv' = None
    /\ UNCHANGED <<sessVars, queueVars, loopVars, gen, seen, due, keyResults, startResults>>

-----------------------------------------------------------------------------
SessionStep(s) ==
    \/ SessionCloses(s) \/ PresentationStop(s) \/ StopClearsKey(s)
    \/ \E p \in Presentations : PresentationStart(s, p)
    \/ \E b \in Bindings : KeyGrant(s, b)
    \/ StreamOffer(s)
    \/ KeyReplied(s) \/ KeyTimesOut(s) \/ KeyReceiverDropped(s)
    \/ StartReplied(s) \/ StartTimesOut(s)
    \/ LeaseDropped(s) \/ ReleaseSession(s)

Loop ==
    \/ LoopClears \/ LoopAbandoned \/ LoopKeyResults \/ LoopInstalls \/ LoopStartChecks
    \/ LoopStartResults \/ LoopStarts \/ LoopEvents \/ LoopPoll \/ LoopPollIdle

Next ==
    \/ \E s \in Sessions : SessionStep(s)
    \/ Loop
    \/ WorkerStep \/ ReceiverFails \/ WorkerDies

Spec == Init /\ [][Next]_vars

\* The loop never blocks; tokio runs a session that can proceed; the blocking
\* sends on the clear queue are served in turn; a live Worker reads its pipe;
\* the loop polls the Worker process again and again.
Fairness ==
    /\ WF_vars(Loop)
    /\ SF_vars(LoopPoll)
    /\ WF_vars(WorkerStep)
    /\ \A s \in Sessions :
        /\ WF_vars(KeyReplied(s) \/ KeyTimesOut(s) \/ KeyReceiverDropped(s))
        /\ WF_vars(StartReplied(s))
        /\ SF_vars(StopClearsKey(s)) /\ SF_vars(LeaseDropped(s))
        /\ WF_vars(ReleaseSession(s))

FairSpec == Spec /\ Fairness

-----------------------------------------------------------------------------
(* Properties                                                              *)

\* The Worker's running receiver always belongs to the presentation whose key
\* it holds: no rotation, stop, failed start or restart separates the two.
ReceiverMatchesKey == recv # None => StartMatchesKey(recv)

\* While a session that is neither installing nor ending holds a lease that
\* the present Worker acknowledged, that Worker holds exactly this key: no late
\* clear, of an older epoch or of another session, can have removed it.
LeaseIsWorkerKey ==
    \A s \in Sessions :
        /\ phase[s] \in {"open", "stopping", "startWait"}
        /\ lease[s] # None
        /\ ackGen[s] = gen /\ up
        => key = lease[s]

\* A key the Worker still holds for a session that has ended is about to be
\* cleared: the clear is queued, on the pipe, or due from the pending install.
\* It holds while no install times out in its session (InstallMayTimeOut =
\* FALSE); with that timeout it is refuted, a result consumed before the reply
\* receiver is dropped being the way (main.rs:2611).
ClearComing(b) ==
    \/ clearQ = b
    \/ \E i \in 1..Len(toWorker) : toWorker[i] = [kind |-> "clear", b |-> b]
    \/ pendInstall # None /\ pendInstall.b = b
KeyEndsWithSession == key # None /\ phase[key.s] = "ended" => ClearComing(key)

\* A session blocked on a presentation start always gets on: by the Worker's
\* answer, the timeout, the Worker's exit or the clear of its key.
StartWaitEnds == \A s \in Sessions : phase[s] = "startWait" ~> phase[s] # "startWait"

\* The single install slot never stays taken: an abandoned or unanswered
\* install makes room for the next presentation.
InstallSlotFreed == pendInstall # None ~> pendInstall = None

\* A closing session gets through its blocking cleanup.
ClosingEnds == \A s \in Sessions : phase[s] = "closing" ~> phase[s] = "ended"

=============================================================================
