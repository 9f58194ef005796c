--------------------------- MODULE CommandDispatch ---------------------------
(***************************************************************************)
(* How a Teacher's privileged command reaches the Service loop, and how    *)
(* its outcome comes back: system actions, Teacher interactions and        *)
(* clipboard reads.                                                        *)
(*                                                                         *)
(* Actors: control sessions, each with one command under way, that wait    *)
(* for a one-shot reply with a timeout (control_runtime.rs); the Service   *)
(* loop, one step per part of its body and queue element, in the order of  *)
(* the body (main.rs); the Worker process behind a FIFO pipe; and one      *)
(* reader thread per launched Worker.                                      *)
(*                                                                         *)
(* A command is a session and its number there, which stands for the       *)
(* sequence number of its envelope. Nothing keeps a Teacher from reusing a *)
(* request id, so a request id tells the commands of one session apart     *)
(* not at all. A Worker generation stands for pid, Windows session and     *)
(* generation. Time is abstract: a timeout may expire whenever it runs.    *)
(***************************************************************************)
EXTENDS Naturals, Sequences, Functions

CONSTANTS
    Sessions,       \* control session ids
    Kinds,          \* kinds of command the Teachers send
    MaxCommands,    \* bound: commands of all sessions together
    MaxGen,         \* bound: launched Workers
    ResultCap,      \* capacity of the two Worker result queues
    SessionEvents,  \* whether Windows session events stop or replace a Worker
    None

ASSUME DispatchAssumption ==
    /\ Kinds \subseteq {"lock", "power", "interact", "read"}
    /\ MaxCommands \in Nat \ {0} /\ MaxGen \in Nat \ {0} /\ ResultCap \in Nat \ {0}
    /\ SessionEvents \in BOOLEAN

VARIABLES
    sent,       \* number of commands each session has received
    kind,       \* kind of each command
    token,      \* SystemActionCommit of each command
    reply,      \* the one-shot channel of each command
    answer,     \* outcome the session reported to the Teacher
    queue,      \* the three dispatch queues of capacity one
    pc,         \* part of the loop body that runs next
    pendI,      \* pending_teacher_interaction
    pendR,      \* pending_clipboard_read
    corr,       \* ClipboardReadCorrelation::pending
    proc, alive, gen, restart,  \* managed Worker, it runs, generation, pending_restart
    inbox,      \* pipe to the managed Worker
    outbox,     \* pipe from each Worker
    held,       \* result a reader thread found current and has not queued yet
    resI, resR, \* the two result queues
    runs        \* history: how often a command took effect

sessVars == <<sent, kind, answer>>
procVars == <<proc, alive, gen, restart>>
pipeVars == <<inbox, outbox, held>>
vars == <<sent, kind, token, reply, answer, queue, pc, pendI, pendR, corr,
          proc, alive, gen, restart, inbox, outbox, held, resI, resR, runs>>

Commands == Sessions \X (1..MaxCommands)
Gens == 1..MaxGen
Channels == {"action", "interact", "read"}
Channel(k) == IF k \in {"lock", "power"} THEN "action" ELSE k

\* Outcomes that say the command was not carried out.
Refusals == {"backpressure", "cancelled", "timedOut"}
Outcomes == Refusals \cup {"accepted", "failed", "unsupported", "unavailable", "result"}

\* What a Worker is sent and answers, and what the loop remembers of it.
Bound == [c : Commands, w : Gens]
PendingReads == [c : Commands, w : Gens, late : BOOLEAN]
Correlations == [c : Commands, w : Gens, expired : BOOLEAN]

\* The parts of the Service loop body that concern these commands, in order.
Parts == <<"actions", "obsolete", "readResults", "reads", "results", "interactions",
           "events", "poll">>
At(part) == Parts[pc] = part
NextPart == pc' = IF pc = Len(Parts) THEN 1 ELSE pc + 1

TypeOK ==
    /\ sent \in [Sessions -> 0..MaxCommands]
    /\ kind \in [Commands -> Kinds \cup {None}]
    /\ token \in [Commands -> {"pending", "committed", "cancelled"}]
    /\ reply \in [Commands -> Outcomes \cup {None}]
    /\ answer \in [Commands -> Outcomes \cup {None}]
    /\ queue \in [Channels -> Commands \cup {None}]
    /\ pc \in 1..Len(Parts)
    /\ pendI \in Bound \cup {None}
    /\ pendR \in PendingReads \cup {None}
    /\ corr \in Correlations \cup {None}
    /\ proc \in Gens \cup {None} /\ alive \in BOOLEAN
    /\ gen \in 0..MaxGen /\ restart \in BOOLEAN
    /\ inbox \in Seq(Commands)
    /\ outbox \in [Gens -> Seq(Commands)]
    /\ held \in [Gens -> Commands \cup {None}]
    /\ resI \in Seq(Bound) /\ Len(resI) <= ResultCap
    /\ resR \in Seq(Bound) /\ Len(resR) <= ResultCap
    /\ runs \in [Commands -> Nat]

Init ==
    /\ sent = [s \in Sessions |-> 0]
    /\ kind = [c \in Commands |-> None]
    /\ token = [c \in Commands |-> "pending"]
    /\ reply = [c \in Commands |-> None]
    /\ answer = [c \in Commands |-> None]
    /\ queue = [ch \in Channels |-> None]
    /\ pc = 1
    /\ pendI = None /\ pendR = None /\ corr = None
    /\ proc = None /\ alive = FALSE /\ gen = 0 /\ restart = FALSE
    /\ inbox = <<>>
    /\ outbox = [w \in Gens |-> <<>>] /\ held = [w \in Gens |-> None]
    /\ resI = <<>> /\ resR = <<>>
    /\ runs = [c \in Commands |-> 0]

----------------------------------------------------------------------------
\* Control sessions. A session handles its commands one after the other.

Current(s) == <<s, sent[s]>>
Waits(s) == sent[s] > 0 /\ answer[Current(s)] = None

\* A privileged command passed the guard: it is queued, or refused when the
\* capacity-one queue still holds another.
Offer(s, k) ==
    LET c == <<s, sent[s] + 1>>
        full == queue[Channel(k)] # None
    IN /\ ~Waits(s) /\ FoldFunction(+, 0, sent) < MaxCommands
       /\ sent' = [sent EXCEPT ![s] = @ + 1]
       /\ kind' = [kind EXCEPT ![c] = k]
       /\ queue' = IF full THEN queue ELSE [queue EXCEPT ![Channel(k)] = c]
       /\ answer' = IF full THEN [answer EXCEPT ![c] = "backpressure"] ELSE answer
       /\ UNCHANGED <<token, reply, pc, pendI, pendR, corr, procVars, pipeVars,
                      resI, resR, runs>>

ReceiveAction(s) == \E k \in Kinds \cap {"lock", "power"} : Offer(s, k)
ReceiveInteraction(s) == "interact" \in Kinds /\ Offer(s, "interact")
ReceiveRead(s) == "read" \in Kinds /\ Offer(s, "read")

\* The reply arrives, before the timeout or after it with the token committed.
Answer(s) ==
    /\ Waits(s) /\ reply[Current(s)] # None
    /\ answer' = [answer EXCEPT ![Current(s)] = reply[Current(s)]]
    /\ UNCHANGED <<sent, kind, token, reply, queue, pc, pendI, pendR, corr, procVars,
                   pipeVars, resI, resR, runs>>

\* Mutant: the timeout gives up on a committed command as well.
Expire_Anyway(s) ==
    /\ Waits(s) /\ reply[Current(s)] = None
    /\ token' = [token EXCEPT ![Current(s)] = "cancelled"]
    /\ answer' = [answer EXCEPT ![Current(s)] = "timedOut"]
    /\ UNCHANGED <<sent, kind, reply, queue, pc, pendI, pendR, corr, procVars,
                   pipeVars, resI, resR, runs>>

\* The reply timeout expires first: cancel() wins only while the token is
\* pending, otherwise the session goes on waiting for the committed command.
Expire(s) ==
    /\ Waits(s) /\ reply[Current(s)] = None
    /\ token[Current(s)] = "pending"
    /\ token' = [token EXCEPT ![Current(s)] = "cancelled"]
    /\ answer' = [answer EXCEPT ![Current(s)] = "timedOut"]
    /\ UNCHANGED <<sent, kind, reply, queue, pc, pendI, pendR, corr, procVars,
                   pipeVars, resI, resR, runs>>

----------------------------------------------------------------------------
\* The Service loop.

\* A part of the loop with nothing to do passes on.
Pass ==
    /\ NextPart
    /\ UNCHANGED <<sessVars, token, reply, queue, pendI, pendR, corr, procVars,
                   pipeVars, resI, resR, runs>>

Reply(c, o) == reply' = [reply EXCEPT ![c] = o]

\* try_commit() fails on a cancelled token.
Committed(c) == token' = [token EXCEPT ![c] = "committed"]

\* Writing to the managed Worker's pipe. The Worker may die between the
\* liveness probe and the write, which then fails.
Write(c) ==
    /\ alive /\ inbox' = Append(inbox, c)
    /\ UNCHANGED <<procVars, outbox, held>>
WriteFails ==
    /\ alive' = FALSE /\ inbox' = <<>>
    /\ UNCHANGED <<proc, gen, restart, outbox, held>>

\* A lock goes to the Worker, without a liveness probe; its outcome only says
\* that the write succeeded. Restart and shutdown run in the Service.
Execute(c) ==
    \/ /\ kind[c] = "power"
       /\ \E o \in {"accepted", "failed", "unsupported"} :
            /\ Reply(c, o)
            /\ runs' = IF o = "unsupported" THEN runs ELSE [runs EXCEPT ![c] = @ + 1]
       /\ UNCHANGED <<procVars, pipeVars>>
    \/ /\ kind[c] = "lock" /\ proc = None
       /\ Reply(c, "unavailable")
       /\ UNCHANGED <<procVars, pipeVars, runs>>
    \/ /\ kind[c] = "lock" /\ proc # None
       /\ \/ Write(c) /\ Reply(c, "accepted")
          \/ WriteFails /\ Reply(c, "failed")
       /\ UNCHANGED runs

\* Mutant: the token of the command is not consulted.
DoAction_AnyToken ==
    LET c == queue["action"]
    IN /\ At("actions") /\ c # None
       /\ queue' = [queue EXCEPT !["action"] = None]
       /\ Committed(c) /\ Execute(c)
       /\ NextPart
       /\ UNCHANGED <<sessVars, pendI, pendR, corr, resI, resR>>

DoAction ==
    LET c == queue["action"]
    IN /\ At("actions") /\ c # None
       /\ queue' = [queue EXCEPT !["action"] = None]
       /\ \/ /\ token[c] # "pending" /\ Reply(c, "cancelled")
             /\ UNCHANGED <<token, procVars, pipeVars, runs>>
          \/ /\ token[c] = "pending" /\ Committed(c) /\ Execute(c)
       /\ NextPart
       /\ UNCHANGED <<sessVars, pendI, pendR, corr, resI, resR>>

NoAction == At("actions") /\ queue["action"] = None /\ Pass

----------------------------------------------------------------------------
\* Clipboard reads. One read is outstanding in the whole Service.

\* cancel_session
Uncorrelated(s) == IF corr # None /\ corr.c[1] = s THEN None ELSE corr

\* The clocks of the outstanding read: 2.5 s for the loop's record of it, 5 s
\* for its correlation.
TimePasses ==
    /\ \/ /\ pendR # None /\ ~pendR.late
          /\ pendR' = [pendR EXCEPT !.late = TRUE]
          /\ UNCHANGED corr
       \/ /\ corr # None /\ ~corr.expired
          /\ pendR # None => pendR.late
          /\ corr' = [corr EXCEPT !.expired = TRUE]
          /\ UNCHANGED pendR
    /\ UNCHANGED <<sessVars, token, reply, queue, pc, pendI, procVars, pipeVars,
                   resI, resR, runs>>

Obsolete == pendR # None /\ (pendR.late \/ proc # pendR.w \/ ~alive)

\* Mutant: the correlation of the abandoned read is left behind.
DropObsolete_KeepsCorrelation ==
    /\ At("obsolete") /\ Obsolete
    /\ pendR' = None
    /\ Reply(pendR.c, "unavailable")
    /\ NextPart
    /\ UNCHANGED <<sessVars, token, queue, pendI, corr, procVars, pipeVars, resI, resR,
                   runs>>

DropObsolete ==
    /\ At("obsolete") /\ Obsolete
    /\ pendR' = None /\ corr' = Uncorrelated(pendR.c[1])
    /\ Reply(pendR.c, "unavailable")
    /\ NextPart
    /\ UNCHANGED <<sessVars, token, queue, pendI, procVars, pipeVars, resI, resR, runs>>

NotObsolete == At("obsolete") /\ ~Obsolete /\ Pass

\* Mutant: the sequence number is not compared.
MatchesRead_AnySequence(p, b) == p.w = b.w /\ p.c[1] = b.c[1]

\* Exact session, sequence number and Worker incarnation.
MatchesRead(p, b) == p.w = b.w /\ p.c = b.c

\* A result that matches the outstanding read is completed in the correlation
\* too, unless that has expired meanwhile.
DoReadResult ==
    LET b == Head(resR)
        matches == pendR # None /\ MatchesRead(pendR, b)
        completes == matches /\ corr # None /\ ~corr.expired /\ MatchesRead(corr, b)
    IN /\ At("readResults") /\ resR # <<>>
       /\ resR' = Tail(resR)
       /\ corr' = IF completes \/ (matches /\ corr # None /\ corr.expired) THEN None
                                                                           ELSE corr
       /\ pendR' = IF completes THEN None ELSE pendR
       /\ reply' = IF completes THEN [reply EXCEPT ![pendR.c] = "result"] ELSE reply
       /\ UNCHANGED <<sessVars, token, queue, pc, pendI, procVars, pipeVars, resI, runs>>

NoReadResult == At("readResults") /\ resR = <<>> /\ Pass

\* A committed read is refused while another is outstanding, and fails when
\* no Worker can be reached; otherwise it becomes the outstanding one.
StartRead(c) ==
    LET busy == pendR # None \/ (proc # None /\ corr # None /\ ~corr.expired)
    IN \/ /\ busy \/ proc = None
          /\ Reply(c, IF busy THEN "backpressure" ELSE "unavailable")
          /\ UNCHANGED <<pendR, corr, procVars, pipeVars>>
       \/ /\ ~busy /\ proc # None
          /\ \/ /\ Write(c)
                /\ corr' = [c |-> c, w |-> proc, expired |-> FALSE]
                /\ pendR' = [c |-> c, w |-> proc, late |-> FALSE]
                /\ UNCHANGED reply
             \/ /\ WriteFails /\ Reply(c, "unavailable")
                /\ corr' = None /\ UNCHANGED pendR

DoRead ==
    LET c == queue["read"]
    IN /\ At("reads") /\ c # None
       /\ queue' = [queue EXCEPT !["read"] = None]
       /\ \/ /\ token[c] # "pending" /\ Reply(c, "cancelled")
             /\ UNCHANGED <<token, pendR, corr, procVars, pipeVars>>
          \/ /\ token[c] = "pending" /\ Committed(c) /\ StartRead(c)
       /\ UNCHANGED <<sessVars, pc, pendI, resI, resR, runs>>

NoRead == At("reads") /\ queue["read"] = None /\ Pass

----------------------------------------------------------------------------
\* Teacher interactions. One interaction is outstanding in the whole Service.

\* Mutant: the Worker's identity is not compared.
MatchesInteraction_AnyWorker(p, b) == p.c[1] = b.c[1]

\* Same Worker and session; the request id may have been used before.
MatchesInteraction(p, b) == p.w = b.w /\ p.c[1] = b.c[1]

DoResult ==
    LET b == Head(resI)
        matches == pendI # None /\ MatchesInteraction(pendI, b)
    IN /\ At("results") /\ resI # <<>>
       /\ resI' = Tail(resI)
       /\ pendI' = IF matches THEN None ELSE pendI
       /\ reply' = IF matches THEN [reply EXCEPT ![pendI.c] = "result"] ELSE reply
       /\ UNCHANGED <<sessVars, token, queue, pc, pendR, corr, procVars, pipeVars, resR,
                      runs>>

NoResult == At("results") /\ resI = <<>> /\ Pass

StartInteraction(c) ==
    \/ /\ pendI # None \/ proc = None \/ ~alive
       /\ Reply(c, IF pendI # None THEN "backpressure" ELSE "unavailable")
       /\ UNCHANGED <<pendI, procVars, pipeVars>>
    \/ /\ pendI = None /\ proc # None /\ alive
       /\ \/ /\ Write(c)
             /\ pendI' = [c |-> c, w |-> proc]
             /\ UNCHANGED reply
          \/ /\ WriteFails /\ Reply(c, "failed")
             /\ UNCHANGED pendI

\* Mutant: a second interaction overwrites the outstanding one.
DoInteraction_Overwrites ==
    LET c == queue["interact"]
    IN /\ At("interactions") /\ c # None
       /\ queue' = [queue EXCEPT !["interact"] = None]
       /\ \/ /\ token[c] # "pending" /\ Reply(c, "cancelled")
             /\ UNCHANGED <<token, pendI, procVars, pipeVars>>
          \/ /\ token[c] = "pending" /\ Committed(c)
             /\ IF proc # None /\ alive
                THEN Write(c) /\ pendI' = [c |-> c, w |-> proc] /\ UNCHANGED reply
                ELSE Reply(c, "unavailable") /\ UNCHANGED <<pendI, procVars, pipeVars>>
       /\ NextPart
       /\ UNCHANGED <<sessVars, pendR, corr, resI, resR, runs>>

DoInteraction ==
    LET c == queue["interact"]
    IN /\ At("interactions") /\ c # None
       /\ queue' = [queue EXCEPT !["interact"] = None]
       /\ \/ /\ token[c] # "pending" /\ Reply(c, "cancelled")
             /\ UNCHANGED <<token, pendI, procVars, pipeVars>>
          \/ /\ token[c] = "pending" /\ Committed(c) /\ StartInteraction(c)
       /\ NextPart
       /\ UNCHANGED <<sessVars, pendR, corr, resI, resR, runs>>

NoInteraction == At("interactions") /\ queue["interact"] = None /\ Pass

----------------------------------------------------------------------------
\* Windows session events and the poll of the Worker.

\* WorkerManager::launch succeeds, or schedules a restart, or gives up.
Launch ==
    /\ inbox' = <<>>
    /\ \/ /\ gen < MaxGen
          /\ gen' = gen + 1 /\ proc' = gen + 1 /\ alive' = TRUE /\ restart' = FALSE
       \/ /\ proc' = None /\ alive' = FALSE /\ restart' \in BOOLEAN
          /\ UNCHANGED gen

\* A logon or a switch launches a Worker; a logoff stops it. Only the first
\* logon happens when SessionEvents is FALSE.
SessionEvent ==
    /\ At("events")
    /\ SessionEvents \/ (gen = 0 /\ ~restart)
    /\ \/ Launch
       \/ /\ proc # None
          /\ proc' = None /\ alive' = FALSE /\ restart' = FALSE /\ inbox' = <<>>
          /\ UNCHANGED gen
    /\ NextPart
    /\ UNCHANGED <<sessVars, token, reply, queue, pendI, pendR, corr, outbox, held,
                   resI, resR, runs>>

NoEvent == At("events") /\ Pass

\* Mutant: a Worker change at a poll does not fail the interaction.
FailInteraction_Forgets == pendI' = None /\ UNCHANGED reply

\* fail_pending_teacher_interaction_on_worker_change
FailInteraction ==
    /\ pendI' = None
    /\ reply' = IF pendI # None THEN [reply EXCEPT ![pendI.c] = "unavailable"] ELSE reply

PollExit ==
    /\ At("poll") /\ proc # None /\ ~alive
    /\ proc' = None /\ restart' \in BOOLEAN
    /\ FailInteraction
    /\ NextPart
    /\ UNCHANGED <<sessVars, token, queue, pendR, corr, alive, gen, pipeVars, resI, resR,
                   runs>>

PollRestart ==
    /\ At("poll") /\ proc = None /\ restart
    /\ Launch
    /\ FailInteraction
    /\ NextPart
    /\ UNCHANGED <<sessVars, token, queue, pendR, corr, outbox, held, resI, resR, runs>>

\* The poll is not due yet, or finds nothing to do.
NoPoll == At("poll") /\ Pass

Loop ==
    \/ DoAction \/ NoAction
    \/ DropObsolete \/ NotObsolete
    \/ DoReadResult \/ NoReadResult
    \/ DoRead \/ NoRead
    \/ DoResult \/ NoResult
    \/ DoInteraction \/ NoInteraction
    \/ SessionEvent \/ NoEvent
    \/ PollExit \/ PollRestart \/ NoPoll

----------------------------------------------------------------------------
\* The Worker and its reader threads.

\* The Worker carries out what it reads, in order, and answers all but a lock.
Handle ==
    LET c == Head(inbox)
    IN /\ alive /\ inbox # <<>>
       /\ inbox' = Tail(inbox)
       /\ runs' = [runs EXCEPT ![c] = @ + 1]
       /\ outbox' = IF kind[c] = "lock" THEN outbox
                                        ELSE [outbox EXCEPT ![proc] = Append(@, c)]
       /\ UNCHANGED <<sessVars, token, reply, queue, pc, pendI, pendR, corr, procVars,
                      held, resI, resR>>

\* It dies between commands, or after carrying one out and before answering.
Die ==
    /\ alive
    /\ alive' = FALSE /\ inbox' = <<>>
    /\ \/ UNCHANGED runs
       \/ inbox # <<>> /\ runs' = [runs EXCEPT ![Head(inbox)] = @ + 1]
    /\ UNCHANGED <<sessVars, token, reply, queue, pc, pendI, pendR, corr, proc, gen,
                   restart, outbox, held, resI, resR>>

\* A reader thread checks that its Worker is the current one; the reader of a
\* replaced Worker ends.
ReaderTakes(w) ==
    /\ outbox[w] # <<>> /\ held[w] = None
    /\ \/ /\ proc = w
          /\ held' = [held EXCEPT ![w] = Head(outbox[w])]
          /\ outbox' = [outbox EXCEPT ![w] = Tail(@)]
       \/ /\ proc # w
          /\ outbox' = [outbox EXCEPT ![w] = <<>>]
          /\ UNCHANGED held
    /\ UNCHANGED <<sessVars, token, reply, queue, pc, pendI, pendR, corr, procVars, inbox,
                   resI, resR, runs>>

\* Mutant: the bound of the result queue is not respected.
ReaderQueues_Unbounded(w) ==
    LET c == held[w]
        b == [c |-> c, w |-> w]
    IN /\ c # None
       /\ held' = [held EXCEPT ![w] = None]
       /\ resI' = IF kind[c] = "interact" THEN Append(resI, b) ELSE resI
       /\ resR' = IF kind[c] = "read" THEN Append(resR, b) ELSE resR
       /\ UNCHANGED <<sessVars, token, reply, queue, pc, pendI, pendR, corr, procVars,
                      inbox, outbox, runs>>

\* It then queues the result: an interaction's waits for room, a read's is
\* dropped when there is none.
ReaderQueues(w) ==
    LET c == held[w]
        b == [c |-> c, w |-> w]
    IN /\ c # None
       /\ held' = [held EXCEPT ![w] = None]
       /\ \/ /\ kind[c] = "interact" /\ Len(resI) < ResultCap
             /\ resI' = Append(resI, b)
             /\ UNCHANGED resR
          \/ /\ kind[c] = "read"
             /\ resR' = IF Len(resR) < ResultCap THEN Append(resR, b) ELSE resR
             /\ UNCHANGED resI
       /\ UNCHANGED <<sessVars, token, reply, queue, pc, pendI, pendR, corr, procVars,
                      inbox, outbox, runs>>

Next ==
    \/ \E s \in Sessions :
        \/ ReceiveAction(s) \/ ReceiveInteraction(s) \/ ReceiveRead(s)
        \/ Answer(s) \/ Expire(s)
    \/ Loop
    \/ TimePasses
    \/ Handle \/ Die
    \/ \E w \in Gens : ReaderTakes(w) \/ ReaderQueues(w)

Spec == Init /\ [][Next]_vars

\* The loop, the sessions and the clocks go on; a poll is due every 250 ms, so
\* a dead Worker and a due restart are not passed over for ever; the Worker
\* reads its pipe and its reader thread reads the answers.
FairSpec ==
    /\ Spec
    /\ WF_vars(Loop) /\ SF_vars(PollExit \/ PollRestart)
    /\ WF_vars(TimePasses)
    /\ \A s \in Sessions : WF_vars(Answer(s)) /\ WF_vars(Expire(s))
    /\ WF_vars(Handle)
    /\ \A w \in Gens : WF_vars(ReaderTakes(w)) /\ WF_vars(ReaderQueues(w))

----------------------------------------------------------------------------
\* Properties.

\* A Worker's result reaches the session that asked for it, for the command
\* it waits for: late results of earlier commands with the same request id,
\* and of replaced Workers, are never taken for it.
ResultIsOwn ==
    \A c \in Commands : answer[c] = "result" => runs[c] = 1

\* A waiting session is not forgotten: its reply is there, or its command is
\* still queued or outstanding; so no one-shot sender is dropped unsent and
\* ReplyDropped is never the outcome while the loop runs.
Outstanding ==
    {queue[ch] : ch \in Channels} \cup
    (IF pendI = None THEN {} ELSE {pendI.c}) \cup (IF pendR = None THEN {} ELSE {pendR.c})
NobodyForgotten ==
    \A s \in Sessions :
        Waits(s) /\ reply[Current(s)] = None => Current(s) \in Outstanding

\* The correlation never outlives the loop's record of a read, and agrees with
\* it; so a read is not refused as busy when none is outstanding.
CorrelationIsOutstanding ==
    corr # None => pendR # None /\ corr.c = pendR.c /\ corr.w = pendR.w

\* Every command is answered, also when the Worker dies under it: the sessions,
\* the loop and the clocks decide it (control_runtime.rs:528 waits for a
\* committed command without a timeout). It holds while no Windows session event
\* comes in between (SessionEvents = FALSE); WorkerChangeAnswers is the general
\* case. Every Worker has a reader thread, which main.rs:455 may fail to start.
EveryCommandAnswered ==
    \A s \in Sessions : Waits(s) ~> ~Waits(s)

\* Refuted. A Worker change fails the outstanding interaction instead of leaving
\* its session waiting for ever. It holds of a change that a poll notices; a
\* Windows session event stops or replaces the Worker without failing it.
WorkerChangeAnswers ==
    \A s \in Sessions :
        pendI # None /\ pendI.c = Current(s) /\ proc # pendI.w ~> ~Waits(s)

----------------------------------------------------------------------------
\* The dispatch seam implements the contract of CommandContract. A command is
\* withdrawn when its token was cancelled or its outcome is a refusal.

Fate ==
    [c \in Commands |->
        IF token[c] = "cancelled" \/ reply[c] \in Refusals \/ answer[c] \in Refusals
        THEN "withdrawn"
        ELSE IF token[c] = "committed" THEN "committed" ELSE "open"]

Told ==
    [c \in Commands |->
        IF answer[c] = None THEN "nothing"
        ELSE IF answer[c] \in Refusals THEN "refusal"
        ELSE IF answer[c] = "result" THEN "result" ELSE "outcome"]

Contract == INSTANCE CommandContract WITH fate <- Fate, ran <- runs, told <- Told

\* Every behaviour of the seam is one the contract allows: each command is
\* committed or withdrawn once, runs only if committed, and at most once.
ImplementsContract == Contract!Spec
=============================================================================
