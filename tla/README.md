# ClassMesh: TLA+ models, model checking and proofs

ClassMesh streams and controls the PCs of a classroom. On every Student PC a
Session-0 *Service* owns the network side and supervises one *Worker* process in
the interactive Windows session; a *Teacher* application connects to the Services
over QUIC/TLS control sessions and sends presentations as protected multicast or
unicast media. This directory models the parts of that system whose correctness
depends on the order of things: who may decrypt a presentation, what happens to a
key or a command when a session, a timer, a Worker or a Windows session change
comes in between, which Worker is trusted at any moment, and which policy a Service
starts with after crashes and power cuts.

Every definition is a translation of the Rust source; `PROJECT.json` maps each one
to its file and lines.

## 1. Inventory

| Part | State it keeps | Operations | Interacts with | Hard behaviour |
|---|---|---|---|---|
| Group media keys (Teacher) | members, active epoch, who was issued and installed which key, outstanding acknowledgements | register, remove, begin/end epoch, issue, accept ACK, seal | live authorization, control sessions, Students | revocation between issue and seal; late and repeated ACKs; several connections |
| Presentation key (Student) | presentation owner, key lease per session, one pending install/start, key and receiver in the Worker | start, stop, grant, clear, offer | control sessions, Service loop, Worker | timeout against late result; clear against newer install; Worker replaced |
| Worker supervision | supervisor state, managed process, watchdog streak, capability snapshot, input availability | session events, poll, launch, stop, reports | Windows, Worker, reader threads | restart budget; stale readers; lock while launching |
| Privileged commands | dispatch queues, commit tokens, one outstanding interaction and read, correlation | receive, time out, dispatch, result | control sessions, Service loop, Worker, reader threads | commit/cancel race; late results; reused request ids |
| Control sessions | handshake, guard sequence, replay window, heartbeats | hello, authenticate, dispatch | authorization store | replay, stale authorization |
| File transfer | one inbound transfer, one outbound pull, its owner | begin, chunk, finish, cancel | sessions, Service loop, disk | partial files, owner lost mid-pull |
| Focused media | owner, session floor, desired start and reconfigure | offer, stop, reconfigure, restore | sessions, Service loop, Worker | cancelled start, restart of the Worker |
| Trusted policy store | policy blob per epoch, Registry anchor, lock file, startup inputs | fresh install, update, inspect, open session | disk, Registry, Service | death or power cut between two writes, two processes at once |
| Legacy state files | authorization and identity files with .tmp and .bak | save, load | disk, Service, operator tools | repeated interruption |
| Media transport | fragments, reassembly window, retransmission cache | packetise, receive, NACK | network | loss, duplication, reordering |
| Receiver telemetry | grant, admission, framing | grant, report, expire | Worker, key lifetime | stale Worker, partial frames |
| Monitoring, adaptation, cohorts | budgets, hysteresis, quality windows | tick, sample, promote | Teacher, Workers | starvation, oscillation |
| Enrollment | one-time records | request, issue, install | Teacher, disk | reuse |
| Capture, codec, render | Windows media objects | start, frame, recover | Direct3D, Media Foundation | device loss |

`PROJECT.json` lists all components, also the ones without a model, and all
hazards with the line at which each one bites.

## 2. Plan

Order: what protects confidentiality first, then what keeps a Student PC usable,
then the data plane.

1. `GroupMedia` with proofs: key epochs of a presentation. *Done.*
2. `PresentationKey`: the Student's half of it. *Done; proofs open.*
3. `WorkerSupervision` with proofs. *Done.*
4. `CommandDispatch`, refining the abstract `CommandContract`. *Done; proofs open.*
5. `TrustedPolicy` with proofs, `DurableFile`. *Done.*
6. File transfer; focused media (owner, floor, restore across Worker restarts); input
   ownership.
7. Control session: handshake, guard, replay window, heartbeat, live authorization.
8. Media transport: packetise, reassemble, NACK over a lossy network.
9. Sender plan, fallback, keyframe retry, fan-out; receiver telemetry.
10. Monitoring scheduler, adaptation and cohorts, enrollment, sensitive IPC gates.

Modules that carry theorems use no RECURSIVE operators. Liveness stays with TLC. The
runs are kept few, one per question: new components are added to the run of the
component they interact with where the state space allows.

## 3. Modules

### GroupMedia (Teacher side of the group key)

`group_media_coordinator.rs`, `group_media_session.rs`, `group_media_delivery.rs`.
`install` is the coordinator's state of each receiver, `active` and
`rotationRequired` its epoch; `delivery` is the delivery manager's connection and
outstanding acknowledgement. A connection (`Links`) is a receiver and a number; a
receiver may have several at a time, each with its own guard, ordered control streams
(`grants`, `acks`) and session task of the Student Service, which serves every
connection separately. The caller decides which session it registers and with which
one it hands in an acknowledgement; `accept_key_ack` only borrows the envelope, so one
that was kept, also from a connection that is lost, may be presented again, and is then
refused by the session binding, the missing pending record or the sequence.
`holders`, `members` and `everInstalled` are history variables: who was ever issued an
epoch's key, who belonged to the epoch when it began, and which epochs the Student
installed in each session. Authorization changes at any time; a Student installs and
acknowledges or closes its session. Cryptography is abstracted to who was issued
which key; request ids are tags from a small set that may repeat.

### PresentationKey (Student side)

Sessions are tasks of `control_runtime.rs`, the loop of `main.rs` is a sequence of
parts visited in the order of the loop body (`pc`), the Worker reads a FIFO pipe.
A presentation id stands for the pair of presentation and stream id; the multicast
and the unicast start queues, which behave alike, are one queue; request ids of a
session's grants are unique. A pipe write fails only when the process is gone.
A Worker may die at any time, or be stopped or replaced by a Windows session event.

### WorkerSupervision

`m` is the WorkerManager with its watchdog, its snapshot of capabilities and the
processes Windows runs; `worker` and `active` are the SessionSupervisor. A generation
number stands for the pid. `WorkerState::Stopping` exists only inside a handler. The
restart delay is abstract (a pending restart becomes due at some poll), and the
executable path resolves. Termination is assumed to succeed: when `TerminateProcess`
fails, `main.rs:518` logs it and forgets a process that still runs, so OneWorker and its
theorem are about machines where it does not fail. `users` and `locked` are Windows as the
session events describe it.

### CommandDispatch and CommandContract

System actions, Teacher interactions and clipboard reads share one scheme: a queue of
capacity one, a token that the loop commits or the session's timeout cancels, and a
one-shot reply. A command is named by its session and sequence number; because
nothing stops a Teacher from reusing a request id, request ids are taken to be all
equal, the worst case. Timeouts may expire at any moment. The Worker executes its
pipe in order and may die before, between and after executing and answering; a
reader thread first checks that its Worker is current and queues the result in a
second step. `CommandContract` is what a Teacher is promised, without any of this:
a command is committed or withdrawn once, runs at most once and only if committed,
and a result is reported only of a command that ran. Service shutdown is left out:
it closes all connections.

### TrustedPolicy

`trusted_policy.rs`, `registry_epoch.rs`. The store is kept twice: what processes read
(`inputs`, `tree`, `blobs`, `anchor`) and what a power cut is sure to leave (`dInputs`,
...). Every operating-system call that changes the store is a step of `pc`, named for
what it is about to do. A process may end at any step (`Ends`: an error return, a
refusal, a kill), which closes its handles and aborts its transaction; `PowerCut` ends
them all and leaves of each unflushed object the old, the new or a torn content.
Assumed of Windows: a flushed file has its directory entry, a committed Registry
transaction is visible at once and old or new after a power cut, an exclusive handle is
exclusive. The first of these is an assumption the repository itself leaves open
(`docs/PHASE12_BLOB_STAGE_REVIEW.md:14`: "`File::sync_all` does not prove that creation of
the directory entry survives sudden power loss"; `trusted_policy.rs:7`: "Power-loss
qualification remains open"). CommittedIsLoadable, EpochBindsOnePolicy and their theorems rest
on it as far as power cuts go; what they say of processes that end does not. The initial
state is an empty machine, or one where a policy was provisioned without startup inputs
(`provision_installed`, `earlier`): that function, and `provision_startup_inputs`, which
would complete such a policy later, have no caller in the binaries, so the first is an
initial state only and the second no action of its own. Policies are told apart by
digest; link and ACL attestation is a refusal. `floor` and `committed` are history.

### DurableFile

`save` and `load` of `persistence.rs`, shared statement by statement by
`machine_identity.rs`: each file operation is a step, ignored errors are choices, and a
save may be interrupted anywhere. Written content is a version number.

## 4. Runs

| Run | Checks | Bounds |
|---|---|---|
| `groupmedia` | TypeOK, SealAudience, HoldersWereMembers, NewEpochHasNoHolders, InstalledIsReal, InstalledInItsSession, OutstandingAckAcceptable, PendingClearedOnlyByInstall, KeyDeliveryResolves | one receiver, two connections that may be open together, two request tags, fairness of both readers |
| `presentationkey_sessions` | TypeOK, ReceiverMatchesKey, LeaseIsWorkerKey, KeyEndsWithSession | two sessions, no install timeout (KeyEndsWithSession needs this, see the orphan run); the Worker may die or be stopped and is not replaced (`MaxGen = 1`) |
| `presentationkey_timeouts` | LeaseIsWorkerKey, StartWaitEnds, InstallSlotFreed, ClosingEnds | one session, install and start timeouts, Worker replaced once, fairness of loop, sessions, Worker |
| `presentationkey_orphan` | KeyEndsWithSession, *violated* | one session with the install timeout |
| `supervision` | TypeOK, SupervisorAgrees, OneWorker, ReadyIsRunning, AdvertisedIsManaged, MediaFollowsSupervisor, RestartWithinBudget, StartingResolves, DeathNoticed | four session events, one failure, fairness of the poll |
| `supervision_locked` | LockedIsSuspended, *violated* | |
| `supervision_rearm` | LogoffRearms, *violated* | |
| `commands` | TypeOK, NobodyForgotten, ResultIsOwn, CorrelationIsOutstanding, ImplementsContract (refinement) | two sessions, all kinds, two commands in all |
| `commands_live` | EveryCommandAnswered | two commands, Worker may die; no Windows session events (`SessionEvents = FALSE`; `commands_hang` is the general case), a reader thread for every Worker |
| `commands_hang` | WorkerChangeAnswers, *violated* | one session, one interaction |
| `policy` | TypeOK, SessionIsCurrent, NoRollback, CommittedIsLoadable, EpochBindsOnePolicy, EarlierStaysInert | two processes at a time, two policies, two epochs, any number of ends and power cuts |
| `durablefile_interrupted` | SavedStateSurvives, *violated* | three saves |

Two sessions, epochs and Worker generations are enough for the races the properties
are about: each involves one late actor of an older session, epoch or Worker against
one of the present. The audience properties of `GroupMedia` are checked with one
receiver, whose revocation, return and reconnection are what endangers them; the
theorems cover any number. Result queues of capacity one make the full queue happen.
Two process slots of the policy store are reused, so a history has any number of
processes, two at a time; the second epoch can be committed, lost and tried again.
Sessions, and processes and policies, are symmetric where no liveness is checked.

**Fairness.** The Service loop never blocks for long (`recv_timeout` of 5 ms), so it
is weakly fair; tokio runs every session task that can go on, and its timers fire;
the Worker process and the reader threads read their pipes while they live. A poll
happens every 250 ms, so what a poll would find is found even though a single pass
of the loop may skip it (strong fairness in `CommandDispatch`). No fairness is
assumed of Teachers, of Windows or of anything dying.

**What the violated runs show.** The five violations are disagreements between the
code and a document, comment or test of the repository, described in the findings of
`PROJECT.json`: a key that outlives its session after an install timeout; a Worker
that captures because it was launched while the session was locked; a restart budget
that a logoff does not rearm; a Teacher interaction that hangs after a session event; a
save that deletes the backup an earlier interrupted save depends on.

## 5. Proofs

`GroupMediaProofs` proves, for any receivers, connections, tags and bounds, the type
invariant and SealAudience, HoldersWereMembers, NewEpochHasNoHolders, InstalledIsReal,
InstalledInItsSession, PendingClearedOnlyByInstall and OutstandingAckAcceptable. SealAudience is not inductive: an epoch's holders are only
known to be authorized *after* reconciliation. The strengthening `MembershipInv`
says that holders of an epoch are among its members, that unused epochs have no
holders, and that without a required rotation the members of the active epoch are
exactly the registered receivers; authorization enters only through the
reconciliation that seals. InstalledIsReal and InstalledInItsSession need every
acknowledgement of a connection, lost or not, to be of an epoch really installed in the
session of that connection (`InstallInv`); OutstandingAckAcceptable relates the
delivery record to the coordinator's state per receiver.

`WorkerSupervisionProofs` proves the type invariant and the six safety invariants
for any set of Windows sessions and any restart policy with
`MaxFailures < FailureLimit`. The inductive invariant `Inv` consists of the agreement
of supervisor, manager and availability per supervisor state (`Agree`), the shape of
the manager (`Shape`: the watchdog's process is the managed one, a pending restart
excludes a process, generations bound all processes), the relation of the reported
flags to the Worker that reported them, and that everything is down once the Service
has stopped. All launches start from an idle manager and share one lemma.

`TrustedPolicyProofs` proves the type invariant and the five safety invariants of
`TrustedPolicy` for any processes, policies and largest epoch. None is inductive. `IInv`
adds that whoever is past the lock is its holder (`LockInv`); that every record ever
committed has its blob, visible and durable, that the durable anchor is not ahead of the
visible one and not below `floor`, and that an anchor implies a durable lock file and
startup inputs (`StoreInv`); and, per process, what it has made sure of on the way to its
commit or session (`JobOK`): the candidate's epoch was never committed, its blob is
durable, the record it read is still the anchor. `StoreAssumption` asks only that the
names of contents and processes differ.

Only model-checked: every liveness property (fairness and ENABLED are outside the
prover), `PresentationKey`, `CommandDispatch` and its refinement,
`DurableFile`.

## 6. Not modelled

See the components of `PROJECT.json` with status `not_modelled`, with the reason:
pure I/O and single system calls (Win32 boundaries, Direct3D and Media Foundation),
stateless validation, drawing, laboratory tools, and the parts the plan still has to
reach.
