---------------------------- MODULE TrustedPolicy ----------------------------
(***************************************************************************)
(* The trusted policy store of the Student Service (classmesh-win32/       *)
(* trusted_policy.rs, registry_epoch.rs): immutable policy blobs, one file *)
(* per epoch, and a Registry anchor that names the committed epoch and the *)
(* digest of its blob. Installers (--fresh, --update), inspections and the *)
(* Service are processes of one machine; any of them may fail or be killed *)
(* between two operating-system calls, and the power may be cut.           *)
(*                                                                         *)
(* A process that returns an error closes its handles and repairs nothing, *)
(* which is what the operating system does for one that is killed: Ends    *)
(* stands for both, and for every early return.                            *)
(***************************************************************************)
EXTENDS Naturals

CONSTANTS
    Procs,      \* process slots
    Policies,   \* policy files, told apart by their SHA-256 digest
    MaxEpoch    \* the largest u64

ASSUME StoreAssumption ==
    /\ MaxEpoch \in Nat \ {0}
    /\ Policies # {} /\ "missing" \notin Policies /\ "torn" \notin Policies
    /\ "none" \notin Procs

VARIABLES
    inputs, tree, blobs, anchor,        \* what a process reads
    dInputs, dTree, dBlobs, dAnchor,    \* what a power cut is sure to leave
    lock,       \* holder of the exclusive handle on authority.lock
    reserved,   \* holder of the Registry transaction with WriterReservation
    pc, op,     \* next operating-system call and operation of each process
    job,        \* the epoch and policy it installs
    seen,       \* the anchor record it has read
    earlier,    \* history: a policy was provisioned without startup inputs
    floor,      \* history: highest epoch acknowledged or opened
    committed   \* history: every record that was ever committed

visVars == <<inputs, tree, blobs, anchor>>
diskVars == <<dInputs, dTree, dBlobs, dAnchor>>
procVars == <<lock, reserved, pc, op, job, seen>>
histVars == <<earlier, floor, committed>>
vars == <<visVars, diskVars, procVars, histVars>>

-----------------------------------------------------------------------------
Epochs == 1..MaxEpoch

\* A validated checkpoint: nonzero epoch, digest of the policy bytes.
Records == [epoch : Epochs, policy : Policies]
NoRecord == [epoch |-> 0, policy |-> "missing"]
Anchors == Records \cup {NoRecord}

Contents == Policies \cup {"missing", "torn"}

\* verify_bound_policy_checkpoint: the record's digest is that of the blob.
Bound(r, files) == r.epoch # 0 /\ files[r.epoch] = r.policy

\* The startup inputs (identity, config) and the directories of the policy up
\* to its lock file: every state between the two is an orphan.
InputStates == {"absent", "orphan", "complete"}
TreeStates == {"absent", "orphan", "locked"}

Steps == {"idle", "requireAbsent", "requireNoTree", "makeInputs", "fillInputs",
          "makeTree", "makeLock", "flushLock", "takeLock", "openAnchor",
          "flushOpened", "readAnchor", "createBlob", "writeBlob", "flushBlob",
          "createAnchor", "flushCreated", "begin", "advance", "flushAdvanced",
          "parse", "flushRead", "session", "running"}

Later(a, b) == IF a > b THEN a ELSE b

\* An empty machine, or one on which provision_installed has run. No binary
\* calls that function, nor provision_startup_inputs, which would complete it.
Init ==
    /\ earlier \in BOOLEAN
    /\ \E p \in Policies :
        LET first == [epoch |-> 1, policy |-> p]
        IN  /\ anchor = IF earlier THEN first ELSE NoRecord
            /\ blobs = [e \in Epochs |-> IF earlier /\ e = 1 THEN p ELSE "missing"]
            /\ committed = IF earlier THEN {first} ELSE {}
    /\ tree = IF earlier THEN "locked" ELSE "absent"
    /\ floor = IF earlier THEN 1 ELSE 0
    /\ inputs = "absent"
    /\ dInputs = inputs /\ dTree = tree /\ dBlobs = blobs /\ dAnchor = anchor
    /\ lock = "none" /\ reserved = "none"
    /\ pc = [p \in Procs |-> "idle"]
    /\ op = [p \in Procs |-> "session"]
    /\ job = [p \in Procs |-> NoRecord]
    /\ seen = [p \in Procs |-> NoRecord]

-----------------------------------------------------------------------------
(* Operations begin and end.                                               *)

Goto(p, from, to) == pc[p] = from /\ pc' = [pc EXCEPT ![p] = to]

\* validate, preflight_fresh_install: refused candidates touch nothing.
StartFresh(p, r) ==
    /\ Goto(p, "idle", "requireAbsent")
    /\ op' = [op EXCEPT ![p] = "fresh"]
    /\ job' = [job EXCEPT ![p] = r]
    /\ UNCHANGED <<visVars, diskVars, lock, reserved, seen, histVars>>

\* Deviation of StartUpdate: zero is taken for an epoch.
StartUpdate_FromZero(p, r) ==
    /\ Goto(p, "idle", "takeLock")
    /\ op' = [op EXCEPT ![p] = "update"]
    /\ job' = [job EXCEPT ![p] = [r EXCEPT !.epoch = @ - 1]]
    /\ UNCHANGED <<visVars, diskVars, lock, reserved, seen, histVars>>

StartUpdate(p, r) ==
    /\ Goto(p, "idle", "takeLock")
    /\ op' = [op EXCEPT ![p] = "update"]
    /\ job' = [job EXCEPT ![p] = r]
    /\ UNCHANGED <<visVars, diskVars, lock, reserved, seen, histVars>>

\* The Service, --verify-policy and --verify-startup.
StartSession(p) ==
    /\ Goto(p, "idle", "takeLock")
    /\ op' = [op EXCEPT ![p] = "session"]
    /\ UNCHANGED <<visVars, diskVars, lock, reserved, job, seen, histVars>>

\* The handles of a process that ends are closed: the lock is free again and
\* an open transaction is aborted.
Release(p) ==
    /\ pc' = [pc EXCEPT ![p] = "idle"]
    /\ lock' = IF lock = p THEN "none" ELSE lock
    /\ reserved' = IF reserved = p THEN "none" ELSE reserved
    /\ UNCHANGED <<op, job, seen>>

Ends(p) ==
    /\ pc[p] # "idle"
    /\ Release(p)
    /\ UNCHANGED <<visVars, diskVars, histVars>>

-----------------------------------------------------------------------------
(* provision_fresh_at                                                      *)

\* Deviation of RequireAbsent: neither namespace is looked at.
RequireAbsent_Skipped(p) ==
    /\ Goto(p, "requireAbsent", "makeInputs")
    /\ UNCHANGED <<visVars, diskVars, lock, reserved, op, job, seen, histVars>>

RequireAbsent(p) ==
    /\ Goto(p, "requireAbsent", "requireNoTree")
    /\ anchor = NoRecord
    /\ UNCHANGED <<visVars, diskVars, lock, reserved, op, job, seen, histVars>>

RequireNoTree(p) ==
    /\ Goto(p, "requireNoTree", "makeInputs")
    /\ tree = "absent"
    /\ UNCHANGED <<visVars, diskVars, lock, reserved, op, job, seen, histVars>>

\* provision_inputs_at: the root is created, never adopted.
MakeInputs(p) ==
    /\ Goto(p, "makeInputs", "fillInputs")
    /\ inputs = "absent" /\ inputs' = "orphan"
    /\ UNCHANGED <<tree, blobs, anchor, diskVars, lock, reserved, op, job, seen, histVars>>

\* stage_startup_input, both files written, flushed and read back.
FillInputs(p) ==
    /\ Goto(p, "fillInputs", "makeTree")
    /\ inputs' = "complete" /\ dInputs' = "complete"
    /\ UNCHANGED <<tree, blobs, anchor, dTree, dBlobs, dAnchor, lock, reserved, op,
                   job, seen, histVars>>

\* pin with create: the directories are new.
MakeTree(p) ==
    /\ Goto(p, "makeTree", "makeLock")
    /\ tree = "absent" /\ tree' = "orphan"
    /\ UNCHANGED <<inputs, blobs, anchor, diskVars, lock, reserved, op, job, seen, histVars>>

\* The lock file is created with an exclusive handle, then flushed.
MakeLock(p) ==
    /\ Goto(p, "makeLock", "flushLock")
    /\ tree = "orphan" /\ tree' = "locked"
    /\ lock' = p
    /\ UNCHANGED <<inputs, blobs, anchor, diskVars, reserved, op, job, seen, histVars>>

FlushLock(p) ==
    /\ Goto(p, "flushLock", "createBlob")
    /\ dTree' = tree
    /\ UNCHANGED <<visVars, dInputs, dBlobs, dAnchor, lock, reserved, op, job, seen, histVars>>

-----------------------------------------------------------------------------
(* The prologue of install_at and open_at                                  *)

\* Deviation of TakeLock: the handle shares the file.
TakeLock_Shared(p) ==
    /\ Goto(p, "takeLock", "openAnchor")
    /\ tree = "locked" /\ lock' = p
    /\ UNCHANGED <<visVars, diskVars, reserved, op, job, seen, histVars>>

\* pin without create, then open_relative_exclusive_file.
TakeLock(p) ==
    /\ Goto(p, "takeLock", "openAnchor")
    /\ tree = "locked" /\ lock = "none" /\ lock' = p
    /\ UNCHANGED <<visVars, diskVars, reserved, op, job, seen, histVars>>

\* RegistryAnchor::open up to its flush.
OpenAnchor(p) ==
    /\ Goto(p, "openAnchor", "flushOpened")
    /\ anchor # NoRecord
    /\ seen' = [seen EXCEPT ![p] = anchor]
    /\ UNCHANGED <<visVars, diskVars, lock, reserved, op, job, histVars>>

\* Deviation of FlushExact: the record is compared but not flushed.
FlushExact_Lazy(r) ==
    anchor = r /\ dAnchor' = dAnchor

\* flush_exact: RegFlushKey, then the record must still be the expected one.
FlushExact(r) ==
    anchor = r /\ dAnchor' = anchor

FlushOpened(p) ==
    /\ Goto(p, "flushOpened", "readAnchor")
    /\ FlushExact(seen[p])
    /\ UNCHANGED <<visVars, dInputs, dTree, dBlobs, lock, reserved, op, job, seen, histVars>>

\* The second read: install_at compares the epochs, with_record fixes what it
\* expects of the transaction.
ReadAnchor(p) ==
    /\ Goto(p, "readAnchor", IF op[p] = "update" THEN "createBlob" ELSE "begin")
    /\ seen' = [seen EXCEPT ![p] = anchor]
    /\ op[p] = "update" => job[p].epoch > anchor.epoch
    /\ UNCHANGED <<visVars, diskVars, lock, reserved, op, job, histVars>>

-----------------------------------------------------------------------------
(* stage: create, write, flush and read back the blob of an epoch          *)

\* Deviation of CreateBlob: an existing blob is truncated.
CreateBlob_Truncates(p) ==
    /\ Goto(p, "createBlob", "writeBlob")
    /\ blobs' = [blobs EXCEPT ![job[p].epoch] = "torn"]
    /\ UNCHANGED <<inputs, tree, anchor, diskVars, lock, reserved, op, job, seen, histVars>>

CreateBlob(p) ==
    /\ Goto(p, "createBlob", "writeBlob")
    /\ blobs[job[p].epoch] = "missing"
    /\ blobs' = [blobs EXCEPT ![job[p].epoch] = "torn"]
    /\ UNCHANGED <<inputs, tree, anchor, diskVars, lock, reserved, op, job, seen, histVars>>

WriteBlob(p) ==
    /\ Goto(p, "writeBlob", "flushBlob")
    /\ blobs' = [blobs EXCEPT ![job[p].epoch] = job[p].policy]
    /\ UNCHANGED <<inputs, tree, anchor, diskVars, lock, reserved, op, job, seen, histVars>>

\* Deviation of FlushBlob: the record is committed before the blob is durable.
FlushBlob_Lazy(p) ==
    /\ Goto(p, "flushBlob", IF op[p] = "fresh" THEN "createAnchor" ELSE "begin")
    /\ Bound(job[p], blobs)
    /\ UNCHANGED <<visVars, diskVars, lock, reserved, op, job, seen, histVars>>

\* sync_all, then the exact readback through the writer's own handle.
FlushBlob(p) ==
    /\ Goto(p, "flushBlob", IF op[p] = "fresh" THEN "createAnchor" ELSE "begin")
    /\ Bound(job[p], blobs)
    /\ dBlobs' = [dBlobs EXCEPT ![job[p].epoch] = blobs[job[p].epoch]]
    /\ UNCHANGED <<visVars, dInputs, dTree, dAnchor, lock, reserved, op, job, seen, histVars>>

-----------------------------------------------------------------------------
(* The Registry anchor                                                     *)

\* RegistryAnchor::create up to its flush: a new key and its value, committed
\* in one transaction.
CreateAnchor(p) ==
    /\ Goto(p, "createAnchor", "flushCreated")
    /\ anchor = NoRecord /\ anchor' = job[p]
    /\ committed' = committed \cup {job[p]}
    /\ UNCHANGED <<inputs, tree, blobs, diskVars, lock, reserved, op, job, seen, earlier, floor>>

\* begin: the reservation makes a concurrent transaction fail before the record
\* is read a last time.
Begin(p) ==
    /\ Goto(p, "begin", IF op[p] = "update" THEN "advance" ELSE "parse")
    /\ anchor = seen[p]
    /\ reserved = "none" /\ reserved' = p
    /\ UNCHANGED <<visVars, diskVars, lock, op, job, seen, histVars>>

\* PendingAdvance::commit up to its flush.
Advance(p) ==
    /\ Goto(p, "advance", "flushAdvanced")
    /\ job[p].epoch > seen[p].epoch
    /\ anchor' = job[p]
    /\ committed' = committed \cup {job[p]}
    /\ reserved' = "none"
    /\ UNCHANGED <<inputs, tree, blobs, diskVars, lock, op, job, seen, earlier, floor>>

\* The flush that ends RegistryAnchor::create and PendingAdvance::commit; the
\* installer then reports success and exits.
Acknowledge(p) ==
    /\ pc[p] \in {"flushCreated", "flushAdvanced"}
    /\ FlushExact(job[p])
    /\ floor' = Later(floor, job[p].epoch)
    /\ Release(p)
    /\ UNCHANGED <<visVars, dInputs, dTree, dBlobs, earlier, committed>>

-----------------------------------------------------------------------------
(* The session of the Service or of an inspection                          *)

\* The callback of parse_registry_policy, then the commit of with_record, which
\* changes nothing but the reservation.
Parse(p) ==
    /\ Goto(p, "parse", "flushRead")
    /\ Bound(seen[p], blobs)
    /\ reserved' = "none"
    /\ UNCHANGED <<visVars, diskVars, lock, op, job, seen, histVars>>

\* The flush that ends with_record: open_at returns the session.
OpenSession(p) ==
    /\ Goto(p, "flushRead", "session")
    /\ FlushExact(seen[p])
    /\ floor' = Later(floor, seen[p].epoch)
    /\ UNCHANGED <<visVars, dInputs, dTree, dBlobs, lock, reserved, op, job, seen, earlier,
                   committed>>

\* load_control_state, verify_startup_at: identity and config are primaries of
\* the protected tree, read under the session.
ReadInputs(p) ==
    /\ Goto(p, "session", "running")
    /\ inputs = "complete"
    /\ UNCHANGED <<visVars, diskVars, lock, reserved, op, job, seen, histVars>>

-----------------------------------------------------------------------------
\* What one power cut may leave of a file: the flushed content, the content
\* processes saw, or neither.
Left(flushed, seenByAll) ==
    {flushed, seenByAll} \cup (IF flushed = seenByAll THEN {} ELSE {"torn"})

PowerCut ==
    /\ inputs' \in {dInputs, inputs}
    /\ tree' \in {dTree, tree} \cup (IF dTree = tree THEN {} ELSE {"orphan"})
    /\ blobs' \in [Epochs -> Contents]
    /\ \A e \in Epochs : blobs'[e] \in Left(dBlobs[e], blobs[e])
    /\ anchor' \in {dAnchor, anchor}
    /\ dInputs' = inputs' /\ dTree' = tree' /\ dBlobs' = blobs' /\ dAnchor' = anchor'
    /\ lock' = "none" /\ reserved' = "none"
    /\ pc' = [p \in Procs |-> "idle"]
    /\ UNCHANGED <<op, job, seen, histVars>>

Step(p) ==
    \/ RequireAbsent(p) \/ RequireNoTree(p) \/ MakeInputs(p) \/ FillInputs(p)
    \/ MakeTree(p) \/ MakeLock(p) \/ FlushLock(p)
    \/ TakeLock(p) \/ OpenAnchor(p) \/ FlushOpened(p) \/ ReadAnchor(p)
    \/ CreateBlob(p) \/ WriteBlob(p) \/ FlushBlob(p)
    \/ CreateAnchor(p) \/ Begin(p) \/ Advance(p) \/ Acknowledge(p)
    \/ Parse(p) \/ OpenSession(p) \/ ReadInputs(p)

Next ==
    \/ \E p \in Procs :
        \/ \E r \in Records : StartFresh(p, r) \/ StartUpdate(p, r)
        \/ StartSession(p)
        \/ Step(p)
        \/ Ends(p)
    \/ PowerCut

Spec == Init /\ [][Next]_vars

-----------------------------------------------------------------------------
(* Properties                                                              *)

TypeOK ==
    /\ inputs \in InputStates /\ dInputs \in InputStates
    /\ tree \in TreeStates /\ dTree \in TreeStates
    /\ blobs \in [Epochs -> Contents] /\ dBlobs \in [Epochs -> Contents]
    /\ anchor \in Anchors /\ dAnchor \in Anchors
    /\ lock \in Procs \cup {"none"} /\ reserved \in Procs \cup {"none"}
    /\ pc \in [Procs -> Steps]
    /\ op \in [Procs -> {"fresh", "update", "session"}]
    /\ job \in [Procs -> Anchors] /\ seen \in [Procs -> Anchors]
    /\ earlier \in BOOLEAN
    /\ floor \in 0..MaxEpoch
    /\ committed \subseteq Records

Open(p) == pc[p] \in {"session", "running"}

\* trusted_policy.rs:194 "Refuse active runtime": while a process holds a
\* session, the committed record stays the one its policy was parsed from.
SessionIsCurrent ==
    \A p \in Procs : Open(p) => anchor = seen[p] /\ Bound(seen[p], blobs)

\* No session opens below an epoch that was acknowledged to an installer or
\* opened before, whatever was interrupted in between (registry_epoch.rs:304).
NoRollback ==
    \A p \in Procs : Open(p) => seen[p].epoch >= floor

\* What any interruption leaves can be loaded: the committed record, the one
\* processes read and the one a power cut would leave, has its blob and its
\* lock file on disk, and startup inputs too when it was a fresh installation
\* (trusted_policy.rs:361 "Startup inputs precede the policy commit").
CommittedIsLoadable ==
    \A r \in {anchor, dAnchor} :
        r # NoRecord => /\ Bound(r, blobs) /\ Bound(r, dBlobs)
                        /\ tree = "locked" /\ dTree = "locked"
                        /\ earlier \/ dInputs = "complete"

\* An epoch never stands for two policies, even when the first commit of it was
\* lost with the power before it was flushed.
EpochBindsOnePolicy ==
    \A r, s \in committed : r.epoch = s.epoch => r = s

\* trusted_policy.rs:351: a policy that was committed without startup inputs is
\* not made runnable by a later fresh installation.
EarlierStaysInert ==
    earlier => \A p \in Procs : pc[p] # "running"
=============================================================================
