------------------------- MODULE TrustedPolicyProofs -------------------------
(***************************************************************************)
(* Proofs about TrustedPolicy, for any number of processes, policies and   *)
(* epochs.                                                                 *)
(*                                                                         *)
(* The argument: the exclusive lock makes one process the only writer      *)
(* (LockInv); a record is committed only after its blob, its lock file and *)
(* the startup inputs are durable, and the blob of a committed record is   *)
(* never written again (StoreInv, with JobInv on the way there); and what  *)
(* was acknowledged or opened had been flushed first.                      *)
(***************************************************************************)
EXTENDS TrustedPolicy, TLAPS

\* Steps a process takes with the lock in its hands.
LockSteps == {"flushLock", "openAnchor", "flushOpened", "readAnchor", "createBlob",
              "writeBlob", "flushBlob", "createAnchor", "flushCreated", "begin",
              "advance", "flushAdvanced", "parse", "flushRead", "session", "running"}

\* Steps between the choice of an epoch's policy and its commit.
StageSteps == {"createBlob", "writeBlob", "flushBlob", "createAnchor", "advance"}

LockInv ==
    /\ lock # "none" => tree = "locked"
    /\ \A p \in Procs : pc[p] \in LockSteps => lock = p

StoreInv ==
    /\ \A r \in committed : blobs[r.epoch] = r.policy /\ dBlobs[r.epoch] = r.policy
    /\ anchor \in committed \cup {NoRecord} /\ dAnchor \in committed \cup {NoRecord}
    /\ dAnchor # NoRecord => anchor # NoRecord
    /\ anchor # NoRecord => dTree = "locked"
    /\ dTree = "locked" => tree = "locked"
    /\ dInputs = "complete" => inputs = "complete"
    /\ anchor # NoRecord => earlier \/ dInputs = "complete"
    /\ floor <= dAnchor.epoch /\ dAnchor.epoch <= anchor.epoch
    /\ earlier => dAnchor # NoRecord /\ inputs = "absent" /\ dInputs = "absent"

\* The candidate of a process that stages or commits it.
Staging(p) ==
    pc[p] \in {"writeBlob", "flushBlob", "createAnchor", "advance"}
    \/ (pc[p] = "begin" /\ op[p] = "update")
Staged(p) ==
    pc[p] \in {"createAnchor", "advance"} \/ (pc[p] = "begin" /\ op[p] = "update")

JobOK(p) ==
    /\ op[p] \in {"fresh", "update"} => job[p] \in Records
    /\ pc[p] \in {"requireAbsent", "requireNoTree", "makeInputs", "fillInputs", "makeTree",
                  "makeLock", "flushLock"} => op[p] = "fresh"
    /\ pc[p] \in StageSteps \cup {"flushCreated", "flushAdvanced"} =>
          op[p] \in {"fresh", "update"}
    /\ Staging(p) => \A r \in committed : r.epoch # job[p].epoch
    /\ Staged(p) => Bound(job[p], blobs) /\ Bound(job[p], dBlobs)
    /\ pc[p] = "createBlob" \/ Staging(p) => dTree = "locked"
    /\ pc[p] \in {"makeTree", "makeLock", "flushLock", "createBlob"} \/ Staging(p) =>
          earlier \/ dInputs = "complete"
    /\ pc[p] \in {"flushOpened", "readAnchor"} => anchor # NoRecord
    /\ earlier => pc[p] \notin {"requireNoTree", "makeInputs", "fillInputs", "running"}
    /\ pc[p] \in {"advance", "parse", "flushRead", "session", "running"} => anchor = seen[p]
    /\ pc[p] \in {"flushRead", "session", "running"} => seen[p] # NoRecord

JobInv == \A p \in Procs : JobOK(p)

\* The inductive invariant.
IInv == TypeOK /\ LockInv /\ StoreInv /\ JobInv

-----------------------------------------------------------------------------
\* Committed records are told from the absence of one by their nonzero epoch.
LEMMA RecordFacts ==
    /\ NoRecord \in Anchors /\ NoRecord.epoch = 0 /\ NoRecord \notin Records
    /\ \A r \in Records : r \in Anchors /\ r.epoch \in Epochs /\ r.policy \in Policies
    /\ \A r \in Anchors : r # NoRecord => r \in Records
    /\ \A r \in Anchors : r.epoch \in 0..MaxEpoch
    /\ \A e \in Epochs : e \in 0..MaxEpoch /\ e # 0 /\ e > 0
<1>1. NoRecord.epoch = 0 /\ NoRecord \in Anchors
  BY DEF NoRecord, Anchors
<1>2. \A r \in Records : r \in Anchors /\ r.epoch \in Epochs /\ r.policy \in Policies
  BY DEF Records, Anchors
<1>3. \A e \in Epochs : e \in 0..MaxEpoch /\ e # 0 /\ e > 0
  BY StoreAssumption DEF Epochs
<1>4. \A r \in Anchors : r # NoRecord => r \in Records
  BY DEF Anchors
<1>5. 0 \in 0..MaxEpoch
  BY StoreAssumption
<1> QED BY <1>1, <1>2, <1>3, <1>4, <1>5

\* Every step preserves the type invariant; JobInv says that what is written is a
\* validated candidate.
LEMMA TypeStep == ASSUME TypeOK, JobInv, [Next]_vars PROVE TypeOK'
<1> USE StoreAssumption DEF vars, visVars, diskVars, procVars, histVars, Goto
<1>1. ASSUME NEW p \in Procs, RequireAbsent(p) \/ RequireNoTree(p) \/ TakeLock(p) \/
                                 OpenAnchor(p) \/ ReadAnchor(p) \/ Begin(p) \/ Parse(p) \/
                                 ReadInputs(p) \/ StartSession(p)
      PROVE  TypeOK'
  BY <1>1 DEF RequireAbsent, RequireNoTree, TakeLock, OpenAnchor, ReadAnchor, Begin, Parse,
              ReadInputs, StartSession, TypeOK, Steps
<1>2. ASSUME NEW p \in Procs, MakeInputs(p) PROVE TypeOK'
  BY <1>2 DEF MakeInputs, TypeOK, Steps, InputStates
<1>3. ASSUME NEW p \in Procs, FillInputs(p) PROVE TypeOK'
  BY <1>3 DEF FillInputs, TypeOK, Steps, InputStates
<1>4. ASSUME NEW p \in Procs, MakeTree(p) PROVE TypeOK'
  BY <1>4 DEF MakeTree, TypeOK, Steps, TreeStates
<1>5. ASSUME NEW p \in Procs, MakeLock(p) PROVE TypeOK'
  BY <1>5 DEF MakeLock, TypeOK, Steps, TreeStates
<1>6. ASSUME NEW p \in Procs, FlushLock(p) PROVE TypeOK'
  BY <1>6 DEF FlushLock, TypeOK, Steps, TreeStates
<1>7. ASSUME NEW p \in Procs, FlushOpened(p) PROVE TypeOK'
  BY <1>7 DEF FlushOpened, TypeOK, FlushExact, Steps
<1>8. ASSUME NEW p \in Procs, CreateBlob(p) PROVE TypeOK'
  BY <1>8, RecordFacts DEF CreateBlob, TypeOK, Contents, JobInv, JobOK, StageSteps, Steps
<1>9. ASSUME NEW p \in Procs, WriteBlob(p) PROVE TypeOK'
  BY <1>9, RecordFacts DEF WriteBlob, TypeOK, Contents, JobInv, JobOK, StageSteps, Steps
<1>10. ASSUME NEW p \in Procs, FlushBlob(p) PROVE TypeOK'
  BY <1>10, RecordFacts DEF FlushBlob, TypeOK, JobInv, JobOK, StageSteps, Steps
<1>11. ASSUME NEW p \in Procs, CreateAnchor(p) PROVE TypeOK'
  BY <1>11, RecordFacts DEF CreateAnchor, TypeOK, JobInv, JobOK, StageSteps, Steps
<1>12. ASSUME NEW p \in Procs, Advance(p) PROVE TypeOK'
  BY <1>12, RecordFacts DEF Advance, TypeOK, JobInv, JobOK, StageSteps, Steps
<1>13. ASSUME NEW p \in Procs, Acknowledge(p) PROVE TypeOK'
  BY <1>13, RecordFacts DEF Acknowledge, TypeOK, Release, FlushExact, Later, JobInv, JobOK,
                            StageSteps, Steps
<1>14. ASSUME NEW p \in Procs, OpenSession(p) PROVE TypeOK'
  BY <1>14, RecordFacts DEF OpenSession, TypeOK, FlushExact, Later, Steps
<1>15. ASSUME NEW p \in Procs, NEW r \in Records, StartFresh(p, r) \/ StartUpdate(p, r) PROVE TypeOK'
  BY <1>15, RecordFacts DEF StartFresh, StartUpdate, TypeOK, Steps
<1>16. ASSUME NEW p \in Procs, Ends(p) PROVE TypeOK'
  BY <1>16 DEF Ends, TypeOK, Release, Steps
<1>17. ASSUME PowerCut PROVE TypeOK'
  BY <1>17 DEF PowerCut, TypeOK, Steps, TreeStates
<1>18. ASSUME UNCHANGED vars PROVE TypeOK'
  BY <1>18 DEF vars, TypeOK
<1> QED
  BY <1>1, <1>2, <1>3, <1>4, <1>5, <1>6, <1>7, <1>8, <1>9, <1>10, <1>11, <1>12, <1>13,
     <1>14, <1>15, <1>16, <1>17, <1>18 DEF Next, Step

\* One process at a time is past the lock: the file is created with an exclusive
\* handle, and opened with one only while nobody has it.
LEMMA LockStep == ASSUME TypeOK, LockInv, [Next]_vars PROVE LockInv'
<1> USE StoreAssumption DEF vars, visVars, diskVars, procVars, histVars, Goto
<1>1. ASSUME NEW p \in Procs, RequireAbsent(p) \/ RequireNoTree(p) \/ MakeInputs(p) \/
                                 FillInputs(p) \/ FlushLock(p) \/ OpenAnchor(p) \/ FlushOpened(p) \/
                                 ReadAnchor(p) \/ CreateBlob(p) \/ WriteBlob(p) \/ FlushBlob(p) \/
                                 CreateAnchor(p) \/ Begin(p) \/ Advance(p) \/ Parse(p) \/
                                 OpenSession(p) \/ ReadInputs(p) \/ StartSession(p)
      PROVE  LockInv'
  BY <1>1 DEF RequireAbsent, RequireNoTree, MakeInputs, FillInputs, FlushLock, OpenAnchor,
              FlushOpened, ReadAnchor, CreateBlob, WriteBlob, FlushBlob, CreateAnchor,
              Begin, Advance, Parse, OpenSession, ReadInputs, StartSession, TypeOK, LockInv,
              LockSteps
<1>2. ASSUME NEW p \in Procs, MakeTree(p) PROVE LockInv'
  BY <1>2 DEF MakeTree, TypeOK, LockInv, LockSteps
<1>3. ASSUME NEW p \in Procs, MakeLock(p) PROVE LockInv'
  BY <1>3 DEF MakeLock, TypeOK, LockInv, LockSteps
<1>4. ASSUME NEW p \in Procs, TakeLock(p) PROVE LockInv'
  BY <1>4 DEF TakeLock, TypeOK, LockInv, LockSteps
<1>5. ASSUME NEW p \in Procs, Acknowledge(p) PROVE LockInv'
  BY <1>5 DEF Acknowledge, TypeOK, LockInv, LockSteps, Release
<1>6. ASSUME NEW p \in Procs, NEW r \in Records, StartFresh(p, r) \/ StartUpdate(p, r) PROVE LockInv'
  BY <1>6 DEF StartFresh, StartUpdate, TypeOK, LockInv, LockSteps
<1>7. ASSUME NEW p \in Procs, Ends(p) PROVE LockInv'
  BY <1>7 DEF Ends, TypeOK, LockInv, LockSteps, Release
<1>8. ASSUME PowerCut PROVE LockInv'
  BY <1>8 DEF PowerCut, TypeOK, LockInv, LockSteps
<1>9. ASSUME UNCHANGED vars PROVE LockInv'
  BY <1>9 DEF vars, TypeOK, LockInv, LockSteps
<1> QED
  BY <1>1, <1>2, <1>3, <1>4, <1>5, <1>6, <1>7, <1>8, <1>9 DEF Next, Step

\* A record is committed after everything it needs is durable, and nothing it
\* needs is touched afterwards.
LEMMA StoreStep == ASSUME TypeOK, LockInv, StoreInv, JobInv, [Next]_vars PROVE StoreInv'
<1> USE StoreAssumption DEF vars, visVars, diskVars, procVars, histVars, Goto
<1>1. ASSUME NEW p \in Procs, RequireAbsent(p) \/ RequireNoTree(p) \/ TakeLock(p) \/
                                 OpenAnchor(p) \/ ReadAnchor(p) \/ Begin(p) \/ Parse(p) \/
                                 ReadInputs(p) \/ StartSession(p)
      PROVE  StoreInv'
  BY <1>1 DEF RequireAbsent, RequireNoTree, TakeLock, OpenAnchor, ReadAnchor, Begin, Parse,
              ReadInputs, StartSession, StoreInv
<1>2. ASSUME NEW p \in Procs, MakeInputs(p) PROVE StoreInv'
  BY <1>2 DEF MakeInputs, TypeOK, StoreInv, JobInv, JobOK
<1>3. ASSUME NEW p \in Procs, FillInputs(p) PROVE StoreInv'
  BY <1>3, RecordFacts DEF FillInputs, TypeOK, StoreInv, JobInv, JobOK, Staging, Staged,
                           Bound, StageSteps
<1>4. ASSUME NEW p \in Procs, MakeTree(p) PROVE StoreInv'
  BY <1>4 DEF MakeTree, TypeOK, StoreInv
<1>5. ASSUME NEW p \in Procs, MakeLock(p) PROVE StoreInv'
  BY <1>5 DEF MakeLock, TypeOK, StoreInv
<1>6. ASSUME NEW p \in Procs, FlushLock(p) PROVE StoreInv'
  BY <1>6 DEF FlushLock, TypeOK, StoreInv, LockInv, LockSteps
<1>7. ASSUME NEW p \in Procs, FlushOpened(p) PROVE StoreInv'
  BY <1>7, RecordFacts DEF FlushOpened, TypeOK, StoreInv, FlushExact
<1>8. ASSUME NEW p \in Procs, CreateBlob(p) PROVE StoreInv'
  BY <1>8, RecordFacts DEF CreateBlob, TypeOK, StoreInv, JobInv, JobOK, Staging, Staged,
                           Bound, StageSteps
<1>9. ASSUME NEW p \in Procs, WriteBlob(p) PROVE StoreInv'
  BY <1>9, RecordFacts DEF WriteBlob, TypeOK, StoreInv, JobInv, JobOK, Staging, Staged,
                           Bound, StageSteps
<1>10. ASSUME NEW p \in Procs, FlushBlob(p) PROVE StoreInv'
  BY <1>10, RecordFacts DEF FlushBlob, TypeOK, StoreInv, JobInv, JobOK, Staging, Staged,
                            Bound, StageSteps
<1>11. ASSUME NEW p \in Procs, CreateAnchor(p) PROVE StoreInv'
  BY <1>11, RecordFacts DEF CreateAnchor, TypeOK, StoreInv, JobInv, JobOK, Staging, Staged,
                            Bound, StageSteps
<1>12. ASSUME NEW p \in Procs, Advance(p) PROVE StoreInv'
  BY <1>12, RecordFacts DEF Advance, TypeOK, StoreInv, JobInv, JobOK, Staging, Staged,
                            Bound, StageSteps
<1>13. ASSUME NEW p \in Procs, Acknowledge(p) PROVE StoreInv'
  BY <1>13, RecordFacts DEF Acknowledge, TypeOK, StoreInv, FlushExact, JobInv, JobOK,
                            StageSteps, Later, Release
<1>14. ASSUME NEW p \in Procs, OpenSession(p) PROVE StoreInv'
  BY <1>14, RecordFacts DEF OpenSession, TypeOK, StoreInv, FlushExact, Later
<1>15. ASSUME NEW p \in Procs, NEW r \in Records, StartFresh(p, r) \/ StartUpdate(p, r) PROVE StoreInv'
  BY <1>15 DEF StartFresh, StartUpdate, TypeOK, StoreInv
<1>16. ASSUME NEW p \in Procs, Ends(p) PROVE StoreInv'
  BY <1>16 DEF Ends, TypeOK, StoreInv, Release
<1>17. ASSUME PowerCut PROVE StoreInv'
  <2>1. \A r \in committed : blobs'[r.epoch] = r.policy /\ dBlobs'[r.epoch] = r.policy
    BY <1>17, RecordFacts DEF PowerCut, TypeOK, StoreInv, Left
  <2>2. /\ dTree = "locked" => tree' = "locked" /\ dTree' = "locked"
        /\ dInputs = "complete" => inputs' = "complete" /\ dInputs' = "complete"
        /\ dTree' = tree' /\ dInputs' = inputs'
    BY <1>17 DEF PowerCut, StoreInv
  <2>3. /\ anchor' \in {anchor, dAnchor} /\ dAnchor' = anchor'
        /\ UNCHANGED <<earlier, floor, committed>>
        /\ inputs' \in {dInputs, inputs}
    BY <1>17 DEF PowerCut
  <2>4. /\ floor <= anchor'.epoch /\ anchor'.epoch <= anchor'.epoch
        /\ anchor' # NoRecord => anchor # NoRecord
        /\ earlier => anchor' # NoRecord
    BY <2>3, RecordFacts DEF TypeOK, StoreInv
  <2> QED BY <2>1, <2>2, <2>3, <2>4 DEF StoreInv
<1>18. ASSUME UNCHANGED vars PROVE StoreInv'
  BY <1>18 DEF vars, TypeOK, StoreInv
<1> QED
  BY <1>1, <1>2, <1>3, <1>4, <1>5, <1>6, <1>7, <1>8, <1>9, <1>10, <1>11, <1>12, <1>13,
     <1>14, <1>15, <1>16, <1>17, <1>18 DEF Next, Step

\* What a process that stages or reads a policy relies on stays true while the
\* others run.
LEMMA JobStep == ASSUME TypeOK, LockInv, StoreInv, JobInv, [Next]_vars, NEW q \in Procs PROVE JobOK(q)'
<1> USE StoreAssumption, RecordFacts
<1> USE DEF vars, visVars, diskVars, procVars, histVars, Goto, TypeOK, LockInv, LockSteps,
            StoreInv, JobInv, JobOK, Staging, Staged, StageSteps, Bound
<1>1. ASSUME NEW p \in Procs, RequireAbsent(p) PROVE JobOK(q)'
  BY <1>1 DEF RequireAbsent
<1>2. ASSUME NEW p \in Procs, RequireNoTree(p) PROVE JobOK(q)'
  BY <1>2 DEF RequireNoTree
<1>3. ASSUME NEW p \in Procs, MakeInputs(p) PROVE JobOK(q)'
  BY <1>3 DEF MakeInputs
<1>4. ASSUME NEW p \in Procs, FillInputs(p) PROVE JobOK(q)'
  BY <1>4 DEF FillInputs
<1>5. ASSUME NEW p \in Procs, MakeTree(p) PROVE JobOK(q)'
  BY <1>5 DEF MakeTree
<1>6. ASSUME NEW p \in Procs, MakeLock(p) PROVE JobOK(q)'
  BY <1>6 DEF MakeLock
<1>7. ASSUME NEW p \in Procs, FlushLock(p) PROVE JobOK(q)'
  BY <1>7 DEF FlushLock
<1>8. ASSUME NEW p \in Procs, TakeLock(p) PROVE JobOK(q)'
  BY <1>8 DEF TakeLock
<1>9. ASSUME NEW p \in Procs, OpenAnchor(p) PROVE JobOK(q)'
  BY <1>9 DEF OpenAnchor
<1>10. ASSUME NEW p \in Procs, FlushOpened(p) PROVE JobOK(q)'
  BY <1>10 DEF FlushOpened, FlushExact
<1>11. ASSUME NEW p \in Procs, ReadAnchor(p) PROVE JobOK(q)'
  BY <1>11 DEF ReadAnchor
<1>12. ASSUME NEW p \in Procs, CreateBlob(p) PROVE JobOK(q)'
  BY <1>12 DEF CreateBlob
<1>13. ASSUME NEW p \in Procs, WriteBlob(p) PROVE JobOK(q)'
  BY <1>13 DEF WriteBlob
<1>14. ASSUME NEW p \in Procs, FlushBlob(p) PROVE JobOK(q)'
  BY <1>14 DEF FlushBlob
<1>15. ASSUME NEW p \in Procs, CreateAnchor(p) PROVE JobOK(q)'
  BY <1>15 DEF CreateAnchor
<1>16. ASSUME NEW p \in Procs, Begin(p) PROVE JobOK(q)'
  BY <1>16 DEF Begin
<1>17. ASSUME NEW p \in Procs, Advance(p) PROVE JobOK(q)'
  BY <1>17 DEF Advance
<1>18. ASSUME NEW p \in Procs, Acknowledge(p) PROVE JobOK(q)'
  BY <1>18 DEF Acknowledge, FlushExact, Release
<1>19. ASSUME NEW p \in Procs, Parse(p) PROVE JobOK(q)'
  BY <1>19 DEF Parse
<1>20. ASSUME NEW p \in Procs, OpenSession(p) PROVE JobOK(q)'
  BY <1>20 DEF OpenSession, FlushExact
<1>21. ASSUME NEW p \in Procs, ReadInputs(p) PROVE JobOK(q)'
  BY <1>21 DEF ReadInputs
<1>22. ASSUME NEW p \in Procs, NEW r \in Records, StartFresh(p, r) \/ StartUpdate(p, r) PROVE JobOK(q)'
  BY <1>22 DEF StartFresh, StartUpdate
<1>23. ASSUME NEW p \in Procs, StartSession(p) PROVE JobOK(q)'
  BY <1>23 DEF StartSession
<1>24. ASSUME NEW p \in Procs, Ends(p) PROVE JobOK(q)'
  BY <1>24 DEF Ends, Release
<1>25. ASSUME PowerCut PROVE JobOK(q)'
  BY <1>25 DEF PowerCut
<1>26. ASSUME UNCHANGED vars PROVE JobOK(q)'
  BY <1>26 DEF vars
<1> QED
  BY <1>1, <1>2, <1>3, <1>4, <1>5, <1>6, <1>7, <1>8, <1>9, <1>10, <1>11, <1>12, <1>13,
     <1>14, <1>15, <1>16, <1>17, <1>18, <1>19, <1>20, <1>21, <1>22, <1>23, <1>24, <1>25,
     <1>26 DEF Next, Step

\* The store invariant holds in every reachable state, with any number of
\* processes, policies and epochs.
THEOREM InvariantHolds == Spec => []IInv
<1>1. Init => IInv
  <2> SUFFICES ASSUME Init PROVE IInv
    OBVIOUS
  <2>1. TypeOK
    BY StoreAssumption, RecordFacts DEF Init, TypeOK, Epochs, Records, Contents, Steps, InputStates, TreeStates
  <2>2. LockInv
    BY StoreAssumption DEF Init, LockInv, LockSteps
  <2>3. StoreInv
    BY StoreAssumption, RecordFacts DEF Init, StoreInv, Epochs
  <2>4. JobInv
    BY DEF Init, JobInv, JobOK, Staging, Staged, StageSteps
  <2> QED BY <2>1, <2>2, <2>3, <2>4 DEF IInv
<1>2. IInv /\ [Next]_vars => IInv'
  BY TypeStep, LockStep, StoreStep, JobStep DEF IInv, JobInv
<1> QED BY <1>1, <1>2, PTL DEF Spec

\* Type correctness of the store and of its processes.
THEOREM TrustedPolicyTypeOK == Spec => []TypeOK
<1>1. IInv => TypeOK
  BY DEF IInv
<1> QED BY <1>1, InvariantHolds, PTL

\* The record a session was opened from is the committed one until the session
\* ends: no installer gets past the lock meanwhile.
THEOREM SessionIsCurrentHolds == Spec => []SessionIsCurrent
<1>1. IInv => SessionIsCurrent
  BY RecordFacts DEF IInv, TypeOK, StoreInv, JobInv, JobOK, SessionIsCurrent, Open, Bound
<1> QED BY <1>1, InvariantHolds, PTL

\* An acknowledged or opened epoch is never undercut by a later session, with
\* any process killed and the power cut at any point.
THEOREM NoRollbackHolds == Spec => []NoRollback
<1>1. IInv => NoRollback
  BY RecordFacts, StoreAssumption DEF IInv, TypeOK, StoreInv, JobInv, JobOK, NoRollback, Open
<1> QED BY <1>1, InvariantHolds, PTL

\* Whatever is interrupted, the committed record finds its blob, its lock file
\* and, after a fresh installation, its startup inputs on disk.
THEOREM CommittedIsLoadableHolds == Spec => []CommittedIsLoadable
<1>1. IInv => CommittedIsLoadable
  BY RecordFacts DEF IInv, TypeOK, StoreInv, CommittedIsLoadable, Bound
<1> QED BY <1>1, InvariantHolds, PTL

\* No epoch is ever committed with two policies, lost commits included.
THEOREM EpochBindsOnePolicyHolds == Spec => []EpochBindsOnePolicy
<1>1. IInv => EpochBindsOnePolicy
  BY DEF IInv, TypeOK, StoreInv, EpochBindsOnePolicy, Records
<1> QED BY <1>1, InvariantHolds, PTL

\* A policy committed without startup inputs never becomes runnable.
THEOREM EarlierStaysInertHolds == Spec => []EarlierStaysInert
<1>1. IInv => EarlierStaysInert
  BY DEF IInv, JobInv, JobOK, EarlierStaysInert
<1> QED BY <1>1, InvariantHolds, PTL
=============================================================================
