----------------------------- MODULE DurableFile -----------------------------
(***************************************************************************)
(* DurableAuthorizationState (classmesh-security/persistence.rs), and with *)
(* the same statements DurableMachineIdentity (classmesh-identity-win/     *)
(* machine_identity.rs): one state file, saved through a .tmp sibling and  *)
(* a .bak of the version it replaces. A save may be interrupted between    *)
(* any two file operations, each of which is atomic by itself except the   *)
(* write; load falls back to .bak when the primary is missing.             *)
(***************************************************************************)
EXTENDS Naturals

CONSTANT MaxVersion     \* bound: saves started

VARIABLES
    path, temporary, backup,    \* contents: a version, NoFile or Torn
    pc,                         \* next statement of save, "idle" outside it
    version,                    \* version of the latest save
    saved                       \* history: some save returned Ok

vars == <<path, temporary, backup, pc, version, saved>>

NoFile == 0
Torn == MaxVersion + 1
Contents == 0..Torn

Init ==
    /\ path = NoFile /\ temporary = NoFile /\ backup = NoFile
    /\ pc = "idle" /\ version = 0 /\ saved = FALSE

\* The source that load reads: the primary, else its backup.
Load == IF path # NoFile THEN path ELSE backup

Goto(from, to) == pc = from /\ pc' = to

\* Serialisation and size check, then the removal of an old .tmp and the
\* creation of a new one.
SaveStart ==
    /\ version < MaxVersion
    /\ Goto("idle", "write")
    /\ version' = version + 1
    /\ temporary' = Torn
    /\ UNCHANGED <<path, backup, saved>>

WriteAndSync ==
    /\ Goto("write", "dropBackup")
    /\ temporary' = version
    /\ UNCHANGED <<path, backup, version, saved>>

\* remove_file(&backup), whose error is ignored.
DropBackup ==
    /\ Goto("dropBackup", "moveAside")
    /\ backup' \in {NoFile, backup}
    /\ UNCHANGED <<path, temporary, version, saved>>

\* rename(path, backup) when there is a primary.
MoveAside ==
    /\ Goto("moveAside", "moveIn")
    /\ backup' = IF path # NoFile THEN path ELSE backup
    /\ path' = NoFile
    /\ UNCHANGED <<temporary, version, saved>>

\* rename(temporary, path) succeeds.
MoveIn ==
    /\ Goto("moveIn", "cleanUp")
    /\ path' = temporary /\ temporary' = NoFile
    /\ UNCHANGED <<backup, version, saved>>

\* rename(temporary, path) fails: the backup is moved back if that succeeds,
\* and save returns the error.
MoveInFails ==
    /\ Goto("moveIn", "idle")
    /\ \/ path' = backup /\ backup' = NoFile
       \/ UNCHANGED <<path, backup>>
    /\ UNCHANGED <<temporary, version, saved>>

\* The last remove_file(&backup), then Ok.
CleanUp ==
    /\ Goto("cleanUp", "idle")
    /\ backup' \in {NoFile, backup}
    /\ saved' = TRUE
    /\ UNCHANGED <<path, temporary, version>>

\* Any other error of a file operation, or the end of the process.
Interrupted ==
    /\ pc # "idle" /\ pc' = "idle"
    /\ UNCHANGED <<path, temporary, backup, version, saved>>

Next ==
    \/ SaveStart \/ WriteAndSync \/ DropBackup \/ MoveAside
    \/ MoveIn \/ MoveInFails \/ CleanUp \/ Interrupted

Spec == Init /\ [][Next]_vars

TypeOK ==
    /\ path \in Contents /\ temporary \in Contents /\ backup \in Contents
    /\ pc \in {"idle", "write", "dropBackup", "moveAside", "moveIn", "cleanUp"}
    /\ version \in 0..MaxVersion /\ saved \in BOOLEAN

-----------------------------------------------------------------------------
\* docs/IMPLEMENTATION_STATUS.md:176, "legacy startup load still preserves
\* interrupted save backup recovery": once a save has returned Ok, a load after
\* any interrupted save finds a complete version.
SavedStateSurvives ==
    saved /\ pc = "idle" => Load \in 1..MaxVersion
=============================================================================
