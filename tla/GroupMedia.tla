----------------------------- MODULE GroupMedia -----------------------------
(***************************************************************************)
(* Teacher-side group-media keys: the epoch and membership coordinator     *)
(* (classmesh-security/group_media_coordinator.rs), the key-delivery       *)
(* manager pinned to one connection per receiver (classmesh-control/       *)
(* group_media_delivery.rs, group_media_session.rs), the control guard     *)
(* that orders acknowledgements (authorization.rs), and, abstractly, the   *)
(* Student Service that installs a granted key and acknowledges it         *)
(* (classmesh-service/control_runtime.rs).                                 *)
(*                                                                         *)
(* The callers of this code (the Teacher application) may invoke the       *)
(* operations in any order; the authorization store may change at any      *)
(* time; a connection may die at any time, with what was on it. A receiver *)
(* may have several connections, each with its own guard and Student       *)
(* session task; the caller decides which of them it hands in.             *)
(***************************************************************************)
EXTENDS Naturals, Sequences, FiniteSets

CONSTANTS
    Receivers,      \* the StudentDevice principals of the class
    MaxReceivers,   \* GroupMediaCoordinator::max_receivers
    MaxDelivery,    \* TeacherGroupMediaDeliveryManager::max_receivers
    EpochLimit,     \* the last epoch a u32 can hold
    Tags,           \* request id + presentation id + stream id of a grant
    MaxConn,        \* bound: connections per receiver
    MaxGrants       \* bound: key grants sent to one receiver

ASSUME LimitsAssumption ==
    /\ MaxReceivers \in Nat \ {0}
    /\ MaxDelivery \in Nat \ {0}
    /\ EpochLimit \in Nat \ {0}
    /\ MaxConn \in Nat \ {0}
    /\ MaxGrants \in Nat \ {0}
    /\ Tags # {}

VARIABLES
    allows,             \* principals whose record allows ReceivePresentation
    credential,         \* principals whose TLS credential is accepted now
    install,            \* coordinator: install state of each receiver
    lastEpoch, active,  \* coordinator: last epoch used, active epoch (0: none)
    rotationRequired,
    link,               \* state of each control connection
    guardSeq,           \* last_sequence of the guard of each connection
    delivery,           \* delivery manager: pinned connection and pending ACK
    grants, acks,       \* what is on the wire of each connection
    studentSeq,         \* Student: outbound_sequence of each session
    studentKey,         \* Student: epoch installed in each session (0: none)
    sent,               \* number of grants sent to each receiver (for MaxGrants)
    holders, members,   \* history: who was issued, who belonged to, each epoch
    everInstalled       \* history: epochs the Student installed in each session

authVars == <<allows, credential>>
coordVars == <<install, lastEpoch, active, rotationRequired>>
connVars == <<link, guardSeq, grants, acks, studentSeq, studentKey, sent>>
histVars == <<holders, members, everInstalled>>
vars == <<authVars, coordVars, connVars, delivery, histVars>>

-----------------------------------------------------------------------------
Epochs == 1..EpochLimit

\* A connection is a receiver and a number, counted from 1. Stable connection
\* id, control session id and negotiated version change together, so the
\* number stands for the three.
Links == Receivers \X (1..MaxConn)
LinkStates == {"Unused", "Open", "Lost"}

\* GroupMediaReceiverInstallState, and a receiver that is not in the map.
Absent == [st |-> "Absent", epoch |-> 0]
AwaitingKey == [st |-> "AwaitingKey", epoch |-> 0]
KeyIssued(e) == [st |-> "KeyIssued", epoch |-> e]
Installed(e) == [st |-> "Installed", epoch |-> e]
InstallStates ==
    {Absent, AwaitingKey} \cup {KeyIssued(e) : e \in Epochs}
                          \cup {Installed(e) : e \in Epochs}

\* PendingPresentationKeyAck; epoch 0 when there is none.
NoPending == [tag |-> CHOOSE t \in Tags : TRUE, epoch |-> 0]
Pendings == [tag : Tags, epoch : 0..EpochLimit]

\* ReceiverDeliverySession; conn 0 when the receiver is not registered.
NoDelivery == [conn |-> 0, pending |-> NoPending]
Deliveries == [conn : 0..MaxConn, pending : Pendings]

\* What a grant and an acknowledgement carry that this code compares.
GrantMessages == [tag : Tags, epoch : Epochs]
AckMessages == [tag : Tags, epoch : Epochs, seq : Nat]

Registered == {p \in Receivers : install[p] # Absent}
Delivered == {p \in Receivers : delivery[p].conn # 0}

TypeOK ==
    /\ allows \subseteq Receivers
    /\ credential \subseteq Receivers
    /\ install \in [Receivers -> InstallStates]
    /\ lastEpoch \in 0..EpochLimit
    /\ active \in 0..EpochLimit
    /\ rotationRequired \in BOOLEAN
    /\ link \in [Links -> LinkStates]
    /\ guardSeq \in [Links -> Nat]
    /\ delivery \in [Receivers -> Deliveries]
    /\ grants \in [Links -> Seq(GrantMessages)]
    /\ acks \in [Links -> Seq(AckMessages)]
    /\ studentSeq \in [Links -> Nat]
    /\ studentKey \in [Links -> 0..EpochLimit]
    /\ sent \in [Receivers -> 0..MaxGrants]
    /\ holders \in [Epochs -> SUBSET Receivers]
    /\ members \in [Epochs -> SUBSET Receivers]
    /\ everInstalled \in [Links -> SUBSET Epochs]

\* HELLO_SEQUENCE: the guard and the outbound counter start at the Hello.
HelloSequence == 1

Init ==
    /\ allows \in SUBSET Receivers
    /\ credential \in SUBSET Receivers
    /\ install = [p \in Receivers |-> Absent]
    /\ lastEpoch = 0
    /\ active = 0
    /\ rotationRequired = FALSE
    /\ link = [l \in Links |-> "Unused"]
    /\ guardSeq = [l \in Links |-> HelloSequence]
    /\ delivery = [p \in Receivers |-> NoDelivery]
    /\ grants = [l \in Links |-> <<>>]
    /\ acks = [l \in Links |-> <<>>]
    /\ studentSeq = [l \in Links |-> HelloSequence]
    /\ studentKey = [l \in Links |-> 0]
    /\ sent = [p \in Receivers |-> 0]
    /\ holders = [e \in Epochs |-> {}]
    /\ members = [e \in Epochs |-> {}]
    /\ everInstalled = [l \in Links |-> {}]

-----------------------------------------------------------------------------
(* The authorization store, as this code reads it.                         *)

\* A policy update, an expiry or a revocation changes what the store answers.
ChangeAuthorization(p) ==
    /\ \/ allows' = (allows \ {p}) \cup ({p} \ allows) /\ UNCHANGED credential
       \/ credential' = (credential \ {p}) \cup ({p} \ credential) /\ UNCHANGED allows
       \/ p \in allows \cap credential
          /\ allows' = allows \ {p} /\ credential' = credential \ {p}
    /\ UNCHANGED <<coordVars, connVars, delivery, histVars>>

\* AuthenticatedPeerIdentity::authorize for ReceivePresentation.
PeerAuthorized(p) == p \in credential /\ p \in allows

-----------------------------------------------------------------------------
(* GroupMediaCoordinator                                                   *)

\* Deviation of RegisterReceiver: joining an active epoch needs no rotation.
RegisterReceiver_NoRotation(p) ==
    /\ p \in allows
    /\ install[p] = Absent
    /\ Cardinality(Registered) < MaxReceivers
    /\ install' = [install EXCEPT ![p] = AwaitingKey]
    /\ UNCHANGED <<authVars, lastEpoch, active, rotationRequired, connVars, delivery, histVars>>

RegisterReceiver(p) ==
    /\ p \in allows
    /\ install[p] = Absent
    /\ Cardinality(Registered) < MaxReceivers
    /\ install' = [install EXCEPT ![p] = AwaitingKey]
    /\ rotationRequired' = (rotationRequired \/ active # 0)
    /\ UNCHANGED <<authVars, lastEpoch, active, connVars, delivery, histVars>>

\* Deviation of RemoveReceiver: leaving an active epoch needs no rotation.
RemoveReceiver_NoRotation(p) ==
    /\ install[p] # Absent
    /\ install' = [install EXCEPT ![p] = Absent]
    /\ UNCHANGED <<authVars, lastEpoch, active, rotationRequired, connVars, delivery, histVars>>

RemoveReceiver(p) ==
    /\ install[p] # Absent
    /\ install' = [install EXCEPT ![p] = Absent]
    /\ rotationRequired' = (rotationRequired \/ active # 0)
    /\ UNCHANGED <<authVars, lastEpoch, active, connVars, delivery, histVars>>

\* Every registered receiver goes back to AwaitingKey.
AwaitingAll ==
    [p \in Receivers |-> IF install[p] = Absent THEN Absent ELSE AwaitingKey]

\* Deviations of BeginEpoch: no exhaustion check; install states are kept.
BeginEpoch_Unchecked ==
    /\ lastEpoch <= EpochLimit
    /\ install' = AwaitingAll
    /\ active' = lastEpoch + 1
    /\ lastEpoch' = lastEpoch + 1
    /\ rotationRequired' = FALSE
    /\ UNCHANGED <<authVars, connVars, delivery, histVars>>
BeginEpoch_KeepsInstalls ==
    /\ lastEpoch < EpochLimit
    /\ active' = lastEpoch + 1
    /\ lastEpoch' = lastEpoch + 1
    /\ rotationRequired' = FALSE
    /\ members' = [members EXCEPT ![lastEpoch + 1] = Registered]
    /\ UNCHANGED <<authVars, install, connVars, delivery, holders, everInstalled>>

BeginEpoch ==
    /\ lastEpoch < EpochLimit
    /\ install' = AwaitingAll
    /\ active' = lastEpoch + 1
    /\ lastEpoch' = lastEpoch + 1
    /\ rotationRequired' = FALSE
    /\ members' = [members EXCEPT ![lastEpoch + 1] = Registered]
    /\ UNCHANGED <<authVars, connVars, delivery, holders, everInstalled>>

\* Deviation of EndEpoch: numbering and the deliveries start over.
EndEpoch_StartsOver ==
    /\ install' = IF active # 0 THEN AwaitingAll ELSE install
    /\ active' = 0
    /\ lastEpoch' = 0
    /\ rotationRequired' = FALSE
    /\ delivery' = [p \in Receivers |-> NoDelivery]
    /\ UNCHANGED <<authVars, connVars, histVars>>

EndEpoch ==
    /\ install' = IF active # 0 THEN AwaitingAll ELSE install
    /\ active' = 0
    /\ rotationRequired' = FALSE
    /\ UNCHANGED <<authVars, lastEpoch, connVars, delivery, histVars>>

\* reconcile_authorization: receivers without a live permission are dropped,
\* and an active epoch must then rotate.
ReconciledInstall ==
    [p \in Receivers |-> IF p \in allows THEN install[p] ELSE Absent]
ReconciledRotation ==
    rotationRequired \/ (active # 0 /\ Registered \ allows # {})

\* seal_bound_frame: reconcile, then refuse without an active, settled epoch.
CanSeal == ~ReconciledRotation /\ active # 0

SealFrame ==
    /\ install' = ReconciledInstall
    /\ rotationRequired' = ReconciledRotation
    /\ UNCHANGED <<authVars, lastEpoch, active, connVars, delivery, histVars>>

-----------------------------------------------------------------------------
(* Connections                                                             *)

\* A further connection; the earlier ones keep their state and what is on them.
Connect(l) ==
    /\ link[l] = "Unused"
    /\ \A c \in 1..(l[2] - 1) : link[<<l[1], c>>] # "Unused"
    /\ link' = [link EXCEPT ![l] = "Open"]
    /\ UNCHANGED <<authVars, coordVars, guardSeq, grants, acks, studentSeq, studentKey,
                   sent, delivery, histVars>>

\* The connection dies: grants not yet read are lost, acknowledgements
\* already received by the Teacher (a prefix of those sent) may still be read.
ConnectionLost(l) ==
    /\ link' = [link EXCEPT ![l] = "Lost"]
    /\ grants' = [grants EXCEPT ![l] = <<>>]
    /\ \E n \in 0..Len(acks[l]) : acks' = [acks EXCEPT ![l] = SubSeq(@, 1, n)]

Disconnect(l) ==
    /\ link[l] = "Open"
    /\ ConnectionLost(l)
    /\ UNCHANGED <<authVars, coordVars, guardSeq, studentSeq, studentKey,
                   sent, delivery, histVars>>

-----------------------------------------------------------------------------
(* TeacherGroupMediaDeliveryManager                                        *)

\* Deviation of RegisterClientSession: a registered receiver is replaced.
RegisterClientSession_Replaces(l) ==
    /\ link[l] # "Unused"
    /\ l[1] \in credential
    /\ delivery' = [delivery EXCEPT ![l[1]] = [conn |-> l[2], pending |-> NoPending]]
    /\ UNCHANGED <<authVars, coordVars, connVars, histVars>>

RegisterClientSession(l) ==
    /\ delivery[l[1]].conn = 0
    /\ Cardinality(Delivered) < MaxDelivery
    /\ link[l] # "Unused"
    /\ l[1] \in credential
    /\ delivery' = [delivery EXCEPT ![l[1]] = [conn |-> l[2], pending |-> NoPending]]
    /\ UNCHANGED <<authVars, coordVars, connVars, histVars>>

RemoveDelivery(p) ==
    /\ delivery[p].conn # 0
    /\ delivery' = [delivery EXCEPT ![p] = NoDelivery]
    /\ UNCHANGED <<authVars, coordVars, connVars, histVars>>

\* Deviation of BoundClient: any session of a registered receiver will do.
BoundClient_AnySession(l) ==
    /\ delivery[l[1]].conn # 0
    /\ l[1] \in credential

\* bound_client: the session handed in is the one the receiver was registered
\* with, newest or not, and its certificate still resolves to the receiver.
BoundClient(l) ==
    /\ delivery[l[1]].conn = l[2]
    /\ l[1] \in credential

\* GroupMediaCoordinator::issue_key after the reconciliation.
CanIssueKey(p) ==
    /\ ~ReconciledRotation
    /\ active # 0
    /\ ReconciledInstall[p] # Absent

\* issue_key_grant: the grant and its pending acknowledgement name the same
\* request, presentation, stream and epoch.
KeyGrant(tag) == [tag |-> tag, epoch |-> active]

\* SensitivePresentationKeyEnvelope: the grant is written exactly once. The
\* write may fail or be cancelled, with the grant delivered or not.
WriteGrant(l, tag) ==
    \/ UNCHANGED grants
    \/ /\ link[l] = "Open"
       /\ grants' = [grants EXCEPT ![l] = Append(@, KeyGrant(tag))]

\* The pending record is stored before the write and stays if it fails.
SendKey(l, tag) ==
    LET p == l[1] IN
    /\ BoundClient(l)
    /\ delivery[p].pending.epoch = 0
    /\ PeerAuthorized(p)
    /\ sent[p] < MaxGrants
    /\ rotationRequired' = ReconciledRotation
    /\ \/ /\ ~CanIssueKey(p)
          /\ install' = ReconciledInstall
          /\ UNCHANGED <<delivery, grants, sent, holders>>
       \/ /\ CanIssueKey(p)
          /\ install' = [ReconciledInstall EXCEPT ![p] = KeyIssued(active)]
          /\ delivery' = [delivery EXCEPT ![p].pending = KeyGrant(tag)]
          /\ holders' = [holders EXCEPT ![active] = @ \cup {p}]
          /\ sent' = [sent EXCEPT ![p] = @ + 1]
          /\ WriteGrant(l, tag)
    /\ UNCHANGED <<authVars, lastEpoch, active, link, guardSeq, acks,
                   studentSeq, studentKey, members, everInstalled>>

\* Deviation of CanMarkInstalled: only the idempotent repetition is accepted.
CanMarkInstalled_RepeatOnly(p, e) ==
    /\ ~ReconciledRotation
    /\ active # 0
    /\ e = active
    /\ ReconciledInstall[p] = Installed(e)

\* GroupMediaCoordinator::mark_installed after the reconciliation.
CanMarkInstalled(p, e) ==
    /\ ~ReconciledRotation
    /\ active # 0
    /\ e = active
    /\ ReconciledInstall[p] \in {KeyIssued(e), Installed(e)}

\* accept_key_ack: without a bound client, a pending record or a fresh
\* sequence the envelope is refused with no effect.
AckRefused(l, ack) ==
    /\ \/ ~BoundClient(l)
       \/ delivery[l[1]].pending.epoch = 0
       \/ ack.seq <= guardSeq[l]
    /\ UNCHANGED <<coordVars, guardSeq, delivery>>

\* Deviation of AckConsumed: the acknowledged record stays pending.
AckConsumed_StaysPending(l, ack) ==
    LET p == l[1]
        pending == delivery[p].pending
    IN  /\ BoundClient(l)
        /\ pending.epoch # 0
        /\ ack.seq > guardSeq[l]
        /\ guardSeq' = [guardSeq EXCEPT ![l] = ack.seq]
        /\ PeerAuthorized(p) /\ ack.tag = pending.tag /\ ack.epoch = pending.epoch
        /\ CanMarkInstalled(p, pending.epoch)
        /\ install' = [install EXCEPT ![p] = Installed(active)]
        /\ UNCHANGED <<rotationRequired, delivery, lastEpoch, active>>

\* PendingPresentationKeyAck::accept: the sequence is consumed first; the
\* correlation and the coordinator decide afterwards.
AckConsumed(l, ack) ==
    LET p == l[1]
        pending == delivery[p].pending
        correlated == ack.tag = pending.tag /\ ack.epoch = pending.epoch
        ok == CanMarkInstalled(p, pending.epoch)
    IN  /\ BoundClient(l)
        /\ pending.epoch # 0
        /\ ack.seq > guardSeq[l]
        /\ guardSeq' = [guardSeq EXCEPT ![l] = ack.seq]
        /\ \/ /\ ~(PeerAuthorized(p) /\ correlated)
              /\ UNCHANGED <<install, rotationRequired, delivery>>
           \/ /\ PeerAuthorized(p) /\ correlated
              /\ rotationRequired' = ReconciledRotation
              /\ install' = IF ok THEN [ReconciledInstall EXCEPT ![p] = Installed(active)]
                                  ELSE ReconciledInstall
              /\ delivery' = IF ok THEN [delivery EXCEPT ![p].pending = NoPending]
                                   ELSE delivery
        /\ UNCHANGED <<lastEpoch, active>>

\* The oldest acknowledgement received on a connection, live or lost, is
\* presented with that connection's session and guard. The envelope is only
\* borrowed: the caller may keep it and present it again.
AcceptKeyAck(l) ==
    /\ acks[l] # <<>>
    /\ UNCHANGED acks \/ acks' = [acks EXCEPT ![l] = Tail(@)]
    /\ AckRefused(l, Head(acks[l])) \/ AckConsumed(l, Head(acks[l]))
    /\ UNCHANGED <<authVars, link, grants, studentSeq, studentKey, sent, histVars>>

-----------------------------------------------------------------------------
(* The Student Service, as the Teacher can observe it: a task per session. *)

\* presentation_key_epoch_is_fresh, for one presentation and stream.
FreshEpoch(l, e) == e > studentKey[l]

\* A fresh key is installed and acknowledged.
StudentInstallsKey(l) ==
    /\ link[l] = "Open"
    /\ grants[l] # <<>>
    /\ LET grant == Head(grants[l]) IN
        /\ FreshEpoch(l, grant.epoch)
        /\ grants' = [grants EXCEPT ![l] = Tail(@)]
        /\ studentKey' = [studentKey EXCEPT ![l] = grant.epoch]
        /\ studentSeq' = [studentSeq EXCEPT ![l] = @ + 1]
        /\ acks' = [acks EXCEPT ![l] = Append(@, [tag |-> grant.tag, epoch |-> grant.epoch,
                                                  seq |-> studentSeq[l] + 1])]
        /\ everInstalled' = [everInstalled EXCEPT ![l] = @ \cup {grant.epoch}]
    /\ UNCHANGED <<authVars, coordVars, link, guardSeq, sent, delivery,
                   holders, members>>

\* A stale epoch, a Worker that rejects, times out or is busy, or a failed
\* ACK write: the Student closes the session. The key may be installed by then.
StudentClosesSession(l) ==
    /\ link[l] = "Open"
    /\ grants[l] # <<>>
    /\ LET e == Head(grants[l]).epoch IN
        \/ UNCHANGED everInstalled
        \/ FreshEpoch(l, e)
           /\ everInstalled' = [everInstalled EXCEPT ![l] = @ \cup {e}]
    /\ ConnectionLost(l)
    /\ UNCHANGED <<authVars, coordVars, guardSeq, studentSeq, studentKey,
                   sent, delivery, holders, members>>

-----------------------------------------------------------------------------
CoordinatorNext ==
    \/ \E p \in Receivers : RegisterReceiver(p) \/ RemoveReceiver(p)
    \/ BeginEpoch \/ EndEpoch \/ SealFrame

Next ==
    \/ CoordinatorNext
    \/ \E p \in Receivers : ChangeAuthorization(p) \/ RemoveDelivery(p)
    \/ \E l \in Links :
        \/ Connect(l) \/ Disconnect(l)
        \/ RegisterClientSession(l)
        \/ \E tag \in Tags : SendKey(l, tag)
        \/ AcceptKeyAck(l)
        \/ StudentInstallsKey(l) \/ StudentClosesSession(l)

Spec == Init /\ [][Next]_vars

\* The Student's session task and the Teacher's receive loop keep running:
\* what is on a live connection is eventually read.
Fairness ==
    \A l \in Links :
        /\ WF_vars(StudentInstallsKey(l) \/ StudentClosesSession(l))
        /\ WF_vars(AcceptKeyAck(l))

FairSpec == Spec /\ Fairness

-----------------------------------------------------------------------------
(* Properties                                                              *)

\* Whenever a frame can be sealed, every principal that was ever issued the
\* key it is sealed with is still a registered receiver whose permission is
\* live: removal, revocation and rotation never leave an epoch open to a
\* former member (seal_bound_frame, reconcile_authorization).
SealAudience == CanSeal => holders[active] \subseteq Registered \cap allows

\* A key is issued only to principals that were members when its epoch began:
\* a receiver that joins later waits for a rotation (register_receiver sets
\* rotation_required, issue_key refuses while it is set).
HoldersWereMembers == \A e \in Epochs : holders[e] \subseteq members[e]

\* The coordinator records a receiver as installed only for the active epoch
\* and only if that Student installed that epoch's key in one of its sessions,
\* across lost connections, reconnections and rotations (mark_installed,
\* accept). The session, and with it the key, may have ended since.
InstalledIsReal ==
    \A p \in Receivers :
        install[p].st = "Installed" =>
            /\ install[p].epoch = active
            /\ \E l \in Links : l[1] = p /\ install[p].epoch \in everInstalled[l]

\* A receiver becomes installed only by what the Student did in the session
\* the receiver is registered with at that moment: an acknowledgement of an
\* earlier or another connection, kept or delayed, does not count for it, even
\* with the same request, stream and epoch (bound_client, accept).
InstalledInItsSession ==
    [][\A p \in Receivers :
          install'[p].st = "Installed" /\ install[p].st # "Installed"
          => \E l \in Links : /\ l = <<p, delivery[p].conn>>
                              /\ install'[p].epoch \in everInstalled[l]]_vars

\* While the active epoch is settled, an outstanding acknowledgement for it is
\* one the coordinator would accept: the delivery manager and the coordinator
\* never disagree about a grant (send_key, accept_key_ack).
OutstandingAckAcceptable ==
    \A p \in Registered :
        LET pending == delivery[p].pending.epoch IN
        pending # 0 /\ pending = active /\ ~rotationRequired
            => install[p] = KeyIssued(active)

\* A pending record is cleared, while the receiver stays registered for
\* delivery, only by an acknowledgement that marks the active epoch installed;
\* a record of an older epoch stays until the receiver is removed.
PendingClearedOnlyByInstall ==
    [][\A p \in Receivers :
          /\ delivery[p].pending.epoch # 0
          /\ delivery'[p].pending.epoch = 0
          /\ delivery'[p].conn # 0
          => /\ delivery[p].pending.epoch = active
             /\ install'[p] = Installed(active)]_vars

\* An epoch that becomes active has never been issued to anyone: epoch numbers,
\* and with them key identifiers, are never reused, also after end_epoch.
NewEpochHasNoHolders ==
    [][active' # active /\ active' # 0 => holders[active'] = {}]_vars

\* A grant to a healthy receiver is answered: it ends installed, unless its
\* connection, its authorization, its registration or the epoch goes first
\* (send_key, accept_key_ack; the Student's and the Teacher's receive loops).
Pinned(p) == <<p, delivery[p].conn>>
Healthy(p) ==
    /\ delivery[p].conn # 0
    /\ link[Pinned(p)] = "Open" /\ BoundClient(Pinned(p)) /\ PeerAuthorized(p)
    /\ delivery[p].pending.epoch = active /\ active # 0
    /\ ~rotationRequired /\ p \in Registered /\ Registered \subseteq allows
Granted(p) ==
    /\ delivery[p].conn # 0
    /\ KeyGrant(delivery[p].pending.tag) \in
          {grants[Pinned(p)][i] : i \in 1..Len(grants[Pinned(p)])}
KeyDeliveryResolves ==
    \A p \in Receivers : (Healthy(p) /\ Granted(p)) ~> ~Healthy(p)

=============================================================================
