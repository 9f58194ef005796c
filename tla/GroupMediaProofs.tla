-------------------------- MODULE GroupMediaProofs --------------------------
(***************************************************************************)
(* Proofs about GroupMedia for every class size, every capacity and every  *)
(* number of epochs, connections and grants.                               *)
(***************************************************************************)
EXTENDS GroupMedia, TLAPS

\* Facts about the installation states used by every step.
LEMMA InstallStateFacts ==
    /\ Absent \in InstallStates
    /\ AwaitingKey \in InstallStates
    /\ \A e \in Epochs : KeyIssued(e) \in InstallStates /\ Installed(e) \in InstallStates
  BY DEF InstallStates

\* Different installation states are different.
LEMMA InstallStatesDiffer ==
    /\ Absent # AwaitingKey
    /\ \A e \in Epochs : /\ KeyIssued(e) # Absent /\ Installed(e) # Absent
                         /\ KeyIssued(e) # AwaitingKey /\ Installed(e) # AwaitingKey
    /\ \A d, e \in Epochs : /\ KeyIssued(d) # Installed(e)
                            /\ KeyIssued(d) = KeyIssued(e) => d = e
                            /\ Installed(d) = Installed(e) => d = e
  BY DEF Absent, AwaitingKey, KeyIssued, Installed

\* The empty delivery records have their type.
LEMMA NoDeliveryType == NoDelivery \in Deliveries /\ NoPending \in Pendings
  BY LimitsAssumption DEF NoDelivery, NoPending, Pendings, Deliveries

\* What is read from, appended to, or cut off a message queue stays typed.
LEMMA QueueFacts ==
    ASSUME NEW S, NEW q \in Seq(S), NEW x \in S
    PROVE  /\ Append(q, x) \in Seq(S)
           /\ \A n \in 0..Len(q) : SubSeq(q, 1, n) \in Seq(S)
           /\ q # <<>> => Head(q) \in S /\ Tail(q) \in Seq(S)
  OBVIOUS

\* A connection belongs to a receiver.
LEMMA LinkFacts ==
    ASSUME NEW l \in Links
    PROVE  l[1] \in Receivers /\ l[2] \in 1..MaxConn /\ l = <<l[1], l[2]>>
  BY DEF Links

\* The type invariant holds in every reachable state of the key protocol.
THEOREM GroupMediaTypeOK == Spec => []TypeOK
<1>1. Init => TypeOK
  <2> SUFFICES ASSUME Init PROVE TypeOK
    OBVIOUS
  <2>1. lastEpoch \in 0..EpochLimit /\ active \in 0..EpochLimit
    BY LimitsAssumption DEF Init
  <2>2. link \in [Links -> LinkStates] /\ sent \in [Receivers -> 0..MaxGrants]
    BY LimitsAssumption DEF Init, LinkStates
  <2>3. studentKey \in [Links -> 0..EpochLimit]
    BY LimitsAssumption DEF Init
  <2>4. install \in [Receivers -> InstallStates] /\ delivery \in [Receivers -> Deliveries]
    BY InstallStateFacts, NoDeliveryType DEF Init
  <2>5. grants \in [Links -> Seq(GrantMessages)] /\ acks \in [Links -> Seq(AckMessages)]
    BY DEF Init
  <2>6. guardSeq \in [Links -> Nat] /\ studentSeq \in [Links -> Nat]
    BY DEF Init, HelloSequence
  <2> QED BY <2>1, <2>2, <2>3, <2>4, <2>5, <2>6 DEF Init, TypeOK
<1>2. TypeOK /\ [Next]_vars => TypeOK'
  <2> SUFFICES ASSUME TypeOK, [Next]_vars PROVE TypeOK'
    OBVIOUS
  <2>r. ReconciledInstall \in [Receivers -> InstallStates] /\ ReconciledRotation \in BOOLEAN
        /\ AwaitingAll \in [Receivers -> InstallStates]
    BY InstallStateFacts DEF ReconciledInstall, ReconciledRotation, AwaitingAll, TypeOK
  <2>e. active # 0 => active \in Epochs
    BY LimitsAssumption DEF TypeOK, Epochs
  <2>1. ASSUME NEW p \in Receivers, RegisterReceiver(p) \/ RemoveReceiver(p) PROVE TypeOK'
    <3>1. install' \in [Receivers -> InstallStates]
      BY <2>1, InstallStateFacts DEF RegisterReceiver, RemoveReceiver, TypeOK
    <3>2. rotationRequired' \in BOOLEAN
      BY <2>1 DEF RegisterReceiver, RemoveReceiver
    <3> QED BY <2>1, <3>1, <3>2 DEF RegisterReceiver, RemoveReceiver, TypeOK, authVars, connVars, histVars
  <2>2. CASE BeginEpoch
    <3>1. lastEpoch + 1 \in Epochs /\ lastEpoch + 1 \in 0..EpochLimit
      BY <2>2, LimitsAssumption DEF BeginEpoch, TypeOK, Epochs
    <3>2. members' \in [Epochs -> SUBSET Receivers]
      BY <2>2, <3>1 DEF BeginEpoch, TypeOK, Registered
    <3> QED BY <2>2, <2>r, <3>1, <3>2 DEF BeginEpoch, TypeOK, authVars, connVars
  <2>3. CASE EndEpoch
    <3>1. install' \in [Receivers -> InstallStates] /\ active' \in 0..EpochLimit
      BY <2>3, <2>r, LimitsAssumption DEF EndEpoch, TypeOK
    <3> QED BY <2>3, <3>1 DEF EndEpoch, TypeOK, authVars, connVars, histVars
  <2>4. CASE SealFrame
    BY <2>4, <2>r DEF SealFrame, TypeOK, authVars, connVars, histVars
  <2>5. ASSUME NEW p \in Receivers, ChangeAuthorization(p) PROVE TypeOK'
    <3>1. allows' \subseteq Receivers /\ credential' \subseteq Receivers
      BY <2>5 DEF ChangeAuthorization, TypeOK
    <3> QED BY <2>5, <3>1 DEF ChangeAuthorization, TypeOK, coordVars, connVars, histVars
  <2>6. ASSUME NEW l \in Links, Connect(l) PROVE TypeOK'
    <3>1. link' \in [Links -> LinkStates]
      BY <2>6 DEF Connect, TypeOK, LinkStates
    <3> QED BY <2>6, <3>1 DEF Connect, TypeOK, authVars, coordVars, histVars
  <2>7. ASSUME NEW l \in Links, ConnectionLost(l)
        PROVE  /\ link' \in [Links -> LinkStates]
               /\ grants' \in [Links -> Seq(GrantMessages)]
               /\ acks' \in [Links -> Seq(AckMessages)]
    <3>1. PICK n \in 0..Len(acks[l]) : acks' = [acks EXCEPT ![l] = SubSeq(acks[l], 1, n)]
      BY <2>7 DEF ConnectionLost
    <3>2. acks[l] \in Seq(AckMessages)
      BY DEF TypeOK
    <3>3. SubSeq(acks[l], 1, n) \in Seq(AckMessages)
      BY <3>2
    <3>4. link' \in [Links -> LinkStates]
      BY <2>7 DEF ConnectionLost, TypeOK, LinkStates
    <3> QED BY <2>7, <3>1, <3>3, <3>4 DEF ConnectionLost, TypeOK
  <2>8. ASSUME NEW l \in Links, Disconnect(l) PROVE TypeOK'
    BY <2>8, <2>7 DEF Disconnect, TypeOK, authVars, coordVars, histVars
  <2>9. ASSUME NEW l \in Links, RegisterClientSession(l) PROVE TypeOK'
    <3>1. [conn |-> l[2], pending |-> NoPending] \in Deliveries /\ l[1] \in Receivers
      BY NoDeliveryType, LinkFacts DEF Deliveries
    <3>2. delivery' \in [Receivers -> Deliveries]
      BY <2>9, <3>1 DEF RegisterClientSession, TypeOK
    <3> QED BY SMTT(20), <2>9, <3>2 DEF RegisterClientSession, TypeOK, authVars, coordVars, connVars, histVars
  <2>9a. ASSUME NEW p \in Receivers, RemoveDelivery(p) PROVE TypeOK'
    <3>1. delivery' \in [Receivers -> Deliveries]
      BY <2>9a, NoDeliveryType DEF RemoveDelivery, TypeOK
    <3> QED BY <2>9a, <3>1 DEF RemoveDelivery, TypeOK, authVars, coordVars, connVars, histVars
  <2>10. ASSUME NEW l \in Links, NEW tag \in Tags, SendKey(l, tag) PROVE TypeOK'
    <3> DEFINE p == l[1]
    <3>p. p \in Receivers
      BY LinkFacts
    <3>1. CASE CanIssueKey(p)
      <4> DEFINE m == KeyGrant(tag)
      <4>1. active \in Epochs
        BY <3>1, <2>e DEF CanIssueKey
      <4>2. m \in Pendings /\ m \in GrantMessages
        BY <4>1 DEF KeyGrant, Pendings, GrantMessages, Epochs
      <4>3. delivery' \in [Receivers -> Deliveries]
        <5>1. delivery' = [delivery EXCEPT ![p] = [delivery[p] EXCEPT !.pending = m]]
          BY <2>10, <3>1 DEF SendKey
        <5>2. delivery[p] \in Deliveries
          BY <3>p DEF TypeOK
        <5>3. [delivery[p] EXCEPT !.pending = m] \in Deliveries
          BY <5>2, <4>2 DEF Deliveries
        <5> QED BY <5>1, <5>3, <3>p DEF TypeOK
      <4>4. grants[l] \in Seq(GrantMessages)
        BY DEF TypeOK
      <4>5. Append(grants[l], m) \in Seq(GrantMessages)
        BY <4>2, <4>4, QueueFacts
      <4>6. grants' \in [Links -> Seq(GrantMessages)]
        <5>1. \/ grants' = grants
              \/ grants' = [grants EXCEPT ![l] = Append(grants[l], m)]
          BY <2>10, <3>1 DEF SendKey, WriteGrant
        <5> QED BY <5>1, <4>5 DEF TypeOK
      <4>7. install' \in [Receivers -> InstallStates]
        BY <2>10, <3>1, <3>p, <4>1, <2>r, InstallStateFacts DEF SendKey
      <4>8. holders' \in [Epochs -> SUBSET Receivers]
        <5>1. holders' = [holders EXCEPT ![active] = holders[active] \cup {p}]
          BY <2>10, <3>1 DEF SendKey
        <5>2. holders[active] \cup {p} \in SUBSET Receivers
          BY <4>1, <3>p DEF TypeOK
        <5> QED BY <5>1, <5>2, <4>1 DEF TypeOK
      <4>9. sent' \in [Receivers -> 0..MaxGrants]
        <5>1. sent' = [sent EXCEPT ![p] = sent[p] + 1] /\ sent[p] < MaxGrants
          BY <2>10, <3>1 DEF SendKey
        <5>2. sent[p] + 1 \in 0..MaxGrants
          BY <5>1, <3>p, LimitsAssumption DEF TypeOK
        <5> QED BY <5>1, <5>2, <3>p DEF TypeOK
      <4> QED
        BY SMTT(20), <2>10, <4>3, <4>6, <4>7, <4>8, <4>9, <2>r DEF SendKey, TypeOK, authVars
    <3>2. CASE ~CanIssueKey(p)
      BY <2>10, <3>2, <2>r DEF SendKey, TypeOK, authVars
    <3> QED BY <3>1, <3>2
  <2>11. ASSUME NEW l \in Links, AcceptKeyAck(l) PROVE TypeOK'
    <3> DEFINE p == l[1]
    <3>p. p \in Receivers
      BY LinkFacts
    <3>1. acks[l] \in Seq(AckMessages) /\ acks[l] # <<>>
      BY <2>11 DEF AcceptKeyAck, TypeOK
    <3>2. Head(acks[l]) \in AckMessages /\ Tail(acks[l]) \in Seq(AckMessages)
      BY <3>1
    <3>3. acks' \in [Links -> Seq(AckMessages)]
      BY <2>11, <3>2 DEF AcceptKeyAck, TypeOK
    <3>4. CASE AckRefused(l, Head(acks[l]))
      BY <2>11, <3>3, <3>4 DEF AcceptKeyAck, AckRefused, TypeOK, authVars, coordVars, histVars
    <3>5. CASE AckConsumed(l, Head(acks[l]))
      <4>1. guardSeq' \in [Links -> Nat]
        BY <3>5, <3>2 DEF AckConsumed, TypeOK, AckMessages
      <4>2. delivery' \in [Receivers -> Deliveries]
        <5>1. \/ delivery' = delivery
              \/ delivery' = [delivery EXCEPT ![p] = [delivery[p] EXCEPT !.pending = NoPending]]
          BY <3>5 DEF AckConsumed
        <5>2. delivery[p] \in Deliveries
          BY <3>p DEF TypeOK
        <5>3. [delivery[p] EXCEPT !.pending = NoPending] \in Deliveries
          BY <5>2, NoDeliveryType DEF Deliveries
        <5> QED BY <5>1, <5>3, <3>p DEF TypeOK
      <4>3. install' \in [Receivers -> InstallStates] /\ rotationRequired' \in BOOLEAN
        BY <3>5, <3>p, <2>r, <2>e, InstallStateFacts DEF AckConsumed, TypeOK, CanMarkInstalled
      <4> QED
        BY SMTT(20), <2>11, <3>3, <3>5, <4>1, <4>2, <4>3 DEF AcceptKeyAck, AckConsumed, TypeOK, authVars, histVars
    <3> QED BY <2>11, <3>4, <3>5 DEF AcceptKeyAck
  <2>12. ASSUME NEW l \in Links, StudentInstallsKey(l) PROVE TypeOK'
    <3> DEFINE grant == Head(grants[l])
               ack == [tag |-> grant.tag, epoch |-> grant.epoch, seq |-> studentSeq[l] + 1]
    <3>1. grants[l] \in Seq(GrantMessages) /\ grants[l] # <<>>
      BY <2>12 DEF StudentInstallsKey, TypeOK
    <3>2. grant \in GrantMessages /\ Tail(grants[l]) \in Seq(GrantMessages)
      BY <3>1
    <3>3. grant.epoch \in Epochs /\ grant.epoch \in 0..EpochLimit
      BY <3>2 DEF GrantMessages, Epochs
    <3>4. ack \in AckMessages /\ acks[l] \in Seq(AckMessages)
      <4>1. studentSeq[l] + 1 \in Nat /\ acks[l] \in Seq(AckMessages)
        BY DEF TypeOK
      <4> QED BY <3>2, <4>1 DEF GrantMessages, AckMessages
    <3>5. Append(acks[l], ack) \in Seq(AckMessages)
      BY <3>4, QueueFacts
    <3>6. studentKey' \in [Links -> 0..EpochLimit] /\ studentSeq' \in [Links -> Nat]
          /\ everInstalled' \in [Links -> SUBSET Epochs]
      <4>1. /\ studentKey' = [studentKey EXCEPT ![l] = grant.epoch]
            /\ studentSeq' = [studentSeq EXCEPT ![l] = studentSeq[l] + 1]
            /\ everInstalled' = [everInstalled EXCEPT ![l] = everInstalled[l] \cup {grant.epoch}]
        BY <2>12 DEF StudentInstallsKey
      <4>2. everInstalled[l] \cup {grant.epoch} \in SUBSET Epochs /\ studentSeq[l] + 1 \in Nat
        BY <3>3 DEF TypeOK
      <4> QED BY SMTT(20), <4>1, <4>2, <3>3 DEF TypeOK
    <3>7. grants' \in [Links -> Seq(GrantMessages)] /\ acks' \in [Links -> Seq(AckMessages)]
      BY <2>12, <3>2, <3>5 DEF StudentInstallsKey, TypeOK
    <3> QED
      BY <2>12, <3>6, <3>7 DEF StudentInstallsKey, TypeOK, authVars, coordVars
  <2>13. ASSUME NEW l \in Links, StudentClosesSession(l) PROVE TypeOK'
    <3>1. grants[l] \in Seq(GrantMessages) /\ grants[l] # <<>>
      BY <2>13 DEF StudentClosesSession, TypeOK
    <3>2. Head(grants[l]) \in GrantMessages
      BY <3>1
    <3>3. Head(grants[l]).epoch \in Epochs
      BY SMTT(20), <3>2 DEF GrantMessages
    <3>4. everInstalled' \in [Links -> SUBSET Epochs]
      <4>1. \/ everInstalled' = everInstalled
            \/ everInstalled' = [everInstalled EXCEPT ![l] = everInstalled[l] \cup {Head(grants[l]).epoch}]
        BY <2>13 DEF StudentClosesSession
      <4>2. everInstalled[l] \cup {Head(grants[l]).epoch} \in SUBSET Epochs
        BY <3>3 DEF TypeOK
      <4> QED BY <4>1, <4>2 DEF TypeOK
    <3> QED
      BY SMTT(20), <2>13, <2>7, <3>4 DEF StudentClosesSession, TypeOK, authVars, coordVars
  <2>14. CASE UNCHANGED vars
    BY <2>14 DEF vars, TypeOK, authVars, coordVars, connVars, histVars
  <2> QED
    BY <2>1, <2>2, <2>3, <2>4, <2>5, <2>6, <2>8, <2>9, <2>9a, <2>10, <2>11, <2>12, <2>13, <2>14
       DEF Next, CoordinatorNext
<1> QED BY <1>1, <1>2, PTL DEF Spec

-----------------------------------------------------------------------------
(* Membership: who may hold the key of an epoch.                           *)

\* Why SealAudience and HoldersWereMembers hold: an active epoch that needs no
\* rotation has exactly the receivers it began with, keys go only to them, and
\* epochs not yet begun have no holder.
MembershipInv ==
    /\ active = 0 \/ active = lastEpoch
    /\ \A e \in Epochs : e > lastEpoch => holders[e] = {}
    /\ \A e \in Epochs : holders[e] \subseteq members[e]
    /\ active # 0 /\ ~rotationRequired => Registered = members[active]

\* Reconciling keeps exactly the registered receivers that are still allowed,
\* and reports a rotation if an active epoch lost one.
LEMMA ReconcileFacts ==
    ASSUME TypeOK
    PROVE  /\ \A p \in Receivers : (ReconciledInstall[p] # Absent) <=> (p \in Registered /\ p \in allows)
           /\ ~ReconciledRotation /\ active # 0 => ~rotationRequired /\ Registered \subseteq allows
  BY DEF ReconciledInstall, ReconciledRotation, Registered, TypeOK

\* A step that issues no key and keeps every state's "is registered" leaves the
\* membership facts alone.
LEMMA MembershipFrame ==
    ASSUME TypeOK, MembershipInv,
           UNCHANGED <<active, lastEpoch, rotationRequired, holders, members>>,
           Registered' = Registered
    PROVE  MembershipInv'
  BY DEF MembershipInv

\* Every step of the protocol preserves the membership facts.
LEMMA MembershipStep == TypeOK /\ TypeOK' /\ MembershipInv /\ [Next]_vars => MembershipInv'
<1> SUFFICES ASSUME TypeOK, TypeOK', MembershipInv, [Next]_vars PROVE MembershipInv'
  OBVIOUS
<1>e. active # 0 => active \in Epochs
  BY LimitsAssumption DEF TypeOK, Epochs
<1>1. ASSUME NEW p \in Receivers, RegisterReceiver(p) \/ RemoveReceiver(p) PROVE MembershipInv'
  BY <1>1 DEF RegisterReceiver, RemoveReceiver, MembershipInv, histVars
<1>2. CASE BeginEpoch
  <2>1. lastEpoch + 1 \in Epochs /\ lastEpoch \in Nat
    BY <1>2, LimitsAssumption DEF BeginEpoch, TypeOK, Epochs
  <2>2. Registered' = Registered
    BY <1>2, InstallStatesDiffer DEF BeginEpoch, AwaitingAll, Registered, TypeOK
  <2>3. /\ active' = lastEpoch + 1 /\ lastEpoch' = lastEpoch + 1 /\ holders' = holders
        /\ members' = [members EXCEPT ![lastEpoch + 1] = Registered]
    BY <1>2 DEF BeginEpoch
  <2>4. members'[lastEpoch + 1] = Registered /\ \A e \in Epochs : e # lastEpoch + 1 => members'[e] = members[e]
    BY <2>1, <2>3 DEF TypeOK
  <2>5. \A e \in Epochs : e > lastEpoch' => holders'[e] = {}
    BY <2>1, <2>3 DEF MembershipInv, Epochs
  <2>6. \A e \in Epochs : holders'[e] \subseteq members'[e]
    <3>1. holders[lastEpoch + 1] = {}
      BY <2>1 DEF MembershipInv
    <3> QED BY <2>1, <2>3, <2>4, <3>1 DEF MembershipInv
  <2> QED BY <2>2, <2>3, <2>4, <2>5, <2>6 DEF MembershipInv
<1>3. CASE EndEpoch
  BY <1>3 DEF EndEpoch, MembershipInv, histVars
<1>4. CASE SealFrame
  <2>1. ~rotationRequired' /\ active # 0 => Registered' = Registered
    BY <1>4, ReconcileFacts DEF SealFrame, Registered, ReconciledInstall
  <2>2. ~rotationRequired' /\ active # 0 => ~rotationRequired
    BY <1>4, ReconcileFacts DEF SealFrame
  <2> QED BY <1>4, <2>1, <2>2 DEF SealFrame, MembershipInv, histVars
<1>5. ASSUME NEW l \in Links, NEW tag \in Tags, SendKey(l, tag) PROVE MembershipInv'
  <2> DEFINE p == l[1]
  <2>p. p \in Receivers
    BY LinkFacts
  <2>1. UNCHANGED <<active, lastEpoch, members>> /\ rotationRequired' = ReconciledRotation
    BY <1>5 DEF SendKey
  <2>2. ~rotationRequired' /\ active # 0 => ~rotationRequired
    BY <2>1, ReconcileFacts
  <2>3. CASE ~CanIssueKey(p)
    <3>1. install' = ReconciledInstall /\ holders' = holders
      BY <1>5, <2>3 DEF SendKey
    <3>2. ~rotationRequired' /\ active # 0 => Registered' = Registered
      BY <2>1, <3>1, ReconcileFacts DEF Registered, ReconciledInstall
    <3> QED BY <2>1, <2>2, <3>1, <3>2 DEF MembershipInv
  <2>4. CASE CanIssueKey(p)
    <3>1. /\ install' = [ReconciledInstall EXCEPT ![p] = KeyIssued(active)]
          /\ holders' = [holders EXCEPT ![active] = holders[active] \cup {p}]
      BY <1>5, <2>4 DEF SendKey
    <3>2. active \in Epochs /\ ~ReconciledRotation /\ p \in Registered /\ Registered \subseteq allows
      BY <2>4, <2>p, <1>e, ReconcileFacts DEF CanIssueKey
    <3>3. Registered' = Registered
      BY <3>1, <3>2, <2>p, ReconcileFacts, InstallStatesDiffer DEF Registered, ReconciledInstall
    <3>4. Registered = members[active]
      BY <3>2, ReconcileFacts, LimitsAssumption DEF MembershipInv, Epochs
    <3>5. \A e \in Epochs : holders'[e] \subseteq members[e]
      BY SMTT(20), <3>1, <3>2, <3>4, <2>p DEF MembershipInv, TypeOK
    <3>6. \A e \in Epochs : e # active => holders'[e] = holders[e]
      BY <3>1 DEF TypeOK
    <3>7. \A e \in Epochs : e > lastEpoch => e # active
      BY <3>2 DEF MembershipInv, TypeOK, Epochs
    <3> QED BY <2>1, <3>3, <3>4, <3>5, <3>6, <3>7 DEF MembershipInv
  <2> QED BY <2>3, <2>4
<1>6. ASSUME NEW l \in Links, AcceptKeyAck(l) PROVE MembershipInv'
  <2> DEFINE p == l[1]
  <2>p. p \in Receivers
    BY LinkFacts
  <2>1. UNCHANGED <<holders, members>>
    BY <1>6 DEF AcceptKeyAck, histVars
  <2>2. CASE UNCHANGED coordVars
    BY <2>1, <2>2, MembershipFrame DEF coordVars, Registered
  <2>3. CASE AckConsumed(l, Head(acks[l])) /\ ~UNCHANGED coordVars
    <3>1. UNCHANGED <<active, lastEpoch>> /\ rotationRequired' = ReconciledRotation
      BY <2>3 DEF AckConsumed, coordVars
    <3>2. \/ install' = ReconciledInstall
          \/ /\ install' = [ReconciledInstall EXCEPT ![p] = Installed(active)]
             /\ CanMarkInstalled(p, delivery[p].pending.epoch)
      BY <2>3 DEF AckConsumed, coordVars
    <3>3. ~rotationRequired' /\ active # 0 => Registered' = Registered
      <4>1. CASE install' = ReconciledInstall
        BY <3>1, <4>1, ReconcileFacts DEF Registered, ReconciledInstall
      <4>2. CASE install' = [ReconciledInstall EXCEPT ![p] = Installed(active)]
                 /\ CanMarkInstalled(p, delivery[p].pending.epoch)
        <5>1. active \in Epochs /\ ReconciledInstall[p] # Absent
          BY <4>2, <2>p, <1>e, InstallStatesDiffer DEF CanMarkInstalled
        <5> QED BY <3>1, <4>2, <5>1, <2>p, ReconcileFacts, InstallStatesDiffer DEF Registered, ReconciledInstall
      <4> QED BY <3>2, <4>1, <4>2
    <3>4. ~rotationRequired' /\ active # 0 => ~rotationRequired
      BY <3>1, ReconcileFacts
    <3> QED BY <2>1, <3>1, <3>3, <3>4 DEF MembershipInv
  <2>4. CASE AckRefused(l, Head(acks[l]))
    BY <2>2, <2>4 DEF AckRefused
  <2> QED BY <1>6, <2>2, <2>3, <2>4 DEF AcceptKeyAck
<1>7. CASE \/ \E p \in Receivers : ChangeAuthorization(p) \/ RemoveDelivery(p)
           \/ \E l \in Links : \/ Connect(l) \/ Disconnect(l) \/ RegisterClientSession(l)
                               \/ StudentInstallsKey(l) \/ StudentClosesSession(l)
  <2>1. UNCHANGED <<install, active, lastEpoch, rotationRequired, holders, members>>
    BY <1>7 DEF ChangeAuthorization, Connect, Disconnect, RegisterClientSession, RemoveDelivery,
                StudentInstallsKey, StudentClosesSession, coordVars, histVars
  <2> QED BY SMTT(20), <2>1, MembershipFrame DEF Registered
<1>8. CASE UNCHANGED vars
  BY <1>8, MembershipFrame DEF vars, coordVars, histVars, Registered
<1> QED
  BY <1>1, <1>2, <1>3, <1>4, <1>5, <1>6, <1>7, <1>8 DEF Next, CoordinatorNext

\* The membership facts hold in every reachable state.
LEMMA MembershipAlways == Spec => []MembershipInv
<1>1. Init => MembershipInv
  BY DEF Init, MembershipInv
<1> QED BY <1>1, MembershipStep, GroupMediaTypeOK, PTL DEF Spec

\* A frame is only ever sealed for current, still authorized receivers: nobody
\* who was issued the key has since left or lost the permission.
THEOREM SealAudienceHolds == Spec => []SealAudience
<1>1. TypeOK /\ MembershipInv => SealAudience
  <2> SUFFICES ASSUME TypeOK, MembershipInv, CanSeal PROVE holders[active] \subseteq Registered \cap allows
    BY DEF SealAudience
  <2>1. active \in Epochs /\ ~ReconciledRotation
    BY LimitsAssumption DEF CanSeal, TypeOK, Epochs
  <2>2. active # 0
    BY DEF CanSeal
  <2> QED BY <2>1, <2>2, ReconcileFacts DEF MembershipInv
<1> QED BY <1>1, MembershipAlways, GroupMediaTypeOK, PTL

\* Keys go only to receivers that belonged to the epoch when it began.
THEOREM HoldersWereMembersHolds == Spec => []HoldersWereMembers
<1>1. MembershipInv => HoldersWereMembers
  BY DEF MembershipInv, HoldersWereMembers
<1> QED BY <1>1, MembershipAlways, PTL

\* An epoch that becomes active was never used before.
THEOREM NewEpochHasNoHoldersHolds == Spec => NewEpochHasNoHolders
<1>1. TypeOK /\ MembershipInv /\ [Next]_vars
      => [active' # active /\ active' # 0 => holders[active'] = {}]_vars
  <2> SUFFICES ASSUME TypeOK, MembershipInv, Next, active' # active, active' # 0
               PROVE  holders[active'] = {}
    BY SMTT(20)
  <2>1. BeginEpoch
    BY DEF Next, CoordinatorNext, RegisterReceiver, RemoveReceiver, EndEpoch, SealFrame,
           ChangeAuthorization, Connect, Disconnect, RegisterClientSession, RemoveDelivery,
           SendKey, AcceptKeyAck, AckRefused, AckConsumed, StudentInstallsKey,
           StudentClosesSession, coordVars
  <2>2. active' = lastEpoch + 1 /\ lastEpoch + 1 \in Epochs /\ lastEpoch \in Nat
    BY <2>1, LimitsAssumption DEF BeginEpoch, TypeOK, Epochs
  <2> QED BY <2>2 DEF MembershipInv
<1> QED BY <1>1, MembershipAlways, GroupMediaTypeOK, PTL DEF Spec, NewEpochHasNoHolders

-----------------------------------------------------------------------------
(* Installation: what the Teacher believes about the Students' keys.       *)

\* Why InstalledIsReal holds: keys are only known for the active epoch, and an
\* acknowledgement on the wire names an epoch its Student installed.
InstallInv ==
    /\ \A p \in Receivers :
        \/ install[p] \in {Absent, AwaitingKey}
        \/ active # 0 /\ install[p] = KeyIssued(active)
        \/ /\ active # 0 /\ install[p] = Installed(active)
           /\ \E l \in Links : l[1] = p /\ active \in everInstalled[l]
    /\ \A l \in Links : \A i \in 1..Len(acks[l]) : acks[l][i].epoch \in everInstalled[l]

\* The acknowledgements that remain after a read or a loss were there before.
LEMMA ShorterQueue ==
    ASSUME NEW S, NEW q \in Seq(S), NEW E, \A i \in 1..Len(q) : q[i].epoch \in E
    PROVE  /\ \A n \in 0..Len(q) : \A i \in 1..Len(SubSeq(q, 1, n)) : SubSeq(q, 1, n)[i].epoch \in E
           /\ q # <<>> => /\ Head(q).epoch \in E
                          /\ \A i \in 1..Len(Tail(q)) : Tail(q)[i].epoch \in E
  OBVIOUS

\* Every step of the protocol preserves the installation facts.
LEMMA InstallStep == TypeOK /\ TypeOK' /\ InstallInv /\ [Next]_vars => InstallInv'
<1> SUFFICES ASSUME TypeOK, TypeOK', InstallInv, [Next]_vars PROVE InstallInv'
  OBVIOUS
<1> DEFINE St(q) == \/ install[q] \in {Absent, AwaitingKey}
                    \/ active # 0 /\ install[q] = KeyIssued(active)
                    \/ /\ active # 0 /\ install[q] = Installed(active)
                       /\ \E l \in Links : l[1] = q /\ active \in everInstalled[l]
           Ak(k) == \A i \in 1..Len(acks[k]) : acks[k][i].epoch \in everInstalled[k]
<1>s. InstallInv' <=> /\ \A q \in Receivers : St(q)'
                      /\ \A k \in Links : Ak(k)'
  BY DEF InstallInv
<1>t. (\A q \in Receivers : St(q)) /\ (\A k \in Links : Ak(k))
  BY DEF InstallInv
<1>e. active # 0 => active \in Epochs
  BY LimitsAssumption DEF TypeOK, Epochs
<1>d. acks \in [Links -> Seq(AckMessages)] /\ everInstalled \in [Links -> SUBSET Epochs]
  BY SMTT(20) DEF TypeOK
<1>f. ASSUME UNCHANGED <<acks, everInstalled>> PROVE \A k \in Links : Ak(k)'
  BY <1>f, <1>t
<1>g. ASSUME UNCHANGED <<install, active>>, \A k \in Links : everInstalled[k] \subseteq everInstalled'[k]
      PROVE \A q \in Receivers : St(q)'
  BY <1>g, <1>t
<1>r. ASSUME UNCHANGED <<active, everInstalled>>, NEW q \in Receivers,
             install'[q] = ReconciledInstall[q]
      PROVE  St(q)'
  BY <1>r, <1>t DEF ReconciledInstall
<1>1. ASSUME NEW p \in Receivers, RegisterReceiver(p) \/ RemoveReceiver(p) PROVE InstallInv'
  <2>1. UNCHANGED <<acks, everInstalled, active>>
    BY <1>1 DEF RegisterReceiver, RemoveReceiver, connVars, histVars
  <2>2. \A q \in Receivers : install'[q] \in {Absent, AwaitingKey, install[q]}
    BY <1>1 DEF RegisterReceiver, RemoveReceiver, TypeOK
  <2>3. \A q \in Receivers : St(q)'
    BY <2>1, <2>2, <1>t
  <2> QED BY <1>s, <1>f, <2>1, <2>3
<1>2. CASE BeginEpoch \/ EndEpoch
  <2>1. UNCHANGED <<acks, everInstalled>>
    BY <1>2 DEF BeginEpoch, EndEpoch, connVars, histVars
  <2>2. \A q \in Receivers : install'[q] \in {Absent, AwaitingKey}
    BY <1>2, <1>t DEF BeginEpoch, EndEpoch, AwaitingAll
  <2>3. \A q \in Receivers : St(q)'
    BY <2>2
  <2> QED BY <1>s, <1>f, <2>1, <2>3
<1>3. CASE SealFrame
  <2>1. UNCHANGED <<acks, everInstalled, active>> /\ install' = ReconciledInstall
    BY <1>3 DEF SealFrame, connVars, histVars
  <2>2. \A q \in Receivers : St(q)'
    BY <2>1, <1>r
  <2> QED BY <1>s, <1>f, <2>1, <2>2
<1>4. ASSUME NEW l \in Links, NEW tag \in Tags, SendKey(l, tag) PROVE InstallInv'
  <2>1. UNCHANGED <<acks, everInstalled, active>>
    BY <1>4 DEF SendKey
  <2>2. \/ install' = ReconciledInstall
        \/ active # 0 /\ install' = [ReconciledInstall EXCEPT ![l[1]] = KeyIssued(active)]
    BY <1>4 DEF SendKey, CanIssueKey
  <2>3. ASSUME NEW q \in Receivers PROVE St(q)'
    <3>1. CASE install'[q] = ReconciledInstall[q]
      BY <2>1, <3>1, <1>r
    <3>2. CASE active # 0 /\ install'[q] = KeyIssued(active)
      BY <2>1, <3>2
    <3> QED BY ZenonT(30), <2>2, <3>1, <3>2 DEF ReconciledInstall
  <2> QED BY <1>s, <1>f, <2>1, <2>3
<1>5. ASSUME NEW l \in Links, AcceptKeyAck(l) PROVE InstallInv'
  <2> DEFINE p == l[1]
  <2>p. p \in Receivers
    BY LinkFacts
  <2>1. /\ acks' = acks \/ acks' = [acks EXCEPT ![l] = Tail(acks[l])]
        /\ UNCHANGED everInstalled /\ acks[l] # <<>>
        /\ acks[l] \in Seq(AckMessages)
    BY <1>5 DEF AcceptKeyAck, histVars, TypeOK
  <2>2. ASSUME NEW k \in Links PROVE Ak(k)'
    <3>1. CASE k = l /\ acks' # acks
      <4>1. \A i \in 1..Len(Tail(acks[l])) : Tail(acks[l])[i].epoch \in everInstalled[l]
        BY <1>t, <2>1, ShorterQueue
      <4>2. acks'[k] = Tail(acks[l])
        BY <3>1, <2>1, <1>d
      <4> QED BY SMTT(20), <3>1, <4>1, <4>2, <2>1
    <3>2. CASE k # l \/ acks' = acks
      <4>1. acks'[k] = acks[k]
        BY <3>2, <2>1, <1>d
      <4>2. Ak(k)
        BY <1>t
      <4> QED BY <4>1, <4>2, <2>1
    <3> QED BY <3>1, <3>2
  <2>3. Head(acks[l]).epoch \in everInstalled[l]
    BY <1>t, <2>1, ShorterQueue
  <2>4. UNCHANGED active /\ \/ UNCHANGED install
                            \/ install' = ReconciledInstall
                            \/ /\ install' = [ReconciledInstall EXCEPT ![p] = Installed(active)]
                               /\ active # 0 /\ Head(acks[l]).epoch = active
    BY <1>5 DEF AcceptKeyAck, AckRefused, AckConsumed, CanMarkInstalled, coordVars
  <2>5. ASSUME NEW q \in Receivers PROVE St(q)'
    <3>1. CASE UNCHANGED install
      BY <2>1, <2>4, <3>1, <1>t
    <3>2. CASE install'[q] = ReconciledInstall[q]
      BY <2>1, <2>4, <3>2, <1>r
    <3>3. CASE q = p /\ install'[q] = Installed(active) /\ active # 0 /\ Head(acks[l]).epoch = active
      BY <2>1, <2>3, <2>4, <3>3
    <3> QED BY <2>4, <2>p, <3>1, <3>2, <3>3 DEF ReconciledInstall
  <2> QED BY <1>s, <2>2, <2>5
<1>6. ASSUME NEW l \in Links, ConnectionLost(l),
             \A k \in Links : everInstalled[k] \subseteq everInstalled'[k]
      PROVE  \A k \in Links : Ak(k)'
  <2> SUFFICES ASSUME NEW k \in Links PROVE Ak(k)'
    OBVIOUS
  <2>1. PICK n \in 0..Len(acks[l]) : acks' = [acks EXCEPT ![l] = SubSeq(acks[l], 1, n)]
    BY <1>6 DEF ConnectionLost
  <2>2. CASE k = l
    <3>1. acks[l] \in Seq(AckMessages)
      BY <1>d
    <3>2. \A i \in 1..Len(SubSeq(acks[l], 1, n)) : SubSeq(acks[l], 1, n)[i].epoch \in everInstalled[l]
      BY <1>t, <3>1, ShorterQueue
    <3>3. acks'[k] = SubSeq(acks[l], 1, n)
      BY <2>1, <2>2, <1>d
    <3> QED BY <1>6, <2>2, <3>2, <3>3
  <2>3. CASE k # l
    <3>1. acks'[k] = acks[k]
      BY <2>1, <2>3, <1>d
    <3>2. Ak(k)
      BY <1>t
    <3> QED BY <1>6, <3>1, <3>2
  <2> QED BY <2>2, <2>3
<1>7. ASSUME NEW l \in Links, Disconnect(l) \/ StudentClosesSession(l) PROVE InstallInv'
  <2>1. UNCHANGED <<install, active>> /\ ConnectionLost(l)
    BY <1>7 DEF Disconnect, StudentClosesSession, coordVars
  <2>2. \A k \in Links : everInstalled[k] \subseteq everInstalled'[k]
    <3>1. \/ everInstalled' = everInstalled
          \/ everInstalled' = [everInstalled EXCEPT ![l] = everInstalled[l] \cup {Head(grants[l]).epoch}]
      BY <1>7 DEF Disconnect, StudentClosesSession, histVars
    <3> QED BY <3>1, <1>d
  <2> QED BY SMTT(20), <1>s, <1>g, <1>6, <2>1, <2>2
<1>8. ASSUME NEW l \in Links, StudentInstallsKey(l) PROVE InstallInv'
  <2> DEFINE e == Head(grants[l]).epoch
             ack == [tag |-> Head(grants[l]).tag, epoch |-> e, seq |-> studentSeq[l] + 1]
  <2>1. /\ UNCHANGED <<install, active>>
        /\ everInstalled' = [everInstalled EXCEPT ![l] = everInstalled[l] \cup {e}]
        /\ acks' = [acks EXCEPT ![l] = Append(acks[l], ack)]
    BY <1>8 DEF StudentInstallsKey, coordVars
  <2>2. \A k \in Links : everInstalled[k] \subseteq everInstalled'[k]
    BY <2>1, <1>d
  <2>3. ASSUME NEW k \in Links PROVE Ak(k)'
    <3>1. CASE k = l
      <4>1. acks[l] \in Seq(AckMessages) /\ acks'[l] = Append(acks[l], ack)
            /\ everInstalled'[l] = everInstalled[l] \cup {e}
        BY <2>1, <1>d
      <4>2. \A i \in 1..Len(acks'[l]) : IF i <= Len(acks[l]) THEN acks'[l][i] = acks[l][i]
                                                             ELSE acks'[l][i] = ack
        BY <4>1
      <4>3. ack.epoch = e
        OBVIOUS
      <4>4. \A i \in 1..Len(acks'[l]) : acks'[l][i].epoch \in everInstalled'[l]
        <5> SUFFICES ASSUME NEW i \in 1..Len(acks'[l]) PROVE acks'[l][i].epoch \in everInstalled'[l]
          OBVIOUS
        <5>1. CASE i <= Len(acks[l])
          BY <4>1, <4>2, <5>1, <1>t
        <5>2. CASE ~(i <= Len(acks[l]))
          BY <4>1, <4>2, <4>3, <5>2
        <5> QED BY <5>1, <5>2
      <4> QED BY <3>1, <4>4
    <3>2. CASE k # l
      <4>1. acks'[k] = acks[k] /\ everInstalled[k] = everInstalled'[k]
        BY <3>2, <2>1, <1>d
      <4>2. Ak(k)
        BY <1>t
      <4> QED BY <4>1, <4>2
    <3> QED BY <3>1, <3>2
  <2> QED BY <1>s, <1>g, <2>1, <2>2, <2>3
<1>9. CASE \/ UNCHANGED vars
           \/ \E p \in Receivers : ChangeAuthorization(p) \/ RemoveDelivery(p)
           \/ \E l \in Links : Connect(l) \/ RegisterClientSession(l)
  <2>1. UNCHANGED <<install, active, acks, everInstalled>>
    BY <1>9 DEF vars, ChangeAuthorization, Connect, RegisterClientSession, RemoveDelivery,
                coordVars, connVars, histVars
  <2> QED BY SMTT(20), <1>s, <1>f, <1>g, <2>1
<1> QED
  BY <1>1, <1>2, <1>3, <1>4, <1>5, <1>7, <1>8, <1>9 DEF Next, CoordinatorNext

\* The installation facts hold in every reachable state.
LEMMA InstallAlways == Spec => []InstallInv
<1>1. Init => InstallInv
  <2> SUFFICES ASSUME Init PROVE InstallInv
    OBVIOUS
  <2>1. /\ \A p \in Receivers : install[p] = Absent
        /\ \A l \in Links : acks[l] = <<>>
    BY DEF Init
  <2>2. \A l \in Links : 1..Len(acks[l]) = {}
    BY <2>1
  <2> QED BY <2>1, <2>2 DEF InstallInv
<1> QED BY <1>1, InstallStep, GroupMediaTypeOK, PTL DEF Spec

\* The coordinator never records an installation that did not happen, however
\* connections, rotations and acknowledgements interleave.
THEOREM InstalledIsRealHolds == Spec => []InstalledIsReal
<1>1. TypeOK /\ InstallInv => InstalledIsReal
  <2> SUFFICES ASSUME TypeOK, InstallInv, NEW p \in Receivers, install[p].st = "Installed"
               PROVE  /\ install[p].epoch = active
                      /\ \E l \in Links : l[1] = p /\ install[p].epoch \in everInstalled[l]
    BY DEF InstalledIsReal
  <2>1. /\ install[p] = Installed(active)
        /\ \E l \in Links : l[1] = p /\ active \in everInstalled[l]
    BY DEF InstallInv, Absent, AwaitingKey, KeyIssued
  <2>2. install[p].epoch = active
    BY <2>1 DEF Installed
  <2> QED BY <2>1, <2>2
<1> QED BY <1>1, InstallAlways, GroupMediaTypeOK, PTL

\* A receiver becomes installed only through the acknowledgement of the session it
\* is registered with, in which the Student installed the epoch.
THEOREM InstalledInItsSessionHolds == Spec => InstalledInItsSession
<1> DEFINE Counts ==
      \A p \in Receivers :
          install'[p].st = "Installed" /\ install[p].st # "Installed"
          => \E l \in Links : /\ l = <<p, delivery[p].conn>>
                              /\ install'[p].epoch \in everInstalled[l]
<1>1. TypeOK /\ InstallInv /\ [Next]_vars => [Counts]_vars
  <2> SUFFICES ASSUME TypeOK, InstallInv, Next, NEW p \in Receivers,
                      install'[p].st = "Installed", install[p].st # "Installed"
               PROVE  \E l \in Links : /\ l = <<p, delivery[p].conn>>
                                       /\ install'[p].epoch \in everInstalled[l]
    OBVIOUS
  <2>n. /\ Absent.st # "Installed" /\ AwaitingKey.st # "Installed"
        /\ \A e : KeyIssued(e).st # "Installed"
    BY DEF Absent, AwaitingKey, KeyIssued
  <2>r. ReconciledInstall[p].st # "Installed"
    BY <2>n DEF ReconciledInstall
  <2>1. PICK l \in Links : AcceptKeyAck(l)
    <3>1. ASSUME NEW q \in Receivers, RegisterReceiver(q) \/ RemoveReceiver(q) PROVE FALSE
      BY <3>1, <2>n DEF RegisterReceiver, RemoveReceiver, TypeOK
    <3>2. CASE BeginEpoch \/ EndEpoch
      BY <3>2, <2>n DEF BeginEpoch, EndEpoch, AwaitingAll
    <3>3. CASE SealFrame
      BY <3>3, <2>r DEF SealFrame
    <3>4. ASSUME NEW l \in Links, NEW tag \in Tags, SendKey(l, tag) PROVE FALSE
      <4>1. install'[p] = ReconciledInstall[p] \/ install'[p] = KeyIssued(active)
        BY <3>4 DEF SendKey, ReconciledInstall
      <4> QED BY <4>1, <2>r, <2>n
    <3>5. CASE \/ \E q \in Receivers : ChangeAuthorization(q) \/ RemoveDelivery(q)
               \/ \E l \in Links : \/ Connect(l) \/ Disconnect(l) \/ RegisterClientSession(l)
                                   \/ StudentInstallsKey(l) \/ StudentClosesSession(l)
      BY <3>5 DEF ChangeAuthorization, Connect, Disconnect, RegisterClientSession, RemoveDelivery,
                  StudentInstallsKey, StudentClosesSession, coordVars
    <3> QED BY <3>1, <3>2, <3>3, <3>4, <3>5 DEF Next, CoordinatorNext
  <2>2. /\ BoundClient(l)
        /\ install' = [ReconciledInstall EXCEPT ![l[1]] = Installed(active)]
        /\ Head(acks[l]).epoch = active
    <3>1. CASE UNCHANGED install
      BY <3>1
    <3>2. CASE install' = ReconciledInstall
      BY <3>2, <2>r
    <3> QED BY <2>1, <3>1, <3>2 DEF AcceptKeyAck, AckRefused, AckConsumed, CanMarkInstalled, coordVars
  <2>3. p = l[1] /\ install'[p].epoch = active
    BY <2>2, <2>r DEF ReconciledInstall, Installed
  <2>4. l = <<p, delivery[p].conn>>
    BY SMTT(20), <2>2, <2>3, LinkFacts DEF BoundClient
  <2>5. acks[l] # <<>> /\ acks[l] \in Seq(AckMessages)
    BY <2>1 DEF AcceptKeyAck, TypeOK
  <2>6. Head(acks[l]).epoch \in everInstalled[l]
    BY <2>5, ShorterQueue DEF InstallInv
  <2> QED BY <2>2, <2>3, <2>4, <2>6
<1> QED BY <1>1, InstallAlways, GroupMediaTypeOK, PTL DEF Spec, InstalledInItsSession

-----------------------------------------------------------------------------
(* Outstanding acknowledgements.                                           *)

\* Why OutstandingAckAcceptable holds: a pending record never names an epoch
\* that is still to come, so a new epoch cannot match an old record.
PendingInv ==
    /\ \A p \in Receivers : delivery[p].pending.epoch <= lastEpoch
    /\ OutstandingAckAcceptable

\* Every step of the protocol preserves the facts about pending records.
LEMMA PendingStep ==
    TypeOK /\ TypeOK' /\ MembershipInv /\ PendingInv /\ [Next]_vars => PendingInv'
<1> SUFFICES ASSUME TypeOK, TypeOK', MembershipInv, PendingInv, [Next]_vars PROVE PendingInv'
  OBVIOUS
<1> DEFINE Old(q) == delivery[q].pending.epoch <= lastEpoch
           Acc(q) == /\ install[q] # Absent
                     /\ delivery[q].pending.epoch # 0
                     /\ delivery[q].pending.epoch = active
                     /\ ~rotationRequired
                     => install[q] = KeyIssued(active)
<1>s. PendingInv' <=> /\ \A q \in Receivers : Old(q)'
                      /\ \A q \in Receivers : Acc(q)'
  BY DEF PendingInv, OutstandingAckAcceptable, Registered
<1>t. \A q \in Receivers : Old(q) /\ Acc(q)
  BY DEF PendingInv, OutstandingAckAcceptable, Registered
<1>n. /\ lastEpoch \in Nat /\ active \in Nat
      /\ \A q \in Receivers : delivery[q] \in Deliveries
  BY LimitsAssumption DEF TypeOK
<1>m. \A q \in Receivers : delivery[q].pending \in Pendings /\ delivery[q].pending.epoch \in Nat
  BY <1>n DEF Deliveries, Pendings
<1>k. active # 0 => active \in Epochs
  BY LimitsAssumption DEF TypeOK, Epochs
<1>f. ASSUME UNCHANGED <<delivery, lastEpoch>> PROVE \A q \in Receivers : Old(q)'
  BY <1>f, <1>t
<1>r. ASSUME UNCHANGED active, NEW q \in Receivers, install'[q] = ReconciledInstall[q],
             rotationRequired' = ReconciledRotation, delivery'[q] = delivery[q]
      PROVE  Acc(q)'
  BY <1>r, <1>t, ReconcileFacts DEF ReconciledInstall, ReconciledRotation
<1>1. ASSUME NEW p \in Receivers, RegisterReceiver(p) \/ RemoveReceiver(p) PROVE PendingInv'
  <2>1. UNCHANGED <<active, lastEpoch, delivery>> /\ rotationRequired' = (rotationRequired \/ active # 0)
    BY <1>1 DEF RegisterReceiver, RemoveReceiver
  <2>2. \A q \in Receivers : Acc(q)'
    BY <2>1, <1>t, <1>m
  <2> QED BY <1>s, <1>f, <2>1, <2>2
<1>2. CASE BeginEpoch
  <2>1. active' = lastEpoch + 1 /\ lastEpoch' = lastEpoch + 1 /\ delivery' = delivery
    BY <1>2 DEF BeginEpoch
  <2> QED BY <1>s, <1>t, <1>n, <1>m, <2>1
<1>3. CASE EndEpoch
  <2>1. active' = 0 /\ lastEpoch' = lastEpoch /\ delivery' = delivery
    BY <1>3 DEF EndEpoch
  <2> QED BY <1>s, <1>t, <1>f, <2>1
<1>4. CASE SealFrame
  <2>1. /\ UNCHANGED <<active, lastEpoch, delivery>> /\ install' = ReconciledInstall
        /\ rotationRequired' = ReconciledRotation
    BY <1>4 DEF SealFrame
  <2>2. \A q \in Receivers : Acc(q)'
    BY <2>1, <1>r
  <2> QED BY <1>s, <1>f, <2>1, <2>2
<1>5. ASSUME NEW l \in Links, NEW tag \in Tags, SendKey(l, tag) PROVE PendingInv'
  <2> DEFINE p == l[1]
  <2>p. p \in Receivers
    BY LinkFacts
  <2>1. UNCHANGED <<active, lastEpoch>> /\ rotationRequired' = ReconciledRotation
    BY <1>5 DEF SendKey
  <2>2. CASE ~CanIssueKey(p)
    <3>1. UNCHANGED delivery /\ install' = ReconciledInstall
      BY <1>5, <2>2 DEF SendKey
    <3>2. \A q \in Receivers : Acc(q)'
      BY <2>1, <3>1, <1>r
    <3> QED BY <1>s, <1>f, <2>1, <3>1, <3>2
  <2>3. CASE CanIssueKey(p)
    <3> DEFINE m == KeyGrant(tag)
    <3>1. /\ install' = [ReconciledInstall EXCEPT ![p] = KeyIssued(active)]
          /\ delivery' = [delivery EXCEPT ![p] = [delivery[p] EXCEPT !.pending = m]]
      BY <1>5, <2>3 DEF SendKey
    <3>2. delivery'[p].pending.epoch = active /\ \A q \in Receivers : q # p => delivery'[q] = delivery[q]
      BY SMTT(20), <3>1, <2>p, <1>n DEF KeyGrant, TypeOK, Deliveries
    <3>3. install'[p] = KeyIssued(active) /\ \A q \in Receivers : q # p => install'[q] = ReconciledInstall[q]
      BY <3>1, <2>p DEF ReconciledInstall
    <3>4. \A q \in Receivers : Old(q)'
      BY <2>1, <3>2, <1>t, <1>n DEF MembershipInv
    <3>5. \A q \in Receivers : Acc(q)'
      BY <2>1, <3>2, <3>3, <1>r
    <3> QED BY <1>s, <3>4, <3>5
  <2> QED BY <2>2, <2>3
<1>6. ASSUME NEW l \in Links, AcceptKeyAck(l) PROVE PendingInv'
  <2> DEFINE p == l[1]
  <2>p. p \in Receivers
    BY LinkFacts
  <2>1. CASE UNCHANGED <<install, rotationRequired, active, lastEpoch, delivery>>
    BY <1>s, <1>t, <2>1
  <2>2. CASE /\ UNCHANGED <<active, lastEpoch, delivery>> /\ install' = ReconciledInstall
             /\ rotationRequired' = ReconciledRotation
    <3>1. \A q \in Receivers : Acc(q)'
      BY <2>2, <1>r
    <3> QED BY <1>s, <1>f, <2>2, <3>1
  <2>3. CASE /\ UNCHANGED <<active, lastEpoch>>
             /\ install' = [ReconciledInstall EXCEPT ![p] = Installed(active)]
             /\ rotationRequired' = ReconciledRotation
             /\ delivery' = [delivery EXCEPT ![p] = [delivery[p] EXCEPT !.pending = NoPending]]
    <3>1. delivery'[p].pending.epoch = 0 /\ \A q \in Receivers : q # p => delivery'[q] = delivery[q]
      BY SMTT(20), <2>3, <2>p, <1>n DEF TypeOK, Deliveries, NoPending
    <3>2. \A q \in Receivers : q # p => install'[q] = ReconciledInstall[q]
      BY <2>3 DEF ReconciledInstall
    <3>3. \A q \in Receivers : Acc(q)'
      BY <2>3, <3>1, <3>2, <1>r
    <3>4. \A q \in Receivers : Old(q)'
      BY <2>3, <3>1, <1>t, <1>n
    <3> QED BY <1>s, <3>3, <3>4
  <2> QED BY <1>6, <2>1, <2>2, <2>3 DEF AcceptKeyAck, AckRefused, AckConsumed, coordVars
<1>7. ASSUME NEW p \in Receivers, NEW d, d.pending.epoch = 0,
             delivery' = [delivery EXCEPT ![p] = d],
             UNCHANGED <<install, rotationRequired, active, lastEpoch>>
      PROVE  PendingInv'
  <2>1. delivery'[p].pending.epoch = 0 /\ \A q \in Receivers : q # p => delivery'[q] = delivery[q]
    BY <1>7 DEF TypeOK
  <2> QED BY SMTT(20), <1>s, <1>t, <1>n, <1>7, <2>1
<1>8. ASSUME NEW l \in Links, RegisterClientSession(l) PROVE PendingInv'
  <2> DEFINE d == [conn |-> l[2], pending |-> NoPending]
  <2>1. delivery' = [delivery EXCEPT ![l[1]] = d] /\ UNCHANGED <<install, rotationRequired, active, lastEpoch>>
    BY <1>8 DEF RegisterClientSession, coordVars
  <2>2. d.pending.epoch = 0 /\ l[1] \in Receivers
    BY LinkFacts DEF NoPending
  <2> QED BY <1>7, <2>1, <2>2
<1>9. ASSUME NEW p \in Receivers, RemoveDelivery(p) PROVE PendingInv'
  <2>1. delivery' = [delivery EXCEPT ![p] = NoDelivery] /\ UNCHANGED <<install, rotationRequired, active, lastEpoch>>
    BY <1>9 DEF RemoveDelivery, coordVars
  <2>2. NoDelivery.pending.epoch = 0
    BY DEF NoDelivery, NoPending
  <2> QED BY <1>7, <2>1, <2>2
<1>10. CASE \/ UNCHANGED vars
            \/ \E p \in Receivers : ChangeAuthorization(p)
            \/ \E l \in Links : \/ Connect(l) \/ Disconnect(l)
                                \/ StudentInstallsKey(l) \/ StudentClosesSession(l)
  <2>1. UNCHANGED <<install, rotationRequired, active, lastEpoch, delivery>>
    BY <1>10 DEF vars, ChangeAuthorization, Connect, Disconnect, StudentInstallsKey,
                 StudentClosesSession, coordVars
  <2> QED BY <1>s, <1>t, <2>1
<1> QED
  BY <1>1, <1>2, <1>3, <1>4, <1>5, <1>6, <1>8, <1>9, <1>10 DEF Next, CoordinatorNext

\* The delivery manager's outstanding acknowledgement and the coordinator's
\* state never drift apart while the active epoch is settled.
THEOREM OutstandingAckAcceptableHolds == Spec => []OutstandingAckAcceptable
<1>1. Init => PendingInv
  BY SMTT(20) DEF Init, PendingInv, OutstandingAckAcceptable, Registered, NoDelivery, NoPending
<1>2. PendingInv => OutstandingAckAcceptable
  BY DEF PendingInv
<1> QED BY <1>1, <1>2, PendingStep, MembershipAlways, GroupMediaTypeOK, PTL DEF Spec

-----------------------------------------------------------------------------
(* Pending records and the registration they belong to.                    *)

\* A receiver that is not registered for delivery has no pending record.
PendingIsRegistered ==
    \A p \in Receivers : delivery[p].conn = 0 => delivery[p].pending.epoch = 0

\* What a step can do to one delivery session: nothing, a registration or its end, the
\* record of a grant, or the acknowledgement that installs the active epoch.
DeliveryEffect(p) ==
    \/ UNCHANGED delivery
    \/ /\ delivery[p].conn = 0
       /\ \E c \in 1..MaxConn : delivery' = [delivery EXCEPT ![p] = [conn |-> c, pending |-> NoPending]]
    \/ delivery' = [delivery EXCEPT ![p] = NoDelivery]
    \/ /\ delivery[p].conn # 0 /\ active # 0
       /\ \E tag \in Tags :
             delivery' = [delivery EXCEPT ![p] = [delivery[p] EXCEPT !.pending = KeyGrant(tag)]]
    \/ /\ delivery[p].conn # 0 /\ delivery[p].pending.epoch = active
       /\ install' = [ReconciledInstall EXCEPT ![p] = Installed(active)]
       /\ delivery' = [delivery EXCEPT ![p] = [delivery[p] EXCEPT !.pending = NoPending]]

\* Every step has one of these effects, on one receiver.
LEMMA StepEffect ==
    ASSUME TypeOK, [Next]_vars PROVE UNCHANGED delivery \/ \E p \in Receivers : DeliveryEffect(p)
<1>1. CASE CoordinatorNext \/ UNCHANGED vars
  BY SMTT(20), <1>1 DEF CoordinatorNext, RegisterReceiver, RemoveReceiver, BeginEpoch, EndEpoch, SealFrame, vars
<1>2. CASE \/ \E p \in Receivers : ChangeAuthorization(p)
           \/ \E l \in Links : \/ Connect(l) \/ Disconnect(l)
                               \/ StudentInstallsKey(l) \/ StudentClosesSession(l)
  BY <1>2 DEF ChangeAuthorization, Connect, Disconnect, StudentInstallsKey, StudentClosesSession
<1>3. ASSUME NEW p \in Receivers, RemoveDelivery(p) PROVE DeliveryEffect(p)
  BY <1>3 DEF RemoveDelivery, DeliveryEffect
<1>4. ASSUME NEW l \in Links, RegisterClientSession(l) PROVE \E p \in Receivers : DeliveryEffect(p)
  <2>1. l[1] \in Receivers /\ l[2] \in 1..MaxConn
    BY LinkFacts
  <2>2. DeliveryEffect(l[1])
    BY <1>4, <2>1 DEF RegisterClientSession, DeliveryEffect
  <2> QED BY <2>1, <2>2
<1>5. ASSUME NEW l \in Links, NEW tag \in Tags, SendKey(l, tag) PROVE \E p \in Receivers : DeliveryEffect(p)
  <2> DEFINE p == l[1]
  <2>p. p \in Receivers /\ l[2] # 0
    BY LinkFacts
  <2>1. CASE UNCHANGED delivery
    BY <2>p, <2>1 DEF DeliveryEffect
  <2>2. CASE CanIssueKey(p) /\ delivery' = [delivery EXCEPT ![p].pending = KeyGrant(tag)]
    <3>1. active # 0 /\ delivery[p].conn # 0
      BY <1>5, <2>2, <2>p DEF CanIssueKey, SendKey, BoundClient
    <3>2. delivery' = [delivery EXCEPT ![p] = [delivery[p] EXCEPT !.pending = KeyGrant(tag)]]
      BY <2>2
    <3>3. DeliveryEffect(p)
      BY <3>1, <3>2 DEF DeliveryEffect
    <3> QED BY <2>p, <3>3
  <2> QED BY <1>5, <2>1, <2>2 DEF SendKey
<1>6. ASSUME NEW l \in Links, AcceptKeyAck(l) PROVE \E p \in Receivers : DeliveryEffect(p)
  <2> DEFINE p == l[1]
  <2>p. p \in Receivers /\ l[2] # 0
    BY LinkFacts
  <2>1. CASE UNCHANGED delivery
    BY <2>p, <2>1 DEF DeliveryEffect
  <2>2. CASE /\ BoundClient(l) /\ CanMarkInstalled(p, delivery[p].pending.epoch)
             /\ install' = [ReconciledInstall EXCEPT ![p] = Installed(active)]
             /\ delivery' = [delivery EXCEPT ![p].pending = NoPending]
    <3>1. delivery[p].conn # 0 /\ delivery[p].pending.epoch = active
      BY <2>2, <2>p DEF BoundClient, CanMarkInstalled
    <3>2. delivery' = [delivery EXCEPT ![p] = [delivery[p] EXCEPT !.pending = NoPending]]
      BY <2>2
    <3>3. DeliveryEffect(p)
      BY <2>2, <3>1, <3>2 DEF DeliveryEffect
    <3> QED BY <2>p, <3>3
  <2> QED BY <1>6, <2>1, <2>2 DEF AcceptKeyAck, AckRefused, AckConsumed
<1> QED BY <1>1, <1>2, <1>3, <1>4, <1>5, <1>6 DEF Next

\* Records of receivers that are not registered stay empty, and a record that goes
\* while its receiver stays was the active epoch's, which is then installed.
LEMMA EffectIsSound ==
    ASSUME TypeOK, PendingIsRegistered, NEW p \in Receivers, DeliveryEffect(p)
    PROVE  /\ PendingIsRegistered'
           /\ \A q \in Receivers :
                 /\ delivery[q].pending.epoch # 0 /\ delivery'[q].pending.epoch = 0
                 /\ delivery'[q].conn # 0
                 => /\ delivery[q].pending.epoch = active
                    /\ install'[q] = Installed(active)
<1>n. NoPending.epoch = 0 /\ NoDelivery.conn = 0 /\ NoDelivery.pending.epoch = 0
  BY DEF NoPending, NoDelivery
<1>t. /\ \A q \in Receivers : delivery[q] \in [conn : 0..MaxConn, pending : Pendings]
      /\ DOMAIN delivery = Receivers
  BY DEF TypeOK, Deliveries
<1>1. CASE UNCHANGED delivery
  BY <1>1 DEF PendingIsRegistered
<1>2. CASE /\ delivery[p].conn = 0
           /\ \E c \in 1..MaxConn : delivery' = [delivery EXCEPT ![p] = [conn |-> c, pending |-> NoPending]]
  BY <1>2, <1>n, <1>t DEF PendingIsRegistered
<1>3. CASE delivery' = [delivery EXCEPT ![p] = NoDelivery]
  BY <1>3, <1>n, <1>t DEF PendingIsRegistered
<1>4. CASE /\ delivery[p].conn # 0 /\ active # 0
           /\ \E tag \in Tags :
                 delivery' = [delivery EXCEPT ![p] = [delivery[p] EXCEPT !.pending = KeyGrant(tag)]]
  <2>1. PICK tag \in Tags :
           delivery' = [delivery EXCEPT ![p] = [delivery[p] EXCEPT !.pending = KeyGrant(tag)]]
    BY <1>4
  <2>2. KeyGrant(tag).epoch = active
    BY DEF KeyGrant
  <2>3. /\ delivery'[p].conn # 0 /\ delivery'[p].pending.epoch # 0
        /\ \A q \in Receivers : q # p => delivery'[q] = delivery[q]
    BY <1>4, <2>1, <2>2, <1>t
  <2> QED BY <2>3 DEF PendingIsRegistered
<1>5. CASE /\ delivery[p].conn # 0 /\ delivery[p].pending.epoch = active
           /\ install' = [ReconciledInstall EXCEPT ![p] = Installed(active)]
           /\ delivery' = [delivery EXCEPT ![p] = [delivery[p] EXCEPT !.pending = NoPending]]
  <2>1. /\ delivery'[p].conn # 0
        /\ \A q \in Receivers : q # p => delivery'[q] = delivery[q]
    BY <1>5, <1>t
  <2>2. install'[p] = Installed(active)
    BY <1>5 DEF ReconciledInstall
  <2> QED BY <1>5, <2>1, <2>2 DEF PendingIsRegistered
<1> QED BY <1>1, <1>2, <1>3, <1>4, <1>5 DEF DeliveryEffect

\* A pending acknowledgement disappears only with the receiver's registration or by the
\* installation of the active epoch: no refused, repeated or late acknowledgement, no
\* rotation and no failed write clears it (accept_key_ack, send_key).
THEOREM PendingClearedOnlyByInstallHolds == Spec => PendingClearedOnlyByInstall
<1> DEFINE Cleared ==
      \A p \in Receivers :
          /\ delivery[p].pending.epoch # 0
          /\ delivery'[p].pending.epoch = 0
          /\ delivery'[p].conn # 0
          => /\ delivery[p].pending.epoch = active
             /\ install'[p] = Installed(active)
<1>1. Init => PendingIsRegistered
  BY DEF Init, PendingIsRegistered, NoDelivery, NoPending
<1>2. TypeOK /\ PendingIsRegistered /\ [Next]_vars => PendingIsRegistered' /\ Cleared
  <2> SUFFICES ASSUME TypeOK, PendingIsRegistered, [Next]_vars PROVE PendingIsRegistered' /\ Cleared
    OBVIOUS
  <2>1. CASE UNCHANGED delivery
    BY SMTT(20), <2>1 DEF PendingIsRegistered
  <2>2. CASE \E p \in Receivers : DeliveryEffect(p)
    BY SMTT(20), <2>2, EffectIsSound
  <2> QED BY <2>1, <2>2, StepEffect
<1>3. TypeOK /\ PendingIsRegistered /\ [Next]_vars => [Cleared]_vars
  BY <1>2
<1> QED BY <1>1, <1>2, <1>3, GroupMediaTypeOK, PTL DEF Spec, PendingClearedOnlyByInstall

=============================================================================
