SPECIFICATION FairSpec
CONSTANTS
    Receivers = {r1}
    MaxReceivers = 1
    MaxDelivery = 1
    EpochLimit = 2
    Tags = {t1, t2}
    MaxConn = 2
    MaxGrants = 2
INVARIANTS TypeOK SealAudience HoldersWereMembers InstalledIsReal OutstandingAckAcceptable
PROPERTIES PendingClearedOnlyByInstall InstalledInItsSession NewEpochHasNoHolders KeyDeliveryResolves
