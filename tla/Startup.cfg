SPECIFICATION FairSpec
CONSTANTS
    Nil = Nil
    Width <- SmallWidth
    Acls <- SmallAcls
    Addrs <- SmallAddrs
    TLSModes = {"off", "server", "mutual"}
    Identities <- SmallIdentities
    dbs <- SmallDbs
    Certs <- SmallCerts
    Answers = {"S", "N"}
    MaxPackets = 3
CHECK_DEADLOCK FALSE
INVARIANTS
    TypeOK
    ChannelKept
    NothingLost
    BackendAsPermitted
    StartupOnlyToVerified
    RefusalTold
PROPERTY StartupEnds
