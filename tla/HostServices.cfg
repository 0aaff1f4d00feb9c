CONSTANTS
    b1 = b1
    b2 = b2
    v1 = v1
    w1 = w1
    w2 = w2
    n1 = n1
    n2 = n2
    r1 = r1
    r2 = r2
    nil = nil
    Workers <- TwoWorkers
    BrokerScopes <- Brokers
    GuestKeys = {1, 2}
    Conns = {1, 2}
    GatewayScopes <- Gateways
SPECIFICATION MCSpec
INVARIANTS
    DiskExclusive
    VolumeKept
    RecordIsTrue
    ImageCharged
    VerdictIsTrue
    ImageOutlivesVolumes
    WorkersKnown
    SnapshotsKept
    NoStraySignal
    StreamsKept
    ReceiptFits
    RelayFaithful
    DialsBounded
CHECK_DEADLOCK FALSE
