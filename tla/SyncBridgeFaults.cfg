\* Any two of: a lost post, a restart, an apply that raises; and a snapshot
SPECIFICATION Spec
CONSTANTS
    Slots <- ReactionSlots
    KindOf <- ReactionKinds
    Parents <- ReactionParents
    ReplyTo <- ReactionReplies
    Attached = {}
    Seeded = {"m"}
    Writers = {"main", "edge"}
    Deletable = {"r"}
    SnapshotOrder <- ReactionOrder
    BatchSize = 2
    MaxWrites = 2
    MaxFaults = 2
    MaxSnapshots = 1
INVARIANTS
    SenderAgreesWithLedger
    AppliedAtMostOnce
    NoReplicationStorm
    QuietMeansConverged
PROPERTIES
    ImplementsDelivery
CHECK_DEADLOCK FALSE
