SPECIFICATION Spec
CONSTANTS
    Slots <- DmSlots
    KindOf <- DmKinds
    Parents <- DmParents
    ReplyTo <- DmReplies
    Attached = {}
    Seeded = {"d", "m"}
    Writers = {"main", "edge"}
    Deletable = {}
    SnapshotOrder <- DmOrder
    BatchSize = 2
    MaxWrites = 3
    MaxFaults = 0
    MaxSnapshots = 0
PROPERTIES
    EdgeEditsBuildOnMain
CHECK_DEADLOCK FALSE
