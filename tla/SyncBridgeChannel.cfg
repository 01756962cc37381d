\* A channel, a message with an attachment and a reply; a fault and a snapshot
SPECIFICATION FairSpec
CONSTANTS
    Slots <- ChannelSlots
    KindOf <- ChannelKinds
    Parents <- ChannelParents
    ReplyTo <- ChannelReplies
    Attached = {"m"}
    Seeded = {"c"}
    Writers = {"main", "edge"}
    Deletable = {"c", "m"}
    SnapshotOrder <- ChannelOrder
    BatchSize = 2
    MaxWrites = 2
    MaxFaults = 1
    MaxSnapshots = 1
INVARIANTS
    ReferencesHold
    StableContentIsMains
PROPERTIES
    VersionsNeverRegress
    EventsSettle
CHECK_DEADLOCK FALSE
