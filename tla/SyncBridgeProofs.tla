-------------------------- MODULE SyncBridgeProofs --------------------------
(***************************************************************************)
(* For every set of slots, every number of writes, faults and snapshots:   *)
(* the bridge keeps the types of its state, the sender never disagrees     *)
(* with the peer's ledger, no event takes effect twice, and the bridge     *)
(* implements Delivery; no row is without its owners, no version goes      *)
(* back, main's stable content is main's own, a write costs at most two    *)
(* events, and rows that are not disputed converge.                        *)
(***************************************************************************)
EXTENDS SyncBridge, TLAPS, FiniteSetTheorems

-----------------------------------------------------------------------------
(* Types                                                                    *)

(* What a step may do to the outboxes: nothing, or add one pending event.   *)
Grows ==
    \/ UNCHANGED <<log, row>>
    \/ \E e \in Event :
          /\ Len(log) < MaxEvents
          /\ log' = Append(log, e)
          /\ row' = [row EXCEPT ![Len(log) + 1] = "pending"]

LogType ==
    /\ log \in Seq(Event)
    /\ Len(log) <= MaxEvents
    /\ row \in [EventId -> RowStatus]

LEMMA MaxEventsNat == MaxEvents \in Nat
BY BoundsAssumption DEF MaxEvents

LEMMA GrowsType == LogType /\ Grows => LogType'
<1> SUFFICES ASSUME LogType, Grows PROVE LogType'
    OBVIOUS
<1>1. CASE UNCHANGED <<log, row>>
    BY <1>1 DEF LogType
<1>2. ASSUME NEW e \in Event, Len(log) < MaxEvents, log' = Append(log, e),
             row' = [row EXCEPT ![Len(log) + 1] = "pending"]
      PROVE  LogType'
    <2>1. log' \in Seq(Event) /\ Len(log') = Len(log) + 1
        BY <1>2 DEF LogType
    <2>2. row' \in [EventId -> RowStatus]
        BY <1>2 DEF LogType, RowStatus
    <2> QED
        BY <1>2, <2>1, <2>2, MaxEventsNat DEF LogType
<1> QED
    BY <1>1, <1>2 DEF Grows

(* An event that is enqueued or dropped leaves the outboxes well-formed.    *)
LEMMA EnqueueGrows == \A e \in Event : Enqueue(e) => Grows
BY DEF Enqueue, Grows

StoreType == store \in [Node -> [Slots -> Row]]

LEMMA RowParts ==
    StoreType =>
        \A n \in Node, s \in Slots :
            /\ store[n][s] \in Row
            /\ store[n][s].gen \in Gen
            /\ store[n][s].ver \in Nat
            /\ store[n][s].val \in Value
BY DEF StoreType, Row

LEMMA SeedType == Seed \in Row /\ Absent \in Row /\ Absent.val \in Value
BY BoundsAssumption DEF Seed, Absent, Row, Gen, Value, Node

LEMMA PutType ==
    ASSUME StoreType, NEW n \in Node, NEW s \in Slots, NEW r \in Row
    PROVE  Put(n, s, r) \in [Node -> [Slots -> Row]]
BY DEF Put, StoreType

LEMMA WithoutType ==
    ASSUME StoreType, NEW n \in Node, NEW s \in Slots
    PROVE  Without(n, s) \in [Node -> [Slots -> Row]]
BY SeedType DEF Without, StoreType

(* The sync_ids in the payload of an existing or a new row.                 *)
LEMMA NeedsType ==
    ASSUME StoreType, NEW n \in Node, NEW s \in Slots
    PROVE  Needs(n, s) \in SUBSET (Slots \X Gen)
<1>1. Parents[s] \subseteq Slots /\ ReplyTo[s] \subseteq Slots
    BY SlotsAssumption
<1> QED
    BY <1>1, RowParts DEF Needs

LEMMA AppliedType ==
    ASSUME StoreType, NEW m \in Node, NEW e \in Event
    PROVE  Applied(m, e) \in [Node -> [Slots -> Row]]
<1>1. e.slot \in Slots /\ e.gen \in Gen /\ e.ver \in Nat /\ e.val \in Value
    BY DEF Event
<1>2. [gen |-> e.gen, ver |-> AtLeastOne(e.ver), val |-> e.val] \in Row
    BY <1>1 DEF Row, AtLeastOne
<1> QED
    BY <1>1, <1>2, PutType, WithoutType DEF Applied

LEMMA EchoType ==
    ASSUME StoreType, TypeOK, NEW m \in Node, NEW e \in Event
    PROVE  Echo(m, e) \in Event
<1>1. e.slot \in Slots /\ e.ver \in Nat /\ BeginOf(writes) + 1 \in Nat
    BY DEF Event, TypeOK, Gen, BeginOf
<1>2. store[m][e.slot].ver \in Nat
    BY <1>1, RowParts
<1>3. AtLeastOne(e.ver) \in Nat /\ AtLeastOne(e.ver) - 1 \in Nat
    BY <1>1 DEF AtLeastOne
<1> QED
    BY <1>1, <1>2, <1>3 DEF Echo, Event

LEMMA SnapshotEventType ==
    ASSUME StoreType, NEW s \in Slots, Present("main", s)
    PROVE  SnapshotEvent(s) \in Event
<1>1. "main" \in Node
    BY DEF Node
<1>2. store["main"][s].ver - 1 \in Nat
    BY <1>1, RowParts DEF Present
<1> QED
    BY <1>1, <1>2, RowParts, NeedsType DEF SnapshotEvent, Event

LEMMA VerdictType ==
    ASSUME NEW m, NEW e
    PROVE  Verdict(m, e) \in {"gone", "applied", "rejected", "duplicate", "deferred"}
<1>1. DeleteVerdict(m, e) \in {"gone", "rejected", "applied"}
    BY DEF DeleteVerdict
<1>2. UpsertVerdict(m, e) \in {"deferred", "rejected", "duplicate", "applied"}
    BY DEF UpsertVerdict
<1> QED
    BY <1>1, <1>2 DEF Verdict

-----------------------------------------------------------------------------
(* Applying an event                                                        *)

LEMMA LogAt == TypeOK => \A i \in 1 .. Len(log) : i \in EventId /\ log[i] \in Event
<1> SUFFICES ASSUME TypeOK, NEW i \in 1 .. Len(log) PROVE i \in EventId /\ log[i] \in Event
    OBVIOUS
<1>1. log \in Seq(Event) /\ Len(log) <= MaxEvents
    BY DEF TypeOK
<1> QED
    BY <1>1, MaxEventsNat DEF EventId

LEMMA TypeParts == TypeOK => StoreType /\ LogType
BY DEF TypeOK, StoreType, LogType

(* Applying event i on node m changes no decision but that on i, makes it   *)
(* at most once, and the answer it gives is the decision.                   *)
LEMMA ApplyEffect ==
    ASSUME TypeOK, NEW m \in Node, NEW i \in 1 .. Len(log), Apply(m, i)
    PROVE  /\ Grows
           /\ store' \in [Node -> [Slots -> Row]]
           /\ ledger' \in [EventId -> Status]
           /\ effects' \in [EventId -> Nat]
           /\ \A j \in EventId : ledger'[j] = ledger[j] \/ (j = i /\ ledger[j] = "none")
           /\ \A j \in EventId :
                 effects'[j] = IF ledger'[j] = "applied" /\ ledger[j] = "none"
                               THEN effects[j] + 1 ELSE effects[j]
           /\ Answer(m, i) \in {"applied", "duplicate"}
                 => ledger'[i] \in {"applied", "duplicate"} \/ log[i].act = "delete"
           /\ Answer(m, i) = "rejected" => ledger'[i] = "rejected"
           /\ Answer(m, i) \in Result \ {"none"}
<1>1. i \in EventId /\ log[i] \in Event /\ StoreType
    BY LogAt, TypeParts
<1>2. ledger \in [EventId -> Status] /\ effects \in [EventId -> Nat] /\ store \in [Node -> [Slots -> Row]]
    BY DEF TypeOK
<1>3. Verdict(m, log[i]) \in {"gone", "applied", "rejected", "duplicate", "deferred"}
    BY VerdictType
<1>4. Verdict(m, log[i]) = "gone" => log[i].act = "delete"
    BY DEF Verdict, UpsertVerdict
<1>5. Answer(m, i) \in Result \ {"none"}
    BY <1>1, <1>2, <1>3 DEF Answer, Known, Result, Status
<1>6. CASE /\ Known(i) \/ Verdict(m, log[i]) \in {"gone", "deferred"}
           /\ UNCHANGED <<store, log, row, ledger, effects>>
    <2>1. Answer(m, i) \in {"applied", "duplicate"}
            => ledger[i] \in {"applied", "duplicate"} \/ log[i].act = "delete"
        BY <1>4, <1>6 DEF Answer, Known
    <2>2. Answer(m, i) = "rejected" => ledger[i] = "rejected"
        BY <1>6 DEF Answer, Known
    <2> QED
        BY <1>2, <1>5, <1>6, <2>1, <2>2 DEF Grows
<1>7. CASE /\ ~Known(i)
           /\ Verdict(m, log[i]) \in {"rejected", "duplicate"}
           /\ ledger' = [ledger EXCEPT ![i] = Verdict(m, log[i])]
           /\ UNCHANGED <<store, log, row, effects>>
    BY <1>1, <1>2, <1>5, <1>7 DEF Answer, Known, Status, Grows
<1>8. CASE /\ ~Known(i)
           /\ Verdict(m, log[i]) = "applied"
           /\ ledger' = [ledger EXCEPT ![i] = "applied"]
           /\ effects' = [effects EXCEPT ![i] = @ + 1]
           /\ store' = Applied(m, log[i])
           /\ IF Echoes(m, log[i]) THEN Enqueue(Echo(m, log[i])) ELSE UNCHANGED <<log, row>>
    <2>1. Grows
        BY <1>1, <1>8, EchoType, EnqueueGrows DEF Grows
    <2>2. store' \in [Node -> [Slots -> Row]]
        BY <1>1, <1>8, AppliedType
    <2>3. ledger' \in [EventId -> Status] /\ effects' \in [EventId -> Nat]
        BY <1>1, <1>2, <1>8 DEF Status
    <2>4. Answer(m, i) = "applied"
        BY <1>8 DEF Answer
    <2> QED
        BY <1>1, <1>2, <1>5, <1>8, <2>1, <2>2, <2>3, <2>4 DEF Known
<1> QED
    BY <1>6, <1>7, <1>8 DEF Apply

-----------------------------------------------------------------------------
(* How the invariant survives a growing log and an applied event            *)

LEMMA GrowsFrame ==
    ASSUME TypeOK, LogInv, Grows
    PROVE  /\ Len(log) <= Len(log')
           /\ \A i \in 1 .. Len(log) : i \in EventId /\ i \in 1 .. Len(log')
                                      /\ log'[i] = log[i] /\ row'[i] = row[i]
           /\ \A i \in EventId : row'[i] = row[i] \/ (row[i] = "none" /\ row'[i] = "pending")
           /\ \A i \in EventId : row'[i] = "none" <=> i > Len(log')
<1>1. log \in Seq(Event) /\ Len(log) \in Nat /\ row \in [EventId -> RowStatus]
    BY DEF TypeOK
<1>2. \A i \in 1 .. Len(log) : i \in EventId
    BY LogAt
<1>3. CASE UNCHANGED <<log, row>>
    BY <1>1, <1>2, <1>3 DEF LogInv
<1>4. ASSUME NEW e \in Event, Len(log) < MaxEvents, log' = Append(log, e),
             row' = [row EXCEPT ![Len(log) + 1] = "pending"]
      PROVE  /\ Len(log) <= Len(log')
             /\ \A i \in 1 .. Len(log) : i \in EventId /\ i \in 1 .. Len(log')
                                        /\ log'[i] = log[i] /\ row'[i] = row[i]
             /\ \A i \in EventId : row'[i] = row[i] \/ (row[i] = "none" /\ row'[i] = "pending")
             /\ \A i \in EventId : row'[i] = "none" <=> i > Len(log')
    <2>1. Len(log') = Len(log) + 1 /\ \A i \in 1 .. Len(log) : log'[i] = log[i]
        BY <1>1, <1>4
    <2>2. Len(log) + 1 \in EventId
        BY <1>1, <1>4, MaxEventsNat DEF EventId
    <2> QED
        BY <1>1, <1>2, <1>4, <2>1, <2>2 DEF LogInv, EventId
<1> QED
    BY <1>3, <1>4 DEF Grows

(* A post that stays as it is remains sound while the log grows and         *)
(* decisions are made, as long as its own rows are left alone.              *)
LEMMA CallFrame ==
    ASSUME TypeOK, NEW n \in Node, CallInv(n), call'[n] = call[n],
           Len(log) <= Len(log'), Len(log') \in Nat,
           \A i \in call[n].batch : log'[i] = log[i] /\ row'[i] = row[i],
           \A i \in EventId : ledger[i] # "none" => ledger'[i] = ledger[i]
    PROVE  CallInv(n)'
<1>1. call[n].batch \subseteq EventId
    BY DEF TypeOK, CallType
<1>2. Len(log) \in Nat
    BY DEF TypeOK
<1>3. call'[n].batch \subseteq 1 .. Len(log')
    BY <1>2 DEF CallInv
<1> QED
    BY <1>1, <1>3 DEF CallInv

LEMMA ApplyKeeps ==
    ASSUME TypeOK, DeliveryInv, NEW m \in Node, NEW i \in 1 .. Len(log), Apply(m, i)
    PROVE  /\ LogInv'
           /\ SettledInv'
           /\ \A n \in Node : call'[n] = call[n] => CallInv(n)'
           /\ \A S : S \subseteq 1 .. Len(log) => S \subseteq 1 .. Len(log')
<1>1. Len(log) \in Nat /\ Len(log') \in Nat /\ i \in EventId
    BY ApplyEffect, GrowsType, TypeParts, LogAt DEF LogType
<1>2. /\ Len(log) <= Len(log')
      /\ \A j \in 1 .. Len(log) : log'[j] = log[j] /\ row'[j] = row[j]
      /\ \A j \in EventId : row'[j] = row[j] \/ (row[j] = "none" /\ row'[j] = "pending")
      /\ \A j \in EventId : row'[j] = "none" <=> j > Len(log')
    BY ApplyEffect, GrowsFrame DEF DeliveryInv
<1>3. \A j \in EventId : ledger'[j] = ledger[j] \/ (j = i /\ ledger[j] = "none")
    BY ApplyEffect
<1>4. LogInv'
    <2>1. \A j \in EventId : ledger'[j] # "none" => j <= Len(log')
        BY <1>1, <1>2, <1>3 DEF DeliveryInv, LogInv, EventId
    <2>2. \A j \in EventId : effects'[j] = IF ledger'[j] = "applied" THEN 1 ELSE 0
        BY <1>3, ApplyEffect DEF DeliveryInv, LogInv
    <2> QED
        BY <1>2, <2>1, <2>2 DEF LogInv
<1>5. SettledInv'
    <2> SUFFICES ASSUME NEW j \in EventId
                 PROVE  /\ row'[j] = "dead" => ledger'[j] = "rejected"
                        /\ row'[j] = "delivered"
                              => ledger'[j] \in {"applied", "duplicate"} \/ log'[j].act = "delete"
        BY DEF SettledInv
    <2>1. CASE j \in 1 .. Len(log)
        BY <1>2, <1>3, <2>1 DEF DeliveryInv, SettledInv
    <2>2. CASE j \notin 1 .. Len(log)
        <3>1. row[j] = "none"
            BY <1>1, <2>2, MaxEventsNat DEF DeliveryInv, LogInv, EventId
        <3> QED
            BY <1>2, <3>1
    <2> QED
        BY <2>1, <2>2
<1>6. ASSUME NEW n \in Node, call'[n] = call[n] PROVE CallInv(n)'
    <2>1. CallInv(n) /\ call[n].batch \subseteq 1 .. Len(log)
        BY DEF DeliveryInv, CallInv
    <2> QED
        BY <1>1, <1>2, <1>3, <1>6, <2>1, CallFrame
<1> QED
    BY <1>1, <1>2, <1>4, <1>5, <1>6

-----------------------------------------------------------------------------
(* The inductive invariant: the types and DeliveryInv.                      *)

IInv == TypeOK /\ DeliveryInv

LEMMA NoCallType == NoCall \in CallType
BY DEF NoCall, CallType, Result, Status

LEMMA InitInv == Init => IInv
<1> SUFFICES ASSUME Init PROVE IInv
    OBVIOUS
<1>1. TypeOK
    <2>1. log \in Seq(Event) /\ Len(log) = 0
        BY DEF Init
    <2>2. store \in [Node -> [Slots -> Row]]
        BY SeedType DEF Init
    <2>3. row \in [EventId -> RowStatus] /\ ledger \in [EventId -> Status] /\ effects \in [EventId -> Nat]
        BY DEF Init, RowStatus, Status
    <2>4. call \in [Node -> CallType] /\ orphans \in [Node -> SUBSET (SUBSET EventId)]
        BY NoCallType DEF Init
    <2>5. snap \in SnapType
        BY DEF Init, Idle, SnapType
    <2>7. open \subseteq Request /\ overlapped \subseteq Slots
        BY DEF Init
    <2>6. writes \in Gen /\ born \subseteq Slots /\ faults \in 0 .. MaxFaults /\ snaps \in 0 .. MaxSnapshots
        BY SlotsAssumption, BoundsAssumption DEF Init, Gen
    <2> QED
        BY <2>1, <2>2, <2>3, <2>4, <2>5, <2>6, <2>7, MaxEventsNat DEF TypeOK
<1>2. ASSUME NEW n \in Node PROVE CallInv(n)
    BY DEF Init, CallInv, NoCall
<1>3. LogInv /\ SettledInv /\ OrphanInv
    BY MaxEventsNat DEF Init, LogInv, SettledInv, OrphanInv, EventId
<1> QED
    BY <1>1, <1>2, <1>3 DEF IInv, DeliveryInv

(* What a request does: it may change a row and add an event.               *)
LEMMA WriteInv ==
    ASSUME IInv, Grows, store' \in [Node -> [Slots -> Row]],
           open' \subseteq Request, overlapped' \subseteq Slots, writes' \in Gen, born' \subseteq Slots,
           UNCHANGED <<ledger, effects, call, orphans, snap, faults, snaps>>
    PROVE  IInv'
<1>1. TypeOK /\ DeliveryInv
    BY DEF IInv
<1>2. LogType'
    BY <1>1, TypeParts, GrowsType
<1>3. TypeOK'
    BY <1>1, <1>2 DEF TypeOK, LogType
<1>4. /\ Len(log) <= Len(log') /\ Len(log) \in Nat /\ Len(log') \in Nat
      /\ \A i \in 1 .. Len(log) : log'[i] = log[i] /\ row'[i] = row[i]
      /\ \A i \in EventId : row'[i] = row[i] \/ (row[i] = "none" /\ row'[i] = "pending")
      /\ \A i \in EventId : row'[i] = "none" <=> i > Len(log')
    BY <1>1, <1>2, GrowsFrame DEF DeliveryInv, LogType, TypeOK
<1>5. LogInv'
    BY <1>1, <1>4 DEF DeliveryInv, LogInv, EventId
<1>6. SettledInv'
    <2> SUFFICES ASSUME NEW i \in EventId, row'[i] \in {"dead", "delivered"}
                 PROVE  /\ row'[i] = "dead" => ledger[i] = "rejected"
                        /\ row'[i] = "delivered"
                              => ledger[i] \in {"applied", "duplicate"} \/ log'[i].act = "delete"
        BY DEF SettledInv
    <2>1. row'[i] = row[i] /\ i \in 1 .. Len(log)
        BY <1>1, <1>4, MaxEventsNat DEF DeliveryInv, LogInv, EventId
    <2> QED
        BY <1>1, <1>4, <2>1 DEF DeliveryInv, SettledInv
<1>7. ASSUME NEW m \in Node PROVE CallInv(m)'
    <2>1. CallInv(m) /\ call[m].batch \subseteq 1 .. Len(log) /\ call'[m] = call[m] /\ ledger' = ledger
        BY <1>1 DEF DeliveryInv, CallInv
    <2> QED
        BY <1>1, <1>4, <2>1, CallFrame
<1>8. OrphanInv'
    BY <1>1, <1>4 DEF DeliveryInv, OrphanInv
<1> QED
    BY <1>3, <1>5, <1>6, <1>7, <1>8 DEF IInv, DeliveryInv

(* The stamp of a write, and the versions it produces, have their types.    *)
LEMMA StampType ==
    ASSUME TypeOK, NEW n \in Node, Write(n)
    PROVE  /\ writes + 1 \in Gen /\ writes' \in Gen /\ Stamp(n) \in Value
           /\ BeginOf(writes + 1) \in Nat
BY BoundsAssumption DEF TypeOK, Write, Gen, Stamp, Value, BeginOf

LEMMA CreateInv ==
    ASSUME IInv, NEW n \in Node, NEW s \in Slots, Create(n, s)
    PROVE  Grows /\ UNCHANGED ledger /\ IInv'
<1>1. TypeOK /\ StoreType /\ Write(n)
    BY TypeParts DEF IInv, Create
<1>2. /\ writes + 1 \in Gen /\ writes' \in Gen /\ Stamp(n) \in Value /\ Absent.val \in Value
      /\ BeginOf(writes + 1) \in Nat
    BY <1>1, StampType, SeedType
<1>3. [gen |-> writes + 1, ver |-> 1, val |-> Stamp(n)] \in Row
    BY <1>2 DEF Row
<1>4. store' \in [Node -> [Slots -> Row]] /\ born' \subseteq Slots
    BY <1>1, <1>3, PutType DEF Create, TypeOK
<1>5. [src |-> n, slot |-> s, gen |-> writes + 1, act |-> "upsert",
       ver |-> 1, base |-> 0, val |-> Stamp(n), start |-> BeginOf(writes + 1),
       needs |-> Needs(n, s), seen |-> Absent.val] \in Event
    BY <1>1, <1>2, NeedsType DEF Event
<1>6. Grows
    BY <1>5, EnqueueGrows DEF Create
<1>7. /\ UNCHANGED <<ledger, effects, call, orphans, snap, faults, snaps>>
      /\ UNCHANGED <<open, overlapped>>
    BY DEF Create, Write
<1> QED
    BY <1>1, <1>2, <1>4, <1>6, <1>7, WriteInv DEF TypeOK

LEMMA BeginInv ==
    ASSUME IInv, NEW n \in Node, NEW s \in Slots, Begin(n, s)
    PROVE  Grows /\ UNCHANGED ledger /\ IInv'
<1>1. TypeOK /\ StoreType /\ Write(n)
    BY TypeParts DEF IInv, Begin
<1>2. writes + 1 \in Gen /\ writes' \in Gen /\ store[n][s] \in Row
    BY <1>1, StampType, RowParts
<1>3. open' \subseteq Request
    BY <1>1, <1>2 DEF Begin, TypeOK, Request
<1>4. /\ UNCHANGED <<ledger, effects, call, orphans, snap, faults, snaps>>
      /\ UNCHANGED <<store, log, row, overlapped, born>>
    BY DEF Begin, Write
<1>5. Grows
    BY <1>4 DEF Grows
<1> QED
    BY <1>1, <1>2, <1>3, <1>4, <1>5, WriteInv DEF TypeOK

(* What a request holds has its type.                                       *)
LEMMA RequestParts ==
    ASSUME TypeOK, NEW q \in open
    PROVE  /\ q.by \in Node /\ q.slot \in Slots /\ q.n \in Gen /\ BeginOf(q.n) \in Nat
           /\ q.row.gen \in Gen /\ q.row.ver \in Nat /\ q.row.val \in Value
BY BoundsAssumption DEF TypeOK, Request, Row, Gen, BeginOf

(* A request that ends.                                                     *)
LEMMA EndInv ==
    ASSUME IInv, NEW q \in open, End(q), Grows, store' \in [Node -> [Slots -> Row]],
           overlapped' \subseteq Slots
    PROVE  UNCHANGED ledger /\ IInv'
<1>1. open' \subseteq Request /\ writes' \in Gen /\ born' \subseteq Slots
    BY DEF IInv, TypeOK, End
<1> QED
    BY <1>1, WriteInv DEF End

LEMMA OverlapType ==
    ASSUME TypeOK, NEW q \in open, Overlap(q)
    PROVE  overlapped' \subseteq Slots
BY RequestParts DEF Overlap, TypeOK

LEMMA EditInv ==
    ASSUME IInv, NEW q \in open, Edit(q)
    PROVE  Grows /\ UNCHANGED ledger /\ IInv'
<1> DEFINE val == [by |-> q.by, n |-> q.n]
<1>1. TypeOK /\ StoreType /\ End(q)
    BY TypeParts DEF IInv, Edit
<1>2. /\ q.by \in Node /\ q.slot \in Slots /\ BeginOf(q.n) \in Nat
      /\ q.row.gen \in Gen /\ q.row.ver \in Nat /\ q.row.val \in Value
      /\ val \in Value
    BY <1>1, RequestParts DEF Value
<1>3. [gen |-> q.row.gen, ver |-> q.row.ver + 1, val |-> val] \in Row
    BY <1>2 DEF Row
<1>4. store' \in [Node -> [Slots -> Row]]
    BY <1>1, <1>2, <1>3, PutType DEF Edit
<1>5. [src |-> q.by, slot |-> q.slot, gen |-> q.row.gen, act |-> "upsert",
       ver |-> q.row.ver + 1, base |-> q.row.ver, val |-> val, start |-> BeginOf(q.n),
       needs |-> Needs(q.by, q.slot), seen |-> q.row.val] \in Event
    BY <1>1, <1>2, NeedsType DEF Event
<1>6. Grows
    BY <1>5, EnqueueGrows DEF Edit
<1> QED
    BY <1>1, <1>4, <1>6, OverlapType, EndInv DEF Edit

LEMMA DeleteInv ==
    ASSUME IInv, NEW q \in open, Delete(q)
    PROVE  Grows /\ UNCHANGED ledger /\ IInv'
<1>1. TypeOK /\ StoreType /\ End(q)
    BY TypeParts DEF IInv, Delete
<1>2. /\ q.by \in Node /\ q.slot \in Slots /\ BeginOf(q.n) \in Nat
      /\ q.row.gen \in Gen /\ q.row.ver \in Nat /\ q.row.val \in Value
    BY <1>1, RequestParts
<1>3. store' \in [Node -> [Slots -> Row]]
    BY <1>1, <1>2, WithoutType DEF Delete, TypeOK
<1>4. [src |-> q.by, slot |-> q.slot, gen |-> q.row.gen, act |-> "delete",
       ver |-> q.row.ver, base |-> q.row.ver, val |-> q.row.val,
       start |-> BeginOf(q.n), needs |-> {}, seen |-> q.row.val] \in Event
    BY <1>2 DEF Event
<1>5. Grows
    BY <1>4, EnqueueGrows DEF Delete
<1> QED
    BY <1>1, <1>3, <1>5, OverlapType, EndInv DEF Delete

LEMMA WithdrawInv ==
    ASSUME IInv, NEW q \in open, Withdraw(q)
    PROVE  Grows /\ UNCHANGED ledger /\ IInv'
<1>1. Grows /\ End(q) /\ store' = store /\ overlapped' = overlapped
    BY DEF Withdraw, Grows
<1> QED
    BY <1>1, EndInv DEF IInv, TypeOK

LEMMA LocalWriteInv ==
    ASSUME IInv, LocalWrite
    PROVE  Grows /\ UNCHANGED ledger /\ IInv'
BY CreateInv, BeginInv, EditInv, DeleteInv, WithdrawInv DEF LocalWrite

-----------------------------------------------------------------------------
(* The steps of the bridge                                                  *)

LEMMA PostInv ==
    ASSUME IInv, NEW n \in Node, Post(n)
    PROVE  IInv'
<1>1. TypeOK /\ DeliveryInv
    BY DEF IInv
<1>2. Batch(n) \subseteq EventId /\ \A i \in Batch(n) : row[i] = "pending" /\ log[i].src = n
    BY DEF Batch, Available
<1>3. Batch(n) \subseteq 1 .. Len(log)
    BY <1>1, <1>2, MaxEventsNat DEF TypeOK, DeliveryInv, LogInv, EventId
<1>4. [batch |-> Batch(n), todo |-> Batch(n), res |-> NoCall.res] \in CallType
    BY <1>2, NoCallType DEF CallType, NoCall
<1>5. TypeOK'
    BY <1>1, <1>4 DEF TypeOK, Post, requests
<1>6. ASSUME NEW m \in Node PROVE CallInv(m)'
    <2>1. CASE m = n
        BY <1>1, <1>2, <1>3, <2>1 DEF Post, CallInv, NoCall, TypeOK
    <2>2. CASE m # n
        BY <1>1, <2>2 DEF Post, CallInv, DeliveryInv, TypeOK
    <2> QED
        BY <2>1, <2>2
<1>7. LogInv' /\ SettledInv' /\ OrphanInv'
    BY <1>1 DEF DeliveryInv, LogInv, SettledInv, OrphanInv, Post
<1> QED
    BY <1>5, <1>6, <1>7 DEF IInv, DeliveryInv

(* An event applied in a post or after it: everything but the post and the  *)
(* orphans themselves.                                                      *)
LEMMA ApplyTypes ==
    ASSUME IInv, NEW m \in Node, NEW i \in 1 .. Len(log), Apply(m, i)
    PROVE  /\ LogType'
           /\ store' \in [Node -> [Slots -> Row]]
           /\ ledger' \in [EventId -> Status]
           /\ effects' \in [EventId -> Nat]
BY ApplyEffect, TypeParts, GrowsType DEF IInv

LEMMA HandleInv ==
    ASSUME IInv, NEW n \in Node, Handle(n)
    PROVE  IInv'
<1>1. TypeOK /\ DeliveryInv /\ CallInv(n) /\ Peer(n) \in Node
    BY DEF IInv, DeliveryInv, Peer, Node
<1>2. PICK i \in call[n].todo :
        \E answer \in {Answer(Peer(n), i), "deferred"} :
            /\ call' = [call EXCEPT ![n] = [batch |-> call[n].batch, todo |-> call[n].todo \ {i},
                                            res |-> [call[n].res EXCEPT ![i] = answer]]]
            /\ \/ /\ answer = Answer(Peer(n), i)
                  /\ Apply(Peer(n), i)
                  /\ UNCHANGED faults
               \/ /\ answer = "deferred"
                  /\ Fault
                  /\ \/ Apply(Peer(n), i)
                     \/ UNCHANGED <<store, log, row, ledger, effects>>
    BY DEF Handle
<1>3. PICK answer \in {Answer(Peer(n), i), "deferred"} :
            /\ call' = [call EXCEPT ![n] = [batch |-> call[n].batch, todo |-> call[n].todo \ {i},
                                            res |-> [call[n].res EXCEPT ![i] = answer]]]
            /\ \/ /\ answer = Answer(Peer(n), i)
                  /\ Apply(Peer(n), i)
                  /\ UNCHANGED faults
               \/ /\ answer = "deferred"
                  /\ Fault
                  /\ \/ Apply(Peer(n), i)
                     \/ UNCHANGED <<store, log, row, ledger, effects>>
    BY <1>2
<1>4. UNCHANGED <<orphans, snap, requests, snaps>>
    BY DEF Handle
<1>5. i \in 1 .. Len(log) /\ i \in EventId /\ i \in call[n].batch
    BY <1>1, LogAt DEF CallInv
<1>6. faults' \in 0 .. MaxFaults
    BY <1>1, <1>3, BoundsAssumption DEF TypeOK, Fault
<1>7. call[n].batch \in SUBSET EventId /\ call[n].todo \in SUBSET EventId
        /\ call[n].res \in [EventId -> Result]
    BY <1>1 DEF TypeOK, CallType
<1>8. answer \in Result \ {"none"}
    BY <1>1, <1>3, <1>5, ApplyEffect DEF Result
<1>9. call' \in [Node -> CallType]
    <2>1. [batch |-> call[n].batch, todo |-> call[n].todo \ {i},
           res |-> [call[n].res EXCEPT ![i] = answer]] \in CallType
        BY <1>5, <1>7, <1>8 DEF CallType
    <2> QED
        BY <1>1, <1>3, <2>1 DEF TypeOK
<1>10. /\ call'[n].batch = call[n].batch /\ call'[n].todo = call[n].todo \ {i}
       /\ call'[n].res = [call[n].res EXCEPT ![i] = answer]
       /\ \A m \in Node \ {n} : call'[m] = call[m]
    BY <1>1, <1>3 DEF TypeOK
<1>11. CASE Apply(Peer(n), i)
    <2>1. TypeOK'
        BY <1>1, <1>4, <1>5, <1>6, <1>9, <1>11, ApplyTypes DEF IInv, TypeOK, LogType, requests
    <2>2. /\ LogInv' /\ SettledInv'
          /\ \A m \in Node : call'[m] = call[m] => CallInv(m)'
          /\ \A S : S \subseteq 1 .. Len(log) => S \subseteq 1 .. Len(log')
        BY <1>1, <1>5, <1>11, ApplyKeeps
    <2>3. OrphanInv'
        BY <1>1, <1>4, <2>2 DEF DeliveryInv, OrphanInv
    <2>4. /\ \A j \in 1 .. Len(log) : log'[j] = log[j] /\ row'[j] = row[j]
          /\ \A j \in EventId : ledger'[j] = ledger[j] \/ (j = i /\ ledger[j] = "none")
        BY <1>1, <1>5, <1>11, ApplyEffect, GrowsFrame DEF DeliveryInv
    <2>5. /\ answer \in {"applied", "duplicate"}
                => ledger'[i] \in {"applied", "duplicate"} \/ log[i].act = "delete"
          /\ answer = "rejected" => ledger'[i] = "rejected"
        BY <1>1, <1>3, <1>5, <1>11, ApplyEffect
    <2>6. CallInv(n)'
        <3>1. call'[n].batch \subseteq 1 .. Len(log')
            BY <1>1, <1>10, <2>2 DEF CallInv
        <3>2. \A j \in call[n].batch : j \in EventId /\ j \in 1 .. Len(log)
            BY <1>1, <1>7 DEF CallInv
        <3>3. \A j \in EventId : call'[n].res[j] = IF j = i THEN answer ELSE call[n].res[j]
            BY <1>5, <1>7, <1>10
        <3>4. ASSUME NEW j \in call[n].batch
              PROVE  /\ call'[n].res[j] = "rejected" => ledger'[j] = "rejected"
                     /\ call'[n].res[j] \in {"applied", "duplicate"}
                           => ledger'[j] \in {"applied", "duplicate"} \/ log'[j].act = "delete"
            <4>1. CASE j = i
                BY <1>5, <2>4, <2>5, <3>3, <4>1
            <4>2. CASE j # i
                BY <1>1, <2>4, <3>2, <3>3, <4>2 DEF CallInv
            <4> QED
                BY <4>1, <4>2
        <3>5. \A j \in call'[n].batch : row'[j] = "pending" /\ log'[j].src = n
            BY <1>1, <1>10, <2>4, <3>2 DEF CallInv
        <3>6. \A j \in EventId : call'[n].res[j] # "none" => j \in call'[n].batch
            BY <1>1, <1>5, <1>10, <3>3 DEF CallInv
        <3> QED
            BY <1>1, <1>10, <3>1, <3>4, <3>5, <3>6 DEF CallInv
    <2> QED
        BY <1>10, <2>1, <2>2, <2>3, <2>6 DEF IInv, DeliveryInv
<1>12. CASE answer = "deferred" /\ UNCHANGED <<store, log, row, ledger, effects>>
    <2>1. TypeOK'
        BY <1>1, <1>4, <1>6, <1>9, <1>12 DEF TypeOK, requests
    <2>2. LogInv' /\ SettledInv' /\ OrphanInv'
        BY <1>1, <1>4, <1>12 DEF DeliveryInv, LogInv, SettledInv, OrphanInv
    <2>3. CallInv(n)'
        BY <1>1, <1>5, <1>7, <1>10, <1>12 DEF CallInv
    <2>4. ASSUME NEW m \in Node, m # n PROVE CallInv(m)'
        BY <1>1, <1>10, <1>12, <2>4 DEF DeliveryInv, CallInv
    <2> QED
        BY <2>1, <2>2, <2>3, <2>4 DEF IInv, DeliveryInv
<1> QED
    BY <1>3, <1>11, <1>12

(* Rows change only between states other than "none", for events of one     *)
(* sender n whose post is over: the rest of the invariant stays.            *)
LEMMA RowsSettle ==
    ASSUME IInv, NEW n \in Node, UNCHANGED <<log, ledger, effects>>,
           row' \in [EventId -> RowStatus],
           \A i \in EventId : row'[i] = row[i] \/ i \in call[n].batch,
           \A i \in call[n].batch :
              /\ row'[i] # "none"
              /\ row'[i] = "dead" => ledger[i] = "rejected"
              /\ row'[i] = "delivered"
                    => ledger[i] \in {"applied", "duplicate"} \/ log[i].act = "delete"
    PROVE  /\ LogInv' /\ SettledInv'
           /\ \A m \in Node \ {n} : call'[m] = call[m] => CallInv(m)'
<1>1. TypeOK /\ DeliveryInv
    BY DEF IInv
<1>2. \A m \in Node : CallInv(m) /\ call[m].batch \subseteq EventId
    BY <1>1 DEF DeliveryInv, TypeOK, CallType
<1>3. LogInv'
    <2>1. ASSUME NEW i \in EventId PROVE row'[i] = "none" <=> i > Len(log)
        BY <1>1, <1>2, <2>1 DEF DeliveryInv, LogInv, CallInv
    <2> QED
        BY <1>1, <2>1 DEF DeliveryInv, LogInv
<1>4. SettledInv'
    BY <1>1 DEF DeliveryInv, SettledInv
<1>5. ASSUME NEW m \in Node \ {n}, call'[m] = call[m] PROVE CallInv(m)'
    <2>1. \A i \in call[m].batch : i \notin call[n].batch
        BY <1>2 DEF CallInv
    <2>2. \A i \in call[m].batch : row'[i] = row[i]
        BY <1>2, <2>1
    <2> QED
        BY <1>2, <1>5, <2>2 DEF CallInv
<1> QED
    BY <1>3, <1>4, <1>5

LEMMA NoCallInv == ASSUME NEW n, call'[n] = NoCall PROVE CallInv(n)'
BY DEF CallInv, NoCall

LEMMA ReplyInv ==
    ASSUME IInv, NEW n \in Node, Reply(n)
    PROVE  IInv'
<1>1. TypeOK /\ DeliveryInv /\ CallInv(n)
    BY DEF IInv, DeliveryInv
<1>2. UNCHANGED <<store, log, ledger, effects, orphans, snap, requests, faults, snaps>>
    BY DEF Reply
<1>3. row' \in [EventId -> RowStatus]
    BY <1>1 DEF Reply, TypeOK, RowStatus, Settled
<1>4. call' \in [Node -> CallType] /\ call'[n] = NoCall /\ \A m \in Node \ {n} : call'[m] = call[m]
    BY <1>1, NoCallType DEF Reply, TypeOK
<1>5. TypeOK'
    BY <1>1, <1>2, <1>3, <1>4 DEF TypeOK, requests
<1>6. \A i \in EventId : row'[i] = row[i] \/ i \in call[n].batch
    BY DEF Reply
<1>7. ASSUME NEW i \in call[n].batch
      PROVE  /\ row'[i] # "none"
             /\ row'[i] = "dead" => ledger[i] = "rejected"
             /\ row'[i] = "delivered"
                   => ledger[i] \in {"applied", "duplicate"} \/ log[i].act = "delete"
    <2>1. i \in EventId /\ row'[i] = Settled(call[n].res[i])
        BY <1>1 DEF Reply, TypeOK, CallType
    <2> QED
        BY <1>1, <2>1 DEF CallInv, Settled
<1>8. /\ LogInv' /\ SettledInv'
      /\ \A m \in Node \ {n} : call'[m] = call[m] => CallInv(m)'
    BY <1>2, <1>3, <1>6, <1>7, RowsSettle
<1>9. OrphanInv'
    BY <1>1, <1>2 DEF DeliveryInv, OrphanInv
<1> QED
    BY <1>4, <1>5, <1>8, <1>9, NoCallInv DEF IInv, DeliveryInv

(* Rows of a failed post back off.                                          *)
LEMMA BackOffRows ==
    ASSUME IInv, NEW n \in Node, row' = BackOff(n)
    PROVE  /\ row' \in [EventId -> RowStatus]
           /\ \A i \in EventId : row'[i] = row[i] \/ i \in call[n].batch
           /\ \A i \in call[n].batch : i \in EventId /\ row[i] = "pending" /\ row'[i] = "waiting"
<1>1. TypeOK /\ CallInv(n)
    BY DEF IInv, DeliveryInv
<1> QED
    BY <1>1 DEF BackOff, TypeOK, RowStatus, CallType, CallInv

LEMMA TimeoutInv ==
    ASSUME IInv, NEW n \in Node, Timeout(n)
    PROVE  IInv'
<1>1. TypeOK /\ DeliveryInv /\ CallInv(n)
    BY DEF IInv, DeliveryInv
<1>2. UNCHANGED <<store, log, ledger, effects, snap, requests, snaps>>
    BY DEF Timeout
<1>3. /\ row' \in [EventId -> RowStatus]
      /\ \A i \in EventId : row'[i] = row[i] \/ i \in call[n].batch
      /\ \A i \in call[n].batch : row'[i] = "waiting"
    BY BackOffRows DEF Timeout
<1>4. call' \in [Node -> CallType] /\ call'[n] = NoCall /\ \A m \in Node \ {n} : call'[m] = call[m]
    BY <1>1, NoCallType DEF Timeout, TypeOK
<1>5. /\ Abandoned(n) \subseteq SUBSET EventId
      /\ \A S \in Abandoned(n) : S \subseteq 1 .. Len(log)
    BY <1>1 DEF Abandoned, CallInv, TypeOK, CallType
<1>6. orphans' \in [Node -> SUBSET (SUBSET EventId)] /\ OrphanInv'
    <2>1. orphans \in [Node -> SUBSET (SUBSET EventId)] /\ OrphanInv
        BY <1>1 DEF TypeOK, DeliveryInv
    <2>2. CASE orphans' = [orphans EXCEPT ![n] = @ \cup Abandoned(n)]
        <3>1. orphans' \in [Node -> SUBSET (SUBSET EventId)]
            BY <1>5, <2>1, <2>2
        <3>2. \A m \in Node : orphans'[m] \subseteq orphans[m] \cup Abandoned(n)
            BY <2>1, <2>2
        <3> QED
            BY <1>2, <1>5, <2>1, <3>1, <3>2 DEF OrphanInv
    <2>3. CASE UNCHANGED orphans
        BY <1>2, <2>1, <2>3 DEF OrphanInv
    <2> QED
        BY <2>2, <2>3 DEF Timeout
<1>7. faults' \in 0 .. MaxFaults
    BY <1>1, BoundsAssumption DEF Timeout, Fault, TypeOK
<1>8. TypeOK'
    BY <1>1, <1>2, <1>3, <1>4, <1>6, <1>7 DEF TypeOK, requests
<1>9. /\ LogInv' /\ SettledInv'
      /\ \A m \in Node \ {n} : call'[m] = call[m] => CallInv(m)'
    BY <1>2, <1>3, RowsSettle
<1> QED
    BY <1>4, <1>6, <1>8, <1>9, NoCallInv DEF IInv, DeliveryInv

LEMMA HandleOrphanInv ==
    ASSUME IInv, NEW n \in Node, HandleOrphan(n)
    PROVE  IInv'
<1>1. TypeOK /\ DeliveryInv /\ Peer(n) \in Node
    BY DEF IInv, Peer, Node
<1>2. PICK todo \in orphans[n] : \E i \in todo :
        /\ Apply(Peer(n), i)
        /\ orphans' = [orphans EXCEPT ![n] = (@ \ {todo}) \cup ({todo \ {i}} \ {{}})]
        /\ UNCHANGED <<call, snap, requests, faults, snaps>>
    BY DEF HandleOrphan
<1>3. PICK i \in todo :
        /\ Apply(Peer(n), i)
        /\ orphans' = [orphans EXCEPT ![n] = (@ \ {todo}) \cup ({todo \ {i}} \ {{}})]
        /\ UNCHANGED <<call, snap, requests, faults, snaps>>
    BY <1>2
<1>4. todo \subseteq 1 .. Len(log) /\ i \in 1 .. Len(log) /\ todo \subseteq EventId
    BY <1>1, LogAt DEF DeliveryInv, OrphanInv
<1>5. orphans' \in [Node -> SUBSET (SUBSET EventId)]
    BY <1>1, <1>3, <1>4 DEF TypeOK
<1>6. TypeOK'
    BY <1>1, <1>3, <1>4, <1>5, ApplyTypes DEF TypeOK, LogType, requests
<1>7. /\ LogInv' /\ SettledInv'
      /\ \A m \in Node : call'[m] = call[m] => CallInv(m)'
      /\ \A S : S \subseteq 1 .. Len(log) => S \subseteq 1 .. Len(log')
    BY <1>1, <1>3, <1>4, ApplyKeeps
<1>8. OrphanInv'
    <2>1. \A m \in Node : \A S \in orphans'[m] : S \subseteq 1 .. Len(log)
        BY <1>1, <1>3, <1>4 DEF TypeOK, DeliveryInv, OrphanInv
    <2> QED
        BY <1>7, <2>1 DEF OrphanInv
<1> QED
    BY <1>3, <1>6, <1>7, <1>8 DEF IInv, DeliveryInv

LEMMA WakeInv ==
    ASSUME IInv, NEW i \in EventId, Wake(i)
    PROVE  IInv'
<1>1. TypeOK /\ DeliveryInv
    BY DEF IInv
<1>2. row' \in [EventId -> RowStatus]
    BY <1>1 DEF Wake, TypeOK, RowStatus
<1>3. TypeOK'
    BY <1>1, <1>2 DEF Wake, TypeOK, requests
<1>4. LogInv' /\ SettledInv' /\ OrphanInv'
    BY <1>1 DEF Wake, TypeOK, DeliveryInv, LogInv, SettledInv, OrphanInv
<1>5. ASSUME NEW n \in Node PROVE CallInv(n)'
    <2>1. \A j \in call[n].batch : row'[j] = row[j]
        BY <1>1 DEF Wake, TypeOK, DeliveryInv, CallInv, CallType
    <2> QED
        BY <1>1, <2>1 DEF Wake, DeliveryInv, CallInv
<1> QED
    BY <1>3, <1>4, <1>5 DEF IInv, DeliveryInv

LEMMA RestartInv ==
    ASSUME IInv, NEW n \in Node, Restart(n)
    PROVE  IInv'
<1> DEFINE cut == call[Peer(n)].todo # {}
<1>1. TypeOK /\ DeliveryInv /\ CallInv(n) /\ Peer(n) \in Node /\ Peer(n) # n /\ Node = {n, Peer(n)}
    BY DEF IInv, DeliveryInv, Peer, Node
<1>2. /\ call' = [m \in Node |-> IF m = n \/ cut THEN NoCall ELSE call[m]]
      /\ row' = IF cut THEN BackOff(Peer(n)) ELSE row
      /\ UNCHANGED <<store, log, ledger, effects, overlapped, writes, born, snaps>>
    BY DEF Restart
<1>3. /\ row' \in [EventId -> RowStatus]
      /\ \A i \in EventId : row'[i] = row[i] \/ i \in call[Peer(n)].batch
      /\ \A i \in call[Peer(n)].batch :
            row[i] = "pending" /\ row'[i] \in {"pending", "waiting"}
    <2>1. CASE cut
        BY <1>1, <1>2, <2>1, BackOffRows
    <2>2. CASE ~cut
        BY <1>1, <1>2, <2>2 DEF TypeOK, CallInv, DeliveryInv
    <2> QED
        BY <2>1, <2>2
<1>4. call' \in [Node -> CallType]
    BY <1>1, <1>2, NoCallType DEF TypeOK
<1>5. /\ Abandoned(n) \subseteq SUBSET EventId
      /\ \A S \in Abandoned(n) : S \subseteq 1 .. Len(log)
    BY <1>1 DEF Abandoned, CallInv, TypeOK, CallType
<1>6. orphans' \in [Node -> SUBSET (SUBSET EventId)] /\ OrphanInv'
    <2>1. PICK mine \in {orphans[n], orphans[n] \cup Abandoned(n)} :
            orphans' = [m \in Node |-> IF m = n THEN mine ELSE {}]
        BY DEF Restart
    <2> QED
        BY <1>1, <1>2, <1>5, <2>1 DEF TypeOK, DeliveryInv, OrphanInv
<1>7. snap' \in SnapType /\ faults' \in 0 .. MaxFaults /\ open' \subseteq Request
    <2>1. Idle \in SnapType
        BY DEF Idle, SnapType
    <2> QED
        BY <1>1, <2>1, BoundsAssumption DEF Restart, Fault, TypeOK
<1>8. TypeOK'
    BY <1>1, <1>2, <1>3, <1>4, <1>6, <1>7 DEF TypeOK
<1>9. LogInv' /\ SettledInv'
    BY <1>1, <1>2, <1>3, RowsSettle
<1>10. CallInv(n)'
    BY <1>2, NoCallInv
<1>11. CallInv(Peer(n))'
    <2>1. CASE cut
        BY <1>1, <1>2, <2>1, NoCallInv
    <2>2. CASE ~cut
        BY <1>1, <1>2, <2>2 DEF DeliveryInv, CallInv
    <2> QED
        BY <2>1, <2>2
<1> QED
    BY <1>1, <1>6, <1>8, <1>9, <1>10, <1>11 DEF IInv, DeliveryInv

(* A resync changes the edge's rows and itself only.                        *)
LEMMA ResyncFrame ==
    ASSUME IInv, UNCHANGED <<log, row, ledger, effects, call, orphans, requests>>,
           store' \in [Node -> [Slots -> Row]], snap' \in SnapType,
           faults' \in 0 .. MaxFaults, snaps' \in 0 .. MaxSnapshots
    PROVE  IInv'
<1>1. TypeOK /\ DeliveryInv
    BY DEF IInv
<1>2. TypeOK'
    BY <1>1 DEF TypeOK, requests
<1>3. ASSUME NEW n \in Node PROVE CallInv(n)'
    BY <1>1 DEF DeliveryInv, CallInv
<1>4. LogInv' /\ SettledInv' /\ OrphanInv'
    BY <1>1 DEF DeliveryInv, LogInv, SettledInv, OrphanInv
<1> QED
    BY <1>2, <1>3, <1>4 DEF IInv, DeliveryInv

LEMMA ResyncInv ==
    ASSUME IInv, Resync
    PROVE  IInv' /\ UNCHANGED <<log, row, ledger, effects>>
<1>1. TypeOK /\ StoreType
    BY TypeParts DEF IInv
<1>2. /\ store \in [Node -> [Slots -> Row]] /\ snap \in SnapType
      /\ faults \in 0 .. MaxFaults /\ snaps \in 0 .. MaxSnapshots
      /\ snap.todo \in Seq(Slots) /\ snap.got \in Seq(Event)
      /\ snap.phase \in {"off", "read", "apply"} /\ Idle \in SnapType
    BY <1>1 DEF TypeOK, SnapType, Idle
<1>3. CASE StartResync
    <2>1. snap' \in SnapType
        BY <1>3, SlotsAssumption DEF StartResync, SnapType
    <2>2. snaps' \in 0 .. MaxSnapshots
        BY <1>2, <1>3, BoundsAssumption DEF StartResync
    <2> QED
        BY <1>2, <1>3, <2>1, <2>2, ResyncFrame DEF StartResync
<1>4. CASE ReadForSnapshot
    <2>1. Head(snap.todo) \in Slots /\ Tail(snap.todo) \in Seq(Slots)
        BY <1>2, <1>4 DEF ReadForSnapshot
    <2>2. snap' = [phase |-> snap.phase, todo |-> Tail(snap.todo),
                   got |-> IF Present("main", Head(snap.todo))
                           THEN Append(snap.got, SnapshotEvent(Head(snap.todo))) ELSE snap.got]
        BY <1>2, <1>4 DEF ReadForSnapshot, SnapType
    <2>3. snap' \in SnapType
        BY <1>1, <1>2, <2>1, <2>2, SnapshotEventType DEF SnapType
    <2> QED
        BY <1>2, <1>4, <2>3, ResyncFrame DEF ReadForSnapshot
<1>5. CASE ReceiveSnapshot
    <2>1. snap' \in SnapType
        BY <1>2, <1>5 DEF ReceiveSnapshot, SnapType
    <2> QED
        BY <1>2, <1>5, <2>1, ResyncFrame DEF ReceiveSnapshot
<1>6. CASE FailResync
    <2>1. faults' \in 0 .. MaxFaults
        BY <1>2, <1>6, BoundsAssumption DEF FailResync, Fault
    <2> QED
        BY <1>2, <1>6, <2>1, ResyncFrame DEF FailResync
<1>7. CASE ApplySnapshotEvent
    <2>1. Head(snap.got) \in Event /\ Tail(snap.got) \in Seq(Event)
        BY <1>2, <1>7 DEF ApplySnapshotEvent
    <2>2. store' \in [Node -> [Slots -> Row]]
        BY <1>1, <1>2, <1>7, <2>1, AppliedType DEF ApplySnapshotEvent, Node
    <2>3. snap' \in SnapType
        BY <1>2, <1>7, <2>1 DEF ApplySnapshotEvent, SnapType
    <2> QED
        BY <1>2, <1>7, <2>2, <2>3, ResyncFrame DEF ApplySnapshotEvent
<1>8. CASE FinishResync
    BY <1>2, <1>8, ResyncFrame DEF FinishResync
<1> QED
    BY <1>3, <1>4, <1>5, <1>6, <1>7, <1>8 DEF Resync

LEMMA NextInv == IInv /\ [Next]_vars => IInv'
<1> SUFFICES ASSUME IInv, [Next]_vars PROVE IInv'
    OBVIOUS
<1>1. CASE LocalWrite
    BY <1>1, LocalWriteInv
<1>2. ASSUME NEW n \in Node, Bridge(n) PROVE IInv'
    BY <1>2, PostInv, HandleInv, ReplyInv, TimeoutInv, HandleOrphanInv, RestartInv DEF Bridge
<1>3. ASSUME NEW i \in EventId, Wake(i) PROVE IInv'
    BY <1>3, WakeInv
<1>4. CASE Resync
    BY <1>4, ResyncInv
<1>5. CASE UNCHANGED vars
    <2>1. TypeOK'
        BY <1>5 DEF IInv, vars, TypeOK, requests
    <2>2. \A n \in Node : CallInv(n)'
        BY <1>5 DEF IInv, vars, DeliveryInv, CallInv
    <2>3. LogInv' /\ SettledInv' /\ OrphanInv'
        BY <1>5 DEF IInv, vars, DeliveryInv, LogInv, SettledInv, OrphanInv
    <2> QED
        BY <2>1, <2>2, <2>3 DEF IInv, DeliveryInv
<1> QED
    BY <1>1, <1>2, <1>3, <1>4, <1>5 DEF Next

-----------------------------------------------------------------------------
(* The invariants                                                           *)

THEOREM Invariance == Spec => []IInv
<1>1. Init => IInv
    BY InitInv
<1>2. IInv /\ [Next]_vars => IInv'
    BY NextInv
<1> QED
    BY <1>1, <1>2, PTL DEF Spec

(* Every variable keeps its type.                                           *)
THEOREM TypeCorrect == Spec => []TypeOK
<1>1. IInv => TypeOK
    BY DEF IInv
<1> QED
    BY <1>1, Invariance, PTL

(* The sender's view of every event is the peer's: no timeout, retry, late  *)
(* answer, restart or failure after a commit makes them disagree.           *)
THEOREM Agreement == Spec => []SenderAgreesWithLedger
<1>1. IInv => SenderAgreesWithLedger
    BY DEF IInv, DeliveryInv, SettledInv, SenderAgreesWithLedger, TypeOK
<1> QED
    BY <1>1, Invariance, PTL

(* An event takes effect at most once, however often it is delivered.       *)
THEOREM AtMostOnce == Spec => []AppliedAtMostOnce
<1>1. IInv => AppliedAtMostOnce
    BY DEF IInv, DeliveryInv, LogInv, SettledInv, AppliedAtMostOnce
<1> QED
    BY <1>1, Invariance, PTL

-----------------------------------------------------------------------------
(* The bridge implements Delivery                                           *)

ActionOf(i) == IF i <= Len(log) THEN log[i].act ELSE "none"

EventStep(i) == D!Queue(i) \/ D!Decide(i) \/ D!Settle(i) \/ D!Stay(i)

(* The three abstract steps and the stutter of one event, in terms of the   *)
(* bridge's own state.                                                      *)
LEMMA EventStepIf ==
    ASSUME NEW i \in EventId,
           \/ /\ OutboxRow(row'[i]) = OutboxRow(row[i])
              /\ ActionOf(i)' = ActionOf(i)
              /\ \/ ledger'[i] = ledger[i]
                 \/ /\ OutboxRow(row[i]) = "queued" \/ ActionOf(i) = "delete"
                    /\ ledger[i] = "none"
                    /\ ledger'[i] \in {"applied", "duplicate", "rejected"}
           \/ /\ OutboxRow(row[i]) = "none" /\ OutboxRow(row'[i]) = "queued"
              /\ ActionOf(i)' \in {"upsert", "delete"}
              /\ ledger'[i] = ledger[i]
           \/ /\ OutboxRow(row[i]) = "queued"
              /\ ledger'[i] = ledger[i] /\ ActionOf(i)' = ActionOf(i)
              /\ \/ /\ OutboxRow(row'[i]) = "delivered"
                    /\ ledger[i] \in {"applied", "duplicate"} \/ ActionOf(i) = "delete"
                 \/ /\ OutboxRow(row'[i]) = "dead"
                    /\ ledger[i] = "rejected"
    PROVE  EventStep(i)
BY DEF EventStep, D!Queue, D!Decide, D!Settle, D!Stay, ActionOf

(* An event already in the log keeps its action; a new one is queued.       *)
LEMMA GrowsAction ==
    ASSUME IInv, Grows, NEW i \in EventId
    PROVE  \/ row'[i] = row[i] /\ ActionOf(i)' = ActionOf(i)
           \/ /\ i = Len(log) + 1 /\ row[i] = "none" /\ row'[i] = "pending"
              /\ ActionOf(i)' \in {"upsert", "delete"}
<1>1. log \in Seq(Event) /\ Len(log) \in Nat /\ row \in [EventId -> RowStatus]
        /\ i \in Nat /\ i > 0 /\ LogInv
    BY MaxEventsNat DEF IInv, TypeOK, DeliveryInv, EventId
<1>2. CASE UNCHANGED <<log, row>>
    BY <1>2 DEF ActionOf
<1>3. ASSUME NEW e \in Event, Len(log) < MaxEvents, log' = Append(log, e),
             row' = [row EXCEPT ![Len(log) + 1] = "pending"]
      PROVE  \/ row'[i] = row[i] /\ ActionOf(i)' = ActionOf(i)
             \/ /\ i = Len(log) + 1 /\ row[i] = "none" /\ row'[i] = "pending"
                /\ ActionOf(i)' \in {"upsert", "delete"}
    <2>1. Len(log') = Len(log) + 1
        BY <1>1, <1>3
    <2>2. CASE i = Len(log) + 1
        <3>1. log'[i] = e /\ e.act \in {"upsert", "delete"}
            BY <1>1, <1>3, <2>2 DEF Event
        <3> QED
            BY <1>1, <1>3, <2>1, <2>2, <3>1 DEF ActionOf, LogInv
    <2>3. CASE i # Len(log) + 1
        <3>1. i <= Len(log) => log'[i] = log[i]
            BY <1>1, <1>3
        <3>2. i <= Len(log) <=> i <= Len(log')
            BY <1>1, <2>1, <2>3
        <3>3. ActionOf(i)' = ActionOf(i)
            BY <3>1, <3>2 DEF ActionOf
        <3> QED
            BY <1>1, <1>3, <2>3, <3>3
    <2> QED
        BY <2>2, <2>3
<1> QED
    BY <1>2, <1>3 DEF Grows

LEMMA WriteRefines ==
    ASSUME IInv, Grows, UNCHANGED ledger, NEW i \in EventId
    PROVE  EventStep(i)
<1>1. CASE row'[i] = row[i] /\ ActionOf(i)' = ActionOf(i)
    BY <1>1, EventStepIf
<1>2. CASE /\ row[i] = "none" /\ row'[i] = "pending"
           /\ ActionOf(i)' \in {"upsert", "delete"}
    BY <1>2, EventStepIf DEF OutboxRow
<1> QED
    BY <1>1, <1>2, GrowsAction

(* An event on its way, or a delete whose answer was not recorded, is the   *)
(* only one that can be decided.                                            *)
LEMMA ApplyRefines ==
    ASSUME IInv, NEW m \in Node, NEW k \in 1 .. Len(log), Apply(m, k), NEW i \in EventId
    PROVE  EventStep(i)
<1>1. TypeOK /\ LogInv /\ SettledInv /\ Len(log) \in Nat
    BY DEF IInv, DeliveryInv, TypeOK
<1>2. /\ Grows
      /\ ledger' \in [EventId -> Status]
      /\ ledger'[i] = ledger[i] \/ (i = k /\ ledger[i] = "none")
    BY <1>1, ApplyEffect
<1>3. CASE ledger'[i] # ledger[i]
    <2>1. i = k /\ ledger[i] = "none" /\ ledger'[i] \in {"applied", "duplicate", "rejected"}
        BY <1>2, <1>3 DEF Status
    <2>2. i <= Len(log) /\ i \in Nat
        BY <1>1, <2>1
    <2>3. row'[i] = row[i] /\ ActionOf(i)' = ActionOf(i)
        BY <1>1, <1>2, <2>2, GrowsAction
    <2>4. OutboxRow(row[i]) = "queued" \/ ActionOf(i) = "delete"
        <3>1. row[i] \in {"pending", "waiting", "delivered", "dead"}
            BY <1>1, <2>2 DEF LogInv, TypeOK, RowStatus
        <3> QED
            BY <1>1, <2>1, <2>2, <3>1 DEF SettledInv, OutboxRow, ActionOf
    <2> QED
        BY <2>1, <2>3, <2>4, EventStepIf
<1>4. CASE ledger'[i] = ledger[i]
    <2>1. CASE row'[i] = row[i] /\ ActionOf(i)' = ActionOf(i)
        BY <1>4, <2>1, EventStepIf
    <2>2. CASE /\ row[i] = "none" /\ row'[i] = "pending"
               /\ ActionOf(i)' \in {"upsert", "delete"}
        BY <1>4, <2>2, EventStepIf DEF OutboxRow
    <2> QED
        BY <1>2, <2>1, <2>2, GrowsAction
<1> QED
    BY <1>3, <1>4

(* Without a new event or a decision, rows of a post are settled or wait.   *)
LEMMA RowsRefine ==
    ASSUME UNCHANGED <<log, ledger>>, NEW i \in EventId,
           \/ row'[i] = row[i]
           \/ /\ row[i] \in {"pending", "waiting"}
              /\ i <= Len(log)
              /\ row'[i] \in {"pending", "waiting", "delivered", "dead"}
              /\ row'[i] = "dead" => ledger[i] = "rejected"
              /\ row'[i] = "delivered"
                    => ledger[i] \in {"applied", "duplicate"} \/ log[i].act = "delete"
    PROVE  EventStep(i)
<1>1. ActionOf(i)' = ActionOf(i) /\ ledger'[i] = ledger[i]
    BY DEF ActionOf
<1>2. CASE OutboxRow(row'[i]) = OutboxRow(row[i])
    BY <1>1, <1>2, EventStepIf
<1>3. CASE OutboxRow(row'[i]) # OutboxRow(row[i])
    <2>1. OutboxRow(row[i]) = "queued" /\ i <= Len(log)
        BY <1>3 DEF OutboxRow
    <2>2. CASE row'[i] = "delivered"
        BY <1>1, <1>3, <2>1, <2>2, EventStepIf DEF OutboxRow, ActionOf
    <2>3. CASE row'[i] = "dead"
        BY <1>1, <1>3, <2>1, <2>3, EventStepIf DEF OutboxRow
    <2> QED
        BY <1>3, <2>2, <2>3 DEF OutboxRow
<1> QED
    BY <1>2, <1>3

LEMMA BridgeRefines ==
    ASSUME IInv, NEW n \in Node, Bridge(n), NEW i \in EventId
    PROVE  EventStep(i)
<1>1. TypeOK /\ CallInv(n) /\ CallInv(Peer(n)) /\ Peer(n) \in Node
    BY DEF IInv, DeliveryInv, Peer, Node
<1>2. \A m \in Node : \A j \in call[m].batch : j \in 1 .. Len(log) /\ j \in EventId /\ row[j] = "pending"
    BY LogAt DEF IInv, DeliveryInv, CallInv
<1>3. CASE Post(n)
    BY <1>3, RowsRefine DEF Post
<1>4. CASE Handle(n)
    <2>1. PICK k \in call[n].todo :
            Apply(Peer(n), k) \/ UNCHANGED <<store, log, row, ledger, effects>>
        BY <1>4 DEF Handle
    <2>2. k \in 1 .. Len(log)
        BY <1>1 DEF CallInv
    <2> QED
        BY <1>1, <2>1, <2>2, ApplyRefines, RowsRefine
<1>5. CASE Reply(n)
    <2>1. UNCHANGED <<log, ledger>>
        BY <1>5 DEF Reply
    <2>2. CASE i \in call[n].batch
        <3>1. row'[i] = Settled(call[n].res[i])
            BY <1>5, <2>2 DEF Reply
        <3>2. /\ row'[i] \in {"waiting", "delivered", "dead"}
              /\ row'[i] = "dead" => call[n].res[i] = "rejected"
              /\ row'[i] = "delivered" => call[n].res[i] \in {"applied", "duplicate"}
            BY <3>1 DEF Settled
        <3>3. /\ row'[i] = "dead" => ledger[i] = "rejected"
              /\ row'[i] = "delivered"
                    => ledger[i] \in {"applied", "duplicate"} \/ log[i].act = "delete"
            BY <1>1, <2>2, <3>2 DEF CallInv
        <3>4. row[i] = "pending" /\ i <= Len(log)
            BY <1>1, <1>2, <2>2
        <3> QED
            BY <2>1, <3>2, <3>3, <3>4, RowsRefine
    <2>3. CASE i \notin call[n].batch
        BY <1>5, <2>1, <2>3, RowsRefine DEF Reply
    <2> QED
        BY <2>2, <2>3
<1>6. CASE Timeout(n)
    <2>1. UNCHANGED <<log, ledger>>
        BY <1>6 DEF Timeout
    <2>2. row'[i] = row[i] \/ (i \in call[n].batch /\ row'[i] = "waiting")
        BY <1>6 DEF Timeout, BackOff
    <2>3. i \in call[n].batch => row[i] = "pending" /\ i <= Len(log)
        BY <1>2
    <2> QED
        BY <2>1, <2>2, <2>3, RowsRefine
<1>7. CASE HandleOrphan(n)
    <2>1. PICK todo \in orphans[n] : \E k \in todo : Apply(Peer(n), k)
        BY <1>7 DEF HandleOrphan
    <2>2. PICK k \in todo : Apply(Peer(n), k)
        BY <2>1
    <2>3. k \in 1 .. Len(log)
        BY DEF IInv, DeliveryInv, OrphanInv
    <2> QED
        BY <1>1, <2>2, <2>3, ApplyRefines
<1>8. CASE Restart(n)
    <2>1. UNCHANGED <<log, ledger>>
        BY <1>8 DEF Restart
    <2>2. row'[i] = row[i] \/ (i \in call[Peer(n)].batch /\ row'[i] = "waiting")
        BY <1>8 DEF Restart, BackOff
    <2>3. i \in call[Peer(n)].batch => row[i] = "pending" /\ i <= Len(log)
        BY <1>1, <1>2
    <2> QED
        BY <2>1, <2>2, <2>3, RowsRefine
<1> QED
    BY <1>3, <1>4, <1>5, <1>6, <1>7, <1>8 DEF Bridge

LEMMA StepRefines == IInv /\ [Next]_vars => [D!Next]_(D!vars)
<1> SUFFICES ASSUME IInv, [Next]_vars, NEW i \in EventId PROVE EventStep(i)
    BY DEF D!Next, EventStep
<1>1. TypeOK
    BY DEF IInv
<1>2. CASE LocalWrite
    BY <1>2, LocalWriteInv, WriteRefines
<1>3. ASSUME NEW n \in Node, Bridge(n) PROVE EventStep(i)
    BY <1>3, BridgeRefines
<1>4. ASSUME NEW k \in EventId, Wake(k) PROVE EventStep(i)
    <2>1. /\ UNCHANGED <<log, ledger>>
          /\ row'[i] = row[i] \/ (row[i] = "waiting" /\ row'[i] = "pending")
        BY <1>1, <1>4 DEF Wake, TypeOK
    <2>2. row[i] = "waiting" => i <= Len(log)
        <3>1. LogInv /\ Len(log) \in Nat /\ i \in Nat
            BY <1>1, MaxEventsNat DEF IInv, DeliveryInv, TypeOK, EventId
        <3> QED
            BY <3>1 DEF LogInv
    <2> QED
        BY <2>1, <2>2, RowsRefine
<1>5. CASE Resync
    BY <1>5, ResyncInv, RowsRefine
<1>6. CASE UNCHANGED vars
    BY <1>6, RowsRefine DEF vars
<1> QED
    BY <1>2, <1>3, <1>4, <1>5, <1>6 DEF Next

LEMMA InitRefines == Init => D!Init
<1> SUFFICES ASSUME Init PROVE D!Init
    OBVIOUS
<1>1. Len(log) = 0 /\ \A i \in EventId : ~(i <= Len(log))
    BY MaxEventsNat DEF Init, EventId
<1> QED
    BY <1>1 DEF Init, D!Init, OutboxRow

(* The bridge delivers each event the way Delivery promises: one decision   *)
(* of the peer, never revoked, which the sender's settlement follows.       *)
THEOREM Refinement == Spec => ImplementsDelivery
<1>1. Init => D!Init
    BY InitRefines
<1>2. IInv /\ [Next]_vars => [D!Next]_(D!vars)
    BY StepRefines
<1> QED
    BY <1>1, <1>2, Invariance, PTL DEF Spec, ImplementsDelivery, D!Spec

-----------------------------------------------------------------------------
(* What a step does to the rows and the events                              *)

(* A post the sender gave up on holds events of that sender.                *)
SourcesInv == \A n \in Node : \A S \in orphans[n] : \A i \in S : log[i].src = n

(* Node m applies an event of its peer.                                     *)
Arrives == \E m \in Node, i \in 1 .. Len(log) : log[i].src = Peer(m) /\ Apply(m, i)

(* The edge applies the next event of a snapshot.                           *)
SnapshotArrives ==
    /\ snap.got # <<>>
    /\ store' = IF Verdict("edge", Head(snap.got)) = "applied"
                THEN Applied("edge", Head(snap.got)) ELSE store
    /\ snap'.got = Tail(snap.got)
    /\ UNCHANGED <<log, ledger>>

(* Rows, events and decisions stay; of a snapshot a row may be read.        *)
Rests ==
    /\ UNCHANGED <<store, log, ledger>>
    /\ \/ snap'.got \in {snap.got, <<>>}
       \/ \E s \in Slots : Present("main", s) /\ snap'.got = Append(snap.got, SnapshotEvent(s))

LEMMA StepKinds ==
    ASSUME IInv, SourcesInv, [Next]_vars
    PROVE  \/ LocalWrite /\ snap' = snap
           \/ Arrives /\ snap' = snap /\ UNCHANGED requests
           \/ SnapshotArrives /\ UNCHANGED requests
           \/ Rests /\ UNCHANGED requests
           \/ Rests /\ open' \subseteq open /\ UNCHANGED <<overlapped, writes, born>>
<1>1. TypeOK /\ \A n \in Node : CallInv(n) /\ Peer(n) \in Node /\ Peer(Peer(n)) = n
    BY DEF IInv, DeliveryInv, Peer, Node
<1>2. CASE LocalWrite
    BY <1>2 DEF LocalWrite, Create, Begin, Edit, Delete, Withdraw, Write, End
<1>3. ASSUME NEW n \in Node, Handle(n)
      PROVE  (Arrives \/ Rests) /\ snap' = snap /\ UNCHANGED requests
    <2>1. PICK i \in call[n].todo : Apply(Peer(n), i) \/ UNCHANGED <<store, log, ledger>>
        BY <1>3 DEF Handle
    <2>2. i \in 1 .. Len(log) /\ log[i].src = n
        BY <1>1 DEF CallInv
    <2>3. snap' = snap /\ UNCHANGED requests
        BY <1>3 DEF Handle
    <2> QED
        BY <1>1, <2>1, <2>2, <2>3 DEF Arrives, Rests
<1>4. ASSUME NEW n \in Node, HandleOrphan(n)
      PROVE  Arrives /\ snap' = snap /\ UNCHANGED requests
    <2>1. PICK todo \in orphans[n] : \E i \in todo : Apply(Peer(n), i)
        BY <1>4 DEF HandleOrphan
    <2>2. PICK i \in todo : Apply(Peer(n), i)
        BY <2>1
    <2>3. i \in 1 .. Len(log) /\ log[i].src = n
        BY DEF IInv, DeliveryInv, OrphanInv, SourcesInv
    <2>4. snap' = snap /\ UNCHANGED requests
        BY <1>4 DEF HandleOrphan
    <2> QED
        BY <1>1, <2>2, <2>3, <2>4 DEF Arrives
<1>5. ASSUME NEW n \in Node, Post(n) \/ Reply(n) \/ Timeout(n)
      PROVE  Rests /\ UNCHANGED requests
    BY <1>5 DEF Post, Reply, Timeout, Rests
<1>6. ASSUME NEW n \in Node, Restart(n)
      PROVE  Rests /\ open' \subseteq open /\ UNCHANGED <<overlapped, writes, born>>
    <2>1. snap' \in {snap, Idle} /\ Idle.got = <<>>
        BY <1>6 DEF Restart, Idle
    <2> QED
        BY <1>6, <2>1 DEF Restart, Rests
<1>7. ASSUME NEW i \in EventId, Wake(i)
      PROVE  Rests /\ UNCHANGED requests
    BY <1>7 DEF Wake, Rests
<1>8. CASE Resync
    <2>1. snap \in SnapType
        BY <1>1 DEF TypeOK
    <2>2. CASE ApplySnapshotEvent
        BY <2>1, <2>2 DEF ApplySnapshotEvent, SnapshotArrives, SnapType
    <2>3. CASE ReadForSnapshot
        <3>1. Head(snap.todo) \in Slots
            BY <2>1, <2>3 DEF ReadForSnapshot, SnapType
        <3>2. snap'.got = IF Present("main", Head(snap.todo))
                          THEN Append(snap.got, SnapshotEvent(Head(snap.todo))) ELSE snap.got
            BY <2>1, <2>3 DEF ReadForSnapshot, SnapType
        <3> QED
            BY <2>3, <3>1, <3>2 DEF ReadForSnapshot, Rests
    <2>4. CASE StartResync \/ ReceiveSnapshot \/ FailResync \/ FinishResync
        <3>1. snap'.got \in {snap.got, <<>>}
            BY <2>1, <2>4 DEF StartResync, ReceiveSnapshot, FailResync, FinishResync, SnapType, Idle
        <3> QED
            BY <2>4, <3>1 DEF StartResync, ReceiveSnapshot, FailResync, FinishResync, Rests
    <2> QED
        BY <1>8, <2>2, <2>3, <2>4 DEF Resync
<1>9. CASE UNCHANGED vars
    BY <1>9 DEF vars, Rests
<1> QED
    BY <1>2, <1>3, <1>4, <1>5, <1>6, <1>7, <1>8, <1>9 DEF Next, Bridge

(* An event that was added stays as it is.                                  *)
LEMMA LogKept ==
    ASSUME IInv, SourcesInv, [Next]_vars, NEW i \in 1 .. Len(log)
    PROVE  i \in 1 .. Len(log') /\ log'[i] = log[i]
<1>1. TypeOK /\ LogInv
    BY DEF IInv, DeliveryInv
<1>2. Grows => i \in 1 .. Len(log') /\ log'[i] = log[i]
    BY <1>1, GrowsFrame
<1>3. LocalWrite => Grows
    BY LocalWriteInv
<1>4. Arrives => Grows
    BY <1>1, ApplyEffect DEF Arrives
<1> QED
    BY <1>2, <1>3, <1>4, StepKinds DEF SnapshotArrives, Rests

LEMMA SourcesStep ==
    ASSUME IInv, SourcesInv, [Next]_vars
    PROVE  SourcesInv'
<1>1. TypeOK /\ orphans \in [Node -> SUBSET (SUBSET EventId)]
    BY DEF IInv, TypeOK
<1>2. \A n \in Node : \A S \in orphans[n] : \A i \in S : log'[i] = log[i] /\ log[i].src = n
    BY LogKept DEF IInv, DeliveryInv, OrphanInv, SourcesInv
<1>3. \A n \in Node : \A S \in Abandoned(n) : \A i \in S : log'[i] = log[i] /\ log[i].src = n
    <2>1. ASSUME NEW n \in Node, NEW i \in call[n].todo PROVE log'[i] = log[i] /\ log[i].src = n
        <3>1. CallInv(n)
            BY DEF IInv, DeliveryInv
        <3> QED
            BY <3>1, LogKept DEF CallInv
    <2> QED
        BY <2>1 DEF Abandoned
<1>4. \A n \in Node : \A S \in orphans'[n] :
        \/ \E T \in orphans[n] : S \subseteq T
        \/ S \in Abandoned(n)
    <2>1. ASSUME NEW n \in Node, HandleOrphan(n)
          PROVE  \A m \in Node : \A S \in orphans'[m] : \E T \in orphans[m] : S \subseteq T
        <3>1. PICK todo \in orphans[n] : \E i \in todo :
                orphans' = [orphans EXCEPT ![n] = (@ \ {todo}) \cup ({todo \ {i}} \ {{}})]
            BY <2>1 DEF HandleOrphan
        <3> QED
            BY <1>1, <3>1
    <2>2. ASSUME NEW n \in Node, Timeout(n)
          PROVE  \A m \in Node : \A S \in orphans'[m] : S \in orphans[m] \/ S \in Abandoned(m)
        BY <1>1, <2>2 DEF Timeout
    <2>3. ASSUME NEW n \in Node, Restart(n)
          PROVE  \A m \in Node : \A S \in orphans'[m] : S \in orphans[m] \/ S \in Abandoned(m)
        BY <1>1, <2>3 DEF Restart
    <2>4. ASSUME UNCHANGED orphans
          PROVE  \A m \in Node : \A S \in orphans'[m] : S \in orphans[m]
        BY <2>4
    <2>5. \/ UNCHANGED orphans
          \/ \E n \in Node : HandleOrphan(n) \/ Timeout(n) \/ Restart(n)
        <3>1. CASE LocalWrite
            BY <3>1 DEF LocalWrite, Create, Begin, Edit, Delete, Withdraw, Write, End
        <3>2. ASSUME NEW n \in Node, Post(n) \/ Handle(n) \/ Reply(n) PROVE UNCHANGED orphans
            BY <3>2 DEF Post, Handle, Reply
        <3>3. ASSUME NEW i \in EventId, Wake(i) PROVE UNCHANGED orphans
            BY <3>3 DEF Wake
        <3>4. CASE Resync
            BY <3>4 DEF Resync, StartResync, ReadForSnapshot, ReceiveSnapshot, FailResync,
                        ApplySnapshotEvent, FinishResync
        <3> QED
            BY <3>1, <3>2, <3>3, <3>4 DEF Next, Bridge, vars
    <2> QED
        BY <2>1, <2>2, <2>3, <2>4, <2>5
<1> QED
    BY <1>2, <1>3, <1>4 DEF SourcesInv


-----------------------------------------------------------------------------
(* The rows after a write                                                   *)

LEMMA PutAt ==
    ASSUME StoreType, NEW n \in Node, NEW s \in Slots, NEW r, store' = Put(n, s, r)
    PROVE  \A m \in Node, t \in Slots :
              store'[m][t] = IF m = n /\ t = s THEN r ELSE store[m][t]
BY DEF Put, StoreType

LEMMA WithoutAt ==
    ASSUME StoreType, NEW n \in Node, NEW s \in Slots, store' = Without(n, s)
    PROVE  \A m \in Node, t \in Slots :
              store'[m][t] = IF m = n /\ t \in {s} \cup Below(s) THEN Absent ELSE store[m][t]
BY DEF Without, StoreType

(* What the checks of apply_event guarantee of an event that is applied.    *)
LEMMA AppliedEvent ==
    ASSUME NEW m \in Node, NEW e \in Event, Verdict(m, e) = "applied"
    PROVE  /\ \/ e.act = "delete" /\ Applied(m, e) = Without(m, e.slot)
              \/ /\ e.act = "upsert"
                 /\ Applied(m, e) = Put(m, e.slot, [gen |-> e.gen, ver |-> AtLeastOne(e.ver),
                                                    val |-> e.val])
                 /\ ~OwnerMissing(m, e)
                 /\ ~Refused(m, e)
                 /\ ~Present(m, e.slot) \/ ~Outdated(m, e)
           /\ FromEdge(m, e) => Promoted(e.slot)
           /\ [gen |-> e.gen, ver |-> AtLeastOne(e.ver), val |-> e.val] \in Row
           /\ AtLeastOne(e.ver) > 0 /\ AtLeastOne(e.ver) >= e.ver
<1>1. e.act \in {"upsert", "delete"} /\ e.ver \in Nat /\ e.gen \in Gen /\ e.val \in Value
    BY DEF Event
<1>2. AtLeastOne(e.ver) \in Nat /\ AtLeastOne(e.ver) > 0 /\ AtLeastOne(e.ver) >= e.ver
    BY <1>1 DEF AtLeastOne
<1>3. FromEdge(m, e) => Promoted(e.slot)
    BY DEF Verdict
<1>4. CASE e.act = "delete"
    BY <1>1, <1>2, <1>3, <1>4 DEF Applied, Row
<1>5. CASE e.act = "upsert"
    <2>1. UpsertVerdict(m, e) = "applied"
        BY <1>3, <1>5 DEF Verdict
    <2>2. /\ ~OwnerMissing(m, e) /\ ~Refused(m, e)
          /\ ~Present(m, e.slot) \/ ~Outdated(m, e)
        BY <2>1 DEF UpsertVerdict, Missing
    <2> QED
        BY <1>1, <1>2, <1>3, <1>5, <2>2 DEF Applied, Row
<1> QED
    BY <1>1, <1>4, <1>5

(* Which rows an event that is applied changes: a delete leaves rows absent; *)
(* an upsert replaces its own row, unless that has a later version.         *)
LEMMA AppliedAt ==
    ASSUME StoreType, NEW m \in Node, NEW e \in Event, Verdict(m, e) = "applied",
           store' = Applied(m, e), NEW k \in Node, NEW t \in Slots
    PROVE  \/ store'[k][t] = store[k][t]
           \/ e.act = "delete" /\ store'[k][t].ver = 0
           \/ /\ e.act = "upsert" /\ k = m /\ t = e.slot
              /\ store'[k][t].val = e.val
              /\ ~Present(k, t) \/ store'[k][t].ver >= store[k][t].ver
<1>1. e.slot \in Slots /\ e.ver \in Nat /\ Absent.ver = 0 /\ store[k][t].ver \in Nat
    BY RowParts DEF Event, Absent
<1>2. CASE e.act = "delete"
    <2>1. store' = Without(m, e.slot)
        BY <1>2, AppliedEvent
    <2>2. store'[k][t] = IF k = m /\ t \in {e.slot} \cup Below(e.slot)
                         THEN Absent ELSE store[k][t]
        BY <1>1, <2>1, WithoutAt
    <2> QED
        BY <1>1, <1>2, <2>2
<1>3. CASE e.act = "upsert"
    <2> DEFINE r == [gen |-> e.gen, ver |-> AtLeastOne(e.ver), val |-> e.val]
    <2>1. /\ store' = Put(m, e.slot, r)
          /\ ~Present(m, e.slot) \/ ~Outdated(m, e)
          /\ AtLeastOne(e.ver) >= e.ver
        BY <1>3, AppliedEvent
    <2>2. store'[k][t] = IF k = m /\ t = e.slot THEN r ELSE store[k][t]
        BY <1>1, <2>1, PutAt
    <2>3. k = m /\ t = e.slot /\ Present(k, t) => AtLeastOne(e.ver) >= store[k][t].ver
        BY <1>1, <2>1 DEF Outdated, AtLeastOne
    <2> QED
        BY <1>3, <2>2, <2>3
<1> QED
    BY <1>2, <1>3 DEF Event

-----------------------------------------------------------------------------
(* References hold                                                          *)

(* An upsert names a row for every owner of its row.                        *)
NamesOwners(e) ==
    e.act = "upsert" => \A p \in Parents[e.slot] : \E sid \in e.needs : sid[1] = p

NeedsInv ==
    /\ \A i \in 1 .. Len(log) : NamesOwners(log[i])
    /\ \A k \in 1 .. Len(snap.got) : NamesOwners(snap.got[k])

LEMMA NeedsNameOwners ==
    ASSUME NEW n, NEW s \in Slots, NEW p \in Parents[s]
    PROVE  \E sid \in Needs(n, s) : sid[1] = p
<1>1. <<p, store[n][p].gen>> \in Needs(n, s)
    BY DEF Needs
<1> QED
    BY <1>1

(* A row that is written while its owners are there, or removed with all    *)
(* rows below it, leaves no row without its owners.                         *)
LEMMA PutKeepsReferences ==
    ASSUME StoreType, ReferencesHold, NEW n \in Node, NEW s \in Slots, NEW r \in Row, r.ver > 0,
           \A p \in Parents[s] : Present(n, p), store' = Put(n, s, r)
    PROVE  ReferencesHold'
<1>1. \A t \in Slots : Parents[t] \subseteq Slots
    BY SlotsAssumption
<1>2. \A m \in Node, t \in Slots :
          store'[m][t] = IF m = n /\ t = s THEN r ELSE store[m][t]
    BY PutAt
<1> QED
    BY <1>1, <1>2 DEF ReferencesHold, Present

LEMMA WithoutKeepsReferences ==
    ASSUME StoreType, ReferencesHold, NEW n \in Node, NEW s \in Slots, store' = Without(n, s)
    PROVE  ReferencesHold'
<1> SUFFICES ASSUME NEW m \in Node, NEW t \in Slots, Present(m, t)', NEW p \in Parents[t]
             PROVE  Present(m, p)'
    BY DEF ReferencesHold
<1>1. p \in Slots
    BY SlotsAssumption
<1>2. \A k \in Node, u \in Slots :
          store'[k][u] = IF k = n /\ u \in {s} \cup Below(s) THEN Absent ELSE store[k][u]
    BY WithoutAt
<1>3. ~(m = n /\ t \in {s} \cup Below(s)) /\ Present(m, t)
    BY <1>2 DEF Present, Absent
<1>4. Present(m, p)
    BY <1>3 DEF ReferencesHold
<1>5. p \in {s} \cup Below(s) => t \in Below(s)
    BY SlotsAssumption
<1> QED
    BY <1>1, <1>2, <1>3, <1>4, <1>5 DEF Present

LEMMA AppliedKeepsReferences ==
    ASSUME StoreType, ReferencesHold, NEW m \in Node, NEW e \in Event, NamesOwners(e),
           Verdict(m, e) = "applied", store' = Applied(m, e)
    PROVE  ReferencesHold'
<1>1. e.slot \in Slots
    BY DEF Event
<1>2. CASE e.act = "delete"
    BY <1>1, <1>2, AppliedEvent, WithoutKeepsReferences
<1>3. CASE e.act = "upsert"
    <2>1. \A p \in Parents[e.slot] : Present(m, p)
        <3>1. ASSUME NEW p \in Parents[e.slot] PROVE Present(m, p)
            <4>1. PICK sid \in e.needs : sid[1] = p
                BY <1>3 DEF NamesOwners
            <4>2. Holds(m, sid)
                BY <1>3, <4>1, AppliedEvent DEF OwnerMissing
            <4> QED
                BY <4>1, <4>2 DEF Holds
        <3> QED
            BY <3>1
    <2> DEFINE r == [gen |-> e.gen, ver |-> AtLeastOne(e.ver), val |-> e.val]
    <2>2. r \in Row /\ r.ver > 0 /\ store' = Put(m, e.slot, r)
        BY <1>3, AppliedEvent
    <2> QED
        BY <1>1, <2>1, <2>2, PutKeepsReferences
<1> QED
    BY <1>2, <1>3 DEF Event

LEMMA UnchangedKeepsReferences == ReferencesHold /\ store' = store => ReferencesHold'
BY DEF ReferencesHold, Present

LEMMA LocalWriteKeepsReferences ==
    ASSUME IInv, ReferencesHold, LocalWrite
    PROVE  ReferencesHold'
<1>1. TypeOK /\ StoreType
    BY TypeParts DEF IInv
<1>2. ASSUME NEW n \in Node, NEW s \in Slots, Create(n, s) PROVE ReferencesHold'
    <2> DEFINE r == [gen |-> writes + 1, ver |-> 1, val |-> Stamp(n)]
    <2>1. r \in Row /\ r.ver > 0
        BY <1>1, <1>2, StampType DEF Create, Row
    <2> QED
        BY <1>1, <1>2, <2>1, PutKeepsReferences DEF Create
<1>3. ASSUME NEW n \in Node, NEW s \in Slots, Begin(n, s) PROVE ReferencesHold'
    BY <1>3, UnchangedKeepsReferences DEF Begin
<1>4. ASSUME NEW q \in open, Edit(q) PROVE ReferencesHold'
    <2> DEFINE r == [gen |-> q.row.gen, ver |-> q.row.ver + 1, val |-> [by |-> q.by, n |-> q.n]]
    <2>1. /\ q.by \in Node /\ q.slot \in Slots /\ q.n \in Gen
          /\ q.row.gen \in Gen /\ q.row.ver \in Nat
        BY <1>1, RequestParts
    <2>2. r \in Row /\ r.ver > 0
        BY <2>1 DEF Row, Value
    <2>3. Present(q.by, q.slot)
        BY <1>4 DEF Edit, Holds
    <2>4. \A p \in Parents[q.slot] : Present(q.by, p)
        BY <2>1, <2>3 DEF ReferencesHold
    <2> QED
        BY <1>1, <1>4, <2>1, <2>2, <2>4, PutKeepsReferences DEF Edit
<1>5. ASSUME NEW q \in open, Delete(q) PROVE ReferencesHold'
    BY <1>1, <1>5, RequestParts, WithoutKeepsReferences, UnchangedKeepsReferences DEF Delete
<1>6. ASSUME NEW q \in open, Withdraw(q) PROVE ReferencesHold'
    BY <1>6, UnchangedKeepsReferences DEF Withdraw
<1> QED
    BY <1>2, <1>3, <1>4, <1>5, <1>6 DEF LocalWrite

LEMMA ReferencesStep ==
    ASSUME IInv, SourcesInv, NeedsInv, ReferencesHold, [Next]_vars
    PROVE  ReferencesHold'
<1>1. TypeOK /\ StoreType /\ snap \in SnapType
    BY TypeParts DEF IInv, TypeOK
<1>2. CASE Arrives
    <2>1. PICK m \in Node, i \in 1 .. Len(log) : Apply(m, i)
        BY <1>2 DEF Arrives
    <2>2. log[i] \in Event /\ NamesOwners(log[i])
        BY <1>1, LogAt DEF NeedsInv
    <2>3. \/ store' = store
          \/ Verdict(m, log[i]) = "applied" /\ store' = Applied(m, log[i])
        BY <2>1 DEF Apply
    <2> QED
        BY <1>1, <2>2, <2>3, AppliedKeepsReferences, UnchangedKeepsReferences
<1>3. CASE SnapshotArrives
    <2>1. "edge" \in Node
        BY DEF Node
    <2>2. Head(snap.got) \in Event /\ NamesOwners(Head(snap.got))
        BY <1>1, <1>3 DEF SnapshotArrives, SnapType, NeedsInv
    <2> QED
        BY <1>1, <1>3, <2>1, <2>2, AppliedKeepsReferences, UnchangedKeepsReferences
        DEF SnapshotArrives
<1> QED
    BY <1>2, <1>3, StepKinds, LocalWriteKeepsReferences, UnchangedKeepsReferences DEF Rests

(* An event that is enqueued names its owners if that is what was asked.    *)
LEMMA NewEvents ==
    ASSUME TypeOK, NEW e \in Event, Enqueue(e), NEW i \in 1 .. Len(log')
    PROVE  \/ i \in 1 .. Len(log) /\ log'[i] = log[i]
           \/ log'[i] = e
<1>1. log \in Seq(Event) /\ Len(log) \in Nat
    BY DEF TypeOK
<1>2. CASE log' = log
    BY <1>2
<1>3. CASE log' = Append(log, e)
    <2>1. Len(log') = Len(log) + 1 /\ log'[Len(log) + 1] = e
        BY <1>1, <1>3
    <2>2. \A j \in 1 .. Len(log) : log'[j] = log[j]
        BY <1>1, <1>3
    <2>3. i \in 1 .. Len(log) \/ i = Len(log) + 1
        BY <1>1, <2>1
    <2> QED
        BY <2>1, <2>2, <2>3
<1> QED
    BY <1>2, <1>3 DEF Enqueue

LEMMA NeedsStep ==
    ASSUME IInv, SourcesInv, NeedsInv, [Next]_vars
    PROVE  NeedsInv'
<1>1. TypeOK /\ StoreType /\ snap \in SnapType /\ snap.got \in Seq(Event)
    BY TypeParts DEF IInv, TypeOK, SnapType
<1>2. \A i \in 1 .. Len(log') :
          (i \in 1 .. Len(log) /\ log'[i] = log[i]) \/ NamesOwners(log'[i])
    <2>1. CASE UNCHANGED log
        BY <2>1
    <2>2. ASSUME NEW n \in Node, NEW s \in Slots, Create(n, s)
          PROVE  \A i \in 1 .. Len(log') :
                    (i \in 1 .. Len(log) /\ log'[i] = log[i]) \/ NamesOwners(log'[i])
        <3> DEFINE e == [src |-> n, slot |-> s, gen |-> writes + 1, act |-> "upsert",
                         ver |-> 1, base |-> 0, val |-> Stamp(n), start |-> BeginOf(writes + 1),
                         needs |-> Needs(n, s), seen |-> Absent.val]
        <3>1. Enqueue(e) /\ NamesOwners(e)
            BY <2>2, NeedsNameOwners DEF Create, NamesOwners
        <3>2. e \in Event
            BY <1>1, <2>2, StampType, SeedType, NeedsType DEF Create, Event
        <3> HIDE DEF e
        <3> QED
            BY <1>1, <3>1, <3>2, NewEvents
    <2>3. ASSUME NEW q \in open, Edit(q)
          PROVE  \A i \in 1 .. Len(log') :
                    (i \in 1 .. Len(log) /\ log'[i] = log[i]) \/ NamesOwners(log'[i])
        <3> DEFINE e == [src |-> q.by, slot |-> q.slot, gen |-> q.row.gen, act |-> "upsert",
                         ver |-> q.row.ver + 1, base |-> q.row.ver,
                         val |-> [by |-> q.by, n |-> q.n], start |-> BeginOf(q.n),
                         needs |-> Needs(q.by, q.slot), seen |-> q.row.val]
        <3>1. Enqueue(e) /\ NamesOwners(e)
            BY <1>1, <2>3, RequestParts, NeedsNameOwners DEF Edit, NamesOwners
        <3>2. e \in Event
            BY <1>1, RequestParts, NeedsType DEF Event, Value
        <3> HIDE DEF e
        <3> QED
            BY <1>1, <3>1, <3>2, NewEvents
    <2>4. ASSUME NEW q \in open, Delete(q)
          PROVE  \A i \in 1 .. Len(log') :
                    (i \in 1 .. Len(log) /\ log'[i] = log[i]) \/ NamesOwners(log'[i])
        <3> DEFINE e == [src |-> q.by, slot |-> q.slot, gen |-> q.row.gen, act |-> "delete",
                         ver |-> q.row.ver, base |-> q.row.ver, val |-> q.row.val,
                         start |-> BeginOf(q.n), needs |-> {}, seen |-> q.row.val]
        <3>1. Enqueue(e) /\ NamesOwners(e)
            BY <2>4 DEF Delete, NamesOwners
        <3>2. e \in Event
            BY <1>1, RequestParts DEF Event
        <3> HIDE DEF e
        <3> QED
            BY <1>1, <3>1, <3>2, NewEvents
    <2>5. CASE Arrives
        <3>1. PICK m \in Node, i \in 1 .. Len(log) : Apply(m, i)
            BY <2>5 DEF Arrives
        <3>2. log[i] \in Event /\ NamesOwners(log[i])
            BY <1>1, LogAt DEF NeedsInv
        <3>3. Echo(m, log[i]) \in Event
            BY <1>1, <3>2, EchoType
        <3>4. NamesOwners(Echo(m, log[i]))
            BY <3>2 DEF NamesOwners, Echo, Event
        <3>5. UNCHANGED log \/ Enqueue(Echo(m, log[i]))
            BY <3>1 DEF Apply
        <3> QED
            BY <1>1, <3>3, <3>4, <3>5, NewEvents
    <2>6. LocalWrite =>
            \/ UNCHANGED log
            \/ \E n \in Node, s \in Slots : Create(n, s)
            \/ \E q \in open : Edit(q) \/ Delete(q)
        BY DEF LocalWrite, Begin, Withdraw
    <2> QED
        BY <2>1, <2>2, <2>3, <2>4, <2>5, <2>6, StepKinds DEF SnapshotArrives, Rests
<1>3. \A k \in 1 .. Len(snap'.got) : NamesOwners(snap'.got[k])
    <2>1. CASE snap'.got \in {snap.got, <<>>}
        BY <2>1 DEF NeedsInv
    <2>2. CASE snap.got # <<>> /\ snap'.got = Tail(snap.got)
        BY <1>1, <2>2 DEF NeedsInv
    <2>3. ASSUME NEW s \in Slots, Present("main", s),
                 snap'.got = Append(snap.got, SnapshotEvent(s))
          PROVE  \A k \in 1 .. Len(snap'.got) : NamesOwners(snap'.got[k])
        <3>1. NamesOwners(SnapshotEvent(s))
            BY NeedsNameOwners DEF NamesOwners, SnapshotEvent
        <3> QED
            BY <1>1, <2>3, <3>1 DEF NeedsInv
    <2> QED
        BY <2>1, <2>2, <2>3, StepKinds DEF SnapshotArrives, Rests
<1> QED
    BY <1>2, <1>3 DEF NeedsInv

-----------------------------------------------------------------------------
(* What the edge sends leaves stable content alone                          *)

(* The types an edge write of a stable row has: main takes none of them.    *)
LEMMA StableIsMains ==
    ASSUME NEW e \in Event, e.slot \in Stable, FromEdge("main", e),
           Verdict("main", e) = "applied"
    PROVE  e.act = "delete"
<1>1. "main" \in Node
    BY DEF Node
<1>2. KindOf[e.slot] \in {"channel", "release_flag"} => ~Promoted(e.slot)
    BY DEF Promoted, Kinds, ChannelKind, ReleaseFlagKind
<1>3. e.slot \in Attached => Refused("main", e)
    BY DEF Refused
<1> QED
    BY <1>1, <1>2, <1>3, AppliedEvent DEF Stable

LEMMA StableStep ==
    ASSUME IInv, SourcesInv, StableContentIsMains, [Next]_vars
    PROVE  StableContentIsMains'
<1>1. TypeOK /\ StoreType /\ "main" \in Node /\ "edge" \in Node
    BY TypeParts DEF IInv, Node
<1>2. Stable \subseteq Slots
    BY SlotsAssumption DEF Stable
<1> SUFFICES ASSUME NEW s \in Stable, Present("main", s)'
             PROVE  store'["main"][s].val.by = "main"
    BY DEF StableContentIsMains
<1>3. CASE store'["main"][s] = store["main"][s]
    BY <1>3 DEF StableContentIsMains, Present
<1>4. CASE store'["main"][s].val.by = "main"
    BY <1>4
<1>5. ASSUME NEW n \in Node, NEW t \in Slots, Create(n, t)
      PROVE  store'["main"][s] = store["main"][s] \/ store'["main"][s].val.by = "main"
    BY <1>1, <1>2, <1>5, PutAt DEF Create, Stamp
<1>6. ASSUME NEW q \in open, Edit(q)
      PROVE  store'["main"][s] = store["main"][s] \/ store'["main"][s].val.by = "main"
    BY <1>1, <1>2, <1>6, PutAt, RequestParts DEF Edit
<1>7. ASSUME NEW q \in open, Delete(q)
      PROVE  store'["main"][s] = store["main"][s] \/ store'["main"][s].val.by = "main"
    <2>1. CASE store' = store
        BY <2>1
    <2>2. CASE store' = Without(q.by, q.slot)
        BY <1>1, <1>2, <2>2, WithoutAt, RequestParts DEF Absent
    <2> QED
        BY <1>7, <2>1, <2>2 DEF Delete
<1>8. CASE Arrives
    <2>1. PICK m \in Node, i \in 1 .. Len(log) : log[i].src = Peer(m) /\ Apply(m, i)
        BY <1>8 DEF Arrives
    <2>2. log[i] \in Event
        BY <1>1, LogAt
    <2>3. CASE store' = store
        BY <1>3, <2>3
    <2>4. CASE Verdict(m, log[i]) = "applied" /\ store' = Applied(m, log[i])
        <3>1. \/ store'["main"][s] = store["main"][s]
              \/ store'["main"][s].ver = 0
              \/ log[i].act = "upsert" /\ m = "main" /\ log[i].slot = s
            BY <1>1, <1>2, <2>2, <2>4, AppliedAt
        <3>2. ~(log[i].act = "upsert" /\ m = "main" /\ log[i].slot = s)
            BY <2>1, <2>2, <2>4, StableIsMains DEF FromEdge, Peer
        <3>3. store'["main"][s].ver > 0
            BY DEF Present
        <3> QED
            BY <1>3, <3>1, <3>2, <3>3
    <2> QED
        BY <2>1, <2>3, <2>4 DEF Apply
<1>9. CASE SnapshotArrives
    <2>1. Head(snap.got) \in Event
        BY <1>1, <1>9 DEF SnapshotArrives, TypeOK, SnapType
    <2>2. CASE Verdict("edge", Head(snap.got)) = "applied" /\ store' = Applied("edge", Head(snap.got))
        <3>1. \/ store'["main"][s] = store["main"][s]
              \/ store'["main"][s].ver = 0
            BY <1>1, <1>2, <2>1, <2>2, AppliedAt
        <3>2. store'["main"][s].ver > 0
            BY DEF Present
        <3> QED
            BY <1>3, <3>1, <3>2
    <2> QED
        BY <1>3, <1>9, <2>2 DEF SnapshotArrives
<1>10. CASE UNCHANGED store
    BY <1>3, <1>10
<1>11. LocalWrite =>
            \/ UNCHANGED store
            \/ \E n \in Node, t \in Slots : Create(n, t)
            \/ \E q \in open : Edit(q) \/ Delete(q)
    BY DEF LocalWrite, Begin, Withdraw
<1> QED
    BY <1>3, <1>4, <1>5, <1>6, <1>7, <1>8, <1>9, <1>10, <1>11, StepKinds DEF Rests

-----------------------------------------------------------------------------
(* Versions never regress                                                   *)

LEMMA VersionsStep ==
    ASSUME IInv, SourcesInv, [Next]_vars, NEW n \in Node, NEW s \in Slots \ overlapped',
           Present(n, s), Present(n, s)'
    PROVE  store'[n][s].ver >= store[n][s].ver
<1>1. TypeOK /\ StoreType /\ "edge" \in Node /\ store[n][s].ver \in Nat /\ store'[n][s].ver > 0
    BY TypeParts, RowParts DEF IInv, Node, Present
<1>2. CASE store' = store
    BY <1>1, <1>2
<1>3. ASSUME NEW m \in Node, NEW t \in Slots, Create(m, t)
      PROVE  store'[n][s].ver >= store[n][s].ver
    <2>1. ~(n = m /\ s = t)
        BY <1>3 DEF Create
    <2>2. store'[n][s] = store[n][s]
        BY <1>1, <1>3, <2>1, PutAt DEF Create
    <2> QED
        BY <1>1, <2>2
<1>4. ASSUME NEW q \in open, Edit(q)
      PROVE  store'[n][s].ver >= store[n][s].ver
    <2> DEFINE r == [gen |-> q.row.gen, ver |-> q.row.ver + 1, val |-> [by |-> q.by, n |-> q.n]]
    <2>1. q.by \in Node /\ q.slot \in Slots /\ q.row.ver \in Nat
        BY <1>1, RequestParts
    <2>2. store'[n][s] = IF n = q.by /\ s = q.slot THEN r ELSE store[n][s]
        BY <1>1, <1>4, <2>1, PutAt DEF Edit
    <2>3. n = q.by /\ s = q.slot => store[n][s] = q.row
        BY <1>4 DEF Edit, Overlap
    <2> QED
        BY <1>1, <2>1, <2>2, <2>3
<1>5. ASSUME NEW q \in open, Delete(q)
      PROVE  store'[n][s].ver >= store[n][s].ver
    <2>1. q.by \in Node /\ q.slot \in Slots /\ Absent.ver = 0
        BY <1>1, RequestParts DEF Absent
    <2>2. CASE store' = Without(q.by, q.slot)
        <3>1. store'[n][s] = IF n = q.by /\ s \in {q.slot} \cup Below(q.slot)
                             THEN Absent ELSE store[n][s]
            BY <1>1, <2>1, <2>2, WithoutAt
        <3> QED
            BY <1>1, <2>1, <3>1
    <2> QED
        BY <1>2, <1>5, <2>2 DEF Delete
<1>6. CASE Arrives
    <2>1. PICK m \in Node, i \in 1 .. Len(log) : Apply(m, i)
        BY <1>6 DEF Arrives
    <2>2. CASE Verdict(m, log[i]) = "applied" /\ store' = Applied(m, log[i])
        BY <1>1, <2>2, LogAt, AppliedAt
    <2> QED
        BY <1>2, <2>1, <2>2 DEF Apply
<1>7. CASE SnapshotArrives
    <2>1. Head(snap.got) \in Event
        BY <1>1, <1>7 DEF SnapshotArrives, TypeOK, SnapType
    <2>2. CASE Verdict("edge", Head(snap.got)) = "applied" /\ store' = Applied("edge", Head(snap.got))
        BY <1>1, <2>1, <2>2, AppliedAt
    <2> QED
        BY <1>2, <1>7, <2>2 DEF SnapshotArrives
<1>8. LocalWrite =>
            \/ store' = store
            \/ \E m \in Node, t \in Slots : Create(m, t)
            \/ \E q \in open : Edit(q) \/ Delete(q)
    BY DEF LocalWrite, Begin, Withdraw
<1> QED
    BY <1>2, <1>3, <1>4, <1>5, <1>6, <1>7, <1>8, StepKinds DEF Rests

-----------------------------------------------------------------------------
(* No replication storm                                                     *)

(* The edge writes main may still apply and answer with an echo.            *)
Unanswered == {i \in 1 .. Len(log) : log[i].src = "edge" /\ ledger[i] # "applied"}

(* Two events for each local write: those in the log, two for each request  *)
(* that may still write, and one echo for each edge write main may apply.   *)
BudgetInv ==
    /\ IsFiniteSet(open)
    /\ Len(log) + 2 * Cardinality(open) + Cardinality(Unanswered) <= 2 * writes

LEMMA UnansweredFinite ==
    TypeOK => IsFiniteSet(Unanswered) /\ Cardinality(Unanswered) \in Nat
<1> SUFFICES ASSUME TypeOK PROVE IsFiniteSet(Unanswered) /\ Cardinality(Unanswered) \in Nat
    OBVIOUS
<1>1. IsFiniteSet(1 .. Len(log))
    BY FS_Interval DEF TypeOK
<1>2. IsFiniteSet(Unanswered)
    BY <1>1, FS_Subset DEF Unanswered
<1> QED
    BY <1>2, FS_CardinalityType

(* The number of events and of unanswered ones after one was enqueued.      *)
LEMMA EnqueuedCount ==
    ASSUME IInv, NEW e \in Event, Enqueue(e), UNCHANGED ledger
    PROVE  /\ Len(log') \in Nat
           /\ Cardinality(Unanswered') \in Nat
           /\ Len(log') + Cardinality(Unanswered') <= Len(log) + Cardinality(Unanswered) + 2
<1>1. TypeOK /\ log \in Seq(Event) /\ Len(log) \in Nat
    BY DEF IInv, TypeOK
<1>2. IsFiniteSet(Unanswered) /\ Cardinality(Unanswered) \in Nat
    BY <1>1, UnansweredFinite
<1>3. CASE log' = log
    BY <1>1, <1>2, <1>3 DEF Unanswered
<1>4. CASE log' = Append(log, e)
    <2> DEFINE k == Len(log) + 1
    <2>1. Len(log') = k /\ \A j \in 1 .. Len(log) : log'[j] = log[j]
        BY <1>1, <1>4
    <2>2. Unanswered' \subseteq Unanswered \cup {k}
        BY <1>1, <2>1 DEF Unanswered
    <2>3. /\ IsFiniteSet(Unanswered \cup {k})
          /\ Cardinality(Unanswered \cup {k}) \in {Cardinality(Unanswered), Cardinality(Unanswered) + 1}
        BY <1>2, FS_AddElement
    <2>4. IsFiniteSet(Unanswered') /\ Cardinality(Unanswered') <= Cardinality(Unanswered \cup {k})
        BY <2>2, <2>3, FS_Subset
    <2>5. Cardinality(Unanswered') \in Nat
        BY <2>4, FS_CardinalityType
    <2> QED
        BY <1>1, <1>2, <2>1, <2>3, <2>4, <2>5
<1> QED
    BY <1>3, <1>4 DEF Enqueue

(* Main answers an edge write at most once: the echo it adds is paid for.   *)
LEMMA ArrivesCount ==
    ASSUME IInv, Arrives
    PROVE  /\ Len(log') \in Nat
           /\ Cardinality(Unanswered') \in Nat
           /\ Len(log') + Cardinality(Unanswered') <= Len(log) + Cardinality(Unanswered)
<1>1. TypeOK /\ StoreType /\ log \in Seq(Event) /\ Len(log) \in Nat /\ ledger \in [EventId -> Status]
    BY TypeParts DEF IInv, TypeOK
<1>2. IsFiniteSet(Unanswered) /\ Cardinality(Unanswered) \in Nat
    BY <1>1, UnansweredFinite
<1>3. PICK m \in Node, i \in 1 .. Len(log) : log[i].src = Peer(m) /\ Apply(m, i)
    BY DEF Arrives
<1>4. i \in EventId /\ log[i] \in Event
    BY <1>1, LogAt
<1>5. ASSUME Unanswered' \subseteq Unanswered, Len(log') = Len(log)
      PROVE  /\ Cardinality(Unanswered') \in Nat
             /\ Cardinality(Unanswered') <= Cardinality(Unanswered)
    <2>1. IsFiniteSet(Unanswered') /\ Cardinality(Unanswered') <= Cardinality(Unanswered)
        BY <1>2, <1>5, FS_Subset
    <2> QED
        BY <2>1, FS_CardinalityType
<1>6. CASE UNCHANGED <<log, ledger>>
    BY <1>1, <1>2, <1>6 DEF Unanswered
<1>7. CASE UNCHANGED log /\ ledger[i] = "none" /\ \E r \in Status : ledger' = [ledger EXCEPT ![i] = r]
    <2>1. Unanswered' \subseteq Unanswered
        BY <1>1, <1>4, <1>7 DEF Unanswered
    <2> QED
        BY <1>1, <1>2, <1>5, <1>7, <2>1
<1>8. CASE /\ ledger[i] = "none" /\ ledger' = [ledger EXCEPT ![i] = "applied"]
           /\ Echoes(m, log[i]) /\ log' = Append(log, Echo(m, log[i]))
    <2> DEFINE k == Len(log) + 1
    <2>1. m = "main" /\ log[i].src = "edge"
        BY <1>8 DEF Echoes, FromEdge
    <2>2. Echo(m, log[i]).src = "main"
        BY <1>4, <2>1 DEF Echo, Event
    <2>3. /\ Len(log') = k /\ log'[k].src = "main"
          /\ \A j \in 1 .. Len(log) : log'[j] = log[j]
        BY <1>1, <1>8, <2>2
    <2>4. Unanswered' \subseteq Unanswered \ {i}
        <3>1. ASSUME NEW j \in Unanswered' PROVE j \in Unanswered \ {i}
            <4>1. j \in 1 .. k /\ log'[j].src = "edge" /\ ledger'[j] # "applied"
                BY <2>3, <3>1 DEF Unanswered
            <4>2. j # k /\ j # i
                BY <1>1, <1>4, <1>8, <2>3, <4>1
            <4>3. j \in 1 .. Len(log) /\ log[j].src = "edge"
                BY <1>1, <2>3, <4>1, <4>2
            <4>4. ledger[j] = ledger'[j]
                BY <1>1, <1>4, <1>8, <4>2, <4>3, LogAt
            <4> QED
                BY <4>1, <4>2, <4>3, <4>4 DEF Unanswered
        <3> QED
            BY <3>1
    <2>5. i \in Unanswered
        BY <1>8, <2>1 DEF Unanswered
    <2>6. IsFiniteSet(Unanswered \ {i}) /\ Cardinality(Unanswered \ {i}) = Cardinality(Unanswered) - 1
        BY <1>2, <2>5, FS_RemoveElement
    <2>7. IsFiniteSet(Unanswered') /\ Cardinality(Unanswered') <= Cardinality(Unanswered \ {i})
        BY <2>4, <2>6, FS_Subset
    <2>8. Cardinality(Unanswered') \in Nat
        BY <2>7, FS_CardinalityType
    <2> QED
        BY <1>1, <1>2, <2>3, <2>6, <2>7, <2>8
<1> QED
    BY <1>3, <1>6, <1>7, <1>8 DEF Apply, Enqueue, Known, Status

LEMMA BudgetStep ==
    ASSUME IInv, SourcesInv, BudgetInv, [Next]_vars
    PROVE  BudgetInv'
<1>1. /\ TypeOK /\ StoreType /\ writes \in Nat /\ Len(log) \in Nat
      /\ IsFiniteSet(open) /\ Cardinality(open) \in Nat
    BY TypeParts, BoundsAssumption, FS_CardinalityType DEF IInv, TypeOK, BudgetInv, Gen
<1>2. IsFiniteSet(Unanswered) /\ Cardinality(Unanswered) \in Nat
    BY <1>1, UnansweredFinite
<1>3. CASE Arrives /\ UNCHANGED requests
    BY <1>1, <1>2, <1>3, ArrivesCount DEF BudgetInv, requests
<1>4. CASE UNCHANGED <<log, ledger, writes>> /\ open' \subseteq open
    <2>1. IsFiniteSet(open') /\ Cardinality(open') <= Cardinality(open)
        BY <1>1, <1>4, FS_Subset
    <2>2. Cardinality(open') \in Nat
        BY <2>1, FS_CardinalityType
    <2> QED
        BY <1>1, <1>2, <1>4, <2>1, <2>2 DEF BudgetInv, Unanswered
<1>5. ASSUME NEW n \in Node, NEW s \in Slots, Create(n, s) PROVE BudgetInv'
    <2>1. \E e \in Event : Enqueue(e)
        BY <1>1, <1>5, StampType, SeedType, NeedsType DEF Create, Event
    <2>2. UNCHANGED <<ledger, open>> /\ writes' = writes + 1
        BY <1>5 DEF Create, Write
    <2> QED
        BY <1>1, <1>2, <2>1, <2>2, EnqueuedCount DEF BudgetInv
<1>6. ASSUME NEW n \in Node, NEW s \in Slots, Begin(n, s) PROVE BudgetInv'
    <2>1. UNCHANGED <<log, ledger>> /\ writes' = writes + 1
        BY <1>6 DEF Begin, Write
    <2>2. PICK q : open' = open \cup {q}
        BY <1>6 DEF Begin
    <2>3. /\ IsFiniteSet(open')
          /\ Cardinality(open') \in {Cardinality(open), Cardinality(open) + 1}
        BY <1>1, <2>2, FS_AddElement
    <2> QED
        BY <1>1, <1>2, <2>1, <2>3 DEF BudgetInv, Unanswered
<1>7. ASSUME NEW q \in open, Edit(q) \/ Delete(q) PROVE BudgetInv'
    <2>1. \E e \in Event : Enqueue(e)
        BY <1>1, <1>7, RequestParts, NeedsType DEF Edit, Delete, Event, Value
    <2>2. UNCHANGED <<ledger, writes>> /\ open' = open \ {q}
        BY <1>7 DEF Edit, Delete, End
    <2>3. IsFiniteSet(open') /\ Cardinality(open') = Cardinality(open) - 1
        BY <1>1, <2>2, FS_RemoveElement
    <2> QED
        BY <1>1, <1>2, <2>1, <2>2, <2>3, EnqueuedCount, SMTT(30) DEF BudgetInv
<1>8. ASSUME NEW q \in open, Withdraw(q) PROVE UNCHANGED <<log, ledger, writes>> /\ open' \subseteq open
    BY <1>8 DEF Withdraw, End
<1>9. LocalWrite =>
            \/ \E n \in Node, s \in Slots : Create(n, s) \/ Begin(n, s)
            \/ \E q \in open : Edit(q) \/ Delete(q) \/ Withdraw(q)
    BY DEF LocalWrite
<1> QED
    BY <1>3, <1>4, <1>5, <1>6, <1>7, <1>8, <1>9, StepKinds
    DEF SnapshotArrives, Rests, requests

-----------------------------------------------------------------------------
(* The invariant of the rows                                                *)

RowsInv ==
    /\ IInv
    /\ SourcesInv
    /\ NeedsInv
    /\ BudgetInv
    /\ ReferencesHold
    /\ StableContentIsMains

LEMMA InitRows == Init => RowsInv
<1> SUFFICES ASSUME Init PROVE RowsInv
    OBVIOUS
<1>1. log = <<>> /\ Len(log) = 0 /\ open = {} /\ writes = 0 /\ snap.got = <<>>
    BY DEF Init, Idle
<1>2. SourcesInv /\ NeedsInv
    BY <1>1 DEF Init, SourcesInv, NeedsInv
<1>3. BudgetInv
    <2>1. Unanswered = {}
        BY <1>1 DEF Unanswered
    <2> QED
        BY <1>1, <2>1, FS_EmptySet DEF BudgetInv
<1>4. \A n \in Node, s \in Slots :
        store[n][s] = IF s \in Seeded THEN Seed ELSE Absent
    BY DEF Init
<1>5. Seed.ver = 1 /\ Absent.ver = 0 /\ Seed.val.by = "main"
    BY DEF Seed, Absent
<1>6. ReferencesHold
    BY <1>4, <1>5, SlotsAssumption DEF ReferencesHold, Present
<1>7. StableContentIsMains
    BY <1>4, <1>5, SlotsAssumption DEF StableContentIsMains, Present, Stable, Node
<1> QED
    BY <1>2, <1>3, <1>6, <1>7, InitInv DEF RowsInv

LEMMA NextRows == RowsInv /\ [Next]_vars => RowsInv'
BY NextInv, SourcesStep, NeedsStep, BudgetStep, ReferencesStep, StableStep DEF RowsInv

(* The inductive invariant of the rows and of what is on its way.           *)
THEOREM RowsInvariance == Spec => []RowsInv
<1>1. Init => RowsInv
    BY InitRows
<1>2. RowsInv /\ [Next]_vars => RowsInv'
    BY NextRows
<1> QED
    BY <1>1, <1>2, PTL DEF Spec

(* A row's owners exist on its node, in every interleaving of local writes, *)
(* deletes, retried or reordered events and snapshots.                      *)
THEOREM References == Spec => []ReferencesHold
<1>1. RowsInv => ReferencesHold
    BY DEF RowsInv
<1> QED
    BY <1>1, RowsInvariance, PTL

(* Whatever the edge sends, main's channels, release flags and messages     *)
(* with attachments hold what was written on main.                          *)
THEOREM StableContent == Spec => []StableContentIsMains
<1>1. RowsInv => StableContentIsMains
    BY DEF RowsInv
<1> QED
    BY <1>1, RowsInvariance, PTL

(* Each local write costs at most two events.                               *)
THEOREM NoStorm == Spec => []NoReplicationStorm
<1>1. RowsInv => NoReplicationStorm
    <2> SUFFICES ASSUME RowsInv PROVE NoReplicationStorm
        OBVIOUS
    <2>1. Cardinality(open) \in Nat /\ Cardinality(Unanswered) \in Nat
        BY UnansweredFinite, FS_CardinalityType DEF RowsInv, BudgetInv, IInv
    <2>2. Len(log) \in Nat /\ writes \in Nat
        BY BoundsAssumption DEF RowsInv, IInv, TypeOK, Gen
    <2> QED
        BY <2>1, <2>2 DEF RowsInv, BudgetInv, NoReplicationStorm
<1> QED
    BY <1>1, RowsInvariance, PTL

(* A row that stays in place keeps or raises its version, unless it changed *)
(* between a request's reading and writing it.                              *)
THEOREM Versions == Spec => VersionsNeverRegress
<1>1. RowsInv /\ [Next]_vars =>
        [\A n \in Node : \A s \in Slots \ overlapped' :
            Present(n, s) /\ Present(n, s)' => store'[n][s].ver >= store[n][s].ver]_vars
    BY VersionsStep DEF RowsInv
<1> QED
    BY <1>1, RowsInvariance, PTL DEF Spec, VersionsNeverRegress

-----------------------------------------------------------------------------
(* Rows that are never deleted converge                                     *)

(* The events the requests add.                                             *)
CreateEvent(n, s) ==
    [src |-> n, slot |-> s, gen |-> writes + 1, act |-> "upsert",
     ver |-> 1, base |-> 0, val |-> Stamp(n), start |-> BeginOf(writes + 1),
     needs |-> Needs(n, s), seen |-> Absent.val]
EditEvent(q) ==
    [src |-> q.by, slot |-> q.slot, gen |-> q.row.gen, act |-> "upsert",
     ver |-> q.row.ver + 1, base |-> q.row.ver, val |-> [by |-> q.by, n |-> q.n],
     start |-> BeginOf(q.n), needs |-> Needs(q.by, q.slot), seen |-> q.row.val]
DeleteEvent(q) ==
    [src |-> q.by, slot |-> q.slot, gen |-> q.row.gen, act |-> "delete",
     ver |-> q.row.ver, base |-> q.row.ver, val |-> q.row.val,
     start |-> BeginOf(q.n), needs |-> {}, seen |-> q.row.val]

LEMMA CreateEventType ==
    ASSUME TypeOK, NEW n \in Node, NEW s \in Slots, Create(n, s)
    PROVE  CreateEvent(n, s) \in Event /\ Enqueue(CreateEvent(n, s))
<1>1. Enqueue(CreateEvent(n, s))
    BY DEF Create, CreateEvent
<1>2. CreateEvent(n, s) \in Event
    BY TypeParts, StampType, SeedType, NeedsType DEF Create, Event, CreateEvent
<1> QED
    BY <1>1, <1>2

LEMMA EditEventType ==
    ASSUME TypeOK, NEW q \in open, Edit(q)
    PROVE  EditEvent(q) \in Event /\ Enqueue(EditEvent(q))
<1>1. Enqueue(EditEvent(q))
    BY DEF Edit, EditEvent
<1>2. EditEvent(q) \in Event
    BY TypeParts, RequestParts, NeedsType DEF Event, Value, EditEvent
<1> QED
    BY <1>1, <1>2

LEMMA DeleteEventType ==
    ASSUME TypeOK, NEW q \in open, Delete(q)
    PROVE  DeleteEvent(q) \in Event /\ Enqueue(DeleteEvent(q))
<1>1. Enqueue(DeleteEvent(q))
    BY DEF Delete, DeleteEvent
<1>2. DeleteEvent(q) \in Event
    BY TypeParts, RequestParts DEF Event, DeleteEvent
<1> QED
    BY <1>1, <1>2

(* A write makes a version of at least 1, one more than the one it replaces *)
(* on the node it is made on.                                               *)
Numbered(e) ==
    e.act = "upsert" => e.ver >= 1 /\ (e.src = "edge" => e.ver = e.base + 1)
NumbersInv ==
    /\ \A i \in 1 .. Len(log) : Numbered(log[i])
    /\ \A k \in 1 .. Len(snap.got) : snap.got[k].act = "upsert" /\ snap.got[k].ver >= 1

LEMMA NumbersStep ==
    ASSUME IInv, SourcesInv, NumbersInv, [Next]_vars
    PROVE  NumbersInv'
<1>1. TypeOK /\ StoreType /\ snap \in SnapType /\ snap.got \in Seq(Event)
    BY TypeParts DEF IInv, TypeOK, SnapType
<1>2. \A i \in 1 .. Len(log') :
          (i \in 1 .. Len(log) /\ log'[i] = log[i]) \/ Numbered(log'[i])
    <2>1. ASSUME NEW n \in Node, NEW s \in Slots, Create(n, s), NEW i \in 1 .. Len(log')
          PROVE  (i \in 1 .. Len(log) /\ log'[i] = log[i]) \/ Numbered(log'[i])
        <3>1. Numbered(CreateEvent(n, s))
            BY DEF Numbered, CreateEvent
        <3> QED
            BY <1>1, <2>1, <3>1, CreateEventType, NewEvents
    <2>2. ASSUME NEW q \in open, Edit(q), NEW i \in 1 .. Len(log')
          PROVE  (i \in 1 .. Len(log) /\ log'[i] = log[i]) \/ Numbered(log'[i])
        <3>1. q.row.ver \in Nat
            BY <1>1, RequestParts
        <3>2. Numbered(EditEvent(q))
            BY <3>1 DEF Numbered, EditEvent
        <3> QED
            BY <1>1, <2>2, <3>2, EditEventType, NewEvents
    <2>3. ASSUME NEW q \in open, Delete(q), NEW i \in 1 .. Len(log')
          PROVE  (i \in 1 .. Len(log) /\ log'[i] = log[i]) \/ Numbered(log'[i])
        <3>1. Numbered(DeleteEvent(q))
            BY DEF Numbered, DeleteEvent
        <3> QED
            BY <1>1, <2>3, <3>1, DeleteEventType, NewEvents
    <2>4. ASSUME Arrives, NEW i \in 1 .. Len(log')
          PROVE  (i \in 1 .. Len(log) /\ log'[i] = log[i]) \/ Numbered(log'[i])
        <3>1. PICK m \in Node, j \in 1 .. Len(log) : Apply(m, j)
            BY <2>4 DEF Arrives
        <3>2. log[j] \in Event /\ Echo(m, log[j]) \in Event
            BY <1>1, LogAt, EchoType
        <3>3. CASE log' = log
            BY <2>4, <3>3
        <3>4. CASE Echoes(m, log[j]) /\ Enqueue(Echo(m, log[j]))
            <4>1. Numbered(Echo(m, log[j]))
                <5>1. /\ log[j].ver \in Nat /\ m = "main"
                      /\ Echo(m, log[j]).src = m /\ Echo(m, log[j]).act = log[j].act
                      /\ log[j].act = "upsert" => Echo(m, log[j]).ver = AtLeastOne(log[j].ver)
                    BY <3>2, <3>4 DEF Echo, Event, Echoes, FromEdge
                <5> QED
                    BY <5>1 DEF Numbered, AtLeastOne
            <4> QED
                BY <1>1, <2>4, <3>2, <3>4, <4>1, NewEvents
        <3> QED
            BY <3>1, <3>3, <3>4 DEF Apply
    <2>5. LocalWrite =>
            \/ UNCHANGED log
            \/ \E n \in Node, s \in Slots : Create(n, s)
            \/ \E q \in open : Edit(q) \/ Delete(q)
        BY DEF LocalWrite, Begin, Withdraw
    <2> QED
        BY <2>1, <2>2, <2>3, <2>4, <2>5, StepKinds DEF SnapshotArrives, Rests
<1>3. \A k \in 1 .. Len(snap'.got) : snap'.got[k].act = "upsert" /\ snap'.got[k].ver >= 1
    <2>1. CASE snap'.got \in {snap.got, <<>>}
        BY <2>1 DEF NumbersInv
    <2>2. CASE snap.got # <<>> /\ snap'.got = Tail(snap.got)
        BY <1>1, <2>2 DEF NumbersInv
    <2>3. ASSUME NEW s \in Slots, Present("main", s),
                 snap'.got = Append(snap.got, SnapshotEvent(s))
          PROVE  \A k \in 1 .. Len(snap'.got) : snap'.got[k].act = "upsert" /\ snap'.got[k].ver >= 1
        <3>1. SnapshotEvent(s).act = "upsert" /\ SnapshotEvent(s).ver >= 1
            BY <1>1, <2>3, RowParts DEF SnapshotEvent, Present, Node
        <3> QED
            BY <1>1, <2>3, <3>1 DEF NumbersInv
    <2> QED
        BY <2>1, <2>2, <2>3, StepKinds DEF SnapshotArrives, Rests
<1> QED
    BY <1>2, <1>3 DEF NumbersInv


(* No request was overtaken on s or a row above it, and none was deleted;   *)
(* both nodes may write them.                                               *)
Steady(s) ==
    /\ \A t \in {s} \cup Above(s) : Promoted(t) /\ t \notin overlapped
    /\ ~Deleted(s)

AtStart(s) == IF s \in Seeded THEN Seed ELSE Absent
RowOf(e)   == [gen |-> e.gen, ver |-> e.ver, val |-> e.val]

(* The events in which node n tells of s, and the rows main had of it.      *)
Told(n, s)   == {i \in 1 .. Len(log) : log[i].src = n /\ log[i].slot = s /\ log[i].act = "upsert"}
Version(s, r) == r = AtStart(s) \/ \E i \in Told("main", s) : r = RowOf(log[i])

(* Main holds the latest of its versions.  The edge holds one of them or a  *)
(* row of its own; it has reached every version that arrived, and main has  *)
(* taken over, or gone beyond, every row of the edge that was not refused.  *)
MainLeads(s) ==
    /\ Version(s, store["main"][s])
    /\ \A r : Version(s, r) => r.ver < store["main"][s].ver \/ r = store["main"][s]
EdgeFollows(s) ==
    /\ \/ Version(s, store["edge"][s])
       \/ \E i \in Told("edge", s) : store["edge"][s] = RowOf(log[i])
    /\ store["edge"][s].ver >= AtStart(s).ver
Heard(s) ==
    /\ \A i \in Told("main", s) :
          ledger[i] \in {"applied", "duplicate"} => store["edge"][s].ver >= log[i].ver
    /\ \A i \in Told("edge", s) :
          /\ ledger[i] = "applied" => Version(s, RowOf(log[i]))
          /\ ledger[i] = "duplicate" => store["main"][s].ver > log[i].ver
Copied(s) ==
    \A k \in 1 .. Len(snap.got) :
        snap.got[k].slot = s => Version(s, RowOf(snap.got[k]))

SteadyAt(s) == MainLeads(s) /\ EdgeFollows(s) /\ Heard(s) /\ Copied(s)
SteadyInv   == \A s \in Slots : Steady(s) => SteadyAt(s)

(* The rows events tell of have a version.                                  *)
LEMMA ToldType ==
    ASSUME TypeOK, NumbersInv, NEW s \in Slots
    PROVE  /\ \A n, i : i \in Told(n, s) =>
                i \in EventId /\ i \in 1 .. Len(log) /\ log[i] \in Event /\ RowOf(log[i]) \in Row
                /\ log[i].ver \in Nat /\ log[i].ver >= 1 /\ RowOf(log[i]).ver = log[i].ver
           /\ \A r : Version(s, r) => r \in Row /\ r.ver \in Nat
           /\ \A n \in Node : store[n][s] \in Row /\ store[n][s].ver \in Nat
           /\ AtStart(s).ver \in Nat
<1>1. AtStart(s) \in Row /\ AtStart(s).ver \in Nat
    BY SeedType DEF AtStart, Row
<1>2. ASSUME NEW n, NEW i \in Told(n, s)
      PROVE  /\ i \in EventId /\ i \in 1 .. Len(log) /\ log[i] \in Event
             /\ RowOf(log[i]) \in Row /\ log[i].ver \in Nat /\ log[i].ver >= 1
             /\ RowOf(log[i]).ver = log[i].ver
    <2>1. i \in 1 .. Len(log) /\ log[i].act = "upsert" /\ i \in EventId /\ log[i] \in Event
        BY <1>2, LogAt DEF Told
    <2>2. Numbered(log[i])
        BY <2>1 DEF NumbersInv
    <2> QED
        BY <2>1, <2>2 DEF RowOf, Row, Event, Numbered
<1>3. \A r : Version(s, r) => r \in Row /\ r.ver \in Nat
    BY <1>1, <1>2 DEF Version, Row
<1>4. \A n \in Node : store[n][s] \in Row /\ store[n][s].ver \in Nat
    BY TypeParts, RowParts
<1> QED
    BY <1>1, <1>2, <1>3, <1>4

(* What an event that is added tells of s.                                  *)
LEMMA ToldMore ==
    ASSUME TypeOK, NEW e, log' = Append(log, e), NEW s
    PROVE  /\ \A i \in 1 .. Len(log) : i \in 1 .. Len(log') /\ log'[i] = log[i]
           /\ Len(log') = Len(log) + 1 /\ Len(log) \in Nat /\ log'[Len(log) + 1] = e
           /\ \A n, i : i \in Told(n, s)' <=>
                 \/ i \in Told(n, s)
                 \/ i = Len(log) + 1 /\ e.src = n /\ e.slot = s /\ e.act = "upsert"
           /\ \A r : Version(s, r)' <=>
                 \/ Version(s, r)
                 \/ r = RowOf(e) /\ e.src = "main" /\ e.slot = s /\ e.act = "upsert"
<1>1. log \in Seq(Event) /\ Len(log) \in Nat
    BY DEF TypeOK
<1>2. /\ \A i \in 1 .. Len(log) : i \in 1 .. Len(log') /\ log'[i] = log[i]
      /\ Len(log') = Len(log) + 1 /\ log'[Len(log) + 1] = e
    BY <1>1
<1>3. \A i : i \in 1 .. Len(log') <=> i \in 1 .. Len(log) \/ i = Len(log) + 1
    BY <1>1, <1>2
<1>4. ~(Len(log) + 1 \in 1 .. Len(log))
    BY <1>1
<1>5. ASSUME NEW n, NEW i
      PROVE  i \in Told(n, s)' <=>
                 \/ i \in Told(n, s)
                 \/ i = Len(log) + 1 /\ e.src = n /\ e.slot = s /\ e.act = "upsert"
    BY <1>2, <1>3, <1>4 DEF Told
<1>6. ASSUME NEW r
      PROVE  Version(s, r)' <=>
                 \/ Version(s, r)
                 \/ r = RowOf(e) /\ e.src = "main" /\ e.slot = s /\ e.act = "upsert"
    <2>1. \A i \in Told("main", s) : log'[i] = log[i]
        BY <1>2 DEF Told
    <2>2. (\E i \in Told("main", s)' : r = RowOf(log'[i])) <=>
              \/ \E i \in Told("main", s) : r = RowOf(log[i])
              \/ r = RowOf(e) /\ e.src = "main" /\ e.slot = s /\ e.act = "upsert"
        BY <1>2, <1>5, <2>1
    <2> QED
        BY <2>2 DEF Version
<1> QED
    BY <1>1, <1>2, <1>5, <1>6

(* Main writes a later row of s and tells of it: a request's, or one of the *)
(* edge that it takes over.                                                 *)
LEMMA SteadyOnMain ==
    ASSUME TypeOK, NumbersInv, LogInv, NEW s \in Slots, SteadyAt(s), NEW e \in Event,
           e.src = "main", e.slot = s, e.act = "upsert", e.ver > store["main"][s].ver,
           log' = Append(log, e), store' = Put("main", s, RowOf(e)), snap' = snap,
           \A i \in Told("main", s) : ledger'[i] = ledger[i],
           \A i \in Told("edge", s) :
              ledger'[i] = ledger[i] \/ (ledger'[i] = "applied" /\ RowOf(log[i]) = RowOf(e)),
           ledger'[Len(log) + 1] = "none"
    PROVE  SteadyAt(s)'
<1> DEFINE k == Len(log) + 1
<1>1. /\ \A m, i : i \in Told(m, s) => log'[i] = log[i]
      /\ \A i : i \in Told("main", s)' <=> i \in Told("main", s) \/ i = k
      /\ \A i : i \in Told("edge", s)' <=> i \in Told("edge", s)
      /\ \A r : Version(s, r)' <=> Version(s, r) \/ r = RowOf(e)
    <2>1. \A m, i : i \in Told(m, s) => log'[i] = log[i]
        BY ToldMore DEF Told
    <2>2. /\ \A n, i : i \in Told(n, s)' <=>
                \/ i \in Told(n, s)
                \/ i = k /\ e.src = n /\ e.slot = s /\ e.act = "upsert"
          /\ \A r : Version(s, r)' <=>
                \/ Version(s, r)
                \/ r = RowOf(e) /\ e.src = "main" /\ e.slot = s /\ e.act = "upsert"
        BY ToldMore, SMTT(30)
    <2> QED
        BY <2>1, <2>2
<1>2. store'["main"][s] = RowOf(e) /\ store'["edge"][s] = store["edge"][s]
    BY TypeParts, PutAt DEF Node
<1>3. /\ \A r : Version(s, r) => r.ver \in Nat
      /\ \A m, i : i \in Told(m, s) => log[i].ver \in Nat
      /\ store["main"][s].ver \in Nat /\ RowOf(e).ver \in Nat /\ RowOf(e).ver = e.ver
    BY ToldType DEF Node, RowOf, Event
<1>4. ledger'[k] = "none"
    OBVIOUS
<1> HIDE DEF k
<1>5. MainLeads(s)'
    <2>1. \A r : Version(s, r) => r.ver < RowOf(e).ver
        BY <1>3 DEF SteadyAt, MainLeads
    <2> QED
        BY <1>1, <1>2, <2>1 DEF MainLeads
<1>6. EdgeFollows(s)'
    <2>1. \/ Version(s, store'["edge"][s])
          \/ \E i \in Told("edge", s)' : store'["edge"][s] = RowOf(log'[i])
        <3>1. CASE Version(s, store["edge"][s])
            BY <1>2, <3>1
        <3>2. ASSUME NEW i \in Told("edge", s), store["edge"][s] = RowOf(log[i])
              PROVE  i \in Told("edge", s)' /\ store'["edge"][s] = RowOf(log'[i])
            <4>1. i \in Told("edge", s)'
                BY <1>1
            <4>2. log'[i] = log[i]
                BY <1>1
            <4> QED
                BY <1>2, <3>2, <4>1, <4>2
        <3> QED
            BY <3>1, <3>2 DEF SteadyAt, EdgeFollows
    <2>2. store'["edge"][s].ver >= AtStart(s).ver
        BY <1>2 DEF SteadyAt, EdgeFollows
    <2>3. AtStart(s)' = AtStart(s)
        BY DEF AtStart
    <2> QED
        BY <1>1, <2>1, <2>2, <2>3 DEF EdgeFollows
<1>7. Heard(s)'
    <2>1. ASSUME NEW i \in Told("main", s)', ledger'[i] \in {"applied", "duplicate"}
          PROVE  store'["edge"][s].ver >= log'[i].ver
        BY <1>1, <1>2, <1>4, <2>1 DEF SteadyAt, Heard
    <2>2. ASSUME NEW i \in Told("edge", s)'
          PROVE  /\ ledger'[i] = "applied" => \E r : r = RowOf(log'[i]) /\ Version(s, r)'
                 /\ ledger'[i] = "duplicate" => store'["main"][s].ver > log'[i].ver
        <3>1. i \in Told("edge", s) /\ log'[i] = log[i] /\ log[i].ver \in Nat
            BY <1>1, <1>3, <2>2
        <3>2. ledger'[i] = "applied" => Version(s, RowOf(log[i])) \/ RowOf(log[i]) = RowOf(e)
            BY <3>1 DEF SteadyAt, Heard
        <3>3. ledger'[i] = "duplicate" => store["main"][s].ver > log[i].ver
            BY <3>1 DEF SteadyAt, Heard
        <3>4. ledger'[i] = "applied" => \E r : r = RowOf(log'[i]) /\ Version(s, r)'
            BY <1>1, <3>1, <3>2
        <3>5. ledger'[i] = "duplicate" => store'["main"][s].ver > log[i].ver
            BY <1>2, <1>3, <3>1, <3>3
        <3> QED
            BY <3>1, <3>4, <3>5
    <2> QED
        BY <2>1, <2>2 DEF Heard
<1>8. Copied(s)'
    BY <1>1 DEF SteadyAt, Copied
<1> QED
    BY <1>5, <1>6, <1>7, <1>8 DEF SteadyAt

(* Main's row of s stays: the edge writes it or takes main's, or nothing is *)
(* written of it; main may decide about a row of the edge.                  *)
LEMMA SteadyOffMain ==
    ASSUME TypeOK, NumbersInv, NEW s \in Slots, SteadyAt(s),
           store'["main"][s] = store["main"][s],
           \/ store'["edge"][s] = store["edge"][s]
           \/ /\ store'["edge"][s].ver \in Nat /\ store'["edge"][s].ver >= store["edge"][s].ver
              /\ \/ Version(s, store'["edge"][s])
                 \/ \E i \in Told("edge", s)' : store'["edge"][s] = RowOf(log'[i]),
           \A i \in 1 .. Len(log) : log'[i] = log[i],
           \A i : i \in Told("main", s)' <=> i \in Told("main", s),
           \A i \in Told("edge", s) : i \in Told("edge", s)',
           \A i \in Told("main", s) : ledger'[i] \in {"applied", "duplicate"} =>
              ledger'[i] = ledger[i] \/ store'["edge"][s].ver >= log[i].ver,
           \A i \in Told("edge", s)' :
              \/ ledger'[i] \in {"none", "rejected"}
              \/ i \in Told("edge", s) /\ ledger'[i] = ledger[i]
              \/ i \in Told("edge", s) /\ ledger'[i] = "duplicate"
                 /\ store["main"][s].ver > log[i].ver,
           \A k \in 1 .. Len(snap'.got) :
              snap'.got[k].slot = s => Version(s, RowOf(snap'.got[k]))
    PROVE  SteadyAt(s)'
<1>1. /\ \A m, i : i \in Told(m, s) => log'[i] = log[i]
      /\ \A r : Version(s, r)' <=> Version(s, r)
      /\ AtStart(s)' = AtStart(s)
    <2>1. \A m, i : i \in Told(m, s) => log'[i] = log[i]
        BY DEF Told
    <2> QED
        BY <2>1 DEF Version, AtStart
<1>2. /\ \A m, i : i \in Told(m, s) => log[i].ver \in Nat
      /\ store["edge"][s].ver \in Nat /\ AtStart(s).ver \in Nat
    BY ToldType DEF Node
<1>3. MainLeads(s)'
    BY <1>1 DEF SteadyAt, MainLeads
<1>4. EdgeFollows(s)'
    <2>1. \/ Version(s, store'["edge"][s])
          \/ \E i \in Told("edge", s)' : store'["edge"][s] = RowOf(log'[i])
        BY <1>1 DEF SteadyAt, EdgeFollows
    <2>2. store'["edge"][s].ver >= AtStart(s).ver
        BY <1>2 DEF SteadyAt, EdgeFollows
    <2> QED
        BY <1>1, <2>1, <2>2 DEF EdgeFollows
<1>5. Heard(s)'
    <2>1. ASSUME NEW i \in Told("main", s)', ledger'[i] \in {"applied", "duplicate"}
          PROVE  store'["edge"][s].ver >= log'[i].ver
        BY <1>1, <1>2, <2>1 DEF SteadyAt, Heard
    <2>2. ASSUME NEW i \in Told("edge", s)'
          PROVE  /\ ledger'[i] = "applied" => \E r : r = RowOf(log'[i]) /\ Version(s, r)'
                 /\ ledger'[i] = "duplicate" => store'["main"][s].ver > log'[i].ver
        BY <1>1, <2>2 DEF SteadyAt, Heard
    <2> QED
        BY <2>1, <2>2 DEF Heard
<1>6. Copied(s)'
    BY <1>1 DEF Copied
<1> QED
    BY <1>3, <1>4, <1>5, <1>6 DEF SteadyAt

(* An event that is added and says nothing of what s holds.                 *)
LEMMA Untold ==
    ASSUME TypeOK, NEW s, NEW e,
           log' = log \/ (log' = Append(log, e) /\ (e.slot # s \/ e.act # "upsert"))
    PROVE  /\ \A i \in 1 .. Len(log) : log'[i] = log[i]
           /\ \A n, i : i \in Told(n, s)' <=> i \in Told(n, s)
<1>1. CASE log' = log
    BY <1>1 DEF Told
<1>2. CASE log' = Append(log, e) /\ (e.slot # s \/ e.act # "upsert")
    <2>1. \A i \in 1 .. Len(log) : log'[i] = log[i]
        BY <1>2, ToldMore
    <2>2. \A n, i : i \in Told(n, s)' <=>
                 \/ i \in Told(n, s)
                 \/ i = Len(log) + 1 /\ e.src = n /\ e.slot = s /\ e.act = "upsert"
        BY <1>2, ToldMore
    <2> QED
        BY <1>2, <2>1, <2>2
<1> QED
    BY <1>1, <1>2

LEMMA EnqueuedIsAdded ==
    ASSUME TypeOK, LogInv, NEW e, Enqueue(e), Enqueued(e)
    PROVE  log' = Append(log, e) /\ ledger[Len(log) + 1] = "none"
<1>1. log' = Append(log, e) /\ Len(log) < MaxEvents /\ Len(log) \in Nat
    BY DEF Enqueue, TypeOK
<1>2. Len(log) + 1 \in EventId /\ ~(Len(log) + 1 <= Len(log))
    BY <1>1, MaxEventsNat DEF EventId
<1> QED
    BY <1>1, <1>2 DEF LogInv

(* An upsert is applied on a row it was made from or that is not there, as  *)
(* far as main is concerned; it is a duplicate of a later row only.         *)
LEMMA UpsertSays ==
    ASSUME NEW m \in Node, NEW e \in Event
    PROVE  /\ Verdict(m, e) = "applied" /\ e.act = "upsert"
                => ~Present(m, e.slot) \/ (~Outdated(m, e) /\ ~Conflict(m, e))
           /\ Verdict(m, e) = "duplicate" => Present(m, e.slot) /\ Outdated(m, e)
<1>1. e.act \in {"upsert", "delete"}
    BY DEF Event
<1>2. DeleteVerdict(m, e) # "duplicate"
    BY DEF DeleteVerdict
<1>3. /\ UpsertVerdict(m, e) = "applied" => ~Present(m, e.slot) \/ (~Outdated(m, e) /\ ~Conflict(m, e))
      /\ UpsertVerdict(m, e) = "duplicate" => Present(m, e.slot) /\ Outdated(m, e)
    <2>1. CASE OwnerMissing(m, e) \/ Refused(m, e) \/ ReplyMissing(m, e)
        BY <2>1 DEF UpsertVerdict, Missing
    <2>2. CASE ~OwnerMissing(m, e) /\ ~Refused(m, e) /\ ~ReplyMissing(m, e)
        <3>1. CASE Present(m, e.slot) /\ Outdated(m, e)
            BY <2>2, <3>1 DEF UpsertVerdict, Missing
        <3>2. CASE Present(m, e.slot) /\ ~Outdated(m, e) /\ Conflict(m, e)
            BY <2>2, <3>2 DEF UpsertVerdict, Missing
        <3>3. CASE ~Present(m, e.slot)
            BY <2>2, <3>3 DEF UpsertVerdict, Missing
        <3>4. CASE ~Outdated(m, e) /\ ~Conflict(m, e)
            BY <2>2, <3>4 DEF UpsertVerdict, Missing
        <3> QED
            BY <3>1, <3>2, <3>3, <3>4
    <2> QED
        BY <2>1, <2>2
<1> QED
    BY <1>1, <1>2, <1>3 DEF Verdict

(* A step that leaves a row steady found it so.                             *)
LEMMA SteadyBefore ==
    ASSUME IInv, SourcesInv, [Next]_vars, NEW s \in Slots, Steady(s)'
    PROVE  Steady(s)
<1>1. overlapped \subseteq overlapped'
    BY StepKinds DEF LocalWrite, Create, Begin, Edit, Delete, Withdraw, Overlap, requests
<1>2. Deleted(s) => Deleted(s)'
    BY LogKept DEF Deleted
<1> QED
    BY <1>1, <1>2 DEF Steady

(* No delete of s or of a row above it is in the log.                       *)
LEMMA SteadyUndeleted ==
    ASSUME NEW s \in Slots, Steady(s)
    PROVE  /\ \A i \in 1 .. Len(log) :
                log[i].act = "delete" => s # log[i].slot /\ s \notin Below(log[i].slot)
           /\ \A t \in Slots : t = s \/ s \in Below(t) => Promoted(t)
BY DEF Steady, Deleted, Below

(* A request writes a version of s, which replaces the one before it.       *)
LEMMA SteadyWritten ==
    ASSUME IInv, NumbersInv, NEW s \in Slots, SteadyAt(s), NEW n \in Node, NEW e \in Event,
           Enqueue(e), Enqueued(e), e.src = n, e.slot = s, e.act = "upsert",
           e.ver > store[n][s].ver, store' = Put(n, s, RowOf(e)), UNCHANGED <<ledger, snap>>
    PROVE  SteadyAt(s)'
<1>1. TypeOK /\ LogInv /\ StoreType
    BY TypeParts DEF IInv, DeliveryInv
<1>2. log' = Append(log, e) /\ ledger'[Len(log) + 1] = "none"
    BY <1>1, EnqueuedIsAdded
<1>3. CASE n = "main"
    <2>1. /\ e.src = "main" /\ e.ver > store["main"][s].ver
          /\ store' = Put("main", s, RowOf(e)) /\ snap' = snap
        BY <1>3
    <2>2. /\ \A i \in Told("main", s) : ledger'[i] = ledger[i]
          /\ \A i \in Told("edge", s) :
                ledger'[i] = ledger[i] \/ (ledger'[i] = "applied" /\ RowOf(log[i]) = RowOf(e))
        BY ledger' = ledger
    <2> QED
        BY <1>1, <1>2, <2>1, <2>2, SteadyOnMain
<1>4. CASE n = "edge"
    <2>1. store'["main"][s] = store["main"][s] /\ store'["edge"][s] = RowOf(e)
        BY <1>1, <1>4, PutAt DEF Node
    <2>2. RowOf(e).ver \in Nat /\ store["edge"][s].ver \in Nat /\ RowOf(e).ver >= store["edge"][s].ver
        BY <1>1, <1>4, RowParts DEF RowOf, Event, Node
    <2>3. /\ \A i \in 1 .. Len(log) : log'[i] = log[i]
          /\ log'[Len(log) + 1] = e
          /\ \A m, i : i \in Told(m, s)' <=>
                 \/ i \in Told(m, s)
                 \/ i = Len(log) + 1 /\ e.src = m /\ e.slot = s /\ e.act = "upsert"
        BY <1>1, <1>2, ToldMore, ZenonT(60)
    <2>4. Len(log) + 1 \in Told("edge", s)'
        BY <1>4, <2>3
    <2>5. \A i : i \in Told("main", s)' <=> i \in Told("main", s)
        BY <1>4, <2>3
    <2>6. \A i \in Told("edge", s)' : ledger'[i] = "none" \/ (i \in Told("edge", s) /\ ledger'[i] = ledger[i])
        BY <1>2, <2>3
    <2>7. \A k \in 1 .. Len(snap'.got) : snap'.got[k].slot = s => Version(s, RowOf(snap'.got[k]))
        BY DEF SteadyAt, Copied
    <2> QED
        BY <1>1, <2>1, <2>2, <2>3, <2>4, <2>5, <2>6, <2>7, SteadyOffMain
<1> QED
    BY <1>3, <1>4 DEF Node

(* A step that touches no row of s and tells nothing of it.                 *)
LEMMA SteadyUntouched ==
    ASSUME TypeOK, NumbersInv, NEW s \in Slots, SteadyAt(s),
           \A n \in Node : store'[n][s] = store[n][s],
           \A i \in 1 .. Len(log) : log'[i] = log[i],
           \A n, i : i \in Told(n, s)' <=> i \in Told(n, s),
           \A i \in Told("main", s) \cup Told("edge", s) : ledger'[i] = ledger[i],
           \A k \in 1 .. Len(snap'.got) :
              snap'.got[k].slot = s => Version(s, RowOf(snap'.got[k]))
    PROVE  SteadyAt(s)'
<1>1. store'["main"][s] = store["main"][s] /\ store'["edge"][s] = store["edge"][s]
    BY DEF Node
<1>2. \A i : i \in Told("main", s)' <=> i \in Told("main", s)
    OBVIOUS
<1>3. \A i \in Told("main", s) : ledger'[i] = ledger[i]
    OBVIOUS
<1>4. \A i \in Told("edge", s)' : i \in Told("edge", s) /\ ledger'[i] = ledger[i]
    OBVIOUS
<1> QED
    BY <1>1, <1>2, <1>3, <1>4, SteadyOffMain

LEMMA SteadyLocal ==
    ASSUME IInv, SourcesInv, NumbersInv, NEW s \in Slots, SteadyAt(s), LocalWrite, snap' = snap,
           [Next]_vars, Steady(s)'
    PROVE  SteadyAt(s)'
<1>1. TypeOK /\ LogInv /\ StoreType
    BY TypeParts DEF IInv, DeliveryInv
<1>2. ledger' = ledger
    BY DEF LocalWrite, Create, Begin, Edit, Delete, Withdraw, Write, End
<1>3. \A k \in 1 .. Len(snap'.got) : snap'.got[k].slot = s => Version(s, RowOf(snap'.got[k]))
    BY DEF SteadyAt, Copied
<1>4. Steady(s)
    BY SteadyBefore
<1>5. /\ \A t \in Slots : t = s \/ s \in Below(t) => Promoted(t)
      /\ s \notin overlapped'
    BY <1>4, SteadyUndeleted DEF Steady
<1>6. ASSUME \A n \in Node : store'[n][s] = store[n][s],
             NEW e, log' = log \/ (log' = Append(log, e) /\ (e.slot # s \/ e.act # "upsert"))
      PROVE  SteadyAt(s)'
    <2>1. /\ \A i \in 1 .. Len(log) : log'[i] = log[i]
          /\ \A n, i : i \in Told(n, s)' <=> i \in Told(n, s)
        BY <1>1, <1>6, Untold
    <2> QED
        BY <1>1, <1>2, <1>3, <1>6, <2>1, SteadyUntouched
<1>7. ASSUME NEW n \in Node, NEW t \in Slots, Create(n, t) PROVE SteadyAt(s)'
    <2> DEFINE e == CreateEvent(n, t)
    <2>1. e \in Event /\ Enqueue(e) /\ store' = Put(n, t, RowOf(e))
        BY <1>1, <1>7, CreateEventType DEF Create, CreateEvent, RowOf
    <2>2. e.src = n /\ e.slot = t /\ e.act = "upsert" /\ e.ver = 1
        BY DEF CreateEvent
    <2>3. store[n][t].ver = 0
        BY <1>1, <1>7, RowParts DEF Create, Present
    <2> HIDE DEF e
    <2>4. CASE t = s
        <3>1. Enqueued(e)
            BY <1>5, <2>2, <2>4 DEF Enqueued
        <3>2. e.ver > store[n][s].ver
            BY <2>2, <2>3, <2>4
        <3> QED
            BY <1>7, <2>1, <2>2, <2>4, <3>1, <3>2, SteadyWritten DEF Create, Write
    <2>5. CASE t # s
        <3>1. \A m \in Node : store'[m][s] = store[m][s]
            BY <1>1, <2>1, <2>5, PutAt
        <3> QED
            BY <1>6, <2>1, <2>2, <2>5, <3>1 DEF Enqueue
    <2> QED
        BY <2>4, <2>5
<1>8. ASSUME NEW q \in open, Edit(q) PROVE SteadyAt(s)'
    <2> DEFINE e == EditEvent(q)
    <2>1. e \in Event /\ Enqueue(e) /\ store' = Put(q.by, q.slot, RowOf(e))
        BY <1>1, <1>8, EditEventType DEF Edit, EditEvent, RowOf
    <2>2. e.src = q.by /\ e.slot = q.slot /\ e.act = "upsert" /\ e.ver = q.row.ver + 1
        BY DEF EditEvent
    <2>3. q.by \in Node /\ q.slot \in Slots /\ q.row.ver \in Nat
        BY <1>1, RequestParts
    <2> HIDE DEF e
    <2>4. CASE q.slot = s
        <3>1. Enqueued(e)
            BY <1>5, <2>2, <2>4 DEF Enqueued
        <3>2. store[q.by][s] = q.row
            BY <1>5, <1>8, <2>4 DEF Edit, Overlap
        <3>3. e.ver > store[q.by][s].ver
            BY <2>2, <2>3, <3>2
        <3> QED
            BY <1>8, <2>1, <2>2, <2>3, <2>4, <3>1, <3>3, SteadyWritten DEF Edit, End
    <2>5. CASE q.slot # s
        <3>1. \A m \in Node : store'[m][s] = store[m][s]
            BY <1>1, <2>1, <2>3, <2>5, PutAt
        <3> QED
            BY <1>6, <2>1, <2>2, <2>5, <3>1 DEF Enqueue
    <2> QED
        BY <2>4, <2>5
<1>9. ASSUME NEW q \in open, Delete(q) PROVE SteadyAt(s)'
    <2> DEFINE e == DeleteEvent(q)
    <2>1. e \in Event /\ Enqueue(e)
        BY <1>1, <1>9, DeleteEventType
    <2>2. e.slot = q.slot /\ e.act = "delete"
        BY DEF DeleteEvent
    <2>3. q.by \in Node /\ q.slot \in Slots
        BY <1>1, RequestParts
    <2> HIDE DEF e
    <2>4. s # q.slot /\ s \notin Below(q.slot)
        <3> SUFFICES ASSUME s = q.slot \/ s \in Below(q.slot) PROVE FALSE
            OBVIOUS
        <3>1. log' = Append(log, e)
            BY <1>5, <2>1, <2>2, <2>3 DEF Enqueue, Enqueued
        <3>2. Len(log) + 1 \in 1 .. Len(log') /\ log'[Len(log) + 1] = e
            BY <1>1, <3>1, ToldMore
        <3>3. \A i \in 1 .. Len(log') :
                  log'[i].act = "delete" => s # log'[i].slot /\ s \notin Below(log'[i].slot)
            BY DEF Steady, Deleted, Below
        <3> QED
            BY <2>2, <3>2, <3>3
    <2>5. \A m \in Node : store'[m][s] = store[m][s]
        BY <1>1, <1>9, <2>3, <2>4, WithoutAt DEF Delete
    <2> QED
        BY <1>6, <2>1, <2>2, <2>5 DEF Enqueue
<1>10. UNCHANGED <<store, log>> => SteadyAt(s)'
    BY <1>6
<1>11. LocalWrite =>
            \/ UNCHANGED <<store, log>>
            \/ \E n \in Node, t \in Slots : Create(n, t)
            \/ \E q \in open : Edit(q) \/ Delete(q)
    BY DEF LocalWrite, Begin, Withdraw
<1> QED
    BY <1>7, <1>8, <1>9, <1>10, <1>11

LEMMA SteadyApplied ==
    ASSUME IInv, NumbersInv, NEW s \in Slots, Steady(s), SteadyAt(s), snap' = snap,
           NEW m \in Node, NEW i \in 1 .. Len(log), log[i].src = Peer(m), Apply(m, i)
    PROVE  SteadyAt(s)'
<1>1. TypeOK /\ LogInv /\ StoreType /\ log[i] \in Event /\ i \in EventId
    BY TypeParts, LogAt DEF IInv, DeliveryInv
<1>2. \A k \in 1 .. Len(snap'.got) : snap'.got[k].slot = s => Version(s, RowOf(snap'.got[k]))
    BY DEF SteadyAt, Copied
<1>3. /\ log[i].act \in {"upsert", "delete"} /\ log[i].slot \in Slots
      /\ log[i].ver \in Nat /\ m \in {"main", "edge"}
    BY <1>1 DEF Event, Node
<1>4. /\ ledger \in [EventId -> Status]
      /\ \A n, j : j \in Told(n, s) => j \in EventId /\ j \in 1 .. Len(log) /\ log[j].slot = s
            /\ log[j].act = "upsert" /\ log[j].src = n
    BY <1>1, ToldType DEF TypeOK, Told
<1>5. CASE UNCHANGED <<store, log, ledger>>
    <2>1. /\ \A j \in 1 .. Len(log) : log'[j] = log[j]
          /\ \A n, j : j \in Told(n, s)' <=> j \in Told(n, s)
        BY <1>1, <1>5, Untold
    <2> QED
        BY <1>1, <1>2, <1>5, <2>1, SteadyUntouched
<1>6. CASE /\ Verdict(m, log[i]) \in {"rejected", "duplicate"}
           /\ ledger' = [ledger EXCEPT ![i] = Verdict(m, log[i])]
           /\ UNCHANGED <<store, log>>
    <2>1. /\ \A j \in 1 .. Len(log) : log'[j] = log[j]
          /\ \A n, j : j \in Told(n, s)' <=> j \in Told(n, s)
        BY <1>1, <1>6, Untold
    <2>2. \A j \in EventId : ledger'[j] = IF j = i THEN Verdict(m, log[i]) ELSE ledger[j]
        BY <1>4, <1>6
    <2>3. Verdict(m, log[i]) = "duplicate" => store[m][log[i].slot].ver > log[i].ver
        <3>1. Verdict(m, log[i]) = "duplicate" => Outdated(m, log[i])
            BY <1>1, UpsertSays
        <3>2. store[m][log[i].slot].ver \in Nat
            BY <1>1, <1>3, RowParts
        <3> QED
            BY <1>3, <3>1, <3>2 DEF Outdated
    <2>4. \A j \in Told("main", s) : ledger'[j] \in {"applied", "duplicate"} =>
              ledger'[j] = ledger[j] \/ store'["edge"][s].ver >= log[j].ver
        <3> SUFFICES ASSUME NEW j \in Told("main", s), ledger'[j] \in {"applied", "duplicate"},
                            ledger'[j] # ledger[j]
                     PROVE  store'["edge"][s].ver >= log[j].ver
            OBVIOUS
        <3>1. j = i /\ Verdict(m, log[i]) = "duplicate" /\ log[i].slot = s /\ log[i].src = "main"
            BY <1>4, <1>6, <2>2
        <3>2. m = "edge"
            BY <1>3, <3>1 DEF Peer
        <3>3. store["edge"][s].ver \in Nat
            BY <1>1, <1>3, <3>2, RowParts
        <3> QED
            BY <1>3, <1>6, <2>3, <3>1, <3>2, <3>3
    <2>5. \A j \in Told("edge", s)' :
              \/ ledger'[j] \in {"none", "rejected"}
              \/ j \in Told("edge", s) /\ ledger'[j] = ledger[j]
              \/ j \in Told("edge", s) /\ ledger'[j] = "duplicate"
                 /\ store["main"][s].ver > log[j].ver
        <3> SUFFICES ASSUME NEW j \in Told("edge", s), ledger'[j] # ledger[j],
                            ledger'[j] # "rejected"
                     PROVE  ledger'[j] = "duplicate" /\ store["main"][s].ver > log[j].ver
            BY <2>1
        <3>1. j = i /\ Verdict(m, log[i]) = "duplicate" /\ ledger'[j] = "duplicate"
              /\ log[i].slot = s /\ log[i].src = "edge"
            BY <1>4, <1>6, <2>2
        <3>2. m = "main"
            BY <1>3, <3>1 DEF Peer
        <3> QED
            BY <2>3, <3>1, <3>2
    <2>6. store'["main"][s] = store["main"][s] /\ store'["edge"][s] = store["edge"][s]
        BY <1>6
    <2> QED
        BY <1>1, <1>2, <2>1, <2>4, <2>5, <2>6, SteadyOffMain
<1>7. CASE /\ Verdict(m, log[i]) = "applied" /\ ~Known(i)
           /\ ledger' = [ledger EXCEPT ![i] = "applied"]
           /\ store' = Applied(m, log[i])
           /\ IF Echoes(m, log[i]) THEN Enqueue(Echo(m, log[i])) ELSE log' = log
    <2>1. \A j \in EventId : ledger'[j] = IF j = i THEN "applied" ELSE ledger[j]
        BY <1>4, <1>7
    <2> DEFINE e == Echo(m, log[i])
    <2>2. /\ e \in Event /\ e.slot = log[i].slot /\ e.act = log[i].act /\ e.src = m
          /\ e.gen = log[i].gen /\ e.val = log[i].val
          /\ e.act = "upsert" => e.ver = AtLeastOne(log[i].ver)
        BY <1>1, <1>3, EchoType, ZenonT(60) DEF Echo, Event
    <2> HIDE DEF e
    <2>3. CASE log[i].slot # s \/ log[i].act = "delete"
        <3>1. \A n \in Node : store'[n][s] = store[n][s]
            <4>1. CASE log[i].act = "delete"
                <5>1. s # log[i].slot /\ s \notin Below(log[i].slot)
                    BY <4>1, SteadyUndeleted
                <5>2. store' = Without(m, log[i].slot)
                    BY <1>1, <1>7, <4>1 DEF Applied
                <5> QED
                    BY <1>1, <1>3, <5>1, <5>2, WithoutAt
            <4>2. CASE log[i].act = "upsert" /\ log[i].slot # s
                <5>1. \E r : store' = Put(m, log[i].slot, r)
                    BY <1>7, <4>2 DEF Applied
                <5> QED
                    BY <1>1, <1>3, <4>2, <5>1, PutAt
            <4> QED
                BY <1>3, <2>3, <4>1, <4>2
        <3>2. log' = log \/ (log' = Append(log, e) /\ (e.slot # s \/ e.act # "upsert"))
            BY <1>7, <2>2, <2>3 DEF Enqueue, e
        <3>3. /\ \A j \in 1 .. Len(log) : log'[j] = log[j]
              /\ \A n, j : j \in Told(n, s)' <=> j \in Told(n, s)
            BY <1>1, <3>2, Untold
        <3>4. \A j \in Told("main", s) \cup Told("edge", s) : ledger'[j] = ledger[j]
            BY <1>4, <2>1, <2>3
        <3> QED
            BY <1>1, <1>2, <3>1, <3>3, <3>4, SteadyUntouched
    <2>4. CASE log[i].slot = s /\ log[i].act = "upsert"
        <3>1. Numbered(log[i]) /\ log[i].ver >= 1 /\ AtLeastOne(log[i].ver) = log[i].ver
            BY <1>3, <2>4 DEF NumbersInv, Numbered, AtLeastOne
        <3>2. store' = Put(m, s, RowOf(log[i]))
            BY <1>7, <2>4, <3>1 DEF Applied, RowOf
        <3>3. store[m][s].ver \in Nat
            BY <1>1, RowParts
        <3>4. CASE m = "main"
            <4>1. log[i].src = "edge" /\ FromEdge(m, log[i])
                BY <3>4 DEF Peer, FromEdge
            <4>2. i \in Told("edge", s) /\ RowOf(e) = RowOf(log[i])
                BY <2>2, <2>4, <3>1, <4>1 DEF Told, RowOf
            <4>3. e.ver > store["main"][s].ver
                <5>1. CASE ~Present(m, log[i].slot)
                    BY <1>3, <2>2, <2>4, <3>1, <3>3, <3>4, <5>1 DEF Present
                <5>2. CASE ~Conflict(m, log[i])
                    <6>1. log[i].base = store[m][s].ver
                        BY <2>4, <4>1, <5>2 DEF Conflict
                    <6>2. log[i].ver = log[i].base + 1
                        BY <2>4, <3>1, <4>1 DEF Numbered
                    <6> QED
                        BY <2>2, <2>4, <3>1, <3>3, <3>4, <6>1, <6>2
                <5> QED
                    BY <1>1, <1>7, <2>4, <5>1, <5>2, UpsertSays
            <4>4. Enqueue(e) /\ Enqueued(e) /\ e.src = "main" /\ e.slot = s /\ e.act = "upsert"
                BY <1>7, <2>2, <2>4, <3>4, <4>1 DEF Enqueued, Echoes, e
            <4>5. log' = Append(log, e) /\ ledger[Len(log) + 1] = "none"
                BY <1>1, <4>4, EnqueuedIsAdded
            <4>6. ledger'[Len(log) + 1] = "none"
                <5>1. Len(log) + 1 \in EventId /\ Len(log) + 1 # i
                    BY <1>1, <4>4, MaxEventsNat DEF Enqueue, TypeOK, EventId
                <5> QED
                    BY <2>1, <4>5, <5>1
            <4>7. \A j \in Told("main", s) : ledger'[j] = ledger[j]
                BY <1>4, <2>1, <4>1
            <4>8. \A j \in Told("edge", s) :
                      ledger'[j] = ledger[j] \/ (ledger'[j] = "applied" /\ RowOf(log[j]) = RowOf(e))
                BY <1>4, <2>1, <4>2
            <4>9. store' = Put("main", s, RowOf(e))
                BY <3>2, <3>4, <4>2
            <4> QED
                BY <1>1, <2>2, <4>3, <4>4, <4>5, <4>6, <4>7, <4>8, <4>9, SteadyOnMain
        <3>5. CASE m = "edge"
            <4>1. log[i].src = "main" /\ ~Echoes(m, log[i]) /\ i \in Told("main", s)
                BY <2>4, <3>5 DEF Peer, Echoes, FromEdge, Told
            <4>2. store'["main"][s] = store["main"][s] /\ store'["edge"][s] = RowOf(log[i])
                BY <1>1, <3>2, <3>5, PutAt DEF Node
            <4>3. RowOf(log[i]).ver = log[i].ver /\ log[i].ver >= store["edge"][s].ver
                <5>1. ~Present(m, log[i].slot) \/ ~Outdated(m, log[i])
                    BY <1>1, <1>7, <2>4, UpsertSays
                <5> QED
                    BY <1>3, <2>4, <3>3, <3>5, <5>1 DEF Present, Outdated, RowOf
            <4>4. Version(s, RowOf(log[i]))
                BY <4>1 DEF Version
            <4>5. /\ \A j \in 1 .. Len(log) : log'[j] = log[j]
                  /\ \A n, j : j \in Told(n, s)' <=> j \in Told(n, s)
                BY <1>1, <1>7, <4>1, Untold
            <4>6. \A j \in Told("main", s) : ledger'[j] \in {"applied", "duplicate"} =>
                      ledger'[j] = ledger[j] \/ store'["edge"][s].ver >= log[j].ver
                BY <1>3, <1>4, <2>1, <4>2, <4>3
            <4>7. \A j \in Told("edge", s)' : j \in Told("edge", s) /\ ledger'[j] = ledger[j]
                BY <1>4, <2>1, <4>1, <4>5
            <4>8. store'["edge"][s].ver \in Nat /\ store'["edge"][s].ver >= store["edge"][s].ver
                BY <1>3, <4>2, <4>3
            <4>9. Version(s, store'["edge"][s])
                BY <4>2, <4>4
            <4> QED
                BY <1>1, <1>2, <4>2, <4>5, <4>6, <4>7, <4>8, <4>9, SteadyOffMain
        <3> QED
            BY <1>3, <3>4, <3>5
    <2> QED
        BY <1>3, <2>3, <2>4
<1> QED
    BY <1>5, <1>6, <1>7 DEF Apply

LEMMA SteadyCopied ==
    ASSUME IInv, NumbersInv, NEW s \in Slots, SteadyAt(s), SnapshotArrives
    PROVE  SteadyAt(s)'
<1> DEFINE e == Head(snap.got)
<1>1. TypeOK /\ StoreType /\ snap.got \in Seq(Event) /\ "edge" \in Node
    BY TypeParts DEF IInv, TypeOK, SnapType, Node
<1>2. /\ e = snap.got[1] /\ 1 \in 1 .. Len(snap.got) /\ e \in Event
      /\ \A k \in 1 .. Len(snap'.got) : k + 1 \in 1 .. Len(snap.got) /\ snap'.got[k] = snap.got[k + 1]
    BY <1>1 DEF SnapshotArrives
<1>3. store' = IF Verdict("edge", e) = "applied" THEN Applied("edge", e) ELSE store
    BY DEF SnapshotArrives
<1> HIDE DEF e
<1>4. e.act = "upsert" /\ e.ver >= 1 /\ e.ver \in Nat /\ AtLeastOne(e.ver) = e.ver /\ e.slot \in Slots
    BY <1>2 DEF NumbersInv, Event, AtLeastOne
<1>5. \A k \in 1 .. Len(snap'.got) : snap'.got[k].slot = s => Version(s, RowOf(snap'.got[k]))
    BY <1>2 DEF SteadyAt, Copied
<1>6. /\ \A j \in 1 .. Len(log) : log'[j] = log[j]
      /\ \A n, j : j \in Told(n, s)' <=> j \in Told(n, s)
      /\ ledger' = ledger
    BY <1>1, Untold DEF SnapshotArrives
<1>7. CASE e.slot = s /\ Verdict("edge", e) = "applied"
    <2>1. store' = Put("edge", s, RowOf(e))
        BY <1>3, <1>4, <1>7 DEF Applied, RowOf
    <2>2. store'["main"][s] = store["main"][s] /\ store'["edge"][s] = RowOf(e)
        BY <1>1, <2>1, PutAt DEF Node
    <2>3. RowOf(e).ver = e.ver /\ store["edge"][s].ver \in Nat /\ e.ver >= store["edge"][s].ver
        <3>1. ~Present("edge", s) \/ ~Outdated("edge", e)
            BY <1>1, <1>2, <1>4, <1>7, UpsertSays
        <3>2. store["edge"][s].ver \in Nat
            BY <1>1, RowParts
        <3> QED
            BY <1>4, <1>7, <3>1, <3>2 DEF Present, Outdated, RowOf
    <2>4. Version(s, RowOf(e))
        BY <1>2, <1>7 DEF SteadyAt, Copied
    <2>5. \A j \in Told("edge", s)' : j \in Told("edge", s) /\ ledger'[j] = ledger[j]
        BY <1>6
    <2>6. \A j \in Told("main", s) : ledger'[j] = ledger[j]
        BY <1>6
    <2> QED
        BY <1>1, <1>4, <1>5, <1>6, <2>2, <2>3, <2>4, <2>5, <2>6, SteadyOffMain
<1>8. CASE e.slot # s \/ Verdict("edge", e) # "applied"
    <2>1. store' = store \/ (e.slot # s /\ \E r : store' = Put("edge", e.slot, r))
        BY <1>3, <1>4, <1>8 DEF Applied
    <2>2. \A n \in Node : store'[n][s] = store[n][s]
        BY <1>1, <1>4, <2>1, PutAt
    <2>3. \A j \in Told("main", s) \cup Told("edge", s) : ledger'[j] = ledger[j]
        BY <1>6
    <2> QED
        BY <1>1, <1>5, <1>6, <2>2, <2>3, SteadyUntouched
<1> QED
    BY <1>7, <1>8

LEMMA SteadyRests ==
    ASSUME IInv, NumbersInv, NEW s \in Slots, SteadyAt(s), Rests
    PROVE  SteadyAt(s)'
<1>1. TypeOK /\ StoreType /\ snap.got \in Seq(Event) /\ "main" \in Node
    BY TypeParts DEF IInv, TypeOK, SnapType, Node
<1>2. /\ \A j \in 1 .. Len(log) : log'[j] = log[j]
      /\ \A n, j : j \in Told(n, s)' <=> j \in Told(n, s)
      /\ ledger' = ledger /\ store' = store
    BY <1>1, Untold DEF Rests
<1>3. \A k \in 1 .. Len(snap'.got) : snap'.got[k].slot = s => Version(s, RowOf(snap'.got[k]))
    <2>1. CASE snap'.got \in {snap.got, <<>>}
        BY <2>1 DEF SteadyAt, Copied
    <2>2. ASSUME NEW t \in Slots, snap'.got = Append(snap.got, SnapshotEvent(t)),
                 NEW k \in 1 .. Len(snap'.got), snap'.got[k].slot = s
          PROVE  Version(s, RowOf(snap'.got[k]))
        <3>1. CASE k \in 1 .. Len(snap.got)
            <4>1. snap'.got[k] = snap.got[k]
                BY <1>1, <2>2, <3>1
            <4> QED
                BY <2>2, <3>1, <4>1 DEF SteadyAt, Copied
        <3>2. CASE k \notin 1 .. Len(snap.got)
            <4>1. snap'.got[k] = SnapshotEvent(t)
                BY <1>1, <2>2, <3>2
            <4>2. t = s
                BY <2>2, <4>1 DEF SnapshotEvent
            <4>3. RowOf(snap'.got[k]) = store["main"][s]
                <5>1. store["main"][s] \in Row
                    BY <1>1, RowParts
                <5> QED
                    BY <4>1, <4>2, <5>1 DEF RowOf, SnapshotEvent, Row
            <4> QED
                BY <4>3 DEF SteadyAt, MainLeads
        <3> QED
            BY <3>1, <3>2
    <2> QED
        BY <2>1, <2>2 DEF Rests
<1>4. \A n \in Node : store'[n][s] = store[n][s]
    BY <1>2
<1>5. \A j \in Told("main", s) \cup Told("edge", s) : ledger'[j] = ledger[j]
    BY <1>2
<1> QED
    BY <1>1, <1>2, <1>3, <1>4, <1>5, SteadyUntouched

LEMMA SteadyStep ==
    ASSUME IInv, SourcesInv, NumbersInv, SteadyInv, [Next]_vars
    PROVE  SteadyInv'
<1> SUFFICES ASSUME NEW s \in Slots, Steady(s)' PROVE SteadyAt(s)'
    BY DEF SteadyInv
<1>1. Steady(s) /\ SteadyAt(s)
    BY SteadyBefore DEF SteadyInv
<1>2. LocalWrite /\ snap' = snap => SteadyAt(s)'
    BY <1>1, SteadyLocal
<1>3. Arrives /\ snap' = snap => SteadyAt(s)'
    <2> SUFFICES ASSUME Arrives, snap' = snap PROVE SteadyAt(s)'
        OBVIOUS
    <2>1. PICK m \in Node, i \in 1 .. Len(log) : log[i].src = Peer(m) /\ Apply(m, i)
        BY DEF Arrives
    <2> QED
        BY <1>1, <2>1, SteadyApplied
<1>4. SnapshotArrives => SteadyAt(s)'
    BY <1>1, SteadyCopied
<1>5. Rests => SteadyAt(s)'
    BY <1>1, SteadyRests
<1> QED
    BY <1>2, <1>3, <1>4, <1>5, StepKinds

LEMMA InitSteady == Init => NumbersInv /\ SteadyInv
<1> SUFFICES ASSUME Init PROVE NumbersInv /\ SteadyInv
    OBVIOUS
<1>1. log = <<>> /\ Len(log) = 0 /\ snap.got = <<>> /\ Len(snap.got) = 0
    BY DEF Init, Idle
<1>2. NumbersInv
    BY <1>1 DEF NumbersInv
<1>3. ASSUME NEW s \in Slots PROVE SteadyAt(s)
    <2>1. store["main"][s] = AtStart(s) /\ store["edge"][s] = AtStart(s)
        BY DEF Init, AtStart, Node
    <2>2. \A n : Told(n, s) = {}
        BY <1>1 DEF Told
    <2>3. \A r : Version(s, r) <=> r = AtStart(s)
        BY <2>2 DEF Version
    <2>4. AtStart(s).ver \in Nat
        BY SeedType DEF AtStart, Row
    <2>5. MainLeads(s)
        BY <2>1, <2>3 DEF MainLeads
    <2>6. EdgeFollows(s)
        BY <2>1, <2>3, <2>4 DEF EdgeFollows
    <2>7. Heard(s) /\ Copied(s)
        BY <1>1, <2>2 DEF Heard, Copied
    <2> QED
        BY <2>5, <2>6, <2>7 DEF SteadyAt
<1> QED
    BY <1>2, <1>3 DEF SteadyInv

(* What is there when nothing is on its way: the edge has heard of main's   *)
(* version, and main of the edge's.                                         *)
LEMMA SteadyConverged ==
    ASSUME IInv, NumbersInv, Quiet, NEW s \in Slots, SteadyAt(s), ~DeadLettered(s)
    PROVE  store["main"][s] = store["edge"][s]
<1>1. TypeOK /\ LogInv /\ SettledInv
    BY DEF IInv, DeliveryInv
<1>2. ASSUME NEW n, NEW i \in Told(n, s)
      PROVE  ledger[i] \in {"applied", "duplicate"}
    <2>1. i \in EventId /\ i \in 1 .. Len(log) /\ log[i].slot = s /\ log[i].act = "upsert"
        BY <1>1, ToldType DEF Told
    <2>2. row[i] # "none"
        BY <1>1, <2>1 DEF LogInv
    <2>3. row[i] # "dead"
        BY <2>1 DEF DeadLettered
    <2>4. row[i] = "delivered"
        BY <1>1, <2>1, <2>2, <2>3 DEF Quiet, TypeOK, RowStatus
    <2> QED
        BY <1>1, <2>1, <2>4 DEF SettledInv
<1>3. /\ \A n, i : i \in Told(n, s) => RowOf(log[i]).ver = log[i].ver /\ log[i].ver \in Nat
      /\ \A n \in Node : store[n][s].ver \in Nat
      /\ AtStart(s).ver \in Nat
    BY <1>1, ToldType
<1>4. store["main"][s].ver \in Nat /\ store["edge"][s].ver \in Nat
    BY <1>3 DEF Node
<1>5. store["edge"][s].ver >= store["main"][s].ver
    <2>1. CASE store["main"][s] = AtStart(s)
        BY <2>1 DEF SteadyAt, EdgeFollows
    <2>2. ASSUME NEW i \in Told("main", s), store["main"][s] = RowOf(log[i])
          PROVE  store["edge"][s].ver >= store["main"][s].ver
        BY <1>2, <1>3, <2>2 DEF SteadyAt, Heard
    <2> QED
        BY <2>1, <2>2 DEF SteadyAt, MainLeads, Version
<1>6. Version(s, store["edge"][s])
    <2>1. ASSUME NEW i \in Told("edge", s), store["edge"][s] = RowOf(log[i])
          PROVE  Version(s, store["edge"][s])
        <3>1. ledger[i] # "duplicate"
            BY <1>3, <1>4, <1>5, <2>1 DEF SteadyAt, Heard
        <3> QED
            BY <1>2, <2>1, <3>1 DEF SteadyAt, Heard
    <2> QED
        BY <2>1 DEF SteadyAt, EdgeFollows
<1> QED
    BY <1>4, <1>5, <1>6 DEF SteadyAt, MainLeads

(* The inductive invariant of versions.                                     *)
VersionsInv == RowsInv /\ NumbersInv /\ SteadyInv

LEMMA VersionsInvariance == Spec => []VersionsInv
<1>1. Init => VersionsInv
    BY InitRows, InitSteady DEF VersionsInv
<1>2. VersionsInv /\ [Next]_vars => VersionsInv'
    BY NextRows, NumbersStep, SteadyStep DEF VersionsInv, RowsInv
<1> QED
    BY <1>1, <1>2, PTL DEF Spec

(* When everything is delivered, a row both nodes may have written and that *)
(* was never deleted is the same on both, whatever faults and snapshots     *)
(* there were, unless an event of it was dead-lettered or it changed        *)
(* between a request's reading and writing it.                              *)
THEOREM UndeletedConverge ==
    Spec => [](Quiet => \A s \in Slots :
                  Steady(s) /\ ~DeadLettered(s) => store["main"][s] = store["edge"][s])
<1>1. VersionsInv => (Quiet => \A s \in Slots :
                  Steady(s) /\ ~DeadLettered(s) => store["main"][s] = store["edge"][s])
    BY SteadyConverged DEF VersionsInv, RowsInv, SteadyInv
<1> QED
    BY <1>1, VersionsInvariance, PTL

-----------------------------------------------------------------------------
(* Convergence of rows that are deleted                                     *)

(* N with all its rows refer to; its rows are written by main alone, no two *)
(* requests about one of them overlapped, and nothing failed.               *)
Closed(N) == \A t \in N : Parents[t] \cup ReplyTo[t] \subseteq N
Calm(N) ==
    /\ faults = 0 /\ snaps = 0
    /\ \A t \in N : Promoted(t) /\ t \notin overlapped
    /\ \A i \in 1 .. Len(log) : log[i].slot \in N => log[i].src = "main"

(* The events about rows of N; 0 stands for the start.                      *)
About(N)    == {i \in 1 .. Len(log) : log[i].slot \in N}
Ever(N)     == {0} \cup About(N)
Until(N, l) == {i \in Ever(N) : i < l}

(* Which events decide about row t, and what each makes of it.              *)
Deletes(i) == i # 0 /\ log[i].act = "delete"
Touches(i, t) ==
    \/ i = 0
    \/ log[i].slot = t
    \/ log[i].act = "delete" /\ t \in Below(log[i].slot)
Said(i, t) ==
    IF i = 0 THEN AtStart(t)
    ELSE IF log[i].act = "upsert" THEN RowOf(log[i]) ELSE Absent

(* The latest event of H about t, and the row it leaves.                    *)
Latest(H, t, i) == i \in H /\ Touches(i, t) /\ \A j \in H : Touches(j, t) => j <= i
Tells(H, t, r)  == \E i \in H : Latest(H, t, i) /\ r = Said(i, t)
Is(r, gen)      == r.ver > 0 /\ r.gen = gen
WasThere(N, l, t, gen) ==
    \E c \in Until(N, l) : Latest(Until(N, l), t, c) /\ Is(Said(c, t), gen)

(* A row that is written after a deletion is a new one; one that is written *)
(* on has a later version; it was created in its time; and what it refers   *)
(* to was there.                                                            *)
Renewed(N, l) ==
    \A d \in Until(N, l) : Touches(d, log[l].slot) /\ Deletes(d) =>
        /\ log[l].gen > 0
        /\ \A i \in Until(N, d) \ {0} :
              /\ log[i].gen < log[l].gen
              /\ \A sid \in log[i].needs : sid[2] < log[l].gen
Continued(N, l) ==
    \A c \in Until(N, l) : Touches(c, log[l].slot) /\ Said(c, log[l].slot).ver > 0 =>
        \/ Said(c, log[l].slot).gen = log[l].gen /\ Said(c, log[l].slot).ver < log[l].ver
        \/ \E d \in Until(N, l) : Touches(d, log[l].slot) /\ Deletes(d) /\ c < d
Created(N, l) ==
    IF log[l].gen = 0 THEN log[l].slot \in Seeded
    ELSE \E c \in About(N) :
            /\ c <= l /\ log[c].act = "upsert" /\ log[c].slot = log[l].slot
            /\ log[c].gen = log[l].gen /\ log[c].start = 2 * log[l].gen
Referred(N, l) ==
    \A sid \in log[l].needs :
        /\ sid[1] \in Parents[log[l].slot] \cup ReplyTo[log[l].slot]
        /\ 2 * sid[2] < log[l].start
        /\ WasThere(N, l, sid[1], sid[2])

(* An event is in its place: of the events that touch its row it is that of *)
(* the latest request, since a request that is overtaken does not write.    *)
InPlace(N, l) ==
    /\ log[l].gen <= writes /\ log[l].start <= 2 * writes
    /\ \A i \in Until(N, l) \ {0} : Touches(i, log[l].slot) => log[i].start < log[l].start
    /\ log[l].act = "upsert" =>
          Renewed(N, l) /\ Continued(N, l) /\ Created(N, l) /\ Referred(N, l)
    /\ log[l].act = "delete" => log[l].needs = {} /\ WasThere(N, l, log[l].slot, log[l].gen)

(* What main holds is younger than what it refers to.                       *)
Kin(t) ==
    Present("main", t) =>
        /\ t \in born
        /\ \A p \in Parents[t] \cup ReplyTo[t] :
              /\ p \in born
              /\ Present("main", p) =>
                    store["main"][p].gen < store["main"][t].gen \/ store["main"][p].gen = 0

(* A request still finds the row it has read, or the row has gone beyond.   *)
Past(q, r) == r.ver = 0 \/ r.gen > q.row.gen \/ (r.gen = q.row.gen /\ r.ver > q.row.ver)
Pending(N, q) ==
    /\ q.row.ver > 0 /\ q.row.gen < q.n /\ q.n <= writes
    /\ \/ /\ store["main"][q.slot] = q.row
          /\ \A i \in About(N) : Touches(i, q.slot) => log[i].start < 2 * q.n
       \/ Past(q, store["main"][q.slot])

BookAt(N) ==
    /\ \A l \in About(N) : InPlace(N, l)
    /\ \A t \in N : Tells(Ever(N), t, store["main"][t]) /\ Kin(t)
    /\ \A q \in open : q.by = "main" /\ q.slot \in N => Pending(N, q)

(* The edge is done with an event.                                          *)
Done(i)    == row[i] = "delivered" \/ call["main"].res[i] \in {"applied", "duplicate"}
Arrived(N) == {0} \cup {i \in About(N) : Done(i)}
PostAt(N) ==
    /\ \A n \in Node : orphans[n] = {}
    /\ snap = Idle
    /\ \A i \in call["main"].batch : i \in call["main"].todo <=> call["main"].res[i] = "none"
    /\ \A i \in About(N) : ledger[i] # "rejected" /\ (~Done(i) => ledger[i] = "none")

(* The events arrive in order ...                                           *)
Earlier(k, j) == k < j /\ log[k].start <= log[j].start
InOrder(N) ==
    /\ \A j, k \in About(N) : Earlier(k, j) =>
          /\ Done(j) => Done(k)
          /\ j \in call["main"].todo => Done(k) \/ k \in call["main"].todo
    /\ \A k \in About(N) :
          /\ row[k] \in {"pending", "delivered"}
          /\ call["main"].res[k] \in {"none", "applied", "duplicate"}
    /\ \A t \in N : Tells(Arrived(N), t, store["edge"][t])

(* ... until one needs a row of the set L, which are gone on both nodes, so *)
(* that it never will.                                                      *)
Stuck(N, L, k) ==
    /\ ~Done(k) /\ log[k].act = "upsert" /\ log[k].needs \cap L # {}
    /\ \A sid \in L : sid[2] <= writes /\ ~Holds("main", sid) /\ ~Holds("edge", sid)
    /\ \A i \in About(N) :
          log[i].act = "upsert" /\ <<log[i].slot, log[i].gen>> \in L /\ ~Done(i)
          => log[i].needs \cap L # {}
Trapped(N) == \E L \in SUBSET (N \X Gen), k \in About(N) : Stuck(N, L, k)

CalmAt(N) == BookAt(N) /\ PostAt(N) /\ (InOrder(N) \/ Trapped(N))
CalmInv   == \A N \in SUBSET Slots : Closed(N) /\ Calm(N) => CalmAt(N)

(* The rows above a row of N are in N, and so a path down to a row passes   *)
(* one of its owners.                                                       *)
LEMMA AboveIn ==
    ASSUME NEW N \in SUBSET Slots, Closed(N), NEW t \in N
    PROVE  Above(t) \subseteq N
<1>1. \A S \in SUBSET N : Up(S) \subseteq N
    BY DEF Up, Closed
<1>2. Parents[t] \in SUBSET N
    BY DEF Closed
<1> QED
    BY <1>1, <1>2 DEF Above

LEMMA BelowPath ==
    ASSUME NEW t \in Slots, NEW u \in Slots, t \in Below(u)
    PROVE  \E p \in Parents[t] : p = u \/ p \in Below(u)
<1>1. \A s \in Slots : Parents[s] \subseteq Slots
    BY SlotsAssumption
<1>2. u \in Up(Up(Up(Parents[t])))
    BY DEF Below, Above
<1>3. \A p \in Slots : Parents[p] \subseteq Above(p) /\ Up(Parents[p]) \subseteq Above(p)
                       /\ Up(Up(Parents[p])) \subseteq Above(p)
    BY DEF Above, Up
<1>4. \A S, x : x \in Up(S) => x \in S \/ \E p \in S : x \in Parents[p]
    BY DEF Up
<1>5. u \in Parents[t] \/ \E p \in Parents[t] : u \in Above(p)
    <2>1. \A x \in Up(Parents[t]) : x \in Parents[t] \/ \E p \in Parents[t] : x \in Parents[p]
        BY <1>4
    <2>2. \A x \in Up(Up(Parents[t])) :
              x \in Parents[t] \/ \E p \in Parents[t] : x \in Up(Parents[p])
        BY <1>4, <2>1 DEF Up
    <2>3. \A x \in Up(Up(Up(Parents[t]))) :
              x \in Parents[t] \/ \E p \in Parents[t] : x \in Up(Up(Parents[p]))
        BY <1>4, <2>2 DEF Up
    <2> QED
        BY <1>1, <1>2, <1>3, <2>3
<1> QED
    BY <1>1, <1>5 DEF Below

(* If a row is there, so are the rows above it.                             *)
LEMMA AbovePresent ==
    ASSUME ReferencesHold, NEW n \in Node, NEW t \in Slots, Present(n, t), NEW u \in Slots,
           t \in Below(u)
    PROVE  Present(n, u)
<1> DEFINE There == {s \in Slots : Present(n, s)}
<1>1. \A S \in SUBSET There : Up(S) \in SUBSET There
    BY SlotsAssumption DEF Up, ReferencesHold
<1>2. Parents[t] \in SUBSET There
    BY SlotsAssumption DEF ReferencesHold
<1> QED
    BY <1>1, <1>2 DEF Below, Above

(* What an event about rows of N is made of.                                *)
LEMMA AboutType ==
    ASSUME TypeOK, NumbersInv, NEW N \in SUBSET Slots, NEW i \in About(N)
    PROVE  /\ i \in 1 .. Len(log) /\ i \in Nat /\ i >= 1 /\ i \in EventId /\ i <= Len(log)
           /\ log[i] \in Event
           /\ log[i].slot \in N /\ log[i].slot \in Slots
           /\ log[i].gen \in Gen /\ log[i].gen \in Nat
           /\ log[i].start \in Nat /\ log[i].ver \in Nat
           /\ log[i].act \in {"upsert", "delete"}
           /\ log[i].needs \in SUBSET (Slots \X Gen)
           /\ log[i].act = "upsert" => log[i].ver >= 1
           /\ RowOf(log[i]) \in Row
<1>1. i \in 1 .. Len(log) /\ log[i].slot \in N /\ Len(log) \in Nat
    BY DEF About, TypeOK
<1>2. i \in EventId /\ log[i] \in Event
    BY <1>1, LogAt
<1>3. log[i].act = "upsert" => log[i].ver >= 1
    BY <1>1 DEF NumbersInv, Numbered
<1>4. \A g \in Gen : g \in Nat
    BY BoundsAssumption DEF Gen
<1>5. /\ log[i].slot \in Slots /\ log[i].gen \in Gen /\ log[i].start \in Nat /\ log[i].ver \in Nat
      /\ log[i].act \in {"upsert", "delete"} /\ log[i].needs \in SUBSET (Slots \X Gen)
      /\ log[i].val \in Value
    BY <1>2 DEF Event
<1>6. RowOf(log[i]) \in Row
    BY <1>5 DEF RowOf, Row
<1> QED
    BY <1>1, <1>2, <1>3, <1>4, <1>5, <1>6

LEMMA EverType ==
    ASSUME TypeOK, NEW N \in SUBSET Slots
    PROVE  /\ \A i \in Ever(N) : i \in Nat /\ i <= Len(log) /\ (i # 0 => i \in About(N) /\ i >= 1)
           /\ \A l : Until(N, l) \subseteq Ever(N)
           /\ 0 \in Ever(N) /\ About(N) \subseteq Ever(N)
           /\ Len(log) \in Nat
<1>1. Len(log) \in Nat
    BY DEF TypeOK
<1> QED
    BY <1>1 DEF Ever, Until, About

LEMMA SaidType ==
    ASSUME TypeOK, NumbersInv, NEW N \in SUBSET Slots, NEW i \in Ever(N), NEW t \in Slots
    PROVE  /\ Said(i, t) \in Row /\ Said(i, t).ver \in Nat /\ Said(i, t).gen \in Nat
           /\ Deletes(i) => Said(i, t) = Absent /\ Said(i, t).ver = 0 /\ i \in About(N)
           /\ i # 0 /\ ~Deletes(i) =>
                /\ i \in About(N) /\ log[i].act = "upsert"
                /\ Said(i, t) = RowOf(log[i]) /\ Said(i, t).gen = log[i].gen
                /\ Said(i, t).ver = log[i].ver /\ Said(i, t).ver > 0
                /\ Touches(i, t) => log[i].slot = t
           /\ i = 0 => Said(i, t).gen = 0 /\ (Said(i, t).ver > 0 => t \in Seeded)
                       /\ Said(i, t) = AtStart(t) /\ Touches(i, t) /\ ~Deletes(i)
<1>1. Gen \subseteq Nat /\ 0 \in Gen
    BY BoundsAssumption DEF Gen
<1>2. AtStart(t) \in Row /\ AtStart(t).gen = 0 /\ (AtStart(t).ver > 0 => t \in Seeded)
    BY SeedType DEF AtStart, Seed, Absent
<1>3. Absent \in Row /\ Absent.ver = 0
    BY SeedType DEF Absent
<1>4. CASE i = 0
    BY <1>1, <1>2, <1>4 DEF Said, Deletes, Touches, Row
<1>5. CASE i # 0
    <2>1. i \in About(N)
        BY <1>5, EverType
    <2>2. /\ log[i].act \in {"upsert", "delete"} /\ RowOf(log[i]) \in Row
          /\ log[i].act = "upsert" => log[i].ver >= 1
          /\ log[i].ver \in Nat
        BY <2>1, AboutType
    <2>3. RowOf(log[i]).gen = log[i].gen /\ RowOf(log[i]).ver = log[i].ver
        BY DEF RowOf
    <2>4. CASE log[i].act = "delete"
        <3>1. Deletes(i) /\ Said(i, t) = Absent
            BY <1>5, <2>4 DEF Deletes, Said
        <3> QED
            BY <1>1, <1>3, <1>5, <2>1, <3>1 DEF Row
    <2>5. CASE log[i].act = "upsert"
        <3>1. ~Deletes(i) /\ Said(i, t) = RowOf(log[i])
            BY <1>5, <2>5 DEF Deletes, Said
        <3>2. Touches(i, t) => log[i].slot = t
            BY <1>5, <2>5 DEF Touches
        <3>3. RowOf(log[i]).gen \in Nat
            BY <2>1, <2>3, AboutType
        <3> HIDE DEF RowOf
        <3> QED
            BY <1>5, <2>1, <2>2, <2>3, <2>5, <3>1, <3>2, <3>3
    <2> QED
        BY <2>2, <2>4, <2>5
<1> QED
    BY <1>4, <1>5

(* There is one latest event.                                               *)
LEMMA TellsOnce ==
    ASSUME TypeOK, NEW N \in SUBSET Slots, NEW H, H \subseteq Ever(N), NEW t, NEW r, NEW x,
           Tells(H, t, r), Tells(H, t, x)
    PROVE  r = x
<1>1. PICK i \in H : Latest(H, t, i) /\ r = Said(i, t)
    BY DEF Tells
<1>2. PICK j \in H : Latest(H, t, j) /\ x = Said(j, t)
    BY DEF Tells
<1>3. i <= j /\ j <= i
    BY <1>1, <1>2 DEF Latest
<1>4. i \in Nat /\ j \in Nat
    BY EverType
<1> QED
    BY <1>1, <1>2, <1>3, <1>4

-----------------------------------------------------------------------------
(* The book of events in a step                                             *)

(* A step adds at most one event, and changes none.                         *)
Kept(N) ==
    /\ \A i \in About(N) : i \in About(N)' /\ log'[i] = log[i]
    /\ \A i \in About(N)' : i \in About(N) \/ i = Len(log) + 1

LEMMA KeptAlways ==
    ASSUME IInv, SourcesInv, [Next]_vars, NEW N
    PROVE  Kept(N)
<1>1. TypeOK /\ log \in Seq(Event) /\ Len(log) \in Nat
    BY DEF IInv, TypeOK
<1>2. CASE log' = log
    BY <1>2 DEF Kept, About
<1>3. ASSUME NEW e, log' = Append(log, e) PROVE Kept(N)
    <2>1. /\ Len(log') = Len(log) + 1
          /\ \A i \in 1 .. Len(log) : i \in 1 .. Len(log') /\ log'[i] = log[i]
        BY <1>1, <1>3
    <2>2. \A i \in 1 .. Len(log') : i \in 1 .. Len(log) \/ i = Len(log) + 1
        BY <1>1, <2>1
    <2> QED
        BY <2>1, <2>2 DEF Kept, About
<1>4. Grows => log' = log \/ \E e : log' = Append(log, e)
    BY DEF Grows
<1>5. LocalWrite => Grows
    BY LocalWriteInv
<1>6. Arrives => Grows
    BY <1>1, ApplyEffect DEF Arrives
<1> QED
    BY <1>2, <1>3, <1>4, <1>5, <1>6, StepKinds DEF SnapshotArrives, Rests

LEMMA OldEvents ==
    ASSUME TypeOK, NEW N \in SUBSET Slots, Kept(N), NEW i \in Ever(N)
    PROVE  /\ i \in Ever(N)' /\ i <= Len(log)
           /\ Deletes(i)' <=> Deletes(i)
           /\ \A t : (Touches(i, t)' <=> Touches(i, t)) /\ Said(i, t)' = Said(i, t)
<1>1. i \in Nat /\ i <= Len(log)
    BY EverType
<1>2. CASE i = 0
    BY <1>1, <1>2 DEF Ever, Deletes, Touches, Said, AtStart
<1>3. CASE i # 0
    <2>1. i \in About(N) /\ i \in About(N)' /\ log'[i] = log[i]
        BY <1>3 DEF Ever, Kept
    <2> QED
        BY <1>1, <1>3, <2>1 DEF Ever, Deletes, Touches, Said, RowOf
<1> QED
    BY <1>2, <1>3

LEMMA OldUntil ==
    ASSUME TypeOK, NEW N \in SUBSET Slots, Kept(N), NEW l \in Ever(N)
    PROVE  \A i : i \in Until(N, l)' <=> i \in Until(N, l)
<1>1. l \in Nat /\ l <= Len(log) /\ Len(log) \in Nat
    BY EverType
<1>2. ASSUME NEW i \in Until(N, l) PROVE i \in Until(N, l)'
    <2>1. i \in Ever(N) /\ i < l
        BY <1>2 DEF Until
    <2> QED
        BY <2>1, OldEvents DEF Until
<1>3. ASSUME NEW i \in Until(N, l)' PROVE i \in Until(N, l)
    <2>1. i \in Ever(N)' /\ i < l
        BY <1>3 DEF Until
    <2>2. i = 0 \/ i \in About(N) \/ i = Len(log) + 1
        BY <2>1 DEF Ever, Kept
    <2> QED
        BY <1>1, <2>1, <2>2 DEF Ever, Until
<1> QED
    BY <1>2, <1>3

(* The next event comes after all there are.                                *)
LEMMA NewUntil ==
    ASSUME TypeOK, NEW N \in SUBSET Slots, Kept(N), NEW l, l = Len(log) + 1
    PROVE  \A i : i \in Until(N, l)' <=> i \in Ever(N)
<1>1. Len(log) \in Nat /\ \A i \in Ever(N) : i \in Nat /\ i <= Len(log)
    BY EverType
<1>2. ASSUME NEW i \in Ever(N) PROVE i \in Until(N, l)'
    <2>1. i \in Ever(N)'
        BY OldEvents
    <2>2. i < l
        BY <1>1
    <2> QED
        BY <2>1, <2>2 DEF Until
<1>3. ASSUME NEW i \in Until(N, l)' PROVE i \in Ever(N)
    <2>1. i \in Ever(N)' /\ i < l
        BY <1>3 DEF Until
    <2>2. i = 0 \/ i \in About(N)
        BY <1>1, <2>1 DEF Ever, Kept
    <2> QED
        BY <2>2 DEF Ever
<1> QED
    BY <1>2, <1>3

(* What the events said of the past they go on saying.                      *)
LEMMA OldWasThere ==
    ASSUME TypeOK, NEW N \in SUBSET Slots, Kept(N), NEW l \in About(N), NEW t, NEW gen,
           WasThere(N, l, t, gen)
    PROVE  WasThere(N, l, t, gen)'
<1>1. l \in Ever(N)
    BY DEF Ever
<1>2. \A i : i \in Until(N, l)' <=> i \in Until(N, l)
    BY <1>1, OldUntil
<1>3. \A i \in Until(N, l) : (Touches(i, t)' <=> Touches(i, t)) /\ Said(i, t)' = Said(i, t)
    BY OldEvents DEF Until
<1>4. PICK c \in Until(N, l) : Latest(Until(N, l), t, c) /\ Is(Said(c, t), gen)
    BY DEF WasThere
<1>5. Latest(Until(N, l), t, c)'
    BY <1>2, <1>3, <1>4 DEF Latest
<1>6. Is(Said(c, t), gen)'
    BY <1>3, <1>4 DEF Is
<1> QED
    BY <1>2, <1>5, <1>6 DEF WasThere

LEMMA NewWasThere ==
    ASSUME TypeOK, NEW N \in SUBSET Slots, Kept(N), NEW l, l = Len(log) + 1, NEW t, NEW r,
           Tells(Ever(N), t, r), r.ver > 0
    PROVE  WasThere(N, l, t, r.gen)'
<1>1. \A i : i \in Until(N, l)' <=> i \in Ever(N)
    BY NewUntil
<1>2. \A i \in Ever(N) : (Touches(i, t)' <=> Touches(i, t)) /\ Said(i, t)' = Said(i, t)
    BY OldEvents
<1>3. PICK c \in Ever(N) : Latest(Ever(N), t, c) /\ r = Said(c, t)
    BY DEF Tells
<1>4. Latest(Until(N, l), t, c)'
    BY <1>1, <1>2, <1>3 DEF Latest
<1>5. Is(Said(c, t), r.gen)'
    BY <1>2, <1>3 DEF Is
<1> QED
    BY <1>1, <1>4, <1>5 DEF WasThere

(* An event stays in its place.                                             *)
LEMMA OldInPlace ==
    ASSUME TypeOK, NEW N \in SUBSET Slots, Kept(N), NumbersInv,
           writes \in Nat, writes' \in Nat, writes <= writes', NEW l \in About(N), InPlace(N, l)
    PROVE  InPlace(N, l)'
<1>1. l \in Ever(N) /\ l \in About(N)' /\ log'[l] = log[l]
    BY DEF Ever, Kept
<1>2. \A i : i \in Until(N, l)' <=> i \in Until(N, l)
    BY <1>1, OldUntil
<1>3. \A i \in Until(N, l) :
          /\ i \in Ever(N)
          /\ Deletes(i)' <=> Deletes(i)
          /\ \A t : (Touches(i, t)' <=> Touches(i, t)) /\ Said(i, t)' = Said(i, t)
    BY OldEvents DEF Until
<1>4. \A i \in Until(N, l) \ {0} : log'[i] = log[i]
    BY DEF Until, Ever, Kept
<1>5. log[l].gen <= writes' /\ log[l].start <= 2 * writes'
    BY AboutType DEF InPlace
<1>6. \A i \in Until(N, l)' \ {0} : Touches(i, log[l].slot)' => log'[i].start < log'[l].start
    BY <1>1, <1>2, <1>3, <1>4 DEF InPlace
<1>7. log[l].act = "delete" => log'[l].needs = {} /\ WasThere(N, l, log[l].slot, log[l].gen)'
    BY <1>1, OldWasThere DEF InPlace
<1>8. ASSUME log[l].act = "upsert"
      PROVE  Renewed(N, l)' /\ Continued(N, l)' /\ Created(N, l)' /\ Referred(N, l)'
    <2>1. Renewed(N, l) /\ Continued(N, l) /\ Created(N, l) /\ Referred(N, l)
        BY <1>8 DEF InPlace
    <2>2. Renewed(N, l)'
        <3>1. ASSUME NEW d \in Until(N, l), Touches(d, log[l].slot), Deletes(d),
                     NEW i \in Until(N, d)' \ {0}
              PROVE  /\ log[l].gen > 0
                     /\ log'[i].gen < log[l].gen
                     /\ \A sid \in log'[i].needs : sid[2] < log[l].gen
            <4>1. i \in Until(N, d) \ {0}
                BY <1>3, <3>1, OldUntil
            <4>2. log'[i] = log[i]
                BY <4>1 DEF Until, Ever, Kept
            <4> QED
                BY <2>1, <3>1, <4>1, <4>2 DEF Renewed
        <3>2. ASSUME NEW d \in Until(N, l), Touches(d, log[l].slot), Deletes(d)
              PROVE  log[l].gen > 0
            BY <2>1, <3>2 DEF Renewed
        <3> QED
            BY <1>1, <1>2, <1>3, <3>1, <3>2 DEF Renewed
    <2>3. Continued(N, l)'
        BY <1>1, <1>2, <1>3, <2>1 DEF Continued
    <2>4. Created(N, l)'
        BY <1>1, <2>1 DEF Created, Kept
    <2>5. Referred(N, l)'
        BY <1>1, <2>1, OldWasThere DEF Referred
    <2> QED
        BY <2>2, <2>3, <2>4, <2>5
<1> QED
    BY <1>1, <1>5, <1>6, <1>7, <1>8 DEF InPlace

(* Nothing happens to the rows of N.                                        *)
LEMMA BookKept ==
    ASSUME TypeOK, NEW N \in SUBSET Slots, Kept(N), Closed(N), NumbersInv, BookAt(N),
           \A i \in About(N)' : i \in About(N),
           \A t \in N : store'["main"][t] = store["main"][t],
           born \subseteq born', writes \in Nat, writes' \in Nat, writes <= writes'
    PROVE  /\ \A l \in About(N)' : InPlace(N, l)'
           /\ \A t \in N : Tells(Ever(N), t, store["main"][t])' /\ Kin(t)'
           /\ \A q \in open : q.by = "main" /\ q.slot \in N => Pending(N, q)'
<1>1. \A l \in About(N)' : InPlace(N, l)'
    BY OldInPlace DEF BookAt
<1>2. \A i : i \in Ever(N)' <=> i \in Ever(N)
    BY DEF Ever, Kept
<1>3. \A i \in Ever(N) : \A t : (Touches(i, t)' <=> Touches(i, t)) /\ Said(i, t)' = Said(i, t)
    BY OldEvents
<1>4. ASSUME NEW t \in N PROVE Tells(Ever(N), t, store["main"][t])'
    <2>1. PICK c \in Ever(N) : Latest(Ever(N), t, c) /\ store["main"][t] = Said(c, t)
        BY DEF BookAt, Tells
    <2>2. Latest(Ever(N), t, c)'
        BY <1>2, <1>3, <2>1 DEF Latest
    <2>3. store["main"][t]' = Said(c, t)'
        BY <1>3, <2>1
    <2> QED
        BY <1>2, <2>2, <2>3 DEF Tells
<1>5. ASSUME NEW t \in N PROVE Kin(t)'
    <2>1. Parents[t] \cup ReplyTo[t] \subseteq N
        BY DEF Closed
    <2> QED
        BY <2>1 DEF BookAt, Kin, Present
<1>6. ASSUME NEW q \in open, q.by = "main", q.slot \in N PROVE Pending(N, q)'
    <2>1. Pending(N, q) /\ q.n \in Nat /\ store'["main"][q.slot] = store["main"][q.slot]
        BY <1>6, RequestParts, BoundsAssumption DEF BookAt, Gen
    <2>2. \A i \in About(N)' : Touches(i, q.slot)' =>
              i \in About(N) /\ Touches(i, q.slot) /\ log'[i] = log[i]
        BY <1>3 DEF Ever, Kept
    <2>3. q.row.ver > 0 /\ q.row.gen < q.n /\ q.n <= writes'
        BY <2>1 DEF Pending
    <2>4. CASE Past(q, store["main"][q.slot])
        BY <2>1, <2>3, <2>4 DEF Pending, Past
    <2>5. CASE /\ store["main"][q.slot] = q.row
               /\ \A i \in About(N) : Touches(i, q.slot) => log[i].start < 2 * q.n
        BY <2>1, <2>2, <2>3, <2>5 DEF Pending
    <2> QED
        BY <2>1, <2>4, <2>5 DEF Pending
<1> QED
    BY <1>1, <1>4, <1>5, <1>6

(* Main's rows are no younger than the last request.                        *)
LEMMA MainRow ==
    ASSUME TypeOK, NumbersInv, NEW N \in SUBSET Slots, BookAt(N), NEW t \in N
    PROVE  /\ store["main"][t].gen \in Nat /\ store["main"][t].gen <= writes
           /\ store["main"][t].ver \in Nat /\ store["main"][t] \in Row
           /\ \E k \in Ever(N) : Latest(Ever(N), t, k) /\ store["main"][t] = Said(k, t)
<1>1. PICK k \in Ever(N) : Latest(Ever(N), t, k) /\ store["main"][t] = Said(k, t)
    BY DEF BookAt, Tells
<1>2. store["main"][t] \in Row /\ store["main"][t].gen \in Nat /\ store["main"][t].ver \in Nat
    BY TypeParts, RowParts, BoundsAssumption DEF Node, Gen
<1>3. writes \in Nat
    BY BoundsAssumption DEF TypeOK, Gen
<1>4. CASE k = 0 \/ Deletes(k)
    BY <1>1, <1>3, <1>4, SaidType DEF Absent
<1>5. CASE k # 0 /\ ~Deletes(k)
    <2>1. k \in About(N) /\ store["main"][t].gen = log[k].gen
        BY <1>1, <1>5, SaidType
    <2> QED
        BY <1>1, <1>2, <2>1 DEF BookAt, InPlace
<1> QED
    BY <1>1, <1>2, <1>4, <1>5

LEMMA BookBegins ==
    ASSUME TypeOK, NEW N \in SUBSET Slots, Kept(N), Closed(N), NumbersInv, BookAt(N),
           NEW s \in N, Begin("main", s)
    PROVE  BookAt(N)'
<1>1. /\ UNCHANGED <<store, log, born>> /\ writes' = writes + 1 /\ writes \in Nat
      /\ open' = open \cup {[by |-> "main", slot |-> s, n |-> writes + 1,
                             row |-> store["main"][s]]}
      /\ store["main"][s].ver > 0
    BY BoundsAssumption DEF Begin, Write, Present, TypeOK, Gen
<1>2. \A i : i \in About(N)' <=> i \in About(N)
    BY <1>1 DEF About
<1>3. /\ \A l \in About(N)' : InPlace(N, l)'
      /\ \A t \in N : Tells(Ever(N), t, store["main"][t])' /\ Kin(t)'
      /\ \A q \in open : q.by = "main" /\ q.slot \in N => Pending(N, q)'
    BY <1>1, <1>2, BookKept
<1>4. ASSUME NEW q, q = [by |-> "main", slot |-> s, n |-> writes + 1, row |-> store["main"][s]]
      PROVE  Pending(N, q)'
    <2>1. store["main"][s].gen \in Nat /\ store["main"][s].gen <= writes
        BY MainRow
    <2>2. q.row.ver > 0 /\ q.row.gen < q.n /\ q.n <= writes' /\ store'["main"][q.slot] = q.row
        BY <1>1, <1>4, <2>1
    <2>3. ASSUME NEW i \in About(N) PROVE log'[i].start < 2 * q.n
        <3>1. log[i].start <= 2 * writes /\ log[i].start \in Nat
            BY AboutType DEF BookAt, InPlace
        <3> QED
            BY <1>1, <1>4, <3>1
    <2> QED
        BY <1>2, <2>2, <2>3 DEF Pending
<1> QED
    BY <1>1, <1>3, <1>4 DEF BookAt

(* A request of main writes the event l: main's rows are what it says.      *)
LEMMA BookWritten ==
    ASSUME TypeOK, NEW N \in SUBSET Slots, Kept(N), NumbersInv, BookAt(N),
           NEW l, l = Len(log) + 1, l \in About(N)', InPlace(N, l)',
           \A t \in N : store'["main"][t] = IF Touches(l, t)' THEN Said(l, t)'
                                                              ELSE store["main"][t],
           \A t \in N : Kin(t)',
           writes \in Nat, writes' \in Nat, writes <= writes', open' \subseteq open,
           \A q \in open' : q.by = "main" /\ q.slot \in N /\ Pending(N, q) /\ Touches(l, q.slot)'
                => Past(q, store["main"][q.slot])'
    PROVE  BookAt(N)'
<1>1. \A i \in About(N)' : InPlace(N, i)'
    BY OldInPlace DEF BookAt, Kept
<1>2. \A i : i \in Ever(N)' <=> i \in Ever(N) \/ i = l
    BY DEF Ever, Kept
<1>3. \A i \in Ever(N) : /\ i <= Len(log) /\ i \in Nat /\ i <= l /\ i # l
                         /\ \A t : (Touches(i, t)' <=> Touches(i, t)) /\ Said(i, t)' = Said(i, t)
    BY OldEvents, EverType
<1>4. ASSUME NEW t \in N PROVE Tells(Ever(N), t, store["main"][t])'
    <2>1. CASE Touches(l, t)'
        <3>1. Latest(Ever(N), t, l)'
            BY <1>2, <1>3, <2>1, EverType DEF Latest
        <3> QED
            BY <1>2, <2>1, <3>1 DEF Tells
    <2>2. CASE ~Touches(l, t)'
        <3>1. PICK c \in Ever(N) : Latest(Ever(N), t, c) /\ store["main"][t] = Said(c, t)
            BY DEF BookAt, Tells
        <3>2. Latest(Ever(N), t, c)'
            BY <1>2, <1>3, <2>2, <3>1 DEF Latest
        <3>3. store["main"][t]' = Said(c, t)'
            BY <1>3, <2>2, <3>1
        <3> QED
            BY <1>2, <3>2, <3>3 DEF Tells
    <2> QED
        BY <2>1, <2>2
<1>5. ASSUME NEW q \in open', q.by = "main", q.slot \in N PROVE Pending(N, q)'
    <2>1. Pending(N, q) /\ q.n \in Nat
        BY <1>5, RequestParts, BoundsAssumption DEF BookAt, Gen
    <2>2. q.row.ver > 0 /\ q.row.gen < q.n /\ q.n <= writes'
        BY <2>1 DEF Pending
    <2>3. CASE Touches(l, q.slot)'
        <3>1. Past(q, store["main"][q.slot])'
            BY <1>5, <2>1, <2>3
        <3> QED
            BY <2>2, <3>1 DEF Pending
    <2>4. CASE ~Touches(l, q.slot)'
        <3>1. store'["main"][q.slot] = store["main"][q.slot]
            BY <1>5, <2>4
        <3>2. CASE Past(q, store["main"][q.slot])
            BY <2>2, <3>1, <3>2 DEF Pending, Past
        <3>3. CASE /\ store["main"][q.slot] = q.row
                   /\ \A i \in About(N) : Touches(i, q.slot) => log[i].start < 2 * q.n
            <4>1. \A i \in About(N)' : Touches(i, q.slot)' =>
                      i \in About(N) /\ Touches(i, q.slot) /\ log'[i] = log[i]
                BY <1>3, <2>4 DEF Ever, Kept
            <4> QED
                BY <2>2, <3>1, <3>3, <4>1 DEF Pending
        <3> QED
            BY <2>1, <3>2, <3>3 DEF Pending
    <2> QED
        BY <2>3, <2>4
<1> QED
    BY <1>1, <1>4, <1>5 DEF BookAt

(* The event a request of main adds.                                        *)
LEMMA AddedEvent ==
    ASSUME TypeOK, NEW e, log' = Append(log, e), NEW l, l = Len(log) + 1, NEW N
    PROVE  /\ l \in Nat /\ l > 0 /\ l # 0 /\ log'[l] = e
           /\ e.slot \in N => l \in About(N)'
           /\ \A t : Touches(l, t)' <=>
                 e.slot = t \/ (e.act = "delete" /\ t \in Below(e.slot))
           /\ \A t : Said(l, t)' = IF e.act = "upsert" THEN RowOf(e) ELSE Absent
<1>1. l \in Nat /\ l > 0 /\ l # 0 /\ l \in 1 .. Len(log') /\ log'[l] = e
    BY ToldMore DEF TypeOK
<1>2. e.slot \in N => l \in About(N)'
    BY <1>1 DEF About
<1>3. \A t : Touches(l, t)' <=>
          e.slot = t \/ (e.act = "delete" /\ t \in Below(e.slot))
    BY <1>1 DEF Touches
<1>4. \A t : Said(l, t)' = IF e.act = "upsert" THEN RowOf(e) ELSE Absent
    BY <1>1 DEF Said, RowOf
<1> QED
    BY <1>1, <1>2, <1>3, <1>4

(* What a row of main refers to was there, and is older.                    *)
LEMMA NeedsReferred ==
    ASSUME TypeOK, NEW N \in SUBSET Slots, Closed(N), Kept(N), BookAt(N),
           NEW s \in N, \A p \in Parents[s] : Present("main", p),
           NEW l, l = Len(log) + 1, NEW sid \in Needs("main", s)
    PROVE  /\ sid[1] \in Parents[s] \cup ReplyTo[s] /\ sid[1] \in N
           /\ Present("main", sid[1]) /\ sid[2] = store["main"][sid[1]].gen
           /\ WasThere(N, l, sid[1], sid[2])'
<1>1. PICK p \in Parents[s] \cup {r \in ReplyTo[s] : Present("main", r)} :
          sid = <<p, store["main"][p].gen>>
    BY DEF Needs
<1>2. p \in Parents[s] \cup ReplyTo[s] /\ p \in N /\ Present("main", p)
    BY <1>1 DEF Closed
<1>3. PICK r : r = store["main"][p]
    OBVIOUS
<1>4. Tells(Ever(N), p, r) /\ r.ver > 0
    BY <1>2, <1>3 DEF BookAt, Present
<1>5. WasThere(N, l, p, r.gen)'
    BY <1>4, NewWasThere
<1> QED
    BY <1>1, <1>2, <1>3, <1>5

LEMMA BookCreates ==
    ASSUME IInv, NumbersInv, ReferencesHold, NEW N \in SUBSET Slots, Kept(N), Closed(N),
           BookAt(N), NEW s \in N, Create("main", s)
    PROVE  BookAt(N)'
<1>1. TypeOK /\ LogInv /\ StoreType /\ "main" \in Node /\ s \in Slots
    BY TypeParts DEF IInv, DeliveryInv, Node
<1>2. PICK e : e = CreateEvent("main", s)
    OBVIOUS
<1>3. e \in Event /\ Enqueue(e) /\ store' = Put("main", s, RowOf(e))
    BY <1>1, <1>2, CreateEventType DEF Create, CreateEvent, RowOf
<1>4. /\ e.src = "main" /\ e.slot = s /\ e.act = "upsert" /\ e.ver = 1 /\ e.gen = writes + 1
      /\ e.start = 2 * (writes + 1) /\ e.needs = Needs("main", s)
    BY <1>2 DEF CreateEvent, BeginOf
<1>5. PICK l : l = Len(log) + 1
    OBVIOUS
<1>6. log' = Append(log, e)
    BY <1>1, <1>3, <1>4, EnqueuedIsAdded DEF Enqueued
<1>7. /\ l \in Nat /\ l > 0 /\ l # 0 /\ log'[l] = e /\ l \in About(N)'
      /\ \A t : Touches(l, t)' <=> t = s
      /\ \A t : Said(l, t)' = RowOf(e)
    BY <1>1, <1>4, <1>5, <1>6, AddedEvent
<1>8. /\ writes' = writes + 1 /\ writes \in Nat /\ born' = born \cup {s} /\ open' = open
      /\ ~Present("main", s) /\ (Keyed(s) \/ s \notin born)
      /\ \A p \in Parents[s] \cup ReplyTo[s] : Present("main", p)
    BY <1>1, BoundsAssumption DEF Create, Write, TypeOK, Gen
<1>9. \A i : i \in Until(N, l)' <=> i \in Ever(N)
    BY <1>1, <1>5, NewUntil
<1>10. \A i \in Ever(N) : /\ i \in Nat /\ i <= Len(log)
                          /\ Deletes(i)' <=> Deletes(i)
                          /\ \A t : (Touches(i, t)' <=> Touches(i, t)) /\ Said(i, t)' = Said(i, t)
    BY <1>1, OldEvents, EverType
<1>11. \A i \in About(N) :
          /\ log'[i] = log[i] /\ log[i].gen < writes + 1 /\ log[i].start < 2 * (writes + 1)
          /\ \A sid \in log[i].needs : sid[2] < writes + 1
    <2> SUFFICES ASSUME NEW i \in About(N)
                 PROVE  /\ log'[i] = log[i] /\ log[i].gen < writes + 1
                        /\ log[i].start < 2 * (writes + 1)
                        /\ \A sid \in log[i].needs : sid[2] < writes + 1
        OBVIOUS
    <2>1. InPlace(N, i) /\ log'[i] = log[i]
        BY DEF BookAt, Kept
    <2>2. /\ log[i].gen \in Nat /\ log[i].start \in Nat /\ log[i].act \in {"upsert", "delete"}
          /\ \A sid \in log[i].needs : sid[2] \in Nat
        BY <1>1, AboutType, BoundsAssumption DEF Gen
    <2>3. log[i].gen <= writes /\ log[i].start <= 2 * writes
        BY <2>1 DEF InPlace
    <2>4. \A sid \in log[i].needs : 2 * sid[2] < log[i].start
        BY <2>1, <2>2 DEF InPlace, Referred
    <2> QED
        BY <1>8, <2>1, <2>2, <2>3, <2>4
<1>12. \A t \in N : store'["main"][t] = IF t = s THEN RowOf(e) ELSE store["main"][t]
    BY <1>1, <1>3, PutAt
<1>13. InPlace(N, l)'
    <2>1. e.gen <= writes' /\ e.start <= 2 * writes'
        BY <1>4, <1>8
    <2>2. \A i \in Until(N, l)' \ {0} : log'[i].start < e.start
        BY <1>4, <1>9, <1>11 DEF Ever
    <2>3. Renewed(N, l)'
        <3>1. \A d \in Ever(N) : \A i \in Until(N, d)' \ {0} : i \in About(N)
            BY <1>1, OldUntil DEF Until, Ever
        <3> QED
            BY <1>4, <1>7, <1>8, <1>9, <1>11, <3>1 DEF Renewed
    <2>4. Continued(N, l)'
        <3>1. PICK k \in Ever(N) : Latest(Ever(N), s, k) /\ store["main"][s] = Said(k, s)
            BY DEF BookAt, Tells
        <3>2. Said(k, s).ver = 0
            BY <1>1, <1>8, <3>1, SaidType DEF Present
        <3>3. ASSUME NEW c \in Ever(N), Touches(c, s), Said(c, s).ver > 0
              PROVE  Touches(k, s) /\ Deletes(k) /\ c < k
            <4>1. c <= k /\ c # k /\ c \in Nat /\ k \in Nat
                BY <1>10, <3>1, <3>2, <3>3 DEF Latest
            <4>2. k # 0
                BY <4>1
            <4>3. Deletes(k)
                BY <1>1, <3>2, <4>2, SaidType
            <4> QED
                BY <3>1, <4>1, <4>3 DEF Latest
        <3>4. ASSUME NEW c \in Until(N, l)', Touches(c, log[l].slot)', Said(c, log[l].slot)'.ver > 0
              PROVE  \E d \in Until(N, l)' : Touches(d, log[l].slot)' /\ Deletes(d)' /\ c < d
            <4>1. c \in Ever(N) /\ Touches(c, s) /\ Said(c, s).ver > 0
                BY <1>4, <1>7, <1>9, <1>10, <3>4
            <4>2. Touches(k, s) /\ Deletes(k) /\ c < k
                BY <3>3, <4>1
            <4> QED
                BY <1>4, <1>7, <1>9, <1>10, <4>2
        <3> QED
            BY <3>4 DEF Continued
    <2>5. Created(N, l)'
        BY <1>4, <1>7, <1>8 DEF Created
    <2>6. Referred(N, l)'
        <3>1. ASSUME NEW sid \in Needs("main", s)
              PROVE  /\ sid[1] \in Parents[s] \cup ReplyTo[s]
                     /\ 2 * sid[2] < e.start
                     /\ WasThere(N, l, sid[1], sid[2])'
            <4>1. /\ sid[1] \in Parents[s] \cup ReplyTo[s] /\ sid[1] \in N
                  /\ sid[2] = store["main"][sid[1]].gen
                  /\ WasThere(N, l, sid[1], sid[2])'
                BY <1>1, <1>5, <1>8, <3>1, NeedsReferred
            <4>2. sid[2] \in Nat /\ sid[2] <= writes
                BY <1>1, <4>1, MainRow
            <4> QED
                BY <1>4, <1>8, <4>1, <4>2
        <3> QED
            BY <1>4, <1>7, <3>1 DEF Referred
    <2> QED
        BY <1>4, <1>7, <2>1, <2>2, <2>3, <2>4, <2>5, <2>6 DEF InPlace
<1>14. ASSUME NEW t \in N PROVE Kin(t)'
    <2> SUFFICES ASSUME store'["main"][t].ver > 0,
                        NEW p \in Parents[t] \cup ReplyTo[t]
                 PROVE  /\ p \in born'
                        /\ store'["main"][p].ver > 0 =>
                              \/ store'["main"][p].gen < store'["main"][t].gen
                              \/ store'["main"][p].gen = 0
        <3>1. store'["main"][t].ver > 0 => t \in born'
            BY <1>8, <1>12 DEF BookAt, Kin, Present
        <3> QED
            BY <3>1 DEF Kin, Present
    <2>1. p \in N
        BY DEF Closed
    <2>2. CASE t = s
        <3>1. store["main"][p].ver > 0 /\ p # s
            BY <1>8, <2>2 DEF Present
        <3>2. store["main"][p].gen <= writes /\ store["main"][p].gen \in Nat
            BY <1>1, <2>1, MainRow
        <3>3. p \in born /\ store'["main"][p] = store["main"][p]
            BY <1>12, <2>1, <3>1 DEF BookAt, Kin, Present
        <3>4. store'["main"][t].gen = writes + 1
            BY <1>4, <1>12, <2>2 DEF RowOf
        <3> QED
            BY <1>8, <3>2, <3>3, <3>4
    <2>3. CASE t # s
        <3>1. store'["main"][t] = store["main"][t] /\ Present("main", t)
            BY <1>12, <2>3 DEF Present
        <3>2. p \in born
            BY <3>1 DEF BookAt, Kin
        <3>3. p # s
            <4>1. CASE p \in Parents[t]
                BY <1>1, <1>8, <3>1, <4>1 DEF ReferencesHold
            <4>2. CASE p \in ReplyTo[t]
                <5>1. KindOf[p] = "message"
                    BY <4>2, SlotsAssumption
                <5>2. ~Keyed(p)
                    BY <5>1 DEF Keyed, Kinds, MessageKind
                <5> QED
                    BY <1>8, <3>2, <5>2
            <4> QED
                BY <4>1, <4>2
        <3> QED
            BY <1>8, <1>12, <2>1, <3>1, <3>2, <3>3 DEF BookAt, Kin, Present
    <2> QED
        BY <2>2, <2>3
<1>15. ASSUME NEW q \in open', q.by = "main", Pending(N, q), Touches(l, q.slot)', q.slot \in N
       PROVE  Past(q, store["main"][q.slot])'
    <2>1. q.slot = s /\ store'["main"][q.slot].gen = writes + 1
        BY <1>4, <1>7, <1>12, <1>15 DEF RowOf
    <2>2. q.row.gen \in Nat /\ q.n \in Nat /\ q.row.gen < q.n /\ q.n <= writes
        BY <1>1, <1>8, <1>15, RequestParts, BoundsAssumption DEF Pending, Gen
    <2> QED
        BY <1>8, <2>1, <2>2 DEF Past
<1> HIDE DEF Past
<1> QED
    BY <1>1, <1>5, <1>7, <1>8, <1>12, <1>13, <1>14, <1>15, BookWritten

(* A request that writes undisturbed still finds the row it has read.       *)
LEMMA Undisturbed ==
    ASSUME IInv, NumbersInv, NEW N \in SUBSET Slots, Kept(N), BookAt(N),
           NEW q \in open, q.by = "main", q.slot \in N, Overlap(q), q.slot \notin overlapped'
    PROVE  /\ store["main"][q.slot] = q.row /\ q.row.ver > 0
           /\ q.row.gen \in Nat /\ q.row.ver \in Nat /\ q.n \in Nat /\ writes \in Nat
           /\ q.row.gen < q.n /\ q.n <= writes
           /\ \A i \in About(N) : Touches(i, q.slot) => log[i].start < 2 * q.n
           /\ \A p \in open : p.by = "main" /\ p.slot = q.slot /\ Pending(N, p) =>
                 p.row = q.row \/ Past(p, q.row)
           /\ \E k \in Ever(N) : Latest(Ever(N), q.slot, k) /\ q.row = Said(k, q.slot)
<1>1. TypeOK
    BY DEF IInv
<1>2. store["main"][q.slot] = q.row
    BY DEF Overlap
<1>3. q.row.gen \in Nat /\ q.row.ver \in Nat /\ q.n \in Nat /\ writes \in Nat
    BY <1>1, RequestParts, BoundsAssumption DEF Gen, TypeOK
<1>4. Pending(N, q)
    BY DEF BookAt
<1>5. ~Past(q, q.row)
    BY <1>3, <1>4 DEF Past, Pending
<1>6. \A i \in About(N) : Touches(i, q.slot) => log[i].start < 2 * q.n
    BY <1>2, <1>4, <1>5 DEF Pending
<1>7. ASSUME NEW p \in open, p.by = "main", p.slot = q.slot, Pending(N, p)
      PROVE  p.row = q.row \/ Past(p, q.row)
    BY <1>2, <1>7 DEF Pending
<1>8. \E k \in Ever(N) : Latest(Ever(N), q.slot, k) /\ q.row = Said(k, q.slot)
    BY <1>1, <1>2, MainRow
<1> QED
    BY <1>2, <1>3, <1>4, <1>6, <1>7, <1>8 DEF Pending

LEMMA BookEdits ==
    ASSUME IInv, NumbersInv, ReferencesHold, NEW N \in SUBSET Slots, Kept(N), Closed(N),
           BookAt(N), NEW q \in open, q.by = "main", q.slot \in N, Edit(q), q.slot \notin overlapped'
    PROVE  BookAt(N)'
<1>1. TypeOK /\ LogInv /\ StoreType /\ "main" \in Node
    BY TypeParts DEF IInv, DeliveryInv, Node
<1>2. PICK e : e = EditEvent(q)
    OBVIOUS
<1>3. PICK s \in N : s = q.slot
    OBVIOUS
<1>4. e \in Event /\ Enqueue(e) /\ store' = Put("main", s, RowOf(e))
    BY <1>1, <1>2, <1>3, EditEventType DEF Edit, EditEvent, RowOf
<1>5. /\ e.src = "main" /\ e.slot = s /\ e.act = "upsert" /\ e.ver = q.row.ver + 1
      /\ e.gen = q.row.gen /\ e.start = 2 * q.n /\ e.needs = Needs("main", s)
    BY <1>2, <1>3 DEF EditEvent, BeginOf
<1>6. PICK l : l = Len(log) + 1
    OBVIOUS
<1>7. log' = Append(log, e)
    BY <1>1, <1>4, <1>5, EnqueuedIsAdded DEF Enqueued
<1>8. /\ l \in Nat /\ l > 0 /\ l # 0 /\ log'[l] = e /\ l \in About(N)'
      /\ \A t : Touches(l, t)' <=> t = s
      /\ \A t : Said(l, t)' = RowOf(e)
    BY <1>1, <1>5, <1>6, <1>7, AddedEvent
<1>9. writes' = writes /\ born' = born /\ open' \subseteq open
    BY DEF Edit, End
<1>10. /\ store["main"][s] = q.row /\ q.row.ver > 0
       /\ q.row.gen \in Nat /\ q.row.ver \in Nat /\ q.n \in Nat /\ writes \in Nat
       /\ q.row.gen < q.n /\ q.n <= writes
       /\ \A i \in About(N) : Touches(i, s) => log[i].start < 2 * q.n
       /\ \A p \in open : p.by = "main" /\ p.slot = s /\ Pending(N, p) =>
             p.row = q.row \/ Past(p, q.row)
       /\ \E k \in Ever(N) : Latest(Ever(N), s, k) /\ q.row = Said(k, s)
    BY <1>3, Undisturbed DEF Edit
<1>11. \A i : i \in Until(N, l)' <=> i \in Ever(N)
    BY <1>1, <1>6, NewUntil
<1>12. \A i \in Ever(N) : /\ i \in Nat /\ i <= Len(log) /\ i <= l
                          /\ i # 0 => i \in About(N) /\ log'[i] = log[i]
                          /\ Deletes(i)' <=> Deletes(i)
                          /\ \A t : (Touches(i, t)' <=> Touches(i, t)) /\ Said(i, t)' = Said(i, t)
    BY <1>1, <1>6, OldEvents, EverType DEF Kept
<1>13. PICK k \in Ever(N) : Latest(Ever(N), s, k) /\ q.row = Said(k, s)
    BY <1>10
<1>14. ~Deletes(k) /\ (k # 0 =>
          k \in About(N) /\ log[k].act = "upsert" /\ log[k].slot = s /\ log[k].gen = q.row.gen
          /\ log[k].ver = q.row.ver /\ InPlace(N, k))
    BY <1>1, <1>10, <1>13, SaidType DEF Latest, BookAt
<1>15. \A c \in Ever(N) : Touches(c, s) /\ c # k => c \in Until(N, k) /\ k # 0
    BY <1>12, <1>13 DEF Latest, Until
<1>16. InPlace(N, l)'
    <2>1. e.gen <= writes' /\ e.start <= 2 * writes'
        BY <1>5, <1>9, <1>10
    <2>2. \A i \in Until(N, l)' \ {0} : Touches(i, log[l].slot)' => log'[i].start < e.start
        BY <1>5, <1>8, <1>10, <1>11, <1>12
    <2>3. Renewed(N, l)'
        <3>1. ASSUME NEW d \in Ever(N), Touches(d, s), Deletes(d)
              PROVE  /\ e.gen > 0
                     /\ \A i \in Until(N, d)' \ {0} :
                           /\ log'[i] = log[i] /\ log[i].gen < e.gen
                           /\ \A sid \in log[i].needs : sid[2] < e.gen
            <4>1. d \in Until(N, k) /\ k # 0
                BY <1>14, <1>15, <3>1
            <4>2. Renewed(N, k) /\ log[k].slot = s /\ log[k].gen = e.gen
                BY <1>5, <1>14, <4>1 DEF InPlace
            <4>3. \A i \in Until(N, d)' \ {0} : i \in Until(N, d) \ {0} /\ log'[i] = log[i]
                BY <1>1, <1>12, OldUntil DEF Until
            <4> QED
                BY <3>1, <4>1, <4>2, <4>3 DEF Renewed
        <3> QED
            BY <1>5, <1>8, <1>11, <1>12, <3>1 DEF Renewed
    <2>4. Continued(N, l)'
        <3>1. ASSUME NEW c \in Ever(N), Touches(c, s), Said(c, s).ver > 0
              PROVE  \/ Said(c, s).gen = e.gen /\ Said(c, s).ver < e.ver
                     \/ \E d \in Ever(N) : Touches(d, s) /\ Deletes(d) /\ c < d
            <4>1. CASE c = k
                BY <1>5, <1>10, <1>13, <4>1
            <4>2. CASE c # k
                <5>1. c \in Until(N, k) /\ k # 0
                    BY <1>15, <3>1, <4>2
                <5>2. Continued(N, k) /\ log[k].slot = s /\ log[k].gen = e.gen /\ log[k].ver = q.row.ver
                    BY <1>5, <1>14, <5>1 DEF InPlace
                <5>3. Said(c, s).ver \in Nat
                    BY <1>1, SaidType
                <5>4. CASE Said(c, s).gen = e.gen /\ Said(c, s).ver < q.row.ver
                    BY <1>5, <1>10, <5>3, <5>4
                <5>5. CASE \E d \in Until(N, k) : Touches(d, s) /\ Deletes(d) /\ c < d
                    BY <5>5 DEF Until
                <5> QED
                    BY <3>1, <5>1, <5>2, <5>4, <5>5 DEF Continued
            <4> QED
                BY <4>1, <4>2
        <3>2. ASSUME NEW c \in Until(N, l)', Touches(c, log[l].slot)', Said(c, log[l].slot)'.ver > 0
              PROVE  \/ Said(c, log[l].slot)'.gen = e.gen /\ Said(c, log[l].slot)'.ver < e.ver
                     \/ \E d \in Until(N, l)' : Touches(d, log[l].slot)' /\ Deletes(d)' /\ c < d
            <4>1. c \in Ever(N) /\ Touches(c, s) /\ Said(c, s).ver > 0
                  /\ Said(c, log[l].slot)' = Said(c, s)
                BY <1>5, <1>8, <1>11, <1>12, <3>2
            <4>2. \/ Said(c, s).gen = e.gen /\ Said(c, s).ver < e.ver
                  \/ \E d \in Ever(N) : Touches(d, s) /\ Deletes(d) /\ c < d
                BY <3>1, <4>1
            <4> QED
                BY <1>5, <1>8, <1>11, <1>12, <4>1, <4>2
        <3> QED
            BY <1>8, <3>2 DEF Continued
    <2>5. Created(N, l)'
        <3>1. CASE k = 0
            <4>1. e.gen = 0 /\ s \in Seeded
                BY <1>1, <1>5, <1>10, <1>13, <3>1, SaidType
            <4> QED
                BY <1>5, <1>8, <4>1 DEF Created
        <3>2. CASE k # 0
            <4>1. Created(N, k) /\ log[k].slot = s /\ log[k].gen = e.gen
                BY <1>5, <1>14, <3>2 DEF InPlace
            <4>2. CASE e.gen = 0
                BY <1>5, <1>8, <4>1, <4>2 DEF Created
            <4>3. CASE e.gen # 0
                <5>1. PICK c \in About(N) : /\ c <= k /\ log[c].act = "upsert" /\ log[c].slot = s
                                            /\ log[c].gen = e.gen /\ log[c].start = 2 * e.gen
                    BY <4>1, <4>3 DEF Created
                <5>2. c \in About(N)' /\ log'[c] = log[c] /\ c <= l
                    BY <1>12, <5>1, EverType DEF Kept, Ever
                <5> QED
                    BY <1>5, <1>8, <4>3, <5>1, <5>2 DEF Created
            <4> QED
                BY <4>2, <4>3
        <3> QED
            BY <3>1, <3>2
    <2>6. Referred(N, l)'
        <3>1. Present("main", s) /\ s \in Slots
            BY <1>10 DEF Present
        <3>2. \A p \in Parents[s] : Present("main", p)
            BY <1>1, <3>1 DEF ReferencesHold
        <3>3. ASSUME NEW sid \in Needs("main", s)
              PROVE  /\ sid[1] \in Parents[s] \cup ReplyTo[s]
                     /\ 2 * sid[2] < e.start
                     /\ WasThere(N, l, sid[1], sid[2])'
            <4>1. /\ sid[1] \in Parents[s] \cup ReplyTo[s] /\ sid[1] \in N
                  /\ Present("main", sid[1]) /\ sid[2] = store["main"][sid[1]].gen
                  /\ WasThere(N, l, sid[1], sid[2])'
                BY <1>1, <1>6, <3>2, <3>3, NeedsReferred
            <4>2. sid[2] \in Nat
                BY <1>1, <4>1, MainRow
            <4>3. sid[2] < q.row.gen \/ sid[2] = 0
                BY <1>10, <3>1, <4>1 DEF BookAt, Kin
            <4> QED
                BY <1>5, <1>10, <4>1, <4>2, <4>3
        <3> QED
            BY <1>5, <1>8, <3>3 DEF Referred
    <2> QED
        BY <1>5, <1>8, <2>1, <2>2, <2>3, <2>4, <2>5, <2>6 DEF InPlace
<1>17. \A t \in N : store'["main"][t] = IF t = s THEN RowOf(e) ELSE store["main"][t]
    BY <1>1, <1>4, PutAt
<1>18. \A t \in N : /\ store'["main"][t].gen = store["main"][t].gen
                    /\ store'["main"][t].ver > 0 <=> store["main"][t].ver > 0
    BY <1>5, <1>10, <1>17 DEF RowOf
<1>19. ASSUME NEW t \in N PROVE Kin(t)'
    <2>1. Parents[t] \cup ReplyTo[t] \subseteq N
        BY DEF Closed
    <2> QED
        BY <1>9, <1>18, <2>1 DEF BookAt, Kin, Present
<1>20. ASSUME NEW p \in open', p.by = "main", p.slot \in N, Pending(N, p), Touches(l, p.slot)'
       PROVE  Past(p, store["main"][p.slot])'
    <2>1. p.slot = s /\ p \in open
        BY <1>8, <1>9, <1>20
    <2>2. store'["main"][s].gen = q.row.gen /\ store'["main"][s].ver = q.row.ver + 1
        BY <1>5, <1>17 DEF RowOf
    <2>3. p.row = q.row \/ Past(p, q.row)
        BY <1>10, <1>20, <2>1
    <2>4. p.row.gen \in Nat /\ p.row.ver \in Nat
        BY <1>1, <2>1, RequestParts, BoundsAssumption DEF Gen
    <2> QED
        BY <1>10, <2>1, <2>2, <2>3, <2>4 DEF Past
<1> HIDE DEF Past
<1> QED
    BY <1>1, <1>6, <1>8, <1>9, <1>10, <1>16, <1>17, <1>19, <1>20, BookWritten

LEMMA BookDeletes ==
    ASSUME IInv, NumbersInv, NEW N \in SUBSET Slots, Kept(N), Closed(N),
           BookAt(N), NEW q \in open, q.by = "main", q.slot \in N, Delete(q), q.slot \notin overlapped'
    PROVE  BookAt(N)'
<1>1. TypeOK /\ LogInv /\ StoreType /\ "main" \in Node
    BY TypeParts DEF IInv, DeliveryInv, Node
<1>2. PICK e : e = DeleteEvent(q)
    OBVIOUS
<1>3. PICK s \in N : s = q.slot
    OBVIOUS
<1>4. e \in Event /\ Enqueue(e)
    BY <1>1, <1>2, DeleteEventType
<1>5. /\ e.src = "main" /\ e.slot = s /\ e.act = "delete"
      /\ e.gen = q.row.gen /\ e.start = 2 * q.n /\ e.needs = {}
    BY <1>2, <1>3 DEF DeleteEvent, BeginOf
<1>6. PICK l : l = Len(log) + 1
    OBVIOUS
<1>7. log' = Append(log, e)
    BY <1>1, <1>4, <1>5, EnqueuedIsAdded DEF Enqueued
<1>8. /\ l \in Nat /\ l > 0 /\ l # 0 /\ log'[l] = e /\ l \in About(N)'
      /\ \A t : Touches(l, t)' <=> t = s \/ t \in Below(s)
      /\ \A t : Said(l, t)' = Absent
    <2>1. /\ l \in Nat /\ l > 0 /\ l # 0 /\ log'[l] = e /\ l \in About(N)'
          /\ \A t : Touches(l, t)' <=>
                e.slot = t \/ (e.act = "delete" /\ t \in Below(e.slot))
          /\ \A t : Said(l, t)' = IF e.act = "upsert" THEN RowOf(e) ELSE Absent
        <3>1. e.slot \in N
            BY <1>3, <1>5
        <3>2. /\ l \in Nat /\ l > 0 /\ l # 0 /\ log'[l] = e /\ l \in About(N)'
            BY <1>1, <1>6, <1>7, <3>1, AddedEvent
        <3>3. \A t : Touches(l, t)' <=>
                  e.slot = t \/ (e.act = "delete" /\ t \in Below(e.slot))
            BY <1>1, <1>6, <1>7, AddedEvent
        <3>4. \A t : Said(l, t)' = IF e.act = "upsert" THEN RowOf(e) ELSE Absent
            BY <1>1, <1>6, <1>7, AddedEvent
        <3> QED
            BY <3>2, <3>3, <3>4
    <2> QED
        BY <1>5, <2>1
<1>9. writes' = writes /\ born' = born /\ open' \subseteq open
    BY DEF Delete, End
<1>10. /\ store["main"][s] = q.row /\ q.row.ver > 0
       /\ q.row.gen \in Nat /\ q.row.ver \in Nat /\ q.n \in Nat /\ writes \in Nat
       /\ q.row.gen < q.n /\ q.n <= writes
       /\ \A i \in About(N) : Touches(i, s) => log[i].start < 2 * q.n
    BY <1>3, Undisturbed DEF Delete
<1>11. \A i : i \in Until(N, l)' <=> i \in Ever(N)
    BY <1>1, <1>6, NewUntil
<1>12. \A i \in Ever(N) : /\ i # 0 => i \in About(N) /\ log'[i] = log[i]
                          /\ \A t : Touches(i, t)' <=> Touches(i, t)
    BY <1>1, OldEvents, EverType DEF Kept
<1>13. store' = Without("main", s)
    BY <1>3, <1>10 DEF Delete, Holds, Present
<1>14. \A t \in N : store'["main"][t] = IF t = s \/ t \in Below(s) THEN Absent
                                                                 ELSE store["main"][t]
    BY <1>1, <1>13, WithoutAt
<1>15. InPlace(N, l)'
    <2>1. e.gen <= writes' /\ e.start <= 2 * writes'
        BY <1>5, <1>9, <1>10
    <2>2. \A i \in Until(N, l)' \ {0} : Touches(i, log[l].slot)' => log'[i].start < e.start
        BY <1>5, <1>8, <1>10, <1>11, <1>12
    <2>3. WasThere(N, l, s, q.row.gen)'
        <3>1. PICK r : r = q.row
            OBVIOUS
        <3>2. Tells(Ever(N), s, r) /\ r.ver > 0
            BY <1>10, <3>1 DEF BookAt
        <3>3. WasThere(N, l, s, r.gen)'
            BY <1>1, <1>6, <3>2, NewWasThere
        <3> QED
            BY <3>1, <3>3
    <2> QED
        BY <1>5, <1>8, <2>1, <2>2, <2>3 DEF InPlace
<1>16. ASSUME NEW t \in N PROVE Kin(t)'
    <2>1. Parents[t] \cup ReplyTo[t] \subseteq N /\ Absent.ver = 0
        BY DEF Closed, Absent
    <2>2. \A u \in N : store'["main"][u].ver > 0 => store'["main"][u] = store["main"][u]
        BY <1>14, <2>1
    <2> QED
        BY <1>9, <2>1, <2>2 DEF BookAt, Kin, Present
<1>17. ASSUME NEW p \in open', p.by = "main", p.slot \in N, Pending(N, p), Touches(l, p.slot)'
       PROVE  Past(p, store["main"][p.slot])'
    BY <1>8, <1>14, <1>17 DEF Past, Absent
<1> HIDE DEF Past
<1> QED
    BY <1>1, <1>6, <1>8, <1>9, <1>10, <1>14, <1>15, <1>16, <1>17, BookWritten

-----------------------------------------------------------------------------
(* The book in a step that leaves N calm                                    *)

LEMMA CalmBefore ==
    ASSUME IInv, SourcesInv, [Next]_vars, NEW N, Calm(N)'
    PROVE  Calm(N)
<1>1. faults \in Nat /\ snaps \in Nat
    BY BoundsAssumption DEF IInv, TypeOK
<1>2. faults' = faults \/ faults' = faults + 1
    BY ZenonT(60) DEF Next, LocalWrite, Bridge, Resync, Create, Begin, Write, Edit, Delete, Withdraw, End,
           Post, Handle, Reply, Timeout, HandleOrphan, Restart, Wake, Fault, StartResync,
           ReadForSnapshot, ReceiveSnapshot, FailResync, ApplySnapshotEvent, FinishResync, vars
<1>3. snaps' = snaps \/ snaps' = snaps + 1
    BY DEF Next, LocalWrite, Bridge, Resync, Create, Begin, Write, Edit, Delete, Withdraw, End,
           Post, Handle, Reply, Timeout, HandleOrphan, Restart, Wake, Fault, StartResync,
           ReadForSnapshot, ReceiveSnapshot, FailResync, ApplySnapshotEvent, FinishResync, vars
<1>4. overlapped \subseteq overlapped'
    BY StepKinds DEF LocalWrite, Create, Begin, Edit, Delete, Withdraw, Overlap, requests
<1>5. \A i \in 1 .. Len(log) : i \in 1 .. Len(log') /\ log'[i] = log[i]
    BY LogKept
<1>6. faults = 0 /\ snaps = 0
    BY <1>1, <1>2, <1>3 DEF Calm
<1> QED
    BY <1>4, <1>5, <1>6 DEF Calm

(* The batch of main is handled in order.                                   *)
Taken(n, i) ==
    /\ i \in call[n].todo /\ IsFirst(i, call[n].todo)
    /\ call' = [call EXCEPT ![n] = [batch |-> call[n].batch, todo |-> call[n].todo \ {i},
                                    res |-> [call[n].res EXCEPT ![i] = Answer(Peer(n), i)]]]
    /\ Apply(Peer(n), i)
    /\ UNCHANGED <<orphans, snap, requests>>

Stays == UNCHANGED <<store, log, ledger, orphans, snap, requests>>

(* What can happen while nothing fails.                                     *)
LEMMA CalmSteps ==
    ASSUME IInv, [Next]_vars, NEW N, PostAt(N), Calm(N), Calm(N)'
    PROVE  \/ LocalWrite /\ UNCHANGED <<ledger, call, orphans, snap>>
           \/ \E n \in Node : Post(n) /\ Stays
           \/ \E n \in Node : \E i \in call[n].todo : Taken(n, i)
           \/ \E n \in Node : Reply(n) /\ Stays
           \/ \E i \in EventId : Wake(i) /\ Stays
           \/ Stays /\ UNCHANGED <<row, call>>
<1>1. faults = 0 /\ faults' = 0 /\ snaps = 0 /\ snaps' = 0
    BY DEF Calm
<1>2. ~Fault
    BY <1>1 DEF Fault
<1>3. snap.phase = "off" /\ \A n \in Node : orphans[n] = {}
    BY DEF PostAt, Idle
<1>4. ~StartResync /\ ~ReadForSnapshot /\ ~ReceiveSnapshot /\ ~FailResync
      /\ ~ApplySnapshotEvent /\ ~FinishResync
    BY <1>1, <1>3 DEF StartResync, ReadForSnapshot, ReceiveSnapshot, FailResync,
                      ApplySnapshotEvent, FinishResync
<1>5. CASE LocalWrite
    BY <1>5, ZenonT(60) DEF LocalWrite, Create, Begin, Write, Edit, Delete, Withdraw, End
<1>6. ASSUME NEW n \in Node, Bridge(n)
      PROVE  \/ Post(n) /\ Stays
             \/ \E i \in call[n].todo : Taken(n, i)
             \/ Reply(n) /\ Stays
    <2>1. ~Timeout(n) /\ ~Restart(n)
        BY <1>2 DEF Timeout, Restart
    <2>2. ~HandleOrphan(n)
        BY <1>3 DEF HandleOrphan
    <2>3. Handle(n) => \E i \in call[n].todo : Taken(n, i)
        BY <1>2 DEF Handle, Taken
    <2>4. Post(n) \/ Reply(n) => Stays
        BY DEF Post, Reply, Stays
    <2> QED
        BY <1>6, <2>1, <2>2, <2>3, <2>4 DEF Bridge
<1>7. ASSUME NEW i \in EventId, Wake(i) PROVE Stays
    BY <1>7 DEF Wake, Stays
<1>8. CASE UNCHANGED vars
    BY <1>8 DEF vars, Stays, requests
<1> QED
    BY <1>4, <1>5, <1>6, <1>7, <1>8 DEF Next, Resync

(* An event about another row.                                              *)
LEMMA NotAbout ==
    ASSUME TypeOK, NEW N, Kept(N), NEW e,
           log' = log \/ (log' = Append(log, e) /\ e.slot \notin N)
    PROVE  \A i \in About(N)' : i \in About(N)
<1>1. CASE log' = log
    BY <1>1 DEF About
<1>2. CASE log' = Append(log, e) /\ e.slot \notin N
    <2>1. log'[Len(log) + 1] = e
        BY <1>2, ToldMore
    <2> QED
        BY <1>2, <2>1 DEF Kept, About
<1> QED
    BY <1>1, <1>2

LEMMA BookStays ==
    ASSUME IInv, NEW N \in SUBSET Slots, Kept(N), Closed(N), NumbersInv, BookAt(N), IInv',
           NEW e, log' = log \/ (log' = Append(log, e) /\ e.slot \notin N),
           \A t \in N : store'["main"][t] = store["main"][t],
           born \subseteq born', writes' = writes \/ writes' = writes + 1,
           \A q \in open' : q.by = "main" /\ q.slot \in N => q \in open
    PROVE  BookAt(N)'
<1>1. TypeOK
    BY DEF IInv
<1>2. writes \in Nat /\ writes' \in Nat /\ writes <= writes'
    BY BoundsAssumption DEF IInv, TypeOK, Gen
<1>3. \A i \in About(N)' : i \in About(N)
    BY <1>1, NotAbout
<1>4. /\ \A l \in About(N)' : InPlace(N, l)'
      /\ \A t \in N : Tells(Ever(N), t, store["main"][t])' /\ Kin(t)'
      /\ \A q \in open : q.by = "main" /\ q.slot \in N => Pending(N, q)'
    BY <1>1, <1>2, <1>3, BookKept
<1> QED
    BY <1>4 DEF BookAt

(* An event that is applied changes rows of N only if it is about one.      *)
LEMMA AppliedElsewhere ==
    ASSUME StoreType, NEW N \in SUBSET Slots, Closed(N), NEW m \in Node, NEW e \in Event,
           e.slot \notin N, Verdict(m, e) = "applied", store' = Applied(m, e), NEW t \in N,
           NEW k \in Node
    PROVE  store'[k][t] = store[k][t]
<1>1. e.slot \in Slots /\ t # e.slot
    BY DEF Event
<1>2. t \notin Below(e.slot)
    BY <1>1, AboveIn DEF Below
<1>3. CASE e.act = "delete"
    <2>1. store' = Without(m, e.slot)
        BY <1>3, AppliedEvent
    <2> QED
        BY <1>1, <1>2, <2>1, WithoutAt
<1>4. CASE e.act = "upsert"
    <2>1. PICK r : store' = Put(m, e.slot, r)
        BY <1>4, AppliedEvent
    <2> QED
        BY <1>1, <2>1, PutAt
<1> QED
    BY <1>3, <1>4 DEF Event

(* An event that arrives changes no row of the other node, and adds an      *)
(* event about its own row only.                                            *)
LEMMA ArrivesAt ==
    ASSUME IInv, NEW m \in Node, NEW i \in 1 .. Len(log), Apply(m, i)
    PROVE  /\ \A t \in Slots : store'[Peer(m)][t] = store[Peer(m)][t]
           /\ \E e : log' = log \/ (log' = Append(log, e) /\ e.slot = log[i].slot)
           /\ m = "edge" => log' = log /\ row' = row
           /\ \A k \in 1 .. Len(log) : row'[k] = row[k]
           /\ \A k \in EventId : k # i => ledger'[k] = ledger[k]
           /\ \/ UNCHANGED store
              \/ Verdict(m, log[i]) = "applied" /\ store' = Applied(m, log[i])
<1>1. TypeOK /\ StoreType /\ log[i] \in Event /\ Peer(m) \in Node /\ Peer(m) # m
    BY TypeParts, LogAt DEF IInv, Peer, Node
<1>2. \/ UNCHANGED <<store, log, row>>
      \/ /\ Verdict(m, log[i]) = "applied" /\ store' = Applied(m, log[i])
         /\ IF Echoes(m, log[i]) THEN Enqueue(Echo(m, log[i])) ELSE UNCHANGED <<log, row>>
    BY DEF Apply
<1>3. \A t \in Slots : store'[Peer(m)][t] = store[Peer(m)][t]
    <2>1. CASE UNCHANGED store
        BY <2>1
    <2>2. CASE Verdict(m, log[i]) = "applied" /\ store' = Applied(m, log[i])
        <3>1. log[i].slot \in Slots /\ log[i].act \in {"upsert", "delete"}
            BY <1>1 DEF Event
        <3>2. CASE log[i].act = "delete"
            <4>1. store' = Without(m, log[i].slot)
                BY <1>1, <2>2, <3>2, AppliedEvent
            <4> QED
                BY <1>1, <3>1, <4>1, WithoutAt
        <3>3. CASE log[i].act = "upsert"
            <4>1. PICK r : store' = Put(m, log[i].slot, r)
                BY <1>1, <2>2, <3>3, AppliedEvent
            <4> QED
                BY <1>1, <3>1, <4>1, PutAt
        <3> QED
            BY <3>1, <3>2, <3>3
    <2> QED
        BY <1>2, <2>1, <2>2
<1>4. Echo(m, log[i]).slot = log[i].slot
    BY <1>1 DEF Echo, Event
<1>5. log' = log \/ log' = Append(log, Echo(m, log[i]))
    BY <1>2 DEF Enqueue
<1>6. m = "edge" => log' = log /\ row' = row
    BY <1>2 DEF Echoes, FromEdge
<1>7. \A k \in 1 .. Len(log) : row'[k] = row[k]
    <2>1. row' = row \/ row' = [row EXCEPT ![Len(log) + 1] = "pending"]
        BY <1>2 DEF Enqueue
    <2>2. row \in [EventId -> RowStatus] /\ Len(log) \in Nat
        BY <1>1 DEF TypeOK
    <2>3. \A k \in 1 .. Len(log) : k \in EventId /\ k # Len(log) + 1
        BY <1>1, <2>2, LogAt
    <2> QED
        BY <2>1, <2>2, <2>3
<1>8. \A k \in EventId : k # i => ledger'[k] = ledger[k]
    BY <1>1, ApplyEffect
<1> QED
    BY <1>2, <1>3, <1>4, <1>5, <1>6, <1>7, <1>8

(* The book in every step that leaves N calm.                               *)
LEMMA BookStep ==
    ASSUME IInv, SourcesInv, NumbersInv, ReferencesHold, [Next]_vars,
           NEW N \in SUBSET Slots, Closed(N), Calm(N), Calm(N)', BookAt(N), PostAt(N)
    PROVE  BookAt(N)'
<1>1. TypeOK /\ StoreType /\ LogInv /\ IInv'
    BY TypeParts, NextInv DEF IInv, DeliveryInv
<1>2. Kept(N)
    BY KeptAlways
<1>3. \A q \in open : q.by \in Node /\ q.slot \in Slots
    BY <1>1, RequestParts
<1>4. "main" \in Node /\ "edge" \in Node /\ \A n \in Node : n = "main" \/ n = "edge"
    BY DEF Node
(* An edge write of a row of N would be an event of the edge. *)
<1>5. ASSUME NEW e, Enqueue(e), e.src = "edge", e.slot \in N PROVE FALSE
    <2>1. Promoted(e.slot)
        BY <1>5 DEF Calm
    <2>2. log' = Append(log, e)
        BY <1>1, <1>5, <2>1, EnqueuedIsAdded DEF Enqueued
    <2>3. Len(log) + 1 \in 1 .. Len(log') /\ log'[Len(log) + 1] = e
        BY <1>1, <2>2, ToldMore
    <2>4. \A i \in 1 .. Len(log') : log'[i].slot \in N => log'[i].src = "main"
        BY DEF Calm
    <2> QED
        BY <1>5, <2>3, <2>4
<1>6. ASSUME NEW n \in Node, NEW s \in Slots, Create(n, s) PROVE BookAt(N)'
    <2>1. PICK e : e = CreateEvent(n, s)
        OBVIOUS
    <2>2. Enqueue(e) /\ e.src = n /\ e.slot = s /\ store' = Put(n, s, RowOf(e))
        BY <1>6, <2>1 DEF Create, CreateEvent, RowOf
    <2>3. CASE s \in N
        <3>1. n = "main"
            BY <1>4, <1>5, <2>2, <2>3
        <3> QED
            BY <1>2, <1>6, <2>3, <3>1, BookCreates
    <2>4. CASE s \notin N
        <3>1. log' = log \/ (log' = Append(log, e) /\ e.slot \notin N)
            BY <2>2, <2>4 DEF Enqueue
        <3>2. \A t \in N : store'["main"][t] = store["main"][t]
            BY <1>1, <1>4, <2>2, <2>4, PutAt
        <3>3. born \subseteq born' /\ writes' = writes + 1 /\ open' = open
            BY <1>6 DEF Create, Write
        <3> QED
            BY <1>1, <1>2, <3>1, <3>2, <3>3, BookStays
    <2> QED
        BY <2>3, <2>4
<1>7. ASSUME NEW n \in Node, NEW s \in Slots, Begin(n, s) PROVE BookAt(N)'
    <2>1. CASE n = "main" /\ s \in N
        BY <1>1, <1>2, <1>7, <2>1, BookBegins
    <2>2. CASE ~(n = "main" /\ s \in N)
        <3>1. PICK p : p = [by |-> n, slot |-> s, n |-> writes + 1, row |-> store[n][s]]
            OBVIOUS
        <3>2. /\ open' = open \cup {p} /\ p.by = n /\ p.slot = s
              /\ store' = store /\ log' = log /\ born' = born /\ writes' = writes + 1
            BY <1>7, <3>1 DEF Begin, Write
        <3>3. \A q \in open' : q.by = "main" /\ q.slot \in N => q \in open
            BY <2>2, <3>2
        <3> QED
            BY <1>1, <1>2, <3>2, <3>3, BookStays
    <2> QED
        BY <2>1, <2>2
<1>8. ASSUME NEW q \in open, Edit(q) PROVE BookAt(N)'
    <2>1. PICK e : e = EditEvent(q)
        OBVIOUS
    <2>2. Enqueue(e) /\ e.src = q.by /\ e.slot = q.slot /\ store' = Put(q.by, q.slot, RowOf(e))
        BY <1>8, <2>1 DEF Edit, EditEvent, RowOf
    <2>3. CASE q.slot \in N
        <3>1. q.by = "main"
            BY <1>3, <1>4, <1>5, <2>2, <2>3
        <3>2. q.slot \notin overlapped'
            BY <2>3 DEF Calm
        <3> QED
            BY <1>2, <1>8, <2>3, <3>1, <3>2, BookEdits
    <2>4. CASE q.slot \notin N
        <3>1. log' = log \/ (log' = Append(log, e) /\ e.slot \notin N)
            BY <2>2, <2>4 DEF Enqueue
        <3>2. \A t \in N : store'["main"][t] = store["main"][t]
            BY <1>1, <1>3, <1>4, <2>2, <2>4, PutAt
        <3>3. born' = born /\ writes' = writes /\ open' \subseteq open
            BY <1>8 DEF Edit, End
        <3> QED
            BY <1>1, <1>2, <3>1, <3>2, <3>3, BookStays
    <2> QED
        BY <2>3, <2>4
<1>9. ASSUME NEW q \in open, Delete(q) PROVE BookAt(N)'
    <2>1. PICK e : e = DeleteEvent(q)
        OBVIOUS
    <2>2. Enqueue(e) /\ e.src = q.by /\ e.slot = q.slot
        BY <1>1, <1>9, <2>1, DeleteEventType DEF DeleteEvent
    <2>3. CASE q.slot \in N
        <3>1. q.by = "main"
            BY <1>3, <1>4, <1>5, <2>2, <2>3
        <3>2. q.slot \notin overlapped'
            BY <2>3 DEF Calm
        <3> QED
            BY <1>2, <1>9, <2>3, <3>1, <3>2, BookDeletes
    <2>4. CASE q.slot \notin N
        <3>1. log' = log \/ (log' = Append(log, e) /\ e.slot \notin N)
            BY <2>2, <2>4 DEF Enqueue
        <3>2. \A t \in N : t # q.slot /\ t \notin Below(q.slot)
            BY <2>4, AboveIn DEF Below
        <3>3. \A t \in N : store'["main"][t] = store["main"][t]
            BY <1>1, <1>3, <1>4, <1>9, <3>2, WithoutAt DEF Delete
        <3>4. born' = born /\ writes' = writes /\ open' \subseteq open
            BY <1>9 DEF Delete, End
        <3> QED
            BY <1>1, <1>2, <3>1, <3>3, <3>4, BookStays
    <2> QED
        BY <2>3, <2>4
<1>10. ASSUME NEW q \in open, Withdraw(q) PROVE BookAt(N)'
    <2>1. store' = store /\ log' = log /\ born' = born /\ writes' = writes /\ open' \subseteq open
        BY <1>10 DEF Withdraw, End
    <2> QED
        BY <1>1, <1>2, <2>1, BookStays
<1>11. CASE LocalWrite
    BY <1>6, <1>7, <1>8, <1>9, <1>10, <1>11 DEF LocalWrite
<1>12. ASSUME NEW n \in Node, NEW i \in call[n].todo, Taken(n, i) PROVE BookAt(N)'
    <2>1. /\ i \in 1 .. Len(log) /\ log[i].src = n /\ Peer(n) \in Node
          /\ n = "main" => Peer(Peer(n)) = "main" /\ Peer(n) = "edge"
          /\ log[i] \in Event
        BY <1>1, LogAt DEF IInv, DeliveryInv, CallInv, Peer, Node
    <2>2. Apply(Peer(n), i) /\ born' = born /\ writes' = writes /\ open' = open
        BY <1>12 DEF Taken, requests
    <2>3. CASE n = "main"
        <3>1. log' = log /\ \A t \in Slots : store'["main"][t] = store["main"][t]
            BY <2>1, <2>2, <2>3, ArrivesAt
        <3> QED
            BY <1>1, <1>2, <2>2, <3>1, BookStays
    <2>4. CASE n = "edge"
        <3>1. log[i].slot \notin N
            BY <2>1, <2>4 DEF Calm
        <3>2. PICK e : log' = log \/ (log' = Append(log, e) /\ e.slot = log[i].slot)
            BY <2>1, <2>2, ArrivesAt
        <3>3. \/ UNCHANGED store
              \/ Verdict(Peer(n), log[i]) = "applied" /\ store' = Applied(Peer(n), log[i])
            BY <2>1, <2>2, ArrivesAt
        <3>4. \A t \in N : store'["main"][t] = store["main"][t]
            BY <1>1, <1>4, <2>1, <3>1, <3>3, AppliedElsewhere
        <3> QED
            BY <1>1, <1>2, <2>2, <3>1, <3>2, <3>4, BookStays
    <2> QED
        BY <1>4, <2>3, <2>4
<1>13. CASE Stays
    <2>1. store' = store /\ log' = log /\ born' = born /\ writes' = writes /\ open' = open
        BY <1>13 DEF Stays, requests
    <2> QED
        BY <1>1, <1>2, <2>1, BookStays
<1> QED
    BY <1>11, <1>12, <1>13, CalmSteps

-----------------------------------------------------------------------------
(* The order of arrival in a step that delivers nothing about N             *)

LEMMA ArrivedKept ==
    ASSUME TypeOK, NEW N \in SUBSET Slots, Kept(N),
           \A i \in About(N) : Done(i)' <=> Done(i),
           \A i \in About(N)' : i \in About(N) \/ ~Done(i)',
           NEW t, Tells(Arrived(N), t, store["edge"][t]),
           store'["edge"][t] = store["edge"][t]
    PROVE  Tells(Arrived(N), t, store["edge"][t])'
<1>1. \A i : i \in Arrived(N)' <=> i \in Arrived(N)
    BY DEF Arrived, Kept
<1>2. \A i \in Arrived(N) : i \in Ever(N)
    BY DEF Arrived, Ever
<1>3. \A i \in Arrived(N) : (Touches(i, t)' <=> Touches(i, t)) /\ Said(i, t)' = Said(i, t)
    BY <1>2, OldEvents
<1>4. PICK c \in Arrived(N) : Latest(Arrived(N), t, c) /\ store["edge"][t] = Said(c, t)
    BY DEF Tells
<1>5. Latest(Arrived(N), t, c)'
    BY <1>1, <1>3, <1>4 DEF Latest
<1>6. store["edge"][t]' = Said(c, t)'
    BY <1>3, <1>4
<1> QED
    BY <1>1, <1>4, <1>5, <1>6 DEF Tells

(* No event comes after a new one, and a new one waits.                     *)
LEMMA OrderKept ==
    ASSUME TypeOK, NEW N \in SUBSET Slots, Kept(N), InOrder(N),
           \A i \in About(N) : Done(i)' <=> Done(i),
           \A i \in About(N)' : i \in About(N) \/
                /\ row'[i] = "pending" /\ call'["main"].res[i] = "none"
                /\ i \notin call'["main"].todo,
           \A i \in About(N) : /\ row'[i] \in {"pending", "delivered"}
                               /\ call'["main"].res[i] \in {"none", "applied", "duplicate"},
           \A j, k \in About(N) : Earlier(k, j) /\ j \in call'["main"].todo =>
                Done(k) \/ k \in call'["main"].todo,
           \A t \in N : store'["edge"][t] = store["edge"][t]
    PROVE  InOrder(N)'
<1>1. \A i \in About(N)' : i \in About(N) \/ ~Done(i)'
    BY DEF Done
<1>2. \A t \in N : Tells(Arrived(N), t, store["edge"][t])'
    BY <1>1, ArrivedKept DEF InOrder
<1>3. ASSUME NEW j \in About(N)', NEW k \in About(N)', Earlier(k, j)'
      PROVE  /\ Done(j)' => Done(k)'
             /\ j \in call'["main"].todo => Done(k)' \/ k \in call'["main"].todo
    <2>1. CASE j \notin About(N)
        BY <1>1, <2>1
    <2>2. CASE j \in About(N)
        <3>1. k \in About(N)
            <4>1. k < j /\ j <= Len(log) /\ Len(log) \in Nat /\ j \in Nat
                BY <1>3, <2>2, EverType DEF Earlier, Ever
            <4>2. k # Len(log) + 1
                BY <4>1
            <4> QED
                BY <4>2 DEF Kept
        <3>2. Earlier(k, j)
            BY <1>3, <2>2, <3>1 DEF Earlier, Kept
        <3> QED
            BY <2>2, <3>1, <3>2 DEF InOrder
    <2> QED
        BY <2>1, <2>2
<1>4. \A k \in About(N)' :
          /\ row'[k] \in {"pending", "delivered"}
          /\ call'["main"].res[k] \in {"none", "applied", "duplicate"}
    OBVIOUS
<1> QED
    BY <1>2, <1>3, <1>4 DEF InOrder

(* What waits for a row that is gone goes on waiting.                       *)
LEMMA StuckKept ==
    ASSUME TypeOK, NEW N \in SUBSET Slots, Kept(N), NEW L \in SUBSET (N \X Gen),
           NEW k \in About(N), Stuck(N, L, k),
           writes' \in Nat, writes \in Nat, writes <= writes', ~Done(k)',
           \A i \in About(N) : Done(i) => Done(i)',
           \A sid \in L : ~Holds("main", sid)' /\ ~Holds("edge", sid)',
           \A i \in About(N)' : i \in About(N) \/
                (log'[i].act = "upsert" => <<log'[i].slot, log'[i].gen>> \notin L)
    PROVE  Trapped(N)'
<1>1. k \in About(N)' /\ log'[k] = log[k]
    BY DEF Kept
<1>2. \A sid \in L : sid[2] <= writes'
    <2> SUFFICES ASSUME NEW sid \in L PROVE sid[2] <= writes'
        OBVIOUS
    <2>1. sid[2] \in Nat /\ sid[2] <= writes
        BY BoundsAssumption DEF Stuck, Gen
    <2> QED
        BY <2>1
<1>3. \A i \in About(N)' :
          log'[i].act = "upsert" /\ <<log'[i].slot, log'[i].gen>> \in L /\ ~Done(i)'
          => log'[i].needs \cap L # {}
    BY DEF Stuck, Kept
<1>4. Stuck(N, L, k)'
    BY <1>1, <1>2, <1>3 DEF Stuck
<1> QED
    BY <1>1, <1>4 DEF Trapped

(* A request's new event waits.                                             *)
LEMMA NewWaits ==
    ASSUME IInv, NEW N \in SUBSET Slots, Kept(N), Grows
    PROVE  /\ \A i \in About(N) : row'[i] = row[i]
           /\ \A i \in About(N)' : i \in About(N) \/
                /\ row'[i] = "pending" /\ call["main"].res[i] = "none"
                /\ i \notin call["main"].todo /\ ledger[i] = "none"
<1>1. TypeOK /\ LogInv /\ CallInv("main") /\ Len(log) \in Nat /\ row \in [EventId -> RowStatus]
    BY DEF IInv, DeliveryInv, Node, TypeOK
<1>2. CASE UNCHANGED <<log, row>>
    BY <1>2 DEF About
<1>3. ASSUME NEW e, Len(log) < MaxEvents, log' = Append(log, e),
             row' = [row EXCEPT ![Len(log) + 1] = "pending"]
      PROVE  /\ \A i \in About(N) : row'[i] = row[i]
             /\ \A i \in About(N)' : i \in About(N) \/
                    /\ row'[i] = "pending" /\ call["main"].res[i] = "none"
                    /\ i \notin call["main"].todo /\ ledger[i] = "none"
    <2>1. Len(log) + 1 \in EventId /\ Len(log) + 1 \notin 1 .. Len(log)
        BY <1>1, <1>3, MaxEventsNat DEF EventId
    <2>2. \A i \in About(N) : row'[i] = row[i]
        BY <1>1, <1>3, <2>1, LogAt DEF About
    <2>3. PICK l : l = Len(log) + 1
        OBVIOUS
    <2>4. row'[l] = "pending" /\ call["main"].res[l] = "none" /\ l \notin call["main"].todo
        BY <1>1, <1>3, <2>1, <2>3 DEF CallInv
    <2>5. ledger[l] = "none"
        BY <1>1, <2>1, <2>3 DEF LogInv
    <2> QED
        BY <2>2, <2>3, <2>4, <2>5 DEF Kept
<1> QED
    BY <1>2, <1>3 DEF Grows

(* What a request does to the rows of N.                                    *)
LEMMA WriteEffect ==
    ASSUME IInv, NEW N \in SUBSET Slots, Kept(N), Closed(N), Calm(N)', LocalWrite
    PROVE  /\ \A t \in N : store'["edge"][t] = store["edge"][t]
           /\ \A t \in N : \A g : Holds("main", <<t, g>>)' => Holds("main", <<t, g>>) \/ g = writes + 1
           /\ \A i \in About(N)' : i \in About(N) \/
                \/ log'[i].act = "delete" \/ log'[i].gen = writes + 1
                \/ Holds("main", <<log'[i].slot, log'[i].gen>>)
           /\ writes' = writes \/ writes' = writes + 1
<1>1. TypeOK /\ StoreType /\ LogInv
    BY TypeParts DEF IInv, DeliveryInv
<1>2. "main" \in Node /\ "edge" \in Node /\ "main" # "edge" /\ \A n \in Node : n = "main" \/ n = "edge"
    BY DEF Node
<1>3. \A q \in open : q.by \in Node /\ q.slot \in Slots
    BY <1>1, RequestParts
<1>4. ASSUME NEW e, Enqueue(e), e.src = "edge", e.slot \in N PROVE FALSE
    <2>1. Promoted(e.slot)
        BY <1>4 DEF Calm
    <2>2. log' = Append(log, e)
        BY <1>1, <1>4, <2>1, EnqueuedIsAdded DEF Enqueued
    <2>3. Len(log) + 1 \in 1 .. Len(log') /\ log'[Len(log) + 1] = e
        BY <1>1, <2>2, ToldMore
    <2>4. \A i \in 1 .. Len(log') : log'[i].slot \in N => log'[i].src = "main"
        BY DEF Calm
    <2> QED
        BY <1>4, <2>3, <2>4
<1>5. ASSUME NEW e, Enqueue(e) \/ log' = log
      PROVE  \A i \in About(N)' : i \in About(N) \/ (log'[i] = e /\ e.slot \in N)
    <2>1. CASE log' = log
        BY <2>1 DEF About
    <2>2. CASE log' = Append(log, e)
        <3>1. log'[Len(log) + 1] = e
            BY <1>1, <2>2, ToldMore
        <3> QED
            BY <3>1 DEF Kept, About
    <2> QED
        BY <1>5, <2>1, <2>2 DEF Enqueue
<1>6. ASSUME NEW n \in Node, NEW s \in Slots, NEW r, store' = Put(n, s, r), s \in N => n = "main",
             r.gen = writes + 1 \/ Holds("main", <<s, r.gen>>)
      PROVE  /\ \A t \in N : store'["edge"][t] = store["edge"][t]
             /\ \A t \in N : \A g : Holds("main", <<t, g>>)' => Holds("main", <<t, g>>) \/ g = writes + 1
    <2>1. \A m \in Node, t \in Slots : store'[m][t] = IF m = n /\ t = s THEN r ELSE store[m][t]
        BY <1>1, <1>6, PutAt
    <2> QED
        BY <1>2, <1>6, <2>1 DEF Holds, Present
<1>7. ASSUME NEW n \in Node, NEW s \in Slots, Create(n, s)
      PROVE  /\ \A t \in N : store'["edge"][t] = store["edge"][t]
             /\ \A t \in N : \A g : Holds("main", <<t, g>>)' => Holds("main", <<t, g>>) \/ g = writes + 1
             /\ \A i \in About(N)' : i \in About(N) \/ log'[i].gen = writes + 1
    <2>1. PICK e : e = CreateEvent(n, s)
        OBVIOUS
    <2>2. /\ Enqueue(e) /\ e.src = n /\ e.slot = s /\ e.gen = writes + 1
          /\ store' = Put(n, s, RowOf(e)) /\ RowOf(e).gen = writes + 1
        BY <1>7, <2>1 DEF Create, CreateEvent, RowOf
    <2>3. s \in N => n = "main"
        BY <1>2, <1>4, <2>2
    <2> HIDE DEF RowOf
    <2> QED
        BY <1>5, <1>6, <2>2, <2>3
<1>8. ASSUME NEW q \in open, Edit(q)
      PROVE  /\ \A t \in N : store'["edge"][t] = store["edge"][t]
             /\ \A t \in N : \A g : Holds("main", <<t, g>>)' => Holds("main", <<t, g>>) \/ g = writes + 1
             /\ \A i \in About(N)' : i \in About(N)
                    \/ Holds("main", <<log'[i].slot, log'[i].gen>>)
    <2>1. PICK e : e = EditEvent(q)
        OBVIOUS
    <2>2. /\ Enqueue(e) /\ e.src = q.by /\ e.slot = q.slot /\ e.gen = q.row.gen
          /\ store' = Put(q.by, q.slot, RowOf(e)) /\ RowOf(e).gen = q.row.gen
          /\ Holds(q.by, <<q.slot, q.row.gen>>)
        BY <1>8, <2>1 DEF Edit, EditEvent, RowOf
    <2>3. q.slot \in N => q.by = "main"
        BY <1>2, <1>3, <1>4, <2>2
    <2>4. \A i \in About(N)' : i \in About(N) \/ Holds("main", <<log'[i].slot, log'[i].gen>>)
        BY <1>5, <2>2, <2>3
    <2> HIDE DEF RowOf
    <2>5. CASE q.by = "main"
        BY <1>3, <1>6, <2>2, <2>4, <2>5
    <2>6. CASE q.by = "edge" /\ q.slot \notin N
        <3>1. \A m \in Node, t \in N : store'[m][t] = store[m][t]
            BY <1>1, <1>3, <2>2, <2>6, PutAt
        <3> QED
            BY <1>2, <2>4, <3>1 DEF Holds, Present
    <2> QED
        BY <1>2, <1>3, <2>3, <2>5, <2>6
<1>9. ASSUME NEW q \in open, Delete(q)
      PROVE  /\ \A t \in N : store'["edge"][t] = store["edge"][t]
             /\ \A t \in N : \A g : Holds("main", <<t, g>>)' => Holds("main", <<t, g>>) \/ g = writes + 1
             /\ \A i \in About(N)' : i \in About(N) \/ log'[i].act = "delete"
    <2>1. PICK e : e = DeleteEvent(q)
        OBVIOUS
    <2>2. Enqueue(e) /\ e.src = q.by /\ e.slot = q.slot /\ e.act = "delete"
        BY <1>1, <1>9, <2>1, DeleteEventType DEF DeleteEvent
    <2>3. q.slot \in N => q.by = "main"
        BY <1>2, <1>3, <1>4, <2>2
    <2>4. \A i \in About(N)' : i \in About(N) \/ log'[i].act = "delete"
        BY <1>5, <2>2
    <2>5. \A m \in Node, t \in Slots :
              store'[m][t] = store[m][t]
              \/ (m = q.by /\ t \in {q.slot} \cup Below(q.slot) /\ store'[m][t] = Absent)
        BY <1>1, <1>3, <1>9, WithoutAt DEF Delete
    <2>6. \A t \in N : store'["edge"][t] = store["edge"][t]
        <3>1. q.slot \notin N => \A t \in N : t # q.slot /\ t \notin Below(q.slot)
            BY AboveIn DEF Below
        <3> QED
            BY <1>2, <2>3, <2>5, <3>1
    <2>7. \A t \in N : \A g : Holds("main", <<t, g>>)' => Holds("main", <<t, g>>)
        BY <1>2, <2>5 DEF Holds, Present, Absent
    <2> QED
        BY <2>4, <2>6, <2>7
<1>10. CASE store' = store /\ log' = log
    <2>1. \A i \in About(N)' : i \in About(N)
        BY <1>10 DEF About
    <2> QED
        BY <1>10, <2>1 DEF Holds, Present, LocalWrite, Create, Begin, Write, Edit, Delete, Withdraw, End
<1>11. writes' = writes \/ writes' = writes + 1
    BY DEF LocalWrite, Create, Begin, Write, Edit, Delete, Withdraw, End
<1>12. LocalWrite =>
            \/ store' = store /\ log' = log
            \/ \E n \in Node, t \in Slots : Create(n, t)
            \/ \E q \in open : Edit(q) \/ Delete(q)
    BY DEF LocalWrite, Begin, Withdraw
<1> QED
    BY <1>7, <1>8, <1>9, <1>10, <1>11, <1>12

(* What a set L of lost rows is made of.                                    *)
LEMMA LostType ==
    ASSUME NEW N, NEW L \in SUBSET (N \X Gen), NEW sid \in L
    PROVE  sid[1] \in N /\ sid[2] \in Nat /\ sid = <<sid[1], sid[2]>>
BY BoundsAssumption DEF Gen

Arriving(N) == PostAt(N) /\ (InOrder(N) \/ Trapped(N))

LEMMA ArrivingWritten ==
    ASSUME IInv, NEW N \in SUBSET Slots, Kept(N), Closed(N), Calm(N)', Arriving(N),
           LocalWrite, UNCHANGED <<ledger, call, orphans, snap>>
    PROVE  Arriving(N)'
<1>1. TypeOK /\ LogInv /\ writes \in Nat
    BY BoundsAssumption DEF IInv, DeliveryInv, TypeOK, Gen
<1>2. /\ \A i \in About(N) : row'[i] = row[i]
      /\ \A i \in About(N)' : i \in About(N) \/
            /\ row'[i] = "pending" /\ call["main"].res[i] = "none"
            /\ i \notin call["main"].todo /\ ledger[i] = "none"
    BY LocalWriteInv, NewWaits
<1>3. \A i \in About(N) : Done(i)' <=> Done(i)
    BY <1>2 DEF Done
<1>4. /\ \A t \in N : store'["edge"][t] = store["edge"][t]
      /\ \A t \in N : \A g : Holds("main", <<t, g>>)' =>
                                 Holds("main", <<t, g>>) \/ g = writes + 1
      /\ \A i \in About(N)' : i \in About(N) \/
            \/ log'[i].act = "delete" \/ log'[i].gen = writes + 1
            \/ Holds("main", <<log'[i].slot, log'[i].gen>>)
      /\ writes' = writes \/ writes' = writes + 1
    BY WriteEffect
<1>5. PostAt(N)'
    <2>1. \A i \in About(N)' : ledger'[i] # "rejected" /\ (~Done(i)' => ledger'[i] = "none")
        BY <1>2, <1>3 DEF Arriving, PostAt
    <2> QED
        BY <2>1 DEF Arriving, PostAt
<1>6. CASE InOrder(N)
    <2>1. \A i \in About(N) : /\ row'[i] \in {"pending", "delivered"}
                              /\ call'["main"].res[i] \in {"none", "applied", "duplicate"}
        BY <1>2, <1>6 DEF InOrder
    <2>2. \A j, k \in About(N) : Earlier(k, j) /\ j \in call'["main"].todo =>
                Done(k) \/ k \in call'["main"].todo
        BY <1>6 DEF InOrder
    <2>3. InOrder(N)'
        BY <1>1, <1>2, <1>3, <1>4, <1>6, <2>1, <2>2, OrderKept
    <2> QED
        BY <1>5, <2>3 DEF Arriving
<1>7. CASE Trapped(N)
    <2>1. PICK L \in SUBSET (N \X Gen), k \in About(N) : Stuck(N, L, k)
        BY <1>7 DEF Trapped
    <2>2. \A sid \in L : /\ sid[1] \in N /\ sid[2] \in Nat /\ sid = <<sid[1], sid[2]>>
                         /\ sid[2] <= writes /\ ~Holds("main", sid) /\ ~Holds("edge", sid)
        BY <2>1, LostType DEF Stuck
    <2>3. \A sid \in L : ~Holds("main", sid)' /\ ~Holds("edge", sid)'
        <3> SUFFICES ASSUME NEW sid \in L
                     PROVE  ~Holds("main", sid)' /\ ~Holds("edge", sid)'
            OBVIOUS
        <3>1. sid[2] # writes + 1
            BY <1>1, <2>2
        <3>2. PICK t, g : t \in N /\ sid = <<t, g>> /\ g = sid[2]
            BY <2>2
        <3>3. ~Holds("main", sid)'
            BY <1>4, <2>2, <3>1, <3>2
        <3>4. ~Holds("edge", sid)'
            BY <1>4, <2>2 DEF Holds, Present
        <3> QED
            BY <3>3, <3>4
    <2>4. \A i \in About(N)' : i \in About(N) \/
                (log'[i].act = "upsert" => <<log'[i].slot, log'[i].gen>> \notin L)
        <3> SUFFICES ASSUME NEW i \in About(N)', i \notin About(N), log'[i].act = "upsert",
                            <<log'[i].slot, log'[i].gen>> \in L
                     PROVE  FALSE
            OBVIOUS
        <3>1. ~Holds("main", <<log'[i].slot, log'[i].gen>>) /\ log'[i].gen <= writes
              /\ log'[i].gen \in Nat
            BY <2>2
        <3>2. log'[i].gen = writes + 1
            BY <1>4, <3>1
        <3> QED
            BY <1>1, <3>1, <3>2
    <2>5. writes' \in Nat /\ writes <= writes'
        BY <1>1, <1>4
    <2>6. ~Done(k)'
        BY <1>3, <2>1 DEF Stuck
    <2>7. Trapped(N)'
        BY <1>1, <1>3, <2>1, <2>3, <2>4, <2>5, <2>6, StuckKept
    <2> QED
        BY <1>5, <2>7 DEF Arriving
<1> QED
    BY <1>6, <1>7 DEF Arriving

(* Nothing about the rows of N happens but in the worker of main.           *)
LEMMA ArrivingKept ==
    ASSUME IInv, NEW N \in SUBSET Slots, Kept(N), Arriving(N), PostAt(N)',
           \A i \in About(N)' : i \in About(N), UNCHANGED writes,
           \A n \in Node, t \in N : store'[n][t] = store[n][t],
           \A i \in About(N) : Done(i)' <=> Done(i),
           InOrder(N) =>
               /\ \A i \in About(N) :
                     /\ row'[i] \in {"pending", "delivered"}
                     /\ call'["main"].res[i] \in {"none", "applied", "duplicate"}
               /\ \A j, k \in About(N) : Earlier(k, j) /\ j \in call'["main"].todo =>
                     Done(k) \/ k \in call'["main"].todo
    PROVE  Arriving(N)'
<1>1. TypeOK /\ writes \in Nat /\ "main" \in Node /\ "edge" \in Node
    BY BoundsAssumption DEF IInv, TypeOK, Gen, Node
<1>2. CASE InOrder(N)
    <2>1. InOrder(N)'
        BY <1>1, <1>2, OrderKept
    <2> QED
        BY <2>1 DEF Arriving
<1>3. CASE Trapped(N)
    <2>1. PICK L \in SUBSET (N \X Gen), k \in About(N) : Stuck(N, L, k)
        BY <1>3 DEF Trapped
    <2>2. ~Done(k)'
        BY <2>1 DEF Stuck
    <2>3. \A sid \in L : ~Holds("main", sid)' /\ ~Holds("edge", sid)'
        BY <1>1, <2>1, LostType DEF Stuck, Holds, Present
    <2>4. writes' \in Nat /\ writes <= writes'
        BY <1>1
    <2>5. Trapped(N)'
        BY <1>1, <2>1, <2>2, <2>3, <2>4, StuckKept
    <2> QED
        BY <2>5 DEF Arriving
<1> QED
    BY <1>2, <1>3 DEF Arriving

(* A batch holds with an event all that are older and due.                  *)
LEMMA BatchClosed ==
    ASSUME IInv, NEW n, NEW j \in Batch(n), NEW k \in Available(n), Before(k, j)
    PROVE  k \in Batch(n)
<1>1. TypeOK /\ EventId = 1 .. MaxEvents /\ MaxEvents \in Nat
    BY MaxEventsNat DEF IInv, EventId
<1>2. \A i \in Available(n) : i \in Nat /\ log[i].start \in Nat
    <2>1. \A i \in Available(n) : i \in EventId /\ row[i] = "pending"
        BY DEF Available
    <2>2. \A i \in Available(n) : i \in 1 .. Len(log) /\ i \in Nat
        BY <1>1, <2>1 DEF IInv, DeliveryInv, LogInv, TypeOK
    <2> QED
        BY <1>1, <2>2, LogAt DEF Event
<1> DEFINE First(i) == {x \in Available(n) : Before(x, i)}
<1>3. j \in Available(n) /\ Cardinality(First(j)) < BatchSize
    BY DEF Batch
<1>4. First(k) \subseteq First(j)
    BY <1>2, <1>3 DEF Before
<1>5. IsFiniteSet(Available(n))
    <2>1. IsFiniteSet(EventId)
        BY <1>1, FS_Interval
    <2> QED
        BY <2>1, FS_Subset DEF Available
<1>6. IsFiniteSet(First(j)) /\ First(j) \subseteq Available(n)
    BY <1>5, FS_Subset
<1>7. IsFiniteSet(First(k)) /\ Cardinality(First(k)) <= Cardinality(First(j))
    BY <1>4, <1>6, FS_Subset
<1>8. Cardinality(First(k)) \in Nat /\ Cardinality(First(j)) \in Nat
    BY <1>6, <1>7, FS_CardinalityType
<1>9. Cardinality(First(k)) < BatchSize
    BY <1>3, <1>7, <1>8, BoundsAssumption
<1> QED
    BY <1>9 DEF Batch

(* Events about N come from main.                                           *)
LEMMA MainsAbout ==
    ASSUME IInv, NEW N \in SUBSET Slots, Calm(N), NEW i \in About(N)
    PROVE  /\ i \in 1 .. Len(log) /\ i \in EventId /\ log[i].src = "main" /\ row[i] # "none"
           /\ i \notin call["edge"].batch /\ i \notin call["edge"].todo
<1>1. i \in 1 .. Len(log) /\ log[i].src = "main"
    BY DEF About, Calm
<1>2. i \in EventId
    BY <1>1, LogAt DEF IInv
<1>3. row[i] # "none"
    BY <1>1, <1>2 DEF IInv, DeliveryInv, LogInv, TypeOK
<1>4. CallInv("edge")
    BY DEF IInv, DeliveryInv, Node
<1> QED
    BY <1>1, <1>2, <1>3, <1>4 DEF CallInv

LEMMA ArrivingPosted ==
    ASSUME IInv, NEW N \in SUBSET Slots, Kept(N), Calm(N), Arriving(N), NEW n \in Node,
           Post(n), Stays
    PROVE  Arriving(N)'
<1>1. /\ UNCHANGED <<store, log, row, ledger, orphans, snap, writes>>
      /\ call[n].batch = {}
      /\ call' = [call EXCEPT ![n] = [batch |-> Batch(n), todo |-> Batch(n), res |-> NoCall.res]]
    BY DEF Post, requests
<1>2. call \in [Node -> CallType] /\ CallInv(n) /\ "main" \in Node
    BY DEF IInv, DeliveryInv, TypeOK, Node
<1>3. \A i \in About(N) : i \in EventId /\ log[i].src = "main" /\ row[i] # "none"
    BY MainsAbout
<1>4. \A i : i \in About(N)' <=> i \in About(N)
    BY <1>1 DEF About
<1>5. CASE n # "main"
    <2>1. call'["main"] = call["main"]
        BY <1>1, <1>2, <1>5
    <2>2. \A i \in About(N) : Done(i)' <=> Done(i)
        BY <1>1, <2>1 DEF Done
    <2>3. PostAt(N)'
        BY <1>1, <1>4, <2>1, <2>2 DEF Arriving, PostAt
    <2> QED
        BY <1>1, <1>4, <2>1, <2>2, <2>3, ArrivingKept DEF InOrder
<1>6. CASE n = "main"
    <2>1. /\ call'["main"].batch = Batch("main") /\ call'["main"].todo = Batch("main")
          /\ \A i \in EventId : call'["main"].res[i] = "none"
        BY <1>1, <1>2, <1>6 DEF NoCall
    <2>2. \A i \in EventId : call["main"].res[i] = "none"
        BY <1>1, <1>2, <1>6 DEF CallInv
    <2>3. \A i \in About(N) : (Done(i)' <=> Done(i)) /\ (Done(i) <=> row[i] = "delivered")
        BY <1>1, <1>3, <2>1, <2>2 DEF Done
    <2>4. Batch("main") \subseteq EventId
        BY DEF Batch, Available
    <2>5. PostAt(N)'
        BY <1>1, <1>4, <2>1, <2>3, <2>4 DEF Arriving, PostAt
    <2>6. ASSUME InOrder(N), NEW j \in About(N), NEW k \in About(N), Earlier(k, j),
                 j \in Batch("main")
          PROVE  Done(k) \/ k \in Batch("main")
        <3>1. CASE row[k] = "delivered"
            BY <2>3, <3>1
        <3>2. CASE row[k] = "pending"
            <4>1. k \in Available("main")
                BY <1>3, <3>2 DEF Available
            <4>2. Before(k, j)
                <5>1. log[k].start \in Nat /\ log[j].start \in Nat
                    BY LogAt DEF About, IInv, Event
                <5> QED
                    BY <2>6, <5>1 DEF Earlier, Before
            <4> QED
                BY <2>6, <4>1, <4>2, BatchClosed
        <3> QED
            BY <2>6, <3>1, <3>2 DEF InOrder
    <2>7. InOrder(N) => \A i \in About(N) :
              /\ row'[i] \in {"pending", "delivered"}
              /\ call'["main"].res[i] \in {"none", "applied", "duplicate"}
        BY <1>1, <1>3, <2>1 DEF InOrder
    <2> QED
        BY <1>1, <1>4, <2>1, <2>3, <2>5, <2>6, <2>7, ArrivingKept
<1> QED
    BY <1>5, <1>6

LEMMA ArrivingReplied ==
    ASSUME IInv, NEW N \in SUBSET Slots, Kept(N), Calm(N), Arriving(N), NEW n \in Node,
           Reply(n), Stays
    PROVE  Arriving(N)'
<1>1. /\ UNCHANGED <<store, log, ledger, orphans, snap, writes>>
      /\ call[n].todo = {}
      /\ row' = [i \in EventId |-> IF i \in call[n].batch THEN Settled(call[n].res[i]) ELSE row[i]]
      /\ call' = [call EXCEPT ![n] = NoCall]
    BY DEF Reply, Stays, requests
<1>2. call \in [Node -> CallType] /\ CallInv(n) /\ CallInv("main") /\ "main" \in Node
    BY DEF IInv, DeliveryInv, TypeOK, Node
<1>3. \A i \in About(N) : i \in EventId /\ log[i].src = "main" /\ i \notin call["edge"].batch
    BY MainsAbout
<1>4. \A i : i \in About(N)' <=> i \in About(N)
    BY <1>1 DEF About
<1>5. CASE n = "edge"
    <2>1. call'["main"] = call["main"]
        BY <1>1, <1>2, <1>5
    <2>2. \A i \in About(N) : row'[i] = row[i]
        BY <1>1, <1>3, <1>5
    <2>3. \A i \in About(N) : Done(i)' <=> Done(i)
        BY <2>1, <2>2 DEF Done
    <2>4. PostAt(N)'
        BY <1>1, <1>4, <2>1, <2>3 DEF Arriving, PostAt
    <2> QED
        BY <1>1, <1>4, <2>1, <2>2, <2>3, <2>4, ArrivingKept DEF InOrder
<1>6. CASE n = "main"
    <2>1. /\ call'["main"].batch = {} /\ call'["main"].todo = {}
          /\ \A i \in EventId : call'["main"].res[i] = "none"
        BY <1>1, <1>2, <1>6 DEF NoCall
    <2>2. \A i \in About(N) : Done(i)' <=> Done(i)
        <3> SUFFICES ASSUME NEW i \in About(N) PROVE Done(i)' <=> Done(i)
            OBVIOUS
        <3>1. CASE i \in call["main"].batch
            <4>1. row[i] = "pending"
                BY <1>2, <3>1 DEF CallInv
            <4>2. row'[i] = Settled(call["main"].res[i])
                BY <1>1, <1>3, <1>6, <3>1
            <4>3. row'[i] = "delivered" <=> call["main"].res[i] \in {"applied", "duplicate"}
                BY <4>2 DEF Settled
            <4> QED
                BY <1>3, <2>1, <4>1, <4>3 DEF Done
        <3>2. CASE i \notin call["main"].batch
            <4>1. call["main"].res[i] = "none"
                BY <1>2, <1>3, <3>2 DEF CallInv
            <4>2. row'[i] = row[i]
                BY <1>1, <1>3, <1>6, <3>2
            <4> QED
                BY <1>3, <2>1, <4>1, <4>2 DEF Done
        <3> QED
            BY <3>1, <3>2
    <2>3. PostAt(N)'
        BY <1>1, <1>4, <2>1, <2>2 DEF Arriving, PostAt
    <2>4. InOrder(N) => \A i \in About(N) :
              /\ row'[i] \in {"pending", "delivered"}
              /\ call'["main"].res[i] \in {"none", "applied", "duplicate"}
        <3> SUFFICES ASSUME InOrder(N), NEW i \in About(N)
                     PROVE  row'[i] \in {"pending", "delivered"}
            BY <1>3, <2>1
        <3>1. CASE i \in call["main"].batch
            <4>1. call["main"].res[i] # "none"
                BY <1>1, <1>6, <3>1 DEF Arriving, PostAt
            <4>2. call["main"].res[i] \in {"applied", "duplicate"}
                BY <4>1 DEF InOrder
            <4> QED
                BY <1>1, <1>3, <1>6, <3>1, <4>2 DEF Settled
        <3>2. CASE i \notin call["main"].batch
            BY <1>1, <1>3, <1>6, <3>2 DEF InOrder
        <3> QED
            BY <3>1, <3>2
    <2> QED
        BY <1>1, <1>4, <2>1, <2>2, <2>3, <2>4, ArrivingKept
<1> QED
    BY <1>5, <1>6 DEF Node

LEMMA ArrivingWoken ==
    ASSUME IInv, NEW N \in SUBSET Slots, Kept(N), Calm(N), Arriving(N), NEW i \in EventId,
           Wake(i), Stays
    PROVE  Arriving(N)'
<1>1. /\ UNCHANGED <<store, log, ledger, call, orphans, snap, writes>>
      /\ row[i] = "waiting" /\ row' = [row EXCEPT ![i] = "pending"]
    BY DEF Wake, Stays, requests
<1>2. row \in [EventId -> RowStatus]
    BY DEF IInv, TypeOK
<1>3. \A j \in About(N) : j \in EventId
    BY MainsAbout
<1>4. \A j : j \in About(N)' <=> j \in About(N)
    BY <1>1 DEF About
<1>5. \A j \in About(N) : Done(j)' <=> Done(j)
    BY <1>1, <1>2, <1>3 DEF Done
<1>6. PostAt(N)'
    BY <1>1, <1>4, <1>5 DEF Arriving, PostAt
<1>7. InOrder(N) => \A j \in About(N) :
          /\ row'[j] \in {"pending", "delivered"}
          /\ call'["main"].res[j] \in {"none", "applied", "duplicate"}
    BY <1>1, <1>2, <1>3 DEF InOrder
<1>8. InOrder(N) => \A j, k \in About(N) : Earlier(k, j) /\ j \in call'["main"].todo =>
                        Done(k) \/ k \in call'["main"].todo
    BY <1>1 DEF InOrder
<1> QED
    BY <1>1, <1>4, <1>5, <1>6, <1>7, <1>8, ArrivingKept

LEMMA ArrivingRested ==
    ASSUME IInv, NEW N \in SUBSET Slots, Kept(N), Arriving(N), Stays, UNCHANGED <<row, call>>
    PROVE  Arriving(N)'
<1>1. UNCHANGED <<store, log, row, ledger, call, orphans, snap, writes>>
    BY DEF Stays, requests
<1>2. \A j : j \in About(N)' <=> j \in About(N)
    BY <1>1 DEF About
<1>3. \A j \in About(N) : Done(j)' <=> Done(j)
    BY <1>1 DEF Done
<1>4. PostAt(N)'
    BY <1>1, <1>2, <1>3 DEF Arriving, PostAt
<1> QED
    BY <1>1, <1>2, <1>3, <1>4, ArrivingKept DEF InOrder

(* An event about another row is taken.                                     *)
LEMMA ArrivingElsewhere ==
    ASSUME IInv, NEW N \in SUBSET Slots, Kept(N), Closed(N), Calm(N), Arriving(N),
           NEW n \in Node, NEW i \in call[n].todo, Taken(n, i), i \notin About(N)
    PROVE  Arriving(N)'
<1>1. TypeOK /\ StoreType /\ CallInv(n) /\ call \in [Node -> CallType] /\ "main" \in Node
    BY TypeParts DEF IInv, DeliveryInv, TypeOK, Node
<1>2. /\ i \in 1 .. Len(log) /\ i \in EventId /\ log[i] \in Event /\ Peer(n) \in Node
      /\ log[i].slot \notin N
    BY <1>1, LogAt DEF CallInv, Peer, Node, About
<1>3. Apply(Peer(n), i) /\ UNCHANGED <<orphans, snap, writes>>
    BY DEF Taken, requests
<1>4. /\ \A k \in 1 .. Len(log) : row'[k] = row[k]
      /\ \A k \in EventId : k # i => ledger'[k] = ledger[k]
      /\ \/ UNCHANGED store
         \/ Verdict(Peer(n), log[i]) = "applied" /\ store' = Applied(Peer(n), log[i])
    BY <1>2, <1>3, ArrivesAt
<1>5. \A m \in Node, t \in N : store'[m][t] = store[m][t]
    BY <1>1, <1>2, <1>4, AppliedElsewhere
<1>6. \A j \in About(N)' : j \in About(N)
    <2>1. PICK e : log' = log \/ (log' = Append(log, e) /\ e.slot = log[i].slot)
        BY <1>2, <1>3, ArrivesAt
    <2> QED
        BY <1>1, <1>2, <2>1, NotAbout
<1>7. \A j \in About(N) : j # i /\ j \in EventId /\ j \in 1 .. Len(log)
    BY MainsAbout
<1>8. Answer(Peer(n), i) # "none"
    BY <1>1, <1>2, <1>3, ApplyEffect
<1>9. /\ call'["main"].batch = call["main"].batch
      /\ call'["main"].todo \subseteq call["main"].todo
      /\ \A j \in EventId : j # i => /\ call'["main"].res[j] = call["main"].res[j]
                                     /\ j \in call["main"].todo => j \in call'["main"].todo
      /\ n = "main" => i \notin call'["main"].todo /\ call'["main"].res[i] = Answer(Peer(n), i)
      /\ n # "main" => call'["main"] = call["main"]
    <2>1. call["main"].res \in [EventId -> Result]
        BY <1>1 DEF CallType
    <2>2. CASE n = "main"
        <3>1. call'["main"] = [batch |-> call["main"].batch, todo |-> call["main"].todo \ {i},
                               res |-> [call["main"].res EXCEPT ![i] = Answer(Peer(n), i)]]
            BY <1>1, <2>2 DEF Taken
        <3> QED
            BY <1>2, <2>1, <2>2, <3>1
    <2>3. CASE n # "main"
        BY <1>1, <2>3 DEF Taken
    <2> QED
        BY <2>2, <2>3
<1>10. \A j \in About(N) : Done(j)' <=> Done(j)
    BY <1>4, <1>7, <1>9 DEF Done
<1>11. PostAt(N)'
    <2>1. \A j \in About(N)' : ledger'[j] # "rejected" /\ (~Done(j)' => ledger'[j] = "none")
        BY <1>4, <1>6, <1>7, <1>10 DEF Arriving, PostAt
    <2>2. call["main"].batch \subseteq EventId
        BY <1>1 DEF CallType
    <2>3. \A j \in call'["main"].batch : j \in call'["main"].todo <=> call'["main"].res[j] = "none"
        BY <1>8, <1>9, <2>2 DEF Arriving, PostAt
    <2> QED
        BY <1>3, <2>1, <2>3 DEF Arriving, PostAt
<1>12. InOrder(N) =>
          /\ \A j \in About(N) : /\ row'[j] \in {"pending", "delivered"}
                                 /\ call'["main"].res[j] \in {"none", "applied", "duplicate"}
          /\ \A j, k \in About(N) : Earlier(k, j) /\ j \in call'["main"].todo =>
                 Done(k) \/ k \in call'["main"].todo
    BY <1>4, <1>7, <1>9 DEF InOrder
<1> QED
    BY <1>3, <1>5, <1>6, <1>10, <1>11, <1>12, ArrivingKept

-----------------------------------------------------------------------------
(* What arrives next                                                        *)

LEMMA BelowBelow ==
    ASSUME NEW t \in Slots, NEW s \in Slots, NEW u \in Slots, t \in Below(s), s \in {u} \cup Below(u)
    PROVE  t \in {u} \cup Below(u)
<1> DEFINE B == {u} \cup Below(u)
<1> SUFFICES ASSUME t \notin B PROVE FALSE
    OBVIOUS
<1>1. \A x \in Slots : x \notin B => Parents[x] \subseteq Slots /\ Parents[x] \cap B = {}
    BY SlotsAssumption DEF Below
<1>2. s \in Up(Up(Up(Parents[t]))) /\ s \in B
    BY DEF Below, Above
<1> HIDE DEF B
<1>3. \A S \in SUBSET Slots : S \cap B = {} => Up(S) \in SUBSET Slots /\ Up(S) \cap B = {}
    BY <1>1 DEF Up
<1>4. Parents[t] \in SUBSET Slots /\ Parents[t] \cap B = {}
    BY <1>1
<1>5. Up(Up(Up(Parents[t]))) \cap B = {}
    BY <1>3, <1>4
<1> QED
    BY <1>2, <1>5

LEMMA TouchesDown ==
    ASSUME TypeOK, NumbersInv, NEW N \in SUBSET Slots, NEW d \in Ever(N), Deletes(d),
           NEW s \in Slots, Touches(d, s), NEW t \in Slots, t \in Below(s)
    PROVE  Touches(d, t)
<1>1. d \in About(N) /\ log[d].act = "delete" /\ d # 0
    BY EverType DEF Deletes
<1>2. log[d].slot \in Slots
    BY <1>1, AboutType
<1>3. s \in {log[d].slot} \cup Below(log[d].slot)
    BY <1>1 DEF Touches
<1>4. t \in {log[d].slot} \cup Below(log[d].slot)
    BY <1>2, <1>3, BelowBelow
<1> QED
    BY <1>1, <1>4 DEF Touches

(* A sync_id an event before d has named.                                   *)
Mentioned(N, d, gen) ==
    \E i \in Until(N, d) \ {0} : log[i].gen = gen \/ \E sid \in log[i].needs : sid[2] = gen

(* What is written after a deletion of its row has a new sync_id.           *)
LEMMA NotAgain ==
    ASSUME TypeOK, NumbersInv, NEW N \in SUBSET Slots, BookAt(N), NEW i \in About(N),
           log[i].act = "upsert", NEW d \in Until(N, i), Deletes(d), Touches(d, log[i].slot),
           NEW gen, Mentioned(N, d, gen)
    PROVE  log[i].gen # gen
<1>1. Renewed(N, i)
    BY DEF BookAt, InPlace
<1>2. PICK k \in Until(N, d) \ {0} : log[k].gen = gen \/ \E sid \in log[k].needs : sid[2] = gen
    BY DEF Mentioned
<1>3. /\ log[k].gen < log[i].gen
      /\ \A sid \in log[k].needs : sid[2] < log[i].gen
    BY <1>1, <1>2 DEF Renewed
<1>4. log[i].gen \in Nat
    BY AboutType
<1> QED
    BY <1>2, <1>3, <1>4

(* Whoever is told of the deletion holds no row with such a sync_id.        *)
LEMMA Gone ==
    ASSUME TypeOK, NumbersInv, NEW N \in SUBSET Slots, BookAt(N), NEW H, H \subseteq Ever(N),
           NEW d \in H, Deletes(d), NEW t \in N, Touches(d, t), NEW gen, Mentioned(N, d, gen),
           NEW r, Tells(H, t, r)
    PROVE  ~Is(r, gen)
<1>1. PICK c \in H : Latest(H, t, c) /\ r = Said(c, t)
    BY DEF Tells
<1>2. c \in Nat /\ d \in Nat /\ d <= c /\ c \in Ever(N) /\ d # 0
    BY <1>1, EverType DEF Latest, Deletes
<1>3. CASE Deletes(c)
    <2>1. r.ver = 0
        BY <1>1, <1>2, <1>3, SaidType
    <2> QED
        BY <2>1 DEF Is
<1>4. CASE ~Deletes(c)
    <2>1. c # d /\ c # 0 /\ d < c
        BY <1>2, <1>4
    <2>2. /\ c \in About(N) /\ log[c].act = "upsert" /\ log[c].slot = t
          /\ r.gen = log[c].gen
        BY <1>1, <1>2, <1>4, <2>1, SaidType DEF Latest
    <2>3. d \in Until(N, c)
        BY <1>2, <2>1 DEF Until
    <2>4. log[c].gen # gen
        BY <2>2, <2>3, NotAgain
    <2> QED
        BY <2>2, <2>4 DEF Is
<1> QED
    BY <1>3, <1>4

(* All earlier events have arrived and this one has not.                    *)
Due(N, i) == ~Done(i) /\ \A k \in About(N) : Earlier(k, i) => Done(k)

(* An event that has arrived before its turn began before it.               *)
LEMMA Overtaken ==
    ASSUME TypeOK, NumbersInv, NEW N \in SUBSET Slots, InOrder(N), NEW i \in About(N), ~Done(i),
           NEW k \in Arrived(N), i < k
    PROVE  k \in About(N) /\ Done(k) /\ log[k].start < log[i].start /\ k # 0
<1>1. i \in Nat /\ i >= 1 /\ log[i].start \in Nat
    BY AboutType
<1>2. k # 0 /\ k \in About(N) /\ Done(k)
    BY <1>1 DEF Arrived
<1>3. log[k].start \in Nat
    BY <1>2, AboutType
<1>4. ~Earlier(i, k)
    BY <1>2 DEF InOrder
<1> QED
    BY <1>1, <1>2, <1>3, <1>4 DEF Earlier

(* So it cannot have decided about the same row, ...                        *)
LEMMA OvertakenApart ==
    ASSUME TypeOK, NumbersInv, NEW N \in SUBSET Slots, BookAt(N), InOrder(N),
           NEW i \in About(N), ~Done(i), NEW k \in Arrived(N), i < k
    PROVE  ~Touches(i, log[k].slot)
<1>1. k \in About(N) /\ log[k].start < log[i].start /\ k # 0
    BY Overtaken
<1>2. i \in Until(N, k) \ {0}
    BY AboutType DEF Until, Ever
<1>3. log[i].start \in Nat /\ log[k].start \in Nat
    BY <1>1, AboutType
<1> QED
    BY <1>1, <1>2, <1>3 DEF BookAt, InPlace

(* ... nor be waited for.                                                   *)
LEMMA DueAfter ==
    ASSUME TypeOK, NumbersInv, NEW N \in SUBSET Slots, BookAt(N), NEW i \in About(N), Due(N, i),
           NEW k \in Until(N, i), Touches(k, log[i].slot)
    PROVE  k \in Arrived(N)
<1>1. CASE k = 0
    BY <1>1 DEF Arrived
<1>2. CASE k # 0
    <2>1. k \in About(N) /\ k < i
        BY <1>2 DEF Until, Ever
    <2>2. log[k].start < log[i].start
        BY <1>2 DEF BookAt, InPlace
    <2>3. log[k].start \in Nat /\ log[i].start \in Nat
        BY <2>1, AboutType
    <2>4. Earlier(k, i)
        BY <2>1, <2>2, <2>3 DEF Earlier
    <2> QED
        BY <2>1, <2>4 DEF Due, Arrived
<1> QED
    BY <1>1, <1>2

LEMMA ArrivedType ==
    ASSUME TypeOK, NEW N \in SUBSET Slots
    PROVE  /\ Arrived(N) \subseteq Ever(N) /\ 0 \in Arrived(N)
           /\ \A i \in Arrived(N) : i \in Nat /\ (i # 0 => i \in About(N) /\ Done(i))
BY EverType DEF Arrived, Ever

(* A deletion that is due finds its row, unless a later one was faster.     *)
LEMMA DeleteDue ==
    ASSUME TypeOK, NumbersInv, NEW N \in SUBSET Slots, BookAt(N), InOrder(N),
           NEW i \in About(N), log[i].act = "delete", Due(N, i), NEW t \in N, Touches(i, t),
           NEW c, Latest(Arrived(N), t, c)
    PROVE  /\ c \in Nat /\ c # i
           /\ i < c => Said(c, t) = Absent
           /\ c < i => Holds("edge", <<log[i].slot, log[i].gen>>)
<1>1. c \in Arrived(N) /\ c \in Ever(N) /\ c \in Nat /\ Touches(c, t)
    BY ArrivedType DEF Latest
<1>2. i \in Nat /\ i # 0 /\ ~Done(i) /\ i \in Ever(N)
    BY AboutType DEF Due, Ever
<1>3. c # i
    BY <1>1, <1>2, ArrivedType
<1>4. ASSUME i < c PROVE Said(c, t) = Absent
    <2>1. ~Touches(i, log[c].slot) /\ c # 0
        BY <1>1, <1>2, <1>4, OvertakenApart
    <2>2. Deletes(c)
        <3> SUFFICES ASSUME ~Deletes(c) PROVE FALSE
            OBVIOUS
        <3>1. log[c].slot = t
            BY <1>1, <2>1, SaidType
        <3> QED
            BY <2>1, <3>1
    <2> QED
        BY <1>1, <2>2, SaidType
<1>5. ASSUME c < i, ~Holds("edge", <<log[i].slot, log[i].gen>>) PROVE FALSE
    <2>1. PICK s \in N : s = log[i].slot
        BY AboutType
    <2>2. PICK c0 \in Until(N, i) : Latest(Until(N, i), s, c0) /\ Is(Said(c0, s), log[i].gen)
        BY <2>1 DEF BookAt, InPlace, WasThere
    <2>3. c0 \in Arrived(N) /\ c0 < i /\ Touches(c0, s) /\ c0 \in Nat
        BY <2>1, <2>2, DueAfter, EverType DEF Latest, Until
    <2>4. PICK c1 \in Arrived(N) : Latest(Arrived(N), s, c1) /\ store["edge"][s] = Said(c1, s)
        BY DEF InOrder, Tells
    <2>5. ~Is(Said(c1, s), log[i].gen)
        BY <1>5, <2>1, <2>4 DEF Holds, Present, Is
    <2>6. c1 # c0 /\ c0 <= c1 /\ c1 \in Nat /\ c1 # i /\ Touches(c1, s) /\ c1 \in Ever(N)
        BY <1>2, <2>2, <2>3, <2>4, <2>5, ArrivedType DEF Latest
    <2>7. i < c1
        <3> SUFFICES ASSUME c1 < i PROVE FALSE
            BY <1>2, <2>6
        <3>1. c1 \in Until(N, i)
            BY <2>6 DEF Until
        <3>2. c1 <= c0
            BY <2>2, <2>6, <3>1 DEF Latest
        <3> QED
            BY <2>3, <2>6, <3>2
    <2>8. ~Touches(i, log[c1].slot) /\ c1 # 0
        BY <1>2, <2>4, <2>7, OvertakenApart
    <2>9. Touches(i, s)
        BY <2>1 DEF Touches
    <2>10. Deletes(c1)
        <3> SUFFICES ASSUME ~Deletes(c1) PROVE FALSE
            OBVIOUS
        <3>1. log[c1].slot = s
            BY <2>6, <2>8, SaidType
        <3> QED
            BY <2>8, <2>9, <3>1
    <2>11. t = s \/ t \in Below(s)
        BY <1>2, <2>1 DEF Touches
    <2>12. Touches(c1, t)
        BY <2>6, <2>10, <2>11, TouchesDown
    <2>13. c1 <= c
        BY <2>4, <2>12 DEF Latest
    <2> QED
        BY <1>1, <1>2, <1>5, <2>6, <2>7, <2>13
<1> QED
    BY <1>1, <1>3, <1>4, <1>5

(* An upsert that is due and finds what it refers to is the latest word on  *)
(* its row.                                                                 *)
LEMMA UpsertDue ==
    ASSUME TypeOK, NumbersInv, NeedsInv, NEW N \in SUBSET Slots, Closed(N), BookAt(N),
           InOrder(N), NEW i \in About(N), log[i].act = "upsert", Due(N, i),
           \A sid \in log[i].needs :
               sid[1] \in Parents[log[i].slot] => Holds("edge", sid)
    PROVE  /\ \A c \in Arrived(N) : Touches(c, log[i].slot) => c < i
           /\ ~(Present("edge", log[i].slot) /\ Outdated("edge", log[i]))
<1>1. PICK s \in N : s = log[i].slot
    BY AboutType
<1>2. i \in Nat /\ i # 0 /\ ~Done(i) /\ i \in Ever(N) /\ log[i].ver \in Nat
    BY AboutType DEF Due, Ever
<1>3. ASSUME NEW c \in Arrived(N), Touches(c, s) PROVE c < i
    <2> SUFFICES ASSUME i < c PROVE FALSE
        BY <1>2, ArrivedType
    <2>1. c \in Ever(N) /\ ~Touches(i, log[c].slot) /\ c # 0 /\ c \in Nat /\ c \in About(N)
        BY <1>2, OvertakenApart, ArrivedType
    <2>2. log[c].slot # s
        BY <1>1, <2>1 DEF Touches
    <2>3. Deletes(c) /\ s \in Below(log[c].slot) /\ log[c].slot \in Slots
        BY <1>3, <2>1, <2>2, AboutType DEF Touches, Deletes
    <2>4. PICK p \in Parents[s] : p = log[c].slot \/ p \in Below(log[c].slot)
        BY <2>3, BelowPath
    <2>5. p \in N /\ Touches(c, p)
        BY <2>1, <2>3, <2>4 DEF Closed, Touches, Deletes
    <2>6. PICK sid \in log[i].needs : sid[1] = p
        BY <1>1, <2>4 DEF NeedsInv, NamesOwners, About
    <2>7. Holds("edge", sid)
        BY <1>1, <2>4, <2>6
    <2>8. Mentioned(N, c, sid[2])
        BY <1>2, <2>6 DEF Mentioned, Until
    <2>9. PICK r : r = store["edge"][p]
        OBVIOUS
    <2>10. ~Is(r, sid[2])
        BY <2>3, <2>5, <2>8, <2>9, Gone, ArrivedType DEF InOrder
    <2> QED
        BY <2>6, <2>7, <2>9, <2>10 DEF Holds, Present, Is
<1>4. ASSUME Present("edge", s), Outdated("edge", log[i]) PROVE FALSE
    <2>1. PICK c \in Arrived(N) : Latest(Arrived(N), s, c) /\ store["edge"][s] = Said(c, s)
        BY DEF InOrder, Tells
    <2>2. c \in Ever(N) /\ c < i /\ Touches(c, s) /\ c \in Until(N, i) /\ c \in Nat
        BY <1>3, <2>1, ArrivedType DEF Latest, Until
    <2>3. Said(c, s).ver > 0 /\ log[i].ver < Said(c, s).ver /\ Said(c, s).ver \in Nat
        BY <1>1, <1>4, <2>1, <2>2, SaidType DEF Present, Outdated
    <2>4. Continued(N, i)
        BY DEF BookAt, InPlace
    <2>5. PICK d \in Until(N, i) : Touches(d, s) /\ Deletes(d) /\ c < d
        BY <1>1, <1>2, <2>2, <2>3, <2>4 DEF Continued
    <2>6. d \in Arrived(N) /\ d \in Nat
        BY <1>1, <2>5, DueAfter, ArrivedType
    <2>7. d <= c
        BY <2>1, <2>5, <2>6 DEF Latest
    <2> QED
        BY <2>2, <2>5, <2>6, <2>7
<1> QED
    BY <1>1, <1>3, <1>4

(* What an event refers to was there from the start or has arrived, if the  *)
(* event is due.                                                            *)
LEMMA ReferredArrived ==
    ASSUME TypeOK, NumbersInv, NEW N \in SUBSET Slots, BookAt(N), NEW i \in About(N),
           log[i].act = "upsert", Due(N, i), NEW sid \in log[i].needs,
           NEW c \in Until(N, i), Touches(c, sid[1]), Is(Said(c, sid[1]), sid[2]), sid[1] \in N
    PROVE  \E b \in Arrived(N) : /\ b <= c /\ Touches(b, sid[1]) /\ Is(Said(b, sid[1]), sid[2])
                                 /\ b # 0 => log[b].gen = sid[2]
<1>1. PICK t \in N : t = sid[1]
    OBVIOUS
<1>2. 2 * sid[2] < log[i].start
    BY DEF BookAt, InPlace, Referred
<1>3. c \in Nat /\ c \in Ever(N) /\ c < i /\ Said(c, t).ver > 0 /\ Said(c, t).gen = sid[2]
    BY <1>1, EverType DEF Until, Is
<1>4. CASE c = 0
    <2>1. Said(c, t).gen = 0
        BY <1>3, <1>4, SaidType
    <2>2. 0 \in Arrived(N)
        BY ArrivedType
    <2> QED
        BY <1>1, <1>4, <2>2
<1>5. CASE c # 0
    <2>1. ~Deletes(c)
        BY <1>3, SaidType
    <2>2. c \in About(N) /\ log[c].act = "upsert" /\ log[c].slot = t /\ log[c].gen = sid[2]
        BY <1>1, <1>3, <1>5, <2>1, SaidType
    <2>3. Created(N, c)
        BY <2>2 DEF BookAt, InPlace
    <2>4. CASE log[c].gen = 0
        <3>1. t \in Seeded
            BY <2>2, <2>3, <2>4 DEF Created
        <3>2. Touches(0, t) /\ Is(Said(0, t), sid[2])
            BY <2>2, <2>4, <3>1 DEF Touches, Is, Said, AtStart, Seed
        <3> QED
            BY <1>1, <1>3, <3>2, ArrivedType
    <2>5. CASE log[c].gen # 0
        <3>1. PICK b \in About(N) : /\ b <= c /\ log[b].act = "upsert" /\ log[b].slot = t
                                    /\ log[b].gen = sid[2] /\ log[b].start = 2 * sid[2]
            BY <2>2, <2>3, <2>5 DEF Created
        <3>2. b \in Nat /\ i \in Nat /\ log[b].start \in Nat /\ log[i].start \in Nat
              /\ b \in Ever(N) /\ b # 0
            BY AboutType DEF Ever
        <3>3. Earlier(b, i)
            BY <1>2, <1>3, <3>1, <3>2 DEF Earlier
        <3>4. b \in Arrived(N)
            BY <3>3 DEF Due, Arrived
        <3>5. ~Deletes(b) /\ Touches(b, t)
            BY <3>1 DEF Deletes, Touches
        <3>6. Is(Said(b, t), sid[2])
            BY <3>1, <3>2, <3>5, SaidType DEF Is
        <3> QED
            BY <1>1, <3>1, <3>4, <3>5, <3>6
    <2> QED
        BY <2>4, <2>5
<1> QED
    BY <1>4, <1>5

(* An upsert that is due and does not find what it refers to never will:    *)
(* that was deleted on main, and the deletion was faster.                   *)
LEMMA Lost ==
    ASSUME TypeOK, NumbersInv, NeedsInv, NEW N \in SUBSET Slots, Closed(N), BookAt(N),
           InOrder(N), writes \in Nat, NEW i \in About(N), log[i].act = "upsert", Due(N, i),
           NEW sid \in log[i].needs, ~Holds("edge", sid)
    PROVE  Trapped(N)
<1>1. i \in Nat /\ i # 0 /\ ~Done(i) /\ i \in Ever(N) /\ log[i].needs \in SUBSET (Slots \X Gen)
    BY AboutType DEF Due, Ever
<1>2. sid[1] \in N /\ sid[2] \in Gen /\ sid = <<sid[1], sid[2]>>
    BY <1>1, AboutType DEF BookAt, InPlace, Referred, Closed
<1>3. PICK t \in N : t = sid[1]
    BY <1>2
<1>4. PICK g \in Gen : g = sid[2]
    BY <1>2
<1>5. PICK c0 \in Until(N, i) : Latest(Until(N, i), t, c0) /\ Is(Said(c0, t), g)
    BY <1>3, <1>4 DEF BookAt, InPlace, Referred, WasThere
<1>6. c0 \in Nat /\ c0 \in Ever(N) /\ c0 < i /\ Touches(c0, t)
    BY <1>5, EverType DEF Until, Latest
<1>7. PICK b \in Arrived(N) : /\ b <= c0 /\ Touches(b, t) /\ Is(Said(b, t), g)
                              /\ b # 0 => log[b].gen = g
    BY <1>3, <1>4, <1>5, <1>6, ReferredArrived
<1>8. b \in Nat /\ b \in Ever(N) /\ Said(b, t).ver > 0 /\ Said(b, t).gen = g
    BY <1>7, ArrivedType DEF Is
<1>9. PICK c1 \in Arrived(N) : Latest(Arrived(N), t, c1) /\ store["edge"][t] = Said(c1, t)
    BY DEF InOrder, Tells
<1>10. ~Is(Said(c1, t), g)
    BY <1>2, <1>3, <1>4, <1>9 DEF Holds, Present, Is
<1>11. c1 \in Nat /\ c1 \in Ever(N) /\ b < c1 /\ c1 # 0 /\ c1 \in About(N) /\ Touches(c1, t)
    <2>1. b <= c1 /\ b # c1
        BY <1>7, <1>9, <1>10 DEF Latest
    <2>2. c1 \in Nat /\ c1 \in Ever(N) /\ (c1 # 0 => c1 \in About(N)) /\ Touches(c1, t)
        BY <1>9, ArrivedType DEF Latest
    <2> QED
        BY <1>8, <2>1, <2>2
(* No deletion of the row came between its creation and the event, ... *)
<1>12. ASSUME NEW d \in Until(N, i), Deletes(d), Touches(d, t), b < d PROVE FALSE
    <2>1. d \in Nat /\ d # 0 /\ d \in Ever(N)
        BY <1>12, EverType DEF Until, Deletes
    <2>2. d <= c0
        BY <1>5, <1>12 DEF Latest
    <2>3. ~Deletes(c0)
        BY <1>5, <1>6, SaidType DEF Is
    <2>4. c0 # d /\ d < c0 /\ c0 # 0
        BY <1>6, <1>12, <2>1, <2>2, <2>3
    <2>5. c0 \in About(N) /\ log[c0].act = "upsert" /\ log[c0].slot = t /\ log[c0].gen = g
        BY <1>5, <1>6, <2>3, <2>4, SaidType DEF Is
    <2>6. d \in Until(N, c0)
        BY <2>1, <2>4 DEF Until
    <2>7. CASE b = 0
        <3>1. g = 0
            BY <1>8, <2>7, SaidType
        <3>2. Renewed(N, c0)
            BY <2>5 DEF BookAt, InPlace
        <3>3. log[c0].gen > 0
            BY <1>12, <2>5, <2>6, <3>2 DEF Renewed
        <3> QED
            BY <2>5, <3>1, <3>3
    <2>8. CASE b # 0
        <3>1. Mentioned(N, d, g)
            BY <1>7, <1>8, <1>12, <2>8 DEF Mentioned, Until
        <3> QED
            BY <1>12, <2>5, <2>6, <3>1, NotAgain
    <2> QED
        BY <2>7, <2>8
(* ... so one came after the event, and was faster. *)
<1>13. PICK d \in Arrived(N) : Deletes(d) /\ Touches(d, t) /\ b < d
    <2>1. CASE Deletes(c1)
        BY <1>9, <1>11, <2>1
    <2>2. CASE ~Deletes(c1)
        <3>1. /\ log[c1].act = "upsert" /\ log[c1].slot = t /\ Said(c1, t).gen = log[c1].gen
              /\ Said(c1, t).ver > 0 /\ Done(c1)
            BY <1>9, <1>11, <2>2, SaidType, ArrivedType
        <3>2. Continued(N, c1)
            BY <1>11, <3>1 DEF BookAt, InPlace
        <3>3. b \in Until(N, c1)
            BY <1>8, <1>11 DEF Until
        <3>4. log[c1].gen # g
            BY <1>10, <3>1 DEF Is
        <3>5. PICK d \in Until(N, c1) : Touches(d, t) /\ Deletes(d) /\ b < d
            BY <1>7, <1>8, <3>1, <3>2, <3>3, <3>4 DEF Continued
        <3>6. d \in About(N) /\ d \in Nat /\ d < c1 /\ d # 0
            BY <3>5, EverType DEF Until, Deletes
        <3>7. log[d].start < log[c1].start
            BY <1>11, <3>1, <3>5, <3>6 DEF BookAt, InPlace
        <3>8. Earlier(d, c1)
            <4>1. log[d].start \in Nat /\ log[c1].start \in Nat
                BY <1>11, <3>6, AboutType
            <4> QED
                BY <3>6, <3>7, <4>1 DEF Earlier
        <3>9. d \in Arrived(N)
            BY <1>11, <3>1, <3>6, <3>8 DEF InOrder, Arrived
        <3> QED
            BY <3>5, <3>9
    <2> QED
        BY <2>1, <2>2
<1>14. d \in About(N) /\ d \in Nat /\ Done(d) /\ i < d /\ i \in Until(N, d) \ {0} /\ d \in Ever(N)
       /\ log[d].act = "delete" /\ d # 0
    <2>1. d \in Nat /\ d # 0 /\ d \in About(N) /\ Done(d) /\ d \in Ever(N) /\ log[d].act = "delete"
        BY <1>13, ArrivedType DEF Deletes
    <2>2. d # i
        BY <1>1, <2>1
    <2>3. ~(d < i)
        <3> SUFFICES ASSUME d < i PROVE FALSE
            OBVIOUS
        <3>1. d \in Until(N, i)
            BY <2>1 DEF Until
        <3> QED
            BY <1>12, <1>13, <3>1
    <2> QED
        BY <1>1, <2>1, <2>2, <2>3 DEF Until
<1> DEFINE L == {x \in N \X Gen : Touches(d, x[1]) /\ Mentioned(N, d, x[2])}
<1>15. L \in SUBSET (N \X Gen)
    OBVIOUS
<1>16. sid \in L
    <2>1. Mentioned(N, d, g)
        BY <1>4, <1>14 DEF Mentioned
    <2> QED
        BY <1>2, <1>3, <1>4, <1>13, <2>1
<1>17. ASSUME NEW x \in L
       PROVE  x[2] <= writes /\ ~Holds("main", x) /\ ~Holds("edge", x)
    <2>1. x[1] \in N /\ x[2] \in Nat /\ Touches(d, x[1]) /\ Mentioned(N, d, x[2])
        BY BoundsAssumption DEF Gen
    <2>2. PICK k \in Until(N, d) \ {0} : log[k].gen = x[2] \/ \E y \in log[k].needs : y[2] = x[2]
        BY <2>1 DEF Mentioned
    <2>3. k \in About(N) /\ InPlace(N, k)
        BY <2>2 DEF Until, Ever, BookAt
    <2>4. /\ log[k].gen <= writes /\ log[k].start <= 2 * writes /\ log[k].start \in Nat
          /\ log[k].act \in {"upsert", "delete"}
        BY <2>3, AboutType DEF InPlace
    <2>5. \A y \in log[k].needs : 2 * y[2] < log[k].start
        BY <2>3, <2>4 DEF InPlace, Referred
    <2>6. x[2] <= writes
        BY <2>1, <2>2, <2>4, <2>5
    <2>7. ~Is(store["main"][x[1]], x[2])
        <3>1. d \in Ever(N) /\ \A r : Tells(Ever(N), x[1], r) => ~Is(r, x[2])
            BY <1>13, <1>14, <2>1, Gone
        <3> QED
            BY <2>1, <3>1 DEF BookAt
    <2>8. ~Is(store["edge"][x[1]], x[2])
        <3>1. \A r : Tells(Arrived(N), x[1], r) => ~Is(r, x[2])
            BY <1>13, <2>1, Gone, ArrivedType
        <3> QED
            BY <2>1, <3>1 DEF InOrder
    <2> QED
        BY <2>6, <2>7, <2>8 DEF Is, Holds, Present
<1>18. ASSUME NEW k \in About(N), log[k].act = "upsert", <<log[k].slot, log[k].gen>> \in L, ~Done(k)
       PROVE  log[k].needs \cap L # {}
    <2>1. PICK y \in N : y = log[k].slot
        BY AboutType
    <2>2. Touches(d, y) /\ Mentioned(N, d, log[k].gen)
        BY <1>18, <2>1
    <2>3. k \in Nat /\ k # 0 /\ k \in Ever(N) /\ log[k].start \in Nat /\ log[d].start \in Nat
          /\ log[k].needs \in SUBSET (Slots \X Gen) /\ log[d].slot \in Slots
        <3>1. k \in Nat /\ k >= 1 /\ log[k].start \in Nat
              /\ log[k].needs \in SUBSET (Slots \X Gen)
            BY AboutType
        <3>2. log[d].start \in Nat /\ log[d].slot \in Slots
            BY <1>14, AboutType
        <3> QED
            BY <3>1, <3>2 DEF Ever
    <2>4. k < d
        <3>1. k # d
            BY <1>14, <1>18
        <3>2. ~(d < k)
            <4> SUFFICES ASSUME d < k PROVE FALSE
                OBVIOUS
            <4>1. d \in Until(N, k)
                BY <1>14 DEF Until
            <4> QED
                BY <1>13, <1>18, <2>1, <2>2, <4>1, NotAgain
        <3> QED
            BY <1>14, <2>3, <3>1, <3>2
    <2>5. k \in Until(N, d) \ {0}
        BY <2>3, <2>4 DEF Until
    <2>6. log[d].start < log[k].start
        BY <1>14, <1>18, <2>3, <2>4 DEF InOrder, Earlier
    <2>7. log[d].slot # y
        <3> SUFFICES ASSUME log[d].slot = y PROVE FALSE
            OBVIOUS
        <3>1. Touches(k, log[d].slot)
            BY <2>1 DEF Touches
        <3>2. log[k].start < log[d].start
            BY <1>14, <2>5, <3>1 DEF BookAt, InPlace
        <3> QED
            BY <2>3, <2>6, <3>2
    <2>8. y \in Below(log[d].slot)
        BY <1>14, <2>2, <2>7 DEF Touches
    <2>9. PICK p \in Parents[y] : p = log[d].slot \/ p \in Below(log[d].slot)
        BY <2>3, <2>8, BelowPath
    <2>10. p \in N /\ Touches(d, p)
        BY <1>14, <2>9 DEF Closed, Touches
    <2>11. PICK x \in log[k].needs : x[1] = p
        BY <1>18, <2>1, <2>9 DEF NeedsInv, NamesOwners, About
    <2>12. x = <<x[1], x[2]>> /\ x[2] \in Gen
        BY <2>3
    <2>13. Mentioned(N, d, x[2])
        BY <2>5 DEF Mentioned
    <2>14. x \in L
        BY <2>10, <2>11, <2>12, <2>13
    <2> QED
        BY <2>11, <2>14
<1> HIDE DEF L
<1>19. Stuck(N, L, i)
    BY <1>1, <1>16, <1>17, <1>18 DEF Stuck
<1> QED
    BY <1>15, <1>19 DEF Trapped

(* How the edge answers an event of main it has not decided about.          *)
LEMMA AnswerAt ==
    ASSUME IInv, NEW i \in 1 .. Len(log), log[i].src = "main", ledger[i] = "none",
           Apply("edge", i)
    PROVE  /\ UNCHANGED <<log, row>>
           /\ \/ /\ Answer("edge", i) = "deferred" /\ log[i].act = "upsert"
                 /\ Missing("edge", log[i]) /\ UNCHANGED <<store, ledger>>
              \/ /\ Answer("edge", i) = "applied" /\ log[i].act = "delete"
                 /\ ~Holds("edge", <<log[i].slot, log[i].gen>>) /\ UNCHANGED <<store, ledger>>
              \/ /\ Answer("edge", i) = "applied" /\ log[i].act = "delete"
                 /\ store' = Without("edge", log[i].slot)
                 /\ ledger' = [ledger EXCEPT ![i] = "applied"]
              \/ /\ Answer("edge", i) = "applied" /\ log[i].act = "upsert"
                 /\ ~Missing("edge", log[i])
                 /\ store' = Put("edge", log[i].slot, [gen |-> log[i].gen,
                                     ver |-> AtLeastOne(log[i].ver), val |-> log[i].val])
                 /\ ledger' = [ledger EXCEPT ![i] = "applied"]
              \/ /\ Answer("edge", i) = "duplicate" /\ log[i].act = "upsert"
                 /\ ~Missing("edge", log[i])
                 /\ Present("edge", log[i].slot) /\ Outdated("edge", log[i])
                 /\ UNCHANGED store /\ ledger' = [ledger EXCEPT ![i] = "duplicate"]
<1>1. TypeOK /\ log[i] \in Event /\ log[i].act \in {"upsert", "delete"} /\ "edge" \in Node
    BY LogAt DEF IInv, Event, Node
<1>2. ~Known(i) /\ ~FromEdge("edge", log[i]) /\ Peer("edge") = "main"
    BY DEF Known, FromEdge, Peer
<1>3. ~Refused("edge", log[i]) /\ ~Conflict("edge", log[i]) /\ ~Echoes("edge", log[i])
    BY <1>2 DEF Refused, Conflict, Echoes
<1>4. CASE log[i].act = "delete"
    <2>1. Verdict("edge", log[i]) = IF Holds("edge", <<log[i].slot, log[i].gen>>)
                                    THEN "applied" ELSE "gone"
        BY <1>2, <1>3, <1>4 DEF Verdict, DeleteVerdict
    <2>2. CASE Holds("edge", <<log[i].slot, log[i].gen>>)
        <3>1. Verdict("edge", log[i]) = "applied" /\ Answer("edge", i) = "applied"
            BY <1>2, <2>1, <2>2 DEF Answer
        <3>2. store' = Applied("edge", log[i]) /\ ledger' = [ledger EXCEPT ![i] = "applied"]
              /\ UNCHANGED <<log, row>>
            BY <1>2, <1>3, <3>1 DEF Apply
        <3> QED
            BY <1>1, <1>4, <3>1, <3>2, AppliedEvent
    <2>3. CASE ~Holds("edge", <<log[i].slot, log[i].gen>>)
        BY <1>2, <1>4, <2>1, <2>3 DEF Answer, Apply
    <2> QED
        BY <2>2, <2>3
<1>5. CASE log[i].act = "upsert"
    <2>1. Verdict("edge", log[i]) = UpsertVerdict("edge", log[i])
        BY <1>2, <1>5 DEF Verdict
    <2>2. CASE Missing("edge", log[i])
        <3>1. Verdict("edge", log[i]) = "deferred"
            BY <1>3, <2>1, <2>2 DEF UpsertVerdict, Missing
        <3> QED
            BY <1>2, <1>5, <2>2, <3>1 DEF Answer, Apply
    <2>3. CASE ~Missing("edge", log[i]) /\ Present("edge", log[i].slot)
               /\ Outdated("edge", log[i])
        <3>1. Verdict("edge", log[i]) = "duplicate"
            BY <1>3, <2>1, <2>3 DEF UpsertVerdict, Missing
        <3> QED
            BY <1>2, <1>5, <2>3, <3>1 DEF Answer, Apply
    <2>4. CASE ~Missing("edge", log[i])
               /\ ~(Present("edge", log[i].slot) /\ Outdated("edge", log[i]))
        <3>1. Verdict("edge", log[i]) = "applied"
            BY <1>3, <2>1, <2>4 DEF UpsertVerdict, Missing
        <3>2. store' = Applied("edge", log[i]) /\ ledger' = [ledger EXCEPT ![i] = "applied"]
              /\ UNCHANGED <<log, row>> /\ Answer("edge", i) = "applied"
            BY <1>2, <1>3, <3>1 DEF Apply, Answer
        <3> QED
            BY <1>5, <2>4, <3>2 DEF Applied
    <2> QED
        BY <2>2, <2>3, <2>4
<1> QED
    BY <1>1, <1>4, <1>5

(* What taking an event of main changes besides the rows.                   *)
LEMMA TakenAt ==
    ASSUME IInv, NEW N \in SUBSET Slots, Kept(N), Calm(N), Arriving(N),
           NEW i \in call["main"].todo, Taken("main", i), i \in About(N)
    PROVE  /\ i \in 1 .. Len(log) /\ log[i].src = "main" /\ ledger[i] = "none" /\ ~Done(i)
           /\ Apply("edge", i) /\ UNCHANGED <<orphans, snap, writes, log, row>>
           /\ \A j : j \in About(N)' <=> j \in About(N)
           /\ call'["main"].todo = call["main"].todo \ {i}
           /\ call'["main"].res[i] = Answer("edge", i)
           /\ \A j \in EventId : j # i => call'["main"].res[j] = call["main"].res[j]
           /\ \A j \in About(N) : j # i => (Done(j)' <=> Done(j))
           /\ Done(i)' <=> Answer("edge", i) \in {"applied", "duplicate"}
           /\ PostAt(N)'
<1>1. TypeOK /\ CallInv("main") /\ call \in [Node -> CallType] /\ "main" \in Node
    BY DEF IInv, DeliveryInv, TypeOK, Node
<1>2. /\ i \in 1 .. Len(log) /\ i \in EventId /\ log[i].src = "main" /\ row[i] = "pending"
      /\ i \in call["main"].batch
    BY <1>1, LogAt DEF CallInv
<1>3. Peer("main") = "edge" /\ Peer("edge") = "main" /\ "edge" \in Node
    BY DEF Peer, Node
<1>4. Apply("edge", i) /\ UNCHANGED <<orphans, snap, writes>>
    BY <1>3 DEF Taken, requests
<1>5. call["main"].res[i] = "none"
    BY <1>2 DEF Arriving, PostAt
<1>6. ~Done(i)
    BY <1>2, <1>5 DEF Done
<1>7. ledger[i] = "none"
    BY <1>6 DEF Arriving, PostAt
<1>8. UNCHANGED <<log, row>>
    BY <1>2, <1>4, <1>7, AnswerAt
<1>9. \A j : j \in About(N)' <=> j \in About(N)
    BY <1>8 DEF About
<1>10. /\ call'["main"].batch = call["main"].batch
       /\ call'["main"].todo = call["main"].todo \ {i}
       /\ call'["main"].res[i] = Answer("edge", i)
       /\ \A j \in EventId : j # i => call'["main"].res[j] = call["main"].res[j]
    <2>1. call["main"].res \in [EventId -> Result]
        BY <1>1 DEF CallType
    <2>2. call'["main"] = [batch |-> call["main"].batch, todo |-> call["main"].todo \ {i},
                           res |-> [call["main"].res EXCEPT ![i] = Answer("edge", i)]]
        BY <1>1, <1>3 DEF Taken
    <2> QED
        BY <1>2, <2>1, <2>2
<1>11. \A j \in About(N) : j \in EventId
    BY MainsAbout
<1>12. \A j \in About(N) : j # i => (Done(j)' <=> Done(j))
    BY <1>8, <1>10, <1>11 DEF Done
<1>13. Done(i)' <=> Answer("edge", i) \in {"applied", "duplicate"}
    BY <1>2, <1>8, <1>10 DEF Done
<1>14. PostAt(N)'
    <2>1. Answer("edge", i) # "none"
        BY <1>1, <1>2, <1>3, <1>4, ApplyEffect
    <2>2. call["main"].batch \subseteq EventId
        BY <1>1 DEF CallType
    <2>3. \A j \in call'["main"].batch :
              j \in call'["main"].todo <=> call'["main"].res[j] = "none"
        BY <1>10, <2>1, <2>2 DEF Arriving, PostAt
    <2>4. \A j \in EventId : j # i => ledger'[j] = ledger[j]
        BY <1>2, <1>3, <1>4, ArrivesAt
    <2>5. ledger'[i] # "rejected" /\ (~Done(i)' => ledger'[i] = "none")
        <3>1. ledger \in [EventId -> Status]
            BY <1>1 DEF TypeOK
        <3>2. \/ Answer("edge", i) = "deferred" /\ ledger' = ledger
              \/ Answer("edge", i) = "applied" /\ ledger' = ledger
              \/ Answer("edge", i) = "applied" /\ ledger' = [ledger EXCEPT ![i] = "applied"]
              \/ Answer("edge", i) = "duplicate" /\ ledger' = [ledger EXCEPT ![i] = "duplicate"]
            BY <1>2, <1>4, <1>7, AnswerAt
        <3> QED
            BY <1>2, <1>7, <1>13, <3>1, <3>2
    <2>6. \A j \in About(N)' : ledger'[j] # "rejected" /\ (~Done(j)' => ledger'[j] = "none")
        BY <1>9, <1>11, <1>12, <2>4, <2>5 DEF Arriving, PostAt
    <2> QED
        BY <1>4, <2>3, <2>6 DEF Arriving, PostAt
<1> QED
    BY <1>2, <1>4, <1>6, <1>7, <1>8, <1>9, <1>10, <1>12, <1>13, <1>14

(* An event about N is deferred exactly if some row it refers to is missing.*)
LEMMA MissingReferred ==
    ASSUME TypeOK, NumbersInv, NEW N \in SUBSET Slots, BookAt(N), NEW i \in About(N),
           log[i].act = "upsert"
    PROVE  Missing("edge", log[i]) <=> \E sid \in log[i].needs : ~Holds("edge", sid)
<1>1. \A sid \in log[i].needs : sid[1] \in Parents[log[i].slot] \cup ReplyTo[log[i].slot]
    BY DEF BookAt, InPlace, Referred
<1> QED
    BY <1>1 DEF Missing, OwnerMissing, ReplyMissing

(* An event is taken while one is stuck: none brings a lost row back.       *)
LEMMA TrappedTaken ==
    ASSUME IInv, NumbersInv, NEW N \in SUBSET Slots, Kept(N), Calm(N), BookAt(N), Arriving(N),
           NEW i \in call["main"].todo, Taken("main", i), i \in About(N), Trapped(N)
    PROVE  Arriving(N)'
<1>1. TypeOK /\ StoreType /\ writes \in Nat /\ "edge" \in Node /\ "main" \in Node
      /\ Peer("edge") = "main"
    BY TypeParts, BoundsAssumption DEF IInv, TypeOK, Gen, Node, Peer
<1>2. PICK L \in SUBSET (N \X Gen), k \in About(N) : Stuck(N, L, k)
    BY DEF Trapped
<1>3. /\ i \in 1 .. Len(log) /\ log[i].src = "main" /\ ledger[i] = "none" /\ ~Done(i)
      /\ Apply("edge", i) /\ UNCHANGED <<writes, log>>
      /\ \A j : j \in About(N)' <=> j \in About(N)
      /\ \A j \in About(N) : j # i => (Done(j)' <=> Done(j))
      /\ Done(i)' <=> Answer("edge", i) \in {"applied", "duplicate"}
      /\ PostAt(N)'
    BY TakenAt
<1>4. ASSUME log[i].act = "upsert", log[i].needs \cap L # {}
      PROVE  Missing("edge", log[i])
    BY <1>1, <1>2, <1>4, MissingReferred DEF Stuck
<1>5. ~Done(k)'
    <2>1. CASE k = i
        <3>1. Missing("edge", log[i]) /\ log[i].act = "upsert"
            BY <1>2, <1>4, <2>1 DEF Stuck
        <3>2. Answer("edge", i) = "deferred"
            BY <1>3, <3>1, AnswerAt
        <3> QED
            BY <1>3, <2>1, <3>2
    <2>2. CASE k # i
        BY <1>2, <1>3, <2>2 DEF Stuck
    <2> QED
        BY <2>1, <2>2
<1>6. \A t \in N : store'["main"][t] = store["main"][t]
    BY <1>1, <1>3, ArrivesAt
<1>7. log[i].slot \in Slots /\ log[i].slot \in N
    BY <1>1, AboutType, NumbersInv
<1>8. \A sid \in L : ~Holds("main", sid)' /\ ~Holds("edge", sid)'
    <2> SUFFICES ASSUME NEW sid \in L PROVE ~Holds("main", sid)' /\ ~Holds("edge", sid)'
        OBVIOUS
    <2>1. /\ sid[1] \in N /\ sid = <<sid[1], sid[2]>>
          /\ ~Holds("main", sid) /\ ~Holds("edge", sid)
        BY <1>2, LostType DEF Stuck
    <2>2. ~Holds("main", sid)'
        BY <1>6, <2>1 DEF Holds, Present
    <2>3. ~Holds("edge", sid)'
        <3>1. CASE UNCHANGED store
            BY <2>1, <3>1 DEF Holds, Present
        <3>2. CASE store' = Without("edge", log[i].slot)
            <4>1. store'["edge"][sid[1]] \in {store["edge"][sid[1]], Absent}
                BY <1>1, <1>7, <2>1, <3>2, WithoutAt
            <4> QED
                BY <2>1, <4>1 DEF Holds, Present, Absent
        <3>3. ASSUME NEW r, r.gen = log[i].gen, store' = Put("edge", log[i].slot, r),
                     log[i].act = "upsert", ~Missing("edge", log[i])
              PROVE  ~Holds("edge", sid)'
            <4>1. store'["edge"][sid[1]] = IF sid[1] = log[i].slot THEN r
                                           ELSE store["edge"][sid[1]]
                BY <1>1, <1>7, <2>1, <3>3, PutAt
            <4>2. <<log[i].slot, log[i].gen>> \notin L
                BY <1>2, <1>3, <1>4, <3>3 DEF Stuck
            <4>3. sid[1] = log[i].slot => sid[2] # log[i].gen
                BY <2>1, <4>2
            <4> QED
                BY <2>1, <3>3, <4>1, <4>3 DEF Holds, Present
        <3>4. PICK r : r = [gen |-> log[i].gen, ver |-> AtLeastOne(log[i].ver),
                            val |-> log[i].val]
            OBVIOUS
        <3>5. r.gen = log[i].gen
            BY <3>4
        <3>6. \/ UNCHANGED store
              \/ store' = Without("edge", log[i].slot)
              \/ /\ store' = Put("edge", log[i].slot, r)
                 /\ log[i].act = "upsert" /\ ~Missing("edge", log[i])
            BY <1>3, <3>4, AnswerAt
        <3> QED
            BY <3>1, <3>2, <3>3, <3>5, <3>6
    <2> QED
        BY <2>2, <2>3
<1>9. \A j \in About(N) : Done(j) => Done(j)'
    BY <1>3
<1>10. writes' \in Nat /\ writes <= writes' /\ \A j \in About(N)' : j \in About(N)
    BY <1>1, <1>3
<1>11. Trapped(N)'
    BY <1>1, <1>2, <1>5, <1>8, <1>9, <1>10, StuckKept
<1> QED
    BY <1>3, <1>11 DEF Arriving

(* The next event of main arrives in order.                                 *)
LEMMA TellsMore ==
    ASSUME TypeOK, NEW N \in SUBSET Slots, Kept(N), NEW i \in About(N),
           \A j : j \in Arrived(N)' <=> j \in Arrived(N) \/ j = i,
           NEW t, NEW c, c \in Arrived(N) \/ c = i, Touches(c, t),
           \A j \in Arrived(N) : Touches(j, t) => j <= c,
           Touches(i, t) => i <= c,
           store'["edge"][t] = Said(c, t)
    PROVE  Tells(Arrived(N), t, store["edge"][t])'
<1>1. \A j \in Arrived(N) \cup {i} :
          (Touches(j, t)' <=> Touches(j, t)) /\ Said(j, t)' = Said(j, t)
    BY OldEvents, ArrivedType DEF Ever
<1>2. Latest(Arrived(N), t, c)'
    BY <1>1 DEF Latest
<1> QED
    BY <1>1, <1>2 DEF Tells

LEMMA OrderTaken ==
    ASSUME IInv, NumbersInv, NeedsInv, NEW N \in SUBSET Slots, Kept(N), Calm(N), Closed(N),
           BookAt(N), Arriving(N), InOrder(N),
           NEW i \in call["main"].todo, Taken("main", i), i \in About(N)
    PROVE  Arriving(N)'
<1>1. TypeOK /\ StoreType /\ writes \in Nat /\ "edge" \in Node
    BY TypeParts, BoundsAssumption DEF IInv, TypeOK, Gen, Node
<1>2. /\ i \in 1 .. Len(log) /\ log[i].src = "main" /\ ledger[i] = "none" /\ ~Done(i)
      /\ Apply("edge", i) /\ UNCHANGED <<log, row>>
      /\ \A j : j \in About(N)' <=> j \in About(N)
      /\ call'["main"].todo = call["main"].todo \ {i}
      /\ call'["main"].res[i] = Answer("edge", i)
      /\ \A j \in EventId : j # i => call'["main"].res[j] = call["main"].res[j]
      /\ \A j \in About(N) : j # i => (Done(j)' <=> Done(j))
      /\ Done(i)' <=> Answer("edge", i) \in {"applied", "duplicate"}
      /\ PostAt(N)'
    BY TakenAt
<1>3. Due(N, i)
    <2> SUFFICES ASSUME NEW k \in About(N), Earlier(k, i) PROVE Done(k)
        BY <1>2 DEF Due
    <2>1. Done(k) \/ k \in call["main"].todo
        BY DEF InOrder
    <2>2. log[k].start \in Nat /\ log[i].start \in Nat
        BY <1>1, AboutType
    <2>3. Before(k, i)
        BY <2>2 DEF Earlier, Before
    <2> QED
        BY <2>1, <2>3 DEF Taken, IsFirst
<1>4. ASSUME Answer("edge", i) = "deferred" PROVE Arriving(N)'
    <2>1. log[i].act = "upsert" /\ Missing("edge", log[i])
        BY <1>2, <1>4, AnswerAt
    <2>2. PICK sid \in log[i].needs : ~Holds("edge", sid)
        BY <1>1, <2>1, MissingReferred
    <2>3. Trapped(N)
        BY <1>1, <1>3, <2>1, <2>2, Lost
    <2> QED
        BY <2>3, TrappedTaken
<1>5. ASSUME Answer("edge", i) \in {"applied", "duplicate"},
             \A t \in N : Tells(Arrived(N), t, store["edge"][t])'
      PROVE  Arriving(N)'
    <2>1. \A j, k \in About(N) : Earlier(k, j)' <=> Earlier(k, j)
        BY <1>2 DEF Earlier
    <2>2. ASSUME NEW j \in About(N)', NEW k \in About(N)', Earlier(k, j)'
          PROVE  /\ Done(j)' => Done(k)'
                 /\ j \in call'["main"].todo => Done(k)' \/ k \in call'["main"].todo
        BY <1>2, <1>3, <1>5, <2>1, <2>2 DEF InOrder, Due
    <2>3. ASSUME NEW k \in About(N)'
          PROVE  /\ row'[k] \in {"pending", "delivered"}
                 /\ call'["main"].res[k] \in {"none", "applied", "duplicate"}
        <3>1. k \in About(N) /\ k \in EventId
            BY <1>2, MainsAbout
        <3> QED
            BY <1>2, <1>5, <3>1 DEF InOrder
    <2>4. InOrder(N)'
        BY <1>5, <2>2, <2>3 DEF InOrder
    <2> QED
        BY <1>2, <2>4 DEF Arriving
<1>6. ASSUME Done(i)'
      PROVE  \A j : j \in Arrived(N)' <=> j \in Arrived(N) \/ j = i
    BY <1>2, <1>6 DEF Arrived
<1>7. /\ i \in Nat /\ i # 0 /\ i \in Ever(N) /\ log[i].slot \in Slots /\ log[i].slot \in N
      /\ log[i].act \in {"upsert", "delete"} /\ log[i].ver \in Nat
      /\ log[i].act = "upsert" => log[i].ver >= 1
    BY <1>1, AboutType DEF Ever
<1>8. CASE log[i].act = "delete" /\ Answer("edge", i) = "applied"
    <2>1. /\ \A t : Touches(i, t) <=> t \in {log[i].slot} \cup Below(log[i].slot)
          /\ \A t : Said(i, t) = Absent
        BY <1>7, <1>8 DEF Touches, Said
    <2>2. \/ ~Holds("edge", <<log[i].slot, log[i].gen>>) /\ UNCHANGED store
          \/ store' = Without("edge", log[i].slot)
        BY <1>2, <1>8, AnswerAt
    <2>3. \A t \in N : store'["edge"][t] = store["edge"][t]
                       \/ (Touches(i, t) /\ store'["edge"][t] = Absent)
        BY <1>1, <1>7, <2>1, <2>2, WithoutAt
    <2>4. \A t \in N : Touches(i, t) /\ Holds("edge", <<log[i].slot, log[i].gen>>)
                           => store'["edge"][t] = Absent
        BY <1>1, <1>7, <2>1, <2>2, WithoutAt
    <2>5. ASSUME NEW t \in N PROVE Tells(Arrived(N), t, store["edge"][t])'
        <3>1. PICK c \in Arrived(N) : Latest(Arrived(N), t, c) /\ store["edge"][t] = Said(c, t)
            BY DEF InOrder, Tells
        <3>2. c \in Nat /\ \A j \in Arrived(N) : Touches(j, t) => j <= c /\ j \in Nat
            BY <1>1, <3>1, ArrivedType DEF Latest
        <3>3. \A j : j \in Arrived(N)' <=> j \in Arrived(N) \/ j = i
            BY <1>2, <1>6, <1>8
        <3>4. CASE ~Touches(i, t)
            <4>1. store'["edge"][t] = Said(c, t)
                BY <2>3, <3>1, <3>4
            <4> QED
                BY <1>1, <3>1, <3>3, <3>4, <4>1, TellsMore DEF Latest
        <3>5. CASE Touches(i, t)
            <4>1. /\ c # i /\ (i < c => Said(c, t) = Absent)
                  /\ c < i => Holds("edge", <<log[i].slot, log[i].gen>>)
                BY <1>1, <1>3, <1>8, <3>1, <3>5, DeleteDue
            <4>2. CASE i < c
                <5>1. store'["edge"][t] = Said(c, t) /\ i <= c
                    BY <1>7, <2>3, <3>1, <3>2, <4>1, <4>2
                <5> QED
                    BY <1>1, <3>1, <3>3, <5>1, TellsMore DEF Latest
            <4>3. CASE c < i
                <5>1. store'["edge"][t] = Said(i, t)
                    BY <2>1, <2>4, <3>5, <4>1, <4>3
                <5>2. \A j \in Arrived(N) : Touches(j, t) => j <= i
                    BY <1>7, <3>2, <4>3
                <5>3. i <= i
                    BY <1>7
                <5> QED
                    BY <1>1, <3>3, <3>5, <5>1, <5>2, <5>3, TellsMore
            <4> QED
                BY <1>7, <3>2, <4>1, <4>2, <4>3
        <3> QED
            BY <3>4, <3>5
    <2> QED
        BY <1>5, <1>8, <2>5
<1>9. CASE log[i].act = "upsert" /\ Answer("edge", i) \in {"applied", "duplicate"}
    <2>1. PICK s \in N : s = log[i].slot
        BY <1>7
    <2>2. ~Missing("edge", log[i])
        BY <1>2, <1>9, AnswerAt
    <2>3. \A sid \in log[i].needs : Holds("edge", sid)
        BY <1>1, <1>9, <2>2, MissingReferred
    <2>4. /\ \A c \in Arrived(N) : Touches(c, s) => c < i
          /\ ~(Present("edge", s) /\ Outdated("edge", log[i]))
        BY <1>1, <1>3, <1>9, <2>1, <2>3, UpsertDue
    <2>5. PICK r : r = [gen |-> log[i].gen, ver |-> AtLeastOne(log[i].ver), val |-> log[i].val]
        OBVIOUS
    <2>6. store' = Put("edge", s, r)
        BY <1>2, <1>9, <2>1, <2>4, <2>5, AnswerAt
    <2>7. \A t \in N : store'["edge"][t] = IF t = s THEN r ELSE store["edge"][t]
        BY <1>1, <2>6, PutAt
    <2>8. /\ \A t : Touches(i, t) <=> t = s
          /\ \A t : Said(i, t) = r
        <3>1. AtLeastOne(log[i].ver) = log[i].ver
            BY <1>7, <1>9 DEF AtLeastOne
        <3> QED
            BY <1>7, <1>9, <2>1, <2>5, <3>1 DEF Touches, Said, RowOf
    <2>9. ASSUME NEW t \in N PROVE Tells(Arrived(N), t, store["edge"][t])'
        <3>1. \A j : j \in Arrived(N)' <=> j \in Arrived(N) \/ j = i
            BY <1>2, <1>6, <1>9
        <3>2. CASE t = s
            <4>1. \A j \in Arrived(N) : Touches(j, t) => j <= i
                BY <1>1, <1>7, <2>4, <3>2, ArrivedType
            <4>2. store'["edge"][t] = Said(i, t) /\ Touches(i, t) /\ i <= i
                BY <1>7, <2>7, <2>8, <3>2
            <4> QED
                BY <1>1, <3>1, <4>1, <4>2, TellsMore
        <3>3. CASE t # s
            <4>1. PICK c \in Arrived(N) :
                      Latest(Arrived(N), t, c) /\ store["edge"][t] = Said(c, t)
                BY DEF InOrder, Tells
            <4>2. store'["edge"][t] = Said(c, t) /\ ~Touches(i, t)
                BY <2>7, <2>8, <3>3, <4>1
            <4> QED
                BY <1>1, <3>1, <4>1, <4>2, TellsMore DEF Latest
        <3> QED
            BY <3>2, <3>3
    <2> QED
        BY <1>5, <1>9, <2>9
<1> QED
    BY <1>2, <1>4, <1>7, <1>8, <1>9, AnswerAt

-----------------------------------------------------------------------------
(* The theorem                                                              *)

(* What is on its way to the edge is in order, or held up for ever.         *)
LEMMA ArrivingStep ==
    ASSUME IInv, SourcesInv, NeedsInv, NumbersInv, [Next]_vars,
           NEW N \in SUBSET Slots, Closed(N), Calm(N), Calm(N)', BookAt(N), Arriving(N)
    PROVE  Arriving(N)'
<1>1. Kept(N)
    BY KeptAlways
<1>2. CASE LocalWrite /\ UNCHANGED <<ledger, call, orphans, snap>>
    BY <1>1, <1>2, ArrivingWritten
<1>3. ASSUME NEW n \in Node, Post(n), Stays PROVE Arriving(N)'
    BY <1>1, <1>3, ArrivingPosted
<1>4. ASSUME NEW n \in Node, NEW i \in call[n].todo, Taken(n, i) PROVE Arriving(N)'
    <2>1. CASE i \notin About(N)
        BY <1>1, <1>4, <2>1, ArrivingElsewhere
    <2>2. CASE i \in About(N)
        <3>1. n = "main"
            BY <2>2, MainsAbout DEF Node
        <3>2. i \in call["main"].todo /\ Taken("main", i)
            BY <1>4, <3>1
        <3>3. CASE Trapped(N)
            BY <1>1, <2>2, <3>2, <3>3, TrappedTaken
        <3>4. CASE InOrder(N)
            BY <1>1, <2>2, <3>2, <3>4, OrderTaken
        <3> QED
            BY <3>3, <3>4 DEF Arriving
    <2> QED
        BY <2>1, <2>2
<1>5. ASSUME NEW n \in Node, Reply(n), Stays PROVE Arriving(N)'
    BY <1>1, <1>5, ArrivingReplied
<1>6. ASSUME NEW i \in EventId, Wake(i), Stays PROVE Arriving(N)'
    BY <1>1, <1>6, ArrivingWoken
<1>7. CASE Stays /\ UNCHANGED <<row, call>>
    BY <1>1, <1>7, ArrivingRested
<1>8. PostAt(N)
    BY DEF Arriving
<1> QED
    BY <1>2, <1>3, <1>4, <1>5, <1>6, <1>7, <1>8, CalmSteps

(* The book, the post and the order, or the trap, together.                 *)
LEMMA CalmStep ==
    ASSUME RowsInv, NumbersInv, CalmInv, [Next]_vars
    PROVE  CalmInv'
<1>1. IInv /\ SourcesInv /\ NeedsInv /\ ReferencesHold
    BY DEF RowsInv
<1>2. ASSUME NEW N \in SUBSET Slots, Closed(N), Calm(N)'
      PROVE  CalmAt(N)'
    <2>1. Calm(N)
        BY <1>1, <1>2, CalmBefore
    <2>2. BookAt(N) /\ PostAt(N) /\ Arriving(N)
        BY <1>2, <2>1 DEF CalmInv, CalmAt, Arriving
    <2>3. BookAt(N)'
        BY <1>1, <1>2, <2>1, <2>2, BookStep
    <2>4. Arriving(N)'
        BY <1>1, <1>2, <2>1, <2>2, ArrivingStep
    <2> QED
        BY <2>3, <2>4 DEF CalmAt, Arriving
<1>3. \A N : Closed(N)' <=> Closed(N)
    BY DEF Closed
<1> QED
    BY <1>2, <1>3 DEF CalmInv

LEMMA InitCalm == Init => CalmInv
<1> SUFFICES ASSUME Init, NEW N \in SUBSET Slots PROVE CalmAt(N)
    BY DEF CalmInv
<1>1. /\ log = <<>> /\ Len(log) = 0 /\ open = {} /\ snap = Idle /\ call["main"] = NoCall
      /\ born = Seeded /\ \A n \in Node : orphans[n] = {}
    BY DEF Init, Node
<1>2. About(N) = {} /\ Ever(N) = {0} /\ Arrived(N) = {0}
    BY <1>1 DEF About, Ever, Arrived
<1>3. \A n \in Node, t \in Slots : store[n][t] = AtStart(t)
    BY DEF Init, AtStart
<1>4. ASSUME NEW n \in Node, NEW t \in N PROVE Tells({0}, t, store[n][t])
    BY <1>3 DEF Tells, Latest, Touches, Said
<1>5. ASSUME NEW t \in N PROVE Kin(t)
    <2>1. /\ \A u \in Slots : Present("main", u) => u \in Seeded
          /\ \A u \in Slots : store["main"][u].gen = 0
        BY <1>3 DEF Present, AtStart, Seed, Absent, Node
    <2>2. Parents[t] \cup ReplyTo[t] \subseteq Slots
        BY SlotsAssumption
    <2> QED
        BY <1>1, <2>1, <2>2, SlotsAssumption DEF Kin
<1>6. BookAt(N)
    BY <1>1, <1>2, <1>4, <1>5 DEF BookAt, Node
<1>7. PostAt(N)
    BY <1>1, <1>2 DEF PostAt, NoCall
<1>8. InOrder(N)
    BY <1>2, <1>4 DEF InOrder, Node
<1> QED
    BY <1>6, <1>7, <1>8 DEF CalmAt

(* When everything is delivered, nothing is held up, and both nodes hold    *)
(* what the last event of each row left.                                    *)
LEMMA CalmConverged ==
    ASSUME IInv, Quiet, NEW N \in SUBSET Slots, Calm(N), CalmAt(N), NEW s \in N
    PROVE  store["main"][s] = store["edge"][s]
<1>1. TypeOK /\ SettledInv
    BY DEF IInv, DeliveryInv
<1>2. ASSUME NEW i \in About(N) PROVE Done(i)
    <2>1. i \in EventId /\ row[i] # "none" /\ row[i] \in RowStatus
        BY <1>1, MainsAbout DEF TypeOK
    <2>2. row[i] # "dead"
        BY <1>1, <2>1 DEF SettledInv, CalmAt, PostAt
    <2>3. row[i] = "delivered"
        BY <2>1, <2>2 DEF Quiet, RowStatus
    <2> QED
        BY <2>3 DEF Done
<1>3. ~Trapped(N)
    BY <1>2 DEF Trapped, Stuck
<1>4. Arrived(N) = Ever(N)
    BY <1>2 DEF Arrived, Ever
<1>5. /\ Tells(Ever(N), s, store["main"][s])
      /\ Tells(Ever(N), s, store["edge"][s])
    BY <1>3, <1>4 DEF CalmAt, BookAt, InOrder
<1> QED
    BY <1>1, <1>5, TellsOnce

(* The rows that s needs refer to no others.                                *)
LEMMA NeededClosed ==
    ASSUME NEW s \in Slots
    PROVE  s \in Needed(s) /\ Needed(s) \in SUBSET Slots /\ Closed(Needed(s))
<1>1. \A t \in Slots : Parents[t] \cup ReplyTo[t] \subseteq Slots
    BY SlotsAssumption
<1>2. s \in Needed(s) /\ Needed(s) \in SUBSET Slots
    BY DEF Needed
<1>3. ASSUME NEW t \in Needed(s), NEW u \in Parents[t] \cup ReplyTo[t] PROVE u \in Needed(s)
    <2>1. t \in Slots /\ u \in Slots
        BY <1>1, <1>3 DEF Needed
    <2>2. ASSUME NEW S \in SUBSET Slots, s \in S,
                 \A x \in S : Parents[x] \cup ReplyTo[x] \subseteq S
          PROVE  u \in S
        <3>1. t \in S
            BY <2>2 DEF Needed
        <3> QED
            BY <1>3, <2>2, <3>1
    <2> QED
        BY <2>1, <2>2 DEF Needed
<1> QED
    BY <1>2, <1>3 DEF Closed

(* If nothing disputes s, all it needs is calm.                             *)
LEMMA UndisputedCalm ==
    ASSUME TypeOK, NEW s \in Slots, ~Disputed(s)
    PROVE  Calm(Needed(s))
<1>1. faults \in Nat /\ snaps \in Nat
    BY BoundsAssumption DEF TypeOK
<1>2. faults = 0 /\ snaps = 0
    BY <1>1 DEF Disputed
<1>3. ASSUME NEW i \in 1 .. Len(log), log[i].slot \in Needed(s) PROVE log[i].src = "main"
    <2>1. log[i].src \in Node
        BY LogAt DEF Event
    <2> QED
        BY <1>3, <2>1 DEF Disputed, Node
<1> QED
    BY <1>2, <1>3 DEF Calm, Disputed

(* The inductive invariant of convergence.                                  *)
ConvergenceInv == VersionsInv /\ CalmInv

LEMMA ConvergenceInvariance == Spec => []ConvergenceInv
<1>1. Init => ConvergenceInv
    BY InitRows, InitSteady, InitCalm DEF ConvergenceInv, VersionsInv
<1>2. ConvergenceInv /\ [Next]_vars => ConvergenceInv'
    <2> SUFFICES ASSUME ConvergenceInv, [Next]_vars PROVE ConvergenceInv'
        OBVIOUS
    <2>1. RowsInv /\ NumbersInv /\ SteadyInv /\ CalmInv
        BY DEF ConvergenceInv, VersionsInv
    <2>2. RowsInv' /\ NumbersInv' /\ SteadyInv'
        BY <2>1, NextRows, NumbersStep, SteadyStep DEF RowsInv
    <2>3. CalmInv'
        BY <2>1, CalmStep
    <2> QED
        BY <2>2, <2>3 DEF ConvergenceInv, VersionsInv
<1> QED
    BY <1>1, <1>2, PTL DEF Spec

(* When everything is delivered, a row that never changed between a         *)
(* request's reading and writing it and none of whose events was dead-      *)
(* lettered is the same on both nodes, whatever events were retried, lost,  *)
(* or taken out of order.  A row that was deleted, with its owners or       *)
(* without, is so too if nothing failed, no snapshot was taken, and main    *)
(* alone wrote it and the rows it needs: then deletions, reply edges and    *)
(* deferred events leave nothing behind on one node that the other lost.    *)
THEOREM Convergence == Spec => []QuietMeansConverged
<1>1. ConvergenceInv => QuietMeansConverged
    <2> SUFFICES ASSUME ConvergenceInv, Quiet, NEW s \in Slots,
                        \A t \in {s} \cup Above(s) : Promoted(t) /\ t \notin overlapped,
                        ~DeadLettered(s), Deleted(s) => ~Disputed(s)
                 PROVE  store["main"][s] = store["edge"][s]
        BY DEF QuietMeansConverged
    <2>1. VersionsInv /\ CalmInv /\ RowsInv /\ NumbersInv /\ SteadyInv /\ IInv /\ TypeOK
        BY DEF ConvergenceInv, VersionsInv, RowsInv, IInv
    <2>2. CASE ~Deleted(s)
        <3>1. Steady(s)
            BY <2>2 DEF Steady
        <3> QED
            BY <2>1, <3>1, SteadyConverged DEF SteadyInv
    <2>3. CASE Deleted(s)
        <3>1. Calm(Needed(s))
            BY <2>1, <2>3, UndisputedCalm
        <3>2. s \in Needed(s) /\ Needed(s) \in SUBSET Slots /\ CalmAt(Needed(s))
            BY <2>1, <3>1, NeededClosed DEF CalmInv
        <3> QED
            BY <2>1, <3>1, <3>2, CalmConverged
    <2> QED
        BY <2>2, <2>3
<1> QED
    BY <1>1, ConvergenceInvariance, PTL

=============================================================================
