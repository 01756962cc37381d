----------------------------- MODULE SyncBridge -----------------------------
(***************************************************************************)
(* The replication bridge between the "main" (stable) node and the "edge"  *)
(* node: app/services/sync_bridge.py and app/routers/sync.py.              *)
(*                                                                         *)
(* Each node has its own database.  A request handler that changes a       *)
(* replicated row bumps the row's sync_version and, in the same            *)
(* transaction, adds a row to its replication_outbox.  One worker task per *)
(* node posts batches of outbox rows to the peer, which applies them one   *)
(* transaction at a time, answers a status per event, and remembers the    *)
(* status in its replication_inbound_ledger.  The edge also reads          *)
(* snapshots of all of main's rows from time to time.                      *)
(*                                                                         *)
(* What is abstracted.                                                     *)
(*  - A row's columns are one stamp `val' naming the write that produced   *)
(*    them; a sync_id is the slot (primary or natural key) plus the number *)
(*    `gen' of the write that created the row.                             *)
(*  - Time: an outbox row whose available_at lies in the future is         *)
(*    "waiting"; the passing of the back-off is an action.                 *)
(*  - apply_event is one step: reading the row and writing it are not      *)
(*    separated (it is one database transaction), and so is the insertion  *)
(*    of a row.  A request that changes a row reads it and writes it in    *)
(*    two steps; two that overlap are taken to change the same columns.    *)
(*  - Websocket broadcasts after a commit are left out.                    *)
(***************************************************************************)
EXTENDS Naturals, Sequences, FiniteSets

CONSTANTS
    Slots,          \* the replicated rows, by primary or natural key
    KindOf,         \* the entity type of each slot
    Parents,        \* the foreign keys of a slot with ON DELETE CASCADE
    ReplyTo,        \* the reply target of a message slot (ON DELETE SET NULL)
    Attached,       \* the message slots that carry attachments
    Seeded,         \* slots both nodes hold at the start (an earlier bootstrap)
    Writers,        \* the nodes whose users write
    Deletable,      \* the slots users delete
    SnapshotOrder,  \* the slots in the order build_bootstrap_events reads them
    BatchSize,      \* settings.sync_bridge_batch_size
    MaxWrites,      \* bound: local writes, both nodes together
    MaxFaults,      \* bound: timeouts, restarts and failing applies
    MaxSnapshots    \* bound: resyncs of the edge

Node == {"main", "edge"}
Peer(n) == IF n = "main" THEN "edge" ELSE "main"

-----------------------------------------------------------------------------
(* The entity types: may an edge write of one cross to main, and does the   *)
(* handler fall back on a natural key when no row has the event's sync_id.  *)
(* ChannelKind_AnyType is a mutant: the type of a channel is not looked at. *)

UserKind          == [promoted |-> TRUE,  keyed |-> TRUE,  parents |-> {}]
ServerKind        == [promoted |-> TRUE,  keyed |-> FALSE, parents |-> {"user"}]
ChannelKind_AnyType == [promoted |-> TRUE, keyed |-> FALSE, parents |-> {"user", "server"}]
ChannelKind       == [promoted |-> FALSE, keyed |-> FALSE, parents |-> {"user", "server"}]
DmChannelKind     == [promoted |-> TRUE,  keyed |-> FALSE, parents |-> {"user"}]
ServerMemberKind  == [promoted |-> TRUE,  keyed |-> TRUE,  parents |-> {"server", "user"}]
ServerInviteKind  == [promoted |-> TRUE,  keyed |-> TRUE,  parents |-> {"server", "user"}]
DmParticipantKind == [promoted |-> TRUE,  keyed |-> TRUE,  parents |-> {"dm", "user"}]
MessageKind       == [promoted |-> TRUE,  keyed |-> FALSE, parents |-> {"channel", "dm", "user"}]
ReactionKind      == [promoted |-> TRUE,  keyed |-> TRUE,  parents |-> {"message", "user"}]
ReleaseFlagKind   == [promoted |-> FALSE, keyed |-> TRUE,  parents |-> {}]

Kinds ==
    [user |-> UserKind, server |-> ServerKind, channel |-> ChannelKind,
     dm |-> DmChannelKind, server_member |-> ServerMemberKind,
     server_invite |-> ServerInviteKind, dm_participant |-> DmParticipantKind,
     message |-> MessageKind, reaction |-> ReactionKind,
     release_flag |-> ReleaseFlagKind]

Promoted(s) == Kinds[KindOf[s]].promoted
Keyed(s)    == Kinds[KindOf[s]].keyed

(* The rows ON DELETE CASCADE removes with row s.  A chain of foreign keys  *)
(* has at most four links: reaction, message, channel, server, user.        *)
Up(S)     == S \cup UNION {Parents[s] : s \in S}
Above(s)  == Up(Up(Up(Parents[s])))
Below(s)  == {t \in Slots : s \in Above(t)}

ASSUME SlotsAssumption ==
    /\ KindOf \in [Slots -> DOMAIN Kinds]
    /\ Parents \in [Slots -> SUBSET Slots]
    /\ ReplyTo \in [Slots -> SUBSET Slots]
    /\ \A s \in Slots : \A p \in Parents[s] : KindOf[p] \in Kinds[KindOf[s]].parents
    /\ \A s \in Slots : \A p \in ReplyTo[s] : KindOf[s] = "message" /\ KindOf[p] = "message"
    /\ \A s, t \in Slots : Parents[s] \cap ({t} \cup Below(t)) # {} => s \in Below(t)
    /\ Attached \subseteq Slots
    /\ Seeded \subseteq Slots
    /\ \A s \in Seeded : Parents[s] \cup ReplyTo[s] \subseteq Seeded
    /\ Writers \subseteq Node
    /\ Deletable \subseteq Slots
    /\ SnapshotOrder \in Seq(Slots)

ASSUME BoundsAssumption ==
    /\ BatchSize \in Nat \ {0}
    /\ MaxWrites \in Nat
    /\ MaxFaults \in Nat
    /\ MaxSnapshots \in Nat

MaxEvents == 2 * MaxWrites        \* a write and, on main, its echo
EventId   == 1 .. MaxEvents
Gen       == 0 .. MaxWrites
Value     == [by : Node, n : Gen] \* a row's contents: the write that produced them

Row    == [gen : Gen, ver : Nat, val : Value]
Seed   == [gen |-> 0, ver |-> 1, val |-> [by |-> "main", n |-> 0]]
Absent == [gen |-> 0, ver |-> 0, val |-> [by |-> "main", n |-> 0]]

Event ==
    [src : Node, slot : Slots, gen : Gen, act : {"upsert", "delete"},
     ver : Nat, base : Nat, val : Value,
     start : Nat,                    \* when the transaction began: created_at
     needs : SUBSET (Slots \X Gen),  \* the sync_ids the payload refers to
     seen : Value]                   \* history: the contents the writer's row held before

(* A request that has read a row and will change or delete it.              *)
Request == [by : Node, slot : Slots, n : Gen, row : Row]

RowStatus == {"none", "pending", "waiting", "delivered", "dead"}
Status    == {"none", "applied", "duplicate", "rejected"}
Result    == Status \cup {"deferred"}

VARIABLES
    store,    \* store[n][s]: the row of slot s in n's database
    log,      \* the events of both outboxes, in the order they were added
    row,      \* row[i]: the state of event i's outbox row at its source
    ledger,   \* ledger[i]: event i's status in the inbound ledger of the peer
    effects,  \* history: how often event i changed the peer's rows
    call,     \* call[n]: the batch n's worker is posting
    orphans,  \* orphans[n]: posts n gave up on and the peer still works on
    snap,     \* the edge worker's resync
    open,     \* the requests under way
    overlapped, \* history: slots whose row changed while a request was about it
    writes,   \* the number of local writes so far
    born,     \* the slots that were ever created
    faults, snaps

requests == <<open, overlapped, writes, born>>
vars == <<store, log, row, ledger, effects, call, orphans, snap, requests, faults, snaps>>

NoCall == [batch |-> {}, todo |-> {}, res |-> [i \in EventId |-> "none"]]
Idle   == [phase |-> "off", todo |-> <<>>, got |-> <<>>]

Init ==
    /\ store = [n \in Node |-> [s \in Slots |-> IF s \in Seeded THEN Seed ELSE Absent]]
    /\ log = <<>>
    /\ row = [i \in EventId |-> "none"]
    /\ ledger = [i \in EventId |-> "none"]
    /\ effects = [i \in EventId |-> 0]
    /\ call = [n \in Node |-> NoCall]
    /\ orphans = [n \in Node |-> {}]
    /\ snap = Idle
    /\ open = {}
    /\ overlapped = {}
    /\ writes = 0
    /\ born = Seeded
    /\ faults = 0
    /\ snaps = 0

-----------------------------------------------------------------------------
(* Reading and changing one node's rows                                     *)

Present(n, s) == store[n][s].ver > 0

(* find_..._by_sync_id: is there a row with this sync_id on n               *)
Holds(n, sid) == Present(n, sid[1]) /\ store[n][sid[1]].gen = sid[2]

(* The sync_ids a payload of row s carries: its foreign keys, and the reply *)
(* target while it exists (ON DELETE SET NULL clears it)                    *)
Needs(n, s) ==
    {<<p, store[n][p].gen>> : p \in Parents[s] \cup {r \in ReplyTo[s] : Present(n, r)}}

Put(n, s, r) == [store EXCEPT ![n][s] = r]

Without(n, s) ==
    [store EXCEPT ![n] = [t \in Slots |-> IF t \in {s} \cup Below(s) THEN Absent ELSE @[t]]]

-----------------------------------------------------------------------------
(* A request handler writes a replicated row and adds an outbox row         *)

(* enqueue_..._event: an edge write that may not cross to main is dropped   *)
Enqueued(e) == e.src = "main" \/ Promoted(e.slot)

Enqueue(e) ==
    \/ /\ Enqueued(e)
       /\ Len(log) < MaxEvents
       /\ log' = Append(log, e)
       /\ row' = [row EXCEPT ![Len(log) + 1] = "pending"]
    \/ /\ ~Enqueued(e)
       /\ UNCHANGED <<log, row>>

Write(n) ==
    /\ n \in Writers
    /\ writes < MaxWrites
    /\ writes' = writes + 1
    /\ UNCHANGED <<ledger, effects, call, orphans, snap, faults, snaps>>

Stamp(n) == [by |-> n, n |-> writes + 1]

(* Requests and the applying of events begin one after the other.           *)
BeginOf(k) == 2 * k

(* A new row: a message, a reaction, a channel, a membership ...            *)
Create(n, s) ==
    /\ Write(n)
    /\ ~Present(n, s)
    /\ Keyed(s) \/ s \notin born
    /\ \A p \in Parents[s] \cup ReplyTo[s] : Present(n, p)
    /\ store' = Put(n, s, [gen |-> writes + 1, ver |-> 1, val |-> Stamp(n)])
    /\ Enqueue([src |-> n, slot |-> s, gen |-> writes + 1, act |-> "upsert",
                ver |-> 1, base |-> 0, val |-> Stamp(n), start |-> BeginOf(writes + 1),
                needs |-> Needs(n, s), seen |-> Absent.val])
    /\ born' = born \cup {s}
    /\ UNCHANGED <<open, overlapped>>

(* A request reads the row it is about; nothing locks it.                   *)
Begin(n, s) ==
    /\ Write(n)
    /\ Present(n, s)
    /\ open' = open \cup {[by |-> n, slot |-> s, n |-> writes + 1, row |-> store[n][s]]}
    /\ UNCHANGED <<store, log, row, overlapped, born>>

(* The request ends; another change of its row may have come in between.    *)
End(q) ==
    /\ open' = open \ {q}
    /\ UNCHANGED <<ledger, effects, call, orphans, snap, writes, born, faults, snaps>>

Overlap(q) ==
    overlapped' = IF store[q.by][q.slot] = q.row THEN overlapped
                                                 ELSE overlapped \cup {q.slot}

(* bump_sync_version and the new contents: an edit, a rename, a new role... *)
(* The version is one more than the one that was read, whatever the row     *)
(* says by now; a row that is gone makes the request fail.                  *)
Edit(q) ==
    /\ Holds(q.by, <<q.slot, q.row.gen>>)
    /\ LET val == [by |-> q.by, n |-> q.n] IN
         /\ store' = Put(q.by, q.slot,
                         [gen |-> q.row.gen, ver |-> q.row.ver + 1, val |-> val])
         /\ Enqueue([src |-> q.by, slot |-> q.slot, gen |-> q.row.gen, act |-> "upsert",
                     ver |-> q.row.ver + 1, base |-> q.row.ver, val |-> val,
                     start |-> BeginOf(q.n), needs |-> Needs(q.by, q.slot),
                     seen |-> q.row.val])
    /\ Overlap(q)
    /\ End(q)

(* A DELETE of a row that is gone deletes nothing, and is replicated.       *)
Delete(q) ==
    /\ q.slot \in Deletable
    /\ store' = IF Holds(q.by, <<q.slot, q.row.gen>>) THEN Without(q.by, q.slot) ELSE store
    /\ Enqueue([src |-> q.by, slot |-> q.slot, gen |-> q.row.gen, act |-> "delete",
                ver |-> q.row.ver, base |-> q.row.ver, val |-> q.row.val,
                start |-> BeginOf(q.n), needs |-> {}, seen |-> q.row.val])
    /\ Overlap(q)
    /\ End(q)

(* The request is refused or fails.                                         *)
Withdraw(q) ==
    /\ End(q)
    /\ UNCHANGED <<store, log, row, overlapped>>

-----------------------------------------------------------------------------
(* apply_event: what node m does with event e, in the order of its checks.  *)

FromEdge(m, e) == m = "main" /\ e.src = "edge"

(* Mutant: owners are not looked up.                                        *)
OwnerMissing_Unchecked(m, e) == FALSE
OwnerMissing(m, e) == \E sid \in e.needs : sid[1] \in Parents[e.slot] /\ ~Holds(m, sid)
ReplyMissing(m, e) == \E sid \in e.needs : sid[1] \in ReplyTo[e.slot] /\ ~Holds(m, sid)
Missing(m, e)      == OwnerMissing(m, e) \/ ReplyMissing(m, e)

(* Mutant: attachments are let through.                                     *)
Refused_Never(m, e) == FALSE
Refused(m, e)  == FromEdge(m, e) /\ e.slot \in Attached
Conflict(m, e) == FromEdge(m, e) /\ e.base # store[m][e.slot].ver

(* Mutants: no version check; the check off by one.                         *)
Outdated_Never(m, e)   == FALSE
Outdated_OrEqual(m, e) == e.ver <= store[m][e.slot].ver
Outdated(m, e) == e.ver < store[m][e.slot].ver

DeleteVerdict(m, e) ==
    CASE ~Holds(m, <<e.slot, e.gen>>) -> "gone"
      [] Holds(m, <<e.slot, e.gen>>) /\ Conflict(m, e) -> "rejected"
      [] OTHER -> "applied"

(* A row with another sync_id counts as the event's row when it holds the   *)
(* same natural key, so the slot decides and not the sync_id.               *)
UpsertVerdict(m, e) ==
    CASE OwnerMissing(m, e) -> "deferred"
      [] ~OwnerMissing(m, e) /\ Refused(m, e) -> "rejected"
      [] ~OwnerMissing(m, e) /\ ~Refused(m, e) /\ ReplyMissing(m, e) -> "deferred"
      [] ~Missing(m, e) /\ ~Refused(m, e) /\ Present(m, e.slot) /\ Outdated(m, e) -> "duplicate"
      [] ~Missing(m, e) /\ ~Refused(m, e) /\ Present(m, e.slot) /\ ~Outdated(m, e)
            /\ Conflict(m, e) -> "rejected"
      [] OTHER -> "applied"

Verdict(m, e) ==
    CASE FromEdge(m, e) /\ ~Promoted(e.slot) -> "rejected"
      [] ~(FromEdge(m, e) /\ ~Promoted(e.slot)) /\ e.act = "delete" -> DeleteVerdict(m, e)
      [] OTHER -> UpsertVerdict(m, e)

AtLeastOne(v) == IF v < 1 THEN 1 ELSE v

Applied(m, e) ==
    IF e.act = "delete"
    THEN Without(m, e.slot)
    ELSE Put(m, e.slot, [gen |-> e.gen, ver |-> AtLeastOne(e.ver), val |-> e.val])

(* Main answers an edge write it applied with an event of its own.          *)
(* Mutant: each node answers the other's writes.                            *)
Echoes_Both(m, e) == e.src # m
Echoes(m, e) == FromEdge(m, e)

Echo(m, e) ==
    [e EXCEPT !.src = m,
              !.start = BeginOf(writes) + 1,
              !.ver  = IF e.act = "delete" THEN store[m][e.slot].ver ELSE AtLeastOne(e.ver),
              !.base = IF e.act = "delete" THEN store[m][e.slot].ver ELSE AtLeastOne(e.ver) - 1]

(* _existing_inbound_result: the ledger answers for an event it knows.      *)
(* Mutant: only a rejection is remembered.                                  *)
Known_IfRejected(i) == ledger[i] = "rejected"
Known(i) == ledger[i] # "none"

(* Mutant: an event that is known already is answered "deferred".          *)
Answer_DeferKnown(m, i) ==
    IF Known(i) THEN "deferred"
    ELSE IF Verdict(m, log[i]) = "gone" THEN "applied" ELSE Verdict(m, log[i])

Answer(m, i) ==
    IF Known(i) THEN ledger[i]
    ELSE IF Verdict(m, log[i]) = "gone" THEN "applied" ELSE Verdict(m, log[i])

(* One event of a batch, in one transaction on node m.                      *)
Apply(m, i) ==
    \/ /\ Known(i) \/ Verdict(m, log[i]) \in {"gone", "deferred"}
       /\ UNCHANGED <<store, log, row, ledger, effects>>
    \/ /\ ~Known(i)
       /\ Verdict(m, log[i]) \in {"rejected", "duplicate"}
       /\ ledger' = [ledger EXCEPT ![i] = Verdict(m, log[i])]
       /\ UNCHANGED <<store, log, row, effects>>
    \/ /\ ~Known(i)
       /\ Verdict(m, log[i]) = "applied"
       /\ ledger' = [ledger EXCEPT ![i] = "applied"]
       /\ effects' = [effects EXCEPT ![i] = @ + 1]
       /\ store' = Applied(m, log[i])
       /\ IF Echoes(m, log[i])
          THEN Enqueue(Echo(m, log[i]))
          ELSE UNCHANGED <<log, row>>

-----------------------------------------------------------------------------
(* process_outbox_batch: the worker of node n                               *)

Available(n) == {i \in EventId : row[i] = "pending" /\ log[i].src = n}

(* ORDER BY created_at, id                                                  *)
(* Mutant: the newest event first.                                          *)
Before_Newest(j, i) == log[j].start > log[i].start
Before(j, i) ==
    \/ log[j].start < log[i].start
    \/ log[j].start = log[i].start /\ j < i

(* LIMIT BatchSize                                                          *)
Batch(n) == {i \in Available(n) :
                Cardinality({j \in Available(n) : Before(j, i)}) < BatchSize}

Post(n) ==
    /\ call[n].batch = {}
    /\ n = "edge" => snap.phase = "off"      \* one task does both, in turn
    /\ Available(n) # {}
    /\ call' = [call EXCEPT ![n] = [batch |-> Batch(n), todo |-> Batch(n),
                                    res |-> NoCall.res]]
    /\ UNCHANGED <<store, log, row, ledger, effects, orphans, snap, requests, faults, snaps>>

IsFirst(i, S) == i \in S /\ \A j \in S : ~Before(j, i)

Fault == faults < MaxFaults /\ faults' = faults + 1

(* apply_replication_events at the peer: the next event of n's post.  An    *)
(* exception rolls back, or comes from the broadcast after the commit; both *)
(* are answered "deferred".                                                 *)
Handle(n) ==
    \E i \in call[n].todo :
        /\ IsFirst(i, call[n].todo)
        /\ \E answer \in {Answer(Peer(n), i), "deferred"} :
              /\ call' = [call EXCEPT ![n] = [batch |-> call[n].batch, todo |-> call[n].todo \ {i},
                                              res |-> [call[n].res EXCEPT ![i] = answer]]]
              /\ \/ /\ answer = Answer(Peer(n), i)
                    /\ Apply(Peer(n), i)
                    /\ UNCHANGED faults
                 \/ /\ answer = "deferred"
                    /\ Fault
                    /\ \/ Apply(Peer(n), i)
                       \/ UNCHANGED <<store, log, row, ledger, effects>>
        /\ UNCHANGED <<orphans, snap, requests, snaps>>

(* The answer arrives: each row is delivered, dead-lettered or backs off.   *)
(* Mutants: every answer but a rejection counts as delivered; a rejection   *)
(* does too.                                                                *)
Settled_Optimistic(r) == IF r = "rejected" THEN "dead" ELSE "delivered"
Settled_NoDeadLetter(r) == IF r \in {"none", "deferred"} THEN "waiting" ELSE "delivered"
Settled(r) ==
    CASE r \in {"applied", "duplicate"} -> "delivered"
      [] r = "rejected" -> "dead"
      [] OTHER -> "waiting"

Reply(n) ==
    /\ call[n].batch # {}
    /\ call[n].todo = {}
    /\ row' = [i \in EventId |-> IF i \in call[n].batch THEN Settled(call[n].res[i]) ELSE row[i]]
    /\ call' = [call EXCEPT ![n] = NoCall]
    /\ UNCHANGED <<store, log, ledger, effects, orphans, snap, requests, faults, snaps>>

(* The post fails: every row of the batch backs off.  The peer never saw    *)
(* the request or died, or it goes on with the events it has not reached.   *)
BackOff(n) == [i \in EventId |-> IF i \in call[n].batch THEN "waiting" ELSE row[i]]

Abandoned(n) == IF call[n].todo = {} THEN {} ELSE {call[n].todo}

Timeout(n) ==
    /\ call[n].batch # {}
    /\ Fault
    /\ row' = BackOff(n)
    /\ call' = [call EXCEPT ![n] = NoCall]
    /\ \/ orphans' = [orphans EXCEPT ![n] = @ \cup Abandoned(n)]
       \/ UNCHANGED orphans
    /\ UNCHANGED <<store, log, ledger, effects, snap, requests, snaps>>

(* The peer goes on with a post the worker no longer waits for.             *)
HandleOrphan(n) ==
    \E todo \in orphans[n] : \E i \in todo :
        /\ IsFirst(i, todo)
        /\ Apply(Peer(n), i)
        /\ orphans' = [orphans EXCEPT ![n] = (@ \ {todo}) \cup ({todo \ {i}} \ {{}})]
        /\ UNCHANGED <<call, snap, requests, faults, snaps>>

(* available_at has passed.                                                 *)
Wake(i) ==
    /\ row[i] = "waiting"
    /\ row' = [row EXCEPT ![i] = "pending"]
    /\ UNCHANGED <<store, log, ledger, effects, call, orphans, snap, requests, faults, snaps>>

(* Node n restarts.  Its own post is forgotten, its rows unchanged; what it *)
(* was doing for its peer stops, and a peer still waiting gets an error.    *)
Restart(n) ==
    /\ Fault
    /\ LET cut == call[Peer(n)].todo # {} IN
         /\ call' = [m \in Node |-> IF m = n \/ cut THEN NoCall ELSE call[m]]
         /\ row' = IF cut THEN BackOff(Peer(n)) ELSE row
    /\ \E mine \in {orphans[n], orphans[n] \cup Abandoned(n)} :
          orphans' = [m \in Node |-> IF m = n THEN mine ELSE {}]
    /\ snap' = IF n = "edge" \/ snap.phase = "read" THEN Idle ELSE snap
    /\ open' = {q \in open : q.by # n}
    /\ UNCHANGED <<store, log, ledger, effects, overlapped, writes, born, snaps>>

-----------------------------------------------------------------------------
(* maybe_resync_from_main, on the edge                                      *)

StartResync ==
    /\ snap.phase = "off"
    /\ call["edge"].batch = {}
    /\ snaps < MaxSnapshots
    /\ snaps' = snaps + 1
    /\ snap' = [phase |-> "read", todo |-> SnapshotOrder, got |-> <<>>]
    /\ UNCHANGED <<store, log, row, ledger, effects, call, orphans, requests, faults>>

(* build_bootstrap_events on main: one query after another, not one         *)
(* database snapshot                                                        *)
SnapshotEvent(s) ==
    [src |-> "main", slot |-> s, gen |-> store["main"][s].gen, act |-> "upsert",
     ver |-> store["main"][s].ver, base |-> store["main"][s].ver - 1,
     val |-> store["main"][s].val, start |-> 0, needs |-> Needs("main", s),
     seen |-> store["main"][s].val]

ReadForSnapshot ==
    /\ snap.phase = "read"
    /\ snap.todo # <<>>
    /\ LET s == Head(snap.todo) IN
         snap' = [snap EXCEPT
                     !.todo = Tail(@),
                     !.got = IF Present("main", s) THEN Append(@, SnapshotEvent(s)) ELSE @]
    /\ UNCHANGED <<store, log, row, ledger, effects, call, orphans, requests, faults, snaps>>

ReceiveSnapshot ==
    /\ snap.phase = "read"
    /\ snap.todo = <<>>
    /\ snap' = [snap EXCEPT !.phase = "apply"]
    /\ UNCHANGED <<store, log, row, ledger, effects, call, orphans, requests, faults, snaps>>

FailResync ==
    /\ snap.phase = "read"
    /\ Fault
    /\ snap' = Idle
    /\ UNCHANGED <<store, log, row, ledger, effects, call, orphans, requests, snaps>>

(* A snapshot event is applied like any other, without asking the ledger.   *)
ApplySnapshotEvent ==
    /\ snap.phase = "apply"
    /\ snap.got # <<>>
    /\ LET e == Head(snap.got) IN
         store' = IF Verdict("edge", e) = "applied" THEN Applied("edge", e) ELSE store
    /\ snap' = [snap EXCEPT !.got = Tail(@)]
    /\ UNCHANGED <<log, row, ledger, effects, call, orphans, requests, faults, snaps>>

FinishResync ==
    /\ snap.phase = "apply"
    /\ snap.got = <<>>
    /\ snap' = Idle
    /\ UNCHANGED <<store, log, row, ledger, effects, call, orphans, requests, faults, snaps>>

-----------------------------------------------------------------------------
LocalWrite ==
    \/ \E n \in Node, s \in Slots : Create(n, s) \/ Begin(n, s)
    \/ \E q \in open : Edit(q) \/ Delete(q) \/ Withdraw(q)

Resync ==
    \/ StartResync \/ ReadForSnapshot \/ ReceiveSnapshot
    \/ FailResync \/ ApplySnapshotEvent \/ FinishResync

Bridge(n) ==
    \/ Post(n) \/ Handle(n) \/ Reply(n) \/ Timeout(n)
    \/ HandleOrphan(n) \/ Restart(n)

Next ==
    \/ LocalWrite
    \/ \E n \in Node : Bridge(n)
    \/ \E i \in EventId : Wake(i)
    \/ Resync

Spec == Init /\ [][Next]_vars

(* The workers run, requests are served and back-offs end.  A row that is   *)
(* due again and again is in the end in a batch: the shortest back-off is   *)
(* as long as the poll interval and it grows, so rows behind it get a turn. *)
Fairness ==
    /\ \A n \in Node : WF_vars(Handle(n)) /\ WF_vars(Reply(n)) /\ WF_vars(HandleOrphan(n))
    /\ \A i \in EventId : SF_vars(\E n \in Node : Post(n) /\ i \in Batch(n))
    /\ \A i \in EventId : WF_vars(Wake(i))
    /\ WF_vars(ReadForSnapshot \/ ReceiveSnapshot \/ ApplySnapshotEvent \/ FinishResync)

FairSpec == Spec /\ Fairness

-----------------------------------------------------------------------------
(* Properties                                                               *)

CallType ==
    [batch : SUBSET EventId, todo : SUBSET EventId, res : [EventId -> Result]]

SnapType ==
    [phase : {"off", "read", "apply"}, todo : Seq(Slots), got : Seq(Event)]

(* The type of every variable.                                              *)
TypeOK ==
    /\ store \in [Node -> [Slots -> Row]]
    /\ log \in Seq(Event)
    /\ Len(log) <= MaxEvents
    /\ row \in [EventId -> RowStatus]
    /\ ledger \in [EventId -> Status]
    /\ effects \in [EventId -> Nat]
    /\ call \in [Node -> CallType]
    /\ orphans \in [Node -> SUBSET (SUBSET EventId)]
    /\ snap \in SnapType
    /\ open \subseteq Request
    /\ overlapped \subseteq Slots
    /\ writes \in Gen
    /\ born \subseteq Slots
    /\ faults \in 0 .. MaxFaults
    /\ snaps \in 0 .. MaxSnapshots

(* What the sender concludes about an event is what the peer recorded: a    *)
(* dead letter was rejected, a delivered upsert was applied or found to be  *)
(* outdated.  A timeout, a retry, a late or lost answer, or a failure after *)
(* the commit must not make the two sides disagree.                         *)
SenderAgreesWithLedger ==
    \A i \in EventId :
        /\ row[i] = "dead" => ledger[i] = "rejected"
        /\ row[i] = "delivered" /\ log[i].act = "upsert" => ledger[i] \in {"applied", "duplicate"}

(* Why the two sides agree: a post holds events of its sender that are      *)
(* still due; an answer the sender has not read yet is what the ledger      *)
(* says; only an event on its way can be decided.                           *)
CallInv(n) ==
    /\ call[n].todo \subseteq call[n].batch
    /\ call[n].batch \subseteq 1 .. Len(log)
    /\ \A i \in call[n].batch : row[i] = "pending" /\ log[i].src = n
    /\ \A i \in EventId : call[n].res[i] # "none" => i \in call[n].batch
    /\ \A i \in call[n].batch :
          /\ call[n].res[i] = "rejected" => ledger[i] = "rejected"
          /\ call[n].res[i] \in {"applied", "duplicate"}
                => ledger[i] \in {"applied", "duplicate"} \/ log[i].act = "delete"

LogInv ==
    /\ \A i \in EventId : row[i] = "none" <=> i > Len(log)
    /\ \A i \in EventId : ledger[i] # "none" => i <= Len(log)
    /\ \A i \in EventId : effects[i] = IF ledger[i] = "applied" THEN 1 ELSE 0

SettledInv ==
    \A i \in EventId :
        /\ row[i] = "dead" => ledger[i] = "rejected"
        /\ row[i] = "delivered" => ledger[i] \in {"applied", "duplicate"} \/ log[i].act = "delete"

OrphanInv == \A n \in Node : \A S \in orphans[n] : S \subseteq 1 .. Len(log)

DeliveryInv ==
    /\ \A n \in Node : CallInv(n)
    /\ LogInv
    /\ SettledInv
    /\ OrphanInv

(* However often an event is delivered, it changes the peer's rows at most  *)
(* once, and a dead-lettered event never does.                              *)
AppliedAtMostOnce ==
    \A i \in EventId :
        /\ effects[i] <= 1
        /\ row[i] = "dead" => effects[i] = 0

(* Every row's owner exists on the same node: an event that arrives before  *)
(* the row it refers to is deferred, and deletes cascade.                   *)
ReferencesHold ==
    \A n \in Node, s \in Slots : Present(n, s) => \A p \in Parents[s] : Present(n, p)

(* No delivery, retry or snapshot takes a row that stays in place back to   *)
(* an earlier version, unless the row changed, by another request or by an  *)
(* inbound event, between a request's reading and writing it: then the      *)
(* request counts on from the version it read.                              *)
VersionsNeverRegress ==
    [][\A n \in Node : \A s \in Slots \ overlapped' :
          Present(n, s) /\ Present(n, s)' => store'[n][s].ver >= store[n][s].ver]_vars

(* Applying replicated writes never starts a storm: each local write costs  *)
(* at most two events, itself and the echo of main.                         *)
NoReplicationStorm == Len(log) <= 2 * writes

(* A server's channels and the release flags are structure of the stable    *)
(* node, and attachments are not replicated: what main holds of these was   *)
(* written on main, whatever the edge sends.                                *)
Stable == {s \in Slots : KindOf[s] \in {"channel", "release_flag"}} \cup Attached

StableContentIsMains ==
    \A s \in Stable : Present("main", s) => store["main"][s].val.by = "main"

(* Nothing left to deliver.                                                 *)
Quiet ==
    /\ \A i \in EventId : row[i] \notin {"pending", "waiting"}
    /\ \A n \in Node : call[n] = NoCall /\ orphans[n] = {}
    /\ snap.phase = "off"

DeadLettered(s) == \E i \in EventId : row[i] = "dead" /\ log[i].slot = s

(* What s refers to, what that refers to, and so on, with s itself.         *)
Needed(s) ==
    {t \in Slots :
        \A S \in SUBSET Slots :
            s \in S /\ (\A u \in S : Parents[u] \cup ReplyTo[u] \subseteq S) => t \in S}

(* A deletion of s and what else happens to it may come in two orders: a    *)
(* fault or a snapshot came in between; or the edge wrote a row s needs,    *)
(* or two requests of main changed one at once, so that an event for s may  *)
(* have waited for it while the deletion passed.                            *)
Deleted(s) ==
    \E i \in 1 .. Len(log) : log[i].act = "delete" /\ s \in {log[i].slot} \cup Below(log[i].slot)
Disputed(s) ==
    \/ faults > 0 \/ snaps > 0
    \/ \E t \in Needed(s) :
          \/ ~Promoted(t) \/ t \in overlapped
          \/ \E i \in 1 .. Len(log) : log[i].src = "edge" /\ log[i].slot = t

(* When everything is delivered, a row that never changed between a         *)
(* request's reading and writing it and none of whose events was dead-      *)
(* lettered is the same on both nodes.  Of deleted rows this holds if       *)
(* nothing could get in between, since deletions leave no tombstone.        *)
QuietMeansConverged ==
    Quiet =>
        \A s \in Slots :
            /\ \A t \in {s} \cup Above(s) : Promoted(t) /\ t \notin overlapped
            /\ ~DeadLettered(s)
            /\ Deleted(s) => ~Disputed(s)
            => store["main"][s] = store["edge"][s]

(* changelog.md: "made main authoritative for conflict handling so rejected *)
(* or incompatible Edge writes do not overwrite stable data".  An edge edit *)
(* that main applies was made on the content main still has.                *)
EdgeEditsBuildOnMain ==
    [][\A i \in EventId :
          /\ ledger[i] = "none" /\ ledger'[i] = "applied"
          /\ log[i].src = "edge" /\ log[i].act = "upsert"
          /\ Present("main", log[i].slot)
          => store["main"][log[i].slot].val = log[i].seen]_vars

(* Every event is settled in the end, unless the peer never gets the rows   *)
(* it refers to.                                                            *)
EventsSettle ==
    \A i \in EventId :
        []<>( \/ row[i] \in {"none", "delivered", "dead"}
              \/ log[i].act = "upsert" /\ Missing(Peer(log[i].src), log[i]))

-----------------------------------------------------------------------------
(* The bridge implements Delivery.                                          *)
OutboxRow(r) == IF r \in {"pending", "waiting"} THEN "queued" ELSE r

D == INSTANCE Delivery WITH
        outbox   <- [i \in EventId |-> OutboxRow(row[i])],
        decision <- ledger,
        action   <- [i \in EventId |-> IF i <= Len(log) THEN log[i].act ELSE "none"]

ImplementsDelivery == D!Spec

=============================================================================
