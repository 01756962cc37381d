------------------------------ MODULE Delivery ------------------------------
(***************************************************************************)
(* What the replication bridge promises about one event: it is queued at   *)
(* its source, the peer decides on it once, and the source settles it the  *)
(* way the peer decided.  SyncBridge implements this.                      *)
(*                                                                         *)
(* A delete of a row the peer does not have is the exception the code      *)
(* makes: the peer answers "applied" and remembers nothing, so such an     *)
(* event may be settled without a decision, and decided later.             *)
(***************************************************************************)
EXTENDS Naturals

CONSTANT EventId

VARIABLES
    outbox,     \* outbox[i]: "none", "queued", "delivered" or "dead"
    decision,   \* decision[i]: "none", "applied", "duplicate" or "rejected"
    action      \* action[i]: "none", "upsert" or "delete"

vars == <<outbox, decision, action>>

Init ==
    /\ outbox = [i \in EventId |-> "none"]
    /\ decision = [i \in EventId |-> "none"]
    /\ action = [i \in EventId |-> "none"]

Queue(i) ==
    /\ outbox[i] = "none"
    /\ outbox'[i] = "queued"
    /\ action'[i] \in {"upsert", "delete"}
    /\ decision'[i] = decision[i]

Decide(i) ==
    /\ outbox[i] = "queued" \/ action[i] = "delete"
    /\ decision[i] = "none"
    /\ decision'[i] \in {"applied", "duplicate", "rejected"}
    /\ outbox'[i] = outbox[i]
    /\ action'[i] = action[i]

Settle(i) ==
    /\ outbox[i] = "queued"
    /\ \/ outbox'[i] = "delivered" /\ (decision[i] \in {"applied", "duplicate"} \/ action[i] = "delete")
       \/ outbox'[i] = "dead" /\ decision[i] = "rejected"
    /\ decision'[i] = decision[i]
    /\ action'[i] = action[i]

Stay(i) ==
    /\ outbox'[i] = outbox[i]
    /\ decision'[i] = decision[i]
    /\ action'[i] = action[i]

(* Events are independent: in one step each one moves on or stays.          *)
Next == \A i \in EventId : Queue(i) \/ Decide(i) \/ Settle(i) \/ Stay(i)

Spec == Init /\ [][Next]_vars

=============================================================================
