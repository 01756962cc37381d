------------------------------- MODULE Servers -------------------------------
(***************************************************************************)
(* One server of the community: who is a member of it in which role, its   *)
(* channels, and what requests that overlap do to them                     *)
(* (app/routers/servers.py, app/routers/channels.py,                       *)
(* app/services/community.py, the broadcasts of app/services/realtime.py). *)
(*                                                                         *)
(* A request checks what it finds committed (Check); writes (Write); marks *)
(* the server's row of recommendation_embeddings stale if what is public   *)
(* changes, and logs what it does, which members are shown at once (Log);  *)
(* deletes rows (Remove); commits (Commit); and tells clients (Tell).      *)
(* PostgreSQL locks what is written until the transaction ends: a row that *)
(* is updated or deleted against every other writer, and the server's row  *)
(* against its deletion by every row that refers to it, the log entry among*)
(* them.  Of transactions that wait for each other in a circle one is      *)
(* aborted, and a request may be cut off anywhere (Break).                 *)
(*                                                                         *)
(* What is abstracted.                                                     *)
(*  - A request that is refused changes nothing and is left out, and so is *)
(*    joining when one is a member.                                        *)
(*  - An UPDATE writes the columns the request has changed: a role that is *)
(*    what it was is not written, the row's version is.                    *)
(*  - The rows of invites: join_server asks for none, so to join by an     *)
(*    invite is to join.                                                   *)
(*  - Names and other columns of the server and of channels: an edit may   *)
(*    change what is public or not.  Messages.                             *)
(*  - Transactions of other components: one that ends a request of these is*)
(*    a Break.                                                             *)
(*  - What create_server does before its commit, which nobody else can see *)
(*    but its creator.                                                     *)
(*  - A client is the set of servers it lists, here whether it lists this  *)
(*    one: static/wyvern-app.js adds it on server.created, server.updated  *)
(*    and on server.member.* of its own user, and removes it on            *)
(*    server.deleted and on its own server.member.deleted.                 *)
(*  - The recipients of an event are read and told in one step.            *)
(***************************************************************************)
EXTENDS Naturals

CONSTANTS
    User, Channel,
    Request,            \* the requests that are ever made (bound)
    Founder,            \* servers.owner_id
    Rank,               \* the roles that requests assign (bound)
    ServerRow,
    EmbeddingRow        \* the server's row of recommendation_embeddings

Role == {"owner", "admin", "moderator", "member"}

ASSUME FounderAssumption == Founder \in User
ASSUME RankAssumption == Rank \subseteq Role
ASSUME NullAssumption ==
    /\ User \cap Channel = {} /\ ServerRow # EmbeddingRow
    /\ {ServerRow, EmbeddingRow} \cap (User \cup Channel) = {}

VARIABLES
    life,       \* of the server's row: "none", "live", "deleted"
    role,       \* server_members: "none" where there is no row
    channels,   \* the channels of the server
    stage, op,
    on,         \* the row the request is about: a member's, a channel's, the server's
    rank,       \* the role it writes, "none" if it leaves the column alone
    audience,   \* the members it has read, to tell them
    locks,      \* the rows it has locked against other writers
    listed,     \* the users whose clients list the server
    logged,     \* requests whose log entry members have been shown
    met         \* history: pairs of requests that were in flight together

request == <<stage, op, on, rank, audience, locks>>
rows    == <<life, role, channels>>
vars    == <<rows, request, listed, logged, met>>

Members == {u \in User : role[u] # "none"}

Ops == {"create", "update", "delete", "join", "leave", "role", "invite",
        "addChannel", "editChannel", "dropChannel"}

Goto(r, s) == stage' = [stage EXCEPT ![r] = s]

(* What earlier requests may have left.                                     *)
Init ==
    /\ \/ life = "none" /\ role = [u \in User |-> "none"] /\ channels = {}
       \/ /\ life = "live"
          /\ role \in [User -> Rank \cup {"owner", "none"}]
          /\ \A u \in User : role[u] = "owner" <=> u = Founder
          /\ channels \in SUBSET Channel
    /\ stage = [r \in Request |-> "idle"]
    /\ op = [r \in Request |-> "none"]
    /\ on = [r \in Request |-> ServerRow]
    /\ rank = [r \in Request |-> "none"]
    /\ audience = [r \in Request |-> {}]
    /\ locks = [r \in Request |-> {}]
    /\ listed = Members
    /\ logged = {}
    /\ met = {}

(* create_server, up to its commit.                                         *)
Create(r) ==
    /\ stage[r] = "idle" /\ life = "none"
    /\ life' = "live"
    /\ role' = [role EXCEPT ![Founder] = "owner"]
    /\ Goto(r, "committed")
    /\ op' = [op EXCEPT ![r] = "create"]
    /\ logged' = logged \cup {r}
    /\ UNCHANGED <<channels, on, rank, audience, locks, listed, met>>

-----------------------------------------------------------------------------
(* Checks                                                                   *)

InFlight ==
    {r \in Request : stage[r] \notin {"idle", "done", "failed", "broken", "untold"}}

CanManageServer(u) == role[u] \in {"owner", "admin"}

CanManageChannels(u) == role[u] \in {"owner", "admin", "moderator"}

(* The id of a new channel is new.                                          *)
IsNew(c) == c \notin channels /\ \A r \in Request : on[r] # c

(* Mutant: owners may change their own role.                                *)
MayChange_Own(u, x) == role[u] = "owner" /\ x \in Members

MayChange(u, x) == role[u] = "owner" /\ x \in Members \ {u}

(* What user u may ask, about x.                                            *)
Allowed(o, u, x) ==
    \/ o \in {"update", "invite"} /\ x = ServerRow /\ CanManageServer(u)
    \/ o = "delete" /\ x = ServerRow /\ u = Founder
    \/ o = "join" /\ x = u /\ u \notin Members
    \/ o = "leave" /\ x = u /\ u \in Members /\ role[u] # "owner"
    \/ o = "role" /\ MayChange(u, x)
    \/ o = "addChannel" /\ x \in Channel /\ IsNew(x) /\ CanManageChannels(u)
    \/ o \in {"editChannel", "dropChannel"} /\ x \in channels /\ CanManageChannels(u)

Check(r, o, u, x, k) ==
    /\ stage[r] = "idle" /\ life = "live"
    /\ Allowed(o, u, x)
    /\ k # "none" => o = "role" /\ k # role[x]
    /\ Goto(r, "checked")
    /\ op' = [op EXCEPT ![r] = o]
    /\ on' = [on EXCEPT ![r] = x]
    /\ rank' = [rank EXCEPT ![r] = k]
    /\ audience' = [audience EXCEPT ![r] = IF o \in {"delete", "leave"} THEN Members ELSE {}]
    /\ met' = met \cup {{r, s} : s \in InFlight}
    /\ UNCHANGED <<rows, locks, listed, logged>>

-----------------------------------------------------------------------------
(* Writes                                                                   *)

Locked(r, x) == \E s \in Request \ {r} : x \in locks[s]

(* A row that refers to the server's is there, uncommitted.                 *)
Refers(r) ==
    \/ stage[r] \in {"logged", "removed"}
    \/ stage[r] = "written" /\ op[r] \in {"join", "invite", "addChannel"}

(* Are the rows there, or not there, that the request is to write?          *)
Writable(r) ==
    /\ life = "live"
    /\ op[r] = "join" => on[r] \notin Members
    /\ op[r] = "role" => on[r] \in Members
    /\ op[r] = "editChannel" => on[r] \in channels

(* The rows written first.                                                  *)
Writes(r) == IF op[r] \in {"update", "join", "role", "editChannel"} THEN {on[r]} ELSE {}

(* The row it may mark as stale next: an edit need not change a name, and   *)
(* recommendations may be off.                                              *)
Marks(r) ==
    IF op[r] \in {"update", "addChannel", "editChannel", "dropChannel"}
    THEN {EmbeddingRow} ELSE {}

(* The transaction is over, and so is the request.                          *)
End(r, s) ==
    /\ Goto(r, s)
    /\ audience' = [audience EXCEPT ![r] = {}]
    /\ locks' = [locks EXCEPT ![r] = {}]
    /\ rank' = [rank EXCEPT ![r] = "none"]
    /\ UNCHANGED <<rows, op, on, listed, logged, met>>

(* The database refuses a statement: the transaction is rolled back.        *)
Fail(r) == End(r, "failed")

(* The process, Redis or the database's connection is gone, or a transaction*)
(* of another component is in the way.  What is committed stays so.         *)
Break(r) == r \in InFlight /\ End(r, IF stage[r] = "committed" THEN "untold" ELSE "broken")

(* The first flush.                                                         *)
Write(r) ==
    /\ stage[r] = "checked"
    /\ \A x \in Writes(r) : ~Locked(r, x)
    /\ Writable(r)
    /\ Goto(r, "written")
    /\ locks' = [locks EXCEPT ![r] = Writes(r)]
    /\ UNCHANGED <<rows, op, on, rank, audience, listed, logged, met>>

(* Mutant: the entry is published before the writes are flushed.            *)
WriteFails_Published(r) ==
    /\ stage[r] = "checked"
    /\ \A x \in Writes(r) : ~Locked(r, x)
    /\ ~Writable(r)
    /\ Goto(r, "failed")
    /\ logged' = logged \cup {r}
    /\ audience' = [audience EXCEPT ![r] = {}]
    /\ locks' = [locks EXCEPT ![r] = {}]
    /\ UNCHANGED <<rows, op, on, rank, listed, met>>

(* A row is gone, or there already, or the server it refers to is gone.     *)
WriteFails(r) ==
    /\ stage[r] = "checked"
    /\ \A x \in Writes(r) : ~Locked(r, x)
    /\ ~Writable(r)
    /\ Fail(r)

(* mark_public_entity_stale and record_server_activity, which publishes its *)
(* entry once both are flushed.                                             *)
Log(r) ==
    /\ stage[r] = "written" /\ life = "live"
    /\ \E marked \in SUBSET Marks(r) :
          /\ \A x \in marked : ~Locked(r, x)
          /\ locks' = [locks EXCEPT ![r] = @ \cup marked]
    /\ Goto(r, "logged")
    /\ logged' = logged \cup {r}
    /\ UNCHANGED <<rows, op, on, rank, audience, listed, met>>

(* The server to which the entry refers is gone.                            *)
LogFails(r) == stage[r] = "written" /\ life # "live" /\ Fail(r)

(* The rows deleted, as far as they are there.                              *)
Doomed(r) ==
    CASE op[r] = "delete" -> Members \cup channels
      [] op[r] \in {"leave", "dropChannel"} -> {on[r]} \cap (Members \cup channels)
      [] OTHER -> {}

Removes(r) == op[r] \in {"delete", "leave", "dropChannel"}

(* The rows are deleted; of the server, its members and channels first.     *)
Remove(r) ==
    /\ stage[r] = "logged" /\ Removes(r)
    /\ \A x \in Doomed(r) : ~Locked(r, x)
    /\ Goto(r, "removed")
    /\ locks' = [locks EXCEPT ![r] = @ \cup Doomed(r)]
    /\ UNCHANGED <<rows, op, on, rank, audience, listed, logged, met>>

(* r cannot go on before s ends: s has locked the row that r is to mark, or *)
(* rows that r is to delete; or r deletes the server, with what has been    *)
(* added to it since, and s has locked of that or refers to it.             *)
WaitsFor(r, s) ==
    /\ r # s
    /\ \/ stage[r] = "written" /\ Marks(r) \cap locks[s] # {}
       \/ stage[r] = "logged" /\ Removes(r) /\ Doomed(r) \cap locks[s] # {}
       \/ /\ stage[r] = "removed" /\ op[r] = "delete"
          /\ Refers(s) \/ ({ServerRow} \cup Doomed(r)) \cap locks[s] # {}

(* Each of S waits, over others of S, for every other.                      *)
Deadlocked(S) ==
    \A T \in SUBSET S : T # {} /\ T # S => \E r \in T, s \in S \ T : WaitsFor(r, s)

(* PostgreSQL ends a deadlock.                                              *)
Abort(r) ==
    /\ \E S \in SUBSET Request : r \in S /\ S # {r} /\ Deadlocked(S)
    /\ Fail(r)

-----------------------------------------------------------------------------
(* Commits                                                                  *)

Commit(r) ==
    /\ stage[r] = IF Removes(r) THEN "removed" ELSE "logged"
    /\ \A s \in Request : ~WaitsFor(r, s)
    /\ Goto(r, "committed")
    /\ locks' = [locks EXCEPT ![r] = {}]
    /\ life' = IF op[r] = "delete" THEN "deleted" ELSE life
    /\ role' = CASE op[r] = "delete" -> [u \in User |-> "none"]
                 [] op[r] = "join" -> [role EXCEPT ![on[r]] = "member"]
                 [] op[r] = "leave" ->
                      [u \in User |-> IF u \in locks[r] THEN "none" ELSE role[u]]
                 [] op[r] = "role" /\ rank[r] # "none" -> [role EXCEPT ![on[r]] = rank[r]]
                 [] OTHER -> role
    /\ channels' = CASE op[r] = "delete" -> {}
                     [] op[r] = "addChannel" -> channels \cup {on[r]}
                     [] op[r] = "dropChannel" -> channels \ {on[r]}
                     [] OTHER -> channels
    /\ UNCHANGED <<op, on, rank, audience, listed, logged, met>>

(* Mutant: events are sent to those who are members now.                    *)
Told_Members(r) ==
    CASE op[r] \in {"create", "update"} -> listed \cup Members
      [] op[r] \in {"join", "role"} -> listed \cup ({on[r]} \cap Members)
      [] op[r] = "leave" -> IF life = "live" THEN listed \ {on[r]} ELSE listed
      [] op[r] = "delete" -> listed \ Members
      [] OTHER -> listed

(* The clients that list the server when the request's event has been sent. *)
Told(r) ==
    CASE op[r] \in {"create", "update"} -> listed \cup Members
      [] op[r] \in {"join", "role"} -> listed \cup ({on[r]} \cap Members)
      [] op[r] = "leave" -> IF life = "live" THEN listed \ {on[r]} ELSE listed
      [] op[r] = "delete" -> listed \ (audience[r] \cup {Founder})
      [] OTHER -> listed

Tell(r) ==
    /\ stage[r] = "committed"
    /\ Goto(r, "done")
    /\ listed' = Told(r)
    /\ audience' = [audience EXCEPT ![r] = {}]
    /\ rank' = [rank EXCEPT ![r] = "none"]
    /\ UNCHANGED <<rows, op, on, locks, logged, met>>

-----------------------------------------------------------------------------
RequestStep(r) ==
    \/ /\ stage[r] = "idle"
       /\ \E o \in Ops, u \in User, x \in User \cup Channel \cup {ServerRow},
             k \in Rank \cup {"none"} : Check(r, o, u, x, k)
    \/ Create(r) \/ Write(r) \/ WriteFails(r) \/ Log(r) \/ LogFails(r) \/ Remove(r)
    \/ Abort(r) \/ Commit(r) \/ Tell(r) \/ Break(r)

Next == \E r \in Request : RequestStep(r)

Spec == Init /\ [][Next]_vars

-----------------------------------------------------------------------------
(* Properties                                                               *)

(* The type of every variable.                                              *)
TypeOK ==
    /\ life \in {"none", "live", "deleted"}
    /\ role \in [User -> Role \cup {"none"}]
    /\ channels \subseteq Channel
    /\ stage \in [Request -> {"idle", "checked", "written", "logged", "removed",
                             "committed", "done", "failed", "broken", "untold"}]
    /\ op \in [Request -> Ops \cup {"none"}]
    /\ on \in [Request -> User \cup Channel \cup {ServerRow}]
    /\ rank \in [Request -> Role \cup {"none"}]
    /\ audience \in [Request -> SUBSET User]
    /\ locks \in [Request -> SUBSET (User \cup Channel \cup {ServerRow, EmbeddingRow})]
    /\ listed \subseteq User
    /\ logged \subseteq Request
    /\ met \subseteq SUBSET Request

(* However roles are changed, a server has a member who is owner, unless two*)
(* requests that changed roles or left overlapped: each checked its actor's *)
(* role before the other committed.                                         *)
OwnerlessNeedsARace ==
    life = "live" /\ (\A u \in User : role[u] # "owner")
    => \E r, s \in Request :
          r # s /\ {r, s} \in met /\ {op[r], op[s]} \subseteq {"role", "leave"}

(* The activity feed shows an entry before it is committed.  What members   *)
(* were shown did take place, unless its request was cut off, or lost a     *)
(* deadlock over rows that are deleted only after they were told: the server*)
(* met its deletion, or a channel's deletion an edit of that channel.       *)
PhantomsLostADeadlock ==
    \A r \in logged :
        stage[r] = "failed" =>
            \E s \in Request \ {r} :
                /\ {r, s} \in met
                /\ \/ "delete" \in {op[r], op[s]}
                   \/ op[r] = "dropChannel" /\ op[s] = "editChannel" /\ on[s] = on[r]

(* Can the request change whether u's client lists the server?              *)
Touches(r, u) ==
    \/ op[r] \in {"create", "update", "delete"}
    \/ op[r] \in {"join", "leave", "role"} /\ on[r] = u

(* Clients list the server of which their user is a member, once the        *)
(* requests are over that can change it, unless two of them overlapped or   *)
(* one was cut off between its commit and its event.                        *)
ListsAgree ==
    \A u \in User :
        \/ \E r \in InFlight : Touches(r, u)
        \/ \E r, s \in Request : r # s /\ {r, s} \in met /\ Touches(r, u) /\ Touches(s, u)
        \/ \E r \in Request : stage[r] = "untold" /\ Touches(r, u)
        \/ u \in listed <=> u \in Members

=============================================================================
