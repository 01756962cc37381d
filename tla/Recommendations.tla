--------------------------- MODULE Recommendations ---------------------------
(***************************************************************************)
(* The embeddings behind the public directory: how requests that change a  *)
(* profile mark its embedding, and how the worker brings embeddings up to  *)
(* date (app/services/recommendations.py, with update_me of                *)
(* app/routers/users.py and update_server of app/routers/servers.py).  A   *)
(* profile is a user's or a server's.                                      *)
(*                                                                         *)
(* The worker works through a batch in one transaction and one session.  A  *)
(* row the session holds keeps the columns it was read with, though it is  *)
(* selected again; an UPDATE names the columns whose values have changed;  *)
(* a row that was written stays locked until the batch commits.  The       *)
(* session holds weak references: all the stale rows of a batch (their     *)
(* list is at hand), but of others only the row it is at work on.          *)
(* Computing an embedding takes long, and requests go on meanwhile.        *)
(*                                                                         *)
(* What is abstracted.                                                     *)
(*  - A profile's text, its digest and its embedding are the request that  *)
(*    wrote the text.  The model runtime may be missing: no embedding.     *)
(*  - A request that changes no column is left out, and so are avatars and *)
(*    other columns that are not embedded, and a server's channel names.   *)
(*  - A batch takes at most 100 profiles and 100 rows: there are no more.  *)
(*  - The worker writes a row at the end of its computation, in the code   *)
(*    it does before its next query; a request that has to wait for a lock *)
(*    is one that has not taken the step yet.                              *)
(*  - user_recommendations, a cache of rankings that no handler reads, and *)
(*    the arithmetic of ranking.                                           *)
(***************************************************************************)
EXTENDS Naturals

CONSTANTS
    Profile,
    Request,        \* the requests that are ever made (bound)
    NoProfile, NoRequest, NoRow, NoText,
    MaxUnmarked     \* bound: profile changes that mark nothing

ASSUME NullAssumption == NoProfile \notin Profile /\ NoRequest \notin Request
ASSUME BoundAssumption == MaxUnmarked \in Nat

Text   == Request \cup {NoRequest}
Public == [public : BOOLEAN, text : Text]
Row    == [id : Text, hash : Text, embedding : Text \cup {NoText}, stale : BOOLEAN]

ASSUME NoRowAssumption == NoRow \notin Row \cup Public /\ NoText \notin Text

VARIABLES
    profile,     \* what is public of users and servers: directory_opt_in, text
    row,         \* recommendation_embeddings
    stage, op, about,
    copy,        \* the profile as the request read it and changed it
    mark,        \* the row the request found, or has deleted
    phase,       \* what the worker's batch is at
    todo,        \* the profiles it still has to refresh
    at, stop,    \* the profile it refreshes, and how far it has come
    source,      \* that profile as it was read
    held,        \* the rows its session holds
    written, buffer,  \* the rows it has written, and what it wrote
    unmarked,
    disturbed    \* history: profiles a request changed while the worker was
                 \* at work on them, or that were changed without a mark

request == <<stage, op, about, copy, mark>>
worker  == <<phase, todo, at, stop, source, held, written, buffer>>
vars    == <<profile, row, request, worker, unmarked, disturbed>>

Init ==
    /\ profile \in [Profile -> [public : BOOLEAN, text : {NoRequest}]]
    /\ row = [p \in Profile |-> NoRow]
    /\ stage = [r \in Request |-> "idle"]
    /\ op = [r \in Request |-> "none"]
    /\ about = [r \in Request |-> NoProfile]
    /\ copy = [r \in Request |-> NoRow]
    /\ mark = [r \in Request |-> NoRow]
    /\ phase = "off"
    /\ todo = {}
    /\ at = NoProfile
    /\ stop = "next"
    /\ source = NoRow
    /\ held = [p \in Profile |-> NoRow]
    /\ written = {}
    /\ buffer = [p \in Profile |-> NoRow]
    /\ unmarked = 0
    /\ disturbed = {}

-----------------------------------------------------------------------------
(* Requests                                                                 *)

Goto(r, s) == stage' = [stage EXCEPT ![r] = s]

(* The requests whose transaction has changed profile p: its row is locked. *)
Marking(p) == {r \in Request : stage[r] = "marked" /\ about[r] = p}

(* The worker's batch depends on what it has read of p, or has changed it.  *)
AtWork(p) == at = p \/ held[p] # NoRow \/ p \in written

(* The request reads the profile it is about to change.                     *)
Begin(r, o, p) ==
    /\ stage[r] = "idle"
    /\ o = "show" => ~profile[p].public
    /\ o = "hide" => profile[p].public
    /\ Goto(r, "begun")
    /\ op' = [op EXCEPT ![r] = o]
    /\ about' = [about EXCEPT ![r] = p]
    /\ copy' = [copy EXCEPT ![r] =
                   [public |-> IF o = "edit" THEN profile[p].public ELSE o = "show",
                    text   |-> IF o = "edit" THEN r ELSE profile[p].text]]
    /\ UNCHANGED <<profile, row, mark, worker, unmarked, disturbed>>

(* A profile that is not public, as far as the request knows, has no row.   *)
Deletes(r) == ~copy[r].public

(* mark_public_entity_stale: the flush of the profile locks it; then the    *)
(* embedding's row is looked up or deleted.                                 *)
Mark(r) ==
    LET p == about[r] IN
    /\ stage[r] = "begun"
    /\ Marking(p) = {}
    /\ Deletes(r) /\ row[p] # NoRow => p \notin written   \* the DELETE waits
    /\ Goto(r, "marked")
    /\ mark' = [mark EXCEPT ![r] = row[p]]
    /\ disturbed' = IF AtWork(p) THEN disturbed \cup {p} ELSE disturbed
    /\ UNCHANGED <<profile, row, op, about, copy, worker, unmarked>>

Changed(r) ==
    IF op[r] = "edit"
    THEN [profile EXCEPT ![about[r]] = [public |-> @.public, text |-> r]]
    ELSE [profile EXCEPT ![about[r]] = [public |-> op[r] = "show", text |-> @.text]]

(* The row was inserted, or deleted, since the request looked it up.        *)
Collides(r) ==
    LET now == row[about[r]] IN
    IF mark[r] = NoRow THEN now # NoRow ELSE now # NoRow => now.id # mark[r].id

(* Mutant: the row is left as it is.                                        *)
Marked_Not(r) == row[about[r]]

Marked(r) ==
    LET now == row[about[r]]  found == mark[r] IN
    IF found = NoRow
    THEN [id |-> r, hash |-> copy[r].text, embedding |-> NoText, stale |-> TRUE]
    ELSE [id |-> now.id,
          hash |-> IF found.hash # copy[r].text THEN copy[r].text ELSE now.hash,
          embedding |-> now.embedding,
          stale |-> IF found.stale THEN now.stale ELSE TRUE]

(* The request is over, and what it knew is gone.                           *)
Leave(r, s) ==
    /\ Goto(r, s)
    /\ op' = [op EXCEPT ![r] = "none"]
    /\ copy' = [copy EXCEPT ![r] = NoRow]
    /\ mark' = [mark EXCEPT ![r] = NoRow]

(* The transaction ends with the INSERT or UPDATE of the row.               *)
Commit(r) ==
    LET p == about[r] IN
    /\ stage[r] = "marked"
    /\ \/ /\ Deletes(r)
          /\ row' = IF mark[r] # NoRow THEN [row EXCEPT ![p] = NoRow] ELSE row
          /\ profile' = Changed(r)
          /\ Leave(r, "done")
       \/ /\ ~Deletes(r) /\ p \notin written /\ ~Collides(r)
          /\ row' = [row EXCEPT ![p] = Marked(r)]
          /\ profile' = Changed(r)
          /\ Leave(r, "done")
       \/ /\ ~Deletes(r) /\ p \notin written /\ Collides(r)
          /\ Leave(r, "failed")
          /\ UNCHANGED <<row, profile>>
    /\ UNCHANGED <<about, worker, unmarked, disturbed>>

(* A replicated profile is applied, or a server is deleted: no row is       *)
(* marked or removed.                                                       *)
ChangeUnmarked(p) ==
    /\ unmarked < MaxUnmarked
    /\ unmarked' = unmarked + 1
    /\ Marking(p) = {}
    /\ \E now \in Public : profile' = [profile EXCEPT ![p] = now]
    /\ disturbed' = disturbed \cup {p}
    /\ UNCHANGED <<row, request, worker>>

-----------------------------------------------------------------------------
(* The worker: refresh_recommendation_batch                                 *)

(* What the batch's own transaction sees.                                   *)
View(p) == IF p \in written THEN buffer[p] ELSE row[p]

Stale == {p \in Profile : View(p) # NoRow /\ View(p).stale}

Nothing == [p \in Profile |-> NoRow]

(* The stale rows are loaded when they are selected.                        *)
Load(S) == [p \in Profile |-> IF p \in S THEN View(p) ELSE NoRow]

(* The worker has come across S while requests are at work on them.         *)
Disturb(S) == disturbed' = disturbed \cup {p \in S : Marking(p) # {}}

StartFull ==
    /\ phase = "off"
    /\ phase' = "full"
    /\ todo' = {p \in Profile : profile[p].public}
    /\ UNCHANGED <<profile, row, request, at, stop, source, held, written, buffer,
                   unmarked, disturbed>>

SelectStale ==
    /\ phase \in {"off", "full"} /\ todo = {} /\ at = NoProfile
    /\ phase' = "stale"
    /\ todo' = Stale
    /\ held' = Load(Stale)
    /\ Disturb(Stale)
    /\ UNCHANGED <<profile, row, request, at, stop, source, written, buffer, unmarked>>

(* refresh_public_entity_embedding: the profile is read ...                 *)
Read(p) ==
    /\ at = NoProfile
    /\ p \in todo
    /\ todo' = todo \ {p}
    /\ at' = p
    /\ stop' = IF profile[p].public THEN "look" ELSE "remove"
    /\ source' = profile[p]
    /\ Disturb({p})
    /\ UNCHANGED <<profile, row, request, phase, held, written, buffer, unmarked>>

(* The worker is through with profile p.                                    *)
Turn(p) ==
    /\ at' = NoProfile
    /\ stop' = "next"
    /\ source' = NoRow
    /\ held' = [held EXCEPT ![p] = NoRow]

(* A request's uncommitted DELETE of the row: the worker's writes wait.     *)
Doomed(p) == \E r \in Marking(p) : Deletes(r) /\ mark[r] # NoRow

(* ... its row is deleted if it is not public ...                           *)
Remove ==
    /\ stop = "remove"
    /\ ~Doomed(at)
    /\ written' = IF View(at) # NoRow THEN written \cup {at} ELSE written
    /\ buffer' = [buffer EXCEPT ![at] = NoRow]
    /\ Turn(at)
    /\ UNCHANGED <<profile, row, request, phase, todo, unmarked, disturbed>>

(* The row as the session has it when it is selected.                       *)
Held(p) ==
    IF held[p] # NoRow /\ View(p) # NoRow /\ held[p].id = View(p).id THEN held[p] ELSE View(p)

(* Mutant: a row with an embedding is taken to be fresh.                    *)
Fresh_IfEmbedded(r) == r # NoRow /\ r.embedding # NoText

Fresh(r) ==
    /\ r # NoRow
    /\ ~r.stale
    /\ r.hash = source.text
    /\ r.embedding # NoText

(* ... and is left alone if it is fresh.                                    *)
Look ==
    /\ stop = "look"
    /\ \/ /\ Fresh(Held(at))
          /\ Turn(at)
       \/ /\ ~Fresh(Held(at))
          /\ stop' = "embed"
          /\ held' = [held EXCEPT ![at] = Held(at)]
          /\ UNCHANGED <<at, source>>
    /\ UNCHANGED <<profile, row, request, phase, todo, written, buffer, unmarked, disturbed>>

(* Mutant: the mark is not taken away.                                      *)
Refreshed_Stale(e) ==
    [id |-> IF held[at] = NoRow THEN NoRequest ELSE held[at].id,
     hash |-> source.text, embedding |-> e, stale |-> TRUE]

(* The row as the session has it after an embedding e (NoText: none).       *)
Refreshed(e) ==
    [id |-> IF held[at] = NoRow THEN NoRequest ELSE held[at].id,
     hash |-> source.text, embedding |-> e, stale |-> e = NoText]

(* What is written: columns that differ from those the session had.         *)
Flushed(e) ==
    LET new == Refreshed(e)  old == held[at]  now == View(at) IN
    IF old = NoRow
    THEN new
    ELSE [id |-> now.id,
          hash |-> IF old.hash # new.hash THEN new.hash ELSE now.hash,
          embedding |-> IF old.embedding # new.embedding THEN new.embedding ELSE now.embedding,
          stale |-> IF old.stale # new.stale THEN new.stale ELSE now.stale]

(* The row was inserted, deleted or replaced while the worker computed.     *)
Clashes ==
    LET now == View(at) IN
    IF held[at] = NoRow THEN now # NoRow ELSE now # NoRow => now.id # held[at].id

(* The embedding is there, and the row is written.                          *)
Embed(e) ==
    /\ stop = "embed"
    /\ e \in {source.text, NoText}
    /\ ~Doomed(at)
    /\ ~Clashes
    /\ written' = written \cup {at}
    /\ buffer' = [buffer EXCEPT ![at] = Flushed(e)]
    /\ Turn(at)
    /\ UNCHANGED <<profile, row, request, phase, todo, unmarked, disturbed>>

End ==
    /\ phase' = "off"
    /\ todo' = {}
    /\ at' = NoProfile
    /\ stop' = "next"
    /\ source' = NoRow
    /\ held' = Nothing
    /\ written' = {}
    /\ buffer' = Nothing
    /\ UNCHANGED <<profile, request, unmarked, disturbed>>

(* The row cannot be written: the whole batch is rolled back.               *)
Abort ==
    /\ stop = "embed"
    /\ ~Doomed(at)
    /\ Clashes
    /\ End
    /\ UNCHANGED row

EndBatch ==
    /\ phase = "stale" /\ todo = {} /\ at = NoProfile
    /\ row' = [p \in Profile |-> View(p)]
    /\ End

-----------------------------------------------------------------------------
RequestStep(r) ==
    \/ \E o \in {"edit", "show", "hide"}, p \in Profile : Begin(r, o, p)
    \/ Mark(r) \/ Commit(r)

WorkerStep ==
    \/ StartFull \/ SelectStale \/ Remove \/ Look \/ Abort \/ EndBatch
    \/ \E p \in Profile : Read(p)
    \/ \E e \in Text \cup {NoText} : Embed(e)

Next ==
    \/ \E r \in Request : RequestStep(r)
    \/ \E p \in Profile : ChangeUnmarked(p)
    \/ WorkerStep

Spec == Init /\ [][Next]_vars

(* The worker polls for ever and makes a full pass now and then; the model  *)
(* runtime is there now and then; a request that waits for a lock gets it.  *)
Fairness ==
    /\ WF_vars(WorkerStep)
    /\ SF_vars(StartFull)
    /\ \A p \in Profile : SF_vars(at = p /\ Embed(source.text))
    /\ \A r \in Request : WF_vars(Mark(r)) /\ SF_vars(Commit(r))

FairSpec == Spec /\ Fairness

-----------------------------------------------------------------------------
(* Properties                                                               *)

(* The type of every variable.                                              *)
TypeOK ==
    /\ profile \in [Profile -> Public]
    /\ row \in [Profile -> Row \cup {NoRow}]
    /\ stage \in [Request -> {"idle", "begun", "marked", "done", "failed"}]
    /\ op \in [Request -> {"none", "edit", "show", "hide"}]
    /\ about \in [Request -> Profile \cup {NoProfile}]
    /\ copy \in [Request -> Public \cup {NoRow}]
    /\ mark \in [Request -> Row \cup {NoRow}]
    /\ phase \in {"off", "full", "stale"}
    /\ todo \subseteq Profile
    /\ at \in Profile \cup {NoProfile}
    /\ stop \in {"next", "remove", "look", "embed"}
    /\ source \in Public \cup {NoRow}
    /\ held \in [Profile -> Row \cup {NoRow}]
    /\ written \subseteq Profile
    /\ buffer \in [Profile -> Row \cup {NoRow}]
    /\ unmarked \in 0 .. MaxUnmarked
    /\ disturbed \subseteq Profile

(* Is r the row of a fresh embedding of the profile as it is?               *)
Exact(p, r) == profile[p].public /\ r.embedding = profile[p].text

(* However requests about a profile overlap each other: unless one overlaps *)
(* the worker's work on the profile, a row that is not marked stale belongs *)
(* to a public profile and embeds its text as it is.                        *)
UndisturbedEmbeddingsAreExact ==
    \A p \in Profile \ disturbed : row[p] # NoRow /\ ~row[p].stale => Exact(p, row[p])

(* A change of a profile is refused because of its embedding only if the    *)
(* worker was at work on the profile.                                       *)
UpdatesFailOnlyInARace ==
    \A r \in Request : stage[r] = "failed" => about[r] \in disturbed

(* A mark is served: no row stays stale for ever, disturbed or not.         *)
MarksAreServed == \A p \in Profile : []<>(row[p] = NoRow \/ ~row[p].stale)

(* A public profile that stays undisturbed ends up with its embedding.      *)
ProfilesAreEmbedded ==
    \A p \in Profile :
        <>[](p \in disturbed
             \/ (IF profile[p].public THEN row[p] # NoRow /\ ~row[p].stale ELSE row[p] = NoRow))

=============================================================================
