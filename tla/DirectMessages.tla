--------------------------- MODULE DirectMessages ---------------------------
(***************************************************************************)
(* Opening, closing and writing to direct-message channels on one node:    *)
(* app/routers/dms.py, and what send_message of app/routers/messages.py    *)
(* does to a channel somebody has closed.                                  *)
(*                                                                         *)
(* A request is a coroutine with a database session of its own.  The       *)
(* database runs at READ COMMITTED and no handler locks what it reads, so  *)
(* what a SELECT found may have changed when the request writes: each      *)
(* request has a stage for every statement that reads or changes what      *)
(* another request may change.  A row that is being deleted is locked until*)
(* its transaction ends.                                                   *)
(*                                                                         *)
(* What is abstracted.                                                     *)
(*  - A message's own row: only its effect on dm_hidden_states is kept.    *)
(*  - Users, rate limits and empty messages: a request that is refused     *)
(*    before it has read a channel changes nothing.                        *)
(*  - `told' is what the user's client heard last of a channel, in an      *)
(*    event or in the answer to a request of its own.                      *)
(***************************************************************************)
EXTENDS Naturals, FiniteSets

CONSTANTS
    User,
    Dm,             \* the channel rows there is room for (bound)
    Request,        \* the requests that are ever made (bound)
    NoUser, NoDm, NoRequest

ASSUME NullAssumption ==
    NoUser \notin User /\ NoDm \notin Dm /\ NoRequest \notin Request

VARIABLES
    participants,   \* channels with dm_participants: the users of a channel, {} before it exists
    created_by,     \* the request that created the channel
    hidden,         \* dm_hidden_states: who has closed which channel
    told,           \* what each client heard last of a channel
    stage,          \* where each request stands
    op,             \* what it does: open, close or send
    by,             \* whose request it is
    pair,           \* for open: the two users the channel is for
    dm,             \* the channel it found or made
    doomed,         \* for send: the hidden states its DELETE has locked
    overlaps        \* history: the requests in flight at some time with this one

database == <<participants, created_by, hidden>>
params   == <<op, by, pair>>
vars == <<participants, created_by, hidden, told, stage, op, by, pair, dm, doomed, overlaps>>

Pairs == {p \in SUBSET User : \E u, v \in User : u # v /\ p = {u, v}}

Stage == {"idle", "creating", "reopening", "hiding", "sending", "announcing",
          "done", "failed"}

Init ==
    /\ participants = [d \in Dm |-> {}]
    /\ created_by = [d \in Dm |-> NoRequest]
    /\ hidden = {}
    /\ told = [d \in Dm |-> [u \in User |-> "nothing"]]
    /\ stage = [r \in Request |-> "idle"]
    /\ op = [r \in Request |-> "none"]
    /\ by = [r \in Request |-> NoUser]
    /\ pair = [r \in Request |-> {}]
    /\ dm = [r \in Request |-> NoDm]
    /\ doomed = [r \in Request |-> {}]
    /\ overlaps = [r \in Request |-> {}]

-----------------------------------------------------------------------------
InFlight(r) == stage[r] \notin {"idle", "done", "failed"}

(* Request r arrives: user u asks for o, and the requests in flight learn   *)
(* that they overlap.                                                       *)
Begin(r, o, u, p) ==
    /\ stage[r] = "idle"
    /\ op' = [op EXCEPT ![r] = o]
    /\ by' = [by EXCEPT ![r] = u]
    /\ pair' = [pair EXCEPT ![r] = p]
    /\ overlaps' = [q \in Request |->
                      IF q = r THEN overlaps[r] \cup {x \in Request : InFlight(x)}
                      ELSE IF InFlight(q) THEN overlaps[q] \cup {r} ELSE overlaps[q]]

Goto(r, s) == stage' = [stage EXCEPT ![r] = s]

Locked(d, u) == \E r \in Request : stage[r] = "sending" /\ <<d, u>> \in doomed[r]

(* Mutant: a channel one of the two has closed is not found.                *)
Existing_Shown(p) ==
    {d \in Dm : participants[d] = p /\ \A u \in p : <<d, u>> \notin hidden}
(* The dm channels with both users among their participants.                *)
Existing(p) == {d \in Dm : participants[d] = p}

-----------------------------------------------------------------------------
(* create_dm_channel: the SELECT.  It has no ORDER BY, so with several      *)
(* channels any may come first.                                             *)
FindExisting(r) ==
    \E p \in Pairs : \E u \in p :
        /\ Begin(r, "open", u, p)
        /\ \/ /\ Existing(p) = {}
              /\ Goto(r, "creating")
              /\ UNCHANGED dm
           \/ \E d \in Existing(p) :
              /\ dm' = [dm EXCEPT ![r] = d]
              /\ Goto(r, "reopening")
        /\ UNCHANGED <<database, told, doomed>>

(* ... none found: channel and participants, in one transaction.            *)
Create(r) ==
    /\ stage[r] = "creating"
    /\ \E d \in Dm :
          /\ participants[d] = {}
          /\ participants' = [participants EXCEPT ![d] = pair[r]]
          /\ created_by' = [created_by EXCEPT ![d] = r]
          /\ dm' = [dm EXCEPT ![r] = d]
    /\ Goto(r, "announcing")
    /\ UNCHANGED <<hidden, told, params, doomed, overlaps>>

(* ... one found: it is shown again to the user who asked.                  *)
(* Mutant: it stays hidden.                                                 *)
Reopen_KeepHidden(r) ==
    /\ stage[r] = "reopening"
    /\ ~Locked(dm[r], by[r])
    /\ Goto(r, "announcing")
    /\ UNCHANGED <<database, told, params, dm, doomed, overlaps>>

Reopen(r) ==
    /\ stage[r] = "reopening"
    /\ ~Locked(dm[r], by[r])
    /\ hidden' = hidden \ {<<dm[r], by[r]>>}
    /\ Goto(r, "announcing")
    /\ UNCHANGED <<participants, created_by, told, params, dm, doomed, overlaps>>

(* close_dm_channel: the SELECT of the hidden state.                        *)
FindHidden(r) ==
    \E d \in Dm : \E u \in participants[d] :
        /\ Begin(r, "close", u, {})
        /\ dm' = [dm EXCEPT ![r] = d]
        /\ Goto(r, IF <<d, u>> \in hidden THEN "announcing" ELSE "hiding")
        /\ UNCHANGED <<database, told, doomed>>

(* ... the INSERT, which waits for a DELETE of the same row and fails if    *)
(* another request has inserted the row meanwhile.                          *)
Hide(r) ==
    /\ stage[r] = "hiding"
    /\ ~Locked(dm[r], by[r])
    /\ hidden' = hidden \cup {<<dm[r], by[r]>>}
    /\ Goto(r, IF <<dm[r], by[r]>> \in hidden THEN "failed" ELSE "announcing")
    /\ UNCHANGED <<participants, created_by, told, params, dm, doomed, overlaps>>

(* send_message: access is checked, then the DELETE of every hidden state   *)
(* of the channel it sees, for which it may have to wait.  A message that   *)
(* arrives from the other node does this too.                               *)
(* Mutant: only the author's own.                                           *)
Unhide_Own(r) ==
    \E d \in Dm : \E u \in participants[d] :
        /\ Begin(r, "send", u, {})
        /\ dm' = [dm EXCEPT ![r] = d]
        /\ doomed' = [doomed EXCEPT ![r] = hidden \cap {<<d, u>>}]
        /\ Goto(r, "sending")
        /\ UNCHANGED <<database, told>>

Unhide(r) ==
    \E d \in Dm : \E u \in participants[d] :
        /\ Begin(r, "send", u, {})
        /\ dm' = [dm EXCEPT ![r] = d]
        /\ doomed' = [doomed EXCEPT ![r] = hidden \cap ({d} \X User)]
        /\ Goto(r, "sending")
        /\ UNCHANGED <<database, told>>

(* ... the message's own INSERT and the commit.  Another DELETE that waited *)
(* for the same rows finds them gone, and does not see what has been        *)
(* inserted in their place.                                                 *)
Send(r) ==
    /\ stage[r] = "sending"
    /\ hidden' = hidden \ doomed[r]
    /\ doomed' = [q \in Request |-> doomed[q] \ doomed[r]]
    /\ Goto(r, "announcing")
    /\ UNCHANGED <<participants, created_by, told, params, dm, overlaps>>

(* After the commit: dm.created and message.created, which carries the      *)
(* channel, go to both participants, dm.deleted to the user who closed it;  *)
(* one who opened an existing channel gets it in the answer.                *)
Audience(r) ==
    IF op[r] = "send" \/ created_by[dm[r]] = r THEN participants[dm[r]] ELSE {by[r]}

Announce(r) ==
    /\ stage[r] = "announcing"
    /\ told' = [told EXCEPT ![dm[r]] =
                  [u \in User |-> IF u \notin Audience(r) THEN told[dm[r]][u]
                                  ELSE IF op[r] = "close" THEN "closed" ELSE "open"]]
    /\ Goto(r, "done")
    /\ UNCHANGED <<database, params, dm, doomed, overlaps>>

(* The database or Redis raises: before the commit nothing has happened,    *)
(* after it nothing is announced.                                           *)
Fail(r) ==
    /\ InFlight(r)
    /\ Goto(r, "failed")
    /\ UNCHANGED <<database, told, params, dm, doomed, overlaps>>

Next ==
    \E r \in Request :
        \/ FindExisting(r) \/ Create(r) \/ Reopen(r)
        \/ FindHidden(r) \/ Hide(r)
        \/ Unhide(r) \/ Send(r)
        \/ Announce(r) \/ Fail(r)

Spec == Init /\ [][Next]_vars

-----------------------------------------------------------------------------
TypeOK ==
    /\ participants \in [Dm -> Pairs \cup {{}}]
    /\ created_by \in [Dm -> Request \cup {NoRequest}]
    /\ hidden \subseteq Dm \X User
    /\ told \in [Dm -> [User -> {"nothing", "open", "closed"}]]
    /\ stage \in [Request -> Stage]
    /\ op \in [Request -> {"none", "open", "close", "send"}]
    /\ by \in [Request -> User \cup {NoUser}]
    /\ pair \in [Request -> Pairs \cup {{}}]
    /\ dm \in [Request -> Dm \cup {NoDm}]
    /\ doomed \in [Request -> SUBSET (Dm \X User)]
    /\ overlaps \in [Request -> SUBSET Request]

(* Nothing but two requests in flight at once makes a second channel for a  *)
(* pair: closing, failing and reopening never do.                           *)
DuplicatesNeedARace ==
    \A d, e \in Dm :
        participants[d] = participants[e] /\ participants[d] # {} /\ d # e
            => created_by[d] \in overlaps[created_by[e]]

(* A new message brings the channel back: whoever still has it closed when  *)
(* the message is committed has closed it while it was being sent.          *)
MessagesReopenChannels ==
    [][\A r \in Request : \A u \in User :
          stage[r] = "sending" /\ stage'[r] = "announcing" /\ <<dm[r], u>> \in hidden'
            => \E q \in overlaps[r] : op[q] = "close" /\ by[q] = u /\ dm[q] = dm[r]]_vars

(* A client is told of every change: unless requests about a channel have   *)
(* overlapped or failed, the participants' clients have heard last that it  *)
(* is open or closed according to what the database holds.                  *)
About(d) ==
    {r \in Request : stage[r] # "idle" /\ (dm[r] = d \/ pair[r] = participants[d])}

ClientsAgree ==
    \A d \in Dm :
        ( /\ participants[d] # {}
          /\ \A r \in About(d) : stage[r] = "done" /\ overlaps[r] \cap About(d) = {} )
        => \A u \in participants[d] :
              /\ told[d][u] # "nothing"
              /\ told[d][u] = "closed" <=> <<d, u>> \in hidden

=============================================================================
