------------------------------ MODULE Messages ------------------------------
(***************************************************************************)
(* The messages of one text channel of a server, on one node: sending,     *)
(* editing, deleting, pinning, reacting, bookmarking                       *)
(* (app/routers/messages.py) and marking as read (app/routers/channels.py),*)
(* with what these requests tell the clients that have the channel open.   *)
(*                                                                         *)
(* A request is a coroutine with a database session of its own, made with  *)
(* expire_on_commit=False: the message it read first, as changed by        *)
(* itself, is what it goes on to use, even where it selects the row again  *)
(* after its commit.  An UPDATE names the columns the request has changed. *)
(* READ COMMITTED, no row is locked when it is read: a request has a stage *)
(* for each statement that reads or changes what another may change.       *)
(*                                                                         *)
(* What is abstracted.                                                     *)
(*  - A message's content is the request that wrote it; there is one emoji.*)
(*  - Everybody is a member of the server and roles do not change; requests*)
(*    refused before they read the message change nothing.                 *)
(*  - A request may also clear a read mark, which refers to nothing.  In a *)
(*    DM channel any participant may pin; otherwise the same code serves   *)
(*    both kinds of channel.                                               *)
(*  - Redis hands events to all clients in one order; they are applied here*)
(*    as soon as they are published.                                       *)
(*  - The row of the outbox that each commit adds is the matter of module  *)
(*    SyncBridge, which takes requests about a message one after the other;*)
(*    VersionsGrow is what it then relies on.                              *)
(*  - Deleting a message whose reply is deleted at the same time fails in  *)
(*    the code for sure; here it may succeed or fail.                      *)
(***************************************************************************)
EXTENDS Naturals

CONSTANTS
    Message,
    Old,          \* the messages there are at first
    User,
    Author,       \* of each message
    Moderator,    \* users who may moderate the server
    Request,      \* the requests that are ever made (bound)
    NoMessage, NoRequest, NoUser, NoRow

ASSUME ParameterAssumption ==
    /\ Old \subseteq Message
    /\ Author \in [Message -> User]
    /\ Moderator \subseteq User
    /\ NoMessage \notin Message /\ NoRequest \notin Request /\ NoUser \notin User

Text == Request \cup {NoRequest}
Row == [content : Text, pinned : BOOLEAN, version : Nat]
Item == [content : Text, pinned : BOOLEAN, reacted : SUBSET User]
ASSUME NoRowAssumption == NoRow \notin Row \cup Item
    /\ NoRow \notin [content : Text, pinned : BOOLEAN, reacted : SUBSET User]

VARIABLES
    row,          \* messages: the columns that change
    unsent,       \* the messages that have never been there
    reply_to,
    reactions,    \* who has reacted
    bookmarks,
    last_read,    \* channel_read_states
    shown,        \* what a client with the channel open shows
    stage,        \* where each request stands
    op, by, about,
    copy,         \* the message as the request's session has it
    target,       \* the message a reply is for
    reacted,      \* the reactions it loaded after its commit
    disturbed,    \* history: messages whose requests overlapped or failed
    late          \* history: messages deleted before they were announced

personal == <<bookmarks, last_read>>
table    == <<row, unsent, reply_to, reactions, personal>>
params   == <<op, by, about>>
session  == <<copy, target, reacted>>
history  == <<disturbed, late>>
vars == <<table, shown, stage, params, session, history>>

-----------------------------------------------------------------------------
Op == {"send", "edit", "pin", "unpin", "delete", "react", "unreact",
       "bookmark", "unbookmark", "read"}

(* "looking": has read the message, not yet the row below it.  "writing":  *)
(* has made every check.  "committed": has the row to load again.  "loaded":*)
(* has the event to publish.                                                *)
Stage == {"idle", "looking", "writing", "committed", "loaded", "done", "failed"}

Stored(m) == row[m] # NoRow
InFlight(r) == stage[r] \notin {"idle", "done", "failed"}
Goto(r, s) == stage' = [stage EXCEPT ![r] = s]

(* The requests whose outcome only their user sees.                         *)
Private == {"bookmark", "unbookmark", "read"}
AtWork(r) == InFlight(r) /\ op[r] \notin Private

Init ==
    /\ row = [m \in Message |->
                IF m \in Old THEN [content |-> NoRequest, pinned |-> FALSE, version |-> 1]
                ELSE NoRow]
    /\ unsent = Message \ Old
    /\ reply_to = [m \in Message |-> NoMessage]
    /\ reactions = [m \in Message |-> {}]
    /\ bookmarks = {}
    /\ last_read = [u \in User |-> NoMessage]
    /\ shown = [m \in Message |->
                  IF m \in Old THEN [content |-> NoRequest, pinned |-> FALSE, reacted |-> {}]
                  ELSE NoRow]
    /\ stage = [r \in Request |-> "idle"]
    /\ op = [r \in Request |-> "none"]
    /\ by = [r \in Request |-> NoUser]
    /\ about = [r \in Request |-> NoMessage]
    /\ copy = [r \in Request |-> NoRow]
    /\ target = [r \in Request |-> NoMessage]
    /\ reacted = [r \in Request |-> {}]
    /\ disturbed = {}
    /\ late = {}

-----------------------------------------------------------------------------
(* Request r arrives: user u asks for o on message m.                       *)
Begin(r, o, u, m) ==
    /\ stage[r] = "idle"
    /\ op' = [op EXCEPT ![r] = o]
    /\ by' = [by EXCEPT ![r] = u]
    /\ about' = [about EXCEPT ![r] = m]
    /\ disturbed' = IF o \notin Private /\ \E q \in Request : AtWork(q) /\ about[q] = m
                    THEN disturbed \cup {m} ELSE disturbed

Read(r, o, u, m, s) ==
    /\ Begin(r, o, u, m)
    /\ Stored(m)
    /\ copy' = [copy EXCEPT ![r] = row[m]]
    /\ Goto(r, s)
    /\ UNCHANGED <<table, shown, target, reacted, late>>

MayModerate(u, m) == u = Author[m] \/ u \in Moderator

ReadToEdit(r) ==
    \E m \in Message : Read(r, "edit", Author[m], m, "writing")
ReadToPin(r) ==
    \E m \in Message : \E u \in User : \E o \in {"pin", "unpin"} :
        MayModerate(u, m) /\ Read(r, o, u, m, "writing")
ReadToDelete(r) ==
    \E m \in Message : \E u \in User :
        MayModerate(u, m) /\ Read(r, "delete", u, m, "writing")
ReadToReact(r) ==
    \E m \in Message : \E u \in User :
    \E o \in {"react", "unreact", "bookmark", "unbookmark"} :
        Read(r, o, u, m, "looking")
ReadToMark(r) ==
    \E m \in Message : \E u \in User : Read(r, "read", u, m, "writing")

-----------------------------------------------------------------------------
(* send_message: a reply must name a message of the channel ...             *)
CheckSend(r) ==
    \E m \in unsent : \E t \in {x \in Message : Stored(x)} \cup {NoMessage} :
        /\ \A q \in Request : op[q] = "send" => about[q] # m
        /\ Begin(r, "send", Author[m], m)
        /\ target' = [target EXCEPT ![r] = t]
        /\ Goto(r, "writing")
        /\ UNCHANGED <<table, shown, copy, reacted, late>>

(* ... which the database checks again when the reply is stored.            *)
Send(r) ==
    LET m == about[r]
        new == [content |-> r, pinned |-> FALSE, version |-> 1] IN
    /\ stage[r] = "writing" /\ op[r] = "send"
    /\ target[r] # NoMessage => Stored(target[r])
    /\ row' = [row EXCEPT ![m] = new]
    /\ unsent' = unsent \ {m}
    /\ reply_to' = [reply_to EXCEPT ![m] = target[r]]
    /\ copy' = [copy EXCEPT ![r] = new]
    /\ Goto(r, "committed")
    /\ UNCHANGED <<reactions, personal, shown, params, target, reacted, history>>

(* Mutant: the version is left alone.                                       *)
Changed_NoBump(r) ==
    [content |-> IF op[r] = "edit" THEN r ELSE copy[r].content,
     pinned  |-> IF op[r] = "edit" THEN copy[r].pinned ELSE op[r] = "pin",
     version |-> copy[r].version]

(* What an edit or a pin makes of the message r has in hand.                *)
Changed(r) ==
    [content |-> IF op[r] = "edit" THEN r ELSE copy[r].content,
     pinned  |-> IF op[r] = "edit" THEN copy[r].pinned ELSE op[r] = "pin",
     version |-> copy[r].version + 1]

(* edit_message, pin_message, unpin_message: the UPDATE sets the columns in *)
(* which the message in hand has changed.                                   *)
Update(r) ==
    LET m == about[r] IN
    /\ stage[r] = "writing" /\ op[r] \in {"edit", "pin", "unpin"}
    /\ Stored(m)
    /\ row' = [row EXCEPT ![m] =
                 [content |-> IF op[r] = "edit" THEN r ELSE row[m].content,
                  pinned  |-> IF Changed(r).pinned # copy[r].pinned
                              THEN Changed(r).pinned ELSE row[m].pinned,
                  version |-> Changed(r).version]]
    /\ copy' = [copy EXCEPT ![r] = Changed(r)]
    /\ Goto(r, "committed")
    /\ UNCHANGED <<unsent, reply_to, reactions, personal, shown, params,
                   target, reacted, history>>

(* Mutant: marks in channel_read_states go on naming the message.           *)
Delete_KeepMarks(r) ==
    LET m == about[r] IN
    /\ stage[r] = "writing" /\ op[r] = "delete"
    /\ row' = [row EXCEPT ![m] = NoRow]
    /\ reply_to' = [x \in Message |->
                      IF x = m \/ reply_to[x] = m THEN NoMessage ELSE reply_to[x]]
    /\ reactions' = [reactions EXCEPT ![m] = {}]
    /\ bookmarks' = {b \in bookmarks : b[1] # m}
    /\ Goto(r, "loaded")
    /\ UNCHANGED <<unsent, last_read, shown, params, session, history>>

(* delete_message: replies lose their target, reactions, bookmarks and read *)
(* marks go with the message.  A message that has gone meanwhile is         *)
(* announced as deleted once more.                                          *)
Delete(r) ==
    LET m == about[r] IN
    /\ stage[r] = "writing" /\ op[r] = "delete"
    /\ row' = [row EXCEPT ![m] = NoRow]
    /\ reply_to' = [x \in Message |->
                      IF x = m \/ reply_to[x] = m THEN NoMessage ELSE reply_to[x]]
    /\ reactions' = [reactions EXCEPT ![m] = {}]
    /\ bookmarks' = {b \in bookmarks : b[1] # m}
    /\ last_read' = [u \in User |-> IF last_read[u] = m THEN NoMessage ELSE last_read[u]]
    /\ late' = IF \E q \in Request : op[q] = "send" /\ about[q] = m /\ InFlight(q)
               THEN late \cup {m} ELSE late
    /\ Goto(r, "loaded")
    /\ UNCHANGED <<unsent, shown, params, session, disturbed>>

-----------------------------------------------------------------------------
(* add_reaction, remove_reaction: what there is decides whether there is    *)
(* anything to write; the event is published in any case.                   *)
FindReaction(r) ==
    LET there == by[r] \in reactions[about[r]] IN
    /\ stage[r] = "looking" /\ op[r] \in {"react", "unreact"}
    /\ Goto(r, IF (op[r] = "react") = there THEN "committed" ELSE "writing")
    /\ UNCHANGED <<table, shown, params, session, history>>

React(r) ==
    LET m == about[r] IN
    /\ stage[r] = "writing" /\ op[r] = "react"
    /\ Stored(m) /\ by[r] \notin reactions[m]
    /\ reactions' = [reactions EXCEPT ![m] = @ \cup {by[r]}]
    /\ Goto(r, "committed")
    /\ UNCHANGED <<row, unsent, reply_to, personal, shown, params, session, history>>

Unreact(r) ==
    LET m == about[r] IN
    /\ stage[r] = "writing" /\ op[r] = "unreact"
    /\ reactions' = [reactions EXCEPT ![m] = @ \ {by[r]}]
    /\ Goto(r, "committed")
    /\ UNCHANGED <<row, unsent, reply_to, personal, shown, params, session, history>>

(* bookmark_message, unbookmark_message: nobody else is told.               *)
FindBookmark(r) ==
    LET there == <<about[r], by[r]>> \in bookmarks IN
    /\ stage[r] = "looking" /\ op[r] \in {"bookmark", "unbookmark"}
    /\ Goto(r, IF (op[r] = "bookmark") = there THEN "done" ELSE "writing")
    /\ UNCHANGED <<table, shown, params, session, history>>

Bookmark(r) ==
    LET b == <<about[r], by[r]>> IN
    /\ stage[r] = "writing"
    /\ \/ op[r] = "bookmark" /\ Stored(about[r]) /\ b \notin bookmarks
          /\ bookmarks' = bookmarks \cup {b}
       \/ op[r] = "unbookmark" /\ bookmarks' = bookmarks \ {b}
    /\ Goto(r, "done")
    /\ UNCHANGED <<row, unsent, reply_to, reactions, last_read, shown, params, session,
                   history>>

(* update_channel_read_state                                                *)
MarkRead(r) ==
    /\ stage[r] = "writing" /\ op[r] = "read"
    /\ Stored(about[r])
    /\ last_read' = [last_read EXCEPT ![by[r]] = about[r]]
    /\ Goto(r, "done")
    /\ UNCHANGED <<row, unsent, reply_to, reactions, bookmarks, shown, params, session,
                   history>>

-----------------------------------------------------------------------------
(* _load_message_with_relations after the commit: 404 if the message has    *)
(* been deleted since; the reactions are new to the session, the columns    *)
(* stay as it has them.                                                     *)
Reload(r) ==
    LET m == about[r] IN
    /\ stage[r] = "committed"
    /\ Stored(m)
    /\ reacted' = [reacted EXCEPT ![r] = reactions[m]]
    /\ Goto(r, "loaded")
    /\ UNCHANGED <<table, shown, params, copy, target, history>>

(* Mutant: the event leaves the reactions out.                              *)
Event_NoReactions(r) ==
    [content |-> copy[r].content, pinned |-> copy[r].pinned, reacted |-> {}]

Event(r) ==
    [content |-> copy[r].content, pinned |-> copy[r].pinned, reacted |-> reacted[r]]

Current(m) ==
    IF Stored(m)
    THEN [content |-> row[m].content, pinned |-> row[m].pinned,
          reacted |-> reactions[m]]
    ELSE NoRow

(* Mutant: an update adds a message that is not shown.                      *)
Publish_Upsert(r) ==
    LET m == about[r] IN
    /\ stage[r] = "loaded"
    /\ shown' = [shown EXCEPT ![m] = IF op[r] = "delete" THEN NoRow ELSE Event(r)]
    /\ Goto(r, "done")
    /\ UNCHANGED <<table, params, session, history>>

(* publish_channel_event, and what clients do: a new message is added, an   *)
(* update replaces a message that is shown, and a reaction to one that is   *)
(* not makes the client fetch the channel again.                            *)
Publish(r) ==
    LET m == about[r] IN
    /\ stage[r] = "loaded"
    /\ shown' =
         IF op[r] = "delete" THEN [shown EXCEPT ![m] = NoRow]
         ELSE IF op[r] = "send" \/ shown[m] # NoRow THEN [shown EXCEPT ![m] = Event(r)]
         ELSE IF op[r] \in {"react", "unreact"} THEN [x \in Message |-> Current(x)]
         ELSE shown
    /\ Goto(r, "done")
    /\ UNCHANGED <<table, params, session, history>>

(* A statement raises - the database or Redis fails, the row to update or   *)
(* to refer to has gone, or the row to insert is there already.             *)
Fail(r) ==
    /\ InFlight(r)
    /\ Goto(r, "failed")
    /\ disturbed' = IF op[r] \in Private THEN disturbed ELSE disturbed \cup {about[r]}
    /\ UNCHANGED <<table, shown, params, session, late>>

Next ==
    \E r \in Request :
        \/ ReadToEdit(r) \/ ReadToPin(r) \/ ReadToDelete(r) \/ ReadToReact(r) \/ ReadToMark(r)
        \/ CheckSend(r) \/ Send(r) \/ Update(r) \/ Delete(r)
        \/ FindReaction(r) \/ React(r) \/ Unreact(r)
        \/ FindBookmark(r) \/ Bookmark(r) \/ MarkRead(r)
        \/ Reload(r) \/ Publish(r) \/ Fail(r)

Spec == Init /\ [][Next]_vars

-----------------------------------------------------------------------------
TypeOK ==
    /\ row \in [Message -> Row \cup {NoRow}]
    /\ unsent \subseteq Message
    /\ reply_to \in [Message -> Message \cup {NoMessage}]
    /\ reactions \in [Message -> SUBSET User]
    /\ bookmarks \subseteq Message \X User
    /\ last_read \in [User -> Message \cup {NoMessage}]
    /\ shown \in [Message -> Item \cup {NoRow}]
    /\ stage \in [Request -> Stage]
    /\ op \in [Request -> Op \cup {"none"}]
    /\ by \in [Request -> User \cup {NoUser}]
    /\ about \in [Request -> Message \cup {NoMessage}]
    /\ copy \in [Request -> Row \cup {NoRow}]
    /\ target \in [Request -> Message \cup {NoMessage}]
    /\ reacted \in [Request -> SUBSET User]
    /\ disturbed \subseteq Message
    /\ late \subseteq Message

(* Requests that come one after the other and succeed leave no trace of the *)
(* copies they worked on: clients show the message as it is.                *)
Quiet(m) == \A r \in Request : about[r] = m => ~AtWork(r)

UndisturbedMessagesAgree ==
    \A m \in Message \ disturbed :
        Quiet(m) => shown[m] = Current(m)

(* A version tells two states of a message apart, as the bridge between the *)
(* nodes takes it to, unless requests about it overlapped or failed.        *)
VersionsGrow ==
    [][\A m \in Message \ disturbed :
          Stored(m) /\ row'[m] \notin {row[m], NoRow}
            => row'[m].version = row[m].version + 1]_vars

(* However edits, pins, reactions and deletes overlap, a deleted message is *)
(* in the end shown to nobody, unless it was announced after its deletion.  *)
DeletionsReachClients ==
    \A m \in Message \ late :
        /\ m \notin unsent /\ ~Stored(m)
        /\ \A r \in Request : about[r] = m => stage[r] = "done"
        => shown[m] = NoRow

(* Nothing refers to a message that is not there.                           *)
NoOrphans ==
    /\ \A m \in Message :
          /\ reply_to[m] # NoMessage => Stored(m) /\ Stored(reply_to[m])
          /\ ~Stored(m) => reactions[m] = {}
    /\ \A b \in bookmarks : Stored(b[1])
    /\ \A u \in User : last_read[u] # NoMessage => Stored(last_read[u])

=============================================================================
