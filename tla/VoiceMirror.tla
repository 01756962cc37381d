----------------------------- MODULE VoiceMirror -----------------------------
(* Who is in which voice channel, across the two nodes.  Each node keeps the*)
(* users who joined on it and a mirror of those who joined on the other     *)
(* (ConnectionManager, app/websocket/manager.py); the mirror follows from   *)
(* voice.join and voice.leave events (app/services/voice_realtime.py) that  *)
(* app/services/live_bridge.py posts once, each in a task of its own: they  *)
(* may be lost, and may arrive in another order than they were queued in.   *)
(*                                                                          *)
(* A session is a client's websocket; its handler works on one message at a *)
(* time and awaits the database between changing the table and queuing each *)
(* event.  That disconnecting ends the session is in LiveConnections; here  *)
(* it is a leave, and the client's next connection goes on as the same      *)
(* session.  Left out: user profiles and who is told of a change.           *)
EXTENDS Naturals, Sequences, Voice

CONSTANTS
  Node, Peer,            \* two nodes, each the other's peer
  Session, UserOf, Home, \* a session's user, and the node it is connected to
  MaxFlight,             \* bound: a node's events not yet arrived or lost
  MaxLosses,             \* bound: events lost and handlers that raise
  MaxRestarts            \* bound: restarts of a node

ASSUME NodeAssumption == Peer \in [Node -> Node] /\ \A n \in Node : Peer[Peer[n]] = n
ASSUME SessionAssumption == UserOf \in [Session -> User] /\ Home \in [Session -> Node]
ASSUME BoundAssumption == MaxFlight \in Nat /\ MaxLosses \in Nat /\ MaxRestarts \in Nat

VARIABLES
  local_voice_channel,         \* per node, user_voice_channel: who joined there
  remote_user_voice_channel,   \* per node: the mirror, by user
  remote_voice_participants,   \* per node: the mirror, by channel
  todo,       \* per session: events its handler will queue, in this order
  flight,     \* per node: its events under way, in the order of queuing
  losses, restarts,
  disturbed   \* history: <<node, user>> whose events were lost, overtaken
              \* by a later one, cut off by a restart, or queued by two
              \* sessions at once

mirror == <<remote_user_voice_channel, remote_voice_participants>>
bounds == <<losses, restarts>>
mirrorVars == <<local_voice_channel, mirror, todo, flight, bounds, disturbed>>

Event ==
  [kind : {"join", "leave"}, user : User, channel : Channel]

JoinEvent(s, c)  == [kind |-> "join", user |-> UserOf[s], channel |-> c]
LeaveEvent(s, c) == [kind |-> "leave", user |-> UserOf[s], channel |-> c]

VoiceChannel(s) == local_voice_channel[Home[s]][UserOf[s]]

MirrorInit ==
  /\ local_voice_channel = [n \in Node |-> [u \in User |-> NoChannel]]
  /\ remote_user_voice_channel = [n \in Node |-> [u \in User |-> NoChannel]]
  /\ remote_voice_participants = [n \in Node |-> [c \in Channel |-> {}]]
  /\ todo = [s \in Session |-> <<>>]
  /\ flight = [n \in Node |-> <<>>]
  /\ losses = 0
  /\ restarts = 0
  /\ disturbed = {}

SetVoiceChannel(s, c) ==
  local_voice_channel' = [local_voice_channel EXCEPT ![Home[s]][UserOf[s]] = c]

(* A second session of the user acts while the first has events to queue:   *)
(* the order of the events need not be the order of the table's changes.    *)
Interleaved(s) ==
  IF \E t \in Session \ {s} :
       Home[t] = Home[s] /\ UserOf[t] = UserOf[s] /\ todo[t] # <<>>
  THEN {<<Home[s], UserOf[s]>>} ELSE {}

-----------------------------------------------------------------------------
(* join_voice: the table changes at once, the join is queued after an await,*)
(* and the leave of the channel left behind after another.                  *)
Join(s, c) ==
  LET previous == VoiceChannel(s) IN
  /\ todo[s] = <<>>
  /\ SetVoiceChannel(s, c)
  /\ todo' = [todo EXCEPT ![s] =
                <<JoinEvent(s, c)>> \o
                (IF previous \in {NoChannel, c} THEN <<>>
                 ELSE <<LeaveEvent(s, previous)>>)]
  /\ disturbed' = disturbed \cup Interleaved(s)
  /\ UNCHANGED <<mirror, flight, bounds>>

(* leave_voice with or without a channel, and manager.disconnect.  Naming a *)
(* channel while in none tells the other node all the same.                 *)
Leave(s, channel) ==
  LET target == IF channel = NoChannel THEN VoiceChannel(s) ELSE channel IN
  /\ todo[s] = <<>>
  /\ target # NoChannel
  /\ VoiceChannel(s) \in {NoChannel, target}
  /\ SetVoiceChannel(s, NoChannel)
  /\ todo' = [todo EXCEPT ![s] = <<LeaveEvent(s, target)>>]
  /\ disturbed' = disturbed \cup Interleaved(s)
  /\ UNCHANGED <<mirror, flight, bounds>>

(* Mutant: asking for the status no longer repeats the join.                *)
Status_Silent(s) == FALSE

(* voice.status, which a client in a voice channel sends every 4 seconds:   *)
(* the join is told again.                                                  *)
Status(s) ==
  /\ todo[s] = <<>>
  /\ VoiceChannel(s) # NoChannel
  /\ todo' = [todo EXCEPT ![s] = <<JoinEvent(s, VoiceChannel(s))>>]
  /\ disturbed' = disturbed \cup Interleaved(s)
  /\ UNCHANGED <<local_voice_channel, mirror, flight, bounds>>

(* queue_realtime_event: a task is created that posts the event.            *)
Queue(s) ==
  /\ todo[s] # <<>>
  /\ Len(flight[Home[s]]) < MaxFlight
  /\ flight' = [flight EXCEPT ![Home[s]] = Append(@, Head(todo[s]))]
  /\ todo' = [todo EXCEPT ![s] = Tail(@)]
  /\ UNCHANGED <<local_voice_channel, mirror, bounds, disturbed>>

(* An await raises before everything is queued: the handler disconnects the *)
(* user, and tells of it unless that raises too.                            *)
Raise(s) ==
  /\ todo[s] # <<>>
  /\ losses < MaxLosses
  /\ losses' = losses + 1
  /\ disturbed' = disturbed \cup {<<Home[s], UserOf[s]>>}
  /\ SetVoiceChannel(s, NoChannel)
  /\ todo' \in
       { [todo EXCEPT ![s] = <<>>],
         [todo EXCEPT ![s] = IF VoiceChannel(s) = NoChannel THEN <<>>
                             ELSE <<LeaveEvent(s, VoiceChannel(s))>>] }
  /\ UNCHANGED <<mirror, flight, restarts>>

-----------------------------------------------------------------------------
(* manager.join_remote_voice                                                *)
EnterRemote(n, u, channel) ==
  LET previous == remote_user_voice_channel[n][u] IN
  /\ remote_voice_participants' =
       [remote_voice_participants EXCEPT ![n] =
          [c \in Channel |->
             IF c = channel THEN @[c] \cup {u}
             ELSE IF c = previous THEN @[c] \ {u}
             ELSE @[c]]]
  /\ remote_user_voice_channel' =
       [remote_user_voice_channel EXCEPT ![n][u] = channel]

(* Mutant: a leave takes the user out of whatever channel they are in.      *)
QuitRemote_AnyChannel(n, u, channel) ==
  LET current == remote_user_voice_channel[n][u]
      target == IF current = NoChannel THEN channel ELSE current IN
  /\ remote_voice_participants' =
       [remote_voice_participants EXCEPT ![n][target] = @ \ {u}]
  /\ remote_user_voice_channel' =
       [remote_user_voice_channel EXCEPT ![n][u] = NoChannel]

(* manager.leave_remote_voice: nothing, when the user is mirrored in another*)
(* channel.                                                                 *)
QuitRemote(n, u, channel) ==
  IF remote_user_voice_channel[n][u] \notin {NoChannel, channel}
  THEN UNCHANGED mirror
  ELSE /\ remote_voice_participants' =
            [remote_voice_participants EXCEPT ![n][channel] = @ \ {u}]
       /\ remote_user_voice_channel' =
            [remote_user_voice_channel EXCEPT ![n][u] = NoChannel]

Without(q, i) == SubSeq(q, 1, i - 1) \o SubSeq(q, i + 1, Len(q))

(* apply_realtime_event at the other node, for whichever event comes first. *)
Deliver(n, i) ==
  LET e == flight[n][i] IN
  /\ IF e.kind = "join"
     THEN EnterRemote(Peer[n], e.user, e.channel)
     ELSE QuitRemote(Peer[n], e.user, e.channel)
  /\ flight' = [flight EXCEPT ![n] = Without(@, i)]
  /\ disturbed' =
       disturbed \cup
         (IF \E j \in 1..(i - 1) : flight[n][j].user = e.user
          THEN {<<n, e.user>>} ELSE {})
  /\ UNCHANGED <<local_voice_channel, todo, bounds>>

(* The post fails or takes longer than 3 s: logged and forgotten.           *)
Lose(n, i) ==
  /\ losses < MaxLosses
  /\ losses' = losses + 1
  /\ flight' = [flight EXCEPT ![n] = Without(@, i)]
  /\ disturbed' = disturbed \cup {<<n, flight[n][i].user>>}
  /\ UNCHANGED <<local_voice_channel, mirror, todo, restarts>>

(* A node restarts: its tables, its handlers and its unsent events are gone.*)
Restart(n) ==
  /\ restarts < MaxRestarts
  /\ restarts' = restarts + 1
  /\ local_voice_channel' =
       [local_voice_channel EXCEPT ![n] = [u \in User |-> NoChannel]]
  /\ remote_user_voice_channel' =
       [remote_user_voice_channel EXCEPT ![n] = [u \in User |-> NoChannel]]
  /\ remote_voice_participants' =
       [remote_voice_participants EXCEPT ![n] = [c \in Channel |-> {}]]
  /\ todo' = [s \in Session |-> IF Home[s] = n THEN <<>> ELSE todo[s]]
  /\ flight' = [flight EXCEPT ![n] = <<>>]
  /\ disturbed' = Node \X User
  /\ UNCHANGED losses

MirrorNext ==
  \/ \E s \in Session :
       \/ \E c \in Channel : Join(s, c)
       \/ \E c \in Channel \cup {NoChannel} : Leave(s, c)
       \/ Status(s) \/ Queue(s) \/ Raise(s)
  \/ \E n \in Node :
       \/ \E i \in 1..Len(flight[n]) : Deliver(n, i) \/ Lose(n, i)
       \/ Restart(n)

MirrorSpec == MirrorInit /\ [][MirrorNext]_mirrorVars

(* Handlers go on; a post that is not lost arrives within its 3 s, so the   *)
(* oldest does not wait for ever; and a client in a voice channel polls.    *)
(* Queue is strongly fair only because MaxFlight may disable it.            *)
MirrorFairness ==
  /\ \A s \in Session : SF_mirrorVars(Queue(s)) /\ WF_mirrorVars(Status(s))
  /\ \A n \in Node : WF_mirrorVars(flight[n] # <<>> /\ Deliver(n, 1))

FairMirrorSpec == MirrorSpec /\ MirrorFairness

-----------------------------------------------------------------------------
MirrorTypeOK ==
  /\ local_voice_channel \in [Node -> [User -> Channel \cup {NoChannel}]]
  /\ remote_user_voice_channel \in [Node -> [User -> Channel \cup {NoChannel}]]
  /\ remote_voice_participants \in [Node -> [Channel -> SUBSET User]]
  /\ todo \in [Session -> Seq(Event)]
  /\ flight \in [Node -> Seq(Event)]
  /\ losses \in 0..MaxLosses
  /\ restarts \in 0..MaxRestarts
  /\ disturbed \subseteq Node \X User

(* The two tables of the mirror tell the same story, in whatever order the  *)
(* events come in: a user is mirrored in one channel at most.               *)
MirrorTablesAgree ==
  \A n \in Node, c \in Channel :
    remote_voice_participants[n][c] =
      {u \in User : remote_user_voice_channel[n][u] = c}

Pending(n, u) ==
  \/ \E i \in 1..Len(flight[n]) : flight[n][i].user = u
  \/ \E s \in Session : Home[s] = n /\ UserOf[s] = u /\ todo[s] # <<>>

(* Loss, overtaking, restarts and handlers of one user that overlap are all *)
(* that can make the mirror wrong: where none happened, once the events of  *)
(* a user have arrived the other node shows them where they are, also when  *)
(* they moved between channels or left one they were not in.                *)
UndisturbedMirrorIsExact ==
  \A n \in Node, u \in User :
    <<n, u>> \notin disturbed /\ ~Pending(n, u) =>
      remote_user_voice_channel[Peer[n]][u] = local_voice_channel[n][u]

(* Whatever was lost, overtaken or restarted before, a user who stays in a  *)
(* channel is in the end shown there on the other node for good.            *)
MirrorCatchesUp ==
  \A n \in Node, u \in User, c \in Channel :
    <>[](local_voice_channel[n][u] = c)
      => <>[](remote_user_voice_channel[Peer[n]][u] = c)

=============================================================================
