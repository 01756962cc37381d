--------------------------- MODULE LiveConnections ---------------------------
(* One node's websocket connections: websocket_endpoint and                 *)
(* _handle_disconnect (app/websocket/handlers.py) over the ConnectionManager *)
(* (app/websocket/manager.py) and the presence kept in Redis                *)
(* (app/services/presence.py).                                              *)
(*                                                                          *)
(* One asyncio task, the handler, serves each socket.  It runs without      *)
(* interruption between two awaits, so an action here is what a handler does*)
(* from one await to the next, and handlers of the same user interleave at  *)
(* their awaits.  Every table of the manager is keyed by user, not by       *)
(* socket.                                                                  *)
(*                                                                          *)
(* Left out: the checks that refuse a socket before connect (token, user,   *)
(* legal terms), typing indicators, the voice events sent to the other node *)
(* (module VoiceMirror), the text of replies, and call signals, which       *)
(* change no state of the node that relays them.  Whether a user may access *)
(* a channel is a free choice of each check.                                *)
EXTENDS Naturals, Voice

CONSTANTS
  Socket,      \* one per websocket a client ever opens
  Owner,       \* the user each socket authenticates as
  NoSocket,
  Broadcast,   \* broadcasts that may be under way at once
  MaxFaults    \* how many awaits of Redis or of the database raise

ASSUME OwnerAssumption == Owner \in [Socket -> User]
ASSUME NoneAssumption == NoSocket \notin Socket
ASSUME FaultAssumption == MaxFaults \in Nat

VARIABLES
  active_connections,   \* the socket events for a user are sent to
  channel_subscribers,
  voice_participants,   \* a channel without participants has no entry: {}
  user_voice_channel,
  presence,             \* the key presence:<user> in Redis; absent: "offline"
  wire,      \* "open", "dropped" by the client or the network, "closed" here
  handler,   \* where each socket's handler is: a PC
  stale,     \* the users whose send failed in each broadcast under way
  faults

registry == <<active_connections, channel_subscribers>>
voice == <<voice_participants, user_voice_channel>>
vars == <<registry, voice, presence, wire, handler, stale, faults>>

-----------------------------------------------------------------------------
(* "new": about to connect.  "accepting": awaits accept().  "greeting": is  *)
(* registered and awaits the first presence write.  "serving": awaits a     *)
(* message.  "checking": awaits the database or Redis for one.  "leaving":  *)
(* an await raised inside the try.  "cleanup": has left the tables and      *)
(* awaits the last presence write.  "crashed": an await raised where no     *)
(* handler catches it.                                                      *)
PC == {"new", "accepting", "greeting", "serving", "checking", "leaving",
       "cleanup", "done", "crashed"}

Goto(s, pc) == handler' = [handler EXCEPT ![s] = pc]
SocketsOf(u) == {s \in Socket : Owner[s] = u}

Init ==
  /\ active_connections = [u \in User |-> NoSocket]
  /\ channel_subscribers = [c \in Channel |-> {}]
  /\ voice_participants = [c \in Channel |-> {}]
  /\ user_voice_channel = [u \in User |-> NoChannel]
  /\ presence = [u \in User |-> "offline"]
  /\ wire = [s \in Socket |-> "open"]
  /\ handler = [s \in Socket |-> "new"]
  /\ stale = [b \in Broadcast |-> {}]
  /\ faults = 0

Fault == faults < MaxFaults /\ faults' = faults + 1

-----------------------------------------------------------------------------
(* The client or the network goes away; nothing here has noticed yet.       *)
Drop(s) ==
  /\ wire[s] = "open"
  /\ wire' = [wire EXCEPT ![s] = "dropped"]
  /\ UNCHANGED <<registry, voice, presence, handler, stale, faults>>

(* connect() up to its first await: the user's registered socket is closed  *)
(* with code 4000.  Closing one that is no longer open raises, or does      *)
(* nothing when the server has not seen yet that it is gone.                *)
Connect(s) ==
  LET previous == active_connections[Owner[s]] IN
  /\ handler[s] = "new"
  /\ \/ /\ previous = NoSocket
        /\ Goto(s, "accepting")
        /\ UNCHANGED wire
     \/ /\ previous # NoSocket
        /\ wire[previous] # "closed"
        /\ wire' = [wire EXCEPT ![previous] = "closed"]
        /\ Goto(s, "accepting")
     \/ /\ previous # NoSocket
        /\ wire[previous] # "open"
        /\ wire' = [wire EXCEPT ![s] = "closed"]
        /\ Goto(s, "crashed")
  /\ UNCHANGED <<registry, voice, presence, stale, faults>>

(* Mutant: the socket is registered although accept() has not returned.     *)
Accept_RegisterFirst(s) ==
  /\ handler[s] = "accepting"
  /\ active_connections' = [active_connections EXCEPT ![Owner[s]] = s]
  /\ IF wire[s] = "open" THEN Goto(s, "greeting") ELSE Goto(s, "done")
  /\ UNCHANGED <<channel_subscribers, voice, presence, wire, stale, faults>>

(* accept() returns, or raises because the client has gone.                 *)
Accept(s) ==
  /\ handler[s] = "accepting"
  /\ IF wire[s] = "open"
     THEN /\ active_connections' = [active_connections EXCEPT ![Owner[s]] = s]
          /\ Goto(s, "greeting")
     ELSE /\ Goto(s, "done")
          /\ UNCHANGED active_connections
  /\ UNCHANGED <<channel_subscribers, voice, presence, wire, stale, faults>>

(* Redis takes the presence write and the user's arrival is broadcast.      *)
Greet(s) ==
  /\ handler[s] = "greeting"
  /\ presence' = [presence EXCEPT ![Owner[s]] = "online"]
  /\ Goto(s, "serving")
  /\ UNCHANGED <<registry, voice, wire, stale, faults>>

(* The write or the broadcast raises, outside the try: the socket is closed *)
(* and nothing is taken back.                                               *)
GreetFails(s) ==
  /\ handler[s] = "greeting"
  /\ Fault
  /\ presence' \in {presence, [presence EXCEPT ![Owner[s]] = "online"]}
  /\ wire' = [wire EXCEPT ![s] = "closed"]
  /\ Goto(s, "crashed")
  /\ UNCHANGED <<registry, voice, stale>>

-----------------------------------------------------------------------------
(* send_personal_message writes to the socket that is registered for the    *)
(* user, whichever that is, and raises when it cannot: in the handler that  *)
(* replies, not in the one that serves the broken socket.                   *)
ReplyMayFail(u) ==
  /\ active_connections[u] # NoSocket
  /\ wire[active_connections[u]] # "open"

Replied(s) ==
  \/ Goto(s, "serving")
  \/ ReplyMayFail(Owner[s]) /\ Goto(s, "leaving")

(* A message arrives that takes a check first.  A client that has gone may  *)
(* have left one behind.  What it asks for shows when the check is over.    *)
Receive(s) ==
  /\ handler[s] = "serving"
  /\ Goto(s, "checking")
  /\ UNCHANGED <<registry, voice, presence, wire, stale, faults>>

(* The check refuses; the client is told.                                   *)
Refuse(s) ==
  /\ handler[s] = "checking"
  /\ Replied(s)
  /\ UNCHANGED <<registry, voice, presence, wire, stale, faults>>

(* manager.subscribe for the channels the user may access.                  *)
Subscribe(s) ==
  /\ handler[s] = "checking"
  /\ \E allowed \in SUBSET Channel :
       channel_subscribers' =
         [c \in Channel |->
            channel_subscribers[c] \cup (IF c \in allowed THEN {Owner[s]} ELSE {})]
  /\ Replied(s)
  /\ UNCHANGED <<active_connections, voice, presence, wire, stale, faults>>

(* manager.unsubscribe                                                      *)
Unsubscribe(s) ==
  /\ handler[s] = "serving"
  /\ \E dropped \in SUBSET Channel :
       channel_subscribers' =
         [c \in Channel |->
            channel_subscribers[c] \ (IF c \in dropped THEN {Owner[s]} ELSE {})]
  /\ Replied(s)
  /\ UNCHANGED <<active_connections, voice, presence, wire, stale, faults>>

(* Mutant: the user stays listed in the channel left behind.                *)
EnterVoice_KeepPrevious(u, channel) ==
  /\ voice_participants' =
       [c \in Channel |->
          voice_participants[c] \cup (IF c = channel THEN {u} ELSE {})]
  /\ user_voice_channel' = [user_voice_channel EXCEPT ![u] = channel]

(* manager.join_voice: the previous channel loses the user first.           *)
EnterVoice(u, channel) ==
  LET previous == user_voice_channel[u] IN
  /\ voice_participants' =
       [c \in Channel |->
          IF c = channel THEN voice_participants[c] \cup {u}
          ELSE IF c = previous THEN voice_participants[c] \ {u}
          ELSE voice_participants[c]]
  /\ user_voice_channel' = [user_voice_channel EXCEPT ![u] = channel]

JoinVoice(s) ==
  /\ handler[s] = "checking"
  /\ \E channel \in Channel : EnterVoice(Owner[s], channel)
  /\ Goto(s, "serving")
  /\ UNCHANGED <<registry, presence, wire, stale, faults>>

(* manager.leave_voice: without a channel, the user's own; with one the user*)
(* is not in while in another, nothing.                                     *)
QuitVoice(u, channel) ==
  LET current == user_voice_channel[u]
      target == IF channel = NoChannel THEN current ELSE channel IN
  IF target = NoChannel \/ current \notin {NoChannel, target}
  THEN UNCHANGED voice
  ELSE /\ voice_participants' =
            [voice_participants EXCEPT ![target] = @ \ {u}]
       /\ user_voice_channel' = [user_voice_channel EXCEPT ![u] = NoChannel]

LeaveVoice(s) ==
  /\ handler[s] = "serving"
  /\ \E channel \in Channel \cup {NoChannel} : QuitVoice(Owner[s], channel)
  /\ UNCHANGED <<registry, presence, wire, handler, stale, faults>>

SetPresence(s) ==
  /\ handler[s] = "checking"
  /\ presence' = [presence EXCEPT ![Owner[s]] = "idle"]
  /\ Replied(s)
  /\ UNCHANGED <<registry, voice, wire, stale, faults>>

(* Something raises inside the try, before or after a message took effect: *)
(* text that is not JSON, the database, Redis.                              *)
HandlerFails(s) ==
  /\ handler[s] \in {"serving", "checking"}
  /\ Fault
  /\ Goto(s, "leaving")
  /\ UNCHANGED <<registry, voice, presence, wire, stale>>

-----------------------------------------------------------------------------
(* Mutant: the subscriptions of the user outlive the socket.                *)
Disconnect_KeepSubscriptions(s) ==
  /\ \/ handler[s] = "leaving"
     \/ handler[s] = "serving" /\ wire[s] # "open"
  /\ active_connections' = [active_connections EXCEPT ![Owner[s]] = NoSocket]
  /\ QuitVoice(Owner[s], NoChannel)
  /\ Goto(s, "cleanup")
  /\ UNCHANGED <<channel_subscribers, presence, wire, stale, faults>>

(* The socket is found closed, or an exception ends the loop:               *)
(* manager.disconnect(user_id) up to its await of Redis.  It takes the user *)
(* out of every table, whichever socket the tables speak of.                *)
Disconnect(s) ==
  /\ \/ handler[s] = "leaving"
     \/ handler[s] = "serving" /\ wire[s] # "open"
  /\ active_connections' = [active_connections EXCEPT ![Owner[s]] = NoSocket]
  /\ channel_subscribers' = [c \in Channel |-> channel_subscribers[c] \ {Owner[s]}]
  /\ QuitVoice(Owner[s], NoChannel)
  /\ Goto(s, "cleanup")
  /\ UNCHANGED <<presence, wire, stale, faults>>

(* Mutant: the offline write is left to the key's expiry.                   *)
Farewell_KeepPresence(s) ==
  /\ handler[s] = "cleanup"
  /\ wire' = [wire EXCEPT ![s] = "closed"]
  /\ Goto(s, "done")
  /\ UNCHANGED <<registry, voice, presence, stale, faults>>

(* Redis takes the offline write; after an exception the socket is closed.  *)
Farewell(s) ==
  /\ handler[s] = "cleanup"
  /\ presence' = [presence EXCEPT ![Owner[s]] = "offline"]
  /\ wire' = [wire EXCEPT ![s] = "closed"]
  /\ Goto(s, "done")
  /\ UNCHANGED <<registry, voice, stale, faults>>

(* It raises: the rest of _handle_disconnect is skipped.                    *)
FarewellFails(s) ==
  /\ handler[s] = "cleanup"
  /\ Fault
  /\ presence' \in {presence, [presence EXCEPT ![Owner[s]] = "offline"]}
  /\ wire' = [wire EXCEPT ![s] = "closed"]
  /\ Goto(s, "crashed")
  /\ UNCHANGED <<registry, voice, stale>>

-----------------------------------------------------------------------------
(* broadcast_to_users: a send that fails marks the user, and once all sends *)
(* are done the user's entry is removed, whichever socket it holds by then. *)
SendFails(b, u) ==
  /\ ReplyMayFail(u)
  /\ u \notin stale[b]
  /\ stale' = [stale EXCEPT ![b] = @ \cup {u}]
  /\ UNCHANGED <<registry, voice, presence, wire, handler, faults>>

PopStale(b, u) ==
  /\ u \in stale[b]
  /\ stale' = [stale EXCEPT ![b] = @ \ {u}]
  /\ active_connections' = [active_connections EXCEPT ![u] = NoSocket]
  /\ UNCHANGED <<channel_subscribers, voice, presence, wire, handler, faults>>

(* Redis drops the key 300 s after it was last written; pings do not write. *)
ExpirePresence(u) ==
  /\ presence[u] # "offline"
  /\ presence' = [presence EXCEPT ![u] = "offline"]
  /\ UNCHANGED <<registry, voice, wire, handler, stale, faults>>

Finish(s) == Refuse(s) \/ Subscribe(s) \/ JoinVoice(s) \/ SetPresence(s)

HandlerStep(s) ==
  \/ Connect(s) \/ Accept(s) \/ Greet(s)
  \/ Receive(s) \/ Finish(s) \/ Unsubscribe(s) \/ LeaveVoice(s)
  \/ Disconnect(s) \/ Farewell(s)

Next ==
  \/ \E s \in Socket :
       \/ HandlerStep(s)
       \/ Drop(s) \/ GreetFails(s) \/ HandlerFails(s) \/ FarewellFails(s)
  \/ \E b \in Broadcast, u \in User : SendFails(b, u) \/ PopStale(b, u)
  \/ \E u \in User : ExpirePresence(u)

Spec == Init /\ [][Next]_vars

(* The event loop runs every handler whose await has returned.  A socket    *)
(* that is gone is noticed: the server's own websocket pings fail, and only *)
(* so many messages can be left to read on it.                              *)
Fairness ==
  \A s \in Socket :
    /\ WF_vars(Connect(s)) /\ WF_vars(Accept(s)) /\ WF_vars(Greet(s))
    /\ WF_vars(Finish(s))
    /\ SF_vars(Disconnect(s)) /\ WF_vars(Farewell(s))

FairSpec == Spec /\ Fairness

-----------------------------------------------------------------------------
TypeOK ==
  /\ active_connections \in [User -> Socket \cup {NoSocket}]
  /\ channel_subscribers \in [Channel -> SUBSET User]
  /\ voice_participants \in [Channel -> SUBSET User]
  /\ user_voice_channel \in [User -> Channel \cup {NoChannel}]
  /\ presence \in [User -> {"offline", "online", "idle"}]
  /\ wire \in [Socket -> {"open", "dropped", "closed"}]
  /\ handler \in [Socket -> PC]
  /\ stale \in [Broadcast -> SUBSET User]
  /\ faults \in 0..MaxFaults

(* The two voice tables of the manager tell the same story: a channel lists *)
(* exactly the users whose voice channel it is, so nobody is in two.        *)
VoiceTablesAgree ==
  \A c \in Channel :
    voice_participants[c] = {u \in User : user_voice_channel[u] = c}

(* A handler that is still to run manager.disconnect for the user.          *)
Serving(u) ==
  \E s \in SocketsOf(u) : handler[s] \in {"serving", "checking", "leaving"}

(* Nobody is left behind: whoever is subscribed to a channel or listed in a *)
(* voice channel has a handler that will take them out again, however the   *)
(* handlers of one user overlap and whatever raises on the way.             *)
NoGhosts ==
  \A u \in User :
    \/ Serving(u)
    \/ /\ user_voice_channel[u] = NoChannel
       /\ \A c \in Channel : u \notin channel_subscribers[c] \cup voice_participants[c]

(* The registry names a socket of that user whose handler still runs, except*)
(* for one whose first presence write raised: that entry stays.             *)
RegistryHoldsLiveHandlers ==
  \A u \in User :
    active_connections[u] # NoSocket =>
      /\ active_connections[u] \in SocketsOf(u)
      /\ handler[active_connections[u]] \in
           {"greeting", "serving", "checking", "leaving", "crashed"}

(* A user seen as present has a handler that will write "offline", or one   *)
(* that an exception ended before it could: then the key lives out its time.*)
OnlineMeansHandled ==
  \A u \in User :
    presence[u] # "offline" =>
      \E s \in SocketsOf(u) :
        handler[s] \in {"serving", "checking", "leaving", "cleanup", "crashed"}

(* A user all of whose sockets are gone for good is in the end found nowhere:*)
(* not in the registry, a subscription or a voice channel, and offline -    *)
(* unless an exception ended a handler before its cleanup was through.      *)
Gone(u) == \A s \in SocketsOf(u) : wire[s] # "open"
Forgotten(u) ==
  /\ active_connections[u] = NoSocket
  /\ user_voice_channel[u] = NoChannel
  /\ presence[u] = "offline"
  /\ \A c \in Channel : u \notin channel_subscribers[c] \cup voice_participants[c]
Crashed(u) == \E s \in SocketsOf(u) : handler[s] = "crashed"
LeaversAreForgotten == \A u \in User : Gone(u) ~> (Forgotten(u) \/ Crashed(u))

=============================================================================
