----------------------- MODULE ConnectionManagerProofs -----------------------
(* The two models of ConnectionManager (app/websocket/manager.py), proved   *)
(* together for any number of users, sockets, channels and sessions: the    *)
(* tables of one node (LiveConnections), and the mirror of the other node's *)
(* voice channels (VoiceMirror).                                            *)
EXTENDS LiveConnections, VoiceMirror, SequenceTheorems, TLAPS

-----------------------------------------------------------------------------
(* The tables of one node                                                   *)

(* The conjuncts are proved together: that nobody is left behind in a voice *)
(* channel rests on the two voice tables agreeing, since disconnect looks   *)
(* only into the channel the user's own entry names.                        *)
IInv ==
  /\ TypeOK
  /\ VoiceTablesAgree
  /\ NoGhosts
  /\ RegistryHoldsLiveHandlers
  /\ OnlineMeansHandled

(* Every action changes one handler at most, to a state of PC.              *)
LEMMA GotoType ==
  ASSUME TypeOK, NEW s \in Socket, NEW pc \in PC, Goto(s, pc)
  PROVE  /\ handler' \in [Socket -> PC]
         /\ handler'[s] = pc
         /\ \A t \in Socket \ {s} : handler'[t] = handler[t]
  BY DEF Goto, TypeOK

LEMMA RepliedType ==
  ASSUME TypeOK, NEW s \in Socket, Replied(s)
  PROVE  /\ handler' \in [Socket -> PC]
         /\ handler'[s] \in {"serving", "leaving"}
         /\ \A t \in Socket \ {s} : handler'[t] = handler[t]
  BY DEF Replied, Goto, TypeOK, PC

(* Leaving voice: the user's entry is gone and no channel lists them, or    *)
(* nothing changed because the channel asked for is not theirs.             *)
LEMMA QuitVoiceEffect ==
  ASSUME TypeOK, VoiceTablesAgree,
         NEW u \in User, NEW channel \in Channel \cup {NoChannel},
         QuitVoice(u, channel)
  PROVE  /\ voice_participants' \in [Channel -> SUBSET User]
         /\ user_voice_channel' \in [User -> Channel \cup {NoChannel}]
         /\ VoiceTablesAgree'
         /\ \A v \in User \ {u} : user_voice_channel'[v] = user_voice_channel[v]
         /\ user_voice_channel'[u] \in {NoChannel, user_voice_channel[u]}
         /\ channel = NoChannel => user_voice_channel'[u] = NoChannel
  <1> DEFINE current == user_voice_channel[u]
             target == IF channel = NoChannel THEN current ELSE channel
  <1>1. CASE target = NoChannel \/ current \notin {NoChannel, target}
    <2>1. UNCHANGED voice
      BY <1>1 DEF QuitVoice
    <2>2. channel = NoChannel => current = NoChannel
      BY <1>1
    <2> QED
      BY <2>1, <2>2 DEF TypeOK, VoiceTablesAgree, voice
  <1>2. CASE ~(target = NoChannel \/ current \notin {NoChannel, target})
    <2>1. /\ voice_participants' =
                [voice_participants EXCEPT ![target] = @ \ {u}]
          /\ user_voice_channel' = [user_voice_channel EXCEPT ![u] = NoChannel]
      BY <1>2 DEF QuitVoice
    <2>2. target \in Channel
      BY <1>2 DEF TypeOK
    <2>3. \A c \in Channel \ {target} : u \notin voice_participants[c]
      BY <1>2, NoneAssumption, ChannelAssumption DEF VoiceTablesAgree
    <2> QED
      BY <2>1, <2>2, <2>3, NoneAssumption, ChannelAssumption DEF TypeOK, VoiceTablesAgree
  <1> QED
    BY <1>1, <1>2

LEMMA EnterVoiceEffect ==
  ASSUME TypeOK, VoiceTablesAgree,
         NEW u \in User, NEW channel \in Channel,
         EnterVoice(u, channel)
  PROVE  /\ voice_participants' \in [Channel -> SUBSET User]
         /\ user_voice_channel' \in [User -> Channel \cup {NoChannel}]
         /\ VoiceTablesAgree'
         /\ \A v \in User \ {u} : user_voice_channel'[v] = user_voice_channel[v]
  BY NoneAssumption, ChannelAssumption DEF TypeOK, VoiceTablesAgree, EnterVoice

LEMMA InitInv == Init => IInv
  BY OwnerAssumption, NoneAssumption, ChannelAssumption, FaultAssumption
  DEF Init, IInv, TypeOK, PC, VoiceTablesAgree, NoGhosts,
      RegistryHoldsLiveHandlers, OnlineMeansHandled

(* The types and the agreement of the voice tables, which need each other.  *)
LEMMA TypeStep ==
  ASSUME TypeOK, VoiceTablesAgree, [Next]_vars
  PROVE  TypeOK' /\ VoiceTablesAgree'
  <1>1. CASE \E s \in Socket : Connect(s)
    <2>1. PICK s \in Socket : Connect(s)
      BY <1>1
    <2>2. VoiceTablesAgree'
      BY <2>1 DEF Connect, voice, VoiceTablesAgree
    <2> QED
      BY <2>1, <2>2, OwnerAssumption, FaultAssumption DEF Connect, Goto, TypeOK, PC, voice, registry
  <1>2. CASE \E s \in Socket : Accept(s)
    <2>1. PICK s \in Socket : Accept(s)
      BY <1>2
    <2>2. VoiceTablesAgree'
      BY <2>1 DEF Accept, voice, VoiceTablesAgree
    <2> QED
      BY <2>1, <2>2, OwnerAssumption, FaultAssumption DEF Accept, Goto, TypeOK, PC, voice, registry
  <1>3. CASE \E s \in Socket : Greet(s)
    <2>1. PICK s \in Socket : Greet(s)
      BY <1>3
    <2>2. VoiceTablesAgree'
      BY <2>1 DEF Greet, voice, VoiceTablesAgree
    <2> QED
      BY <2>1, <2>2, OwnerAssumption, FaultAssumption DEF Greet, Goto, TypeOK, PC, voice, registry
  <1>4. CASE \E s \in Socket : Receive(s)
    <2>1. PICK s \in Socket : Receive(s)
      BY <1>4
    <2>2. VoiceTablesAgree'
      BY <2>1 DEF Receive, voice, VoiceTablesAgree
    <2> QED
      BY <2>1, <2>2, OwnerAssumption, FaultAssumption DEF Receive, Goto, TypeOK, PC, voice, registry
  <1>5. CASE \E s \in Socket : Refuse(s)
    <2>1. PICK s \in Socket : Refuse(s)
      BY <1>5
    <2>2. handler' \in [Socket -> PC]
      BY <2>1, RepliedType DEF Refuse
    <2>3. VoiceTablesAgree'
      BY <2>1 DEF Refuse, voice, VoiceTablesAgree
    <2> QED
      BY <2>1, <2>2, <2>3, OwnerAssumption DEF Refuse, TypeOK, voice, registry
  <1>6. CASE \E s \in Socket : Subscribe(s)
    <2>1. PICK s \in Socket : Subscribe(s)
      BY <1>6
    <2>2. handler' \in [Socket -> PC]
      BY <2>1, RepliedType DEF Subscribe
    <2>3. VoiceTablesAgree'
      BY <2>1 DEF Subscribe, voice, VoiceTablesAgree
    <2> QED
      BY <2>1, <2>2, <2>3, OwnerAssumption DEF Subscribe, TypeOK, voice, registry
  <1>7. CASE \E s \in Socket : JoinVoice(s)
    <2>1. PICK s \in Socket : JoinVoice(s)
      BY <1>7
    <2>2. PICK channel \in Channel : EnterVoice(Owner[s], channel)
      BY <2>1 DEF JoinVoice
    <2>3. /\ voice_participants' \in [Channel -> SUBSET User]
          /\ user_voice_channel' \in [User -> Channel \cup {NoChannel}]
          /\ VoiceTablesAgree'
      BY <2>2, EnterVoiceEffect, OwnerAssumption
    <2> QED
      BY <2>1, <2>3, OwnerAssumption DEF JoinVoice, Goto, TypeOK, PC, registry
  <1>8. CASE \E s \in Socket : SetPresence(s)
    <2>1. PICK s \in Socket : SetPresence(s)
      BY <1>8
    <2>2. handler' \in [Socket -> PC]
      BY <2>1, RepliedType DEF SetPresence
    <2>3. VoiceTablesAgree'
      BY <2>1 DEF SetPresence, voice, VoiceTablesAgree
    <2> QED
      BY <2>1, <2>2, <2>3, OwnerAssumption DEF SetPresence, TypeOK, voice, registry
  <1>9. CASE \E s \in Socket : Unsubscribe(s)
    <2>1. PICK s \in Socket : Unsubscribe(s)
      BY <1>9
    <2>2. handler' \in [Socket -> PC]
      BY <2>1, RepliedType DEF Unsubscribe
    <2>3. VoiceTablesAgree'
      BY <2>1 DEF Unsubscribe, voice, VoiceTablesAgree
    <2> QED
      BY <2>1, <2>2, <2>3, OwnerAssumption DEF Unsubscribe, TypeOK, voice, registry
  <1>10. CASE \E s \in Socket : LeaveVoice(s)
    <2>1. PICK s \in Socket : LeaveVoice(s)
      BY <1>10
    <2>2. PICK channel \in Channel \cup {NoChannel} : QuitVoice(Owner[s], channel)
      BY <2>1 DEF LeaveVoice
    <2>3. /\ voice_participants' \in [Channel -> SUBSET User]
          /\ user_voice_channel' \in [User -> Channel \cup {NoChannel}]
          /\ VoiceTablesAgree'
      BY <2>2, QuitVoiceEffect, OwnerAssumption
    <2> QED
      BY <2>1, <2>3, OwnerAssumption DEF LeaveVoice, Goto, TypeOK, PC, registry
  <1>11. CASE \E s \in Socket : Disconnect(s)
    <2>1. PICK s \in Socket : Disconnect(s)
      BY <1>11
    <2>2. QuitVoice(Owner[s], NoChannel)
      BY <2>1 DEF Disconnect
    <2>3. /\ voice_participants' \in [Channel -> SUBSET User]
          /\ user_voice_channel' \in [User -> Channel \cup {NoChannel}]
          /\ VoiceTablesAgree'
      BY <2>2, QuitVoiceEffect, OwnerAssumption
    <2> QED
      BY <2>1, <2>3, OwnerAssumption DEF Disconnect, Goto, TypeOK, PC, registry
  <1>12. CASE \E s \in Socket : Farewell(s)
    <2>1. PICK s \in Socket : Farewell(s)
      BY <1>12
    <2>2. VoiceTablesAgree'
      BY <2>1 DEF Farewell, voice, VoiceTablesAgree
    <2> QED
      BY <2>1, <2>2, OwnerAssumption, FaultAssumption DEF Farewell, Goto, TypeOK, PC, voice, registry
  <1>13. CASE \E s \in Socket : Drop(s)
    <2>1. PICK s \in Socket : Drop(s)
      BY <1>13
    <2>2. VoiceTablesAgree'
      BY <2>1 DEF Drop, voice, VoiceTablesAgree
    <2> QED
      BY <2>1, <2>2, OwnerAssumption, FaultAssumption DEF Drop, TypeOK, PC, voice, registry
  <1>14. CASE \E s \in Socket : GreetFails(s)
    <2>1. PICK s \in Socket : GreetFails(s)
      BY <1>14
    <2>2. VoiceTablesAgree'
      BY <2>1 DEF GreetFails, voice, VoiceTablesAgree
    <2> QED
      BY <2>1, <2>2, OwnerAssumption, FaultAssumption DEF GreetFails, Fault, Goto, TypeOK, PC, voice, registry
  <1>15. CASE \E s \in Socket : HandlerFails(s)
    <2>1. PICK s \in Socket : HandlerFails(s)
      BY <1>15
    <2>2. VoiceTablesAgree'
      BY <2>1 DEF HandlerFails, voice, VoiceTablesAgree
    <2> QED
      BY <2>1, <2>2, OwnerAssumption, FaultAssumption DEF HandlerFails, Fault, Goto, TypeOK, PC, voice, registry
  <1>16. CASE \E s \in Socket : FarewellFails(s)
    <2>1. PICK s \in Socket : FarewellFails(s)
      BY <1>16
    <2>2. VoiceTablesAgree'
      BY <2>1 DEF FarewellFails, voice, VoiceTablesAgree
    <2> QED
      BY <2>1, <2>2, OwnerAssumption, FaultAssumption DEF FarewellFails, Fault, Goto, TypeOK, PC, voice, registry
  <1>17. CASE \E b \in Broadcast, u \in User : SendFails(b, u)
    <2>1. PICK b \in Broadcast, u \in User : SendFails(b, u)
      BY <1>17
    <2>2. VoiceTablesAgree'
      BY <2>1 DEF SendFails, voice, VoiceTablesAgree
    <2> QED
      BY <2>1, <2>2, OwnerAssumption, FaultAssumption DEF SendFails, ReplyMayFail, TypeOK, PC, voice, registry
  <1>18. CASE \E b \in Broadcast, u \in User : PopStale(b, u)
    <2>1. PICK b \in Broadcast, u \in User : PopStale(b, u)
      BY <1>18
    <2>2. VoiceTablesAgree'
      BY <2>1 DEF PopStale, voice, VoiceTablesAgree
    <2> QED
      BY <2>1, <2>2, OwnerAssumption, FaultAssumption DEF PopStale, TypeOK, PC, voice, registry
  <1>19. CASE \E u \in User : ExpirePresence(u)
    <2>1. PICK u \in User : ExpirePresence(u)
      BY <1>19
    <2>2. VoiceTablesAgree'
      BY <2>1 DEF ExpirePresence, voice, VoiceTablesAgree
    <2> QED
      BY <2>1, <2>2, OwnerAssumption, FaultAssumption DEF ExpirePresence, TypeOK, PC, voice, registry
  <1>20. CASE UNCHANGED vars
    BY <1>20 DEF vars, registry, voice, TypeOK, VoiceTablesAgree
  <1> QED
    BY <1>1, <1>2, <1>3, <1>4, <1>5, <1>6, <1>7, <1>8, <1>9, <1>10, <1>11, <1>12, <1>13, <1>14, <1>15, <1>16, <1>17, <1>18, <1>19, <1>20 DEF Next, HandlerStep, Finish

(* The steps of the handler of s, or of its socket.                         *)
SocketStep(s) ==
  \/ HandlerStep(s)
  \/ Drop(s) \/ GreetFails(s) \/ HandlerFails(s) \/ FarewellFails(s)

LEMMA OneHandler ==
  ASSUME TypeOK, NEW s \in Socket, SocketStep(s)
  PROVE  \A t \in Socket \ {s} : handler'[t] = handler[t]
  BY DEF SocketStep, HandlerStep, Finish, Connect, Accept, Greet, Receive,
     Refuse, Subscribe, JoinVoice, SetPresence, Unsubscribe, LeaveVoice,
     Disconnect, Farewell, Drop, GreetFails, HandlerFails, FarewellFails,
     Replied, Goto, TypeOK

(* A handler goes on serving its user until it disconnects them: of all     *)
(* steps only Disconnect makes a user unserved.                             *)
LEMMA ServingKept ==
  ASSUME TypeOK, NEW s \in Socket, SocketStep(s),
         NEW u \in User, Serving(u), ~(Disconnect(s) /\ Owner[s] = u)
  PROVE  Serving(u)'
  <1> DEFINE Busy == {"serving", "checking", "leaving"}
  <1>1. PICK t \in Socket : Owner[t] = u /\ handler[t] \in Busy
    BY DEF Serving, SocketsOf
  <1>2. handler'[t] \in Busy
    <2>1. CASE s # t
      BY <1>1, <2>1, OneHandler
    <2>2. CASE s = t
      BY <1>1, <2>2 DEF SocketStep, HandlerStep, Finish, Connect, Accept, Greet,
         Receive, Refuse, Subscribe, JoinVoice, SetPresence, Unsubscribe,
         LeaveVoice, Farewell, Drop, GreetFails, HandlerFails, FarewellFails,
         Replied, Goto, TypeOK
    <2> QED
      BY <2>1, <2>2
  <1> QED
    BY <1>1, <1>2 DEF Serving, SocketsOf

(* Where a user is to be found.                                             *)
Listed(u) ==
  \/ user_voice_channel[u] # NoChannel
  \/ \E c \in Channel : u \in channel_subscribers[c] \cup voice_participants[c]

(* A step that newly lists a user is one of a handler that serves them.     *)
LEMMA ListedByHandler ==
  ASSUME TypeOK, VoiceTablesAgree, TypeOK', VoiceTablesAgree',
         NEW s \in Socket, SocketStep(s),
         NEW u \in User, ~Listed(u), Listed(u)'
  PROVE  Serving(u)'
  <1>1. CASE Subscribe(s)
    <2>1. Owner[s] = u
      BY <1>1 DEF Subscribe, Listed, voice, TypeOK
    <2>2. handler'[s] \in {"serving", "leaving"}
      BY <1>1, RepliedType DEF Subscribe
    <2> QED
      BY <2>1, <2>2 DEF Serving, SocketsOf
  <1>2. CASE JoinVoice(s)
    <2>1. PICK channel \in Channel : EnterVoice(Owner[s], channel)
      BY <1>2 DEF JoinVoice
    <2>2. Owner[s] = u
      BY <1>2, <2>1, EnterVoiceEffect, OwnerAssumption
      DEF JoinVoice, EnterVoice, registry, Listed, TypeOK
    <2>3. handler'[s] = "serving"
      BY <1>2 DEF JoinVoice, Goto, TypeOK
    <2> QED
      BY <2>2, <2>3 DEF Serving, SocketsOf
  <1>3. CASE LeaveVoice(s)
    <2>1. PICK channel \in Channel \cup {NoChannel} : QuitVoice(Owner[s], channel)
      BY <1>3 DEF LeaveVoice
    <2>2. user_voice_channel'[u] \in {NoChannel, user_voice_channel[u]}
      BY <2>1, QuitVoiceEffect, OwnerAssumption
    <2> QED
      BY <1>3, <2>2, NoneAssumption, ChannelAssumption
      DEF LeaveVoice, registry, Listed, VoiceTablesAgree
  <1>4. CASE Disconnect(s)
    <2>1. user_voice_channel'[u] \in {NoChannel, user_voice_channel[u]}
      BY <1>4, QuitVoiceEffect, OwnerAssumption DEF Disconnect
    <2> QED
      BY <1>4, <2>1, NoneAssumption, ChannelAssumption
      DEF Disconnect, Listed, VoiceTablesAgree, TypeOK
  <1>5. CASE Unsubscribe(s)
    BY <1>5 DEF Unsubscribe, voice, Listed, TypeOK
  <1> QED
    BY <1>1, <1>2, <1>3, <1>4, <1>5
    DEF SocketStep, HandlerStep, Finish, Connect, Accept, Greet, Receive, Refuse,
        SetPresence, Farewell, Drop, GreetFails, HandlerFails, FarewellFails,
        registry, voice, Listed

LEMMA NoGhostsStep ==
  ASSUME IInv, TypeOK', VoiceTablesAgree', [Next]_vars
  PROVE  NoGhosts'
  <1> USE DEF IInv
  <1> SUFFICES ASSUME NEW u \in User, ~Serving(u)'
               PROVE  ~Listed(u)'
    BY DEF NoGhosts, Listed
  <1>0. Serving(u) \/ ~Listed(u)
    BY DEF NoGhosts, Listed
  <1>1. CASE \E s \in Socket : SocketStep(s)
    <2>1. PICK s \in Socket : SocketStep(s)
      BY <1>1
    <2>2. CASE Disconnect(s) /\ Owner[s] = u
      <3>1. user_voice_channel'[u] = NoChannel
        BY <2>2, QuitVoiceEffect, OwnerAssumption DEF Disconnect
      <3> QED
        BY <2>2, <3>1, NoneAssumption, ChannelAssumption
        DEF Disconnect, Listed, VoiceTablesAgree, TypeOK
    <2>3. CASE ~(Disconnect(s) /\ Owner[s] = u)
      BY <1>0, <2>1, <2>3, ServingKept, ListedByHandler
    <2> QED
      BY <2>2, <2>3
  <1>2. CASE \E v \in User :
          \/ \E b \in Broadcast : SendFails(b, v) \/ PopStale(b, v)
          \/ ExpirePresence(v)
    BY <1>0, <1>2 DEF SendFails, PopStale, ExpirePresence, registry, voice,
       Listed, Serving
  <1>3. CASE UNCHANGED vars
    BY <1>0, <1>3 DEF vars, registry, voice, Listed, Serving
  <1> QED
    BY <1>1, <1>2, <1>3 DEF Next, SocketStep

(* A socket is registered by its own handler, after accept(); the handler   *)
(* that ends takes the entry with it, whichever socket it names.            *)
LEMMA RegistryStep ==
  ASSUME IInv, TypeOK', [Next]_vars
  PROVE  RegistryHoldsLiveHandlers'
  <1> USE DEF IInv
  <1> DEFINE Live == {"greeting", "serving", "checking", "leaving", "crashed"}
             Held(u) == active_connections[u] # NoSocket =>
                          /\ active_connections[u] \in Socket
                          /\ Owner[active_connections[u]] = u
                          /\ handler[active_connections[u]] \in Live
  <1> SUFFICES ASSUME NEW u \in User
               PROVE  Held(u)'
    BY DEF RegistryHoldsLiveHandlers, SocketsOf
  <1>0. Held(u)
    BY DEF RegistryHoldsLiveHandlers, SocketsOf
  <1>1. CASE \E s \in Socket : SocketStep(s)
    <2>1. PICK s \in Socket : SocketStep(s)
      BY <1>1
    <2>2. \A t \in Socket \ {s} : handler'[t] = handler[t]
      BY <2>1, OneHandler
    <2>3. CASE Accept(s)
      BY <1>0, <2>2, <2>3, OwnerAssumption DEF Accept, Goto, TypeOK
    <2>4. CASE Disconnect(s)
      BY <1>0, <2>2, <2>4, OwnerAssumption DEF Disconnect, TypeOK
    <2>5. CASE ~Accept(s) /\ ~Disconnect(s)
      <3>1. active_connections' = active_connections
        BY <2>1, <2>5 DEF SocketStep, HandlerStep, Finish, Connect, Greet,
           Receive, Refuse, Subscribe, JoinVoice, SetPresence, Unsubscribe,
           LeaveVoice, Farewell, Drop, GreetFails, HandlerFails, FarewellFails,
           registry
      <3>2. handler[s] \in Live => handler'[s] \in Live
        BY <2>1, <2>5 DEF SocketStep, HandlerStep, Finish, Connect, Greet,
           Receive, Refuse, Subscribe, JoinVoice, SetPresence, Unsubscribe,
           LeaveVoice, Farewell, Drop, GreetFails, HandlerFails, FarewellFails,
           Replied, Goto, TypeOK
      <3> QED
        BY <1>0, <2>2, <3>1, <3>2
    <2> QED
      BY <2>3, <2>4, <2>5
  <1>2. CASE \E v \in User :
          \/ \E b \in Broadcast : SendFails(b, v) \/ PopStale(b, v)
          \/ ExpirePresence(v)
    BY <1>0, <1>2 DEF SendFails, PopStale, ExpirePresence, registry, TypeOK
  <1>3. CASE UNCHANGED vars
    BY <1>0, <1>3 DEF vars, registry
  <1> QED
    BY <1>1, <1>2, <1>3 DEF Next, SocketStep

(* A handler that wrote a presence ends by writing "offline", or crashes.   *)
LEMMA OnlineStep ==
  ASSUME IInv, TypeOK', [Next]_vars
  PROVE  OnlineMeansHandled'
  <1> USE DEF IInv
  <1> DEFINE Due == {"serving", "checking", "leaving", "cleanup", "crashed"}
             Handled(u) == presence[u] # "offline" =>
                             \E s \in Socket : Owner[s] = u /\ handler[s] \in Due
  <1> SUFFICES ASSUME NEW u \in User
               PROVE  Handled(u)'
    BY DEF OnlineMeansHandled, SocketsOf
  <1>0. Handled(u)
    BY DEF OnlineMeansHandled, SocketsOf
  <1>1. CASE \E s \in Socket : SocketStep(s)
    <2>1. PICK s \in Socket : SocketStep(s)
      BY <1>1
    <2>2. \A t \in Socket \ {s} : handler'[t] = handler[t]
      BY <2>1, OneHandler
    <2>3. handler[s] \in Due /\ ~Farewell(s) => handler'[s] \in Due
      BY <2>1 DEF SocketStep, HandlerStep, Finish, Connect, Accept, Greet,
         Receive, Refuse, Subscribe, JoinVoice, SetPresence, Unsubscribe,
         LeaveVoice, Disconnect, Drop, GreetFails, HandlerFails, FarewellFails,
         Replied, Goto, TypeOK
    <2>4. CASE Farewell(s)
      BY <1>0, <2>2, <2>4, OwnerAssumption DEF Farewell, TypeOK
    <2>5. CASE ~Farewell(s) /\ presence'[u] = presence[u]
      BY <1>0, <2>2, <2>3, <2>5
    <2>6. CASE ~Farewell(s) /\ presence'[u] # presence[u]
      <3>1. Owner[s] = u
        BY <2>1, <2>6, OwnerAssumption DEF SocketStep, HandlerStep, Finish,
           Connect, Accept, Greet, Receive, Refuse, Subscribe, JoinVoice,
           SetPresence, Unsubscribe, LeaveVoice, Disconnect, Drop, GreetFails,
           HandlerFails, FarewellFails, TypeOK
      <3>2. handler'[s] \in Due
        BY <2>1, <2>6 DEF SocketStep, HandlerStep, Finish, Connect, Accept,
           Greet, Receive, Refuse, Subscribe, JoinVoice, SetPresence,
           Unsubscribe, LeaveVoice, Disconnect, Drop, GreetFails, HandlerFails,
           FarewellFails, Replied, Goto, TypeOK
      <3> QED
        BY <3>1, <3>2
    <2> QED
      BY <2>4, <2>5, <2>6
  <1>2. CASE \E v \in User :
          \/ \E b \in Broadcast : SendFails(b, v) \/ PopStale(b, v)
          \/ ExpirePresence(v)
    BY <1>0, <1>2 DEF SendFails, PopStale, ExpirePresence, TypeOK
  <1>3. CASE UNCHANGED vars
    BY <1>0, <1>3 DEF vars
  <1> QED
    BY <1>1, <1>2, <1>3 DEF Next, SocketStep

(* The manager's tables and the presence store stay as IInv describes them  *)
(* whatever sockets are opened, dropped, replaced or fail.                  *)
THEOREM Invariance == Spec => []IInv
  <1>1. IInv /\ [Next]_vars => IInv'
    <2> SUFFICES ASSUME IInv, [Next]_vars
                 PROVE  IInv'
      OBVIOUS
    <2>1. TypeOK' /\ VoiceTablesAgree'
      BY TypeStep DEF IInv
    <2> QED
      BY <2>1, NoGhostsStep, RegistryStep, OnlineStep DEF IInv
  <1> QED
    BY InitInv, <1>1, PTL DEF Spec

(* Every variable keeps its type, for any users, sockets and channels.      *)
THEOREM TypeCorrect == Spec => []TypeOK
  BY Invariance, PTL DEF IInv

(* A channel always lists exactly the users whose voice channel it is.      *)
THEOREM VoiceAgreement == Spec => []VoiceTablesAgree
  BY Invariance, PTL DEF IInv

(* Nobody stays subscribed or listed in a voice channel without a handler   *)
(* that will take them out, however the handlers of one user overlap.       *)
THEOREM NobodyLeftBehind == Spec => []NoGhosts
  BY Invariance, PTL DEF IInv

(* A registered socket is one whose handler runs or crashed while greeting. *)
THEOREM RegistryIsLive == Spec => []RegistryHoldsLiveHandlers
  BY Invariance, PTL DEF IInv

(* Whoever is seen online has a handler that will write "offline", or had   *)
(* one that an exception ended.                                             *)
THEOREM OnlineIsHandled == Spec => []OnlineMeansHandled
  BY Invariance, PTL DEF IInv

-----------------------------------------------------------------------------
(* The mirror of the voice tables on the other node                         *)

(* What an event takes out of a sequence, and what it leaves.               *)
Cut(q, i, r) ==
  /\ Len(q) = Len(r) + 1
  /\ \A k \in 1..Len(r) : r[k] = IF k < i THEN q[k] ELSE q[k + 1]

LEMMA Joined ==
  ASSUME NEW S, NEW p \in Seq(S), NEW q \in Seq(S)
  PROVE  /\ p \o q \in Seq(S) /\ Len(p \o q) = Len(p) + Len(q)
         /\ \A k \in 1..(Len(p) + Len(q)) :
              (p \o q)[k] = IF k <= Len(p) THEN p[k] ELSE q[k - Len(p)]
  OBVIOUS

LEMMA WithoutCut ==
  ASSUME NEW q \in Seq(Event), NEW i \in 1..Len(q)
  PROVE  Without(q, i) \in Seq(Event) /\ Cut(q, i, Without(q, i))
  <1> DEFINE a == SubSeq(q, 1, i - 1)
             b == SubSeq(q, i + 1, Len(q))
  <1>1. /\ a \in Seq(Event) /\ Len(a) = i - 1
        /\ \A k \in 1..(i - 1) : a[k] = q[k]
    OBVIOUS
  <1>2. /\ b \in Seq(Event) /\ Len(b) = Len(q) - i
        /\ \A k \in 1..(Len(q) - i) : b[k] = q[i + k]
    OBVIOUS
  <1>0. Without(q, i) = a \o b
    BY DEF Without
  <1> HIDE DEF a, b
  <1>3. /\ a \o b \in Seq(Event)
        /\ Len(a \o b) = Len(q) - 1
        /\ \A k \in 1..(Len(q) - 1) : (a \o b)[k] = IF k < i THEN a[k] ELSE b[k - (i - 1)]
    <2>1. Len(q) \in Nat /\ i \in 1..Len(q)
      OBVIOUS
    <2>0. a \in Seq(Event) /\ b \in Seq(Event)
      BY <1>1, <1>2
    <2>2. a \o b \in Seq(Event) /\ Len(a \o b) = Len(a) + Len(b)
      BY <2>0, Joined
    <2>3. Len(a \o b) = Len(q) - 1
      BY <1>1, <1>2, <2>1, <2>2
    <2>4. \A k \in 1..(Len(a) + Len(b)) :
            (a \o b)[k] = IF k <= Len(a) THEN a[k] ELSE b[k - Len(a)]
      BY <2>0, Joined
    <2>5. ASSUME NEW k \in 1..(Len(q) - 1)
          PROVE  (a \o b)[k] = IF k < i THEN a[k] ELSE b[k - (i - 1)]
      <3>1. k \in 1..(Len(a) + Len(b)) /\ Len(a) = i - 1
        BY <1>1, <1>2, <2>1
      <3>2. (a \o b)[k] = IF k <= i - 1 THEN a[k] ELSE b[k - (i - 1)]
        BY <2>4, <3>1
      <3> QED
        BY <2>1, <3>2
    <2> QED
      BY <2>2, <2>3, <2>5
  <1>4. \A k \in 1..(Len(q) - 1) : (a \o b)[k] = IF k < i THEN q[k] ELSE q[k + 1]
    <2> SUFFICES ASSUME NEW k \in 1..(Len(q) - 1)
                 PROVE  (a \o b)[k] = IF k < i THEN q[k] ELSE q[k + 1]
      OBVIOUS
    <2>1. CASE k < i
      BY <1>1, <1>3, <2>1
    <2>2. CASE ~(k < i)
      <3>1. k - (i - 1) \in 1..(Len(q) - i) /\ i + (k - (i - 1)) = k + 1
        BY <2>2
      <3>2. (a \o b)[k] = b[k - (i - 1)]
        BY <1>3, <2>2
      <3> QED
        BY <1>2, <2>2, <3>1, <3>2
    <2> QED
      BY <2>1, <2>2
  <1> QED
    BY <1>0, <1>3, <1>4 DEF Cut

(* Where the events of a sequence take user u, who is in channel m: the last*)
(* join decides, unless a leave of that channel follows.                    *)
Joins(q, u, j)  == j \in 1..Len(q) /\ q[j].user = u /\ q[j].kind = "join"
Leaves(q, u, k, c) ==
  k \in 1..Len(q) /\ q[k].user = u /\ q[k].kind = "leave" /\ q[k].channel = c
LastJoin(q, u, j) == Joins(q, u, j) /\ \A k : Joins(q, u, k) => k <= j
Stay(q, u, j, c)  == IF \E k : Leaves(q, u, k, c) /\ k > j THEN NoChannel ELSE c
Leads(q, u, m, v) ==
  /\ \A j : LastJoin(q, u, j) => v = Stay(q, u, j, q[j].channel)
  /\ (\A j : ~Joins(q, u, j)) => v = Stay(q, u, 0, m)

(* Where an event of the remaining sequence was before.                     *)
Before(i, k) == IF k < i THEN k ELSE k + 1

Maps(q, i, r, u) ==
  /\ \A k \in 1..Len(r) :
       /\ Before(i, k) \in 1..Len(q) /\ Before(i, k) # i
       /\ r[k] = q[Before(i, k)]
       /\ Joins(r, u, k) <=> Joins(q, u, Before(i, k))
       /\ \A c : Leaves(r, u, k, c) <=> Leaves(q, u, Before(i, k), c)
  /\ \A j \in 1..Len(q) : j # i => \E k \in 1..Len(r) : j = Before(i, k)
  /\ \A k, l \in 1..Len(r) : Before(i, k) < Before(i, l) <=> k < l

LEMMA CutEvents ==
  ASSUME NEW q \in Seq(Event), NEW i \in 1..Len(q), NEW r \in Seq(Event), Cut(q, i, r), NEW u
  PROVE  Maps(q, i, r, u)
  <1>1. Len(q) \in Nat /\ Len(r) \in Nat /\ Len(q) = Len(r) + 1 /\ i \in Nat
    BY DEF Cut
  <1>2. ASSUME NEW k \in 1..Len(r)
        PROVE  /\ Before(i, k) \in 1..Len(q) /\ Before(i, k) # i
               /\ r[k] = q[Before(i, k)]
    BY <1>1 DEF Cut, Before
  <1>3. ASSUME NEW j \in 1..Len(q), j # i
        PROVE  \E k \in 1..Len(r) : j = Before(i, k)
    <2>1. CASE j < i
      BY <1>1, <2>1 DEF Before
    <2>2. CASE j > i
      <3>1. j - 1 \in 1..Len(r) /\ ~(j - 1 < i) /\ j = (j - 1) + 1
        BY <1>1, <2>2
      <3> QED
        BY <3>1 DEF Before
    <2> QED
      BY <1>1, <1>3, <2>1, <2>2
  <1>4. \A k, l \in 1..Len(r) : Before(i, k) < Before(i, l) <=> k < l
    BY <1>1 DEF Before
  <1> QED
    BY <1>2, <1>3, <1>4 DEF Maps, Joins, Leaves

(* An event of another user makes no difference.                            *)
LEMMA LeadsElsewhere ==
  ASSUME NEW q \in Seq(Event), NEW i \in 1..Len(q), NEW r \in Seq(Event), Cut(q, i, r),
         NEW u, q[i].user # u, NEW m, NEW v
  PROVE  Leads(q, u, m, v) <=> Leads(r, u, m, v)
  <1>0. Maps(q, i, r, u)
    BY CutEvents
  <1> DEFINE B(k) == Before(i, k)
  <1>1. /\ \A j : Joins(q, u, j) => \E k \in 1..Len(r) : j = B(k)
        /\ \A j, c : Leaves(q, u, j, c) => \E k \in 1..Len(r) : j = B(k)
    <2>1. \A j \in 1..Len(q) : q[j].user = u => \E k \in 1..Len(r) : j = B(k)
      BY <1>0 DEF Maps
    <2> QED
      BY <2>1 DEF Joins, Leaves
  <1>2. /\ \A k \in 1..Len(r) :
             /\ Joins(r, u, k) <=> Joins(q, u, B(k))
             /\ \A c : Leaves(r, u, k, c) <=> Leaves(q, u, B(k), c)
             /\ r[k] = q[B(k)] /\ B(k) \in Nat /\ B(k) > 0 /\ k \in Nat /\ k > 0
        /\ \A k, l \in 1..Len(r) : B(k) < B(l) <=> k < l
    <2>1. \A k \in 1..Len(r) :
             /\ Joins(r, u, k) <=> Joins(q, u, B(k))
             /\ \A c : Leaves(r, u, k, c) <=> Leaves(q, u, B(k), c)
             /\ r[k] = q[B(k)] /\ B(k) \in 1..Len(q)
      BY <1>0 DEF Maps
    <2>2. \A k, l \in 1..Len(r) : B(k) < B(l) <=> k < l
      BY <1>0 DEF Maps
    <2> HIDE DEF B
    <2>3. \A k \in 1..Len(r) : B(k) \in Nat /\ B(k) > 0 /\ k \in Nat /\ k > 0
      BY <2>1
    <2> QED
      BY <2>1, <2>2, <2>3
  <1>3. /\ \A k : Joins(r, u, k) => k \in 1..Len(r)
        /\ \A k, c : Leaves(r, u, k, c) => k \in 1..Len(r)
    BY DEF Joins, Leaves
  <1> HIDE DEF B
  <1>4. \A k, l \in 1..Len(r) : B(k) <= B(l) <=> k <= l
    BY <1>2
  <1>5. \A k \in 1..Len(r) : LastJoin(r, u, k) <=> LastJoin(q, u, B(k))
    BY <1>1, <1>2, <1>3, <1>4 DEF LastJoin
  <1>6. ASSUME NEW k \in 1..Len(r), NEW c
        PROVE  Stay(r, u, k, c) = Stay(q, u, B(k), c)
    <2>1. (\E l : Leaves(r, u, l, c) /\ l > k) <=> (\E l : Leaves(q, u, l, c) /\ l > B(k))
      BY <1>1, <1>2, <1>3
    <2> QED
      BY <2>1 DEF Stay
  <1>7. Stay(r, u, 0, m) = Stay(q, u, 0, m)
    <2>1. (\E l : Leaves(r, u, l, m) /\ l > 0) <=> (\E l : Leaves(q, u, l, m) /\ l > 0)
      BY <1>1, <1>2, <1>3
    <2> QED
      BY <2>1 DEF Stay
  <1>8. (\A j : ~Joins(q, u, j)) <=> (\A k : ~Joins(r, u, k))
    BY <1>1, <1>2, <1>3
  <1>9. (\A j : LastJoin(q, u, j) => v = Stay(q, u, j, q[j].channel))
        <=> (\A k : LastJoin(r, u, k) => v = Stay(r, u, k, r[k].channel))
    <2>1. ASSUME NEW j, LastJoin(q, u, j) PROVE \E k \in 1..Len(r) : j = B(k)
      BY <1>1, <2>1 DEF LastJoin
    <2>2. ASSUME NEW k, LastJoin(r, u, k) PROVE k \in 1..Len(r)
      BY <1>3, <2>2 DEF LastJoin
    <2>3. \A k \in 1..Len(r) : Stay(r, u, k, r[k].channel) = Stay(q, u, B(k), q[B(k)].channel)
      BY <1>2, <1>6
    <2> QED
      BY <1>5, <2>1, <2>2, <2>3
  <1> QED
    BY <1>7, <1>8, <1>9 DEF Leads

(* What an event adds at the end.                                           *)
LastOf(q, e, u, r) ==
  /\ \A j : Joins(r, u, j) <=>
        Joins(q, u, j) \/ (j = Len(q) + 1 /\ e.user = u /\ e.kind = "join")
  /\ \A j, c : Leaves(r, u, j, c) <=>
        \/ Leaves(q, u, j, c)
        \/ j = Len(q) + 1 /\ e.user = u /\ e.kind = "leave" /\ e.channel = c
  /\ \A j : Joins(q, u, j) => r[j] = q[j] /\ j \in Nat /\ j <= Len(q)
  /\ \A j, c : Leaves(q, u, j, c) => j \in Nat /\ j > 0 /\ j <= Len(q)
  /\ r[Len(q) + 1] = e /\ Len(q) \in Nat

LEMMA AppendEvents ==
  ASSUME NEW q \in Seq(Event), NEW e \in Event, NEW u
  PROVE  LastOf(q, e, u, Append(q, e))
  <1>0. PICK r : r = Append(q, e)
    OBVIOUS
  <1>1. r \in Seq(Event) /\ r = Append(q, e)
    BY <1>0
  <1>2. /\ Len(r) = Len(q) + 1 /\ Len(q) \in Nat
        /\ r[Len(q) + 1] = e
        /\ \A j \in 1..Len(q) : r[j] = q[j]
    BY <1>1
  <1>3. \A j : j \in 1..Len(r) <=> j \in 1..Len(q) \/ j = Len(q) + 1
    BY <1>2
  <1>4. \A j : Joins(r, u, j) <=>
            Joins(q, u, j) \/ (j = Len(q) + 1 /\ e.user = u /\ e.kind = "join")
    BY <1>2, <1>3 DEF Joins
  <1>5. \A j, c : Leaves(r, u, j, c) <=>
            \/ Leaves(q, u, j, c)
            \/ j = Len(q) + 1 /\ e.user = u /\ e.kind = "leave" /\ e.channel = c
    BY <1>2, <1>3 DEF Leaves
  <1>6. /\ \A j : Joins(q, u, j) => r[j] = q[j] /\ j \in Nat /\ j <= Len(q)
        /\ \A j, c : Leaves(q, u, j, c) => j \in Nat /\ j > 0 /\ j <= Len(q)
    BY <1>2 DEF Joins, Leaves
  <1> QED
    BY <1>1, <1>2, <1>4, <1>5, <1>6 DEF LastOf

LEMMA JoinLeads ==
  ASSUME NEW q \in Seq(Event), NEW e \in Event, NEW u, NEW m, e.user = u, e.kind = "join"
  PROVE  Leads(Append(q, e), u, m, e.channel)
  <1>9. PICK r : r = Append(q, e)
    OBVIOUS
  <1>0. LastOf(q, e, u, r)
    BY <1>9, AppendEvents
  <1>8. PICK l : l = Len(q) + 1
    OBVIOUS
  <1>1. Joins(r, u, l) /\ \A j : Joins(r, u, j) => j <= l
    BY <1>0, <1>8 DEF LastOf
  <1>2. \A j : LastJoin(r, u, j) => j = l
    <2>1. \A j : Joins(r, u, j) => j \in Nat
      BY <1>0 DEF LastOf
    <2> QED
      BY <1>0, <1>1, <1>8, <2>1 DEF LastJoin, LastOf
  <1>3. \A c : Stay(r, u, l, c) = c
    <2>1. \A k, c : ~(Leaves(r, u, k, c) /\ k > l)
      BY <1>0, <1>8 DEF LastOf
    <2> QED
      BY <2>1 DEF Stay
  <1>4. r[l] = e
    BY <1>0, <1>8 DEF LastOf
  <1> QED
    BY <1>1, <1>2, <1>3, <1>4, <1>9 DEF Leads

LEMMA LeaveLeads ==
  ASSUME NEW q \in Seq(Event), NEW e \in Event, NEW u, NEW m, NEW v, Leads(q, u, m, v),
         e.user = u, e.kind = "leave", NEW w,
         w = IF v = e.channel THEN NoChannel ELSE v
  PROVE  Leads(Append(q, e), u, m, w)
  <1>9. PICK r : r = Append(q, e)
    OBVIOUS
  <1>0. LastOf(q, e, u, r)
    BY <1>9, AppendEvents
  <1>1. \A j : Joins(r, u, j) <=> Joins(q, u, j)
    BY <1>0 DEF LastOf
  <1>2. \A j : LastJoin(r, u, j) <=> LastJoin(q, u, j)
    BY <1>1 DEF LastJoin
  <1>3. ASSUME NEW j \in Nat, NEW c, j <= Len(q), v = Stay(q, u, j, c)
        PROVE  w = Stay(r, u, j, c)
    <2>1. (\E k : Leaves(r, u, k, c) /\ k > j)
          <=> (\E k : Leaves(q, u, k, c) /\ k > j) \/ e.channel = c
      BY <1>0, <1>3 DEF LastOf
    <2> QED
      BY <1>3, <2>1 DEF Stay
  <1>4. ASSUME NEW j, LastJoin(r, u, j) PROVE w = Stay(r, u, j, r[j].channel)
    <2>1. LastJoin(q, u, j) /\ j \in Nat /\ j <= Len(q) /\ r[j] = q[j]
      BY <1>0, <1>2, <1>4 DEF LastJoin, LastOf
    <2>2. v = Stay(q, u, j, q[j].channel)
      BY <2>1 DEF Leads
    <2> QED
      BY <1>3, <2>1, <2>2
  <1>5. (\A j : ~Joins(r, u, j)) => w = Stay(r, u, 0, m)
    <2>1. 0 <= Len(q)
      OBVIOUS
    <2> QED
      BY <1>1, <1>3, <2>1 DEF Leads
  <1> QED
    BY <1>4, <1>5, <1>9 DEF Leads

(* The event i is the first of the user, and takes them from m to w.        *)
FirstOf(q, i, u, m, w) ==
  /\ q[i].user = u
  /\ \A j \in 1..(i - 1) : q[j].user # u
  /\ w = IF q[i].kind = "join" THEN q[i].channel
         ELSE IF m = q[i].channel THEN NoChannel ELSE m

LEMMA FirstTaken ==
  ASSUME NEW q \in Seq(Event), NEW i \in 1..Len(q), NEW r \in Seq(Event), Cut(q, i, r),
         NEW u, NEW m, NEW w, FirstOf(q, i, u, m, w),
         NEW v, Leads(q, u, m, v)
  PROVE  Leads(r, u, w, v)
  <1> USE DEF FirstOf
  <1> DEFINE B(k) == Before(i, k)
  <1>0. Maps(q, i, r, u)
    BY CutEvents
  <1>1. /\ \A k \in 1..Len(r) :
             /\ Joins(r, u, k) <=> Joins(q, u, B(k))
             /\ \A c : Leaves(r, u, k, c) <=> Leaves(q, u, B(k), c)
             /\ r[k] = q[B(k)] /\ B(k) \in 1..Len(q) /\ B(k) # i
        /\ \A j \in 1..Len(q) : j # i => \E k \in 1..Len(r) : j = B(k)
        /\ \A k, l \in 1..Len(r) : B(k) < B(l) <=> k < l
    BY <1>0 DEF Maps
  <1> HIDE DEF B
  <1>2. /\ \A k \in 1..Len(r) : B(k) \in Nat /\ k \in Nat /\ k > 0 /\ (r[k].user = u => B(k) > i)
        /\ \A k, l \in 1..Len(r) : B(k) <= B(l) <=> k <= l
        /\ i \in Nat /\ i > 0
    <2>1. \A k \in 1..Len(r) : r[k].user = u => ~(B(k) < i)
      BY <1>1
    <2>2. \A k, l \in 1..Len(r) : k \in Nat /\ l \in Nat /\ B(k) \in Nat /\ B(l) \in Nat
      BY <1>1
    <2> QED
      BY <1>1, <2>1, <2>2
  <1>3. /\ \A k : Joins(r, u, k) => k \in 1..Len(r) /\ B(k) > i
        /\ \A k, c : Leaves(r, u, k, c) => k \in 1..Len(r) /\ B(k) > i
        /\ \A j : Joins(q, u, j) => j = i \/ \E k \in 1..Len(r) : j = B(k) /\ Joins(r, u, k)
        /\ \A j, c : Leaves(q, u, j, c) =>
              j = i \/ \E k \in 1..Len(r) : j = B(k) /\ Leaves(r, u, k, c)
    <2>1. \A k : Joins(r, u, k) => k \in 1..Len(r) /\ B(k) > i
      BY <1>2 DEF Joins
    <2>2. \A k, c : Leaves(r, u, k, c) => k \in 1..Len(r) /\ B(k) > i
      BY <1>2 DEF Leaves
    <2>3. ASSUME NEW j, Joins(q, u, j), j # i
          PROVE  \E k \in 1..Len(r) : j = B(k) /\ Joins(r, u, k)
      <3>1. PICK k \in 1..Len(r) : j = B(k)
        BY <1>1, <2>3 DEF Joins
      <3> QED
        BY <1>1, <2>3, <3>1
    <2>4. ASSUME NEW j, NEW c, Leaves(q, u, j, c), j # i
          PROVE  \E k \in 1..Len(r) : j = B(k) /\ Leaves(r, u, k, c)
      <3>1. PICK k \in 1..Len(r) : j = B(k)
        BY <1>1, <2>4 DEF Leaves
      <3> QED
        BY <1>1, <2>4, <3>1
    <2> QED
      BY <2>1, <2>2, <2>3, <2>4
  <1>4. ASSUME NEW k \in 1..Len(r), NEW c
        PROVE  Stay(r, u, k, c) = Stay(q, u, B(k), c) \/ ~Joins(r, u, k)
    <2> SUFFICES ASSUME Joins(r, u, k) PROVE Stay(r, u, k, c) = Stay(q, u, B(k), c)
      OBVIOUS
    <2>0. B(k) > i /\ B(k) \in Nat /\ i \in Nat
      BY <1>2, <1>3
    <2>1. ASSUME NEW l, Leaves(r, u, l, c), l > k
          PROVE  \E j : Leaves(q, u, j, c) /\ j > B(k)
      <3>1. l \in 1..Len(r) /\ Leaves(q, u, B(l), c)
        BY <1>1, <1>3, <2>1
      <3>2. B(l) > B(k)
        BY <1>1, <1>2, <2>1, <3>1
      <3> QED
        BY <3>1, <3>2
    <2>2. ASSUME NEW j, Leaves(q, u, j, c), j > B(k)
          PROVE  \E l : Leaves(r, u, l, c) /\ l > k
      <3>1. j # i
        BY <2>0, <2>2
      <3>2. PICK l \in 1..Len(r) : j = B(l) /\ Leaves(r, u, l, c)
        BY <1>3, <2>2, <3>1
      <3>3. l > k
        BY <1>1, <1>2, <2>2, <3>2
      <3> QED
        BY <3>2, <3>3
    <2> QED
      BY <2>1, <2>2 DEF Stay
  <1>5. ASSUME NEW k, LastJoin(r, u, k) PROVE v = Stay(r, u, k, r[k].channel)
    <2>1. k \in 1..Len(r) /\ Joins(r, u, k) /\ Joins(q, u, B(k)) /\ r[k] = q[B(k)]
      BY <1>1, <1>3, <1>5 DEF LastJoin
    <2>2. LastJoin(q, u, B(k))
      <3>1. ASSUME NEW j, Joins(q, u, j) PROVE j <= B(k)
        <4>1. i <= B(k)
          BY <1>2, <1>3, <2>1
        <4>2. ASSUME NEW l \in 1..Len(r), j = B(l), Joins(r, u, l) PROVE j <= B(k)
          BY <1>2, <1>5, <2>1, <4>2 DEF LastJoin
        <4> QED
          BY <1>3, <3>1, <4>1, <4>2
      <3> QED
        BY <2>1, <3>1 DEF LastJoin
    <2>3. v = Stay(q, u, B(k), q[B(k)].channel)
      BY <2>2 DEF Leads
    <2> QED
      BY <1>4, <2>1, <2>3
  <1>6. ASSUME \A k : ~Joins(r, u, k) PROVE v = Stay(r, u, 0, w)
    <2>1. \A c : (\E l : Leaves(r, u, l, c) /\ l > 0) <=> (\E l : Leaves(q, u, l, c) /\ l > i)
      <3>1. ASSUME NEW c, NEW l, Leaves(r, u, l, c)
            PROVE  l > 0 /\ \E j : Leaves(q, u, j, c) /\ j > i
        <4>1. l \in 1..Len(r) /\ B(l) > i
          BY <1>3, <3>1
        <4>2. Leaves(q, u, B(l), c)
          BY <1>1, <3>1, <4>1
        <4>3. l > 0
          BY <1>2, <4>1
        <4> QED
          BY <4>1, <4>2, <4>3, Zenon
      <3>2. ASSUME NEW c, NEW j, Leaves(q, u, j, c), j > i
            PROVE  \E l : Leaves(r, u, l, c)
        <4>1. j # i /\ Leaves(q, u, j, c)
          BY <1>2, <3>2
        <4>2. PICK l \in 1..Len(r) : j = B(l) /\ Leaves(r, u, l, c)
          BY <1>3, <4>1
        <4> QED
          BY <4>2, Zenon
      <3> QED
        BY <3>1, <3>2
    <2>2. CASE q[i].kind = "join"
      <3>1. LastJoin(q, u, i)
        <4>1. Joins(q, u, i)
          BY <2>2 DEF Joins
        <4>2. \A j : Joins(q, u, j) => j = i
          BY <1>3, <1>6
        <4>3. \A j : Joins(q, u, j) => j <= i
          BY <1>2, <4>2
        <4> QED
          BY <4>1, <4>3 DEF LastJoin
      <3>2. v = Stay(q, u, i, q[i].channel) /\ w = q[i].channel
        BY <2>2, <3>1 DEF Leads
      <3> QED
        BY <2>1, <3>2 DEF Stay
    <2>3. CASE q[i].kind # "join"
      <3>1. q[i].kind = "leave" /\ q[i] \in Event
        <4>1. q[i] \in Event
          OBVIOUS
        <4> QED
          BY <2>3, <4>1 DEF Event
      <3>2. Leaves(q, u, i, q[i].channel)
        BY <3>1 DEF Leaves
      <3>3. \A j : ~Joins(q, u, j)
        BY <1>3, <1>6, <2>3 DEF Joins
      <3>4. v = Stay(q, u, 0, m)
        BY <3>3 DEF Leads
      <3>5. \A c : (\E l : Leaves(q, u, l, c) /\ l > 0)
                   <=> (\E l : Leaves(q, u, l, c) /\ l > i) \/ c = q[i].channel
        <4>1. \A j, c : Leaves(q, u, j, c) => (j = i /\ c = q[i].channel) \/ (j > i /\ j > 0)
          BY <1>2, <1>3 DEF Leaves
        <4> QED
          BY <1>2, <3>2, <4>1
      <3> QED
        BY <2>1, <2>3, <3>4, <3>5 DEF Stay
    <2> QED
      BY <2>2, <2>3
  <1> QED
    BY <1>5, <1>6 DEF Leads

(* What is taken out of the front is taken out of the whole.                *)
LEMMA CutFront ==
  ASSUME NEW q \in Seq(Event), NEW i \in 1..Len(q), NEW r \in Seq(Event), Cut(q, i, r),
         NEW t \in Seq(Event)
  PROVE  /\ q \o t \in Seq(Event) /\ r \o t \in Seq(Event)
         /\ i \in 1..Len(q \o t) /\ (q \o t)[i] = q[i]
         /\ \A j \in 1..(i - 1) : (q \o t)[j] = q[j]
         /\ Cut(q \o t, i, r \o t)
  <1>1. /\ q \o t \in Seq(Event) /\ Len(q \o t) = Len(q) + Len(t)
        /\ \A k \in 1..(Len(q) + Len(t)) :
             (q \o t)[k] = IF k <= Len(q) THEN q[k] ELSE t[k - Len(q)]
    OBVIOUS
  <1>2. /\ r \o t \in Seq(Event) /\ Len(r \o t) = Len(r) + Len(t)
        /\ \A k \in 1..(Len(r) + Len(t)) :
             (r \o t)[k] = IF k <= Len(r) THEN r[k] ELSE t[k - Len(r)]
    OBVIOUS
  <1>3. /\ Len(q) \in Nat /\ Len(r) \in Nat /\ Len(t) \in Nat
        /\ Len(q) = Len(r) + 1 /\ i \in Nat /\ i > 0 /\ i <= Len(q)
        /\ \A k \in 1..Len(r) : r[k] = IF k < i THEN q[k] ELSE q[k + 1]
    BY DEF Cut
  <1>4. i \in 1..Len(q \o t) /\ (q \o t)[i] = q[i]
    BY <1>1, <1>3
  <1>5. \A j \in 1..(i - 1) : (q \o t)[j] = q[j]
    BY <1>1, <1>3
  <1>6. ASSUME NEW k \in 1..Len(r \o t)
        PROVE  (r \o t)[k] = IF k < i THEN (q \o t)[k] ELSE (q \o t)[k + 1]
    <2>1. k \in 1..(Len(r) + Len(t)) /\ k \in Nat
      BY <1>2, <1>3
    <2>2. CASE k <= Len(r)
      <3>1. (r \o t)[k] = IF k < i THEN q[k] ELSE q[k + 1]
        BY <1>2, <1>3, <2>1, <2>2
      <3>2. (q \o t)[k] = q[k] /\ (q \o t)[k + 1] = q[k + 1]
        BY <1>1, <1>3, <2>1, <2>2
      <3> QED
        BY <3>1, <3>2
    <2>3. CASE ~(k <= Len(r))
      <3>1. (r \o t)[k] = t[k - Len(r)] /\ ~(k < i)
        BY <1>2, <1>3, <2>1, <2>3
      <3>2. k + 1 \in 1..(Len(q) + Len(t)) /\ ~(k + 1 <= Len(q)) /\ (k + 1) - Len(q) = k - Len(r)
        BY <1>3, <2>1, <2>3
      <3>3. (q \o t)[k + 1] = t[(k + 1) - Len(q)]
        BY <1>1, <3>2
      <3> QED
        BY <3>1, <3>2, <3>3
    <2> QED
      BY <2>2, <2>3
  <1>7. Len(q \o t) = Len(r \o t) + 1
    BY <1>1, <1>2, <1>3
  <1>8. Cut(q \o t, i, r \o t)
    BY <1>6, <1>7 DEF Cut
  <1> QED
    BY <1>1, <1>2, <1>4, <1>5, <1>8

(* Queuing the next event changes nothing in the whole.                     *)
LEMMA QueueNext ==
  ASSUME NEW q \in Seq(Event), NEW t \in Seq(Event), t # <<>>
  PROVE  Append(q, Head(t)) \o Tail(t) = q \o t
  <1>1. PICK a : a = Append(q, Head(t))
    OBVIOUS
  <1>2. PICK b : b = Tail(t)
    OBVIOUS
  <1>3. /\ Len(t) \in Nat /\ Len(t) > 0 /\ Len(q) \in Nat
        /\ b \in Seq(Event) /\ Len(b) = Len(t) - 1
        /\ \A k \in 1..(Len(t) - 1) : b[k] = t[k + 1]
    BY <1>2
  <1>4. /\ Head(t) = t[1] /\ Head(t) \in Event
    OBVIOUS
  <1>5. /\ a \in Seq(Event) /\ Len(a) = Len(q) + 1 /\ a[Len(q) + 1] = t[1]
        /\ \A k \in 1..Len(q) : a[k] = q[k]
    BY <1>1, <1>4
  <1>6. /\ a \o b \in Seq(Event) /\ Len(a \o b) = Len(a) + Len(b)
        /\ \A k \in 1..(Len(a) + Len(b)) :
             (a \o b)[k] = IF k <= Len(a) THEN a[k] ELSE b[k - Len(a)]
    <2>1. a \in Seq(Event) /\ b \in Seq(Event)
      BY <1>3, <1>5
    <2> QED
      BY <2>1
  <1>7. /\ q \o t \in Seq(Event) /\ Len(q \o t) = Len(q) + Len(t)
        /\ \A k \in 1..(Len(q) + Len(t)) :
             (q \o t)[k] = IF k <= Len(q) THEN q[k] ELSE t[k - Len(q)]
    OBVIOUS
  <1>8. Len(a \o b) = Len(q \o t)
    BY <1>3, <1>5, <1>6, <1>7
  <1>9. ASSUME NEW k \in 1..Len(q \o t)
        PROVE  (a \o b)[k] = (q \o t)[k]
    <2>1. k \in 1..(Len(q) + Len(t)) /\ k \in 1..(Len(a) + Len(b)) /\ k \in Nat
      BY <1>3, <1>5, <1>7
    <2>2. CASE k <= Len(q)
      BY <1>3, <1>5, <1>6, <1>7, <2>1, <2>2
    <2>3. CASE k = Len(q) + 1
      <3>1. (a \o b)[k] = a[k]
        BY <1>3, <1>5, <1>6, <2>1, <2>3
      <3>2. (q \o t)[k] = t[k - Len(q)] /\ k - Len(q) = 1
        BY <1>3, <1>7, <2>1, <2>3
      <3> QED
        BY <1>5, <2>3, <3>1, <3>2
    <2>4. CASE k > Len(q) + 1
      <3>1. (a \o b)[k] = b[k - Len(a)]
        BY <1>3, <1>5, <1>6, <2>1, <2>4
      <3>2. k - Len(a) \in 1..(Len(t) - 1) /\ (k - Len(a)) + 1 = k - Len(q)
        BY <1>3, <1>5, <2>1, <2>4
      <3>3. b[k - Len(a)] = t[k - Len(q)]
        BY <1>3, <3>2
      <3>4. (q \o t)[k] = t[k - Len(q)]
        BY <1>3, <1>7, <2>1, <2>4
      <3> QED
        BY <3>1, <3>3, <3>4
    <2>5. k <= Len(q) \/ k = Len(q) + 1 \/ k > Len(q) + 1
      <3>1. k \in Nat /\ Len(q) \in Nat
        BY <1>3, <2>1
      <3> QED
        BY <3>1
    <2> QED
      BY <2>2, <2>3, <2>4, <2>5
  <1>10. a \o b = q \o t
    <2>1. PICK x, y : x = a \o b /\ y = q \o t
      OBVIOUS
    <2>2. /\ x \in Seq(Event) /\ y \in Seq(Event) /\ Len(x) = Len(y)
          /\ \A k \in 1..Len(y) : x[k] = y[k]
      BY <1>6, <1>7, <1>8, <1>9, <2>1
    <2>3. x = y
      BY <2>2
    <2> QED
      BY <2>1, <2>3
  <1> QED
    BY <1>1, <1>2, <1>10

(* The event at the end, taken out, leaves the sequence it was put after.   *)
LEMMA AppendCut ==
  ASSUME NEW q \in Seq(Event), NEW e \in Event
  PROVE  /\ Append(q, e) \in Seq(Event) /\ Len(q) + 1 \in 1..Len(Append(q, e))
         /\ Append(q, e)[Len(q) + 1] = e
         /\ Cut(Append(q, e), Len(q) + 1, q)
  <1>1. PICK r : r = Append(q, e)
    OBVIOUS
  <1>2. /\ r \in Seq(Event) /\ Len(r) = Len(q) + 1 /\ Len(q) \in Nat /\ r[Len(q) + 1] = e
        /\ \A j \in 1..Len(q) : r[j] = q[j]
    BY <1>1
  <1>3. Cut(r, Len(q) + 1, q)
    BY <1>2 DEF Cut
  <1>4. Len(q) + 1 \in 1..Len(r)
    BY <1>2
  <1> QED
    BY <1>1, <1>2, <1>3, <1>4

(* Sequences of one event and of two, put at the end.                       *)
LEMMA TwoMore ==
  ASSUME NEW q \in Seq(Event), NEW e \in Event, NEW f \in Event
  PROVE  /\ q \o <<e>> = Append(q, e)
         /\ <<e>> \o <<f>> = Append(<<e>>, f)
         /\ q \o (<<e>> \o <<f>>) = Append(Append(q, e), f)
  <1>0. \A r \in Seq(Event), g \in Event : r \o <<g>> = Append(r, g)
    BY AppendIsConcat
  <1>1. <<e>> \in Seq(Event) /\ <<f>> \in Seq(Event) /\ Append(q, e) \in Seq(Event)
    OBVIOUS
  <1>2. <<e>> \o <<f>> = Append(<<e>>, f)
    BY <1>0, <1>1
  <1>3. q \o (<<e>> \o <<f>>) = (q \o <<e>>) \o <<f>>
    BY <1>1, ConcatAssociative
  <1>4. q \o <<e>> = Append(q, e)
    BY <1>0
  <1>5. Append(q, e) \o <<f>> = Append(Append(q, e), f)
    BY <1>0, <1>1
  <1> QED
    BY <1>2, <1>3, <1>4, <1>5

-----------------------------------------------------------------------------
(* The inductive invariant                                                  *)

(* The sessions of u on node n whose handler has events to queue.           *)
Active(n, u, s) == Home[s] = n /\ UserOf[s] = u /\ todo[s] # <<>>

(* A handler tells of its own user.                                         *)
TellsOfUser == \A s \in Session : \A k \in 1..Len(todo[s]) : todo[s][k].user = UserOf[s]

(* At most one handler has events of u to queue.                            *)
Alone(n, u) == \A s, t \in Session : Active(n, u, s) /\ Active(n, u, t) => s = t

(* The events under way and to be queued take u, on the other node, from    *)
(* where they are shown to where they are.                                  *)
Points(n, u, q) ==
  Leads(q, u, remote_user_voice_channel[Peer[n]][u], local_voice_channel[n][u])
Catching(n, u) ==
  /\ (\A s \in Session : ~Active(n, u, s)) => Points(n, u, flight[n])
  /\ \A s \in Session : Active(n, u, s) => Points(n, u, flight[n] \o todo[s])

MirrorInv ==
  /\ MirrorTypeOK
  /\ MirrorTablesAgree
  /\ TellsOfUser
  /\ \A n \in Node, u \in User :
       <<n, u>> \notin disturbed => Alone(n, u) /\ Catching(n, u)

-----------------------------------------------------------------------------
(* Types and the two tables                                                 *)

LEMMA EventTypes ==
  ASSUME MirrorTypeOK, NEW s \in Session
  PROVE  /\ Home[s] \in Node /\ UserOf[s] \in User
         /\ VoiceChannel(s) \in Channel \cup {NoChannel}
         /\ todo[s] \in Seq(Event)
         /\ \A c \in Channel : JoinEvent(s, c) \in Event /\ LeaveEvent(s, c) \in Event
  <1>1. Home[s] \in Node /\ UserOf[s] \in User
    BY SessionAssumption
  <1>2. VoiceChannel(s) \in Channel \cup {NoChannel}
    BY <1>1 DEF MirrorTypeOK, VoiceChannel
  <1>3. todo[s] \in Seq(Event)
    BY DEF MirrorTypeOK
  <1>4. \A c \in Channel : JoinEvent(s, c) \in Event /\ LeaveEvent(s, c) \in Event
    BY <1>1 DEF Event, JoinEvent, LeaveEvent
  <1> QED
    BY <1>1, <1>2, <1>3, <1>4

LEMMA MirrorInitially == MirrorInit => MirrorInv
  <1> SUFFICES ASSUME MirrorInit PROVE MirrorInv
    OBVIOUS
  <1> USE DEF MirrorInit
  <1>1. MirrorTypeOK
    BY BoundAssumption DEF MirrorTypeOK
  <1>2. MirrorTablesAgree
    BY ChannelAssumption DEF MirrorTablesAgree
  <1>3. TellsOfUser
    BY DEF TellsOfUser
  <1>4. ASSUME NEW n \in Node, NEW u \in User PROVE Alone(n, u) /\ Catching(n, u)
    <2>1. \A s \in Session : ~Active(n, u, s)
      BY DEF Active
    <2>2. PICK q : q = flight[n]
      OBVIOUS
    <2>3. (\A j : ~Joins(q, u, j)) /\ \A k, c : ~Leaves(q, u, k, c)
      BY <2>2 DEF Joins, Leaves
    <2>4. Leads(q, u, NoChannel, NoChannel)
      BY <2>3 DEF Leads, LastJoin, Stay
    <2>5. remote_user_voice_channel[Peer[n]][u] = NoChannel /\ local_voice_channel[n][u] = NoChannel
      BY NodeAssumption
    <2> QED
      BY <2>1, <2>2, <2>4, <2>5 DEF Alone, Catching, Points
  <1> QED
    BY <1>1, <1>2, <1>3, <1>4 DEF MirrorInv

-----------------------------------------------------------------------------
(* Handlers and clients                                                     *)

(* A user of whom a step moves nothing.                                     *)
LEMMA Untouched ==
  ASSUME NEW n \in Node, NEW u \in User,
         \A s \in Session : Home[s] = n /\ UserOf[s] = u => todo'[s] = todo[s],
         flight'[n] = flight[n],
         remote_user_voice_channel'[Peer[n]][u] = remote_user_voice_channel[Peer[n]][u],
         local_voice_channel'[n][u] = local_voice_channel[n][u],
         Alone(n, u), Catching(n, u)
  PROVE  Alone(n, u)' /\ Catching(n, u)'
  <1>1. \A s \in Session : Active(n, u, s)' <=> Active(n, u, s)
    BY DEF Active
  <1>2. \A s \in Session : Active(n, u, s) => todo'[s] = todo[s]
    BY DEF Active
  <1>3. Points(n, u, flight[n])' <=> Points(n, u, flight[n])
    BY DEF Points
  <1>4. \A s \in Session : Active(n, u, s) =>
          (Points(n, u, flight[n] \o todo[s])' <=> Points(n, u, flight[n] \o todo[s]))
    BY <1>2 DEF Points
  <1>5. Alone(n, u)'
    BY <1>1 DEF Alone
  <1> QED
    BY <1>1, <1>3, <1>4, <1>5 DEF Catching

(* t, told after q, takes a user from v to w, wherever they are shown.      *)
Moves(q, t, u, v, w) == \A m : Leads(q, u, m, v) => Leads(q \o t, u, m, w)

(* A handler starts on a message: it moves its user to v and has t to tell. *)
LEMMA HandlerStarts ==
  ASSUME MirrorInv, NEW s \in Session, NEW t \in Seq(Event), NEW v \in Channel \cup {NoChannel},
         t # <<>>, \A k \in 1..Len(t) : t[k].user = UserOf[s],
         todo[s] = <<>>, SetVoiceChannel(s, v),
         todo' = [todo EXCEPT ![s] = t],
         disturbed' = disturbed \cup Interleaved(s),
         UNCHANGED <<mirror, flight, bounds>>,
         Moves(flight[Home[s]], t, UserOf[s], VoiceChannel(s), v)
  PROVE  MirrorInv'
  <1>0. /\ MirrorTypeOK /\ MirrorTablesAgree /\ TellsOfUser
        /\ \A n \in Node, u \in User :
             <<n, u>> \notin disturbed => Alone(n, u) /\ Catching(n, u)
    BY DEF MirrorInv
  <1>1. Home[s] \in Node /\ UserOf[s] \in User
    BY SessionAssumption
  <1>2. /\ UNCHANGED <<remote_user_voice_channel, remote_voice_participants, flight>>
        /\ UNCHANGED <<losses, restarts>>
    BY DEF mirror, bounds
  <1>3. MirrorTypeOK'
    <2>1. local_voice_channel' \in [Node -> [User -> Channel \cup {NoChannel}]]
      BY <1>0, <1>1 DEF MirrorTypeOK, SetVoiceChannel
    <2>2. todo' \in [Session -> Seq(Event)]
      BY <1>0 DEF MirrorTypeOK
    <2>3. disturbed' \subseteq Node \X User
      BY <1>0, <1>1 DEF MirrorTypeOK, Interleaved
    <2> QED
      BY <1>0, <1>2, <2>1, <2>2, <2>3 DEF MirrorTypeOK
  <1>4. MirrorTablesAgree'
    BY <1>0, <1>2 DEF MirrorTablesAgree
  <1>5. /\ todo'[s] = t
        /\ \A x \in Session : x # s => todo'[x] = todo[x]
    BY <1>0 DEF MirrorTypeOK
  <1>6. TellsOfUser'
    BY <1>0, <1>5 DEF TellsOfUser
  <1>7. /\ local_voice_channel'[Home[s]][UserOf[s]] = v
        /\ \A n \in Node, u \in User : ~(n = Home[s] /\ u = UserOf[s])
             => local_voice_channel'[n][u] = local_voice_channel[n][u]
    BY <1>0, <1>1 DEF MirrorTypeOK, SetVoiceChannel
  <1>8. ASSUME NEW n \in Node, NEW u \in User, <<n, u>> \notin disturbed',
               n = Home[s] /\ u = UserOf[s]
        PROVE  Alone(n, u)' /\ Catching(n, u)'
    <2>1. <<n, u>> \notin disturbed
      BY <1>8
    <2>2. \A x \in Session : x # s /\ Home[x] = n /\ UserOf[x] = u => todo[x] = <<>>
      BY <1>8 DEF Interleaved
    <2>3. \A x \in Session : ~Active(n, u, x)
      BY <1>8, <2>2 DEF Active
    <2>4. \A x \in Session : Active(n, u, x)' => x = s
      BY <1>5, <2>2 DEF Active
    <2>5. Active(n, u, s)'
      BY <1>5, <1>8 DEF Active
    <2>6. Leads(flight[n], u, remote_user_voice_channel[Peer[n]][u], VoiceChannel(s))
      BY <1>0, <1>8, <2>1, <2>3 DEF Catching, Points, VoiceChannel
    <2>7. Leads(flight[n] \o t, u, remote_user_voice_channel[Peer[n]][u], v)
      BY <1>8, <2>6 DEF Moves
    <2>8. Points(n, u, flight[n] \o todo[s])'
      BY <1>2, <1>5, <1>7, <1>8, <2>7 DEF Points
    <2> QED
      BY <2>4, <2>5, <2>8 DEF Alone, Catching
  <1>9. ASSUME NEW n \in Node, NEW u \in User, <<n, u>> \notin disturbed',
               ~(n = Home[s] /\ u = UserOf[s])
        PROVE  Alone(n, u)' /\ Catching(n, u)'
    <2>1. Alone(n, u) /\ Catching(n, u)
      BY <1>0, <1>9
    <2>2. \A x \in Session : Home[x] = n /\ UserOf[x] = u => todo'[x] = todo[x]
      BY <1>5, <1>9
    <2>3. local_voice_channel'[n][u] = local_voice_channel[n][u]
      BY <1>7, <1>9
    <2> QED
      BY <1>2, <2>1, <2>2, <2>3, Untouched
  <1> QED
    BY <1>3, <1>4, <1>6, <1>8, <1>9 DEF MirrorInv

LEMMA JoinStep ==
  ASSUME MirrorInv, NEW s \in Session, NEW c \in Channel, Join(s, c)
  PROVE  MirrorInv'
  <1>0. MirrorTypeOK
    BY DEF MirrorInv
  <1>1. PICK p : p = VoiceChannel(s)
    OBVIOUS
  <1>2. PICK e : e = JoinEvent(s, c)
    OBVIOUS
  <1>3. PICK f : f = LeaveEvent(s, p)
    OBVIOUS
  <1>4. /\ e \in Event /\ e.user = UserOf[s] /\ e.kind = "join" /\ e.channel = c
        /\ p \in Channel \cup {NoChannel}
        /\ f.user = UserOf[s] /\ f.kind = "leave" /\ f.channel = p
    BY <1>0, <1>1, <1>2, <1>3, EventTypes DEF JoinEvent, LeaveEvent
  <1>5. p \notin {NoChannel, c} => f \in Event
    BY <1>0, <1>3, <1>4, EventTypes
  <1>6. PICK q : q = flight[Home[s]]
    OBVIOUS
  <1>7. q \in Seq(Event)
    BY <1>0, <1>6, SessionAssumption DEF MirrorTypeOK
  <1>8. \A m : Leads(Append(q, e), UserOf[s], m, c)
    BY <1>4, <1>7, JoinLeads
  <1>9. /\ todo[s] = <<>> /\ SetVoiceChannel(s, c)
        /\ todo' = [todo EXCEPT ![s] = <<e>> \o (IF p \in {NoChannel, c} THEN <<>> ELSE <<f>>)]
        /\ disturbed' = disturbed \cup Interleaved(s)
        /\ UNCHANGED <<mirror, flight, bounds>>
    BY <1>1, <1>2, <1>3 DEF Join
  <1>10. CASE p \in {NoChannel, c}
    <2>1. PICK t : t = <<e>>
      OBVIOUS
    <2>2. <<e>> \o <<>> = <<e>>
      BY <1>4, ConcatEmptySeq
    <2>3. q \o t = Append(q, e)
      BY <1>4, <1>7, <2>1, TwoMore
    <2>4. /\ t \in Seq(Event) /\ t # <<>>
          /\ \A k \in 1..Len(t) : t[k].user = UserOf[s]
      BY <1>4, <2>1
    <2>5. todo' = [todo EXCEPT ![s] = t]
      BY <1>9, <1>10, <2>1, <2>2
    <2>6. Moves(q, t, UserOf[s], p, c)
      BY <1>8, <2>3 DEF Moves
    <2> QED
      BY <1>1, <1>6, <1>9, <2>4, <2>5, <2>6, HandlerStarts
  <1>11. CASE p \notin {NoChannel, c}
    <2>1. PICK t : t = <<e>> \o <<f>>
      OBVIOUS
    <2>2. f \in Event
      BY <1>5, <1>11
    <2>3. q \o t = Append(Append(q, e), f) /\ t = Append(<<e>>, f)
      BY <1>4, <1>7, <2>1, <2>2, TwoMore
    <2>4. /\ t \in Seq(Event) /\ t # <<>>
          /\ \A k \in 1..Len(t) : t[k].user = UserOf[s]
      <3>1. PICK o : o = <<e>>
        OBVIOUS
      <3>2. o \in Seq(Event) /\ Len(o) = 1 /\ o[1] = e
        BY <1>4, <3>1
      <3>3. t \in Seq(Event) /\ Len(t) = 2 /\ t[1] = e /\ t[2] = f
        BY <2>2, <2>3, <3>1, <3>2
      <3>4. t # <<>>
        <4>1. Len(<<>>) = 0 /\ 0 # 2
          OBVIOUS
        <4>2. Len(t) = 2
          BY <3>3
        <4> QED
          BY ONLY <4>1, <4>2, Zenon
      <3>5. \A k \in 1..Len(t) : k = 1 \/ k = 2
        BY <3>3
      <3>6. \A k \in 1..Len(t) : t[k].user = UserOf[s]
        BY <1>4, <3>3, <3>5
      <3> QED
        BY <3>3, <3>4, <3>6
    <2>5. Moves(q, t, UserOf[s], p, c)
      <3>1. Append(q, e) \in Seq(Event) /\ c # p
        BY <1>4, <1>7, <1>11
      <3> QED
        BY <1>4, <1>8, <2>2, <2>3, <3>1, LeaveLeads DEF Moves
    <2>6. todo' = [todo EXCEPT ![s] = t]
      BY <1>9, <1>11, <2>1
    <2> QED
      BY <1>1, <1>6, <1>9, <2>4, <2>5, <2>6, HandlerStarts
  <1> QED
    BY <1>10, <1>11

LEMMA LeaveStep ==
  ASSUME MirrorInv, NEW s \in Session, NEW channel \in Channel \cup {NoChannel}, Leave(s, channel)
  PROVE  MirrorInv'
  <1>0. MirrorTypeOK
    BY DEF MirrorInv
  <1>1. PICK g : g = IF channel = NoChannel THEN VoiceChannel(s) ELSE channel
    OBVIOUS
  <1>2. PICK e : e = LeaveEvent(s, g)
    OBVIOUS
  <1>3. /\ todo[s] = <<>> /\ g # NoChannel /\ VoiceChannel(s) \in {NoChannel, g}
        /\ SetVoiceChannel(s, NoChannel)
        /\ todo' = [todo EXCEPT ![s] = <<e>>]
        /\ disturbed' = disturbed \cup Interleaved(s)
        /\ UNCHANGED <<mirror, flight, bounds>>
    BY <1>1, <1>2 DEF Leave
  <1>4. g \in Channel
    BY <1>0, <1>1, <1>3, EventTypes
  <1>5. e \in Event /\ e.user = UserOf[s] /\ e.kind = "leave" /\ e.channel = g
    BY <1>0, <1>2, <1>4, EventTypes DEF LeaveEvent
  <1>6. PICK q : q = flight[Home[s]]
    OBVIOUS
  <1>7. q \in Seq(Event)
    BY <1>0, <1>6, SessionAssumption DEF MirrorTypeOK
  <1>8. PICK v : v = VoiceChannel(s)
    OBVIOUS
  <1>9. \A m : Leads(q, UserOf[s], m, v) => Leads(Append(q, e), UserOf[s], m, NoChannel)
    <2>1. NoChannel = IF v = e.channel THEN NoChannel ELSE v
      BY <1>3, <1>5, <1>8
    <2> QED
      BY <1>5, <1>7, <2>1, LeaveLeads
  <1>10. PICK t : t = <<e>>
    OBVIOUS
  <1>11. q \o t = Append(q, e)
    BY <1>5, <1>7, <1>10, TwoMore
  <1>12. /\ t \in Seq(Event) /\ t # <<>>
         /\ \A k \in 1..Len(t) : t[k].user = UserOf[s]
    BY <1>5, <1>10
  <1>13. Moves(q, t, UserOf[s], v, NoChannel)
    BY <1>9, <1>11 DEF Moves
  <1> QED
    BY <1>3, <1>6, <1>8, <1>10, <1>12, <1>13, HandlerStarts

LEMMA StatusStep ==
  ASSUME MirrorInv, NEW s \in Session, Status(s)
  PROVE  MirrorInv'
  <1>0. MirrorTypeOK
    BY DEF MirrorInv
  <1>1. PICK v : v = VoiceChannel(s)
    OBVIOUS
  <1>2. PICK e : e = JoinEvent(s, v)
    OBVIOUS
  <1>3. /\ todo[s] = <<>> /\ v # NoChannel
        /\ todo' = [todo EXCEPT ![s] = <<e>>]
        /\ disturbed' = disturbed \cup Interleaved(s)
        /\ UNCHANGED <<local_voice_channel, mirror, flight, bounds>>
    BY <1>1, <1>2 DEF Status
  <1>4. v \in Channel
    BY <1>0, <1>1, <1>3, EventTypes
  <1>5. e \in Event /\ e.user = UserOf[s] /\ e.kind = "join" /\ e.channel = v
    BY <1>0, <1>2, <1>4, EventTypes DEF JoinEvent
  <1>6. PICK q : q = flight[Home[s]]
    OBVIOUS
  <1>7. q \in Seq(Event)
    BY <1>0, <1>6, SessionAssumption DEF MirrorTypeOK
  <1>8. \A m : Leads(Append(q, e), UserOf[s], m, v)
    BY <1>5, <1>7, JoinLeads
  <1>9. PICK t : t = <<e>>
    OBVIOUS
  <1>10. q \o t = Append(q, e)
    BY <1>5, <1>7, <1>9, TwoMore
  <1>11. /\ t \in Seq(Event) /\ t # <<>>
         /\ \A k \in 1..Len(t) : t[k].user = UserOf[s]
    BY <1>5, <1>9
  <1>12. SetVoiceChannel(s, v)
    <2>1. /\ Home[s] \in Node /\ UserOf[s] \in User
      BY SessionAssumption
    <2>2. local_voice_channel[Home[s]] = [local_voice_channel[Home[s]] EXCEPT ![UserOf[s]] = v]
      BY <1>0, <1>1, <2>1 DEF MirrorTypeOK, VoiceChannel
    <2>3. local_voice_channel = [local_voice_channel EXCEPT ![Home[s]][UserOf[s]] = v]
      BY <1>0, <2>1, <2>2 DEF MirrorTypeOK
    <2> QED
      BY <1>3, <2>3 DEF SetVoiceChannel
  <1>13. Moves(q, t, UserOf[s], v, v)
    BY <1>8, <1>10 DEF Moves
  <1> QED
    BY <1>1, <1>3, <1>4, <1>6, <1>9, <1>11, <1>12, <1>13, HandlerStarts

LEMMA QueueStep ==
  ASSUME MirrorInv, NEW s \in Session, Queue(s)
  PROVE  MirrorInv'
  <1>0. /\ MirrorTypeOK /\ MirrorTablesAgree /\ TellsOfUser
        /\ \A n \in Node, u \in User :
             <<n, u>> \notin disturbed => Alone(n, u) /\ Catching(n, u)
    BY DEF MirrorInv
  <1>1. Home[s] \in Node /\ UserOf[s] \in User
    BY SessionAssumption
  <1>2. /\ todo[s] # <<>>
        /\ flight' = [flight EXCEPT ![Home[s]] = Append(@, Head(todo[s]))]
        /\ todo' = [todo EXCEPT ![s] = Tail(@)]
        /\ UNCHANGED <<local_voice_channel, remote_user_voice_channel, remote_voice_participants>>
        /\ UNCHANGED <<losses, restarts, disturbed>>
    BY DEF Queue, mirror, bounds
  <1>3. PICK q : q = flight[Home[s]]
    OBVIOUS
  <1>4. PICK t : t = todo[s]
    OBVIOUS
  <1>5. PICK e : e = Head(t)
    OBVIOUS
  <1>6. /\ q \in Seq(Event) /\ t \in Seq(Event) /\ t # <<>>
    BY <1>0, <1>1, <1>2, <1>3, <1>4 DEF MirrorTypeOK
  <1>7. e \in Event /\ e = t[1] /\ 1 \in 1..Len(t)
    BY <1>5, <1>6
  <1>8. e.user = UserOf[s]
    BY <1>0, <1>4, <1>7 DEF TellsOfUser
  <1>9. /\ Tail(t) \in Seq(Event)
        /\ \A k \in 1..Len(Tail(t)) : Tail(t)[k] = t[k + 1] /\ k + 1 \in 1..Len(t)
    BY <1>6
  <1>10. /\ flight'[Home[s]] = Append(q, e)
         /\ \A n \in Node : n # Home[s] => flight'[n] = flight[n]
         /\ todo'[s] = Tail(t)
         /\ \A x \in Session : x # s => todo'[x] = todo[x]
    BY <1>0, <1>1, <1>2, <1>3, <1>4, <1>5 DEF MirrorTypeOK
  <1>11. MirrorTypeOK'
    <2>1. flight' \in [Node -> Seq(Event)]
      BY <1>0, <1>1, <1>2, <1>3, <1>4, <1>5, <1>6, <1>7 DEF MirrorTypeOK
    <2>2. todo' \in [Session -> Seq(Event)]
      BY <1>0, <1>2, <1>4, <1>9 DEF MirrorTypeOK
    <2> QED
      BY <1>0, <1>2, <2>1, <2>2 DEF MirrorTypeOK
  <1>12. MirrorTablesAgree'
    BY <1>0, <1>2 DEF MirrorTablesAgree
  <1>13. TellsOfUser'
    <2>1. \A k \in 1..Len(Tail(t)) : Tail(t)[k].user = UserOf[s]
      BY <1>0, <1>4, <1>9 DEF TellsOfUser
    <2>2. \A k \in 1..Len(todo'[s]) : todo'[s][k].user = UserOf[s]
      BY <1>10, <2>1
    <2>3. ASSUME NEW x \in Session, x # s
          PROVE  \A k \in 1..Len(todo'[x]) : todo'[x][k].user = UserOf[x]
      BY <1>0, <1>10, <2>3 DEF TellsOfUser
    <2> QED
      BY <2>2, <2>3 DEF TellsOfUser
  <1>14. ASSUME NEW n \in Node, NEW u \in User, <<n, u>> \notin disturbed', n = Home[s]
         PROVE  Alone(n, u)' /\ Catching(n, u)'
    <2>1. Alone(n, u) /\ Catching(n, u)
      BY <1>0, <1>2, <1>14
    <2>2. \A x \in Session : Active(n, u, x)' => Active(n, u, x)
      BY <1>2, <1>10 DEF Active
    <2>3. Alone(n, u)'
      BY <2>1, <2>2 DEF Alone
    <2>4. \A w : Points(n, u, w)' <=> Points(n, u, w)
      BY <1>2 DEF Points
    <2>5. CASE u = UserOf[s]
      <3>1. Active(n, u, s)
        BY <1>2, <1>14, <2>5 DEF Active
      <3>2. Points(n, u, q \o t)
        BY <1>3, <1>4, <1>14, <2>1, <3>1 DEF Catching
      <3>3. Append(q, e) \o Tail(t) = q \o t
        BY <1>5, <1>6, QueueNext
      <3>4. ASSUME \A x \in Session : ~Active(n, u, x)'
            PROVE  Points(n, u, Append(q, e))
        <4>1. Tail(t) = <<>>
          BY <1>10, <1>14, <2>5, <3>4 DEF Active
        <4>2. Append(q, e) \in Seq(Event)
          BY <1>6, <1>7
        <4>3. Append(q, e) \o Tail(t) = Append(q, e)
          BY <4>1, <4>2, ConcatEmptySeq
        <4> QED
          BY <3>2, <3>3, <4>3
      <3>5. ASSUME NEW x \in Session, Active(n, u, x)'
            PROVE  Points(n, u, Append(q, e) \o todo'[x])
        <4>1. x = s
          BY <2>1, <2>2, <3>1, <3>5 DEF Alone
        <4> QED
          BY <1>10, <3>2, <3>3, <4>1
      <3> QED
        BY <1>10, <1>14, <2>3, <2>4, <3>4, <3>5 DEF Catching, Points
    <2>6. CASE u # UserOf[s]
      <3>0. PICK a, i : a = Append(q, e) /\ i = Len(q) + 1
        OBVIOUS
      <3>1. a \in Seq(Event) /\ i \in 1..Len(a) /\ a[i] = e /\ Cut(a, i, q)
        BY <1>6, <1>7, <3>0, AppendCut
      <3>2. \A x \in Session : Active(n, u, x)' <=> Active(n, u, x)
        BY <1>10, <2>6 DEF Active
      <3>3. \A x \in Session : Active(n, u, x) => todo'[x] = todo[x]
        BY <1>10, <2>6 DEF Active
      <3>4. Points(n, u, q) => Points(n, u, a)
        <4>1. a[i].user # u
          BY <1>8, <2>6, <3>1
        <4> QED
          BY <1>6, <3>1, <4>1, LeadsElsewhere DEF Points
      <3>5. ASSUME NEW x \in Session, Active(n, u, x)
            PROVE  Points(n, u, q \o todo[x]) => Points(n, u, a \o todo[x])
        <4>1. PICK z : z = todo[x]
          OBVIOUS
        <4>2. z \in Seq(Event)
          BY <1>0, <4>1 DEF MirrorTypeOK
        <4>3. /\ a \o z \in Seq(Event) /\ q \o z \in Seq(Event)
              /\ i \in 1..Len(a \o z) /\ (a \o z)[i] = a[i]
              /\ Cut(a \o z, i, q \o z)
          BY <1>6, <3>1, <4>2, CutFront
        <4>4. (a \o z)[i].user # u
          BY <1>8, <2>6, <3>1, <4>3
        <4>5. Points(n, u, q \o z) => Points(n, u, a \o z)
          BY <4>3, <4>4, LeadsElsewhere DEF Points
        <4> QED
          BY <4>1, <4>5
      <3>6. flight[n] = q /\ flight'[n] = a
        BY <1>3, <1>10, <1>14, <3>0
      <3>7. (\A x \in Session : ~Active(n, u, x)') => Points(n, u, a)'
        BY <2>1, <2>4, <3>2, <3>4, <3>6 DEF Catching
      <3>8. \A x \in Session : Active(n, u, x)' => Points(n, u, a \o todo[x])
        BY <2>1, <3>2, <3>5, <3>6 DEF Catching
      <3> QED
        BY <2>3, <2>4, <3>2, <3>3, <3>6, <3>7, <3>8 DEF Catching, Points
    <2> QED
      BY <2>5, <2>6
  <1>15. ASSUME NEW n \in Node, NEW u \in User, <<n, u>> \notin disturbed', n # Home[s]
         PROVE  Alone(n, u)' /\ Catching(n, u)'
    <2>1. Alone(n, u) /\ Catching(n, u)
      BY <1>0, <1>2, <1>15
    <2>2. \A x \in Session : Home[x] = n /\ UserOf[x] = u => todo'[x] = todo[x]
      BY <1>10, <1>15
    <2> QED
      BY <1>2, <1>10, <1>15, <2>1, <2>2, Untouched
  <1> QED
    BY <1>11, <1>12, <1>13, <1>14, <1>15 DEF MirrorInv

LEMMA RaiseStep ==
  ASSUME MirrorInv, NEW s \in Session, Raise(s)
  PROVE  MirrorInv'
  <1>0. /\ MirrorTypeOK /\ MirrorTablesAgree /\ TellsOfUser
        /\ \A n \in Node, u \in User :
             <<n, u>> \notin disturbed => Alone(n, u) /\ Catching(n, u)
    BY DEF MirrorInv
  <1>1. Home[s] \in Node /\ UserOf[s] \in User
    BY SessionAssumption
  <1>2. /\ losses < MaxLosses /\ losses' = losses + 1
        /\ disturbed' = disturbed \cup {<<Home[s], UserOf[s]>>}
        /\ SetVoiceChannel(s, NoChannel)
        /\ UNCHANGED <<remote_user_voice_channel, remote_voice_participants, flight, restarts>>
    BY DEF Raise, mirror
  <1>3. PICK t : t = IF VoiceChannel(s) = NoChannel THEN <<>>
                     ELSE <<LeaveEvent(s, VoiceChannel(s))>>
    OBVIOUS
  <1>4. t \in Seq(Event) /\ \A k \in 1..Len(t) : t[k].user = UserOf[s]
    <2>1. CASE VoiceChannel(s) = NoChannel
      BY <1>3, <2>1
    <2>2. CASE VoiceChannel(s) # NoChannel
      <3>1. PICK e : e = LeaveEvent(s, VoiceChannel(s))
        OBVIOUS
      <3>2. e \in Event /\ e.user = UserOf[s] /\ t = <<e>>
        BY <1>0, <1>3, <2>2, <3>1, EventTypes DEF LeaveEvent
      <3> QED
        BY <3>2
    <2> QED
      BY <2>1, <2>2
  <1>5. todo' = [todo EXCEPT ![s] = <<>>] \/ todo' = [todo EXCEPT ![s] = t]
    BY <1>3 DEF Raise
  <1>6. /\ todo' \in [Session -> Seq(Event)]
        /\ todo'[s] = <<>> \/ todo'[s] = t
        /\ \A x \in Session : x # s => todo'[x] = todo[x]
    <2>1. <<>> \in Seq(Event) /\ todo \in [Session -> Seq(Event)]
      BY <1>0 DEF MirrorTypeOK
    <2>2. CASE todo' = [todo EXCEPT ![s] = <<>>]
      BY <2>1, <2>2
    <2>3. CASE todo' = [todo EXCEPT ![s] = t]
      BY <1>4, <2>1, <2>3
    <2> QED
      BY <1>5, <2>2, <2>3
  <1>7. MirrorTypeOK'
    <2>1. local_voice_channel' \in [Node -> [User -> Channel \cup {NoChannel}]]
      BY <1>0, <1>1, <1>2 DEF MirrorTypeOK, SetVoiceChannel
    <2>2. losses' \in 0..MaxLosses
      BY <1>0, <1>2, BoundAssumption DEF MirrorTypeOK
    <2>3. disturbed' \subseteq Node \X User
      BY <1>0, <1>1, <1>2 DEF MirrorTypeOK
    <2> QED
      BY <1>0, <1>2, <1>6, <2>1, <2>2, <2>3 DEF MirrorTypeOK
  <1>8. MirrorTablesAgree'
    BY <1>0, <1>2 DEF MirrorTablesAgree
  <1>9. TellsOfUser'
    <2>1. \A k \in 1..Len(todo'[s]) : todo'[s][k].user = UserOf[s]
      BY <1>4, <1>6
    <2>2. ASSUME NEW x \in Session, x # s
          PROVE  \A k \in 1..Len(todo'[x]) : todo'[x][k].user = UserOf[x]
      BY <1>0, <1>6, <2>2 DEF TellsOfUser
    <2> QED
      BY <2>1, <2>2 DEF TellsOfUser
  <1>10. ASSUME NEW n \in Node, NEW u \in User, <<n, u>> \notin disturbed'
         PROVE  Alone(n, u)' /\ Catching(n, u)'
    <2>1. Alone(n, u) /\ Catching(n, u) /\ ~(n = Home[s] /\ u = UserOf[s])
      BY <1>0, <1>2, <1>10
    <2>2. \A x \in Session : Home[x] = n /\ UserOf[x] = u => todo'[x] = todo[x]
      BY <1>6, <2>1
    <2>3. local_voice_channel'[n][u] = local_voice_channel[n][u]
      BY <1>0, <1>1, <1>2, <2>1 DEF MirrorTypeOK, SetVoiceChannel
    <2> QED
      BY <1>2, <2>1, <2>2, <2>3, Untouched
  <1> QED
    BY <1>7, <1>8, <1>9, <1>10 DEF MirrorInv

-----------------------------------------------------------------------------
(* Events arrive, are lost, and nodes restart                               *)

(* A node's event goes: nothing changes for the users it is not about.      *)
LEMMA EventOfAnother ==
  ASSUME MirrorTypeOK, NEW n \in Node, NEW i \in 1..Len(flight[n]),
         flight' = [flight EXCEPT ![n] = Without(@, i)],
         UNCHANGED <<local_voice_channel, todo>>,
         NEW k \in Node, NEW u \in User, ~(k = n /\ u = flight[n][i].user),
         remote_user_voice_channel'[Peer[k]][u] = remote_user_voice_channel[Peer[k]][u],
         Alone(k, u), Catching(k, u)
  PROVE  Alone(k, u)' /\ Catching(k, u)'
  <1>1. PICK q, r : q = flight[n] /\ r = Without(flight[n], i)
    OBVIOUS
  <1>2. q \in Seq(Event) /\ r \in Seq(Event) /\ i \in 1..Len(q) /\ Cut(q, i, r)
    BY <1>1, WithoutCut DEF MirrorTypeOK
  <1>3. flight'[n] = r /\ \A x \in Node : x # n => flight'[x] = flight[x]
    BY <1>1 DEF MirrorTypeOK
  <1>4. CASE k # n
    BY <1>3, <1>4, Untouched
  <1>5. CASE k = n
    <2>1. q[i].user # u
      BY <1>1, <1>5
    <2>2. \A w : Points(k, u, w)' <=> Points(k, u, w)
      BY DEF Points
    <2>3. \A x \in Session : (Active(k, u, x)' <=> Active(k, u, x)) /\ todo'[x] = todo[x]
      BY DEF Active
    <2>4. Points(k, u, q) => Points(k, u, r)
      BY <1>2, <2>1, LeadsElsewhere DEF Points
    <2>5. ASSUME NEW x \in Session, Active(k, u, x)
          PROVE  Points(k, u, q \o todo[x]) => Points(k, u, r \o todo[x])
      <3>1. PICK z : z = todo[x]
        OBVIOUS
      <3>2. z \in Seq(Event)
        BY <3>1 DEF MirrorTypeOK
      <3>3. /\ q \o z \in Seq(Event) /\ r \o z \in Seq(Event)
            /\ i \in 1..Len(q \o z) /\ (q \o z)[i] = q[i]
            /\ Cut(q \o z, i, r \o z)
        BY <1>2, <3>2, CutFront
      <3>4. (q \o z)[i].user # u
        BY <2>1, <3>3
      <3>5. Points(k, u, q \o z) => Points(k, u, r \o z)
        BY <3>3, <3>4, LeadsElsewhere DEF Points
      <3> QED
        BY <3>1, <3>5
    <2>6. Alone(k, u)'
      BY <2>3 DEF Alone
    <2>7. flight[k] = q /\ flight'[k] = r
      BY <1>1, <1>3, <1>5
    <2>8. (\A x \in Session : ~Active(k, u, x)') => Points(k, u, r)
      BY <2>3, <2>4, <2>7 DEF Catching
    <2>9. \A x \in Session : Active(k, u, x)' => Points(k, u, r \o todo[x])
      BY <2>3, <2>5, <2>7 DEF Catching
    <2> QED
      BY <2>2, <2>3, <2>6, <2>7, <2>8, <2>9 DEF Catching, Points
  <1> QED
    BY <1>4, <1>5

(* What the mirror makes of an event.                                       *)
Shown(m, e) ==
  IF e.kind = "join" THEN e.channel
  ELSE IF m = e.channel THEN NoChannel ELSE m

Applied(p, e) ==
  /\ remote_user_voice_channel' \in [Node -> [User -> Channel \cup {NoChannel}]]
  /\ remote_voice_participants' \in [Node -> [Channel -> SUBSET User]]
  /\ MirrorTablesAgree'
  /\ remote_user_voice_channel'[p][e.user] = Shown(remote_user_voice_channel[p][e.user], e)
  /\ \A x \in Node, u \in User : ~(x = p /\ u = e.user) =>
       remote_user_voice_channel'[x][u] = remote_user_voice_channel[x][u]

LEMMA EnterApplied ==
  ASSUME MirrorTypeOK, MirrorTablesAgree, NEW p \in Node, NEW e \in Event, e.kind = "join",
         EnterRemote(p, e.user, e.channel)
  PROVE  Applied(p, e)
  <1>0. e.user \in User /\ e.channel \in Channel
    BY DEF Event
  <1>1. PICK u, c : u = e.user /\ c = e.channel
    OBVIOUS
  <1>2. u \in User /\ c \in Channel
    BY <1>0, <1>1
  <1>3. PICK m : m = remote_user_voice_channel[p][u]
    OBVIOUS
  <1>4. /\ remote_voice_participants' =
             [remote_voice_participants EXCEPT ![p] =
                [x \in Channel |->
                   IF x = c THEN @[x] \cup {u}
                   ELSE IF x = m THEN @[x] \ {u} ELSE @[x]]]
        /\ remote_user_voice_channel' = [remote_user_voice_channel EXCEPT ![p][u] = c]
    BY <1>1, <1>3 DEF EnterRemote
  <1>5. /\ remote_user_voice_channel' \in [Node -> [User -> Channel \cup {NoChannel}]]
        /\ remote_user_voice_channel'[p][u] = c
        /\ \A x \in Node, v \in User : ~(x = p /\ v = u) =>
             remote_user_voice_channel'[x][v] = remote_user_voice_channel[x][v]
    BY <1>2, <1>4 DEF MirrorTypeOK
  <1>6. /\ remote_voice_participants' \in [Node -> [Channel -> SUBSET User]]
        /\ \A x \in Node \ {p} : remote_voice_participants'[x] = remote_voice_participants[x]
        /\ \A x \in Channel :
             remote_voice_participants'[p][x] =
               IF x = c THEN remote_voice_participants[p][x] \cup {u}
               ELSE IF x = m THEN remote_voice_participants[p][x] \ {u}
               ELSE remote_voice_participants[p][x]
    BY <1>2, <1>4 DEF MirrorTypeOK
  <1>7. ASSUME NEW x \in Node, NEW d \in Channel
        PROVE  remote_voice_participants'[x][d] =
                 {v \in User : remote_user_voice_channel'[x][v] = d}
    <2>1. remote_voice_participants[x][d] = {v \in User : remote_user_voice_channel[x][v] = d}
      BY DEF MirrorTablesAgree
    <2>2. remote_voice_participants'[x][d] \subseteq User
      BY <1>6
    <2>3. ASSUME NEW v \in User
          PROVE  v \in remote_voice_participants'[x][d] <=> remote_user_voice_channel'[x][v] = d
      <3>1. v \in remote_voice_participants[x][d] <=> remote_user_voice_channel[x][v] = d
        BY <2>1
      <3>2. CASE x # p
        BY <1>5, <1>6, <3>1, <3>2
      <3>3. CASE x = p /\ v # u
        <4>1. v \in remote_voice_participants'[p][d] <=> v \in remote_voice_participants[p][d]
          <5>1. remote_voice_participants'[p][d] =
                  IF d = c THEN remote_voice_participants[p][d] \cup {u}
                  ELSE IF d = m THEN remote_voice_participants[p][d] \ {u}
                  ELSE remote_voice_participants[p][d]
            BY <1>6
          <5> QED
            BY <3>3, <5>1
        <4>2. remote_user_voice_channel'[p][v] = remote_user_voice_channel[p][v]
          BY <1>5, <3>3
        <4> QED
          BY <3>1, <3>3, <4>1, <4>2
      <3>4. CASE x = p /\ v = u
        BY <1>3, <1>5, <1>6, <3>1, <3>4
      <3> QED
        BY <3>2, <3>3, <3>4
    <2> QED
      BY <2>2, <2>3
  <1> QED
    BY <1>1, <1>5, <1>6, <1>7 DEF Applied, Shown, MirrorTablesAgree

LEMMA QuitApplied ==
  ASSUME MirrorTypeOK, MirrorTablesAgree, NEW p \in Node, NEW e \in Event, e.kind # "join",
         QuitRemote(p, e.user, e.channel)
  PROVE  Applied(p, e)
  <1>0. e.user \in User /\ e.channel \in Channel
    BY DEF Event
  <1>1. PICK u, c : u = e.user /\ c = e.channel
    OBVIOUS
  <1>2. u \in User /\ c \in Channel /\ c # NoChannel
    BY <1>0, <1>1, ChannelAssumption
  <1>3. PICK m : m = remote_user_voice_channel[p][u]
    OBVIOUS
  <1>4. CASE m \notin {NoChannel, c}
    <2>1. UNCHANGED <<remote_user_voice_channel, remote_voice_participants>>
      BY <1>1, <1>3, <1>4 DEF QuitRemote, mirror
    <2>2. MirrorTablesAgree'
      BY <2>1 DEF MirrorTablesAgree
    <2> QED
      BY <1>1, <1>3, <1>4, <2>1, <2>2 DEF Applied, Shown, MirrorTypeOK
  <1>5. CASE m \in {NoChannel, c}
    <2>1. /\ remote_voice_participants' = [remote_voice_participants EXCEPT ![p][c] = @ \ {u}]
          /\ remote_user_voice_channel' = [remote_user_voice_channel EXCEPT ![p][u] = NoChannel]
      BY <1>1, <1>3, <1>5 DEF QuitRemote
    <2>2. /\ remote_user_voice_channel' \in [Node -> [User -> Channel \cup {NoChannel}]]
          /\ remote_user_voice_channel'[p][u] = NoChannel
          /\ \A x \in Node, v \in User : ~(x = p /\ v = u) =>
               remote_user_voice_channel'[x][v] = remote_user_voice_channel[x][v]
      BY <1>2, <2>1 DEF MirrorTypeOK
    <2>3. /\ remote_voice_participants' \in [Node -> [Channel -> SUBSET User]]
          /\ remote_voice_participants'[p][c] = remote_voice_participants[p][c] \ {u}
          /\ \A x \in Node, d \in Channel : ~(x = p /\ d = c) =>
               remote_voice_participants'[x][d] = remote_voice_participants[x][d]
      BY <1>2, <2>1 DEF MirrorTypeOK
    <2>4. ASSUME NEW x \in Node, NEW d \in Channel
          PROVE  remote_voice_participants'[x][d] =
                 {v \in User : remote_user_voice_channel'[x][v] = d}
      <3>1. remote_voice_participants[x][d] = {v \in User : remote_user_voice_channel[x][v] = d}
        BY DEF MirrorTablesAgree
      <3>2. d # NoChannel
        BY ChannelAssumption
      <3>3. remote_voice_participants'[x][d] \subseteq User
        BY <2>3
      <3>4. ASSUME NEW v \in User
            PROVE  v \in remote_voice_participants'[x][d] <=> remote_user_voice_channel'[x][v] = d
        <4>1. v \in remote_voice_participants[x][d] <=> remote_user_voice_channel[x][v] = d
          BY <3>1
        <4>2. CASE x # p
          BY <2>2, <2>3, <4>1, <4>2
        <4>3. CASE x = p /\ v # u
          BY <2>2, <2>3, <4>1, <4>3
        <4>4. CASE x = p /\ v = u
          BY <1>3, <1>5, <2>2, <2>3, <3>2, <4>1, <4>4
        <4> QED
          BY <4>2, <4>3, <4>4
      <3> QED
        BY <3>3, <3>4
    <2> QED
      BY <1>1, <1>3, <1>5, <2>2, <2>3, <2>4 DEF Applied, Shown, MirrorTablesAgree
  <1> QED
    BY <1>4, <1>5

LEMMA DeliverStep ==
  ASSUME MirrorInv, NEW n \in Node, NEW i \in 1..Len(flight[n]), Deliver(n, i)
  PROVE  MirrorInv'
  <1>0. /\ MirrorTypeOK /\ MirrorTablesAgree /\ TellsOfUser
        /\ \A k \in Node, u \in User :
             <<k, u>> \notin disturbed => Alone(k, u) /\ Catching(k, u)
    BY DEF MirrorInv
  <1>1. PICK q, r, e : q = flight[n] /\ r = Without(flight[n], i) /\ e = flight[n][i]
    OBVIOUS
  <1>2. q \in Seq(Event) /\ r \in Seq(Event) /\ i \in 1..Len(q) /\ Cut(q, i, r)
    BY <1>0, <1>1, WithoutCut DEF MirrorTypeOK
  <1>3. e = q[i] /\ e \in Event
    BY <1>1, <1>2
  <1>4. e.user \in User /\ e.channel \in Channel /\ Peer[n] \in Node
    BY <1>3, NodeAssumption DEF Event
  <1>5. /\ flight' = [flight EXCEPT ![n] = Without(@, i)]
        /\ disturbed' =
             disturbed \cup
               (IF \E j \in 1..(i - 1) : flight[n][j].user = e.user
                THEN {<<n, e.user>>} ELSE {})
        /\ UNCHANGED <<local_voice_channel, todo, losses, restarts>>
    BY <1>1 DEF Deliver, bounds
  <1>6. Applied(Peer[n], e)
    <2>1. CASE e.kind = "join"
      <3>1. EnterRemote(Peer[n], e.user, e.channel)
        BY <1>1, <2>1 DEF Deliver
      <3> QED
        BY <1>0, <1>3, <1>4, <2>1, <3>1, EnterApplied
    <2>2. CASE e.kind # "join"
      <3>1. QuitRemote(Peer[n], e.user, e.channel)
        BY <1>1, <2>2 DEF Deliver
      <3> QED
        BY <1>0, <1>3, <1>4, <2>2, <3>1, QuitApplied
    <2> QED
      BY <2>1, <2>2
  <1>7. MirrorTypeOK'
    <2>1. flight' \in [Node -> Seq(Event)]
      BY <1>0, <1>1, <1>2, <1>5 DEF MirrorTypeOK
    <2>2. disturbed' \subseteq Node \X User
      BY <1>0, <1>4, <1>5 DEF MirrorTypeOK
    <2> QED
      BY <1>0, <1>5, <1>6, <2>1, <2>2 DEF MirrorTypeOK, Applied
  <1>8. MirrorTablesAgree'
    BY <1>6 DEF Applied
  <1>9. TellsOfUser'
    BY <1>0, <1>5 DEF TellsOfUser
  <1>10. ASSUME NEW k \in Node, NEW u \in User, <<k, u>> \notin disturbed',
                ~(k = n /\ u = e.user)
         PROVE  Alone(k, u)' /\ Catching(k, u)'
    <2>1. Alone(k, u) /\ Catching(k, u)
      BY <1>0, <1>5, <1>10
    <2>2. Peer[k] \in Node /\ ~(Peer[k] = Peer[n] /\ u = e.user)
      BY <1>10, NodeAssumption
    <2>3. remote_user_voice_channel'[Peer[k]][u] = remote_user_voice_channel[Peer[k]][u]
      BY <1>6, <2>2 DEF Applied
    <2>4. ~(k = n /\ u = flight[n][i].user)
      BY <1>1, <1>10
    <2>5. UNCHANGED <<local_voice_channel, todo>>
      BY <1>5
    <2> QED
      BY <1>0, <1>5, <2>1, <2>3, <2>4, <2>5, EventOfAnother
  <1>11. ASSUME NEW k \in Node, NEW u \in User, <<k, u>> \notin disturbed', k = n, u = e.user
         PROVE  Alone(k, u)' /\ Catching(k, u)'
    <2>1. Alone(k, u) /\ Catching(k, u)
      BY <1>0, <1>5, <1>11
    <2>2. \A j \in 1..(i - 1) : q[j].user # u
      BY <1>1, <1>5, <1>11
    <2>3. PICK m, v : /\ m = remote_user_voice_channel[Peer[k]][u]
                      /\ v = local_voice_channel[k][u]
      OBVIOUS
    <2>4. PICK w : w = Shown(m, e)
      OBVIOUS
    <2>5. /\ remote_user_voice_channel'[Peer[k]][u] = w
          /\ local_voice_channel'[k][u] = v
      BY <1>5, <1>6, <1>11, <2>3, <2>4 DEF Applied
    <2>6. ASSUME NEW z \in Seq(Event), Leads(q \o z, u, m, v)
          PROVE  Leads(r \o z, u, w, v)
      <3>1. PICK a, b : a = q \o z /\ b = r \o z
        OBVIOUS
      <3>2. /\ a \in Seq(Event) /\ b \in Seq(Event) /\ i \in 1..Len(a) /\ a[i] = e
            /\ \A j \in 1..(i - 1) : a[j] = q[j]
            /\ Cut(a, i, b)
        BY <1>2, <1>3, <3>1, CutFront
      <3>3. FirstOf(a, i, u, m, w)
        BY <1>11, <2>2, <2>4, <3>2 DEF FirstOf, Shown
      <3>4. Leads(a, u, m, v)
        BY <2>6, <3>1
      <3>5. Leads(b, u, w, v)
        BY <3>2, <3>3, <3>4, FirstTaken
      <3> QED
        BY <3>1, <3>5
    <2>7. Leads(q, u, m, v) => Leads(r, u, w, v)
      <3>1. <<>> \in Seq(Event) /\ q \o <<>> = q /\ r \o <<>> = r
        BY <1>2, ConcatEmptySeq
      <3> QED
        BY <2>6, <3>1
    <2>8. \A x \in Session : (Active(k, u, x)' <=> Active(k, u, x)) /\ todo'[x] = todo[x]
      BY <1>5 DEF Active
    <2>9. Alone(k, u)'
      BY <2>1, <2>8 DEF Alone
    <2>10. flight[k] = q /\ flight'[k] = r
      BY <1>0, <1>1, <1>5, <1>11 DEF MirrorTypeOK
    <2>11. (\A x \in Session : ~Active(k, u, x)') => Leads(r, u, w, v)
      BY <2>1, <2>3, <2>7, <2>8, <2>10 DEF Catching, Points
    <2>12. ASSUME NEW x \in Session, Active(k, u, x)
           PROVE  Leads(r \o todo[x], u, w, v)
      <3>1. PICK z : z = todo[x]
        OBVIOUS
      <3>2. z \in Seq(Event)
        BY <1>0, <3>1 DEF MirrorTypeOK
      <3>3. Leads(q \o z, u, m, v)
        BY <2>1, <2>3, <2>10, <2>12, <3>1 DEF Catching, Points
      <3> QED
        BY <2>6, <3>1, <3>2, <3>3
    <2> QED
      BY <2>5, <2>8, <2>9, <2>10, <2>11, <2>12 DEF Catching, Points
  <1> QED
    BY <1>7, <1>8, <1>9, <1>10, <1>11 DEF MirrorInv

LEMMA LoseStep ==
  ASSUME MirrorInv, NEW n \in Node, NEW i \in 1..Len(flight[n]), Lose(n, i)
  PROVE  MirrorInv'
  <1>0. /\ MirrorTypeOK /\ MirrorTablesAgree /\ TellsOfUser
        /\ \A k \in Node, u \in User :
             <<k, u>> \notin disturbed => Alone(k, u) /\ Catching(k, u)
    BY DEF MirrorInv
  <1>1. /\ losses < MaxLosses /\ losses' = losses + 1
        /\ flight' = [flight EXCEPT ![n] = Without(@, i)]
        /\ disturbed' = disturbed \cup {<<n, flight[n][i].user>>}
        /\ UNCHANGED <<local_voice_channel, remote_user_voice_channel>>
        /\ UNCHANGED <<remote_voice_participants, todo, restarts>>
    BY DEF Lose, mirror
  <1>2. flight[n] \in Seq(Event) /\ Without(flight[n], i) \in Seq(Event)
    BY <1>0, WithoutCut DEF MirrorTypeOK
  <1>3. flight[n][i].user \in User
    <2>1. flight[n][i] \in Event
      BY <1>2
    <2> QED
      BY <2>1 DEF Event
  <1>4. MirrorTypeOK'
    <2>1. flight' \in [Node -> Seq(Event)]
      BY <1>0, <1>1, <1>2 DEF MirrorTypeOK
    <2>2. losses' \in 0..MaxLosses
      BY <1>0, <1>1, BoundAssumption DEF MirrorTypeOK
    <2>3. disturbed' \subseteq Node \X User
      BY <1>0, <1>1, <1>3 DEF MirrorTypeOK
    <2> QED
      BY <1>0, <1>1, <2>1, <2>2, <2>3 DEF MirrorTypeOK
  <1>5. MirrorTablesAgree' /\ TellsOfUser'
    BY <1>0, <1>1 DEF MirrorTablesAgree, TellsOfUser
  <1>6. ASSUME NEW k \in Node, NEW u \in User, <<k, u>> \notin disturbed'
        PROVE  Alone(k, u)' /\ Catching(k, u)'
    <2>1. Alone(k, u) /\ Catching(k, u) /\ ~(k = n /\ u = flight[n][i].user)
      BY <1>0, <1>1, <1>6
    <2>2. UNCHANGED <<local_voice_channel, todo>>
      BY <1>1
    <2> QED
      BY <1>0, <1>1, <2>1, <2>2, EventOfAnother
  <1> QED
    BY <1>4, <1>5, <1>6 DEF MirrorInv

LEMMA RestartStep ==
  ASSUME MirrorInv, NEW n \in Node, Restart(n)
  PROVE  MirrorInv'
  <1>0. MirrorTypeOK /\ MirrorTablesAgree /\ TellsOfUser
    BY DEF MirrorInv
  <1>1. /\ restarts < MaxRestarts /\ restarts' = restarts + 1 /\ losses' = losses
        /\ local_voice_channel' =
             [local_voice_channel EXCEPT ![n] = [u \in User |-> NoChannel]]
        /\ remote_user_voice_channel' =
             [remote_user_voice_channel EXCEPT ![n] = [u \in User |-> NoChannel]]
        /\ remote_voice_participants' =
             [remote_voice_participants EXCEPT ![n] = [c \in Channel |-> {}]]
        /\ todo' = [s \in Session |-> IF Home[s] = n THEN <<>> ELSE todo[s]]
        /\ flight' = [flight EXCEPT ![n] = <<>>]
        /\ disturbed' = Node \X User
    BY DEF Restart
  <1>2. MirrorTypeOK'
    <2>1. <<>> \in Seq(Event)
      OBVIOUS
    <2>2. todo' \in [Session -> Seq(Event)] /\ flight' \in [Node -> Seq(Event)]
      BY <1>0, <1>1, <2>1 DEF MirrorTypeOK
    <2>3. restarts' \in 0..MaxRestarts
      BY <1>0, <1>1, BoundAssumption DEF MirrorTypeOK
    <2>4. local_voice_channel' \in [Node -> [User -> Channel \cup {NoChannel}]]
      BY <1>0, <1>1 DEF MirrorTypeOK
    <2>5. remote_user_voice_channel' \in [Node -> [User -> Channel \cup {NoChannel}]]
      BY <1>0, <1>1 DEF MirrorTypeOK
    <2>6. remote_voice_participants' \in [Node -> [Channel -> SUBSET User]]
      BY <1>0, <1>1 DEF MirrorTypeOK
    <2> QED
      BY <1>0, <1>1, <2>2, <2>3, <2>4, <2>5, <2>6 DEF MirrorTypeOK
  <1>3. MirrorTablesAgree'
    <2>1. ASSUME NEW k \in Node, NEW c \in Channel
          PROVE  remote_voice_participants'[k][c] =
                   {u \in User : remote_user_voice_channel'[k][u] = c}
      <3>1. CASE k = n
        <4>1. /\ remote_voice_participants'[k][c] = {}
              /\ \A u \in User : remote_user_voice_channel'[k][u] = NoChannel
          BY <1>0, <1>1, <3>1 DEF MirrorTypeOK
        <4> QED
          BY <4>1, ChannelAssumption
      <3>2. CASE k # n
        <4>1. /\ remote_voice_participants'[k] = remote_voice_participants[k]
              /\ remote_user_voice_channel'[k] = remote_user_voice_channel[k]
          BY <1>0, <1>1, <3>2 DEF MirrorTypeOK
        <4> QED
          BY <1>0, <4>1 DEF MirrorTablesAgree
      <3> QED
        BY <3>1, <3>2
    <2> QED
      BY <2>1 DEF MirrorTablesAgree
  <1>4. TellsOfUser'
    <2>1. ASSUME NEW s \in Session, NEW k \in 1..Len(todo'[s])
          PROVE  todo'[s][k].user = UserOf[s]
      <3>1. Home[s] # n
        BY <1>1, <2>1
      <3>2. todo'[s] = todo[s]
        BY <1>1, <3>1
      <3> QED
        BY <1>0, <2>1, <3>2 DEF TellsOfUser
    <2> QED
      BY <2>1 DEF TellsOfUser
  <1> QED
    BY <1>1, <1>2, <1>3, <1>4 DEF MirrorInv

LEMMA MirrorPreserved == MirrorInv /\ [MirrorNext]_mirrorVars => MirrorInv'
  <1> SUFFICES ASSUME MirrorInv, [MirrorNext]_mirrorVars PROVE MirrorInv'
    OBVIOUS
  <1>1. ASSUME NEW s \in Session, NEW c \in Channel, Join(s, c) PROVE MirrorInv'
    BY <1>1, JoinStep
  <1>2. ASSUME NEW s \in Session, NEW c \in Channel \cup {NoChannel}, Leave(s, c) PROVE MirrorInv'
    BY <1>2, LeaveStep
  <1>3. ASSUME NEW s \in Session, Status(s) PROVE MirrorInv'
    BY <1>3, StatusStep
  <1>4. ASSUME NEW s \in Session, Queue(s) PROVE MirrorInv'
    BY <1>4, QueueStep
  <1>5. ASSUME NEW s \in Session, Raise(s) PROVE MirrorInv'
    BY <1>5, RaiseStep
  <1>6. ASSUME NEW n \in Node, NEW i \in 1..Len(flight[n]), Deliver(n, i) PROVE MirrorInv'
    BY <1>6, DeliverStep
  <1>7. ASSUME NEW n \in Node, NEW i \in 1..Len(flight[n]), Lose(n, i) PROVE MirrorInv'
    BY <1>7, LoseStep
  <1>8. ASSUME NEW n \in Node, Restart(n) PROVE MirrorInv'
    BY <1>8, RestartStep
  <1>9. CASE UNCHANGED mirrorVars
    BY <1>9 DEF mirrorVars, mirror, bounds, MirrorInv, MirrorTypeOK, MirrorTablesAgree,
                TellsOfUser, Alone, Catching, Points, Active
  <1> QED
    BY <1>1, <1>2, <1>3, <1>4, <1>5, <1>6, <1>7, <1>8, <1>9 DEF MirrorNext

-----------------------------------------------------------------------------
(* Voice states of users on the two nodes keep their types.                 *)
THEOREM MirrorTypeCorrect == MirrorSpec => []MirrorTypeOK
  <1>1. MirrorInv => MirrorTypeOK
    BY DEF MirrorInv
  <1> QED
    BY <1>1, MirrorInitially, MirrorPreserved, PTL DEF MirrorSpec

(* In whatever order join_remote_voice and leave_remote_voice are called,   *)
(* the mirror's two tables tell the same story.                             *)
THEOREM MirrorTables == MirrorSpec => []MirrorTablesAgree
  <1>1. MirrorInv => MirrorTablesAgree
    BY DEF MirrorInv
  <1> QED
    BY <1>1, MirrorInitially, MirrorPreserved, PTL DEF MirrorSpec

(* Nothing but losses, overtaking, restarts and overlapping handlers of one *)
(* user can make the mirror wrong once that user's events have arrived.     *)
THEOREM MirrorExact == MirrorSpec => []UndisturbedMirrorIsExact
  <1>1. MirrorInv => UndisturbedMirrorIsExact
    <2> SUFFICES ASSUME MirrorInv, NEW n \in Node, NEW u \in User,
                        <<n, u>> \notin disturbed, ~Pending(n, u)
                 PROVE  remote_user_voice_channel[Peer[n]][u] = local_voice_channel[n][u]
      BY DEF UndisturbedMirrorIsExact
    <2>1. Catching(n, u)
      BY DEF MirrorInv
    <2>2. \A s \in Session : ~Active(n, u, s)
      BY DEF Pending, Active
    <2>3. PICK q, m, v : /\ q = flight[n]
                         /\ m = remote_user_voice_channel[Peer[n]][u]
                         /\ v = local_voice_channel[n][u]
      OBVIOUS
    <2>4. Leads(q, u, m, v)
      BY <2>1, <2>2, <2>3 DEF Catching, Points
    <2>5. \A i \in 1..Len(q) : q[i].user # u
      BY <2>3 DEF Pending
    <2>6. (\A j : ~Joins(q, u, j)) /\ \A k, c : ~Leaves(q, u, k, c)
      BY <2>5 DEF Joins, Leaves
    <2>7. v = m
      BY <2>4, <2>6 DEF Leads, Stay
    <2> QED
      BY <2>3, <2>7
  <1> QED
    BY <1>1, MirrorInitially, MirrorPreserved, PTL DEF MirrorSpec

=============================================================================
