---------------------------- MODULE MCSyncBridge ----------------------------
(* Instances of SyncBridge for TLC.                                         *)
EXTENDS SyncBridge

(* A direct-message channel d that both nodes know, and one message m in it *)
DmSlots   == {"d", "m"}
DmKinds   == [d |-> "dm", m |-> "message"]
DmParents == [d |-> {}, m |-> {"d"}]
DmReplies == [d |-> {}, m |-> {}]
DmOrder   == <<"d", "m">>

(* A text channel c, a message m in it that carries an attachment, and a    *)
(* message b that replies to m                                              *)
ChannelSlots   == {"c", "m", "b"}
ChannelKinds   == [c |-> "channel", m |-> "message", b |-> "message"]
ChannelParents == [c |-> {}, m |-> {"c"}, b |-> {"c"}]
ChannelReplies == [c |-> {}, m |-> {}, b |-> {"m"}]
ChannelOrder   == <<"c", "m", "b">>

(* A message m and one user's reaction r to it: both nodes may create the   *)
(* reaction, each under a sync_id of its own                                *)
ReactionSlots   == {"m", "r"}
ReactionKinds   == [m |-> "message", r |-> "reaction"]
ReactionParents == [m |-> {}, r |-> {"m"}]
ReactionReplies == [m |-> {}, r |-> {}]
ReactionOrder   == <<"m", "r">>

=============================================================================
