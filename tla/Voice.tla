-------------------------------- MODULE Voice --------------------------------
(* What LiveConnections, one node's voice channels, and VoiceMirror, what   *)
(* the other node is told of them, both speak about.                        *)
CONSTANTS
  User,
  Channel,     \* channels to subscribe to and to talk in
  NoChannel    \* where a user is who is in no voice channel

ASSUME ChannelAssumption == NoChannel \notin Channel

=============================================================================
