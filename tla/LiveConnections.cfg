\* Two overlapping sockets of one user, two channels, two broadcasts; one await
\* raises
SPECIFICATION FairSpec
CONSTANTS
  ann = ann a1 = a1 a2 = a2 c1 = c1 c2 = c2
  User = {ann}
  Socket = {a1, a2}
  Owner <- Owners
  Channel = {c1, c2}
  Broadcast = {b1, b2}
  NoSocket = NoSocket
  NoChannel = NoChannel
  MaxFaults = 1
INVARIANTS VoiceTablesAgree NoGhosts RegistryHoldsLiveHandlers OnlineMeansHandled
PROPERTY LeaversAreForgotten
CHECK_DEADLOCK FALSE
