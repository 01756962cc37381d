\* One user with two sessions on main; a loss or a failure, and a restart
SPECIFICATION FairMirrorSpec
CONSTANTS
  main = main edge = edge ann = ann
  m1 = m1 m2 = m2 c1 = c1 c2 = c2
  Node = {main, edge}
  Peer <- Peers
  User = {ann}
  Channel = {c1, c2}
  NoChannel = NoChannel
  Session = {m1, m2}
  UserOf <- UsersOf
  Home <- Homes
  MaxFlight = 2
  MaxLosses = 1
  MaxRestarts = 1
INVARIANTS UndisturbedMirrorIsExact
PROPERTY MirrorCatchesUp
CHECK_DEADLOCK FALSE
