SPECIFICATION Spec
CONSTANTS
  m1 = m1
  m2 = m2
  ann = ann
  bob = bob
  Message = {m1, m2}
  Old = {m1}
  User = {ann, bob}
  Author <- AuthorOf
  Moderator = {bob}
  Request = {r1, r2, r3}
  NoMessage = NoMessage
  NoRequest = NoRequest
  NoUser = NoUser
  NoRow = NoRow
SYMMETRY Symmetry
INVARIANTS UndisturbedMessagesAgree DeletionsReachClients NoOrphans
PROPERTY VersionsGrow
CHECK_DEADLOCK FALSE
