\* Two users, one client, two requests at a time
SPECIFICATION McpSpec
CONSTANTS
  a = a
  b = b
  dm = dm
  text = text
  m = m
  w = w
  Client = {c}
  User = {a, b}
  Call = {r1, r2}
  Text = {text}
  Dm = {dm}
  Message = {m}
  Workspace = {w}
  Participant <- TheParticipant
  Home <- TheHome
  Owner <- TheOwner
  NoUser = NoUser
  NoDocument = NoDocument
SYMMETRY Alike
INVARIANTS UncrossedAnswersAreTheCallers ShownIsPermitted ConnectionsOutlastFaults
CHECK_DEADLOCK FALSE
