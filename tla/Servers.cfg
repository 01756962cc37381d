\* Three requests of three users about one server with at most one channel
SPECIFICATION Spec
CONSTANTS
  User = {a, b, c}
  Channel = {h}
  Request = {r1, r2, r3}
  Founder = a
  Rank <- Ranks
  ServerRow = ServerRow
  EmbeddingRow = EmbeddingRow
SYMMETRY Symmetry
INVARIANTS OwnerlessNeedsARace PhantomsLostADeadlock ListsAgree
CHECK_DEADLOCK FALSE
