\* Four requests of two users
SPECIFICATION Spec
CONSTANTS
  User = {ann, bob}
  Dm = {d1, d2}
  Request = {r1, r2, r3, r4}
  NoUser = NoUser
  NoDm = NoDm
  NoRequest = NoRequest
SYMMETRY Symmetry
INVARIANTS DuplicatesNeedARace ClientsAgree
PROPERTY MessagesReopenChannels
CHECK_DEADLOCK FALSE
