\* Three requests, one person, three rows and one grant, two seconds and a half
SPECIFICATION Spec
CONSTANTS
  Person = {p}
  Request = {r1, r2, r3}
  Credential = {c1, c2, c3}
  Grant = {g}
  NoPerson = NoPerson
  NoCredential = NoCredential
  NoGrant = NoGrant
  Second = 2
  GrantTtl = 1
  MinTtl = 1
  MaxTime = 4
SYMMETRY Alike
INVARIANTS SessionsDoNotFork LogoutEndsSession GrantsAreUsedOnce LostGrantsWereContested RevokeAllLeavesNone
CHECK_DEADLOCK FALSE
