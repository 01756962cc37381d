\* Two requests about one profile, and one change that marks nothing
SPECIFICATION FairSpec
CONSTANTS
  Profile = {p}
  Request = {r1, r2}
  NoProfile = NoProfile
  NoRequest = NoRequest
  NoRow = NoRow
  NoText = NoText
  MaxUnmarked = 1
INVARIANTS UndisturbedEmbeddingsAreExact
PROPERTIES MarksAreServed ProfilesAreEmbedded
CHECK_DEADLOCK FALSE
