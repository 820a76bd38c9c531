\* Three tasks call one peer; it starts late, ends early, and a connection breaks.
SPECIFICATION FairSpec
CONSTANTS
  s1 = s1
  s2 = s2
  c1 = c1
  c2 = c2
  NoCall = NoCall
  Call = {s1, s2, c1, c2}
  Cast = {c1, c2}
  After <- Tasks
  MaxRetries = 2
  MaxFaults = 1
INVARIANTS TypeOK AnswerIsOwn InOrder ConnectionsBounded CachedIsUsable
PROPERTY ImplementsRpc
CHECK_DEADLOCK FALSE
