SPECIFICATION Spec
CONSTANTS
  n1 = n1
  n2 = n2
  u1 = u1
  s1 = s1
  NoHandle = NoHandle
  NetHandle = {n1}
  UriHandle = {}
  SyncHandle = {s1}
  Kinds = {"http"}
  Challenge = {s1}
  Answers = {"ok"}
  Removable = FALSE
  Finalizable = FALSE
  MaxConcurrent = 1
  MaxWaits = 0
  MaxChallenged = 1
CHECK_DEADLOCK FALSE
INVARIANT LimboHandlesAlive
