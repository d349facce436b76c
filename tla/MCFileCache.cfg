SPECIFICATION Spec
CONSTANTS
  a = a
  b = b
  j1 = j1
  Url = {a, b}
  Job = {j1}
  NoFile = NoFile
  Sizes = {1, 2}
  Limits = {2}
  DefaultFileCacheSize = 3
  MaxPracticalFileSize = 1
  AccessLimit = 2
  Expiration = 1
  MaxTime = 1
  MaxStores = 2
  MaxStarts = 2
  MaxCrashes = 1
SYMMETRY Urls
CHECK_DEADLOCK FALSE
INVARIANT TypeOK
INVARIANT EntriesOwnFiles
INVARIANT EntriesAreLatest
INVARIANT UsageBounded
PROPERTY EnablingTidies
