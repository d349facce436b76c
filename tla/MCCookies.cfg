SPECIFICATION Spec
CONSTANTS
  Name = {"n"}
  Host <- Hosts
  Visited <- AllHosts
  Path <- Paths
  Domains <- NamedDomains
  Ages = {0, 1}
  Never = 3
  Counts = {0, 1, 2}
  DefaultCount = 2
  Cuts <- DomainCuts
  MaxFileSize = 4
  MaxTime = 1
  MaxSets = 3
  MaxUses = 2
  MaxRuns = 2
  MaxFaults = 1
CHECK_DEADLOCK FALSE
INVARIANT TypeOK
INVARIANT OneCookiePerKey
INVARIANT StaysInSite
INVARIANT SentIsLatest
INVARIANT SessionsEnd
PROPERTY LimitHolds
