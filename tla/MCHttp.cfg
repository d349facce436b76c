SPECIFICATION FairSpec
CONSTANTS
  l1 = l1
  s1 = s1
  s2 = s2
  r1 = r1
  Load = {l1}
  Server = {s1, s2}
  Dir <- Dirs
  Realm = {r1}
  Method = {"GET", "POST", "PUT"}
  Form <- Forms
  Buffer = 2
  Interval = 2
  Forever = Forever
  MaxRedirects = 2
  MaxAnswers = 2
  MaxCookies = 1
CHECK_DEADLOCK FALSE
INVARIANT TypeOK
INVARIANT PostWhole
INVARIANT RequestsMatch
PROPERTY LoadsTimeOut
