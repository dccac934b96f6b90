SPECIFICATION Spec
CONSTANTS
  N = 1
  s1 = s1 s2 = s2 m1 = m1 m2 = m2 m3 = m3 email = email telegram = telegram
  Sites <- OneSite
  Ids <- OneId
  Channels <- TwoChannels
  SiteOf <- AllOnS1
  IdOf <- SameId
  KindOf <- Plain
  Routes <- BothChannels
  Production = TRUE
  MaxPerWindow = 1
  MaxAttempts = 3
  MaxFaults = 0
INVARIANT AckedIsArchived
