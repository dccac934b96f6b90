SPECIFICATION FairSpec
CONSTANTS
  N = 2
  s1 = s1 s2 = s2 m1 = m1 m2 = m2 m3 = m3 email = email telegram = telegram
  Sites <- TwoSites
  Ids <- TwoIds
  Channels <- OneChannel
  SiteOf <- OnItsOwn
  IdOf <- TwoOwnId
  KindOf <- Stuck
  Routes <- EmailOnly
  Production = TRUE
  MaxPerWindow = 1
  MaxAttempts = 2
  MaxFaults = 1
PROPERTIES EventuallySettled RetriesEnd
