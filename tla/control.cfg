SPECIFICATION Spec
CONSTANTS
  N = 3
  s1 = s1 s2 = s2 m1 = m1 m2 = m2 m3 = m3 email = email telegram = telegram
  Sites <- OneSite
  Ids <- ThreeIds
  Channels <- OneChannel
  SiteOf <- AllOnS1
  IdOf <- OwnId
  KindOf <- Mixed
  Routes <- EmailOnly
  Production = TRUE
  MaxPerWindow = 1
  MaxAttempts = 1
  MaxFaults = 2
INVARIANTS AckFence SpamNeverSent ReloadApplied
