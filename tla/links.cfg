SPECIFICATION Spec
CONSTANTS
  MaxSent = 3
  MaxTrouble = 1
  MaxEnds = 0
  Updates <- MCLinking
  Operators <- MCOperators
  Admins = {"b"}
  Consumers <- MCConsumers
  Codes <- MCCodes
  MadeCodes = {"k1", "k2", "k3"}
  ConsumerOf <- MCConsumerOf
  Polls = {}
  MaxMade = 2
  None = None
INVARIANTS StraysExplained UnlinkSticks
PROPERTIES OthersKeepLink NeverAnothersWindow
