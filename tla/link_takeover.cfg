SPECIFICATION Spec
CONSTANTS
  MaxSent = 3
  MaxTrouble = 0
  MaxEnds = 0
  Updates <- MCTakeover
  Operators <- MCOperators
  Admins = {"b"}
  Consumers <- MCConsumers
  Codes <- MCCodes
  MadeCodes = {"k1", "k2"}
  ConsumerOf <- MCConsumerOf
  Polls = {}
  MaxMade = 2
  None = None
PROPERTIES LinkEndsOwn
