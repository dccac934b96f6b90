SPECIFICATION LiveSpec
CONSTANTS
  MaxSent = 2
  MaxTrouble = 1
  MaxEnds = 1
  Updates <- MCSharing
  Operators <- MCOperators
  Admins = {"b"}
  Consumers = {"c1"}
  Codes = {"k1"}
  MadeCodes = {}
  ConsumerOf <- MCOneCode
  Polls = {"p"}
  MaxMade = 2
  None = None
INVARIANTS TypeOK RepeatsExplained InOrder CodeLinksOne VotesExplained FirstPressWins
PROPERTIES OperatorsHeard
