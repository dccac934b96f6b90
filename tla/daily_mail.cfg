CONSTANTS
  Services = {"watch"}
  \* RateLimiter
  Callers = {s1, s2, s3}
  MaxPerWindow = 2
  WindowTicks = 2
  MaxTracked = 2
  MaxClock = 4
  MaxCalls = 5
  \* SiteStreams
  SiteNames = {a, b}
  ReadCount = 1
  ClaimCount = 1
  IdleSweeps = 1
  MaxEntries = 2
  MaxMishaps = 1
  \* Routing
  Configurations <- MCConfigurations
  Messages <- MCMessages
  ChannelNames = {"email", "telegram", "sms", "record"}
  MaxMessages = 2
  MaxRetryRuns = 1
  MaxFaults = 1
  \* SpamFilter
  Words = {"casino", "viagra", "crypto", "offer"}
  Curated = {"casino", "viagra", "crypto"}
  Addresses = {"x@spam"}
  NoAddress = "-"
  \* ArchiveUpkeep
  Outcomes = {"sent", "failed", "spam"}
  Policies <- MCPolicies
  MaxRows = 2
  MaxEvents = 3
  MaxUpsets = 2
  \* Watcher
  HoursPerDay = 2
  DigestHour = 1
  GiveUpHours = 1
  RepeatHours = 1
  JobHours = 2
  MaxHours = 3
  MaxNews = 1
  MaxBreaks = 1
  \* CommsChat
  Updates = {"UPDATE", "DISMISS", "reset", "pipeline", "status", "slash", "text"}
  MaxSent = 2
  MaxTrouble = 1
  Alerts = {"scan", "release"}
  NoAlert = "-"
  OptionsOf <- MCOptionsOf
  MaxAlerts = 1
  Timeout = 1
  MaxTicks = 2
  Newest = 1
  MaxRequests = 3
  MaxOther = 1
  ReplyWords = {"UPDATE", "DISMISS"}
  Verbs = {"UPDATE"}
  Scenes <- MCScenes

SPECIFICATION ServicesSpec

INVARIANT DailyMailLeaves
