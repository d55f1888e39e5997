SPECIFICATION MCSpec
CONSTANTS
  Logs = {1, 2}
  Urls = {u1}
  NoUrl = NoUrl
  LogCapacity = 2
  MaxEntries = 3
  MaxWatches = 2
  FeedCapacity = 2
  MaxActivity = 5
  SkillOps = {w1, w2}
  Threshold = 2
  MaxBodies = 2
  MaxRows = 5
  StylePages = {1, 2}
  StyleOps = {w1, w2}
  MaxValue = 2
  MaxEdits = 2
  FrameSize = 2
  StreamSize = 7
  TestBudget = 10
  TestRetries = 3
  TestBackoff = 1
  RateClients = {a1}
  RateRequests = {w1}
  RateLimit = 2
  RateWindow = 2
  ConnectLimit = 2
  MaxTicks = 3
  MaxCommands = 2
  Spawns = {w1, w2}
  WritableTiers = {"project", "global"}
  CapturePages = {1, 2}
  BodySizes = {1, 3}
  MaxSize = 2
  MaxResponses = 2
  MaxCaptures = 2
  Connects = {w1, w2}
  MaxDaemons = 2
  MaxKills = 1
CHECK_DEADLOCK FALSE
INVARIANTS ServicesTypeOK LogsWrittenOnce AnswersAreOwn CleanExit StopEndsTimers StreamIsComplete  RelayIsExact   CaptureIsExact 
PROPERTIES LifeEnds 
