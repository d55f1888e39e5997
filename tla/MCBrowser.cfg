SPECIFICATION MCSpec
CONSTANTS
  Nobody = Nobody
  NoFrame = NoFrame
  NoRefs = NoRefs
  Calls = {p1, p2}
  Agents = {a1}
  MaxTabs = 5
  MaxContexts = 4
  MaxEvents = 2
  PageTabs = {t1, t2}
  PageCommands = {p1, p2}
  MaxDocuments = 3
  Sockets = {p1, p2}
  MaxPtys = 2
  MaxAgents = 2
  CookieDomains = {d1, d2}
  CookieRequests = {p1, p2}
  MaxCodes = 1
  Fans = {f1}
  EachTabs = {1, 2, 3}
  Internal = {2}
  VisualTabs = {v1, v2}
  Visuals = {p1, p2}
  Sizes = {s1, s2}
  LaunchSize = s1
  NoSize = NoSize
  DownloadOps = {p1, p2}
  Sources = {d1, d2}
  Unasked = Unasked
  OutPaths = {x1}
  NoPath = NoPath
  Limit = 2
  MaxMillis = 1
  MaxDownloads = 2
  InspectPages = {1, 2}
  Inspects = {p1, p2}
  Viewers = {v1}
  Specificities = {1, 2, 3}
  MaxPicks = 2
SYMMETRY Symmetry
CHECK_DEADLOCK FALSE
INVARIANTS BrowserTypeOK WholeAfterSwap OwnersSurvive  TokensAreNotReplayed  FanOutIsTrue   
