SPECIFICATION TimersSpec
CONSTANTS
  Tabs = {t1, t2}
  Browser = Browser
  MaxTickets = 3
INVARIANTS
  OneSessionPerPage
  OverlapIsAbandoned
PROPERTIES
  NoOvertaking
  ImplementsLock
  WaitersAnswered
  EveryCallEnds
CHECK_DEADLOCK FALSE
