SPECIFICATION WatchersFairSpec
CONSTANTS
  ctl = ctl  w1 = w1  w2 = w2  w3 = w3  None = None
  Watches = {ctl, w1, w2, w3}
  Scoped = {w1, w2, w3}
  Events = {e1}
INVARIANTS
  PanicOnlyInFlight
  AtMostOnce
PROPERTIES
  EventReachesWatchers
