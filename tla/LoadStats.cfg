\* Two connections of the same pod or of two, two resets, a browser, channels of one place.
SPECIFICATION FairSpec
CONSTANTS
  c1 = c1
  c2 = c2
  p1 = p1
  p2 = p2
  Pods = {p1, p2}
  Conns = {c1, c2}
  PodsOf <- OneOrTwoPods
  Viewers = {v}
  StatCap = 1
  ViewCap = 1
  MaxReports = 2
  MaxResets = 2
INVARIANTS TypeOK EntryOfConnected EntriesWithinTotal ViewerCurrent
PROPERTIES ResetEnds
CHECK_DEADLOCK FALSE
