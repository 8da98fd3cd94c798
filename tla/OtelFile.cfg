\* Two lines of two events, a rotation of the file, a call that fails and small channels.
SPECIFICATION FairSpec
CONSTANTS
  MaxLines = 2
  MaxGens = 2
  MaxErrors = 1
  Events = 2
  EventCap = 1
  StatCap = 1
INVARIANTS TypeOK InOrder NothingElseLost
PROPERTIES LinesHandled
CHECK_DEADLOCK FALSE
