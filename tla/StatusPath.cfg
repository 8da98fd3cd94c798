\* One reset of the watchers, a change of power, an update of another field and a
\* browser with a channel of one place.
SPECIFICATION FairSpec
CONSTANTS
  Clients = {c}
  Cap = 1
  MaxSets = 2
  MaxChanges = 1
  MaxOthers = 1
INVARIANTS TypeOK ClientCurrent PowerCurrent
PROPERTIES PowerReachesClients
CHECK_DEADLOCK FALSE
