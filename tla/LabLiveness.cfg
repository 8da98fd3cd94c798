\* Operators at work, serial errors, one relay, one lab (wiped or not).
SPECIFICATION FairSpec
CONSTANTS
  physical = physical
  hybrid = hybrid
  virtual = virtual
  Requests = {r1, r2}
  Labs = {physical}
  WipeBoxes <- MCWipeBoxes
  NumPorts = 1
  CbCap = 1
  SerialErrors = TRUE
  FileErrors = FALSE
  ManualPower = TRUE
  Nobody = Nobody
  NoLab = NoLab
  DiskWipe = DiskWipe
  Off = Off
  Wiped = Wiped
INVARIANTS WipeLinkOwned
PROPERTIES SetLabCompletes
CHECK_DEADLOCK FALSE
