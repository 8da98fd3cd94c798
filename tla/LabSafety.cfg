\* Two overlapping setlab requests, two relays, serial and file errors.
SPECIFICATION Spec
CONSTANTS
  physical = physical
  hybrid = hybrid
  virtual = virtual
  Requests = {r1, r2}
  Labs = {physical, virtual}
  WipeBoxes <- MCWipeBoxes
  NumPorts = 2
  CbCap = 2
  SerialErrors = TRUE
  FileErrors = TRUE
  ManualPower = FALSE
  Nobody = Nobody
  NoLab = NoLab
  DiskWipe = DiskWipe
  Off = Off
  Wiped = Wiped
SYMMETRY RequestSymmetry
INVARIANTS TypeOK OneInitializer WipedBeforePowerUp
PROPERTIES PowerOnOnlyByOwner ImplementsLabOwner
CHECK_DEADLOCK FALSE
