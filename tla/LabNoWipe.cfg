\* A virtual lab replaced by a bare-metal one before its boxes have netbooted.
SPECIFICATION Spec
CONSTANTS
  physical = physical
  hybrid = hybrid
  virtual = virtual
  Requests = {r1, r2}
  Labs = {hybrid, virtual}
  WipeBoxes <- MCWipeBoxes
  NumPorts = 2
  CbCap = 2
  SerialErrors = FALSE
  FileErrors = FALSE
  ManualPower = FALSE
  Nobody = Nobody
  NoLab = NoLab
  DiskWipe = DiskWipe
  Off = Off
  Wiped = Wiped
INVARIANTS NoWipeMeansClean
CHECK_DEADLOCK FALSE
