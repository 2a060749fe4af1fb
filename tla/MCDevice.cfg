SPECIFICATION Spec
CONSTANTS
  Inputs = {a, b}
  a = a
  b = b
  FactoryFields <- MCFields
  Workloads <- MCWorkloads
  MaxFails = 1
  MaxCommands = 3
  MaxCuts = 1
  DisableLogRx = FALSE
INVARIANTS
  TypeOK LicenceWhole BootFitsLicence ReplyHonoured
  CertNotMixed KeyUsedOnce NothingMissing RelayIsStored
SYMMETRY MCSymmetry
CHECK_DEADLOCK FALSE
