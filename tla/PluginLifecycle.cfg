SPECIFICATION MCSpec
CONSTANTS
  reader = reader
  writer = writer
  Installer = {i1, i2}
  Version = {1, 2}
  Length <- MCLength
  Body <- MCBody
  Writes <- MCWrites
  Grpc <- MCGrpc
  Trusted = k1
  Other = k2
  MaxPublish = 2
  MaxLoads = 2
  MaxStages = 4
SYMMETRY Installers
INVARIANTS InstallationSound EvidenceVouched RollbackReady

