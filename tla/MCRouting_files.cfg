SPECIFICATION Spec
CONSTANTS
  na = na
  nb = nb
  nc = nc
  b1 = b1
  b2 = b2
  Name <- MCName
  BackendId <- MCBackendId
  Malformed = Malformed
  Absent = Absent
  Native = {"gguf"}
  NoFile = NoFile
  RawConfigs <- MCRawConfigs
  NoLimit = NoLimit
  Policies <- MCPolicies
  Client = {c1}
SYMMETRY Symmetry
INVARIANTS
  TypeOK
  StartupExact
  PagesTellRouting
PROPERTIES
  NoBypass
CHECK_DEADLOCK FALSE
