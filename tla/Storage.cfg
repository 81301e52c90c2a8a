SPECIFICATION Spec
CONSTANTS
    c1 = c1
    c2 = c2
    None = None
    MaxVersions = 2
    Clients <- TwoClients
    Scripts <- ThreeRecords
    MaxWrites = 3
    MaxCrashes = 1
SYMMETRY AnyClient
CHECK_DEADLOCK FALSE
  
PROPERTIES NoSilentRemoval RollbackKeepsTheRest
