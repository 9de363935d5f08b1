CONSTANTS
    Byte = 3
    Offered = {1, 3}
    Ids = {"eIP", "eCity"}
    Keys = {"e_IP", "e_DEVID"}
    MaxItems = 2
    MaxSets = 2
    Faults = {"create", "write", "read", "delete"}
SPECIFICATION Spec
INVARIANTS
  ParamsInv
  SetThenAnswered
PROPERTIES
  ServerReached
  IdentityRegistered
