\* A failing I2C transfer and a Close from the daemon's owner.
CONSTANTS
  Trays <- MC_SharedTrays
  Versions <- MC_Versions
  OutInit <- MC_OutInit
  RpcMayFail = TRUE
  CloseMayHappen = TRUE
  MaxEnvChanges = 0
SPECIFICATION Spec
INVARIANT NoClosePanic
