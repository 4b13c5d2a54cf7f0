\* Trays 1 and 2 on one register, failing I2C, a Close from the owner:
\* each tray's LED field keeps the colour last written for it.
CONSTANTS
  Trays <- MC_SharedTrays
  Versions <- MC_Versions
  OutInit <- MC_OutInit
  RpcMayFail = TRUE
  CloseMayHappen = TRUE
  MaxEnvChanges = 2
SPECIFICATION Spec
INVARIANT TypeOK
INVARIANT LedFieldsKept
