\* Trays 2 and 3 on the two registers, reliable I2C and no Close: every tray's
\* status is eventually published once the hardware settles.
CONSTANTS
  Trays <- MC_TwoBanks
  Versions <- MC_OneVersion
  OutInit <- MC_OutZero
  RpcMayFail = FALSE
  CloseMayHappen = FALSE
  MaxEnvChanges = 1
SPECIFICATION Spec
PROPERTY StatusPublished
