\* Reliable I2C, no Close; a client calls LoggedFaultDetail once between
\* two polls, and the chip logs a fault and may clear its log.
CONSTANTS
  Rails <- MC_OneRail
  Page <- MC_Page1
  VoutModes <- MC_Modes
  Mants <- MC_OneMant
  LogCap = 2
  MaxClock = 3
  MsPerSec = 2
  RpcMayFail = FALSE
  CloseMayHappen = FALSE
  MaxEnvChanges = 2
  MaxDetailCalls = 1
  VdevAddr = 1          \* any nonzero address
SPECIFICATION Spec
PROPERTY PowerOffsPublished
