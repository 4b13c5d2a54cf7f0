\* One rail, failing I2C and Close; the log is filled, cleared and refilled;
\* a client calls LoggedFaultDetail once.
CONSTANTS
  Rails <- MC_OneRail
  Page <- MC_Page1
  VoutModes <- MC_Modes
  Mants <- MC_OneMant
  LogCap = 2
  MaxClock = 3
  MsPerSec = 2
  RpcMayFail = TRUE
  CloseMayHappen = TRUE
  MaxEnvChanges = 3
  MaxDetailCalls = 1
  VdevAddr = 1          \* any nonzero address
SPECIFICATION Spec
INVARIANT TypeOK
INVARIANT VoutExponentLinear
PROPERTY ReportedBySome
