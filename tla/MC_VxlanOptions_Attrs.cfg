\* Well-formed commands: are the attributes sent those the options name?
CONSTANTS
  IdVals <- MC_IdOk
  AddrVals <- MC_AddrOk
  LocalVals <- MC_LocalOk
  DevVals <- MC_DevOk
  U8Vals <- MC_U8Ok
  NumVals <- MC_NumOk
  SrcportVals <- MC_SrcportOk
  VariedFlags <- MC_SomeFlags
  FlagVals <- MC_FlagAll
  GVals <- MC_GAll
SPECIFICATION Spec
INVARIANT VxlanFaithful
\* The command parses once and exits.
CHECK_DEADLOCK FALSE
