\* Commands with every kind of malformed value: which does the parser reject?
CONSTANTS
  IdVals <- MC_IdAll
  AddrVals <- MC_AddrSome
  LocalVals <- MC_LocalSome
  DevVals <- MC_DevAll
  U8Vals <- MC_U8All
  NumVals <- MC_NumAll
  SrcportVals <- MC_SrcportAll
  VariedFlags <- MC_NoFlags
  FlagVals <- MC_FlagAll
  GVals <- MC_GAll
SPECIFICATION Spec
INVARIANT ErrorsFaithful
\* The command parses once and exits.
CHECK_DEADLOCK FALSE
