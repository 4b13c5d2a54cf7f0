\* A Done message, and a link request with IFLA_MAP set, each sent by TxAdd
\* and read back. TLC reports the Done case (the shorter trace); with
\* MsgTypes = {"link"} alone it reports the IFLA_MAP case.
CONSTANTS
  MsgTypes = {"done", "link"}
  Families = {"AF_UNSPEC", "AF_INET", "AF_INET6"}
  BuildKinds <- MC_BuildKindsMap
  KernelKinds <- MC_KernelKinds
  KernelLens = {0, 4}
  MaxAttrs = 2
  IflaMax = 42
  IfaMax = 9
  RtaMax = 22
  NdaMax = 11
  NetnsaMax = 4
  Nil = Nil
SPECIFICATION Spec
INVARIANT RoundTrip
