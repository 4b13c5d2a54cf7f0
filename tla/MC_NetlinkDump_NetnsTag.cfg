\* Spec scenario D: every message keeps its namespace tag through rx.
CONSTANTS
  DefaultNsid <- MC_DefaultNsid
  JoinedNsids <- MC_JoinedNsids
  KernelKinds <- MC_KernelKinds
  ArgLists <- MC_ArgLists
  Cap = 1
  MaxMsgs = 2
  WriteMayFail = FALSE
  SocketMayFail = FALSE
  NoMsg = NoMsg
  NoNsid = NoNsid

SPECIFICATION Spec

INVARIANT NsidTaggedAll

CHECK_DEADLOCK FALSE
