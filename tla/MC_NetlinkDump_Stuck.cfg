\* A write error in Dump: do the readers still hand on their messages?
CONSTANTS
  DefaultNsid <- MC_DefaultNsid
  JoinedNsids <- MC_JoinedNsids
  KernelKinds <- MC_KernelKinds
  ArgLists <- MC_ArgLists
  Cap = 1
  MaxMsgs = 2
  WriteMayFail = TRUE
  SocketMayFail = FALSE
  NoMsg = NoMsg
  NoNsid = NoNsid

SPECIFICATION Spec

PROPERTY ReadersNeverStuck

CHECK_DEADLOCK FALSE
