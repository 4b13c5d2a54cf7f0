\* Dump whose writer may fail: pool ownership, explicit release, and delivery of everything the kernel sends while no
\* write fails.
CONSTANTS
  DefaultNsid <- MC_DefaultNsid
  JoinedNsids <- MC_JoinedNsids
  KernelKinds <- MC_KernelKinds
  ArgLists <- MC_ArgLists
  Cap = 1
  MaxMsgs = 2
  WriteMayFail = TRUE
  SocketMayFail = TRUE
  NoMsg = NoMsg
  NoNsid = NoNsid

SPECIFICATION Spec

INVARIANT TypeOK
INVARIANT ExclusiveOwnership
INVARIANT ExplicitRelease

PROPERTY AllDelivered

\* After the kernel has sent its bounded stream and Dump has drained rx,
\* every goroutine waits for the next kernel message: dump runs forever.
CHECK_DEADLOCK FALSE
