\* Round trip of every variant but Done, and kernel TLV lists of up to two
\* attributes through every arm of Parse.
CONSTANTS
  MsgTypes = {"noop", "error", "gen", "link", "addr", "route", "neighbor", "netns"}
  Families = {"AF_UNSPEC", "AF_INET", "AF_INET6"}
  BuildKinds <- MC_BuildKinds
  KernelKinds <- MC_KernelKinds
  KernelLens = {0, 4}
  MaxAttrs = 2
  IflaMax = 42
  IfaMax = 9
  RtaMax = 22
  NdaMax = 11
  NetnsaMax = 4
  Nil = Nil
SPECIFICATION Spec
INVARIANT TypeOK
INVARIANT RoundTrip
