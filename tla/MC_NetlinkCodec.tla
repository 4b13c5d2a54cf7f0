--------------------------- MODULE MC_NetlinkCodec ---------------------------
(***************************************************************************)
(* Kinds for TLC. Producers populate a string, an integer and an address   *)
(* kind per variant; kernel TLVs add an ignored kind (IFLA_MAP,            *)
(* NETNSA_NONE), an in-range kind with no case (IFLA_COST, RTA_METRICS),   *)
(* kinds beyond the maximum (50, NETNSA_TARGET_NSID), and empty or         *)
(* 4-byte payloads, which hit the empty-value, address-width and           *)
(* string cases.                                                           *)
(***************************************************************************)
EXTENDS NetlinkCodec

MC_BuildKinds ==
  [t \in AttrTypes |->
     CASE t = "link" -> {3, 4, 1}          \* IFNAME, MTU, ADDRESS
       [] t = "addr" -> {3, 1}             \* LABEL, ADDRESS
       [] t = "route" -> {1, 20}           \* DST, PREF
       [] t = "neighbor" -> {1, 5}         \* DST, VLAN
       [] t = "netns" -> {1, 2}]           \* NSID, PID

\* A producer that also sets IFLA_MAP on a link request.
MC_BuildKindsMap ==
  [MC_BuildKinds EXCEPT !["link"] = {14, 4}]

MC_KernelKinds ==
  [t \in AttrTypes |->
     CASE t = "link" -> {3, 14, 8, 50}     \* IFNAME, MAP, COST, beyond IFLA_MAX
       [] t = "addr" -> {8}                \* FLAGS
       [] t = "route" -> {1, 8}            \* DST, METRICS
       [] t = "neighbor" -> {2}            \* LLADDR
       [] t = "netns" -> {0, 1, 4}]        \* NONE, NSID, TARGET_NSID
=============================================================================
