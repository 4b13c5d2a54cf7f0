----------------------------- MODULE VxlanOptions -----------------------------
(***************************************************************************)
(* parseTypeVxlan of goes/cmd/ip/link/mod/vxlan.go: "ip link ... type     *)
(* vxlan" options turned into the IFLA_VXLAN_* attributes of c.tinfo. The  *)
(* option library (c.opt.Parms, c.opt.Flags) is not under src/: an option  *)
(* is given here as what Parms.ByName or Flags.ByName yields for it, and a *)
(* value as the class Sscan or ParseIP puts it in. An attribute is its     *)
(* type and the option its value comes from, the flag byte, or "nil" for  *)
(* an empty flag attribute.                                                *)
(*                                                                         *)
(* Each block of the function is an operator from the options to either   *)
(* an error or the attributes it appends; ParseTypeVxlan folds them in the *)
(* code's order, and the first error ends the parse.                       *)
(***************************************************************************)
EXTENDS Integers, Sequences, SequencesExt

CONSTANTS
  IdVals,        \* classes of the "id" value
  AddrVals,      \* classes of "group" and "remote"
  LocalVals,     \* classes of "local"
  DevVals,       \* "dev": none, a known or an unknown interface
  U8Vals,        \* classes of "ttl" and "tos"
  NumVals,       \* classes of "flowlabel", "ageing", "maxaddress", "dstport"
  SrcportVals,   \* classes of "srcport"
  VariedFlags,   \* the [no-]flags the options may give
  FlagVals,      \* what Flags.ByName yields for one of them
  GVals          \* what Flags.ByName yields for "gbp" and "gpe"

\* The [no-]flag table of the code, in its order: set name and type.
FlagTable ==
  << <<"learning", "LEARNING">>, <<"proxy", "PROXY">>, <<"rsc", "RSC">>,
     <<"l2miss", "L2MISS">>, <<"l3miss", "L2MISS">>, <<"udpcsum", "UDP_CSUM">>,
     <<"udp6zerocsumtx", "UDP_ZERO_CSUM6_TX">>,
     <<"udp6zerocsumrx", "UDP_ZERO_CSUM6_RX">>,
     <<"remcsumtx", "REMCSUM_TX">>, <<"remcsumrx", "REMCSUM_TX">> >>
FlagNames == {FlagTable[i][1] : i \in DOMAIN FlagTable}

Options ==
  { [id |-> i, group |-> g, local |-> l, remote |-> r, dev |-> d, ttl |-> tt,
     tos |-> ts, flowlabel |-> fl, ageing |-> ag, maxaddress |-> mx,
     dstport |-> dp, srcport |-> sp, external |-> ex, gbp |-> gb, gpe |-> ge,
     flags |-> [n \in FlagNames |-> IF n \in VariedFlags THEN f[n] ELSE "none"]] :
    i \in IdVals, g \in AddrVals, l \in LocalVals, r \in AddrVals, d \in DevVals,
    tt \in U8Vals, ts \in U8Vals, fl \in NumVals, ag \in NumVals, mx \in NumVals,
    dp \in NumVals, sp \in SrcportVals, ex \in FlagVals, gb \in GVals, ge \in GVals,
    f \in [VariedFlags -> FlagVals] }

A(t, v) == [t |-> t, v |-> v]
Err(name) == [err |-> name, attrs |-> <<>>]
Ok(s) == [err |-> "none", attrs |-> s]

\* id: missing, not a uint32, or not below 1 << 24 is an error.
IdBlockNoRange(o) ==
  CASE o.id = "missing" -> Err("id")
    [] o.id = "bad"     -> Err("vni")
    [] OTHER            -> Ok(<<A("ID", "id")>>)

IdBlock(o) ==
  CASE o.id = "missing"          -> Err("id")
    [] o.id \in {"bad", "big"}   -> Err("vni")
    [] OTHER                     -> Ok(<<A("ID", "id")>>)

\* group, local, remote in turn: a value ParseIP rejects is an error.
AddrCheck(o) ==
  LET bad == SelectSeq(<<"group", "local", "remote">>, LAMBDA x : o[x] = "bad")
  IN IF bad = <<>> THEN Ok(<<>>) ELSE Err(Head(bad))

\* The first of group and remote given is sent as GROUP or GROUP6.
GroupBlock(o) ==
  LET given == SelectSeq(<<"group", "remote">>, LAMBDA x : o[x] # "none")
  IN IF given = <<>> THEN Ok(<<>>)
     ELSE LET x == Head(given)
          IN Ok(<<A(IF o[x] = "v4" THEN "GROUP" ELSE "GROUP6", x)>>)

\* laddr.To4() is nil for an IPv6 address and for no address at all: both
\* send LOCAL6, the latter with laddr.To16() = nil, no bytes.
LocalBlock(o) ==
  IF o.local = "v4" THEN Ok(<<A("LOCAL", "local")>>)
  ELSE Ok(<<A("LOCAL6", IF o.local = "none" THEN "empty" ELSE "local")>>)

DevBlock(o) ==
  CASE o.dev = "none"    -> Ok(<<>>)
    [] o.dev = "unknown" -> Err("dev")
    [] OTHER             -> Ok(<<A("LINK", "dev")>>)

\* A parameter parsed by Sscan: absent (or skipped) sends nothing, a value
\* Sscan rejects is an error, any other sends the attribute.
Param(o, name, type, skip) ==
  CASE o[name] \in skip  -> Ok(<<>>)
    [] o[name] = "bad"   -> Err(name)
    [] OTHER             -> Ok(<<A(type, name)>>)

\* The blocks of ttl/tos (skipping "inherit"), flowlabel, ageing and
\* maxaddress (both sent as AGEING), dstport.
ParamBlocks(o) ==
  << Param(o, "ttl", "TTL", {"none", "inherit"}),
     Param(o, "tos", "TOS", {"none", "inherit"}),
     Param(o, "flowlabel", "LABEL", {"none"}),
     Param(o, "ageing", "AGEING", {"none"}),
     Param(o, "maxaddress", "AGEING", {"none"}),
     Param(o, "dstport", "PORT", {"none"}) >>

\* srcport LOW:HIGH: no colon after the first byte, or a half Sscan rejects.
SrcportBlock(o) ==
  CASE o.srcport = "none" -> Ok(<<>>)
    [] o.srcport = "ok"   -> Ok(<<A("PORT_RANGE", "srcport")>>)
    [] OTHER              -> Err("srcport")

\* A flag sends its type with 1 when set. The code's "else if" tests the set
\* name again, so an unset flag sends nothing.
FlagBlock(o) ==
  LET set == SelectSeq(FlagTable, LAMBDA e : o.flags[e[1]] = "set")
  IN Ok([i \in DOMAIN set |-> A(set[i][2], 1)])

ExternalBlock(o) ==
  CASE o.external = "set"   -> Ok(<<A("COLLECT_METADATA", 1), A("LEARNING", 0)>>)
    [] o.external = "unset" -> Ok(<<A("COLLECT_METADATA", 0)>>)
    [] OTHER                -> Ok(<<>>)

\* Both entries of the last table are named "gbp": gbp sends GBP and GPE,
\* gpe sends nothing.
GbpBlock(o) ==
  IF o.gbp = "set" THEN Ok(<<A("GBP", "nil"), A("GPE", "nil")>>) ELSE Ok(<<>>)

\* One block after the other; the first error is the result.
Then(r, b) ==
  IF r.err # "none" THEN r
  ELSE IF b.err # "none" THEN b
  ELSE Ok(r.attrs \o b.attrs)

ParseTypeVxlan(o) ==
  FoldLeft(Then, Ok(<<>>),
           << IdBlock(o), AddrCheck(o), GroupBlock(o), LocalBlock(o), DevBlock(o) >>
           \o ParamBlocks(o)
           \o << SrcportBlock(o), FlagBlock(o), ExternalBlock(o), GbpBlock(o) >>)

-----------------------------------------------------------------------------
(***************************************************************************)
(* The contract of the usage comment above parseTypeVxlan: each option     *)
(* given sends the IFLA_VXLAN_* attribute named after it once, a [no-]flag *)
(* sends 1 or 0, "external" also turns learning off, and a value that does *)
(* not parse is an error.                                                  *)
(***************************************************************************)
ContractFlagType ==
  [learning |-> "LEARNING", proxy |-> "PROXY", rsc |-> "RSC",
   l2miss |-> "L2MISS", l3miss |-> "L3MISS", udpcsum |-> "UDP_CSUM",
   udp6zerocsumtx |-> "UDP_ZERO_CSUM6_TX", udp6zerocsumrx |-> "UDP_ZERO_CSUM6_RX",
   remcsumtx |-> "REMCSUM_TX", remcsumrx |-> "REMCSUM_RX"]

ContractError(o) ==
  \/ o.id \in {"missing", "bad", "big"}
  \/ "bad" \in {o.group, o.local, o.remote}
  \/ o.dev = "unknown"
  \/ "bad" \in {o.ttl, o.tos, o.flowlabel, o.ageing, o.maxaddress, o.dstport}
  \/ o.srcport \notin {"none", "ok"}

\* The attributes as pairs of type and value.
ContractAttrs(o) ==
  LET addr == IF o.group # "none" THEN "group" ELSE "remote"
      given(n) == o[n] \notin {"none", "inherit"}
      params == {<<"TTL", "ttl">>, <<"TOS", "tos">>, <<"LABEL", "flowlabel">>,
                 <<"AGEING", "ageing">>, <<"LIMIT", "maxaddress">>,
                 <<"PORT", "dstport">>, <<"PORT_RANGE", "srcport">>}
      learningOff == o.external = "set"
  IN {<<"ID", "id">>}
     \cup (IF o[addr] = "none" THEN {}
           ELSE {<<IF o[addr] = "v4" THEN "GROUP" ELSE "GROUP6", addr>>})
     \cup (IF o.local = "none" THEN {}
           ELSE {<<IF o.local = "v4" THEN "LOCAL" ELSE "LOCAL6", "local">>})
     \cup (IF o.dev = "known" THEN {<<"LINK", "dev">>} ELSE {})
     \cup {pr \in params : given(pr[2])}
     \cup {<<ContractFlagType[n], IF o.flags[n] = "set" THEN 1 ELSE 0>> :
             n \in {f \in FlagNames : o.flags[f] # "none"
                                     /\ ~(learningOff /\ f = "learning")}}
     \cup (CASE o.external = "set"   -> {<<"COLLECT_METADATA", 1>>, <<"LEARNING", 0>>}
             [] o.external = "unset" -> {<<"COLLECT_METADATA", 0>>}
             [] OTHER                -> {})
     \cup (IF o.gbp = "set" THEN {<<"GBP", "nil">>} ELSE {})
     \cup (IF o.gpe = "set" THEN {<<"GPE", "nil">>} ELSE {})

\* What the kernel's nla_parse makes of an attribute list: for each type
\* present, the value of its last occurrence.
Effective(s) ==
  [t \in {s[i].t : i \in DOMAIN s} |->
     s[CHOOSE i \in DOMAIN s : s[i].t = t /\ \A j \in i + 1..Len(s) : s[j].t # t].v]

AsFunction(P) == [t \in {p[1] : p \in P} |-> (CHOOSE p \in P : p[1] = t)[2]]

-----------------------------------------------------------------------------
VARIABLES opts, result
vars == <<opts, result>>

Unparsed == [err |-> "unparsed", attrs |-> <<>>]

Init == opts \in Options /\ result = Unparsed

\* One "ip link add ... type vxlan ..." command: parseTypeVxlan runs once.
Parse ==
  /\ result = Unparsed
  /\ result' = ParseTypeVxlan(opts)
  /\ UNCHANGED opts

Spec == Init /\ [][Parse]_vars

Parsed == result # Unparsed

\* parseTypeVxlan rejects the command exactly when an option's value does
\* not parse or is out of range (vni of 24 bits, a uint8 ttl or tos, an IP
\* address, a known dev, srcport LOW:HIGH), whatever the other options are.
ErrorsFaithful == Parsed => (result.err # "none" <=> ContractError(opts))

\* An accepted command sends, as the kernel reads the list, exactly the
\* attributes its options name: no option lost, none sent under another
\* option's type, no attribute sent that no option asked for.
VxlanFaithful ==
  Parsed /\ result.err = "none" => Effective(result.attrs) = AsFunction(ContractAttrs(opts))
=============================================================================
