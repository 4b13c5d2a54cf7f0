---------------------------- MODULE NetlinkCodec ----------------------------
(***************************************************************************)
(* The message codec of internal/netlink/msg.go: a producer populates a    *)
(* message's attribute slots and TxAdd encodes it (header type, body,      *)
(* attributes in ascending kind order) and Closes it; the reader           *)
(* dispatches the received header type to a message variant whose Parse   *)
(* overlays the header and body and walks the TLV attributes one at a      *)
(* time, sending each kind through the variant's switch to a value         *)
(* constructor, ignoring it, or panicking.                                 *)
(*                                                                         *)
(* Byte layouts are abstracted: an attribute value is its constructor      *)
(* class and its length in bytes; a TLV on the wire is its kind and its    *)
(* payload length. Attribute kinds are the Linux kind numbers the code's   *)
(* IFLA_*, IFA_*, RTA_*, NDA_* and NETNSA_* constants stand for.           *)
(***************************************************************************)
EXTENDS Integers, Sequences, SequencesExt, FiniteSets

CONSTANTS
  MsgTypes,      \* message variants a run explores
  Families,      \* address families of the fixed body
  BuildKinds,    \* [variant -> kinds a producer may populate]
  KernelKinds,   \* [variant -> kinds a kernel TLV may carry]
  KernelLens,    \* payload lengths of kernel TLVs
  MaxAttrs,      \* bound on attributes per message
  IflaMax, IfaMax, RtaMax, NdaMax, NetnsaMax,  \* <KIND>_MAX of the package
  Nil            \* an empty attribute slot

AttrTypes == {"link", "addr", "route", "neighbor", "netns"}
HeaderOnly == {"noop", "done", "error", "gen"}
Ended == {"parsed", "fatal", "oob", "badaddr"}
Classes == {"string", "u8", "operstate", "u16", "u32", "i32", "stats",
            "stats64", "afspec", "addr", "ifaflags", "cacheinfo", "hex", "raw"}

ASSUME MsgTypes \subseteq AttrTypes \cup HeaderOnly
ASSUME NetnsaMax > 3

\* Length of the Attrs array of each variant.
AttrMax(t) ==
  CASE t = "link" -> IflaMax [] t = "addr" -> IfaMax [] t = "route" -> RtaMax
    [] t = "neighbor" -> NdaMax [] t = "netns" -> NetnsaMax [] OTHER -> 0

\* NETNSA_NSID, NETNSA_PID, NETNSA_FD: the slots Netns Parse pre-seeds.
Tracked(t) == IF t = "netns" THEN {1, 2, 3} ELSE {}

\* The slots a message of variant t can ever fill.
KindSpace(t) ==
  IF t \in AttrTypes
  THEN (BuildKinds[t] \cup KernelKinds[t] \cup Tracked(t)) \cap 0..(AttrMax(t) - 1)
  ELSE {}

MaxLen == 16
Value == [cls : Classes, len : 0..MaxLen, sentinel : BOOLEAN]
Val(c, n) == [cls |-> c, len |-> n, sentinel |-> FALSE]

(***************************************************************************)
(* The switch of each variant's Parse: the constructor class of a kind,    *)
(* "ignored" for an empty case, "other" for the default branch.            *)
(***************************************************************************)
LinkClass(k) ==
  CASE k \in {3, 6} -> "string"                     \* IFNAME, QDISC
    [] k \in {4, 5, 10, 15, 19, 28, 37, 29, 30, 31, 32, 13, 40, 41, 35, 27}
         -> "u32"                                   \* MTU .. GROUP
    [] k \in {33, 17, 39} -> "u8"                   \* CARRIER, LINKMODE, PROTO_DOWN
    [] k = 16 -> "operstate"
    [] k = 7 -> "stats"
    [] k = 23 -> "stats64"
    [] k = 26 -> "afspec"
    [] k \in {1, 2} -> "lladdr"                     \* ADDRESS, BROADCAST
    [] k = 14 -> "ignored"                          \* IFLA_MAP
    [] OTHER -> "other"

AddrClass(k) ==
  CASE k = 3 -> "string"                            \* IFA_LABEL
    [] k = 8 -> "ifaflags"
    [] k = 6 -> "cacheinfo"
    [] k \in {1, 2, 4, 5, 7} -> "addr"              \* ADDRESS .. MULTICAST
    [] OTHER -> "other"

RouteClass(k) ==
  CASE k \in {1, 2, 7, 5} -> "addr"                 \* DST, SRC, PREFSRC, GATEWAY
    [] k \in {15, 3, 4, 6, 11} -> "u32"             \* TABLE, IIF, OIF, PRIORITY, FLOW
    [] k = 21 -> "u16"                              \* ENCAP_TYPE
    [] k = 20 -> "u8"                               \* PREF
    [] k = 12 -> "cacheinfo"
    [] OTHER -> "other"

NeighClass(k) ==
  CASE k = 1 -> "addr"                              \* NDA_DST
    [] k = 2 -> "lladdr"                            \* NDA_LLADDR
    [] k = 3 -> "cacheinfo"
    [] k \in {4, 7, 8, 9, 10} -> "u32"              \* PROBES, VNI, IFINDEX, MASTER, LINK_NETNSID
    [] k = 5 -> "u16"                               \* NDA_VLAN
    [] OTHER -> "other"

\* Netns Parse has no default below NETNSA_MAX: any other kind panics.
NetnsClass(k) ==
  CASE k = 0 -> "ignored"                           \* NETNSA_NONE
    [] k = 1 -> "i32"                               \* NETNSA_NSID
    [] k \in {2, 3} -> "u32"                        \* NETNSA_PID, NETNSA_FD
    [] OTHER -> "fatal"

Class(t, k) ==
  CASE t = "link" -> LinkClass(k) [] t = "addr" -> AddrClass(k)
    [] t = "route" -> RouteClass(k) [] t = "neighbor" -> NeighClass(k)
    [] t = "netns" -> NetnsClass(k)

\* afAddr: AF_INET takes 4 bytes, AF_INET6 16, AF_UNSPEC any width.
AfAddrFits(f, n) ==
  CASE f = "AF_INET" -> n = 4 [] f = "AF_INET6" -> n = 16 [] OTHER -> TRUE

Outcome(o, v) == [out |-> o, val |-> v]

StringValueDropTwo(n) == Val("string", n - 2)

StringValueKeepNul(n) == Val("string", n)

\* StringAttrBytes(v[:len(v)-1]): the value without its trailing NUL.
StringValue(n) == Val("string", n - 1)

(***************************************************************************)
(* One arm of the switch applied to a TLV of kind k and payload length n   *)
(* in a message of variant t and family f. v[:len(v)-1] and v[0] index     *)
(* out of range on an empty payload.                                       *)
(***************************************************************************)
DecodeAttr(t, f, k, n) ==
  LET c == Class(t, k) IN
  IF c \in {"string", "u8", "operstate"} /\ n = 0 THEN Outcome("oob", Nil)
  ELSE CASE c = "ignored" -> Outcome("ignored", Nil)
         [] c = "fatal" -> Outcome("fatal", Nil)
         [] c = "other" -> IF k < AttrMax(t) THEN Outcome("value", Val("hex", n))
                                            ELSE Outcome("fatal", Nil)
         [] c = "string" -> Outcome("value", StringValue(n))
         [] c \in {"u8", "operstate"} -> Outcome("value", Val(c, 1))
         [] c = "lladdr" -> Outcome("value", Val("addr", n))
         [] c = "addr" -> IF AfAddrFits(f, n) THEN Outcome("value", Val("addr", n))
                                              ELSE Outcome("badaddr", Nil)
         [] OTHER -> Outcome("value", Val(c, n))

(***************************************************************************)
(* What a producer can put in a slot: the value the constructor the        *)
(* switch names for that kind would hold. A producer may set IFLA_MAP      *)
(* (an ifmap record), which Parse has no constructor for.                  *)
(***************************************************************************)
Width(c) ==
  CASE c \in {"u8", "operstate"} -> 1 [] c = "u16" -> 2
    [] c \in {"u32", "i32", "ifaflags"} -> 4 [] c = "hex" -> 3 [] OTHER -> 8

ProducerValues(t, f, k) ==
  LET c == Class(t, k) IN
  CASE c = "string" -> {Val("string", 0), Val("string", 4)}
    [] c = "lladdr" -> {Val("addr", 6)}
    [] c = "addr" -> {Val("addr", w) : w \in {w \in {4, 16} : AfAddrFits(f, w)}}
    [] c = "other" -> {Val("hex", Width("hex"))}
    [] c = "ignored" -> {Val("raw", Width("raw"))}
    [] c = "fatal" -> {}
    [] OTHER -> {Val(c, Width(c))}

Empty(t) == [k \in KindSpace(t) |-> Nil]

\* Every message a producer can build: at most MaxAttrs populated slots.
Builds(t, f) ==
  LET Fill(S) == {g \in [S -> UNION {ProducerValues(t, f, k) : k \in S}] :
                    \A k \in S : g[k] \in ProducerValues(t, f, k)}
      Sets == {S \in SUBSET {k \in KindSpace(t) : k \in BuildKinds[t]} : Cardinality(S) <= MaxAttrs}
  IN {[k \in KindSpace(t) |-> IF k \in DOMAIN g THEN g[k] ELSE Nil] :
        g \in UNION {Fill(S) : S \in Sets}}

\* Every TLV list of at most MaxAttrs attributes a kernel can send.
KernelWires(t) ==
  IF t \in AttrTypes
  THEN BoundedSeq([kind : KernelKinds[t], len : KernelLens], MaxAttrs)
  ELSE {<<>>}

\* StringAttr encodes with its NUL; every other value is its bytes.
EncLen(v) == IF v.cls = "string" THEN v.len + 1 ELSE v.len

\* AttrVec.Set: every populated slot, in ascending kind order.
Encode(b) ==
  LET ks == SetToSortSeq({k \in DOMAIN b : b[k] # Nil}, <)
  IN [i \in DOMAIN ks |-> [kind |-> ks[i], len |-> EncLen(b[ks[i]])]]

\* The header type TxAdd writes: Noop and Done both write NLMSG_NOOP.
TxAddType(t) == IF t \in {"noop", "done"} THEN "noop" ELSE t

\* Every TxAdd but GenMessage's defers m.Close().
TxAddCloses(t) == t # "gen"

\* NSID = -2, PID = 0, FD = ^uint32(0): the "not present" values.
Seed(k) == [cls |-> IF k = 1 THEN "i32" ELSE "u32", len |-> 4, sentinel |-> TRUE]

InitialSlots(t) == [k \in KindSpace(t) |-> IF k \in Tracked(t) THEN Seed(k) ELSE Nil]
-----------------------------------------------------------------------------
VARIABLES
  mtype,     \* the variant the message was built or sent as
  fam,       \* the address family of its fixed body
  origin,    \* "producer": built and sent by TxAdd; "kernel": received as is
  built,     \* the producer's attribute slots before TxAdd (a history)
  hdr,       \* the header type on the wire
  wire,      \* the TLVs on the wire
  dtype,     \* the variant the reader decodes it as
  slots,     \* the decoded message's Attrs
  cur,       \* the TLV Parse reads next
  phase,     \* build, sent, parsing, or how Parse ended
  released   \* TxAdd has Closed the producer's message

vars == <<mtype, fam, origin, built, hdr, wire, dtype, slots, cur, phase, released>>

Init ==
  /\ \E t \in MsgTypes, f \in Families :
       /\ mtype = t
       /\ fam = f
       /\ \/ /\ origin = "producer" /\ built \in Builds(t, f)
             /\ hdr = Nil /\ wire = <<>> /\ phase = "build"
          \/ /\ origin = "kernel" /\ built = Empty(t)
             /\ hdr = t /\ wire \in KernelWires(t) /\ phase = "sent"
  /\ dtype = Nil
  /\ slots = <<>>
  /\ cur = 1
  /\ released = FALSE

\* <Kind>Message.TxAdd: header type, body and attributes to the request
\* buffer, then the deferred Close (repool) of every variant but Gen.
TxAdd ==
  /\ phase = "build"
  /\ hdr' = TxAddType(mtype)
  /\ wire' = Encode(built)
  /\ released' = TxAddCloses(mtype)
  /\ phase' = "sent"
  /\ UNCHANGED <<mtype, fam, origin, built, dtype, slots, cur>>

\* The reader picks the variant from the header type; Parse overlays
\* header and body and, for Netns, pre-seeds the tracked slots.
ParseStart ==
  /\ phase = "sent"
  /\ dtype' = hdr
  /\ slots' = InitialSlots(hdr)
  /\ phase' = "parsing"
  /\ UNCHANGED <<mtype, fam, origin, built, hdr, wire, cur, released>>

\* One iteration of the attribute loop: nextAttr, then the switch arm.
ParseAttr ==
  /\ phase = "parsing"
  /\ cur <= Len(wire)
  /\ LET k == wire[cur].kind
         d == DecodeAttr(dtype, fam, k, wire[cur].len)
     IN \/ /\ d.out = "value"
           /\ slots' = [slots EXCEPT ![k] = d.val]
           /\ cur' = cur + 1
           /\ UNCHANGED phase
        \/ /\ d.out = "ignored"
           /\ cur' = cur + 1
           /\ UNCHANGED <<slots, phase>>
        \/ /\ d.out \in {"fatal", "oob", "badaddr"}
           /\ phase' = d.out
           /\ UNCHANGED <<slots, cur>>
  /\ UNCHANGED <<mtype, fam, origin, built, hdr, wire, dtype, released>>

\* The loop ends when the body is consumed.
ParseEnd ==
  /\ phase = "parsing"
  /\ cur > Len(wire)
  /\ phase' = "parsed"
  /\ UNCHANGED <<mtype, fam, origin, built, hdr, wire, dtype, slots, cur, released>>

\* The message's life is over; nothing more happens to it.
Finished ==
  /\ phase \in Ended
  /\ UNCHANGED vars

Next == TxAdd \/ ParseStart \/ ParseAttr \/ ParseEnd \/ Finished

Spec == Init /\ [][Next]_vars

-----------------------------------------------------------------------------
\* b is an Attrs array of variant t.
IsSlots(b, t) == DOMAIN b = KindSpace(t) /\ \A k \in DOMAIN b : b[k] \in Value \cup {Nil}

TypeOK ==
  /\ mtype \in MsgTypes
  /\ origin \in {"producer", "kernel"}
  /\ IsSlots(built, mtype)
  /\ hdr \in MsgTypes \cup {"noop", Nil}
  /\ \A i \in DOMAIN wire : wire[i].kind \in Nat /\ wire[i].len \in 0..(MaxLen + 1)
  /\ dtype \in MsgTypes \cup {"noop", Nil}
  /\ \E t \in MsgTypes \cup {"noop"} : IsSlots(slots, t)
  /\ cur \in 1..(MaxAttrs + 1)
  /\ phase \in {"build", "sent", "parsing"} \cup Ended
  /\ released \in BOOLEAN

\* The slots a decode of the producer's message must give back: what it
\* populated, and the Netns "not present" values where it populated none.
Expected(t, b) ==
  [k \in DOMAIN b |-> IF b[k] = Nil /\ k \in Tracked(t) THEN Seed(k) ELSE b[k]]

\* Round trip (spec 8): TxAdd then Parse of any message a producer can
\* build decodes without error to the same variant and the same slots.
RoundTrip ==
  origin = "producer" /\ phase \in Ended =>
    /\ phase = "parsed"
    /\ dtype = mtype
    /\ slots = Expected(mtype, built)
=============================================================================
