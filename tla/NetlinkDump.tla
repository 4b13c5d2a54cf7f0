---------------------------- MODULE NetlinkDump ----------------------------
(***************************************************************************)
(* The netlink socket multiplexer and its one in-tree consumer, Dump      *)
(* (src/internal/netlink/dump.go), together with the pooled lifecycle of  *)
(* every decoded message (src/internal/netlink/msg.go).                   *)
(*                                                                         *)
(* Dump parses its command line, makes the shared channel rx, opens the    *)
(* socket (optionally joining every namespace) and starts Listen.  One     *)
(* reader per namespace socket takes a message from the kernel, draws a   *)
(* message object of that kind from its pool (New<Kind>Message), tags it *)
(* with the socket's nsid, and sends it on rx, blocking while rx is full.  *)
(* Dump takes each message, writes it if its kind is selected and Closes  *)
(* it, which returns the object to its pool.  An object that becomes      *)
(* unreachable without Close is reclaimed by its finalizer.               *)
(*                                                                         *)
(* Message contents are abstracted to their kind; objects are integers so *)
(* that reuse of one pooled object by two owners can be seen.             *)
(***************************************************************************)
EXTENDS Integers, Sequences, SequencesExt, FiniteSets

CONSTANTS
  DefaultNsid,   \* nsid tag of the default socket's messages (-1)
  JoinedNsids,   \* nsids of the namespaces ListenAllNsid joins
  KernelKinds,   \* kinds of message the kernel sends in this model
  ArgLists,      \* command lines Dump may be started with
  Cap,           \* capacity of rx (64 at dump.go:69)
  MaxMsgs,       \* bound on the messages each reader receives
  WriteMayFail,  \* whether msg.WriteTo may return an error
  SocketMayFail, \* whether New / ListenAllNsid may return an error
  NoMsg,         \* model value: a reader holds no message
  NoNsid         \* model value: the message type has no Nsid field

\* The message types Dump distinguishes (dump.go:82-89); the names are
\* also the command-line tokens that select them (dump.go:36-51).
Kinds == {"noop", "error", "done", "link", "addr", "route", "neighbor", "netns"}
HelpTokens == {"-h", "-help", "--help"}
AllNsidTokens == {"-all-nsid", "--all-nsid", "all-nsid"}

AllNsids == {DefaultNsid} \cup JoinedNsids
MaxObjs == Cardinality(AllNsids) * MaxMsgs
Objs == 1..MaxObjs

ASSUME /\ KernelKinds \subseteq Kinds
       /\ Cap \in Nat \ {0}
       /\ MaxMsgs \in Nat \ {0}
       /\ DefaultNsid \notin JoinedNsids
       /\ WriteMayFail \in BOOLEAN /\ SocketMayFail \in BOOLEAN

\* A decoded message: the pooled object holding it, its kind, its nsid tag,
\* and (ghost) the reader that decoded it.
Msg == [obj : Objs, kind : Kinds, nsid : AllNsids \cup {NoNsid}, src : AllNsids]

VARIABLES
  args,      \* Dump's command line
  dump,      \* Dump's control point: "start", "listening", "returned"
  readers,   \* nsids whose reader loop runs
  recvd,     \* [AllNsids -> Seq(Kinds)]: kinds each reader got from the kernel
  hand,      \* [AllNsids -> Msg \cup {NoMsg}]: decoded, waiting to be sent on rx
  rx,        \* the channel, a Seq(Msg) of length at most Cap
  objKind,   \* Seq(Kinds): objKind[o] is the type of allocated object o
  pooled,    \* [Objs -> Nat]: how many times o sits in its kind's sync.Pool
  garbage,   \* objects unreachable and not yet finalized
  finalized, \* objects the finalizer has reclaimed (history)
  consumed,  \* Seq(Msg): messages Dump took from rx (history)
  printed    \* Seq(Msg): messages Dump wrote (history)

vars == <<args, dump, readers, recvd, hand, rx, objKind, pooled, garbage,
          finalized, consumed, printed>>

-----------------------------------------------------------------------------
(* Command line (dump.go:29-68).                                          *)

\* The argument loop: a help token returns at once, an unknown token is an
\* error, the others set allnsid or a mayDump flag.
RECURSIVE ScanArgs(_, _)
ScanArgs(as, acc) ==
  IF as = <<>> THEN acc
  ELSE LET a == Head(as) IN
       CASE a \in HelpTokens    -> [acc EXCEPT !.status = "help"]
         [] a \in AllNsidTokens -> ScanArgs(Tail(as), [acc EXCEPT !.allnsid = TRUE])
         [] a \in Kinds         -> ScanArgs(Tail(as), [acc EXCEPT !.may = @ \cup {a}])
         [] OTHER               -> [acc EXCEPT !.status = "unknown"]

ParsedArgs(as) == ScanArgs(as, [status |-> "ok", allnsid |-> FALSE, may |-> {}])

\* No mayDump flag set means every kind is dumped.
DumpSelection(p) == IF p.may = {} THEN Kinds ELSE p.may

\* The filter of the receive loop.
Selected(k) == k \in DumpSelection(ParsedArgs(args))

-----------------------------------------------------------------------------
(* Message objects (msg.go New<Kind>Message, New<Kind>MessageBytes, Close) *)

\* pool.<Kind>.Get(): a pooled object of that kind, or a fresh one.
Acquire(k, o) ==
  \/ /\ o \in DOMAIN objKind
     /\ objKind[o] = k
     /\ pooled[o] > 0
     /\ pooled' = [pooled EXCEPT ![o] = @ - 1]
     /\ UNCHANGED objKind
  \/ /\ o = Len(objKind) + 1
     /\ o \in Objs
     /\ objKind' = Append(objKind, k)
     /\ UNCHANGED pooled

\* The nsid a freshly decoded message carries: New<Kind>MessageBytes(b, nsid)
\* stores nsid, but NetnsMessage has no Nsid field.
TagOf(k, r) == IF k = "netns" THEN NoNsid ELSE r

\* Close: clear the finalizer, close the attributes, repool the object.
Release(o) == pooled' = [pooled EXCEPT ![o] = @ + 1]

-----------------------------------------------------------------------------
(* Dump (dump.go:19-80): parse, make rx, New, ListenAllNsid, go Listen.    *)
DumpStart ==
  /\ dump = "start"
  /\ LET p == ParsedArgs(args) IN
     \/ /\ p.status \in {"help", "unknown"}
        /\ dump' = "returned"
        /\ UNCHANGED readers
     \/ /\ p.status = "ok"
        /\ SocketMayFail
        /\ dump' = "returned"
        /\ UNCHANGED readers
     \/ /\ p.status = "ok"
        /\ dump' = "listening"
        /\ readers' = {DefaultNsid} \cup (IF p.allnsid THEN JoinedNsids ELSE {})
  /\ UNCHANGED <<args, recvd, hand, rx, objKind, pooled, garbage, finalized,
                 consumed, printed>>

\* Reader r receives a kind-k message and decodes it into a pooled object.
Receive(r) ==
  /\ r \in readers
  /\ hand[r] = NoMsg
  /\ Len(recvd[r]) < MaxMsgs
  /\ \E k \in KernelKinds, o \in Objs :
       /\ Acquire(k, o)
       /\ hand' = [hand EXCEPT ![r] = [obj |-> o, kind |-> k,
                                       nsid |-> TagOf(k, r), src |-> r]]
       /\ recvd' = [recvd EXCEPT ![r] = Append(@, k)]
  /\ UNCHANGED <<args, dump, readers, rx, garbage, finalized, consumed, printed>>

\* Faulty variants of Publish: no backpressure, and an off-by-one in it.
PublishUnbounded(r) ==
  /\ hand[r] # NoMsg
  /\ rx' = Append(rx, hand[r])
  /\ hand' = [hand EXCEPT ![r] = NoMsg]
  /\ UNCHANGED <<args, dump, readers, recvd, objKind, pooled, garbage,
                 finalized, consumed, printed>>

PublishOffByOne(r) ==
  /\ hand[r] # NoMsg
  /\ Len(rx) < Cap - 1
  /\ rx' = Append(rx, hand[r])
  /\ hand' = [hand EXCEPT ![r] = NoMsg]
  /\ UNCHANGED <<args, dump, readers, recvd, objKind, pooled, garbage,
                 finalized, consumed, printed>>

\* Reader r sends its message on rx, blocking while rx is full.
Publish(r) ==
  /\ hand[r] # NoMsg
  /\ Len(rx) < Cap
  /\ rx' = Append(rx, hand[r])
  /\ hand' = [hand EXCEPT ![r] = NoMsg]
  /\ UNCHANGED <<args, dump, readers, recvd, objKind, pooled, garbage,
                 finalized, consumed, printed>>

\* The receive loop (dump.go:81-104): an unselected message is Closed, a
\* selected one is written then Closed; a write error returns at once and
\* leaves msg unclosed (and rx, the socket and the readers as they are).
\* Faulty variants: an unselected message is not Closed; a printed message
\* is Closed twice (a deferred Close besides the one at dump.go:103).
DropUnselectedNoClose(m) ==
  /\ ~Selected(m.kind)
  /\ garbage' = garbage \cup {m.obj}
  /\ UNCHANGED <<dump, pooled, printed>>

PrintAndCloseTwice(m) ==
  /\ Selected(m.kind)
  /\ printed' = Append(printed, m)
  /\ pooled' = [pooled EXCEPT ![m.obj] = @ + 2]
  /\ UNCHANGED <<dump, garbage>>

DropUnselected(m) ==
  /\ ~Selected(m.kind)
  /\ Release(m.obj)
  /\ UNCHANGED <<dump, garbage, printed>>

PrintAndClose(m) ==
  /\ Selected(m.kind)
  /\ printed' = Append(printed, m)
  /\ Release(m.obj)
  /\ UNCHANGED <<dump, garbage>>

WriteFails(m) ==
  /\ Selected(m.kind)
  /\ WriteMayFail
  /\ dump' = "returned"
  /\ garbage' = garbage \cup {m.obj}
  /\ UNCHANGED <<pooled, printed>>

\* Faulty variant: Dump stops at the first Done, as if it ended the stream.
ConsumeReturnsAtDone ==
  /\ dump = "listening"
  /\ rx # <<>>
  /\ LET m == Head(rx) IN
     /\ rx' = Tail(rx)
     /\ consumed' = Append(consumed, m)
     /\ \/ /\ m.kind # "done"
           /\ \/ DropUnselected(m)
              \/ PrintAndClose(m)
              \/ WriteFails(m)
        \/ /\ m.kind = "done"
           /\ dump' = "returned"
           /\ Release(m.obj)
           /\ UNCHANGED <<garbage, printed>>
  /\ UNCHANGED <<args, readers, recvd, hand, objKind, finalized>>

Consume ==
  /\ dump = "listening"
  /\ rx # <<>>
  /\ LET m == Head(rx) IN
     /\ rx' = Tail(rx)
     /\ consumed' = Append(consumed, m)
     /\ \/ DropUnselected(m)
        \/ PrintAndClose(m)
        \/ WriteFails(m)
  /\ UNCHANGED <<args, readers, recvd, hand, objKind, finalized>>

\* The finalizer set by New<Kind>Message runs Close on an unreachable object.
Finalize ==
  /\ \E o \in garbage :
       /\ garbage' = garbage \ {o}
       /\ finalized' = finalized \cup {o}
       /\ Release(o)
  /\ UNCHANGED <<args, dump, readers, recvd, hand, rx, objKind, consumed, printed>>

-----------------------------------------------------------------------------
Init ==
  /\ args \in ArgLists
  /\ dump = "start"
  /\ readers = {}
  /\ recvd = [r \in AllNsids |-> <<>>]
  /\ hand = [r \in AllNsids |-> NoMsg]
  /\ rx = <<>>
  /\ objKind = <<>>
  /\ pooled = [o \in Objs |-> 0]
  /\ garbage = {}
  /\ finalized = {}
  /\ consumed = <<>>
  /\ printed = <<>>

Next ==
  \/ DumpStart
  \/ \E r \in AllNsids : Receive(r) \/ Publish(r)
  \/ Consume
  \/ Finalize

\* Go schedules every runnable goroutine eventually: a reader blocked only
\* on rx, Dump blocked only on rx, and a pending finalizer all progress.
\* The kernel is under no obligation to send anything (Receive is unfair).
Fairness ==
  /\ WF_vars(DumpStart)
  /\ \A r \in AllNsids : WF_vars(Publish(r))
  /\ WF_vars(Consume)
  /\ WF_vars(Finalize)

Spec == Init /\ [][Next]_vars /\ Fairness

-----------------------------------------------------------------------------
(* Properties                                                              *)

TypeOK ==
  /\ args \in ArgLists
  /\ dump \in {"start", "listening", "returned"}
  /\ readers \subseteq AllNsids
  /\ recvd \in [AllNsids -> Seq(KernelKinds)]
  /\ hand \in [AllNsids -> Msg \cup {NoMsg}]
  /\ rx \in Seq(Msg) /\ Len(rx) <= Cap
  /\ objKind \in Seq(Kinds) /\ Len(objKind) <= MaxObjs
  /\ pooled \in [Objs -> Nat]
  /\ garbage \subseteq Objs /\ finalized \subseteq Objs
  /\ consumed \in Seq(Msg) /\ printed \in Seq(Msg)

\* Number of places object o is in: its pool (once per repool), a reader's
\* hand, a slot of rx, or the unreachable heap.
Holders(o) ==
  pooled[o]
  + Cardinality({r \in AllNsids : hand[r] # NoMsg /\ hand[r].obj = o})
  + Cardinality({i \in DOMAIN rx : rx[i].obj = o})
  + (IF o \in garbage THEN 1 ELSE 0)

\* Pool discipline: a message object is never repooled while held and never
\* handed to two owners, so no two live messages share storage, whatever
\* the interleaving of readers, Dump's Close and the finalizer; and every
\* live message sits in an object of its own type.
ExclusiveOwnership ==
  /\ \A o \in Objs : Holders(o) <= 1
  /\ \A r \in AllNsids : hand[r] # NoMsg => objKind[hand[r].obj] = hand[r].kind
  /\ \A i \in DOMAIN rx : objKind[rx[i].obj] = rx[i].kind

\* The messages Dump took from reader r's socket, in the order it took them.
FromReader(r) == SelectSeq(consumed, LAMBDA m : m.src = r)

\* Spec section 3/8 (scenario D): every message read on a joined
\* namespace's socket keeps that namespace's nsid, whatever its type.
NsidTaggedAll ==
  \A i \in DOMAIN consumed :
    consumed[i].src \in JoinedNsids => consumed[i].nsid = consumed[i].src

\* Every message Dump handles is released by an explicit Close (spec section
\* 4.4); the finalizer backstop only ever reclaims the one message Dump held
\* when its write failed and it returned.
ExplicitRelease ==
  finalized # {} => dump = "returned" /\ finalized = {consumed[Len(consumed)].obj}

\* Unless a write fails (the only way a message is left to the finalizer),
\* every message a reader receives from the kernel is eventually taken by
\* Dump: backpressure on a full rx stalls readers but never for ever.
AllDelivered ==
  [](garbage = {} /\ finalized = {}) =>
    \A r \in AllNsids, n \in 1..MaxMsgs :
      (Len(recvd[r]) >= n) ~> (Len(FromReader(r)) >= n)

\* A reader holding a decoded message eventually hands it on: no reader
\* goroutine blocks for ever on rx, holding a message nobody releases.
ReadersNeverStuck ==
  \A r \in AllNsids : (hand[r] # NoMsg) ~> (hand[r] = NoMsg)
=============================================================================
