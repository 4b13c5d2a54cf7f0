------------------------------- MODULE Ucd9090 -------------------------------
(***************************************************************************)
(* The ucd9090 daemon of internal/goes/cmd/ucd9090/ucd9090.go. Main polls  *)
(* every 10 s; update visits the keys of VpageByKey in Go's random map     *)
(* order: a "units.V" key reads a rail's voltage (Vout), the               *)
(* "poweroff.events" key scans the chip's fault log (PowerCycles), and a   *)
(* value is published when it differs from the last one. PowerCycles      *)
(* keeps two package globals, loggedFaultCount and lastLoggedFaultDetail,  *)
(* and reports the log only when its count or its first entry changed.     *)
(* An I2C failure ends update with an error; Main closes cmd.stop and      *)
(* returns. Close, called by the daemon's owner, also closes cmd.stop.     *)
(*                                                                         *)
(* The chip (its fault log, VOUT_MODE and READ_VOUT of each rail, the      *)
(* stopped flag) is an environment that changes a bounded number of times  *)
(* and does not change during one scan of the log. A log entry is its time *)
(* on the chip's clock and its fault type; a voltage is its mantissa and   *)
(* the exponent Vout applies; the %.3f rounding is not modelled.           *)
(***************************************************************************)
EXTENDS Integers, Sequences, SequencesExt, Bitwise

CONSTANTS
  Rails,          \* the "units.V" keys of VpageByKey
  Page,           \* [Rails -> 1..10]: their VpageByKey values
  VoutModes,      \* VOUT_MODE bytes a rail may report
  Mants,          \* READ_VOUT mantissas a rail may report
  LogCap,         \* entries the chip's fault log holds
  MaxClock,       \* bound on the chip's clock (milliseconds, abstracted)
  MsPerSec,       \* clock units per second of a timestamp
  RpcMayFail,     \* DoI2cRpc can fail
  CloseMayHappen, \* the owner may call Close
  MaxEnvChanges,  \* bound on changes of the chip's state
  MaxDetailCalls, \* bound on calls of LoggedFaultDetail
  VdevAddr        \* Vdev.Addr, set by the platform before Main; 0: no chip

ASSUME \A r \in Rails : Page[r] \in 1..10
ASSUME VdevAddr \in Nat

PowerKey == "poweroff.events"
Keys == Rails \cup {PowerKey}
FaultTypes == {0, 1, 2}     \* 0, 1 are counted as power cycles; 2 stands for any other
\* An entry's detail bytes: its time on the chip's clock and its fault type.
Entry == [ms : 0..MaxClock, type : FaultTypes]
ZeroDetail == [ms |-> 0, type |-> 0]   \* lastLoggedFaultDetail's initial zero bytes
\* seconds = milli / 1000, formatted as an RFC 3339 timestamp.
Seconds(e) == e.ms \div MsPerSec

(***************************************************************************)
(* Vout's exponent: n := VOUT_MODE & 0xf; n--; n = (n ^ 0xf) & 0xf, on a   *)
(* uint8; the voltage is READ_VOUT * 2^-n.                                 *)
(***************************************************************************)
VoutExponentNoDecrement(md) == -((((md & 15) % 256) ^^ 15) & 15)

VoutExponent(md) == -(((((md & 15) - 1) % 256) ^^ 15) & 15)

\* PMBus linear VOUT_MODE: bits 4:0 are a two's complement exponent.
LinearExponent(md) == IF (md & 31) >= 16 THEN (md & 31) - 32 ELSE md & 31

\* The timestamps PowerCycles collects: each entry of fault type 0 or 1
\* whose timestamp the string does not contain yet, in log order.
RECURSIVE Stamps(_, _)
Stamps(lg, acc) ==
  IF lg = <<>> THEN acc
  ELSE Stamps(Tail(lg),
              IF Head(lg).type \in {0, 1} /\ ~(\E i \in DOMAIN acc : acc[i] = Seconds(Head(lg)))
              THEN Append(acc, Seconds(Head(lg))) ELSE acc)

PowerOffStamps(lg) == Stamps(lg, <<>>)

VARIABLES
  main, stop, closer, first,
  pending,     \* keys update has still to visit
  last,        \* cmd.last: the voltage last published per rail
  lasts,       \* cmd.lasts[PowerKey]: the power-off events last published
  loggedFaultCount, lastLoggedFaultDetail,
  flog,        \* the chip's fault log
  clock,       \* the chip's clock
  mode, mant,  \* each rail's VOUT_MODE and READ_VOUT
  stopped, envBudget,
  detailCalls, \* calls of LoggedFaultDetail still to come
  detailLog,   \* the log LoggedFaultDetail last returned as new (history)
  detailErr    \* a call of LoggedFaultDetail has returned an error (history)

chip == <<flog, clock, mode, mant, stopped, envBudget>>
caller == <<detailCalls, detailLog, detailErr>>
vars == <<main, stop, closer, first, pending, last, lasts, loggedFaultCount,
          lastLoggedFaultDetail, chip, caller>>

Voltage == [m : Mants \cup {0}, e : -15..0]
ZeroVolt == [m |-> 0, e |-> 0]   \* cmd.last[k]'s zero value

Init ==
  /\ main = "idle" /\ stop = "nil" /\ closer = FALSE /\ first = 0
  /\ pending = {}
  /\ last = [r \in Rails |-> ZeroVolt]
  /\ lasts = <<>>
  /\ loggedFaultCount = 0 /\ lastLoggedFaultDetail = ZeroDetail
  /\ flog = <<>> /\ clock = 0
  /\ mode \in [Rails -> VoutModes] /\ mant \in [Rails -> Mants]
  /\ stopped \in BOOLEAN /\ envBudget = MaxEnvChanges
  /\ detailCalls = MaxDetailCalls /\ detailLog = <<>> /\ detailErr = FALSE

\* Main: first = 1, make cmd.stop and the maps; publisher.New or Sysinfo
\* may fail and Main returns before its loop.
MainStart ==
  /\ main = "idle"
  /\ first' = 1 /\ stop' = "open"
  /\ main' \in {"returned", "loop"}
  /\ UNCHANGED <<closer, pending, last, lasts, loggedFaultCount,
                 lastLoggedFaultDetail, chip, caller>>

\* A tick of t.C: when Vdev.Addr != 0, update, which returns at once when
\* readStopped() is 1 and otherwise runs ucdInit (nothing) on the first poll.
Tick ==
  /\ main = "loop"
  /\ IF VdevAddr = 0 \/ stopped THEN UNCHANGED <<main, pending, first>>
     ELSE main' = "update" /\ pending' = Keys /\ first' = 0
  /\ UNCHANGED <<stop, closer, last, lasts, loggedFaultCount,
                 lastLoggedFaultDetail, chip, caller>>

SeeStop ==
  /\ main = "loop" /\ stop = "closed"
  /\ main' = "returned"
  /\ UNCHANGED <<stop, closer, first, pending, last, lasts, loggedFaultCount,
                 lastLoggedFaultDetail, chip, caller>>

\* close(cmd.stop) after an update error, then return err.
MainCloses ==
  IF stop = "closed" THEN main' = "panicked" /\ UNCHANGED stop
                     ELSE main' = "returned" /\ stop' = "closed"

\* cmd.Close from the daemon's owner: close(cmd.stop), which panics on a
\* closed channel, and on a nil one when Main has not made it yet.
Close ==
  /\ CloseMayHappen /\ ~closer
  /\ main # "panicked"
  /\ closer' = TRUE
  /\ IF stop = "open" THEN stop' = "closed" /\ UNCHANGED main
                      ELSE main' = "panicked" /\ UNCHANGED stop
  /\ UNCHANGED <<first, pending, last, lasts, loggedFaultCount,
                 lastLoggedFaultDetail, chip, caller>>

\* The end of one key's iteration of update's loop.
KeyDone(k) ==
  /\ pending' = pending \ {k}
  /\ main' = IF pending' = {} THEN "loop" ELSE "update"

VoutNoNegate(k) ==
  /\ main = "update" /\ k \in pending /\ k \in Rails
  /\ \/ LET v == [m |-> mant[k], e |-> -VoutExponent(mode[k])]
        IN /\ last' = IF v # last[k] THEN [last EXCEPT ![k] = v] ELSE last
           /\ KeyDone(k)
           /\ UNCHANGED stop
     \/ RpcMayFail /\ MainCloses /\ UNCHANGED <<pending, last>>
  /\ UNCHANGED <<closer, first, lasts, loggedFaultCount, lastLoggedFaultDetail, chip, caller>>

\* A "units.V" key: Vout(i) reads VOUT_MODE and READ_VOUT of page i-1 in
\* one RPC; the value is published when it differs from cmd.last[k].
Vout(k) ==
  /\ main = "update" /\ k \in pending /\ k \in Rails
  /\ \/ LET v == [m |-> mant[k], e |-> VoutExponent(mode[k])]
        IN /\ last' = IF v # last[k] THEN [last EXCEPT ![k] = v] ELSE last
           /\ KeyDone(k)
           /\ UNCHANGED stop
     \/ RpcMayFail /\ MainCloses /\ UNCHANGED <<pending, last>>
  /\ UNCHANGED <<closer, first, lasts, loggedFaultCount, lastLoggedFaultDetail, chip, caller>>

\* PowerCycles' test at i == 0: the log is new when its count differs from
\* loggedFaultCount or its first entry's detail from lastLoggedFaultDetail.
PcNewCountOnly(lg) == loggedFaultCount # Len(lg)

PcNew(lg) == loggedFaultCount # Len(lg) \/ lg[1] # lastLoggedFaultDetail

\* The globals after entry 0 has been read: both hold the log's count and
\* its first entry when the log is new, and are left alone otherwise.
PcRecord(lg) ==
  IF PcNew(lg) THEN loggedFaultCount' = Len(lg) /\ lastLoggedFaultDetail' = lg[1]
  ELSE UNCHANGED <<loggedFaultCount, lastLoggedFaultDetail>>

\* The RPC of a scan of log lg that may fail: 0 the count read, j >= 1 a
\* read of entry j-1. A log that is not new ends the scan at entry 0.
FailPoints(lg) == IF lg # <<>> /\ PcNew(lg) THEN 0..Len(lg) ELSE 0..Len(lg) \cap 0..1

\* The "poweroff.events" key: PowerCycles reads the count d, then two RPCs
\* per entry; it returns "" when d = 0 or the log is not new, else the
\* power-off timestamps. update publishes a value that is not "" and
\* differs from cmd.lasts[k]. An RPC failing on entry j >= 1 returns
\* an error after the globals have been recorded at entry 0.
PowerCycles ==
  /\ main = "update" /\ PowerKey \in pending
  /\ LET d == Len(flog) IN
     \/ /\ IF d > 0 /\ PcNew(flog)
           THEN LET v == PowerOffStamps(flog)
                IN /\ PcRecord(flog)
                   /\ lasts' = IF v # <<>> /\ v # lasts THEN v ELSE lasts
           ELSE UNCHANGED <<loggedFaultCount, lastLoggedFaultDetail, lasts>>
        /\ KeyDone(PowerKey)
        /\ UNCHANGED stop
     \/ /\ RpcMayFail
        /\ \E j \in FailPoints(flog) :
             IF j >= 2 THEN PcRecord(flog)
             ELSE UNCHANGED <<loggedFaultCount, lastLoggedFaultDetail>>
        /\ MainCloses
        /\ UNCHANGED <<pending, lasts>>
  /\ UNCHANGED <<closer, first, last, chip, caller>>

\* The chip changes a bounded number of times between two polls: a fault
\* is logged (at a later time on its clock, while the log has room), the
\* log is cleared from outside the daemon (CLEAR_LOGGED_FAULTS), a rail
\* reports another VOUT_MODE or READ_VOUT, or readStopped() flips.
ChipChange ==
  /\ envBudget > 0 /\ main # "update"
  /\ envBudget' = envBudget - 1
  /\ \/ /\ Len(flog) < LogCap
        /\ \E ms \in clock + 1..MaxClock, ty \in FaultTypes :
             flog' = Append(flog, [ms |-> ms, type |-> ty]) /\ clock' = ms
        /\ UNCHANGED <<mode, mant, stopped>>
     \/ flog # <<>> /\ flog' = <<>> /\ UNCHANGED <<clock, mode, mant, stopped>>
     \/ \E r \in Rails, md \in VoutModes, m \in Mants :
          /\ <<mode[r], mant[r]>> # <<md, m>>
          /\ mode' = [mode EXCEPT ![r] = md] /\ mant' = [mant EXCEPT ![r] = m]
          /\ UNCHANGED <<flog, clock, stopped>>
     \/ stopped' = ~stopped /\ UNCHANGED <<flog, clock, mode, mant>>
  /\ UNCHANGED <<main, stop, closer, first, pending, last, lasts,
                 loggedFaultCount, lastLoggedFaultDetail, caller>>

(***************************************************************************)
(* LoggedFaultDetail, called by a client of the package between any two    *)
(* steps of the daemon: the same scan as PowerCycles, with the same test   *)
(* and update of loggedFaultCount and lastLoggedFaultDetail at entry 0;    *)
(* when the log is new it returns every entry (its timestamp, rail and     *)
(* fault text, here the entry itself), else "". An RPC error returns an    *)
(* error, after the globals were recorded when it hit a later entry.      *)
(***************************************************************************)
LoggedFaultDetail ==
  /\ detailCalls > 0
  /\ detailCalls' = detailCalls - 1
  /\ \/ /\ IF flog # <<>> /\ PcNew(flog)
           THEN PcRecord(flog) /\ detailLog' = flog
           ELSE UNCHANGED <<loggedFaultCount, lastLoggedFaultDetail, detailLog>>
        /\ UNCHANGED detailErr
     \/ /\ RpcMayFail
        /\ \E j \in FailPoints(flog) :
             IF j >= 2 THEN PcRecord(flog)
             ELSE UNCHANGED <<loggedFaultCount, lastLoggedFaultDetail>>
        /\ detailErr' = TRUE
        /\ UNCHANGED detailLog
  /\ UNCHANGED <<main, stop, closer, first, pending, last, lasts, chip>>

\* Main has returned or panicked.
Exited ==
  /\ main \in {"returned", "panicked"}
  /\ UNCHANGED vars

Next ==
  \/ MainStart \/ Tick \/ SeeStop \/ Close \/ PowerCycles
  \/ \E k \in Rails : Vout(k)
  \/ ChipChange \/ LoggedFaultDetail \/ Exited

\* The ticker fires every 10 s and the daemon's goroutine is runnable.
Fairness ==
  /\ WF_vars(MainStart) /\ WF_vars(Tick) /\ WF_vars(SeeStop)
  /\ WF_vars(PowerCycles) /\ \A k \in Rails : WF_vars(Vout(k))

Spec == Init /\ [][Next]_vars /\ Fairness

-----------------------------------------------------------------------------
TypeOK ==
  /\ main \in {"idle", "loop", "update", "returned", "panicked"}
  /\ stop \in {"nil", "open", "closed"} /\ closer \in BOOLEAN /\ first \in {0, 1}
  /\ pending \subseteq Keys
  /\ last \in [Rails -> Voltage]
  /\ lasts \in Seq(0..MaxClock)
  /\ loggedFaultCount \in 0..LogCap /\ lastLoggedFaultDetail \in Entry
  /\ flog \in Seq(Entry) /\ Len(flog) <= LogCap
  /\ mode \in [Rails -> VoutModes] /\ mant \in [Rails -> Mants]
  /\ detailCalls \in 0..MaxDetailCalls /\ detailLog \in Seq(Entry)
  /\ detailErr \in BOOLEAN

\* The exponent Vout applies to a rail's READ_VOUT is the one the PMBus
\* linear format gives the low five bits of the VOUT_MODE the rail reports.
VoutExponentLinear == \A r \in Rails : VoutExponent(mode[r]) = LinearExponent(mode[r])

\* Once the chip stops changing and the daemon keeps polling, the
\* "poweroff.events" value update publishes is the set of power-off
\* timestamps in the chip's log, whenever the log holds one: PowerCycles'
\* count-and-first-entry test never hides a log that has changed.
PowerOffsPublished ==
  (<>[]~stopped /\ [](main \notin {"returned", "panicked"}))
    => <>[](PowerOffStamps(flog) # <<>> => lasts = PowerOffStamps(flog))

\* PowerCycles and LoggedFaultDetail share loggedFaultCount and
\* lastLoggedFaultDetail, so a log that one of them finds new the other
\* finds old. Once the chip settles, the daemon keeps polling and no call
\* of LoggedFaultDetail fails, the current log is nonetheless reported by
\* one of them: update has published its power-off timestamps, or it is
\* the log LoggedFaultDetail last returned.
ReportedBySome ==
  (<>[]~stopped /\ [](main \notin {"returned", "panicked"}) /\ []~detailErr)
    => <>[](PowerOffStamps(flog) # <<>> =>
              lasts = PowerOffStamps(flog) \/ detailLog = flog)

\* No path through Main and Close panics on closing cmd.stop twice.
NoClosePanic == main # "panicked"
=============================================================================
