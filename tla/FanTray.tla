------------------------------- MODULE FanTray -------------------------------
(***************************************************************************)
(* The fantray daemon of internal/goes/cmd/fantray/fangpio.go. Main polls  *)
(* every 5 s after a holdoff of three ticks; each poll (update) calls      *)
(* FanTrayStatus for every tray of VpageByKey, in Go's random map order.   *)
(* FanTrayStatus initialises the LED expander on first use, then reads the *)
(* output register the tray shares with its neighbour, clears the tray's   *)
(* LED bits, reads the input register (presence, air direction), picks a   *)
(* colour from the fan speeds in redis and writes the register back. An    *)
(* I2C failure ends update with an error, and Main closes cmd.stop and     *)
(* returns. Close, called by the daemon's owner, also closes cmd.stop.     *)
(*                                                                         *)
(* The hardware (tray presence, direction, speed readings, the stopped     *)
(* flag) is an environment that changes a bounded number of times.        *)
(***************************************************************************)
EXTENDS Integers, FiniteSets, FiniteSetsExt, Bitwise

CONSTANTS
  Trays,          \* the tray numbers VpageByKey maps to (1..4)
  Versions,       \* the values /tmp/ver may hold
  OutInit,        \* output register values before the LED init
  RpcMayFail,     \* DoI2cRpc can fail
  CloseMayHappen, \* the owner may call Close
  MaxEnvChanges   \* bound on hardware changes

ASSUME Trays \subseteq 1..4

Speeds == {"none", "low", "ok"}  \* both rpm keys missing; not both > minRpm; both > minRpm
Colours == {"off", "green", "yellow"}
Statuses == {"", "not installed", "ok.front->back", "ok.back->front",
             "warning check fan tray"}
Byte == 0..255

\* The bit tables, indexed by tray (i+1 after i--).
fanTrayLedOff == <<0, 0, 0, 0>>
fanTrayLedBits == <<48, 3, 48, 3>>          \* 0x30, 0x03, 0x30, 0x03
fanTrayDirBits == <<128, 8, 128, 8>>
fanTrayAbsBits == <<64, 4, 64, 4>>
fanTrayLeds == 51                           \* 0x33

\* fanTrayLedGreen and fanTrayLedYellow as set from deviceVer: versions 0x00
\* and 0xff swap the two colours.
fanTrayLedGreen(ver) ==
  IF ver \in {0, 255} THEN <<16, 1, 16, 1>> ELSE <<32, 2, 32, 2>>
fanTrayLedYellow(ver) ==
  IF ver \in {0, 255} THEN <<32, 2, 32, 2>> ELSE <<16, 1, 16, 1>>

LedValue(c, t, ver) ==
  CASE c = "green" -> fanTrayLedGreen(ver)[t]
    [] c = "yellow" -> fanTrayLedYellow(ver)[t]
    [] c = "off" -> fanTrayLedOff[t]

\* n = 1 for trays 1 and 2 (i < 2 after i--), 0 for trays 3 and 4.
Reg(t) == IF t - 1 < 2 THEN 1 ELSE 0

VARIABLES
  main,       \* idle, loop, update, returned, panicked
  stop,       \* cmd.stop: nil, open, closed
  closer,     \* Close has been called
  holdoff, first, deviceVer,
  out, cfg,   \* the expander's output and configuration registers
  pending,    \* trays update has still to visit
  lasts,      \* cmd.lasts

  ledOf,      \* the colour last written to each tray's LED field (history)
  absent, front, speed, stopped, envBudget

hw == <<absent, front, speed, stopped, envBudget>>
vars == <<main, stop, closer, holdoff, first, deviceVer, out, cfg, pending,
          lasts, ledOf, hw>>

\* The input register of bank n as the trays drive it (the trays' bits are
\* disjoint, so their sum is their bitwise or).
Input(n) ==
  LET bits(t) == (IF absent[t] THEN fanTrayAbsBits[t] ELSE 0)
                 + (IF front[t] THEN fanTrayDirBits[t] ELSE 0)
  IN MapThenSumSet(bits, {t \in Trays : Reg(t) = n})

\* The status string and LED colour FanTrayStatus derives for tray t.
StatusOf(t) ==
  LET in == Input(Reg(t)) IN
  IF (in & fanTrayAbsBits[t]) # 0 THEN [w |-> "not installed", c |-> "off"]
  ELSE CASE speed[t] = "none" -> [w |-> "", c |-> "yellow"]
         [] speed[t] = "ok" ->
              [w |-> IF (in & fanTrayDirBits[t]) # 0 THEN "ok.front->back"
                                                     ELSE "ok.back->front",
               c |-> "green"]
         [] speed[t] = "low" -> [w |-> "warning check fan tray", c |-> "yellow"]
-----------------------------------------------------------------------------
Init ==
  /\ main = "idle"
  /\ stop = "nil"
  /\ closer = FALSE
  /\ holdoff = 0
  /\ first = 0
  /\ deviceVer = 0
  /\ out \in [{0, 1} -> OutInit]
  /\ cfg = [n \in {0, 1} |-> 255]
  /\ pending = {}
  /\ lasts = [t \in Trays |-> ""]
  /\ ledOf = [t \in Trays |-> "unset"]
  /\ absent \in [Trays -> BOOLEAN]
  /\ front \in [Trays -> BOOLEAN]
  /\ speed \in [Trays -> Speeds]
  /\ stopped \in BOOLEAN
  /\ envBudget = MaxEnvChanges

\* Main up to the loop: first = 1, make(cmd.stop), then publisher.New and
\* Sysinfo, either of which may fail and return.
MainStart ==
  /\ main = "idle"
  /\ first' = 1
  /\ stop' = "open"
  /\ \/ main' = "returned" /\ UNCHANGED holdoff
     \/ main' = "loop" /\ holdoff' = 3
  /\ UNCHANGED <<closer, deviceVer, out, cfg, pending, lasts, ledOf, hw>>

TickNoFloor ==
  /\ main = "loop"
  /\ holdoff' = holdoff - 1
  /\ IF holdoff' = 0 /\ ~stopped
     THEN main' = "update" /\ pending' = Trays
     ELSE UNCHANGED <<main, pending>>
  /\ UNCHANGED <<stop, closer, first, deviceVer, out, cfg, lasts, ledOf, hw>>

TickUpdateOnce ==
  /\ main = "loop"
  /\ holdoff' = IF holdoff > 0 THEN holdoff - 1 ELSE holdoff
  /\ IF holdoff > 0 /\ holdoff' = 0 /\ ~stopped
     THEN main' = "update" /\ pending' = Trays
     ELSE UNCHANGED <<main, pending>>
  /\ UNCHANGED <<stop, closer, first, deviceVer, out, cfg, lasts, ledOf, hw>>

\* A tick of t.C: count the holdoff down; once it is 0, update, which
\* returns at once when readStopped() is 1.
Tick ==
  /\ main = "loop"
  /\ holdoff' = IF holdoff > 0 THEN holdoff - 1 ELSE holdoff
  /\ IF holdoff' = 0 /\ ~stopped
     THEN main' = "update" /\ pending' = Trays
     ELSE UNCHANGED <<main, pending>>
  /\ UNCHANGED <<stop, closer, first, deviceVer, out, cfg, lasts, ledOf, hw>>

\* The select takes <-cmd.stop: Main returns nil.
SeeStop ==
  /\ main = "loop"
  /\ stop = "closed"
  /\ main' = "returned"
  /\ UNCHANGED <<stop, closer, holdoff, first, deviceVer, out, cfg, pending,
                 lasts, ledOf, hw>>

\* close(cmd.stop) after an update error, then return err; closing a
\* closed channel panics.
MainCloses ==
  IF stop = "closed" THEN main' = "panicked" /\ UNCHANGED stop
                     ELSE main' = "returned" /\ stop' = "closed"

\* cmd.Close from the daemon's owner: close(cmd.stop), which panics on a
\* closed channel, and on a nil one when Main has not made it yet.
Close ==
  /\ CloseMayHappen /\ ~closer
  /\ main # "panicked"
  /\ closer' = TRUE
  /\ IF stop = "open" THEN stop' = "closed" /\ UNCHANGED main
                      ELSE main' = "panicked" /\ UNCHANGED stop
  /\ UNCHANGED <<holdoff, first, deviceVer, out, cfg, pending, lasts, ledOf, hw>>

\* readVer: the first byte of /tmp/ver, or 0 when it cannot be read.
ReadVerResults == Versions \cup {0}

\* FanTrayStatus with first == 1: readVer (0 when /tmp/ver cannot be read)
\* and FanTrayLedInit's one RPC: both outputs off, LED pins as outputs.
LedInit ==
  /\ main = "update"
  /\ pending # {}
  /\ first = 1
  /\ \E ver \in ReadVerResults : deviceVer' = ver
  /\ LET applied == /\ out' = [n \in {0, 1} |-> 0]
                    /\ cfg' = [n \in {0, 1} |-> 255 ^^ fanTrayLeds]
                    /\ ledOf' = [t \in Trays |-> "off"]
     IN \/ applied /\ first' = 0 /\ UNCHANGED <<main, stop>>
        \/ /\ RpcMayFail
           /\ applied \/ UNCHANGED <<out, cfg, ledOf>>
           /\ MainCloses
           /\ UNCHANGED first
  /\ UNCHANGED <<closer, holdoff, pending, lasts, hw>>

ClearMaskBank(t) == 255 ^^ fanTrayLeds

\* d := 0xff ^ fanTrayLedBits[i]: keep everything but tray t's LED bits.
ClearMask(t) == 255 ^^ fanTrayLedBits[t]

\* update's loop body for tray t once FanTrayStatus returned v: publish
\* "k: v" and remember it only when it differs from cmd.lasts[k].
UpdatePublish(t, v) ==
  lasts' = IF v # lasts[t] THEN [lasts EXCEPT ![t] = v] ELSE lasts

(***************************************************************************)
(* FanTrayStatus(t) after the init, and update's publication of its        *)
(* result: read Output[n], clear the tray's LED bits, read Input[n], or    *)
(* in the colour and write Output[n] back. Each of the three RPCs may      *)
(* fail; a failed write may still have reached the expander.               *)
(***************************************************************************)
TrayStatus(t) ==
  /\ main = "update"
  /\ t \in pending
  /\ first = 0
  /\ LET n == Reg(t)
         st == StatusOf(t)
         o == (out[n] & ClearMask(t)) | LedValue(st.c, t, deviceVer)
         written == out' = [out EXCEPT ![n] = o] /\ ledOf' = [ledOf EXCEPT ![t] = st.c]
     IN \/ /\ written
           /\ pending' = pending \ {t}
           /\ main' = IF pending' = {} THEN "loop" ELSE "update"
           /\ UpdatePublish(t, st.w)
           /\ UNCHANGED stop
        \/ /\ RpcMayFail
           /\ written \/ UNCHANGED <<out, ledOf>>
           /\ MainCloses
           /\ UNCHANGED <<pending, lasts>>
  /\ UNCHANGED <<closer, holdoff, first, deviceVer, cfg, hw>>

\* The hardware changes: a tray is pulled, inserted or turned, its fans
\* speed up or slow down, or the stopped flag flips.
HwChange ==
  /\ envBudget > 0
  /\ envBudget' = envBudget - 1
  /\ \/ /\ \E t \in Trays, a, f \in BOOLEAN, sp \in Speeds :
             /\ absent' = [absent EXCEPT ![t] = a]
             /\ front' = [front EXCEPT ![t] = f]
             /\ speed' = [speed EXCEPT ![t] = sp]
          /\ UNCHANGED stopped
     \/ stopped' = ~stopped /\ UNCHANGED <<absent, front, speed>>
  /\ UNCHANGED <<main, stop, closer, holdoff, first, deviceVer, out, cfg,
                 pending, lasts, ledOf>>

\* The daemon is over: nothing but the hardware changes.
Exited ==
  /\ main \in {"returned", "panicked"}
  /\ UNCHANGED vars

Next ==
  \/ MainStart \/ Tick \/ SeeStop \/ Close \/ LedInit
  \/ \E t \in Trays : TrayStatus(t)
  \/ HwChange \/ Exited

\* The ticker fires every 5 s and the daemon's goroutine is runnable.
Fairness ==
  /\ WF_vars(MainStart) /\ WF_vars(Tick) /\ WF_vars(SeeStop) /\ WF_vars(LedInit)
  /\ \A t \in Trays : WF_vars(TrayStatus(t))

Spec == Init /\ [][Next]_vars /\ Fairness

-----------------------------------------------------------------------------
TypeOK ==
  /\ main \in {"idle", "loop", "update", "returned", "panicked"}
  /\ stop \in {"nil", "open", "closed"}
  /\ holdoff \in 0..3 /\ first \in {0, 1}
  /\ out \in [{0, 1} -> Byte] /\ cfg \in [{0, 1} -> Byte]
  /\ pending \subseteq Trays
  /\ lasts \in [Trays -> Statuses]
  /\ ledOf \in [Trays -> Colours \cup {"unset"}]

\* Two trays share one output register and each FanTrayStatus rewrites it:
\* whatever the order of trays, polls and failures, every tray's LED field
\* holds the colour last written for that tray.
LedFieldsKept ==
  \A t \in Trays :
    ledOf[t] # "unset" =>
      (out[Reg(t)] & fanTrayLedBits[t]) = LedValue(ledOf[t], t, deviceVer)

\* Closing cmd.stop twice (Main after an update error, and Close) panics.
NoClosePanic == main # "panicked"

\* While the daemon runs, once the hardware settles and is not stopped,
\* every tray's current status is eventually the one published.
StatusPublished ==
  (<>[](~stopped) /\ [](main \notin {"returned", "panicked"}))
    => <>[](\A t \in Trays : lasts[t] = StatusOf(t).w)
=============================================================================
