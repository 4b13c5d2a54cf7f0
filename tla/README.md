# TLA+ models of Platina_go

This directory holds TLA+ modules that model the parts of the repository
that a model checker can say something about, the TLC configurations that
check them, and `PROJECT.json`, which lists every component, every run, the
source lines each definition stands for, the findings and the hazards.

## 1. Inventory

The repository (under `src/`) holds nine Go files of the Platina `goes`
tree. `spec.md` describes its core, the netlink codec and socket
multiplexer; the rest are device daemons and commands.

| Component | Source | State | Operations | Interacts with |
|---|---|---|---|---|
| Socket multiplexer | `Socket.Listen`, `ListenAllNsid` (not under `src/`; spec 4.5, 5) | one kernel socket per namespace, one reader goroutine each, the shared channel `rx` | receive a datagram, split it, decode each message, tag it with the nsid, send it on `rx` (blocking when full); send (`TxAddReq`) | decodes through the message variants; feeds the consumer through `rx` |
| Object pool and lifecycle | `msg.go` `New<Kind>Message`, `New<Kind>MessageBytes`, `Close`; `pool`, `repool`, `closeAttrs` (not under `src/`) | one `sync.Pool` per message kind; a finalizer per live object | acquire (pool Get, set finalizer), tag and parse, Close (clear finalizer, close attributes, repool), finalizer | every reader acquires; every consumer and every `TxAdd` releases |
| Message variants and attribute codec | `msg.go` `Parse` and `TxAdd` of Gen, Noop, Done, Error, IfInfo, IfAddr, Route, Neighbor, Netns | header, fixed body, `Attrs[<KIND>_MAX]` slots | decode: overlay header and body, walk the TLV attributes, dispatch each kind to a value constructor, panic on a kind beyond the maximum; encode: size the attributes, write header, body and attributes, Close | called by the reader loop and by producers |
| Dump filter façade | `dump.go` `Dump` | flags `mayDump*`, `allnsid`; `rx` (capacity 64) | parse arguments; make `rx`; `New`, `ListenAllNsid`, `go Listen`; for each message: filter, `WriteTo`, `Close` | consumer of the multiplexer |
| VXLAN option parser | `vxlan.go` `parseTypeVxlan` | `c.tinfo`, the attribute list being built | one pass over the options, appending `IFLA_VXLAN_*` attributes | producer of link request attributes |
| Fan tray daemon | `fangpio.go` | `cmd.stop`, `cmd.lasts`, globals `first`, `deviceVer`, LED colour tables; the I2C output/input registers (two trays per register) | `Main` (5 s ticker, holdoff of 3 ticks), `Close`, `update`, `FanTrayStatus`, `FanTrayLedInit/Reinit` | I2C RPCs (`DoI2cRpc`), redis (`Hget`, publisher) |
| UCD9090 daemon | `ucd9090.go` | `cmd.stop`, `cmd.last`, `cmd.lasts`, globals `first`, `loggedFaultCount`, `lastLoggedFaultDetail` | `Main` (10 s ticker), `Close`, `update`, `Vout`, `PowerCycles`, `LoggedFaultDetail` | I2C RPCs, redis publisher |
| GPIO command | `gpio.go` | none | print all pins, set directions, read a pin, set a pin | `internal/gpio` |
| Command registry | `goes.go` | the static command list | `Goes()` | — |
| Generated hook vector, event-log stub | `gentemplate_dep_adjsynchook.go`, `cli_nogtk.go` | an append-only vector; none | `Add`, `Get`, `Len`; log one line | — |

**What is hard.** The multiplexer is concurrent: one reader per namespace
socket and one consumer share a bounded channel, so backpressure, the
interleaving of namespaces and the consumer's error return interact. Message
objects are pooled and reused: a double `Close` or a missed one is invisible
to a unit test but makes two messages share storage or leaves a goroutine
holding one for ever. The codec must turn every attribute list the kernel
can send into the right slots, and back. The daemons poll hardware: an I2C
failure between two steps of a read-modify-write or of a fault-log scan,
and a `Close` racing the loop's own `close(cmd.stop)`, are the hard cases.

**What makes each part correct.**
- Multiplexer and Dump: every message a reader receives reaches the
  consumer, in kernel order per namespace, tagged with its namespace; the
  consumer writes exactly the kinds the command line selects; a pooled object
  is never held by two owners and every message is released by an explicit
  Close on every exit path.
- Codec: decoding an encoded message gives back the message (type, body and
  attributes); an attribute kind beyond the maximum is fatal, an unknown kind
  below it is kept as bytes.
- VXLAN parser: each option sets its own attribute, and only when given.
- Fan tray: each tray's LED field of the shared register shows that tray's
  status and the other tray's field is untouched; the daemon stops cleanly.
- UCD9090: every new power-off event in the fault log is eventually
  published, once.

## 2. Plan

Modules in the order they are built, most important behaviour first:

1. `NetlinkDump` (done): multiplexer readers, `rx`, `Dump`, pool lifecycle.
2. `NetlinkCodec` (done): per-kind `Parse` dispatch over bounded TLV attribute
   lists and `TxAdd` with its deferred `Close`; the round trip checked over
   every attribute list up to a bound.
   Still open: an abstract "message as a set of attributes" spec that the
   encode/decode pair refines.
3. `NetlinkSend`: composes `NetlinkCodec`'s `TxAdd` with the pool of
   `NetlinkDump`: producers acquire, populate and send; ownership passes to
   `TxAdd`, which Closes (except `GenMessage`).
4. `FanTray` (done): the daemon loop with `Close` as a second actor, and the LED
   read-modify-write per tray over the shared registers, with I2C failures.
5. `Ucd9090` (done): daemon loop, `PowerCycles` de-duplication across polls with a
   changing fault log and I2C failures; `Vout` exponent as an operator;
   `LoggedFaultDetail` as a second reader of the same de-duplication globals.
6. `VxlanOptions` (done): option-to-attribute translation checked against the
   one-flag-one-attribute contract.

No module is checked against an abstract specification. The candidates tried
said nothing the invariants do not: one LED per tray for the fan tray's
registers is `LedFieldsKept` again, and one FIFO per namespace for the
multiplexer holds by the shape of the model (a reader's one-message hand and
a FIFO `rx`).

## 3. Modules and runs

### NetlinkDump (`NetlinkDump.tla`, `MC_NetlinkDump.tla`)

State. `args` is the command line; `dump` the point Dump has reached
(`start`, `listening`, `returned`); `readers` the namespaces whose reader
loop runs; `recvd[r]` the kinds reader `r` got from the kernel; `hand[r]` the
message it has decoded and not yet sent; `rx` the channel; `objKind` and
`pooled` the allocated message objects and how many times each sits in its
kind's `sync.Pool` (a multiset, because `sync.Pool` does not notice a double
Put); `garbage` objects unreachable and awaiting their finalizer;
`finalized`, `consumed`, `printed` are histories for the properties.

Actions. `DumpStart` is `dump.go:19-80`: the argument scan (`ScanArgs`, a
recursive operator over the token list: help returns, an unknown token is an
error), the default selection, `New` and `ListenAllNsid` failing or not,
and the start of one reader per socket. `Receive(r)` is a reader taking one
message from the kernel and decoding it into an object from its kind's pool
(`Acquire`: a pooled object or a fresh one), tagged by `TagOf` (the nsid,
except for `NetnsMessage`, which has no Nsid field). `Publish(r)` is the
blocking send on `rx`. `Consume` is one iteration of `dump.go:81-104`, with
its three outcomes `DropUnselected`, `PrintAndClose` and `WriteFails` (which
returns, leaving the message to the finalizer). `Finalize` is the runtime
running `Close` on an unreachable object.

Bounds. The default socket (nsid -1) and one joined namespace (0); each
reader receives at most 2 messages of kinds link, route, netns, done;
`rx` holds 1 message (64 in the code: one slot is enough for readers to
block on a full channel and for the two readers' messages to interleave);
five command lines: none, `-all-nsid`, `--all-nsid route netns`, `link -h`,
`all-nsid neighor` (an unknown token).

Fairness. Weak fairness on `DumpStart`, each `Publish(r)`, `Consume` and
`Finalize`: the Go scheduler eventually runs every runnable goroutine and a
pending finalizer. `Receive` is not fair: the kernel need not send anything.
Deadlock is not checked: once the bounded kernel stream is drained every
goroutine waits for the next kernel message, which is how `dump` runs.

| Run | Cfg | Expect | What it shows |
|---|---|---|---|
| `dump_stream` | `MC_NetlinkDump.cfg` | pass | writes may fail: `ExclusiveOwnership` (no pooled object held twice, the finalizer path included), `ExplicitRelease` (only the message of a failed write is left to the finalizer), `AllDelivered` (liveness, while no write fails) |
| `dump_netns_tag` | `MC_NetlinkDump_NetnsTag.cfg` | violation | `NsidTaggedAll`: a netns reply from namespace 0 reaches Dump untagged (finding) |
| `dump_readers_stuck` | `MC_NetlinkDump_Stuck.cfg` | violation | `ReadersNeverStuck`: after a write error a reader blocks for ever on the full `rx` holding a message (finding) |

### NetlinkCodec (`NetlinkCodec.tla`, `MC_NetlinkCodec.tla`)

One message's life through the codec of `msg.go`. State: `mtype` and `fam`
(variant and address family); `origin` (built by a producer, or sent by the
kernel as is); `built` (the producer's `Attrs` before `TxAdd`, kept as a
history: `TxAdd`'s `Close` clears the object); `hdr` and `wire` (header type
and TLV list on the wire, a TLV being its kind and payload length); `dtype`
(the variant the reader decodes it as, chosen from `hdr`); `slots` (the
decoded `Attrs`); `cur` (next TLV); `phase`; `released`.

Attribute values are abstracted to the constructor class the code's switch
picks and their length in bytes; kinds are the Linux numbers the code's
constants stand for. `LinkClass`, `AddrClass`, `RouteClass`, `NeighClass`,
`NetnsClass` are the five `Parse` switches, case for case; `DecodeAttr`
applies one arm, including the `t < <KIND>_MAX` default, the panic beyond
it, the out-of-range index that `v[:len(v)-1]` and `v[0]` hit on an empty
value (`oob`), and `afAddr`'s width check (`badaddr`, modelled from spec
4.2 because `afAddr` is not under `src/`). `TxAdd` is every variant's `TxAdd`:
`TxAddType` (Noop and Done both write `NLMSG_NOOP`), `Encode` (populated
slots in ascending kind order, strings with their NUL) and `TxAddCloses`
(every variant but Gen defers `Close`). `ParseStart` is the header overlay
and the Netns pre-seed of NSID, PID and FD; `ParseAttr` one loop iteration;
`ParseEnd` the loop's exit.

Bounds. Up to two attributes per message; producers populate a string, an
integer and an address kind per variant (each value at a legal width, the
empty string included); kernel TLVs carry, per variant, an ignored kind
(`IFLA_MAP`, `NETNSA_NONE`), an in-range kind with no case, a kind beyond
the maximum, with payloads of 0 or 4 bytes; all three families. The
`<KIND>_MAX` values are the smallest the code's case lists allow (the
constants are not under `src/`); no property depends on them beyond
`KindSpace`. No fairness: no liveness is claimed.

| Run | Cfg | Expect | What it shows |
|---|---|---|---|
| `codec_roundtrip` | `MC_NetlinkCodec.cfg` | pass | `RoundTrip`: TxAdd then Parse gives back variant and slots (Netns sentinels where unset) for every variant but Done |
| `codec_roundtrip_bugs` | `MC_NetlinkCodec_Bugs.cfg` | violation | `RoundTrip`: a Done sent by TxAdd is read back as a Noop, and IFLA_MAP is dropped on decode (two findings); TLC reports the shorter Done trace, and with `MsgTypes = {"link"}` in the cfg it reports the IFLA_MAP one |

### FanTray (`FanTray.tla`, `MC_FanTray.tla`)

`fangpio.go`. State: `main` (where `Main` is: idle, in its loop, inside
`update`, returned, panicked), `stop` (`cmd.stop`: not made, open, closed),
`closer` (the owner has called `Close`), `holdoff`, `first`, `deviceVer`,
the two output registers `out` and their configuration `cfg`, `pending`
(trays `update` has still to visit), `lasts` (the status string last
published per tray) and `ledOf` (the colour last written per tray, a history
variable for the property). The hardware (`absent`, `front`, `speed`,
`stopped`) changes at most `MaxEnvChanges` times.

Actions: `MainStart` (`Main` up to its loop, or its early return),
`Tick` (5 s ticker, holdoff of 3, `readStopped`), `SeeStop` (the select takes
`<-cmd.stop`), `Close` (the owner; panics on a closed channel, and on a nil one before `Main` has made it), `LedInit`
(`FanTrayLedInit` on the first poll: `readVer`, one RPC), `TrayStatus(t)`
(`FanTrayStatus`: read the input register, compute the status, one RPC that
rewrites the whole output register with the tray's LED bits replaced; two
trays share a register), whose success ends with `UpdatePublish` (update's
loop body: publish and remember the status only when it differs from
`cmd.lasts`). An RPC error goes to `MainCloses` (`close(cmd.stop)`,
return). With `RpcMayFail` a failed write may or may not have reached the
chip.

Fairness: weak fairness on the daemon's own steps (the ticker fires every
5 s and the goroutine is runnable); none on `Close` or the hardware.

| Run | Cfg | Expect | What it shows |
|---|---|---|---|
| `fantray_leds` | `MC_FanTray.cfg` | pass | trays 1 and 2 share a register, two board versions, failing RPCs and `Close`: `LedFieldsKept`, each tray's LED bits in the register hold the colour last written for it, whatever the other tray's read-modify-write did |
| `fantray_live` | `MC_FanTray_Live.cfg` | pass | trays 2 and 3, reliable I2C: `StatusPublished`, once the hardware settles and the daemon keeps running every tray's status string is eventually published |
| `fantray_close_panic` | `MC_FanTray_ClosePanic.cfg` | violation | `NoClosePanic`: `Close` before `Main` has made `cmd.stop` closes a nil channel (the trace TLC reports), and `Close` during a poll whose RPC then fails closes it twice (finding) |

### Ucd9090 (`Ucd9090.tla`, `MC_Ucd9090.tla`)

`ucd9090.go`. State: `main`, `stop`, `closer`, `first` as in FanTray;
`pending` (keys of `VpageByKey` still to visit, in Go's random map order),
`last` (voltage last published per rail, as mantissa and exponent), `lasts`
(the power-off timestamps last published), the package globals
`loggedFaultCount` and `lastLoggedFaultDetail`. The chip: its fault log
`flog` (entries of a time on its clock and a fault type), `clock`, each rail's
`mode` (VOUT_MODE) and `mant` (READ_VOUT), `stopped`; it changes at most
`MaxEnvChanges` times, between polls. A client of the package: the calls of
`LoggedFaultDetail` still to come (`detailCalls`), and as history the log it
last returned as new (`detailLog`) and whether a call has failed
(`detailErr`).

Actions: `MainStart`, `Tick` (10 s ticker, no holdoff, skipped when the
constant `VdevAddr` (`Vdev.Addr`, set outside `src/`) is 0, `readStopped`,
`ucdInit` on the first poll), `SeeStop`, `Close`, `Vout(k)` (one RPC; the
exponent `VoutExponent` translates `n--; n = (n ^ 0xf) & 0xf` on a uint8),
`PowerCycles` (count, then two RPCs per entry; at entry 0 the de-duplication
`PcNew` and its record `PcRecord`; the timestamps of fault types 0 and 1 that
the string does not contain yet, `PowerOffStamps`; an RPC failing at entry
j >= 1 leaves the globals recorded; `FailPoints` are the RPCs that can fail,
a log that is not new ending the scan at entry 0), `ChipChange`, and
`LoggedFaultDetail` (the same scan, test and record on the same globals,
called between any two steps of the daemon; the rail and fault texts it
decodes are abstracted to the entry). Fairness as in FanTray; none on the
client, whose calls may or may not come.

| Run | Cfg | Expect | What it shows |
|---|---|---|---|
| `ucd_poll` | `MC_Ucd9090.cfg` | pass | one rail, failing RPCs, `Close`, a log of two entries filled, cleared and refilled: one call of `LoggedFaultDetail`: `VoutExponentLinear` (the exponent matches the PMBus linear format for VOUT_MODE exponents -12 and 0) and `ReportedBySome` (once the chip settles, the daemon keeps polling and no call of `LoggedFaultDetail` fails, the current log's power-off events are what update published, or the log is what `LoggedFaultDetail` last returned) |
| `ucd_detail_steal` | `MC_Ucd9090_Detail.cfg` | violation | `PowerOffsPublished` (the published power-off events are eventually those of the log): a fault is logged, `LoggedFaultDetail` is called before the next poll, and `PowerCycles` takes the log as old for ever (finding) |

Bounds: three chip changes are what it takes to fill the log, clear it and
refill it to the same count, the case where only the first-entry comparison
tells the new log from the old; a count-only test (mutant `PcNewCountOnly`)
is caught there. Two clock units per second let two faults share a
timestamp. One READ_VOUT mantissa is enough for `Vout`'s publication test,
since the two VOUT_MODEs give the rail two voltages; with two mantissas and
four changes the liveness check takes more than 5 minutes.

### VxlanOptions (`VxlanOptions.tla`, `MC_VxlanOptions.tla`)

`parseTypeVxlan` in `vxlan.go`, a sequential function. Each block of it is
an operator from the options to an error or the attributes it appends:
`IdBlock`, `AddrCheck`, `GroupBlock`, `LocalBlock`, `DevBlock`, `Param`
(ttl, tos, flowlabel, ageing, maxaddress, dstport through `ParamBlocks`),
`SrcportBlock`, `FlagBlock` (the code's table, `FlagTable`), `ExternalBlock`,
`GbpBlock`; `ParseTypeVxlan` folds them in the code's order and stops at the
first error. The option library is not under `src/`: an option is what
`Parms.ByName` or `Flags.ByName` yields, a value the class `Sscan` or
`ParseIP` puts it in (good, bad, out of range). An attribute is its type and
the option its value comes from. The state is the options (chosen in `Init`)
and the result of the one `Parse` step; deadlock is not checked, the command
runs once.

The reference is the usage comment above the function: each option sends
the attribute named after it (`ContractAttrs`), and a value that does not
parse is an error (`ContractError`). Attribute lists are compared as the
kernel reads them, the last occurrence of a type winning (`Effective`).

| Run | Cfg | Expect | What it shows |
|---|---|---|---|
| `vxlan_errors` | `MC_VxlanOptions.cfg` | pass | `ErrorsFaithful`: over every combination of good, malformed and out-of-range values (ttl/tos `inherit` included), a command is rejected exactly when one of its values is bad |
| `vxlan_attrs` | `MC_VxlanOptions_Attrs.cfg` | violation | `VxlanFaithful`: well-formed commands do not send the attributes their options name (findings) |

Each finding of `vxlan_attrs` was also confirmed alone, with every other
option absent or given a value the code maps right; with only the correctly
mapped flags (learning, proxy, l2miss, udpcsum, remcsumtx) set the property
holds.

## 4. Findings

- `msg.go:786`: `NetnsMessage` has no `Nsid`; in all-namespace mode a netns
  reply loses its namespace (spec 3 and 8 scenario D say every message keeps
  it).
- `dump.go:100`: on a write error `Dump` returns without closing the socket,
  draining `rx` or closing `msg`; reader goroutines block for ever on the full
  channel holding messages that are never released.

- `msg.go:224`: `DoneMessage.TxAdd` writes `NLMSG_NOOP`; a Done sent and read
  back is a Noop, against the round trip of spec 8.
- `msg.go:384`: `IFLA_MAP` is dropped on decode (spec 4.2: never dropped).
- `msg.go:113`: `GenMessage.TxAdd` does not `Close` the message it sends,
  unlike every other `TxAdd` (spec 4.4: explicit release is the discipline).
  Modelled (`TxAddCloses`) and listed as a hazard; the finalizer reclaims
  the object, so no run is spent on it.

- `fangpio.go:90` (and the same code at `ucd9090.go:91`): `Main` closes
  `cmd.stop` after an update error and `Close` closes it unconditionally;
  a `Close` during a failing poll, or after `Main` returned its error,
  panics with "close of closed channel", and a `Close` before `Main` has
  made the channel panics with "close of nil channel".

- `ucd9090.go:336`: `LoggedFaultDetail` tests and updates the globals
  `PowerCycles` de-duplicates on. A call after a fault is logged and before
  the next poll makes the daemon take the log as old, and `poweroff.events`
  never shows that power-off event (until the log changes again). It has no
  caller under `src/`, so this bites a client of the package.

- `vxlan.go`: the flag table sends l3miss as `IFLA_VXLAN_L2MISS` (line
  204) and remcsumrx as `IFLA_VXLAN_REMCSUM_TX` (229); maxaddress is sent as
  `IFLA_VXLAN_AGEING` (139); the no-<flag> forms send nothing, the unset
  branch testing the set name again (236); gbp sends both GBP and GPE and gpe
  nothing (265); a command without local sends an empty
  `IFLA_VXLAN_LOCAL6` (94).

## 5. Not modelled

- Byte layouts, `unsafe` overlays and `WriteTo` rendering: formatting with no
  property about it; NetlinkDump abstracts a message to its kind, NetlinkCodec
  an attribute value to its class and length. `nextAttr`'s framing checks and
  nested attribute sets (`parse_af_spec`) are not under `src/`.
- The socket descriptor itself (the leak at `dump.go:77` is listed as a
  hazard without a property).
- `dump.go:15`: the usage text lists `neighor`, which the argument loop
  rejects as unknown (it accepts `neighbor`), and omits `netns`. A text the
  code never parses; no run checks it.
- GPIO command, command registry, generated hook vector, event-log stub: no
  state or concurrency worth a model (see `PROJECT.json`).
- `ucd9090.go`: the text `LoggedFaultDetail` builds (rail and fault names
  from the detail bytes) is abstracted to the entry; a call that runs while
  `PowerCycles` is mid-scan (both use the package's `s` buffer) is not
  modelled, each scan being one step. The commented-out fault functions are
  not code. Vout's exponent for VOUT_MODE
  exponents -16 and +1 is wrong (hazard at `ucd9090.go:165`); the run gives
  the chip the usual exponents.
- `fangpio.go` `FanTrayLedReinit`: no caller under `src/`. Were it called, it
  would re-read `deviceVer` (0 when `/tmp/ver` cannot be read) and swap the
  colour tables under LED bits already written, without rewriting the output
  registers; `LedFieldsKept` states what that would break.
- The remaining hazards without a property in `PROJECT.json` (the socket
  leak at `dump.go:77`, the unclosed GenMessage at `msg.go:114`, the empty
  value at `msg.go:362`, the overwritten pooled value at `msg.go:381`, tray 0
  `readVer`'s ignored error at `fangpio.go:139`, the
  UCD close panic at `ucd9090.go:91` and the partial `LoggedFaultDetail` at
  `ucd9090.go:339`) each say why: the state they are about is outside the
  model (socket descriptors, nested attribute pools, the board's real
  version), or the behaviour is modelled
  and reachable but the project keeps one violation run per finding and
  shows the same pattern elsewhere (the close panic in `fantray_close_panic`;
  the early record before a failing read, which `ucd_poll`'s liveness
  property excludes by its `[]~detailErr` antecedent).
