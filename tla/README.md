# A TLA+ verification of tunnel-lab

tunnel-lab is an experimental IP tunnel: a client and a server each create a
TUN device, configure the machine's network, and carry IP packets over one of
three transports (SIP messages on TCP/TLS, fragments in a WebRTC media track,
an Xray REALITY stream). This directory models the parts of it that are hard to
test (concurrency inside a session, setting up and serving connections, clean-up
of the machine's network under failures and signals, reassembly over an
unreliable network), checks them with TLC on small instances, and proves the
most important results with TLAPS for every instance.

## Inventory

| Part | Code | State | Operations | Hard behaviour |
|---|---|---|---|---|
| SIP session | `internal/transport/sip.go` | `seq`, `recvSeq`, mutexes `tx` and `wire`, channels `rx`, `ack`, `responses`, `done`, the connection | `WritePacket`, `ReadPacket`, `Close`, goroutines `readLoop` and the responder of `start` | four kinds of goroutine on two mutexes and three bounded channels; both ends write at once; timeouts; closing at any moment |
| SIP handshake | `clientAuth`, `serverAuth`, `setKey` | nonces, keys | two OPTIONS exchanges | order of authentication and key derivation |
| Network manager | `internal/network/network.go` | `undo` log, the context; the machine's routes, DNS, forwarding, firewall | `Setup` (`mac`, `linux`), `add`, `Close` | commands fail, time out, are overtaken by SIGINT; undos fail and are retried |
| macOS underlay routes | `internal/network/macos_routes.go` | the routing table | `pinMacRoute`, `verifyMacRoutes` | the table changes between lookup, pin and verification |
| Process and TUN session | `cmd/tunnel-lab/main.go` | session result, `cleanupErr` | `run`, `runTUN` with its deferred calls | reconnecting after failures; a signal in any phase |
| Bridge | `internal/tunnel/bridge.go` | `errs`, the WaitGroup, both ends | two copiers, the select, the AfterFunc | concurrent failure and closing; joining |
| Fragments | `internal/transport/fragments.go` | `pending`, `completed` | `splitPacket`, `push` | loss, duplication, reordering, expiry, full tables, wrap-around of ids |
| WebRTC connection | `internal/transport/webrtc.go` | `rx`, `ready`, `done`, `seq`, `id` | `WritePacket`, `ReadPacket`, `OnTrack`, keepalive, `Close` | callbacks against closing; dropping when full |
| WebRTC server | `serveWebRTC` | `busy`, WaitGroup, HTTP server | `/offer`, shutdown | hand-over of a peer from handler to session; `wg.Add` against `wg.Wait` |
| Stream server | `serveStream` | `gate`, WaitGroup, listener | accept, authenticate, handle | accept against cancellation; a silent client on the only place |
| Dial, REALITY, framed stream | `transport.go`, `reality.go`, `dialWebRTC` | the connection, the Xray instance, deferred calls | `Dial`, `authStream`, `Close` | time limit and cancellation against success; releasing what a failed dial holds |
| TUN device | `internal/tun/device.go` | `once`, `closeErr`, `pending` batch | `Open`, `ReadPacket`, `WritePacket`, `Close` | closing twice, remembered error |
| Configuration, generator, scripts | `internal/config`, `init.go`, `scripts/` | none | `Load`, `Validate`, `generate` | none |

How they interact: `main` calls `transport.Dial` or `transport.Serve`, which
gives a `PacketConn`; `runTUN` opens the device, calls `network.Setup`, runs
`tunnel.Bridge` between device and `PacketConn`, and unwinds. `Bridge` knows the
two ends only as `PacketConn`s. The one shared signal is the context: a signal
or a failed clean-up cancels it, and every part watches it.

What makes each part correct:

* a SIP session is a pair of FIFO channels that lose nothing they have
  acknowledged, never deadlock, end (and fail a write) only for a cause, and end
  completely;
* a manager never has a change in place without a recorded undo, undoes latest
  first, and returns without `CleanupError` only if everything is restored;
* the process never starts a session on an unrestored network, and its exit
  code tells the truth about the clean-up;
* the tunnel's own packets are never routed into the tunnel, and no route of
  anybody else is lost;
* Bridge always returns, and only after both copiers have;
* the assembler returns whole packets, each once, and none is lost inside it; a
  WebRTC connection is a channel that may lose packets but never alters or
  repeats one, and ends completely;
* a server runs its handler for one client at a time, never loses the one place
  to a client that is gone, returns when cancelled, and leaves nothing behind;
* Dial returns, either with an open connection to a server that agrees on the
  token and keys, or with nothing open.

## Modules

Three abstract specifications say what callers rely on. `PacketChannel`: in each
direction, what is delivered is a prefix of what was sent; a failed write takes
its packet back (`SipSession` implements it). `LossyChannel`: a packet is
delivered whole and at most once, in any order, or lost (`RtcConn` implements
it). `OneSession`: the handler given to `Serve` runs for one client at a time,
and never after `Serve` has returned (`StreamServer` and `OfferServer` implement
it). `NetworkManager`'s own specification is a fourth: `TunSession` implements
it. Which module extends which:

    SipSession  -> PacketChannel        MacRoutes  == NetworkManager + routing table
    RtcConn     -> LossyChannel         TunSession == NetworkManager + main, runTUN
    StreamServer, OfferServer -> OneSession
    RtcConn == Fragments + rtcConn      Bridge, Dial: alone

`SipSession` models both ends of a SIP connection after the handshake.
`pc[e][t]` is the program counter of each writer and of the responder, `rd[e]`
of `readLoop`; the mutexes are read off the program counters (`TxFree`,
`WireFree`). A SIP message is a record with its CSeq, the CSeq its body was
sealed under, and its payload. `WritePacket` reads `seq` for the one (`Seal`) and
advances it for the other (`MakeRequest`) in two steps, so that only the mutex
`tx` makes them equal. A message crosses the connection in two pieces, because
`writeAll` may write it in several parts, so that lack of a mutex would show.
Go's `select` is a disjunction: where data and `done` are both ready, either
may win, and `default` is taken only when nothing else is ready. A write to a
closed connection fails; data on its way may be overtaken by a reset. The four
kinds of outside event (`Close`, the connection dying, the write deadline, the
transaction timeout) are switched by the session's plan: a record of how many
writers each end has, how many packets they write, and which outside events may
befall them, one of `Plans`. Payloads of 1 to 1280 bytes are model values; the
sizes `WritePacket` refuses are not enumerated.

`NetworkManager` models `Setup`, `add` and `Close` over a `Plan`, the sequence
of commands that `mac()` or `linux()` runs, each reduced to its kind (what its
undo is and how that fails). `kernel` is the set of steps in effect. A command
is in flight between two states, so that cancellation falls into it; it may
fail, or (`killedDo`, `killedUndo`) take effect and then be killed by the 10 s
timeout of `execute`. `route delete` of a missing route says "not in table",
which `Close` forgives (`Forgiven`); deleting a missing firewall rule fails,
setting an old value again succeeds. That `route` says these words of a missing
route only is an assumption about that command: `Close` believes them.
`Close` may be called again while undos are owed. `Next` lets `Setup` start
only when everything is restored: that is what a manager needs of its caller.

`TunSession` extends it with `run` and `runTUN` in tun mode: dialling or
accepting, `tun.Open`, `Setup`, Bridge, the deferred `manager.Close` and
`d.Close`, and main's judgement of the result. Here `Setup` has no such guard,
and the property `ManagerContract` says that it does not need one. Bridge's end
is one step that has closed the device, which is what module `Bridge` shows
(`JoinedOnReturn`). That the server runs one session at a time, and none after
`Serve` has returned, is what `StreamServer` and `OfferServer` show by
implementing `OneSession`.

`MacRoutes` extends `NetworkManager` with the part of the macOS routing table
that concerns the underlay. A route is a kind (static, cloned, neighbour entry,
connected subnet, none) and a way out; cloned and neighbour entries expire at
any time, others may replace a route, and the machine may move to another
network. `pinMacRoute`'s lookup and pin and each turn of `verifyMacRoutes`
become steps that read this table, and the undo of a pin deletes whichever host
route it finds. Two addresses are pinned, one in each half of the address space
that a split route covers; which one is the constant `HalfOf`, and
`RoutesAssumption` says of the plan what `mac()` does: each pin follows its
lookup, the split routes and the verification come after all pins.
`OutsideTunnel` excuses what others change until it is verified, and one gap of
the code: of an address that was directly connected, `verifyMacRoutes` compares
the way out but not whether it still is, so if others then take its subnet away
the split route takes over unnoticed.

`StreamServer` models `serveStream`: the accept loop, the gate, one goroutine
per admitted connection through authentication, handler and deferred calls one
by one, and both AfterFuncs. `OfferServer` models `serveWebRTC`: the HTTP
handler of an offer up to the hand-over, the session goroutine, `busy`, the
WaitGroup, and the AfterFunc that calls `Shutdown` for 3 s and then `Close`. Of
`net/http` it assumes what its documentation says: `Shutdown` waits for busy
connections, `Close` for nobody.

`Dial` models one dial over any of the three transports against a server that
may answer, stay silent or go. What is open is a set (`held`): the connection or
peer connection, the Xray instance, an offer's response and idle HTTP
connection. Nothing closes it wholesale. A failure at a stage takes the error
path the code has there, whose calls (`closes`, given by `SipCloses`,
`RealityCloses` or `PeerCloses`) run one by one, then the deferred calls (`todo`)
as the function has pushed them, and the AfterFunc may close the connection
between any two. `context.AfterFunc` is armed, running or stopped, where
`stop()` no longer stops one that has started. The SIP handshake is there
message by message, with proofs and keys as pairs of token and label. The server
sends its last answer, sets its keys and starts its `readLoop` in three steps,
and by the second the client may have returned and be writing. For
REALITY the connection is taken to have no read deadline, as the code's comment
fears; WebRTC's three timers are one.

`Bridge` models the two copiers, the select loop, the AfterFunc and the
caller's cancellation, over two ends whose reads and writes may block and fail
at any time. A packet is good, invalid (`ValidateIP`), or has a foreign source;
a copier's packets are numbered as it reads them, so that `passed` tells which
of them it wrote, and in which order.

`Fragments` models a sender that numbers and splits packets, a network that
delays, reorders, repeats and loses fragments but holds none back longer than
`Life`, and the assembler with its clock. Each way out of `push` is an action. That
`Life` is at most the two seconds of `push` is an assumption about the network:
a fragment repeated later than that would be taken for a new packet.

`RtcConn` extends `Fragments` with the life of an `rtcConn`: OnTrack, which
feeds the assembler and `rx`; the keepalive; Pion's callbacks and the
`go p.Close()` they start; and the user's `wait`, `ReadPacket` and `Close`. To
keep the two dimensions apart TLC explores a calm mode (connected, a prompt
user, the whole of `Fragments`' network) and a stormy one (everything may fail
or close at any moment, a slow user, two packets, no time passing). In the free
mode both come together and neither bound holds; it is too large for the run,
and the theorems cover it like the other two.

`MCSipSession` gives values to functions among `SipSession`'s constants. The
operators introduced as "Mutant of ..." state, beside a definition, how a
plausible slip in that code would read; the properties are required to fail for
them. They are used by no specification.

## Runs

| Run | What it shows | Bounds and why they are enough |
|---|---|---|
| `SipFaults` | refinement of `PacketChannel`; an acknowledged packet is delivered or queued while the receiver lives; queues never fill | all faults; one packet each way, so that any two goroutines of either end meet; three one way over an `rx` of one: delivered, queued, one too many; two writers at one end, the second after one that timed out |
| `SipLive` | nobody waits for somebody who waits for them, every write is acknowledged, no session ends and no write fails without a cause; a close releases every goroutine of both ends | two writers per end, two packets against one, over a connection that holds one piece: the tightest buffering there is; one packet each way with a close at any moment |
| `MacRoutes` | the tunnel's packets stay outside; foreign routes are kept; every change owed an undo, latest first, and restored unless `Close` reports a `CleanupError` | two addresses, one per split route; two uplinks; one change by others; any number of `Setup`/`Close` cycles and expiries |
| `TunClient`, `TunServer` | no session on an unrestored network; clean exit; a signal ends the process | two sessions, with and without `-reconnect`: what one leaves to the next; the macOS and the Linux plan |
| `TunKilledCommand` | expected violation, see Findings | |
| `RtcConn` | refinement of `LossyChannel`; each packet once, none lost in the assembler, none rejected; table bounds; the end releases everybody | three packets under two ids, so that an id comes round after its memory has expired; lengths 900 and 901, on both sides of the chunk boundary; tables and `rx` of one entry, so that each overflows |
| `Bridge` | always returns, joined; passes exactly the vetted packets | two packets per copier |
| `StreamServer` | refinement of `OneSession`; the place comes free; a cancelled server returns, joined | three connections: one in, one turned away, one queued while the server stops |
| `OfferServer` | refinement of `OneSession`; `busy` has exactly one owner; the server returns, joined unless `Shutdown` gave up | two offers, one of which finds the other in any state |
| `OfferJoin` | expected violation, see Findings | |
| `Dial` | no error path leaves anything open; what is returned stays open; an end that reads has the key of what it reads; Dial returns | one dial, every failure of every transport, exhaustive |

`CHECK_DEADLOCK FALSE` stands where the system may stop: a session that is
over, a process that has exited, a server that has returned. `MacRoutes` checks
deadlock.

### Fairness

Liveness is checked under weak fairness of each goroutine's own steps, which
Go's scheduler gives, and of nothing from outside: no fault, signal, timeout or
write by the application is ever owed. In `SipSession` the consumer is owed its
next `ReadPacket`, which Bridge's copier calls again after each packet. In
`TunSession` the process is owed its steps except in Bridge and where it waits
for a connection, which go on only when cancelled (`Duty`); `execute` bounds
each command by 10 s. In `Bridge` a blocked read or write is owed an end only
when its end is closed (`Interrupted`).

Time limits are owed, because a clock runs: in `StreamServer` an authentication
ends (its 15 s deadline), in `OfferServer` a handler and `wait` do (30 s each)
and `Shutdown` does (3 s), in `Dial` the limit passes. A handler given to
`Serve` returns only once its context is cancelled or its connection has ended.
Clients and servers at the other end are owed nothing: no offer, answer or
connection has to come. In `RtcConn`, once `done` is closed Pion's `ReadRTP`
may still return fragments but not for ever, which needs strong fairness of
`TrackEnds`: OnTrack is in `ReadRTP` again and again.

## Proofs

All theorems are proved by `tlapm` from the named assumptions on constants, for
every value of them.

* `NetworkManagerProofs`: for every plan, `TypeOK`, `EffectsOwed`,
  `LatestFirst` and `CleanMeansRestored`, under the assumption that no do
  command is killed after taking effect (`"killedDo" \notin Faults`; the
  finding shows it is needed). None of them is inductive alone. `IInv` adds that
  a command only runs at a step that adds one (`CommandRuns`), that the undo log
  is increasing and below the current step, and what has failed decreasing and
  above what remains (`Sorted`), and that a closed manager without
  `CleanupError` has an empty log (`NothingOwed`). `LatestFirst` follows from the order of the log
  together with `EffectsOwed`; the reversal of the failed undos in `Close` is
  what keeps the log increasing over a retry.
* `TunSessionProofs`: for both roles and any number of sessions, `CleanExit`,
  and `ManagerContract`, that is, the process implements `NetworkManager!Spec`.
  `SInv` relates main's program counter to the manager's phase (`PhaseAt`), says
  that without the device nothing bound to it is left (`DeviceInv`), and that the
  result on its way to main is a cleanup error, or the server is giving up,
  whenever a change or the device is left (`Clean`). The same assumption on
  `killedDo` is needed.
* `BridgeProofs`: `JoinedOnReturn`, `ErrorsHaveRoom` and `PassesVetted` for any
  number of packets (the run sees the second through `AlwaysReturns`, which a
  copier stuck at `errs` would break). `IInv` says that every error in `errs`
  comes from a copier that has stopped, and both ends are closed from the moment
  Bridge waits.
  `Vetting` adds to `PassesVetted` that the packet in a copier's hands is the
  last it has read, vetted, and not written yet (`InHand`).
* `ConnectProofs` proves about two modules, which share no name. For
  `StreamServer` and any number of connections: `JoinedOnReturn` and
  `ImplementsOneSession`. `IInv` says that the token in the gate stands for
  exactly one goroutine (`GateHolds`), that a goroutine is started once per
  connection (`Started`), and that its connection is closed before the token is
  given back (`Closed`). For `Dial` over any transport and against any of its
  servers: `NothingLeft`, `KeptOnReturn` and `EndsAgree`. The first half of the
  invariant (`Control`) follows the dial's course: which deferred calls are to
  come at each stage (`Course`), what can be open at all by then (`Opened`), that
  after an error, and while its caller closes it, whatever is open has a call to
  come that closes it, of the error path or deferred (`Covered`), that an armed
  AfterFunc and a running limit still have their deferred call to come, `stop`
  before `cancel` (`Defers`), and so no AfterFunc can start on its own account
  around a success (`Kept`). `Covered` is where each error path is compared with
  what the dial has opened: a call missing at one site breaks the step of
  `Fails`, one missing from `Close` that of `Close`. The second half says what
  may be on the wire, what has been shown by then, and who has set which key
  (`Letter`, `Agreed`).
* `OfferServerProofs`: for any number of offers, `BusyHasOneOwner`,
  `JoinedUnlessForced` and `ImplementsOneSession`. `IInv` says that a handler
  comes before its session goroutine (`HandedOver`), that the WaitGroup counts
  the goroutines that have started (`Counted`), and that once `Shutdown` or
  `Close` is through, no offer can come and a session goroutine that still
  starts has a client that never got its answer (`Stopping`): this is why a
  forced shutdown does not break `OneSession`.
* `SipSessionProofs`: for any number of writers and packets, any capacity of
  the channels and of the connection and any outside events, `QueuesNeverFill`,
  `EndsForCause`, `AckedMeansAccepted`, `NoLockUp`, and
  `ImplementsPacketChannel`: the session is a pair of FIFO packet channels. The
  idea is one token per
  direction: a request is on the wire, or queued for the responder, or its
  reply is in the responder's hands, on the wire, in `readLoop`'s, or in `ack`,
  at one of these places at a time (`Single`, `OneToken`), and while it is
  anywhere its writer waits for it or has given the session up (`Owed`). So a
  writer that sends finds its CSeq the highest (`Numbers`) and `responses` and
  `ack` empty; what was sent is what was delivered, queued, read or is on its
  way, in order (`Balance`, `InOrder`); and nobody refuses a message, so until
  something from outside befalls it the session is whole (`Untouched`). A second
  invariant (`Answered`) says the converse of `Owed` for a whole session: while
  a writer waits, its token is somewhere (`Waited`), and wherever it is it bears
  the CSeq of that writer's request (`Numbered`). Hence the 200 OK in `ack` is
  never another's (`EndsForCause`), and whoever has the token, or waits for the
  wire, can go on or waits for a wire that the peer's `readLoop` drains, which
  itself never waits (`NoLockUp`); this needs only that no capacity is zero.
  A third (`Sealing`) says that what a writer has sealed is the packet of the
  request it makes, under that request's CSeq: the mutex `tx` keeps `seq` in
  place from the one to the other.
  None of the five properties is inductive without these.
* `RtcConnProofs`: for every chunk size, MTU (more than one chunk, at most two),
  set of lengths, number of ids, table limits and capacity of `rx`, and with the
  network's and the connection's faults at the same time (the free mode),
  `TypeOK`, `NothingLost`, `NoDuplicates`, `NeverRejected`, and
  `ImplementsLossyChannel`. `IInv` says that a fragment in the network is what
  `splitPacket` made of a packet not older than `Life`; that an entry of
  `pending` holds one of two parts of a packet and was begun while that part
  was in the network (`Began`); that an entry of `completed` was made while the
  last part of a returned packet was (`Ended`); and that a returned packet is
  remembered as long as its fragments can come (`Remembered`). The assumption
  `Life <= Expiry` then gives that, unless the ids came round (`Collision`), an
  entry found under a fragment's id is that of its own packet (`SamePacket`), so
  nothing is rejected, each part joins the other one of its packet (`Settled`,
  `Genuine`), and none is put together twice but for an eviction. For the
  refinement, `Line` adds that nothing is in `hand`, `rx` and `delivered`
  twice. The sum of the parts' lengths, a fold, is unfolded by hand for the one
  or two parts there are (`JoinedOne`, `JoinedTwo`). That the fragments of a
  packet pass `push`'s checks and add up to it are theorems of their own
  (`SplitAccepted`, `SplitCoversPacket`).
* `MacRoutesProofs`: for every plan of the shape `mac()` makes, any number of
  uplinks and changes by others, `OutsideTunnel` and `ForeignRoutesKept`, again
  without `killedDo`. The argument builds on the manager's `IInv`, which a
  change of the table by others leaves alone (`RoutesKeepManager`): as effects
  are owed and the log is in plan order, no split route is there before the pin
  of an address it covers. `Covered` follows each address through its lookup
  (the entry is what the lookup found, up to expiry), its pin (it is pinned or
  needs none) and its verification (a pin or a static route holds it);
  `Foreign` says that a static route of others and a pin exclude each other,
  and that a pin the manager owes an undo for gives way to one only if somebody
  put it there. `OutsideTunnel` is not inductive without the first, nor
  `ForeignRoutesKept` without the second.

Only model-checked, and why: the liveness properties (`EveryWriteAcked`,
`CloseReleasesAll`, `InterruptEnds`, `DoneReleasesAll`, `AlwaysReturns`,
`PlaceComesFree`, `CancelReturns`, `ServeReturns`, `DialReturns`), because
fairness and `ENABLED` are outside what the prover handles. Every other property
of a passing run is a theorem. `NoLockUp` is the part of `EveryWriteAcked` that
is a matter of safety: it says that somebody can go on, the fairness of the
scheduler that they do.

## Findings

`TunKilledCommand`: `execute` kills a command after 10 s and reports an error,
and `add` (`network.go:55`) then records no undo. If the command had taken
effect, the process ends without a `CleanupError` although its change stays.
`README.md:103` of the repository says that a command already running is given
its 10 s and then undone. `CleanExit` is violated as soon as `killedDo` is
among the faults, and holds, by proof, if it is not.

`OfferJoin`: `serveWebRTC` relies on `Shutdown` to wait for the offers' handlers
("Shutdown waits for offer handlers before waiting for their session
goroutines", `webrtc.go:371`), and `main.go:87` says that "Serve joins all
session handlers before returning". `Shutdown` waits 3 s; a handler may gather
for up to 30 s. `Close` then ends its connection and waits for nobody, so
`serveWebRTC` can return while the handler still runs, holding an open peer
connection, and may yet start a session goroutine. `JoinedUnlessForced` holds:
without that timeout everything is joined; and even with it the handler given to
`Serve` never runs after the return (`ImplementsOneSession`).

## Not modelled

Third-party code (Pion, Xray, the TUN driver, the kernel) appears only as the
code uses it. Logging, formatting and parsing of SIP text, cryptography beyond
"opens under the same CSeq", configuration, key generation and scripts are left
out. Echo and probe mode are a sequential loop over a `PacketConn`. Of `framed`
only the token check is modelled: its data phase is one mutex around one FIFO
connection. Which addresses need a pin (name lookup, ICE candidates) is a given
of `MacRoutes`, and so is that the routing table's lookups are exact.

Smaller simplifications, which a reader who compares the modules with the code
will meet:

* `SipSession`: `readLoop` reads nothing more once its own end is closed,
  although its `bufio.Reader` may still hold messages; what it would do with them
  is what it does when the close comes a moment later.
* `RtcConn`: the goroutine that drains RTCP (`webrtc.go:114`) is left out: it
  shares no state with the others and ends when Pion's sender is stopped, which
  is Pion's business. Pion's "connected" callback has no effect once `done` is
  closed: whoever still waits for `ready` finds `done` as well, and what it would
  do with `ready` fails.
* `Bridge`: a write to an end already closed is one of the ways to fail
  (`EndFails`); it never succeeds.
* `StreamServer`: the three deferred calls of a connection's goroutine that close
  it and stop its AfterFunc are one step. `JoinedOnReturn` is about the
  goroutines `serveStream` counts: `readLoop` and responder of a `sipConn` end by
  its `Close` (`CloseReleasesAll`), which `serveStream` calls and does not wait
  for.
* `OfferServer`: answers that change nothing (401, 405) are left out; a handler
  that fails closes its peer and gives `busy` back, its two deferred calls, in
  one step; and the answer to an offer is taken to reach its client when the
  handler returns, not when it writes it.
* `Dial`: the closing of an HTTP response may leave an idle connection, which
  `CloseIdleConnections` then closes; that is all of `net/http` there is.

## Plan

1. The data phase of `framed` as another implementation of `PacketChannel`, and
   the device's read batching, composed with `Bridge`.
2. `config.Validate` as a predicate, checked against what the other modules
   assume of a configuration.
3. Proofs: the refinement of `PacketChannel` by `framed` once it is modelled.
