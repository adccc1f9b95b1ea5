# Formal models of FLXC1000-RPI

TLA+ models of the ECU simulator in this repository, checked with TLC on small
instances and proved with TLAPS for every value of their constants. Paths are
relative to the repository (`src/`); "app", "boot" and "init" stand for
`flxc1000-app/src/main.rs`, `flxc1000-boot/src/main.rs` and
`flxc1000-init/src/main.rs`.

Contents: [inventory](#inventory) · [modules and code](#modules-and-the-code-they-model) ·
[runs](#runs) · [bounds](#bounds) · [fairness](#fairness) · [proofs](#proofs) ·
[what the runs found](#where-code-and-text-disagree) ·
[not modelled](#what-is-not-modelled) · [plan](#plan)

## Inventory

The card boots a kernel with an initramfs. Its `/init` runs as process 1 and
execs one of two images, the application or the bootloader. Either image starts
a DoIP server (ISO 13400, TCP and UDP port 13400) and then serves UDS requests
(ISO 14229) in its main loop until a request asks for an ECU reset.

| Component | State | Operations | Interacts with |
|---|---|---|---|
| DoIP TCP server, `flxc1000-doip/src/server.rs`, `connection.rs` | listener; per connection: activation, last activity, read buffer, request in flight | accept, read, timeout, routing activation, alive check, diagnostic message, close | main loop: one bounded channel of requests (32 places), one answer channel of capacity 1 per request |
| Main loop, app 530-608, boot 290-355 | request being served, `pending_reset` | receive, handle, answer, reset | handlers of ace-server call into `SharedState`; a reset execs `/init` or the bootloader |
| DoIP framing, `connection.rs` 85-140, `header.rs` | offset in the bytes of one read | parse header, handle frame, drop the rest | TCP cuts the stream anywhere |
| DoIP codecs, `message.rs`, `header.rs` | none | encode, decode; every encoder states its payload length itself | connection tasks, UDP task |
| UDP identification, `server.rs` 75-128 | whether the task still runs | answer three payload types; an error of `recv_from` ends it | development relay |
| UDP relay, `scripts/doip-udp-relay.py` | the datagram it waits for, its sockets | forward, answer, time out after 2 s | testers, UDP identification |
| Self-test and LED bar, app 80-260, 295-330 | `routine_status` (atomic), cascade threads, GPIO pins (exclusive), LEDs | Start, Stop, RequestResults, the cascade, read of DID 0xF200 | handler and threads share the status byte and the pins only |
| Boot chain, init, app 265-292, boot 60-110 | mounts, `/data/boot_state` in the page cache and on the card | mount, decide, ECU reset (hard, soft), power loss | exec keeps mounts and the page cache |
| UDS server of the images (ace-server, external) | session, security, S3 timer | `handle`, `tick`, `drain_outbox` | called by the main loop |
| Data, VIN and DTC services, app | VIN, DTC list, uptime, `session_type` | read, write, clear | handlers, one request at a time |
| Transfer stubs, boot | `transfer_buf` | RequestDownload, TransferData, TransferExit | handlers |
| Legacy dispatcher, `flxc1000-uds/src` | session, last activity, unlocked bits, pending seed, failed attempts, lockout | process, tick, session control, tester present, seed, key | the handler of an embedding binary; no member of the workspace embeds it today |
| Network bring-up, app 609-660, boot 273 and `get_mac_address` (server.rs 151) | interface, link, address (in the kernel), EID | wait, link up, add address, read MAC | exec keeps the configuration, a power loss does not; EID in the announcements |
| Build, flashing and emulation scripts | - | - | - |

What is hard about them, and what makes each correct:

* **Server and main loop.** Connections are tasks that share one channel and
  one main task. Every acknowledged request must be answered, to the
  connection that asked, once; no connection may wait for an answer nobody will
  give; a connection must not close between acknowledging and execution; one
  slow tester must not stop the others; a requested reset must happen however
  many requests keep coming. The inactivity timeout races with data, and an
  `accept` that fails ends the acceptor.
* **Framing.** TCP knows no frames. A frame must be handled once and wholly,
  no byte as part of two frames, and parsing must end whatever the bytes say.
* **Self-test.** A handler and any number of threads communicate through one
  status byte and compete for pins. RUNNING must not be a leftover, an abort
  must stand, the LEDs must be dark afterwards.
* **Boot chain.** The decision depends on a file written through a page cache
  and on mounts that outlive an exec; everything may fail, and power may go.
  The application must not run without its data partition, a reset must not
  return to an application that was told to go, and `/init` must come to the exec
  of an image whatever else fails.
* **Network.** The interface comes when it likes, commands may fail one by one,
  and only one of two images configures anything. A reset must not lose the
  tester, and a reachable entity must not announce zeros as its EID because it
  looked for the address too early.
* **Codecs and data.** Hand-counted lengths and offsets; one wrong one
  shifts all later messages of a connection. Answers must follow their
  acknowledgements, and what one tester clears is cleared for all.
* **Identification and relay.** UDP loses and delays, two programs fail on their
  own, and nothing in an answer says which request it answers. One datagram must
  not block the others, and what is late must stay bounded by what was given up.
* **Legacy dispatcher.** A protocol of several requests (seed, key, lockout)
  whose safety is spread over several functions, with two clocks.

`PROJECT.json` lists the hazards one by one, each at its line with the
properties that would catch it.

## Modules and the code they model

`PROJECT.json` ("map") gives the lines for every definition. Definitions
commented "Fault" are plausible bugs, kept next to the definition they would
replace; they are not part of any specification. Each property has one that
breaks it.

### DiagnosticService (abstract)

What a tester may rely on, in one variable per connection and one flag. A
connection is closed, open, active, has *asked*, or is *answered*. Only an active
connection asks, a request is executed once and only for a connection that is
still there, nothing is executed once a reset is due, and only a reset drops an
unanswered request. It has no tasks and no channels.

### DoipGateway

The TCP server and the main loop together, for both images, since they differ
only in what a request does.

| TLA+ | Code |
|---|---|
| `pc[c] = "open"`, `batch[c]` | the loop in `handle_connection`; frames of the current read that are still to be handled |
| `tester[c]` | `ConnectionState` |
| `pc[c] = "send"`, `"recv"` | `uds_tx.send(..).await` and `resp_rx.recv().await` in `handle_diagnostic_message` |
| `queue`, `slot[c]` | the request channel; the answer channel of the request in flight |
| `mainpc` | place in the main loop: `recv`, `serve`, `check` (the `swap`), `grace` (50 ms), or the process has exited |
| `pending` | `SharedState.pending_reset # RESET_NONE` |
| `Exec` | `do_hard_reset`, `do_soft_reset`: all tasks and channels are gone; the next process begins like the first |

A step boundary is put where the code awaits something another task decides:
the read, the channel, the answer. Within `Acknowledge` no other task is
affected, so the checks, the acknowledgement and the construction of the request
are one action. A frame is what is done with it, and which frame comes is
nondeterministic. The answer is `"empty"` or `"data"`, because an empty one
is not written, so its writing cannot fail. The timeout is possible whenever the
task is in `select!`, because any time may have passed; it is *not* possible
while a request is handled, which is where `RequestersWait` comes from.
`Serve` waits while the answer channel of the request is full, as `send` on a channel
of capacity 1 does; that it never is follows from RequestersWait.
`StageOf` and `resetting` are the refinement mapping to DiagnosticService.

### DoipFraming

`process_tcp_data` against a stream. A byte is its position and a frame its
position and size, so "the same byte twice" and "the right frame" are
statements about numbers. A size read where no frame begins is arbitrary up
to one more than the buffer: larger values behave the same, since both are
"incomplete". A read returns any number of bytes up to the buffer.

### SelfTest

`Start`, `Stop`/`StopStore` and `ReadPower`/`HandlerOn`/`HandlerOff` are the
handler, which serves one request at a time; the actions of `Cascade(t)` are
`led_cascade_test` in a thread of its own. Steps are split at every atomic load or
store and every `gpio.get`, drive and drop of a pin. Getting a pin that is held
fails (rppal, external) and the code then goes on without it. In `Light` getting
and driving are one action, as nobody else can act on a pin that is held, and a
thread between the two is indistinguishable to the others from one that has lit it.
Dropping a pin under software PWM leaves the level it happens to have.
The sleeps between steps are left out: any amount of time may pass
between two steps anyway.

`Replace` is the exec of an accepted ECUReset seen from here: the cascades and
their software PWM end where they are, and no image that follows touches
the pins. `main` is then `"gone"`, or `"cut"` if a cascade was alive, the one
case in which LEDs may stay lit. `PowerCycle` is what brings the application back.

### BootChain

`/init` (`FindMmc`, `Mount`, `Decide`), the resets of the images, write-back and
power losses. `mounted` survives an exec and a second mount in the same place
fails (EBUSY, a fact of Linux). `cache` is what reading `boot_state` returns and
`disk` what the card holds; `Truncate` and `Write` are the two steps of
`fs::write`. `asked` is a history variable: an ECUReset of the application was
accepted. A read of `boot_state` that fails counts as an empty file. `RunImage` may
fail: `/init` then logs and sleeps for ever, which is `image = "init"` with `step =
"asleep"`. `ServerEnds` is `MainEnds` of DoipGateway seen from here: process 1
returns from `main`, and the kernel panics.

### Ecu

The composition: BootChain, the network bring-up and the diagnostic service of
whichever image runs. The service is taken in its abstract form
(`Service == INSTANCE DiagnosticService`), which DoipGateway implements, so that
the tasks and channels need not be explored again.

| TLA+ | Code |
|---|---|
| `InitStep`, `WriteBackStep`, `PowerStep` | BootChain's steps, with what they do to the network and to connections |
| `WaitForInterface`, `LinkUp`, `AddAddress` | `configure_network` of the application, command by command; one that fails is logged |
| `ReadMac`, `eid` | `get_mac_address`, once per image; zeros if the interface is not there, and on each failure to read its address. `misread` is a history variable: the latter happened in this process |
| `AppReset(c)`, then `AppResetAnswered` | an ECUReset in the application: `boot_state` is truncated, then written or not, then the request is answered; `by` is the connection it belongs to |
| `BootResetAnswered(c)` | an ECUReset in the bootloader |
| `ResetStep` | the exec after an answered reset; it ends all connections, it keeps mounts and network |
| `Execute(c)`, `Talk(c)`, `Connect(c)` | DiagnosticService, while the image is in its request loop and can be reached |
| `ServerEndsStep` | `recv()` returns `None`: no acceptor and no connection left |

### DoipMessages, DoipExchange

DoipMessages holds the byte layouts: the header, the parsers with their length
checks, the encoders with the payload length each of them states. DoipExchange is
one connection of the application image (and its UDP identification) byte by byte:
activation, acknowledgement or its refusal, alive check, and the services that the
application answers itself (trouble codes, VIN) with their data. A request between
acknowledgement and answer is `pc = "waiting"`; the tasks in between belong to
DoipGateway. Two histories are kept: `stream`, the bytes written, and `meant`,
what they stand for. `Decoded` reads the stream the way a tester does and is
written from ISO 13400-2's field offsets, not from the encoders. What
ace-server answers to other requests is any of three bodies, one of them empty.

### Identification (abstract), DoipRelay

Identification says what a tester may expect: at most one announcement for a
datagram, each asked for by some identification request and used once. It does
not promise the answer to one's *own* request; the relay cannot.

DoipRelay is the script and `run_udp_server` with the network between them.
`rx` stands for the two sockets testers reach, `inbox` for the socket on which
the ECU answers. `Forward` and `Respond` may also end the relay: `sendto` raises
and nothing catches it. `Timeout` is possible only while nothing can be received.
`EcuFails` is an error of `recv_from`, `EcuRestarts` a reset. A datagram
is its own identity and an answer the identity of its request, though on the wire
all announcements are the same; DoipExchange has their bytes.

### SecurityAccess (abstract), UdsDispatcher

SecurityAccess is the lock without sessions, timers and clocks: a seed is good for
one key, a number of wrong keys in a row bars the lock, and while it is barred no
seed is given and no key judged. It says nothing of sessions but that everything
may be locked again at any time, with the attempts kept.


`flxc1000-uds`: `SessionState` and `SecurityManager` behind `process` and `tick`.
Instants become the time since the last activity and the time left of the
lockout. Seed and key become whether the key fits. `unlocked` holds bits of a
`u8`, so `1 << level` is `level % 8` as a release build computes it. In
`SubmitKey` the seed is used up on every path, as `take()` does. The mapping is in
`Access`: bits for levels, `MaxAttempts - failed` for the attempts left, and
barred while time is left of the lockout.

### Modules for TLC and for proofs

`MC<module>` instantiates a module for TLC (symmetry sets, where there are any).
`<module>Proofs` holds the theorems and extends the module. Every module states
its own properties and, where there is one, its inductive invariant `IndInv`.

## Runs

Passing runs, with the distinct states TLC reports:

| Run | Instance | States | Properties |
|---|---|---|---|
| Gateway | 3 connections, 1 tester, 2 places, 2 frames per read, fairness | 30933 | TypeOK, RequestersWait, NoOrphan, ServiceSpec, AcknowledgedIsAnswered, ResetHappens |
| Framing | header 2, payloads 0, 1, 3, buffer 4, 10 bytes | 44726 | TypeOK, WholeFramesHandled, NoByteTwice, ParsingEnds |
| SelfTest | 2 cascades, 3 LEDs, reads of 0xF200, resets | 64482 | TypeOK, RunningIsBacked, DarkWhenQuiet, RunningEnds |
| Ecu | 3 connections, 2 power losses, everything may fail | 14952 | EcuTypeOK, AppHasData, AnnouncesMac, BootAfterReset, NoWayBack, InitDecides, ResetReachesBoot, ResetKeepsContact, NothingElseLost, RequestsSettle |
| Dispatcher | levels 1, 3, 9, three attempts, S3 2, lockout 4 | 446 | TypeOK, AttemptsMatchLockout, LockoutHolds, AccessSpec, LockoutEnds |
| Exchange | 2 tester addresses, five messages per connection | 153824 | TypeOK, TesterReads, AnnouncementReads, ReplyOrder, AnswersToActivated, ClearedStaysCleared |
| Relay | 6 datagrams, both programs may fail, fairness | 114960 | TypeOK, OwnAnswer, Backlog, IdentificationSpec, Settles |

What they show:

* **RequestersWait, NoOrphan** - every request in the channel or in execution has
  a connection that waits for exactly that request, and every connection that
  waits has such a request. The first fails if the timeout can fire while a
  request is handled; the second if a failed send is swallowed.
* **ServiceSpec** - the gateway implements DiagnosticService. In particular
  answers go to the connection that asked although the request names its
  source itself, and nothing is executed between a reset request and the reset.
* **AcknowledgedIsAnswered, ResetHappens** - an acknowledged request is answered
  (that is: its answer is in its channel) or its process is replaced, also with
  fewer places than connections; and a requested reset takes place. Neither
  assumes that a tester ever reads, sends or closes.
* **WholeFramesHandled** - a read that begins at a frame is parsed into exactly
  the frames it holds. **NoByteTwice** holds even where alignment is lost.
  **ParsingEnds** includes frames without payload.
* **RunningIsBacked, RunningEnds** - whenever the status is RUNNING some cascade
  is alive that will replace it, and it does: the refusal of Start is temporary.
  That is not obvious, as a second cascade can overwrite ABORTED before the
  first has seen it.
* **DarkWhenQuiet** - `all_leds_off` skips pins that are held; still
  the bar is dark once nothing is under way, since whoever held the pin
  darkens it later, and only a reset in the middle of a cascade leaves LEDs lit.
  It rests on HeldIsLit, which is proved: nobody switches off an LED that a cascade
  holds.
* **AppHasData, NoWayBack** - on every path the application has both partitions,
  and once the card does not say `app_valid` it is not started again, not even
  after a refused or interrupted reset left the file empty.
* **InitDecides, ResetReachesBoot** - however devices, mounts and reads fail, `/init`
  comes to the exec of an image, and does not leave `/init` only if that exec fails
  too. An accepted reset that reached the card ends in the bootloader, or in a
  state that needs the power switch: an `/init` asleep after a failed exec, or a dead
  process 1.
* **AnnouncesMac** - an entity that testers can reach announces zeros as its EID only
  if reading the MAC address failed, which the code allows (`server.rs:150`). It never
  does because it looked too early, however late the interface and whichever
  commands fail: the address needs the interface, and the EID is read after it.
* **BootAfterReset, ResetKeepsContact** - after an accepted HardReset, and as long as
  the power stays on, no image but the bootloader serves testers, and whenever it does
  it is on the network; and it does come to its request loop there, unless an exec
  fails, the image ends or the power is lost. The bootloader configures nothing
  itself: mounts and network are those of the application.
* **NothingElseLost, RequestsSettle** - an acknowledged request is lost only to a
  reset that was asked for or to a power loss, not to the end of the acceptor;
  and it does not wait for ever while other testers' resets are written, refused
  and carried out.
* **TesterReads, AnnouncementReads** - a tester that trusts nothing but the header
  lengths reads exactly what was meant, message by message; the announcement read
  by offsets is the configuration the image was built with.
* **ReplyOrder, AnswersToActivated** - no reply to a diagnostic message without an
  activation, every answer directly after the acknowledgement of its request; and
  every answer goes to the address that was activated last, also after a second
  activation and whatever source the request names.
* **ClearedStaysCleared** - after the positive answer to a clear no report on the same
  connection shows a code, whatever its mask. The next process has the codes again.
* **OwnAnswer, Backlog, IdentificationSpec, Settles** - the relay passes on each
  announcement once and only when asked; until the first timeout everyone gets the
  answer to their own request, afterwards late requests and answers are never more
  than timeouts; and no datagram stays in the relay's sockets or is waited for
  for ever, whatever the ECU does, unless an exception ends the relay.
* **LockoutHolds, AttemptsMatchLockout, LockoutEnds** - no key is
  judged during a lockout although `submit_key` does not look at it; the attempts
  counter is full exactly while a lockout is set; and requests neither prolong a
  lockout nor end it early. **AccessSpec** - the dispatcher implements SecurityAccess.

The violation runs are described [below](#where-code-and-text-disagree).

## Bounds

* `MaxBatch` (frames in one read): 2, so that a frame can follow a request in
  the same read. A third frame meets the same states as the second.
* `Conn`: 3: one in execution, one queued, one doing anything else. Slots are
  reused after a close, so reconnects are covered.
* `Capacity`: 2, fewer than connections, so that a sender finds the channel full;
  the code has 32. With at least as many places as connections sending never
  waits (theorem ChannelLargeEnough).
* `Tester`: one address in Gateway, which compares none and
  computes with none; two in Exchange, where an address goes into the bytes.
* `MaxBytes` (bytes a tester sends): 10, five frames of the header only or two of the
  longest size; `Buffer` 4 is shorter than the longest frame (5), so such a frame
  never fits, like one of more than `MAX_PAYLOAD_SIZE`.
* `Thread` (cascades alive at once): 2; a third can be started in the code as
  well. The proofs cover any number. `LEDs`: 3, first, middle and last.
* `PowerLosses`: 2, one while resetting and one while recovering; in Ecu they end
  connections as well. `Conn` in Ecu: 3, so that a request waits while a reset is
  written for a second tester and a third one comes and goes.
* `MaxReplies`: 5 messages on a connection: activation, ack, answer "cleared", ack,
  report is the shortest sequence that could violate ClearedStaysCleared, and two
  requests are enough for every pair of neighbours in the stream.
  `Request`: each of the six branches of the services with its short, odd and
  regular form.
* `Datagram`: 6: three identification requests (one waited for, one late, one new),
  one of another type, one from 127.0.0.1, and the relay's own reply coming back.
  Each is sent once; sending it again would be another datagram. The number of
  timeouts needs no bound of its own.
* `S3` and `Lockout`: 2 and 4 units, in the order the code has them (5 s, 10 s),
  so the session can expire within a lockout. Two of `Levels` share a bit.

Safety properties with a theorem do not depend on these bounds.

## Fairness

* DoipGateway: `WF_vars(Main)`: the runtime schedules the main task, whose steps
  never wait for a tester: by RequestersWait the answer channel has room.
  `SF_vars(Enqueue(c))`: tokio's channel hands free places to waiters in order,
  so a sender that finds a place again and again gets one. Nothing is assumed of
  reads, writes and closes.
* DoipFraming: weak fairness of handling or dropping while bytes are left.
* SelfTest: weak fairness of each thread; the system schedules it.
  A thread that waits for nothing but time is covered by that.
* Ecu: weak fairness of `/init`, of the network bring-up, of a reset that is under
  way and of a write that has begun: process 1 keeps running. `SF` of serving each
  connection: the main loop takes requests in the order of the channel, so one that
  is repeatedly at its turn, with the image in its loop between refused resets, is
  taken. No request, no power loss and no interface need come.
* DoipRelay: `WF_vars(Relay)`: the script is scheduled and its two seconds pass.
  Nothing is assumed of the network or the ECU.
* Exchange states safety only.
* UdsDispatcher: weak fairness of `TimePasses`. `tick` need not be called.

Deadlock checking is off where the system may really stop: a dead process 1, a
closed connection, a listener that failed, a relay that an exception ended. It is
on for SelfTest, Dispatcher and Exchange, whose runs cannot get stuck.

## Proofs

All theorems are checked by `tlapm` to the last leaf. The assumptions are the
named ones on the constants in each module, and for ChannelLargeEnough that there
are finitely many connections, no more than places.

| Module | Theorems | Argument |
|---|---|---|
| DoipGatewayProofs | Invariance, TypeCorrect, RequestsAreAwaited (RequestersWait), NoneWaitsInVain (NoOrphan), ChannelLargeEnough, NoneOvertaken, GatewayImplementsService (ServiceSpec) | `IndInv` adds: a request in flight belongs to an activated connection, an answer is only in the slot of a connection that waits, nothing is current outside `serve`, and `pending` holds only between serving and checking. Without these a request might be answered twice, or run while a reset is due. ChannelLargeEnough counts: the queue has no duplicates and does not contain the sender. NoneOvertaken (`FirstComeFirstServed`) is the safety half of AcknowledgedIsAnswered: a request in the channel never loses its place. |
| DoipFramingProofs | Invariance, TypeCorrect, AlignedReadParsed (WholeFramesHandled), BytesHandledOnce (NoByteTwice), ParsingMovesOn, ParsingCanMove | `IndInv` adds that the sent frames follow each other without gap, that everything handled lies before the offset, and, while parsing an aligned read, that exactly the frames up to the offset are handled. The last two (`RoundsMoveOn`, `RoundPossible`) are the safety half of ParsingEnds: a round is always possible, and each one leaves the loop or moves a header or more through the bytes of the read. |
| SelfTestProofs | Invariance, TypeCorrect, RunningBacked, DarkAfterwards, HeldStaysLit | `IndInv` says for each lit LED who will still darken it (or that a reset cut a cascade), and for each held pin at which place its holder is. DarkWhenQuiet is not inductive: it says nothing while something runs. |
| EcuProofs, the boot chain | BootInvariance, BootTypeCorrect, AppRunsWithData (AppHasData), AppIsNotStartedAgain (NoWayBack) | `IndInv` of BootChain fixes which partitions are mounted at each step of `/init`, and that the page cache does not say `app_valid` when the card does not. |
| EcuProofs, the composition | EcuImplementsBoot, EcuTypeCorrect, EidIsMac (AnnouncesMac), ContactKept (BootAfterReset), DueResetsAreAsked, OnlyResetsLose (NothingElseLost), EcuImplementsService, EcuAppHasData, EcuNoWayBack | Every step of the composition is one of BootChain or a stutter, so AppHasData and NoWayBack carry over; and but for power losses every step is one of DiagnosticService or a stutter (`ServiceKept`). `EcuInd` adds: a set link needs the interface, an image in its loop with the link up has read the MAC or failed to, after an accepted reset `/init` finds both partitions mounted and the network up and therefore cannot get further than the mount of `/data` (`ResetInherits`), a connection is open only there, `by` is set exactly while the file is being written, and the service's flag `resetting` is set exactly while process 1 is about to reset (`ResetIsDue`). |
| DoipExchangeProofs | Invariance, TypeCorrect, RepliesInOrder (ReplyOrder), AnswersGoHome (AnswersToActivated), ClearedForGood (ClearedStaysCleared) | For connections of any length. `IndInv` adds that the state of a connection is the activation that came last in its history, that a request is served only for one, and that the list of codes is empty once a tester was told so; one lemma shows that a message written in order keeps all of it, and each service writes in order. |
| DoipDecodingProofs | MessagesRead, StreamDecodes (TesterReads), AnnouncementRead (AnnouncementReads) | See below. |
| DoipRelayProofs | Invariance, TypeCorrect, OwnAnswers (OwnAnswer), BacklogIsBounded (Backlog), RelayImplementsIdentification (IdentificationSpec) | `Places`: a datagram is in one place at a time, and what is under way has not been used. Backlog counts: a timeout adds its datagram to the late ones and to those given up, a late answer that is taken makes room for the request that was waited for. |
| UdsDispatcherProofs | Invariance, TypeCorrect, LockedOutAtMaximum, SeedsAreForLockedLevels, NoKeyDuringLockout, DispatcherImplementsAccess (AccessSpec) | `IndInv` adds that no seed is pending while a lockout is set; this is why `submit_key` need not look at it, and why a judged key is always one that SecurityAccess allows. |

Most conjuncts of each `IndInv` that say something on their own are also invariants of
the passing runs; the theorems prove the whole of it, HeldIsLit and PendingIsLocked
included.

**What a tester reads.** The argument of DoipDecodingProofs has four parts.

1. A number written big-endian is the number read (`ShortRead`, `LongRead`), so a
   header gives type and length back (`HeaderRead`).
2. Each encoder states the length of what follows, and what follows has its fields
   at the offsets a tester looks at. For every message the application can mean
   (`Shaped`: four reserved zeros, one code, no data, or any data) the bytes are one
   frame that reads as this message: MessagesRead.
3. `Decoded` is a recursive function over offsets. The library's induction theorems
   cannot be instantiated by the provers here, so both inductions are by a least
   counterexample: the natural numbers are well-founded, hence a nonempty set of
   them has a least element (`LeastNumber`). With it `Decoded` is defined for every
   stream, however short its last frame (`DecodedExists`), and if a stream can be
   cut at offsets between which its messages lie, it finds these
   (`WholeDecodes`).
4. The invariant is that the stream can be cut so: `Whole(stream, meant)`. It is
   inductive together with `IndInv`, as each step leaves the histories alone,
   empties them, or writes one message that can be meant (`StepWrites`); TesterReads
   itself is not, for it does not say that nothing is left over at the end.

AnnouncementRead follows the seven parts of the announcement through the
concatenations that build it.

Only model-checked:

* every liveness property (AcknowledgedIsAnswered, ResetHappens, RunningEnds,
  ParsingEnds, InitDecides, ResetReachesBoot, ResetKeepsContact, RequestsSettle, Settles,
  LockoutEnds): fairness and ENABLED are out of the prover's reach. What is
  proved towards them: NoneOvertaken, ParsingMovesOn, ParsingCanMove,
  DueResetsAreAsked, ContactKept, and the second half of LockoutHolds;
* all violations, which are single behaviours.

Every invariant and every safety property of a step that a passing run checks has a
theorem.

## Where code and text disagree

Each is a run with one property that TLC finds violated.

* **SelfTestTwice** (`OneCascade`): RUNNING is stored by the thread, not by Start,
  so a second Start before the thread runs is accepted and two cascades run.
* **SelfTestAbort** (`AbortStands`): a Stop after the last look at the status is
  answered with ABORTED and then overwritten with COMPLETED.
* **BootNetwork** (`BootloaderReachable`): neither `/init` nor the bootloader
  configures the network; a bootloader that the application did not run before, since
  power-on, listens without an address (README.md:46 has DoIP in both images).
* **FramingCut** (`NothingLost`): a frame that arrives in two reads is lost,
  although the log says that more data is awaited.
* **DispatcherSwitch** (`SwitchRelocks`): a switch between two sessions other than
  the default one leaves levels unlocked, against the comment.

Noted while modelling, without a run:

* "AFTER response is sent" (boot 347, app 600): sent means handed to the
  connection's task; 50 ms later the process is replaced, written or not.
* The acknowledgement goes to the source a request names, the answer to the
  activated address (`connection.rs:232`). Connection and answer match (ServiceSpec),
  and so do answer and activation (AnswersToActivated); ack and answer may differ.
* The write of `boot_state` is not synced: a power loss soon after an accepted
  reset brings the application back. ResetReachesBoot speaks of requests that
  reached the card for that reason.
* A hard reset of the bootloader, once its partitions are mounted, goes back to the
  bootloader whatever `boot_state` says: the second mount fails with EBUSY
  (README.md:36 has the file decide).
* A read of DID 0xF200 holds the pin of LED1 for a moment; a cascade that comes
  by skips it, and LED1 is dark in the 500 ms of "all LEDs on" (README.md:314).
* After a reset in the middle of a cascade LEDs stay lit in the bootloader.
* The announcement keeps the built-in VIN after a write of 0xF190.
* Clearing trouble codes ignores the group it is given.
* One answer that comes to the relay too late is passed on for the next request,
  and every later answer is shifted likewise, until a datagram is lost.
  The docstring (`doip-udp-relay.py:19-22`) describes one answer per request.
* `DoipHeader::is_valid` is called by nobody: version bytes are never checked.
* `process` touches the session before `tick` runs, so an expired session that
  was not ticked in time is revived by the next request.

## What is not modelled

* ace-server: not in the repository. DoipGateway models how the main loop calls it
  and DoipExchange what it may answer; sessions and security of the images are
  inside it.
* The transfer stubs of the bootloader append to a buffer nobody reads, and
  the constants behind 0xF100 and 0xF186 and the uptime are single values: a model
  would repeat the assignment.
* What the handler of a program that embeds the legacy dispatcher does to session
  and security: it is given both (`dispatcher.rs:99`), and is taken to leave them alone.
* The cast of a payload length to `u32` (`message.rs:120`): no answer comes near 4 GB.
* The panic of `1 << level` for levels from 8 on in a debug build.
* Process setup and logging: I/O without state.
* The mode without GPIO (its cascade only sleeps and stores the status), and
  `pulse_led`, which nothing calls.
* Build, flashing and emulation scripts. The one fact used: a card is built with
  `app_valid`.

External facts the models rest on: a pin is held by one owner (rppal); mounting
over a mount point of the same partition fails with EBUSY, an exec keeps mounts,
network settings and pin levels outlive the process, and a file is read through
the page cache (Linux); a UDP socket keeps what came late (Python, Linux); bounded channels are FIFO
and serve waiting senders in order (tokio).

## Plan

Done, in this order: DiagnosticService and DoipGateway, since every request passes
them; SelfTest, the densest concurrency; BootChain, crashes and restarts;
DoipFraming; UdsDispatcher; Ecu, which composes boot chain, network and service;
DoipMessages and DoipExchange; DoipRelay with Identification; SecurityAccess; and the
proofs of each.

Left, should the code or the need arise:

1. An abstract specification for SelfTest (what a tester sees of the routine, with
   the cascades hidden) and its refinement.
2. The transfer services of the bootloader, once they do more than fill a buffer.
3. Sessions of the images, once ace-server is part of the repository.

Running everything: `tlc -config <run>.cfg <module>` with the module `PROJECT.json`
names for the run, and `tlapm <module>Proofs.tla`. No run takes more than two minutes.
