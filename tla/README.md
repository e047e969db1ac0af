# Helionet: TLA+ specifications and proofs

Helionet carries IP packets over LoRa. A host program opens a TUN interface,
turns every packet into a frame and hands it to a board, which transmits it;
what a board receives goes the other way. The host talks to its board over USB
serial or over authenticated UDP.

Paths below are relative to the root of the repository
(`src/device/HelionetDevice.ts` is the serial driver, and so on).

## 1. The system

| Component | Code | State it keeps | Operations |
|---|---|---|---|
| Serial driver | `src/device/HelionetDevice.ts` | `mode`, `configWaiter`, `infoWaiter`, their buffers and timers, the `txLock` promise chain, `lastTxConfig`, the log/frame splitter | `open`, `close`, the `configure*`/`set*` calls (all through `sendConfig`), `info`, `sendRadioFrame`, `setDisplayText`, keepalive; events `data` and `close` of the port, timeouts, write callbacks |
| WiFi driver | `src/device/WiFiUdpDevice.ts` | the same without `info`, plus session, `outSeq`, replay window | the same over datagrams |
| UDP authentication | `src/frame/UdpAuth.ts`, firmware `main.cpp` | session and window of the peer | `wrapUdp`, `unwrapUdp`, `check` |
| Tunnel | `src/net/Ip2LoraTunnel.ts` | TUN interface, `rxBuffer`, nonce counter, replay windows, `running` | `start`, `stop`, `onTunPacket`, `onSerialBytes` |
| Frame and AEAD codecs | `src/frame/*.ts` | none (nonce counter, replay window) | encode, decode, encrypt, decrypt, `check` |
| Firmware | `firmware/helionet/src/main.cpp` | parser state, TX and RX settings, one or two radios, UDP session, secrets in NVS | `loop`: UDP, serial bytes, received packets; command handlers |
| Transforms | `src/compress`, `XorCipher.ts`, `Crc16Xmodem.ts` | none | pure |
| CLI, daemons, tools | `src/cli`, `examples`, `firmware/*/tools` | none | sequential calls |

How they interact. The tunnel calls `sendRadioFrame` without awaiting it and
gets `data` events. The driver writes commands (`config`, `info`, `send`,
`text`) and the board answers some of them in the same byte stream in which it
delivers received frames. Nothing in `CONFIG_OK` says which command it answers.
Over UDP each command and each answer is a datagram of its own that may be
lost, repeated or overtaken.

What is hard here, and what correctness means for each part:

* **Serial driver.** Calls overlap, time out, are retried and meet late
  answers. Correct means: the mode, the waiters and the timers agree at every
  moment; received frames survive the buffering that a configuration causes;
  a configuration takes effect on exactly the frames sent after it; every call
  ends.
* **UDP link.** Loss, duplication, reordering, restarts of either end, a
  counter that wraps. Correct means: nothing is handed over twice, nothing that
  is merely late is dropped.
* **AEAD frames.** The same with several senders, random counter offsets and
  damaged frames.
* **Tunnel.** A byte stream that lost a piece must be resynchronised by a loop
  that guesses where frames begin; start and stop may fail half-way. Correct
  means: a frame that came in one piece is delivered, once, unless the code has
  a stated reason not to, and how the stream is cut makes no difference.
* **Firmware.** Two byte sources feed one parser; one radio serves two sets of
  settings; interrupts set flags that the loop clears; secrets are written to
  flash one by one. Correct means: each direction works with its own settings, no
  packet is forgotten, the parser recovers from what it cannot read, and after
  a power loss the host still knows the secrets.
* **Payloads.** Four optional layers on either side, put on in one module and
  described by flags that another one writes. Correct means: what comes out is
  what went in, or nothing.

`PROJECT.json` lists the hazards line by line.

## 2. Modules

| Module | Models | Used by |
|---|---|---|
| `HelionetDevice` | the serial driver and the board's side of the serial protocol | `MCHelionetDevice`, `HelionetDeviceProofs` |
| `WiFiUdpDevice` | the WiFi driver, its sockets, the network and the board's end of the bridge | `MCWiFiUdpDevice`, `WiFiUdpDeviceProofs` |
| `ReplayWindow` | the 64-bit sliding window, once for its three occurrences | `UdpLink`, `AeadLink` |
| `OnceChannel` | abstract specification: a channel that hands no packet over twice until its receiver turns to another session or restarts | `UdpLink`, `AeadLink`, `Tunnel` (as `Channel`) |
| `UdpLink` | one direction of the UDP link | `UdpLinkProofs` |
| `AeadLink` | encrypted frames from several senders to one receiver | `MCAeadLink`, `AeadLinkProofs` |
| `Tunnel` | segments, the receive buffer and the loop of `onSerialBytes` | `MCTunnel`, `TunnelProofs` |
| `TunnelPayload` | ROHC, zlib, XOR, AEAD and CRC around a packet, at both ends | `Parts` |
| `BoardRadio` | settings, chips, interrupt flags and `loop()` of the firmware, duplex and single-radio builds | `Parts` (twice) |
| `FirmwareParser` | `feedParser` fed byte by byte from USB and UDP | `Parts` |
| `BoardSecrets` | keys and credentials in flash and in use, across power losses | `Parts` |
| `LogSplitter` | `FrameLogSplitter` and the configuration buffer in front of it | `Parts` |
| `ConfigBodies` | the bodies of the commands as the driver builds and the firmware reads them | `Parts` |
| `Parts` | the six modules above, side by side | `MCParts`, `PartsProofs` |
| `SequenceFacts`, `ReplayWindowProofs`, `HelionetDeviceProofs`, `WiFiUdpDeviceProofs`, `UdpLinkProofs`, `AeadLinkProofs`, `TunnelProofs`, `PartsProofs` | lemmas, theorems, proofs | |
| `MCHelionetDevice`, `MCWiFiUdpDevice`, `MCAeadLink`, `MCTunnel`, `MCParts` | model values, inputs, symmetry, views, for TLC | |

### HelionetDevice

One variable per field of the class, one action per call, continuation and
event; section headings and the comment above each action name the code.

* *Scheduling.* JavaScript runs to completion. A macrotask (timer, port event,
  write callback) has the guard `Quiet`: no promise continuation is runnable.
  The continuation of `await this.txLock` (`SendConfigOnce`, `SendInfo`) and
  the next link of the chain (`TxWrite`) are actions. The application may call
  at any moment; with `Sequential` it awaits each configuration before the next
  one, as the CLI and the daemons do.
* *Calls.* Each call is a constant: `ConfigCalls` go through `sendConfig`,
  `TxConfigs` among them are `configureTx`, `InfoCalls` are `info`. `pc` and
  `tries` say how far each one is.
* *Waiters.* `configWaiter` names the call whose closure is installed. A timer
  or a failed write (`Timeout`, `WriteFailed`) rejects the waiter installed at
  that moment, not the one it was created for, exactly as
  `this.configWaiter?.reject` does.
* *txLock.* A chain is a queue; call `c` that awaited it passes once the
  `lockOn[c]` frames enqueued before it are finished.
* *Data.* A message is `<<"ok", call>>`, `<<"info", call>>`, `<<"bad", call>>`
  (INFO with broken JSON) or `<<"frame", n>>`. A chunk is up to `MaxChunk`
  whole messages. `fed` is everything handed to the splitter, in order. How
  the splitter cuts bytes into log lines and frames is `LogSplitter`'s part;
  what the firmware makes of the bytes of a command is `FirmwareParser`'s.
* *Board.* Handles commands in order, with any delay; applies a configuration
  before it answers. `BoardReset`, `LoseCommand`, `LoseReply`, failing writes
  and broken JSON count against `MaxFaults`.

### ReplayWindow, UdpLink, AeadLink

`ReplayWindow` has the bitmap as the set of its one-bits. `Reflects(w, A)` says
what a window should mean: its highest number is the maximum of the accepted
numbers `A`, and bit `i` is set exactly if `highest - i` is in `A`.

`UdpLink` keeps every packet ever sent in `sent`. A packet may arrive at any
time, repeatedly or never: that is loss, duplication and reordering in one.
`SenderStarts` gives a new session; `ReceiverStarts` forgets everything. Host
and board implement both roles in the same way (`Seq32ReplayWindow`,
`udpReplayAccept`), so one direction stands for both. In the code sessions are
32 random bits; here they never collide.

`AeadLink` does the same for tunnel frames. The differences are those of the
code: counters start at a random offset (any member of `Offsets`), nothing
resets the window but a restart, the window is shared by all senders, and it
advances before the tag is verified, so that damaged frames move it.

Both links have the abstract specification `OnceChannel` as a property, under
the refinement mapping `handed <- accepted` and `handed <- delivered`. `Tunnel`
has no sessions and implements the stricter `OneSession` of the same module.

### Tunnel

Byte `k` of the `n`-th frame is the pair `<<n, k>>`; what it contains is only
what `decodeFrame` would read there, its *claim*: a length (0 for an invalid size field)
and an address. The first byte of a frame claims its true length and address,
because `encodeFrame` wrote them and no segment is so short that it ends inside
a header. Every other byte claims whatever `Shapes` says: payloads that look
like headers are the interesting inputs. A byte is heard at most once (that is
an invariant, `OnceOnly` in `TunnelProofs`), so that a fixed claim loses nothing even where the bytes that
follow it differ. `WholeAt` is what the checksum decides.

* *Sending.* `OnTunPacket` cuts a frame into segments of `SegmentSize`. All go
  into `air`, from which they arrive in any order or never.
* *Receiving.* `wire` is the stream from the board to the host;
  `OnSerialBytes(k)` takes any `k` bytes of it as a chunk and enters the loop. Each
  outcome of one iteration is an action: `Break`, `InvalidSize`,
  `AddrMismatch`, `CrcMismatch`, `Deliver`. `onSerialBytes` has no `await`, so
  all others have the guard `~looping`.
* *Life cycle.* `Stop` removes the listeners, so that what is on the wire is
  lost; `rxBuffer` stays, as in the code. That `start` may fail half-way is not
  modelled.
* *History.* `heard` is every byte received, `skipped` the bytes passed over
  with a frame for someone else.

`WholeFramesGetThrough` says when a frame that came in one piece may be missing:
only if its header was passed over as part of what a header read in the wrong place claimed
for another address (line 243), or while a header before it claims more
bytes than have come (line 235). Both happen in the instances below, and the property
fails without either. `AlignedLosesNothing` says that neither happens as long
as the stream is one whole frame after the other, whatever the payloads contain.
The AEAD path, where the window decides as well, is `AeadLink`.

### WiFiUdpDevice

The driver over WiFi has the same calls, retries and timers as the serial one,
and they have the same names here; `info` and the keepalive do not exist. What
differs:

* *Sockets.* Each `open` makes a socket of its own and changes the mode only
  when `bind` calls back (`Bound`), so that a second `open` meanwhile gets
  through. `close` lets go of the socket at once; `Closed` is the event that
  follows.
* *Datagrams.* `toBoard` and `toHost` are sets from which anything may be
  taken in any order or never. That a datagram is accepted once only is
  `UdpLink`'s property.
* *Buffering.* While a configuration is pending, received datagrams go to
  `configBuffer` until one reads `CONFIG_OK` (`Buffer`, `ConfigOk`); otherwise
  they are emitted (`Emit`), a stray `CONFIG_OK` included.
* *Board.* `PumpBridge` handles a datagram and takes its source as the address
  to reply to; `UsbConfig` is a configuration given over USB, which the driver
  does not see.

### BoardRadio

Settings are a frequency in kHz, a modulation (bandwidth, spreading factor,
coding rate, preamble and CRC, which the code stores and applies alike) and a
power. `tx` and `rx` are what the firmware stores, `chip` what each chip has: a
setter named in `Refusable` may fail and leave the old value. `ConfigTx`,
`ConfigRx`, `RetuneTx` and `Send` are the commands; a transmission is a state
of `pc`, because interrupts fall into it. `PacketHeard` is the interrupt; it
may come in any state. `TakeFlag`, `ReadPacket`, `Rearm` and `EndLoop` are the
stages of the loop, so that a packet may come between the test of the flag and
its reset, and between reading and re-arming. `Duplex` chooses the build.

### FirmwareParser, LogSplitter, ConfigBodies

These are the byte level of the serial protocol, in both directions.
`FirmwareParser` has one action per byte; each source is in the middle of at
most one command, bytes of a datagram follow each other, bytes from USB may be
lost or interrupted by a datagram. The ghost variable `upset` says what has happened
since the parser was last idle at the start of a command. `LogSplitter` feeds
the splitter symbol by symbol; frames may contain line ends and hashes, the board may reset
in the middle of an item, and a pending configuration diverts what comes into
its buffer, which a timeout throws away. `ConfigBodies` lays out the bodies as
the driver does and reads them as the handlers do, offset by offset; `reach` is
the last byte a handler looked at.

### BoardSecrets

`nvs` is flash, `ram` what the board runs with. `Boot` and `Command` leave a
list of writes, which `Put` makes one by one, and `PowerLoss` may come between
any two. `told` is what the host can know of each value: what was printed or
acknowledged, and what it has sent since.

### TunnelPayload

A payload is the sequence of the layers around a packet. `WirePayload` puts them on in the
order of `onTunPacket`, `Opened`, `Deciphered`, `Inflated` and `Recovered` take
them off in the order of `recoverClearPayload`, each as the header's flags and
the receiver's own options say. Options of the two ends are independent of each
other, and payload, flags or CRC may be damaged on the way. XOR undoes itself
and accepts anything; zlib and AEAD refuse what they did not make; ROHC may
throw or return something else.

### Parts

`BoardRadio` (both builds), `FirmwareParser`, `BoardSecrets`, `LogSplitter`,
`ConfigBodies` and `TunnelPayload` share no variable: in the code they meet in
whole commands and frames only, which is how `HelionetDevice`, `WiFiUdpDevice`
and `Tunnel` see them. `Parts` chooses one of them at the start and runs it
while the others stand still, so that one run of TLC checks them all without
multiplying their states. It extends `BoardRadio` for the duplex build and
takes the others as instances, declares their constants with what is assumed of
them, and states their properties under one name each. `MCParts` adds the
bodies and texts that are sent, and a view.

## 3. Runs

All bounds are constants of the modules whose comments start with "bound:".

| Run | Question | Instance |
|---|---|---|
| `device_sequential` | Does a healthy line lose or misconfigure frames, and does every call end? | one `configureTx`, one `info`, keepalive, one frame each way, two attempts, one fault, one close; fairness below |
| `device_overlap` | Do overlapping calls and a reopened port leave the driver consistent? | two configurations and one `info` at once, the port closes once, two received frames |
| `device_late_ok` | Is a configuration applied when its call resolves? **Violated** | two configurations after each other |
| `device_wedged` | Is a driver that reports "already open" open? **Violated** | one configuration, one close |
| `udp_link` | What does the UDP link promise? | window of 3, numbers mod 5, 6 packets, a restart of each end |
| `udp_restart` | Is each number of a session accepted at most once? **Violated** | a window of 3, one restart |
| `aead_link` | What does the tunnel's window promise? | two senders, window of 3, counters mod 8 starting at 0, 2 or 6, three frames, one restart, one damaged frame |
| `aead_two_senders` | Are only duplicates and old frames of *their* sender rejected? **Violated** | two senders, no faults |
| `tunnel` | What does the receive loop deliver, once each, and do the cuts matter? | segments of 2, three frames of 2 or 3 bytes, one stop |
| `wifi_sequential` | Does a configuration over WiFi lose frames, does a resolved one apply, does every call end? | one `configureTx`, one frame to send, two received, two attempts, one fault; fairness below |
| `wifi_overlap` | Do overlapping calls and a second socket leave the driver consistent? | two configurations, two sockets, one received frame |
| `parts` | What do radios, parser, flash, splitter, bodies and payload layers promise? | below |

Why the bounds are enough. Two attempts give a first timeout with a retry and a
last one without; two calls give each kind of overlap; chunks of two messages
give an answer with something before and something after it. `InfoFlush = 1`
makes the flush of the info buffer happen with two messages. Two received
frames over WiFi give one before and one after the answer, in either order. In
the links, six packets are more than the modulus and twice the window, so that
shifting out, late arrival inside and outside the window and wrapping all
occur; `aead_link` starts counters two below the modulus and inside the window
of one another.

In `tunnel`, a frame of three bytes has two segments, so that one can be
missing and another frame's can follow it; the payloads claim an invalid size,
the shortest frame for someone else, or one for the tunnel that is longer than
a whole frame, so that each outcome of an iteration occurs inside a payload and
both exceptions of `WholeFramesGetThrough` happen. Three frames let a frame
follow the one that lost a segment and another one end the wait; one stop
leaves part of a frame in the buffer. `ChunksDoNotMatter` compares with
`Decoded`, the loop written as a recursive function of everything heard (a
function, not a RECURSIVE operator, so that section 4 can speak of it).

In `parts`:

* *radios:* frequencies 0, 1, 9 and 10 kHz apart, on both sides of the two
  thresholds of the code (more than 1 kHz, less than 10 kHz), two modulations and two
  powers; in the single-radio build setters of modulation and power may fail.
* *parser:* bytes of four values and a buffer of two, so that lengths take both
  length bytes and bodies of every size around the buffer's occur, the ones that contain
  the codes of commands among them; two sources.
* *flash:* nine values, enough for two boots with a command between them.
* *splitter:* three items (log lines, frames of up to two bytes that may be line ends or hashes, noise),
  two attempts to configure, one reset.
* *bodies:* texts of up to three bytes, one more than a credential may have and
  as many as a length byte can announce, and every body of up to six bytes, for the
  handlers' checks; all radio configurations with two channels, powers and
  preambles.
* *payload:* all options of both ends with two keys, and one damage.

The proofs below do not depend on any of these values.

`device_overlap`, the two violated `device_*` runs, `wifi_overlap` and `parts`
use a view (`DeviceView`, `WiFiView`, `PartsView`), which leaves out of a state
what no action reads and no property of the run distinguishes; `device_overlap`
and `wifi_overlap` use symmetry of the configuration calls and `aead_link` that
of the senders. Runs that check liveness use neither. `CHECK_DEADLOCK FALSE`
everywhere: once the bounds are used up the system may stop.

The type invariants of `WiFiUdpDevice` and `BoardRadio`, and `TransmitsWithTx` and
`SendsKeepPackets` of the duplex build, are proved (section 4) and not repeated in
the runs; several short statements about one part are checked as one property
there (`SingleChipRetunes`, `CommandsFit`, `RunsAsTold`, `BodiesAreRead`).

Each property of a passing run has a mutant, a plausible bug in a mapped
definition, that TLC refutes.

### What the violated properties show

* `OkMeansApplied`: attempt 1 times out (1.5 s) while the board is busy;
  its `CONFIG_OK` arrives later and resolves the next call. The README of the
  firmware documents `CONFIG_OK` as the sign of a successful configuration.
  `FirstTryOkMeansApplied` is what does hold: without timeouts it means what it
  says.
* `AlreadyOpenMeansOpen`: the port closes during a configuration, the timeout
  rejects the waiter, `reject` sets the mode to `normal`. From then on `open()`
  says "already open". The WiFi driver has the same lines (265, 83).
* `AcceptsEachSeqOnce`: a packet of the previous session that arrives after the
  peer's restart resets the window to that session and is accepted again.
* `RejectsOnlyPerPeer`: the second sender's frames are dropped as replays
  because the window is keyed by the receiver's own address.

### What the models show besides

No run is made for these; the properties of the passing runs name them as
exceptions, or are stated for the other build.

* A `CONFIG_OK` that comes when no configuration is pending is emitted as a
  radio frame by the WiFi driver (line 314), though the comment there says it
  is "handled upstream".
* A second WiFi configuration started while one is pending drops the frames the
  first one has buffered (line 257).
* The board's reply address follows every accepted datagram
  (`main.cpp:1050`): one of an earlier socket that comes late turns it back.
* With one radio, `RC` applies its modulation and the initial power to the chip
  that transmits (`main.cpp:574`), and `TC` leaves it listening on the transmit
  frequency (`main.cpp:563`).
* `CONFIG_OK` is answered although setters or handlers refused (`main.cpp:343`,
  `main.cpp:590`).
* The body of a command that is too long for the buffer is parsed as commands
  (`main.cpp:660`); `setWifi` can build such bodies.
* A datagram between two bytes of a command on USB becomes part of it
  (`main.cpp:1053`).
* After a board reset or a repeated attempt in the middle of a frame, the
  splitter takes what follows for the rest of that frame.
* With `useRohc` and without AEAD no frame passes the CRC: the sender computes
  it of the compressed packet (`Ip2LoraTunnel.ts:173`), the receiver of the
  decompressed one (line 258).
* Power lost between the writes of user name and password leaves a pair that
  was never set (`main.cpp:936`).

### Fairness

`device_sequential` and `wifi_sequential` assume `FairSpec`, weak fairness of what the
JavaScript runtime guarantees: promise continuations run (`SendConfigOnce`,
`SendInfo`, `TxWrite`, `TxSend`), timers fire (`Timeout`, `AirtimeOver`), a
write on an open port or socket is called back (`TxWritten`, `TxSent`,
`WriteFailed`), and the `close` event of a socket comes (`Closed`). Nothing is
assumed of the board or the network: answers may never come. The one exception
`Settles` makes, `txState = "lost"`, is a write made on or overtaken by a
closed port or socket, which the library need not call back; then everything
behind it on `txLock` waits.

## 4. Proofs

The theorems, checked by TLAPS, hold for all values of the constants under
named assumptions. Of the bounds they say only that they are natural numbers
(`BoundsAssumption`, `WiFiAssumption`, `WidthAssumption`, `LinkAssumption`,
`AeadAssumption`, `TunnelAssumption`, `RadioAssumption`, `SplitterAssumption`):
finiteness is never needed. The rest says what the code makes sure of by its
types: calls of different kinds are different (`CallsAssumption`), codes, bodies
and texts are made of bytes and a length fits into the bytes it is sent in
(`ParserAssumption`, `ConfigAssumption`). TLC evaluates all of them.

* `HelionetDeviceProofs`, for any overlap of calls: `TypeCorrect`,
  `WaiterIsThere`, `WaiterIsTimed`. The inductive invariant is
  `TypeOK /\ WaiterMatchesMode /\ WaiterHasTimer`. None of the three is
  inductive alone: that the mode `configuring` has a waiter survives a timeout
  only because the timeout clears both together, and that the waiter has a timer
  survives a stale timer only because `tries` tells the attempts apart, which
  needs its type. `InOrderDelivered` adds `InOrder`: the numbers of the frames
  grow from what the splitter was fed through the buffer of the current mode to
  the port. Buffers of other modes do not count, because nothing reads
  them before they are emptied.
* For an application that awaits each call (`Sequential`, as the CLI and the
  daemons do) and a history without loss, `NoneLost`, `FirstTryApplies` and
  `FramesKeepTheirConfig`. The hypothesis is needed: a second configuration
  empties the buffer of the first, and its `CONFIG_OK` may be the first one's.
  `Turns` says that at most one call is pending, and that it is the one whose
  waiter is installed. While the history is smooth (`SmoothInv`), every received
  frame is at the splitter, in the buffer of the mode or in the port (`Kept`);
  the configuration that waits is either on its way or answered and not both,
  and the board is ahead of the driver exactly as long as the answer is unread
  (`Exchange`); and a frame is meant for the settings of the side it
  is on, with no configuration before it: on the way to the board for the
  board's (`FramesAhead`), on `txLock` for the driver's (`FramesQueued`).
* What the last paragraph excludes, both drivers answer for in detail.
  `LossesHaveReasons` says of every step, for any overlap of calls, that a frame
  is no longer held by the port, the splitter or the buffer of the mode only if
  it was in the port when that closed or the line lost a message, or in the
  buffer when the port closed, an attempt failed or a call took the buffer of a
  waiting one over. `AwaitedLossesHaveReasons` says that with `Sequential` no
  call takes over and only the attempt whose answer the buffer waits for empties
  it by failing. The invariant they need besides is `Waiting`: the waiter's call
  waits, and a closed port leaves nothing buffered; `InOrder` shows that nothing
  is lost between splitter, buffer and port. The same two theorems hold of
  `WiFiUdpDevice`, where a second `open` that completes is another reason;
  they exclude it, if calls of `open` do not overlap, by `NothingYet`: while a
  socket is being bound, a call that waits has received nothing.
* `WiFiUdpDeviceProofs`: `TypeCorrect` and `WaiterCorrect`, by the first
  argument above. `OnlyCurrentListens` adds `OneSocket`: at most one socket is being bound or
  bound, it is `this.socket`, and the mode is open while it is. It assumes that
  calls of `open` do not overlap; with two at once the first socket is left
  behind, listening. `EmittedOnce` adds `Once`, three statements: the numbers of
  commands on their way to the board are those of attempts made
  (`CommandsNumbered`); every datagram anywhere was made by the board
  (`AllKnown`); and no datagram is in two of the places on its way, network,
  buffer and emitted, nor twice in one (`InOnePlace`). When calls are awaited
  and no attempt has failed, `FramesSurvive` rests on `Survives`: a buffer that
  is not empty belongs to a call that waits, and continues what was
  emitted. `ResolvedApplies` rests on `Exchange`, which over datagrams
  is that at most one command or answer is on its way, wherever the board
  believes the host to be.
* `PartsProofs`, seven parts. `PartsRun` says that in a behaviour of
  `PartsSpec` every part takes steps of its own specification or none, so that
  each proof is about its part alone.
  * *Radios.* `TypeCorrect` and `NoPacketIsForgotten`, for both builds and any
    refusals. For the duplex build, if no setter refuses,
    `DuplexTransmitsWithTx`, `DuplexListens` and `NoEcho`; the latter two rest
    on `DuplexListening`, which relates the receiver's mode, what its FIFO may
    hold and the two frequencies. `DuplexSendsKeepPackets` is about a step.
    `SingleRetunes` is the property of the other builds and needs that the
    frequency can be set; its invariant is `SingleTuned`: the chip has one of
    the two frequencies, and which one follows from the last command and
    from `pc`.
  * *Parser.* `ParserFits` and `ParserInventsNothing`. The invariant says where
    the parser is: in a command that nothing came between, at that command's next
    byte (`Intact`, `InPlace`); when nothing is upset, idle or in such a command
    (`Clean`).
  * *Flash.* `FlashIsExpected` and `BoardRunsAsTold`. While the board boots, what
    is not yet written back is what it has drawn and nobody was told otherwise
    (`Booting`); during a command only the fields it touches differ, and the
    value they are getting is one the host has sent (`Saving`).
  * *Splitter.* `AlignedFramesComeOut` and `NothingElseComesOut`. The
    invariant speaks of everything the board has written so far (`c`, bound by a
    quantifier, since the model does not keep it): each symbol anywhere is one of
    `c` (`AllFit`), and the splitter has followed the current item to the symbol
    fed last (`InStep`).
  * *Bodies.* `HandlersRead`, from `FieldReads`: a handler that finds
    a field at the offset where the driver put it reads it, and moves
    to the next one.
  * *Payload.* `PayloadIsSentOrDropped` and `AgreeingTunnelsDeliver`. A frame on
    its way is the one that was sent, or that one with one damage
    (`PayloadInv`); the lemmas follow the layers inwards and show which frames
    each of them lets pass.
* `ReplayWindowProofs`: for every width, `AcceptsOnlyNew`, `DropsOnlyOld` and
  `AfterReflects`, about one check of a window that `Reflects` its history.
* `UdpLinkProofs`: `LinkInv == TypeOK /\ WindowIsHistory` is inductive by those
  three; `WindowCorrect` and `DropsJustified` follow. `ImplementsChannel` is
  the refinement: every step is a step of `OnceChannel` or a stutter. The
  interesting case is a packet accepted within a session, which is not among
  those handed over because its number is not among the accepted numbers.
* `AeadLinkProofs`: the same argument for the tunnel; since `checked` includes
  damaged frames, the invariant also says that all that was delivered passed
  the check. `AloneIsServed` shows what a single sender may rely on.
* `TunnelProofs`: the invariant is `TypeOK /\ OnceOnly /\ LoopInv`. `OnceOnly`
  says that no byte is twice in the air, on the wire or heard. `LoopInv` has
  five parts: the buffer is the end of what was heard (`Placed`); each header
  for this tunnel that the loop has passed was delivered, skipped or torn
  (`Passed`); between two chunks the first header waits for more (`Waits`); in an
  aligned stream the loop stands at the end of a frame (`InStep`); what was
  delivered has been passed (`Handed`). `Passed` and `Waits` give
  `WholeFramesServed`; `InStep` is what makes the loop read true headers only,
  and with it `AlignedServed`; `Handed` and `OnceOnly` show for
  `ImplementsChannel` that a frame just found was not delivered before. An
  aligned stream stays aligned backwards: if it is aligned after a chunk it was
  before, which is why `InStep` survives a chunk.
* `ChunksMakeNoDifference`, also in `TunnelProofs`, is about what the recursive
  function `Decoded` returns. Induction over data is out of the prover's
  reach, and is avoided twice. That `Decoded` satisfies its own equation
  (`DecodedUnfolds`) is shown from the equations of a longer and a longer stretch
  of it: `LeastNumber` gives the first stretch for which there would be no
  such function, and the one before it can be extended. That the loop
  follows `Decoded` is an invariant of the behaviour, not an induction over the
  stream: `Explained` says that, whatever bytes follow those heard, the
  frames delivered so far and those `Decoded` finds from the loop's position on
  are together what `Decoded` finds from the beginning. One iteration is one
  unfolding (`StepForward`), and a chunk only turns some of the bytes that might
  follow into bytes heard.
* `SequenceFacts`: the members of a sequence after `Append`, the parts of a
  concatenation.

Every safety property and every action property that a passing run checks has
its theorem. Liveness under fairness is beyond the prover: `Settles`, of both drivers,
stays with TLC.

## 5. Not modelled

* Cryptography, zlib and CRC are taken as working, and sessions and nonces as
  not colliding beyond what the models say. That ROHC keeps a context from packet
  to packet is the library's.
* The airtime formula is floating-point arithmetic; the models have a delay
  that passes.
* The tunnel's `start()` that fails half-way or is called twice. It awaits
  three calls of the device before it sets `running`: when the second or third
  fails the device stays open, `stop()` does nothing, and the next `start()` is
  refused by the device.
* A radio frame whose bytes contain the text `CONFIG_OK`, for which the serial
  driver searches everything it buffers.
* `CONFIG_OK` as the answer to a body that the handlers of `WC`, `AK` and `HA`
  refuse, as the drivers see it: no application of the repository sends one.
* Writes to flash that fail: `putString` returns a count that the firmware does
  not look at.
* A listener that calls the driver synchronously from one of its events.
* The web page, the display, the heartbeat and logging are output only; the CLI, the daemons and the scripts
  call the modelled components one after the other. `MockLoopbackDevice` is a
  test double. Flashing and reverse-engineering tools are not part of the
  system.

## 6. Plan

The tunnel's life cycle with failures between the steps of `start`, composed
with the drivers' `open` and `close`.
