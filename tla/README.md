# A TLA+ model of crazyflie-link-rs

This directory specifies the link library and its Python binding: what a
connection to a Crazyflie promises, how the radio and the USB connection keep
the promise, how the context shares dongles and buses between them, and what
they rely on. The modules are checked with TLC on small instances; the
theorems in the `_proofs` modules are proved with TLAPS for every value of the
constants.

## 1. The system

| Part | Source | State it keeps | Operations |
|---|---|---|---|
| Link context | `context.rs` | a table of weak references to shared radios, under a mutex | `get_radio`, `scan`, `scan_selected`, `open_link`, `platform_command` |
| Radio connection | `crazyradio_connection.rs` | status, disconnect flag, four channels; the task's counters, timer and packet | `open`, `close`, `wait_close`, `wait_disconnect`, `send_packet`, `recv_packet`, drop; handshake and communication loop |
| URIs | `crazyradio_connection.rs`, `crazyflie_usb_connection.rs` | none | `parse_uri`, what `scan` and `scan_selected` write |
| Link statistics | `crazyradio_connection.rs` | counts of a window, a snapshot | `record_*`, `maybe_update_snapshot`, `link_statistics` |
| USB connection | `crazyflie_usb_connection.rs` | status, disconnect flag, four channels; the mode of the device | as the radio connection, with a search for the device, a reader and a writer thread |
| Connection interface | `connection.rs` | none | forwards to one of the two |
| Packets | `packet.rs` | header and data | conversions |
| Packet capture | `capture.rs` | one socket under a mutex | `init`, `send_packet` |
| Python binding | `python-binding/src/lib.rs` | a connection behind an `RwLock` | `open_link`, scans, `send_packet`, `receive_packet`, `close` |
| Errors, crate root, examples | `error.rs`, `lib.rs`, `examples/` | none | none of the library's own |

How they interact. `open_link` tries the radio, then USB. Opening a radio
connection gets a shared radio from the context, spawns a task and waits on a
oneshot channel until the task has shaken hands. From then on the object and
the task share a status (behind a mutex), an atomic flag (`disconnect`), an
uplink and a downlink channel, and a disconnect channel that carries nothing:
the task owns its only sender, so that dropping it wakes everybody who waits.
A USB connection searches the bus, claiming and releasing devices on its way,
and is then built the same way; but its task is a blocking one that spawns and
joins two threads, and it does send one `()` on the disconnect channel before
it switches the device back. Platform commands and scans use the radio of a
running link between two of its packets. All links write to one capture
socket. Python threads share one connection under the interpreter lock.

What is hard here: the task can end in six ways (asked to, timeout, radio
error, object dropped, error in the handshake, panic because `open()` was
cancelled) and several callers may be waiting on it, each of whom may drop its
call; acknowledgements are lost, late and repeated, and one bit per direction
must make up for it; two threads must not outlive each other; a zero-capacity
channel blocks; a radio is opened while the last user of the old handle lets
go of it, and a dongle is pulled out with the handle still shared; sessions on
the same bus get in each other's way; the window of the statistics ends
between the locks of one transaction; the interpreter lock, an `RwLock` and
the runtime are taken in turns. The list, with the line where each bites and
the property that watches it, is `hazards` in `PROJECT.json`.

What makes the parts correct:

- a connection has one true and final reason, stored before anybody is
  answered; `close()` returns, and when it has, the connection is silent;
  silence ends a connection; a device error is not reported as a wanted close;
- with safelink each direction is a reliable stream, and `platform_command()`
  lets no packet of a user's data through beside it;
- a radio is opened once, used only while it is open, and closed when nobody
  uses it;
- one session talks to a Crazyflie on USB; none leaves a claim behind, nor USB
  mode, but for the two cases named under `UsbBus`; a Crazyflie that is there
  is found;
- each transaction is counted whole and once;
- a URI that a scan returned opens what answered; a packet reaches the port it
  is for, and what comes back carries none of safelink's bits;
- frames of a capture do not mix; capturing does not stop a link;
- Python calls return, and `close()` has the connection to itself.

## 2. The modules

| Module | What it is |
|---|---|
| `LinkLifecycle` | abstract: a status that ends in one final reason, and callers answered only then |
| `ReliableStream` | abstract: packets handed over once each, in order |
| `RadioConnection` | the life of a radio connection: task, `open()`, object, callers |
| `RadioLink` | extends `RadioConnection` with the packets, the radio and the Crazyflie |
| `RadioPlatform` | extends `RadioLink` with the platform commands of `context.rs` |
| `LinkStats` | the statistics and the places where the loop calls them |
| `UsbConnection` | the life of a USB connection: task, two threads, `open()`, object, callers, uplink |
| `UsbBus` | several USB sessions on one bus: search, claims, modes |
| `LinkUri` | the URIs as operators: both `parse_uri`, what the scans write |
| `UriRoundTrip` | extends `LinkUri`: a URI from a user or a scan, back through `scan_selected` |
| `LinkContext` | extends `LinkUri`: tasks that call the context, its table, the dongles |
| `CrtpPacket` | a packet from `Packet::new` or an acknowledgement to the air or the user |
| `Capture` | threads that capture, the socket and its reader |
| `PythonBinding` | Python threads, the interpreter lock, the `RwLock`, the connection |
| `MCRadioPlatform`, `MCLinkContext`, `MCLinkStats`, `MCUsbBus` | values of constants for TLC, and the symmetry of the sessions |
| `MCFormats` | `UriRoundTrip` and `CrtpPacket` side by side, with their inputs |
| `Radio_proofs` | theorems about `RadioConnection`, `RadioLink` and `RadioPlatform` |
| `Formats_proofs` | theorems about `UriRoundTrip` and `CrtpPacket` |
| the other `*_proofs` | theorems about `UsbConnection`, `UsbBus`, `LinkContext`, `LinkStats`, `PythonBinding`, `Capture` |

`RadioConnection` and `UsbConnection` each implement `LinkLifecycle`
(`LifecycleKept`). `RadioLink` implements `ReliableStream` twice
(`UplinkReliable`, `DownlinkReliable`) and `UsbConnection` once
(`WrittenInOrder`). Every behaviour of `RadioLink` is one
of `RadioConnection` (theorem `LinkIsConnection`), and so is every behaviour of
`RadioPlatform` (`PlatformIsConnection`). The other modules meet at
places that are named in them: a share of a radio in `LinkContext` is what a
`RadioConnection` runs on, a `run` of `UsbBus` is the inside of a
`UsbConnection`, a transaction of `LinkStats` one of `RadioLink`, the `link` of
`PythonBinding` either connection.

A definition whose comment says "Faulty form" is not part of the model. It is
a way the next definition could have been got wrong, and the property that
must notice it is in `mutants` of `PROJECT.json`.

### RadioConnection

`task` is the program counter of the spawned block: `enable` (in
`enable_safelink`), `connect`, `notify`, then the loop `top` → `air` →
`check`, then `failed` (run() returned an error, no reason stored),
`returned`, `releasing` (the disconnect channel is gone) and `stopped`. One
action is the code between two points where another task may act: a lock, an
await, a channel operation, an atomic load. `quiet` is
`last_pk_time.elapsed()` in ticks, saturating at the timeout. `initialized` is
the oneshot, `opener` the future of `open()`, which may be cancelled at any
time. `handle` is the object; Rust does not let it be dropped while a call
borrows it, hence the guard of `BeginDrop`. Its `Drop` sets the flag first and
its fields go later (`FinishDrop`), which is when the downlink channel loses
its receiver. `wait_disconnect()` is `wait_close()` without the last step.

The panic of the task (`NotifyOpener` when `open()` is gone) drops everything
at once. `open()` itself panics on a dropped oneshot (`OpenPanics`).

Radio transactions are left open: acknowledged with or without a payload for
the user, lost, or failed. `MaxTries` stands for the ten tries of the
handshake; nothing depends on the number.

### RadioLink

Each action of the task is the one of `RadioConnection` in conjunction with
what happens to the packets. A packet is a record of its kind (what its header
says), a number (the how-manieth data packet of its direction; 0 for others)
and the two bits safelink uses. `Packet::new` leaves the bits at 0 and the
keepalive `[0xff]` has both set, which matters when safelink is off and the
Crazyflie is still in safelink from an earlier connection.

The radio and the Crazyflie are external, and stated as what the task relies
on: the Crazyflie echoes the enable packet and starts its counters at 1, takes
a packet whose up bit it has not just seen, and goes on to the next payload
when the down bit shows that the last one was accepted. One transaction may
reach the Crazyflie any number of times (the dongle retransmits), its
acknowledgement may be lost, and the payload may be the one loaded before the
packet came (`ack' \in {cfLast, cfLast'}`). The initial states hold whatever
mode, counters and payload an earlier connection may have left.

`downlink` records the data packets put into the downlink channel; payloads
that are not data (platform answers, and the `[0xFF]` the task makes up when
the ackfilter is off and safelink is not in use) also go to the user but carry
no number and are not recorded.

### UsbConnection

`task` is the blocking task, `reader` and `writer` the program counters of the
threads. A thread ends through `ReaderEnds`/`WriterEnds`, which set the flag:
that is the `DisconnectGuard`. `Reason` is the match on the two join results.
`Signal` is the send on `flume::bounded(0)`: it waits for a caller to receive
or for the object to be gone; the message is then taken by any one waiter,
also if the caller it was meant for has cancelled its call. `uplink` keeps a
packet at its head until it is written. `asked` is a history variable: the
user closed or dropped the connection. A write that times out passes through
`nak`, where the flag is read, so that an endless refusal is a behaviour the
fairness does not exclude.

### RadioPlatform

`Command` is one `platform_command()`: `ValidCommand` is its check, and the
packet goes to the Crazyflie between two transactions of the link, because the
radio runs one at a time. What the Crazyflie does with it is external. That the
command of a platform packet leaves the CRTP streams alone is what
`context.rs:110-113` says of the radio chip, and is assumed: in the model such a
command is a stutter. What the properties of the streams exercise in the run is
the check, which must let no data and no keepalive of a user through; they are
no evidence that platform commands do not interfere. The one command of which
the source says what it does to the link, the one that enables safelink
(`crazyradio_connection.rs:389`), passes the check and does interfere:
`RadioPlatform_enable`.

### LinkContext

A caller has one call at a time and `at` is where it is in it: parsing its
next URI, waiting for the mutex of the table, opening the dongle with the
mutex held, using its share, in the USB part, or returned with a link that
keeps the share. `uses` are the strong references; the entry of the table is
alive when it was filled (`opened`) and somebody has one. `Share`, `Miss`,
`OpenSucceeds` and `OpenFails` are `get_radio()`; `Parse`, `RadioDone`,
`RadioFails` and `Usb` are what the functions do before and after it, in the
order of the source. `Cancel` drops the future of a call at any await; a
`spawn_blocking` that opens a dongle then still finishes. The dongles are
external; `Release` is the drop of the handle by its thread, some time after
the last share has gone, and until then an `open` fails.

### UsbBus

`seen` is the place in the device list. `Claim`, `Busy`, `ClaimFails`, `Skip`,
`ReadFails`, `Read` and `NotFound` are the arms of the search in `open()`: an
interface that cannot be claimed, because a session or another program has it
or the device has gone, ends the search with an error, and an unreadable device
does not. The actions of the task are those of `UsbConnection` that touch the
device; the last one, `SwitchBack`, goes through a second handle that has
claimed nothing. `alone` is a history variable: nothing came between a search
and the devices.

`wayBack` is a history variable too, and keeps apart the two ways in which the
code leaves a Crazyflie in USB mode with no session that would switch it back:

- `"failed"`: the task tried, and the control transfer failed
  (`crazyflie_usb_connection.rs:267`, logged and not tried again);
- `"untried"`: `open()` was cancelled after the device was switched, the task
  panics on `send(()).unwrap()` (`crazyflie_usb_connection.rs:121`), its handles
  are dropped, and the code that switches back is never reached.

In both, the device stays in USB mode until a later session on it ends.
`LeftInRadioMode` excepts exactly these two. Nothing in the repository promises
that a cancelled `open()` restores the mode, so the second is no finding, but a
reader of the code should know of it.

### LinkStats

`Count`, `Payload` and `Update` are the three locks of an iteration. The loop
is reduced to what it tells the accumulator: is this the first time the packet
is sent, what acknowledgement came. Time passes at any point. Statistics are
pairs, a numerator and a denominator. `log`, a history variable, holds the
transactions of the window; `Reference` computes from it, by counting entries,
what a snapshot should say.

### LinkUri, UriRoundTrip, CrtpPacket

A URI is what `Url` takes apart; an address is its digits. `RadioOutcome` is
the result of `parse_uri()`, in the order of its checks, `Parsed` its value.
`CrtpPacket` does the header arithmetic with numbers of eight bits, from
`Packet::new()` to the air (`Send`) and from an acknowledgement to the user
(`HandOver`).

### Capture and PythonBinding

`Capture`: a frame is two writes under the mutex; a write waits for room in the
socket and fails once the reader has gone, which the code ignores.
`PythonBinding`: `send_packet` and `receive_packet` let the interpreter lock go
and take the `RwLock` for reading; `close` takes it for writing with the
interpreter lock held. Whether a new reader waits behind a waiting writer is
left open. A call ends in a panic when `Packet::from` gets an empty vector, and
a receive may hand over a packet that was queued before the link ended.

## 3. What the runs check

| Run | Instance | Shows |
|---|---|---|
| `RadioConnection` | 3 callers, timeout of 2 ticks | the reason is true (`ReasonJustified`), stored before anybody is answered (`WaitCloseHasReason`) and final (`LifecycleKept`); after `close()` the loop is over; `close()` and drop end the task whatever the radio brings, callers return, silence ends the connection |
| `RadioLink` | 2 packets each way, handshake that succeeds or fails, platform commands of every kind but the one that enables safelink | the uplink and the downlink are reliable streams with safelink, and without it retransmission keeps the uplink complete (`RawMissesNothing`); the Crazyflie does not run ahead of the task (`LetGoIsDelivered`); an accepted packet arrives or the connection ends; no data gets past the check of `platform_command()` |
| `UsbConnection` | 3 callers, 3 packets | both threads are over when `close()` returns; a device error is never "Connection closed"; packets are written in order, once each; the threads end together; an abandoned connection ends; competing callers all return |
| `LinkContext` | 2 callers, 5 kinds of URI, lists of up to 2 | a dongle is opened once and not used after its release; an idle radio is closed; a handle whose dongle is gone goes away |
| `LinkStats` | 3 packets, a second of 2 ticks | a snapshot is the summary of whole transactions; a packet is counted as data once; a window ends on a link that loses everything |
| `UsbBus` | 3 sessions, 3 Crazyflies | one session talks to a Crazyflie; no claim is left behind; no Crazyflie is left in USB mode, unless its way back failed or the task panicked before it because `open()` was cancelled; an undisturbed search finds what is there |
| `PythonBinding` | 3 threads | `close()` is alone with the connection; later calls are told; every call returns |
| `Formats` | every port, header byte and counter; URIs at the ends of every range | what `scan` writes opens what answered; the address opened is the one written, from one digit on; `scan_selected` makes a raw link; port and channel arrive; what is handed over is clean |
| `Capture` | 3 threads, 3 frames, room for 3 writes | what is read is whole frames; every thread goes on |

Three more runs end in a violation on purpose, each of one statement the
repository makes and the code does not keep (`findings` in `PROJECT.json`):
`RadioConnection_open_panics` (an error in the handshake makes `open()` panic),
`UsbBus_reopen` (a connection opened while the last one ends is switched back
to radio mode by it) and `RadioPlatform_enable` (`platform_command()` accepts
the command that enables safelink, which restarts the counters of a link).

Every property of a passing run has a mutant, a faulty form of one definition
under which TLC finds it violated.

### Divergences

Further statements of the documentation that the code does not keep are
written as properties at the end of their modules. They are in no run; checked
by itself with the constants of the run named, each is violated.

| Property | Statement | Constants |
|---|---|---|
| `RadioConnection!ConnectedMeansSafelink` | a Connected link has safelink (`connection.rs:10`) | `RadioConnection` |
| `RadioLink!OnlyBareNullIsEmpty` | only a payload of one byte is empty (`crazyradio_connection.rs:457`) | `RadioLink`, with `"platform"` among `IdleKinds` |
| `UsbConnection!CloseMeansStopped` | `close()` waits for the task to stop (`connection.rs:119`) | `UsbConnection` |
| `UsbConnection!OpenSurvivesFailure` | `open()` waits for failed initialization too (`crazyflie_usb_connection.rs:275`) | `UsbConnection` |
| `UriRoundTrip!SelectedStaysValid` | `scan_selected` returns URIs (`context.rs:74`) | `Formats` |
| `UriRoundTrip!OptionalPartsParse` | data rate and address are optional (`lib.rs:43`) | `Formats` |
| `UriRoundTrip!MissingAddressIsDefault` | the address is `e7e7e7e7e7` by default (`lib.rs:44`): a URI that ends in the slash before it opens `0000000000` | `Formats` |
| `UriRoundTrip!AckfilterDefaultsOff` | ackfilter is off by default (`lib.rs:47`) | `Formats` |
| `LinkContext!UsbUrisAreScanned` | `scan_selected` scans the given URIs (`context.rs:70`) | `LinkContext` |
| `LinkStats!QualityIsMeasured` | quality is a ratio of packets sent (`connection.rs:22`): it reads 0 before the first window is over | `LinkStats` |
| `LinkStats!DownlinkIsNonEmpty` | only non-empty payloads are counted (`connection.rs:26`) | `LinkStats`, with `Safelink` and `AckFilter` FALSE |

### Bounds, and why they are enough

- `Callers`: three, or two in `LinkContext`. A caller touches the rest of a
  connection only through the flag and by waiting; with three, one can cancel,
  one be answered and one wait, and several compete for the one message of a
  USB connection. `RadioLink` has none: its object is closed by being dropped,
  and callers do not touch packets. Two tasks are enough for every race about
  one entry of the table, which relates an opener to one user.
- `Timeout`: one or two ticks; the clock is compared with it only.
- `MaxTries`: two, so that a handshake can fail once and go on, or fail twice.
- `MaxUp`, `MaxDown`: two or three packets. The counters are one bit, so the
  third packet has the value of the first.
- `MaxHeard`: how many data packets may cross the link in one direction; it
  bounds the duplicates of a link without safelink and is above `MaxUp`, so a
  protected link never reaches it.
- `MaxUris`: two, so that a list goes on after a success and after a failure.
- `MaxSent`, `MaxElapsed`: a window may be cut before, between and after three
  packets, and be over by one tick before the code looks.
- `BusOrder`: three devices, so that one is neither first nor last. The
  sessions are interchangeable in `Init`, `Next` and the invariants, and
  `UsbBus` has no liveness property, so their symmetry is sound.
- `Room`, `MaxFrames`: the buffer fills up in the middle of a frame.
- `MaxQuery`: `scan_selected` may be applied to its own result.
- Deadlock is checked in `LinkContext`, `UsbBus` and `PythonBinding`, which
  never stop. Elsewhere a connection that has ended stops, or a bound on the
  number of packets ends the run.

### Fairness

The task, the threads and callers that can be answered are scheduled (weak
fairness of the task as a whole, of each thread, and of each caller's return):
tokio and the operating system run what is ready, and the dongle and the USB
transfers have timeouts. In `RadioConnection` the clock advances. Nothing is
assumed about results: a transaction may be lost for ever, a write may time
out for ever. The user is never obliged to do anything, except that a drop,
once begun, runs to its end. `RadioLink` has no fairness for the radio:
`DeliveredOrEnded` holds because a task that hears nothing times out.

In `LinkContext` the calls run, the link of a lost dongle gets its error
(`LostLinkEnds`) and a handle without users is closed (`Release`); nobody has
to call, to plug in, or to end a link that works. `LostRadioGoes` says under
which condition the users must stop sharing. In `PythonBinding` blocking calls
end, and a thread that is again and again able to take the interpreter lock, or
to yield it, does (strong fairness): the interpreter switches threads. In
`Capture` the reader reads while it is there, and a thread that waits for the
mutex gets it in the end (strong fairness). A reader that stays but stops
reading blocks every link; the code sets no timeout, and the property does not
claim otherwise.

## 4. What is proved

Every invariant and every action or refinement property that a run checks is
stated by a theorem, for every value of the constants; `LetGoIsDelivered` and
the two streams of `RadioLink` for the link by itself (`LinkSpec`), the run for
the link with commands in between. The assumptions are
those of the modules, on constants only: that sets of inputs have the types
the code gives them, that bounds are numbers. TLC evaluates them in each run.

### Radio_proofs

*RadioConnection*, from `ConnectionAssumption` alone. The invariant `ConnInv`
is inductive. `WaitCloseHasReason` is not: the step `WaitReturns` needs to know
that a woken caller sees a reason. So `ConnInv` adds what makes it so: a woken
caller means the channel is gone (`CallInv`), a task that is over has stored a
reason unless `open()` was cancelled (`ReasonInv`), and a caller exists only if
`open()` returned (`ObjectInv`), which it does only after the handshake
(`HandshakeInv`). From it follow type correctness, `WaitCloseHasReason`,
`CloseMeansStopped`, `ReasonJustified`, `OpenHandsOverConnected`, and that each
step is one of `LinkLifecycle` (`RadioKeepsLifecycle`).

*RadioLink*, with `LinkAssumption` too. `LinkInv` extends `ConnInv` with what
the queues hold (`QueueInv`), that nothing crosses the link before the
handshake ends and that its echo finds the Crazyflie's counters at 1
(`BeforeInv`), and, for each direction, what comparing the two counters tells:
`cfUp = upCtr` exactly when the Crazyflie has taken the packet under way
(`UpInv`), `cfDown = downCtr` exactly when the last payload has still to be
accepted, and then the only payload whose bit matches is that one (`DownInv`).
From it follow the type invariant, `AckedIsTaken`, `LetGoIsDelivered`, and that
both directions implement `ReliableStream` (`UplinkIsReliable`,
`DownlinkIsReliable`), for any number of packets, losses, repetitions and late
payloads, and whatever an earlier connection left.

*RadioPlatform*, with `CommandsAssumption`: a command has a kind and a length,
and what parses as a keepalive is one byte. `CommandEffect`: what the check of
`platform_command()` lets through either enables safelink in the Crazyflie or is
a command that the Crazyflie is taken to answer by itself (section 2). So

- the life of the connection is not affected by any command
  (`PlatformIsConnection`), and the types hold (`PlatformTypes`);
- a link with safelink on neither side misses no packet
  (`RawLinkMissesNothing`). Its invariant `RawInv` says that the last packet the Crazyflie took is the last
  one the task took off its channel, or the one before while that is under
  way, and that no number was left out before (`NoGap`). A Crazyflie that a
  command has put into safelink leaves the invariant's premise for good, which
  is why it also holds with such commands.

Nothing is proved of the two streams with commands in between. With the one
that enables safelink they are not reliable (`RadioPlatform_enable`), and for
the others it would be the assumption about the Crazyflie said again.

### UsbConnection_proofs

From `UsbAssumption`. `UsbInv` ties the place of the task to the threads: they
exist once the oneshot was sent (`SpawnInv`), no object exists without them
(`HandleInv`), the task is past the joins only when both have ended, and has
stored a reason from then on (`EndInv`); so a `()`, or the loss of its sender,
reaches a caller only after both (`AnswerInv`). `FlagInv` says why the flag is
set, which is what makes "Connection closed" true: the user asked, a thread
failed, or nobody was left. From it follow `CloseMeansIdle`, `ClosedIsWanted`
and that each step is one of `LinkLifecycle`.

`OrderInv` says that what was sent is what was written followed by what waits
in `uplink`, without a gap. From it follows that the writer thread implements
`ReliableStream` (`UsbWritesInOrder`), for any number of packets and of writes
that time out and are tried again.

### UsbBus_proofs

From `BusAssumption`. `BusInv`: who reads a device or talks to it has its
claim, and a device has one claim; from it follow `OneTalker`, `ClaimsAreUsed`
and `LeftInRadioMode` (with its two exceptions, section 2), for any bus and
number of sessions. `SearchInv`: a
search that is alone began while nothing was claimed, what lies behind it are
devices it has read and that are not the one wanted, and it is never refused a
device; from it follows `SearchFinds` (`UndisturbedSearchFinds`).

### LinkContext_proofs

From `ContextAssumption`. `ContextInv`: who opens a dongle has the mutex, and
without the mutex nobody gets a share, so the entry stays as dead as it was
found; an entry with users is one that was filled, so that a live entry is
never taken for a dead one. From it follow `OpenedOnce` and `SharesAreOfHeld`,
for any number of callers, radios and URIs.

### LinkStats_proofs

From `StatsAssumption`. `SnapshotIsSummary` compares the snapshot with the log
it was made of; what carries it to the update is `TallyInv`: each counter of
the window is what the log adds up to, less what the transaction in hand still
owes, and it owes the first lock all counts but one, and the second lock the
payload. The sums over a log are cardinalities of finite sets (`Those`,
`SumOf`), so that one more entry is one more element (`ThoseAppend`,
`SumAppend`) and no induction over the log is needed. `LateInv`: only the
transaction that is about to update the snapshot may have begun after the end
of the window. From these follow `SnapshotSumsUpWindow`,
`WindowEndsWithNextPacket` and `EveryPacketCountsOnce`.

`StatisticsStayInRange` is about what a user reads by itself: quality and power
detector share between 0 and 1, the mean of the retries not above the most a
dongle reports, the mean signal strength between the weakest and the strongest,
no more packets with data or a payload than packets sent. Its invariant
`CountersInRange` says that no counter outgrows the one it is divided by, with
the payload of a transaction between the two locks still outstanding.

### Formats_proofs

*URIs*, from `UrisAssumption`. `Hex` and the padding of `parse_uri` are inverse
to each other in both directions: ten digits written for five bytes are read
back as those bytes (`HexParsesBack`), and digits that parse are written back
with the missing zeros on their left (`ParsesHexBack`). `UriInv` says where the
URI in hand came from. From it follow `ScansOpen`, `WrittenAddressOpens` and
`SelectedOpenRaw`, for every channel, address and URI.

*Packets*, from `PacketAssumption`. A header is its four parts and four parts
make a header (`HeaderParts`, `PartsMake`); masking clears the middle two
(`MaskParts`), and 243 is the masked header of the keepalive only
(`MaskedHeader`). `PacketInv` carries the port and the channel from
`Packet::new()`, or from the payload, to where they are read. From it follow
`PacketsAreAddressed` and `ReceivedIsClean`, for every packet and payload.

### PythonBinding_proofs and Capture_proofs

`PythonBinding_proofs`, from `ThreadsAssumption`. `BindingInv`: the connection
is taken out of its `Option` once, with no reader about, and no reader enters
afterwards, also when `Packet::from` panics in a reader. From it follow
`CloseIsExclusive` and `ClosedForAll`.

`Capture_proofs`, from `CaptureAssumption`. `CaptureInv`: while the reader is
there, what is written ends in a header exactly when a thread is about to write
its data, and the header is of that thread's frame. From it follows
`FramesAreWhole`, for any number of threads and frames.

### Only model-checked

The liveness properties (`CloseTerminates`, `CallsReturn`, `SilenceTerminates`,
`DeliveredOrEnded`, `ThreadsEndTogether`, `AbandonedEnds`, `IdleRadioIsFreed`,
`LostRadioGoes`, `CaptureEnds`): fairness and ENABLED are out of the prover's
reach. The counterexamples of the three runs that end in a violation, which are
single behaviours. And that the symmetry and the bounds of the runs lose
nothing, which is argued in section 3.

## 5. What is not modelled

- A Crazyflie that restarts during a connection: the code has no step for it.
- An answer to a platform command that arrives in a later acknowledgement and
  is handed to the user of the link: it carries no number.
- What a scan of the radio or the USB bus finds, and in which order; the data
  rate of a channel; retries of a transaction inside the dongle, which reach
  the user as statistics only.
- The mode a device is in after a control write that failed half way: a failed
  switch leaves it as it was in `UsbBus`, unknown in `UsbConnection`.
- The arms for threads that panic (nothing in them can), the rounding of the
  statistics to `f32`, and the width of their counters, which do not overflow
  within a second.
- `append_data` and `Display` of a packet, fields of a capture header other
  than the length, the texts of errors.
- `Connection` forwards each call and adds nothing; `error.rs` and `lib.rs`
  declare; the examples are users of the interface, which the models let call
  anything in any order.

## 6. What is left

1. An abstract specification of a shared radio (held while somebody has a
   share, opened once, free when nobody has) that `LinkContext` implements,
   with the refinement proved.
2. That a session of `UsbBus` takes the steps of `UsbConnection` that touch the
   device in the same order, as a refinement rather than by reading.
3. `LinkStats` with the loop of `RadioLink`, so that its transactions are those
   of a link rather than any.
