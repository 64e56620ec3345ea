# Universal Screens: verification

TLA+ specifications of Universal Screens: a desktop **host** that a phone,
tablet or browser connects to, to mirror its screen, extend it, or control it.
Every module is written from the source, and names the functions it stands for.
`PROJECT.json` maps each definition to its lines, and lists runs, hazards,
mutants and theorems.

Contents: [the system](#the-system) · [modules](#modules) ·
[runs](#runs-and-what-they-show) · [fairness](#fairness) · [proofs](#proofs) ·
[where code and text disagree](#where-the-code-and-its-text-disagree) ·
[not modelled](#not-modelled) · [plan](#plan)

## The system

One host process has a window thread (egui), one accept-loop thread per start,
threads of a session (video, input, snapshots), discovery threads, and perhaps
one that dials a rendezvous room so that a browser can reach it. They share
little memory: a stop flag, a status line, and on disk the paired-device file.

| Component | State it keeps | Operations | Talks to |
|---|---|---|---|
| Wrong-PIN guard, `transport/src/guard.rs` | failures, last failure, lock, "reported" flag; one per start, on the loop's stack | `refuse`, `record_failure`, `record_success` | called by the accept loop only |
| Paired-device store, `transport/src/pairing.rs`, `host-ui/src/pairing.rs` | the file (identity, devices), one copy in the accept loop, a fresh one at each panel refresh | `open`, `reload`, `remember`, `rename`, `forget_all`, `save` | accept loop and window, through the file alone |
| Handshake, host side, `transport/src/lib.rs` | where a connection is; 10 s deadline per read | `accept`: v2 pair, v2 known key, v1, plaintext; `refuse_locked` | guard's verdict, store, client |
| Handshake, client side, `transport/src/session.rs`, `core/src/lib.rs` | `ClientHandshake` state; the hosts it remembers | `pair`, `reconnect`, `feed`, `closed`, `open_tunnel`, `forget_host` | host |
| Accept loop, `host-{linux,windows,macos}/src/main.rs` | the connection being served | `serve_loop`, `read_hello`, `serve` | all of the above, window (events) |
| Window lifecycle, `host-{linux,windows,macos}/src/gui.rs`, `host-ui/src/lib.rs` | running, PIN, own PIN, port, advertisement, status | `start`, `stop`, `apply_own_pin`, Regenerate, port field | loops (stop flag), discovery |
| LAN discovery, `discovery/src/lib.rs` | peers seen; UDP 9001; DNS-SD record | `start_listener`, `start_beacon`, `advertise_mdns` | window |
| Mirror session (Linux, Windows), `stream.rs`, `vdisplay.rs` | encoder, second screen, stop flag | `serve_mirror`, `run`, `VirtualScreen::create` and drop | input thread, X server, client |
| macOS video session, `host-macos/src/host.rs`, `shim/virtual_display.m` | displays retained and on, registry, capture queue, channel, dead flag | `ensure_display`, `remove_display`, `serve_video`, `stream_to_client`, teardown | window (the registry), the system, client |
| Clicker, `serve_clicker` and `winlist.rs` (Linux, Windows) | slides of the last scan and an index, request queue, window list | keys, snapshots, scan, jumps, window switches | input injection, screen capture, client |
| Remote panel and bridge, `host-ui/src/remote.rs`, `web-bridge/src/lib.rs` | phase, code; the room's WebSocket, a TCP connection, a channel | `start`, `run_room`, `run_lan`, `Relay`, pump and reader | room or browser, the host's own port |
| Secure records, `transport/src/lib.rs`, `protocol-wasm/src/tunnel.rs` | nonce counters, partial records, partial frames | `SecureStream` read and write, `feed`, `next_frames` | everything that talks through a tunnel |
| Device core and bindings, `core`, `mobile-ffi`, `android-jni` | session with reader and writer thread, last problem per thread, event record | `connect`, `next_event`, sends, close | apps, host |
| Desktop client, `client/src/main.rs` | grab, what is held, decoder, shared frame | window events, decode thread, `render`, resolutions | host |
| Command-line host, `host/src/main.rs` | display slot, capture callback, bounded channel | `ensure_display`, `stream_to_client`, inject | client, shim |
| Linux capture and `h264` | shared segment, lock, misses; sizes, NALs | grab, `Frame` conversion, `split_annex_b`, `fit` | X server, encoder |
| Account and viewer panels, `host-ui/src/account.rs`, `viewer.rs` | session, token, file, busy flag; a client process | sign in and out, refresh, connect, wait | a web service, the desktop client |

What makes each of them hard, and what it must guarantee:

* **Guard.** Time passes between asking it and reporting to it; wrong PINs may
  be spaced to land on any of its boundaries. It must keep the delays it
  promises under every such timing, past the points where its numbers saturate.
* **Store.** Two threads that share only a file; a power cut at any system
  call, which may undo a rename that has returned; reads and writes that fail; a
  person with a file manager. The identity must survive, a save must be
  atomic, and a forgotten device must stay forgotten.
* **Handshake and loop.** One loop serves everybody, one at a time; the backlog
  holds connections whose clients have given up; four kinds of peer reveal their
  PIN at three different moments. Every evaluated wrong PIN is counted and
  nothing else is; no peer holds the loop; nobody gets a session, or trust,
  without having shown a PIN.
* **Window.** `stop` sets a flag and does not wait, so that loops of several
  starts overlap. What is shown must be what is served.
* **Mirroring.** The desktop is shared with its user and the X server, and the
  second screen is several requests, each of which may fail, with the user's own
  changes in between; it must be gone, and the desktop as the user wants it,
  however the session ends. Two threads must end together although either may be
  waiting for the client.
* **Bridge.** Two threads, four queues and three parties, any of which may end
  at any moment, in one of two phases; whether bytes or frames are relayed is
  decided by the first message. Nothing may be lost, reordered or repeated, and
  an end anywhere must reach the others.
* **Records.** Bytes arrive cut anywhere. A record is sealed under a lock and
  written after it; the verdict of a handshake may arrive with the first records
  of the tunnel; an end may be clean, cut or forged, and must not be read as
  another.
* **Core.** Attempts overlap on the threads of a pool, each leaves its reason in a
  cell of its thread, and may be given up while it dials. Sessions run threads
  nobody joins.
* **Clicker.** The host never knows which page is on the screen: it counts keys
  while a scan flips through the document and the presenter goes on typing.
* **Mac sessions.** A registry whose lock is let go while a display is made and which
  believes whatever the window server answers, a queue of callbacks that may outlive what
  they use, a bounded channel that a callback may be waiting on when the stream ends.
* **Desktop programs.** Frames that mean something only after the one before; a shared
  segment that still holds another desktop's rows; keys held down while control is lost;
  answers of a service to a question that no longer stands; a sign-in kept in three places,
  one of them a file whose writes may fail.

## Modules

```
PinGuard <- PinGuardBudget <- MCPinGuard          AtomicFile (abstract)
    ^              ^                                   ^ refines
    | INSTANCE     +-- AdmissionProofs ----------> PairingStore <- MCPairingStore
    | (refines)
HostLoop <- MCHostLoop                             HostLifecycle <- MCHostLifecycle
    ^-- HostLoopProofs                                  ^-- HostProofs --+
MirrorSession <- MCMirrorSession                   VideoSession <- MCVideoSession
    ^-- MirrorSessionProofs                             ^-- VideoSessionProofs
CoreSession                                        ClickerSession <- MCClickerSession
    ^-- ConnectionProofs --------------+                ^-- HostProofs
                                       v
RemoteBridge -- refines --> Pipe <- RecordLayer <- MCRecordLayer
    ^-- RemoteBridgeProofs

H264 <- X11Capture <- MediaPath <--+
Keys <-------------------'         |
  ^---- DesktopInput <-----+-------+-- MCDesktop
        DesktopVideo <-----+-------+
        HostPanels <-------+-------+
                           +-- DesktopProofs
```

RemoteBridge and CoreSession need no definitions of their own for TLC, and are run
directly.

**PinGuard** - `guard.rs` and the discipline of its caller. `guard` is the
`PinGuard` record field by field, `now` the clock, `testing` whether the loop is
inside a handshake it admitted. The policy's numbers are constants, so that the
proofs hold for every policy. `lockout_for`, `locked_for`, `record_failure` and
`record_success` are the functions of those names (`locked_for` is 0 where the
code says `None`); `Refuse`, `Admit`, `WrongPin`, `Accepted` and `NothingTested`
are what can happen to a connection in `serve_loop`.

**PinGuardBudget** - PinGuard with history variables (guesses since a client was
last accepted; refusals and log lines since the last wrong PIN), for the two
promises that are about a whole run. `Debt[n]` is how far n wrong PINs in a row
run ahead of one per `MAX_LOCKOUT`; its recurrence is an assumption that TLC
evaluates, and `Debt[n] <= FORGET_AFTER` is the reason `guard.rs:61-66` gives
for `FORGET_AFTER`. With the code's numbers the largest debt is 3389 s, under
3600 s.

**AtomicFile** - what `write_private` promises: a save replaces the whole text
at one moment or not at all; a crash may bring back a text from before (`earlier`),
but never part of one.

**PairingStore** - the store at the grain of its system calls: open the temporary name with
`O_TRUNC`, write, fsync, rename, each a step, over a file system with a directory, inodes,
and data that is durable only after fsync. A rename is durable only once the system has
written the folder (`FolderSynced`): the code does not sync it, so until then `PowerCut` may
bring back any of the texts in `earlier`. `loop` is the accept loop and the copy of the list
it holds: `Connects` (reload), `PinProven` (remember), `KeyChecked`, `HelloRead` and
`Relabel` (rename, which reloads first); `panel` the window's refresh and "Forget all".
Every read may fail: opening then falls back to memory, `rename` gives up, and `Connects`
goes on with the list it had, as `let _ = store.reload()` does. `PowerCut`, `SaveFails`,
`Delete` and `Damage` (an edit, or a newer release's file, that does not parse) are the
world. `fate` says how a device was last forgotten: `firm`, `raced` by a loop that had a
list in hand or went on with an old one, or `undone` by a power cut. `Atomic` maps it to
AtomicFile: the text a reader would see, and per thread the text it is saving.

**HostLoop** - the accept loop against any number of clients. `host` is the
connection served and how far it is (`opening`, `proof`, `key`, `hello`,
`session`), `backlog` the ones not accepted yet, `client[d]` the device's end.
A connection carries at most one unread message each way because the handshake
alternates. `ReadOpening` is `accept_with`'s peek and the first message,
`ReadProof` the point in `accept_v2` where the code is judged, `ReadKey` the
client's key with `remember` and the verdict, `ReadHello` is `read_hello`,
`Silence` a read that times out or finds the peer gone. Clients follow
`open_tunnel`: reconnect by key if any host was ever paired with, then pair.
Legacy peers are the v0.3 handshake, plaintext, silence and a garbled hello.
Cryptography is ideal. `INSTANCE PinGuard` gives the guard's functions, and the
loop is checked to implement PinGuard's specification.

**HostLifecycle** - the three windows and the loops they start. `app` is
`HostApp` (running, PIN, own PIN, port field, port shown), `loops[i]` the i-th
start's port, PIN, stop flag and the place of its thread, `listening[i]` its
discovery listener on Linux. `linux` chooses between the Linux window, whose
`start` does not stop anything and draws the PIN once it has a port, and the
Windows and macOS one, whose `start` stops first.

**MirrorSession** - a session of the Linux or the Windows host (`linux`) that mirrors or
extends. `input[l]` is the thread of `serve_mirror`, `worker[l]` the stream thread:
`Measure` to `Rollback` are `VirtualScreen::create` one X request at a time, `FirstGrab` to
`Unblocks` the loop of `run_inner`, `Remove`, `Compare` and `Shrink` the drop of
`VirtualScreen`. `size` and `monitor` are the X server's. The worker keeps the desktop's
size from before and after, as the struct does. `peer` is the client: it may stop reading,
which blocks a write, or leave. Setting the desktop's size back may be refused, which the
code does not hear (`Restores`; `undone` then excuses the desktop's size). The user, the X
server and a kill of the host are actions of the world. Frames are abstracted to whether the
picture still has the size announced. Sessions are indexed by the loop they belong to,
because a stopped loop may still be in one when its successor accepts a client
(HostLifecycle).

**Pipe** - what one direction of any connection here promises: the far end has
received a beginning of what the near end sent.

**RemoteBridge** - a browser's way to a host. `pc` is the bridge's thread, from
`Dial` through the room's phases (`Phase1` waits for a partner, `OnPaired`,
`SendCaps`, `Route`, `Connect`, `First` for the first payload, which chooses
`relay`) to the pump's `Drain` and `Read`; `reader` is the pump's second thread with
a chunk in its hand, `chan` the unbounded channel between them. `lan` is the bridge
without a room. `inbox` and `outbox` are the WebSocket, `up` and `down` the TCP
connection, whose socket the reader may hold alone. A message taken from the WebSocket
is held in `Write` until the connection has room: a host that does not read
holds the bridge there. Messages of the guest and units
of the host's stream are numbers, so that loss and order can be seen. The room may
expire, close or be cut; the host may listen elsewhere by the time the bridge dials.

**RecordLayer** - one connection from its first byte: `ClientHandshake` fed pieces
(`FeedHandshake`, `FeedVerdict`, `Closed`), the host's half as far as the client can tell,
and then the two directions of the tunnel. `BeginFrame`, `SealBody` and `Write` are a
writer's steps around the lock, `ReadChunk`, `TakePlain` and the ends a reader's. A carrier
so slow that a time-out ends the handshake (10 s, or the 1 s of `refuse_locked`) is one that
is cut. A native client and a browser's tab (`tab`) read frames differently. A stranger
host, an older, a newer and a locked one are the kinds of peer.

**CoreSession** - the phone client. `job[a]` is attempt a, on a thread, through
`dial`, `connect_known`, `connect_pair`, `connect_inner` and `last_connect_problem`;
`problem[w]` is `LAST_PROBLEM` of thread w; `sess[a]` the session with its handle,
threads, queues and the pump of the app; `phase`, `onscreen`, `shown` the app. The
errors are the records `connect_problem` tells apart.

**ClickerSession** - the two threads of `serve_clicker`. The input thread reads, injects and
posts; the snapshot thread (`snap`) sends its first preview (`greet`) and the window list,
and then drains its requests, photographs, scans and sends. `deck`, `page` and `focus` are
the document, which the code cannot see; `stale` and `lost` record what a property must
excuse. A scan whose first picture failed makes as many turns as another and may list a
slide less (`Unfirst`).

**VideoSession** - `s[l]` is the session of loop l, by places of `serve_video`.
`held` and `active` are the displays the shim retains and the window server has on,
`entries` the registry. What `active_displays` answers (`seen`) may be nothing, for an
error, and leaves out a display that sleeps or mirrors; `ensure_display` strikes those
off (`unseen`), though the shim retains them. A write (`Writes`) lasts as long as the
client does not read. The capture queue is serial: `queued` callbacks, of which
one may be in `send` on a channel with no room.

**X11Capture** - one grab at a time of the Linux host, under the Capturer's lock,
request by request with the desktop resized in between; pixels as colours, in
whatever layout the server declares, become BGRA. **H264** - `annex_b_nals`,
`split_annex_b`, `pack_rows`, `fit`, sizes, and the client's `avcc` readers.
**Keys** - the five key tables. **MediaPath** - what a host sends and an app is
told: it composes X11Capture's frames, H264's forms and both bindings' event
records.

**DesktopInput** - keys, buttons and touches from a window or a browser to the four
`inject` handlers. **DesktopVideo** - a picture from the command-line host's capture
callback to the client's texture. **HostPanels** - the account panel with its
threads and file, the viewer panel with its process. `save_session` ignores every
error and writes in place: the file then has the new session, the one before or none
that can be read, and `unsaved` says that it is not the new one. The host may be
killed at any point (`Restarts`). **MCDesktop** chooses one of
these parts at the start and lets only that one step: they do not act on each
other, so that one run checks the six of them without their product.

## Runs, and what they show

| Run | Instance and bounds | What it shows |
|---|---|---|
| `pin_guard` | 1 free failure, lockouts 1, 2, 3, forgotten after 9, counter saturating at 6, clock to 22 | `LockHolds`: no PIN is evaluated while locked and no step shortens a lockout; `GuessSpacing`: the schedule is what a guesser waits; `WaitingGainsNothing` |
| `pairing_store` | 2 devices, 1 fault, 2 changes a power cut may undo, saves that do not overlap | `AtomicReplace`: a save is AtomicFile's; `ForgetHolds`: a forgotten device needs the PIN again, unless it raced a pairing or a failed read, or a power cut undid it; `FileKept`: the host's own writes keep the identity, and replace a damaged file in one case only |
| `host_guard` | a current client and a legacy one, every lockout reachable, backlog 1 | `GuardDiscipline`: the loop implements PinGuard; `SessionEarned`; `LoopReleased`, `NobodyStarves` |
| `host_trust` | one current client that paired elsewhere before, PINs none/1/2, one restart, one Forget, backlog 2 | `TrustNeedsPin`, `TrustIsMutual` |
| `lifecycle` | 2 ports, 2 PINs, 3 starts | `NoOrphanLoop`; `ServedAsShown`: PIN, port and own PIN on show are served; `AdvertisedIsServed`; `AtMostOneLate`, `StoppedLoopsEnd` |
| `mirror` | one loop, desktops and panels of a few pixels, one panel too small, one that does not fit, 3 failed grabs | `ScreenIsMonitor`, `DesktopRestored`, `SessionEnds` |
| `remote_bridge` | 2 ports, frames of 2 units, 2 messages up, 6 units down, 2 messages in the WebSocket, 2 sessions | `Pipes`: both directions refine Pipe; `BridgeSound`: both ends can read what is relayed, the code on show is a live room's; `EndPassedOn`: the bridge ends with its room or guest unless it waits in a write to the host (`WaitsForHost`), its reader with the host or the bridge, and after an ending without error the host's socket is shut |
| `record_layer` | 2 frames of 2 units, records of 1, each direction closed or the carrier cut once, at any point | `BothPipes`: both directions refine Pipe; `EndsAreTrue`: no end and no failure is told as another; `Settles` |
| `core_session` | 3 attempts on 2 threads, 1 event and 1 input queued, a host that may be locked, time-outs and ends of file | `RightReason`, `SessionKept`, `NothingLingers` |
| `clicker` | a deck of 3 slides and one of 4 with repeats, a scan of 3 pages, 3 events | `PreviewFresh`, `NeighboursTrue`, `ClickerEnds` |
| `video_session` | one loop, 2 displays, 3 kinds of client, queue and channel of 2 | `RegistryTrue`, `NoLateCallback`, `DeadEndsStream` |
| `desktop` | the six parts, bounds below | `FormsKept`, `HeldIsHeld`, `PictureWhole`, `AccountKept`, `PanelsSettle` |

The bounds are small and enough for what is asked:

* The guard's clock runs past two whole streaks, a forgotten count and a streak
  after it; the counter and the exponent both saturate inside it. The theorems
  below remove the bounds.
* Two devices give the store a device that is forgotten while another pairs. The
  one fault is a power cut, a read or a write that fails, a removal or damage by hand,
  at any point of the others' calls; two renames not yet durable are a Forget and the
  pairing before or after it. The theorems below allow any number of both. Damage does
  not fall inside a save, or inside the one call of `rename` that reads, changes and
  saves. With `Overlap` false the two threads' saves do not
  interleave with one another (each still interleaves with the other thread's
  reads); `MCTornFile.cfg` shows what happens when they do.
* `host_guard` has one connection served and one waiting, of two kinds of client,
  with the guard's free failures at zero so that one wrong PIN locks. A dead
  connection in the backlog, a refusal, and a guess from each kind of peer all
  occur; the longer schedules are PinGuard's own run.
* `host_trust` uses one device because trust concerns a device and the host;
  its backlog of 2 holds the device's abandoned connection in front of its new
  one, the case in which the host works for a client that has left.
* Three starts are the running loop, the one it replaced, and one still in a
  session from before.
* `mirror` has every way into and out of a second screen: implausible, too large,
  refused at each request, resized during it to a larger and to a smaller desktop,
  odd sizes (which the encoder rounds down), killed with the screen in place and
  started again. Larger numbers change no comparison the code makes.
* `remote_bridge`: two sessions, so that the second may meet what the first left;
  three frames down and room for two messages, so that the WebSocket is full with a
  chunk in the channel and another in the reader's hand; a chunk may end inside a
  frame. Two ports, so that the host may have moved. The theorems remove these.
* `record_layer`: a frame is three records of two pieces each, so that a read may
  end inside a record and a record inside a frame; the second frame begins in the
  same delivery or not. Two frames are both of one direction or one of each.
* `core_session`: a third attempt may begin while the first, given up, still dials
  and the second has been freed; two threads make the third use one again. The
  theorems remove the bounds, and allow any refusals and kinds of error.
* `clicker`: a scan that is interrupted by a key needs two events, one that turns
  the page uncounted a third. The second deck is longer than a scan, and has
  slides that look alike.
* `video_session` has one loop, which with the window's steps and the window server's
  answers has every way of the registry; `NoLateCallback` and `RegistryTrue` are theorems
  for any number of loops. Two displays are one listed and one being made; a channel of 2 is
  the code's, and a callback may wait on it.
* `desktop`: desktops of 2 x 2, 5 x 3 and 4 x 3 pixels (odd sizes, and one larger than
  another each way), an area that hangs over two edges, 32-, 24- and 16-bit pixels of
  both byte orders, shared segments in multiples of 64 bytes so that some resizes
  keep the segment and some do not, two misses before a stream gives up. Access units of every
  mixture of parameter sets, IDR and other slices, SEI, with zeros inside a NAL. Panels
  on both sides of the decoder's limits. Two keys, a button that is sent and one that
  is not, three characters, one of which no keyboard types. Two plausible
  sizes and one that is not, two displays, four frames with a keyframe every three, a
  channel of two. Three sessions of the account: one loaded, one refreshed, one
  signed in; every save of one may fail.

Each module has a `TypeOK`; where there is a theorem about it it is proved
(`TypeCorrect`, `LifecycleTypes`, `CoreTypes`), and it is part of every inductive
invariant below. Properties about one question are conjoined under one name
(`LockHolds`, `ForgetHolds`, `FileKept`, `ServedAsShown`, `BridgeSound`,
`EndsAreTrue`, `NothingLingers`, ...); their parts are defined and commented beside
them.

Every property has a mutant: a definition of the module as a plausible bug would
have it (in the module, just before the one it mutates), under which TLC finds
the property violated in the same run.

## Fairness

Fairness is of the program's own threads and of the system's time-outs, never of a
user, a client or a network that need not answer.

* `host_guard`: the loop's thread runs (`Refuse`, `Admit` and the reads) and a read of a
  silent peer times out (`HANDSHAKE_TIMEOUT`, `set_read_timeout` in `begin_handshake`).
* `lifecycle`: a loop's thread runs and a handshake ends, which `host_guard` shows. A
  session need not end: the code lets one last for ever, and the liveness
  properties say so ("unless another client's session goes on").
* `mirror`: both threads run and a grab which can only fail does fail; a write to a
  client that does not read may last for ever.
* `remote_bridge`: the bridge's two threads run. Of the host, the guest and the room
  nothing is assumed: a host need not read, send or hang up, and `EndPassedOn` names the
  one state in which it holds the bridge. `MCRoomCut.cfg` adds a host that drops a
  connection which has said nothing for its time-out or has ended (`HostSpec`), and shows
  that it still keeps a session whose room was cut.
* `record_layer`: both ends of a handshake run and what was delivered is read. A carrier
  may be cut at any moment, and a tunnel need not be used.
* `core_session`: dials return, the handshake's deadline comes, and the threads of a
  session run. The host and the person owe nothing.
* `clicker`: both threads run; a write ends when the client reads or goes.
* `video_session`: the host's threads run; a write to a client that left fails. A client
  that is there need not read: there is no write time-out after the handshake, and
  `DeadEndsStream` excuses the stream it holds up (`HeldUp`). The system reports a
  capture whose display is gone.
* `desktop`: the panels' threads answer, the window is drawn, and a client process that
  ended is waited for.

`CHECK_DEADLOCK FALSE` is said where the system may stop: a tunnel that is over
(`record_layer`), a run whose attempts, events, displays or frames are used up
(`core_session`, `clicker`, `video_session`, `desktop`). Deadlock is checked in the others.

## Proofs

TLAPS checks these for every value of the constants that satisfies the named
assumptions.

**AdmissionProofs**, about the guard from `PolicyAssumption` (the order of the policy's
numbers) and `ShiftAssumption` (2^k is positive, which the provers do not know), and about
the store from `StoreAssumption` (a finite set of devices, two inodes at least, and
a name without a file refers to none of them):

| Theorem | Says |
|---|---|
| `TypeCorrect` | `Spec => []TypeOK` |
| `NeverTestedWhileLocked` | no PIN is evaluated during a lockout |
| `LockoutKept` | no step shortens a lockout in force |
| `GuessesSpaced` | wrong PINs of a streak are the schedule apart |
| `WaitingNeverGains` | wrong PINs never run ahead of one per `MAX_LOCKOUT` by more than a streak's debt (with `DebtAssumption`) |
| `ReportedOnce` | a lockout is reported on its first refusal only |
| `StoreTyped` | `StoreSpec => []StoreTypes` |
| `FileIsKept` | until somebody removes or damages it by hand the file keeps its identity, once the folder that first named it is on the disk; a damaged one is written over only when a device is remembered with a store opened before |
| `ForgottenStays` | a device firmly forgotten is listed again, or let in by a loop that has its file, only by a PIN |
| `SaveIsAtomic` | `StoreSpec => AtomicReplace`: a save implements AtomicFile, one replacement of the whole text |

The first needs only `TypeOK`. The next three are not inductive: they rest on
`LockInv` - an admitted connection found the lock open (only `Admit` begins a
test, and no lock begins during one), and `locked_until` is at least the last
failure plus that count's lockout - shown inductive in `LockInvariant`, from the
lemma `RecordFailure` about what `record_failure` returns. `WaitingNeverGains`
adds `BudgetInv`: up to the newest wrong PIN, guesses times `MAX_LOCKOUT` are at
most the time elapsed plus the debt of the streak; its step (`DebtStep`) splits
on whether the count was forgotten, in which case the quiet spell pays for the
whole debt, or goes on, in which case the schedule's wait pays for all but one
step of `Debt`. `ReportedOnce` adds `ReportInv`, that during a lockout the flag
says whether anybody has been refused since it began.

The last four are under `Overlap = FALSE`, that the loop and the window are never both
inside a save: they use one temporary name, and with overlapping saves all but the first are
false (`MCTornFile.cfg`). Each save still interleaves with the other thread's reads, with
power cuts, failed reads and failed writes at each of its system calls, and with a person
removing or damaging the file. `StoreInv` follows a save through those calls: whose inode
the temporary name is and what it holds (`SaveProgress`), so that what `rename` puts in
place is whole and durable (`FileWhole`); no identity is minted while a file has one
(`MintedFew`), and the loop's copy and every text underway carry the file's (`OneIdentity`);
and a firmly forgotten device is in none of the texts that may yet be written or admitted
from (`FirmlyOff`). `EarlierWhole` adds that whatever a power cut may bring back is a whole
text, and of the file's identity if there was a file. What is excused is excused in the
model's own terms: a device is `firm` no more when a power cut lists it again or when the
loop goes on with a list it could not re-read (`StillInHand`), and `IdentityKept` and
`CorruptKept` say in their statements which file may be lost.

**HostLoopProofs**, from `HostAssumption` (the kinds of device are disjoint,
`None` is not a device, the bounds are numbers):

| Theorem | Says |
|---|---|
| `EverySessionEarned` | on a host with a PIN, a session was earned by that PIN on the same connection, or by a key that proved one |
| `TrustEarned` | only devices that proved a PIN are on the list, or will reconnect by key |
| `TrustShared` | a client that will reconnect by key was saved on the list first |
| `LoopImplementsGuard` | `MaxRestarts = 0 => (Spec => GuardDiscipline)`: one process of the host implements PinGuard |

None of the first three is inductive: a session depends on what was established
at each message before it, while the client may have left and dialled again with
another PIN, its old connection still being served. `LoopInv` says how the parts
fit: a connection whose client is still there agrees with that client on the PIN
and on where the handshake is (`Linked`), a client that has had the host's Noise
reply while pairing has proven a PIN (`ClientEarned`), and a connection past each
point of `accept_v2` has passed that point's check (`HostEarned`). It is preserved
action by action, from lemmas for what all of them do: telling a client,
appending a connection, leaving. `MutualInv` adds that a verdict not yet read is
for a device already on the list, and that the list in the loop's hand still
holds everything on file, without which a save could strike somebody off.
`LoopImplementsGuard` maps each step of the loop to PinGuard's step or a stutter:
Admit finds the lock open, every wrong PIN is one `record_failure`, and a client
moves nothing of the guard's. A restart begins a new guard, so the theorem is
about the time between two restarts.

**HostProofs**, about the window from `LifecycleAssumption` (ports are a finite set of
numbers, `None` and `Garbled` are neither ports nor PINs), and about the clicker from
`ClickerAssumption` (documents are sequences of slides, none of which is a blank picture):

| Theorem | Says |
|---|---|
| `LifecycleTypes` | `Spec => []TypeOK` |
| `OneLoopAtMost` | only the newest loop can be unstopped, and only while the window is running |
| `ShownServed` | the PIN and port on show are the newest loop's |
| `OwnEnforced` | an own PIN, once applied, is the one asked for |
| `AdvertisedServed` | what is advertised is a running host's own port |
| `OneLateClient` | a stopped loop lets in one more client at most |
| `ClickerTyped` | `ClickerSpec => []ClickerTypes` |
| `PreviewStaysFresh` | a settled preview is of the slide the last key left on the screen |
| `NeighboursStayTrue` | after a scan nobody disturbed the tiles are the slides next to the one on the screen |

The window's invariant `LifeInv` says that the newest loop of a running window has its
PIN and port and has not been stopped (`Newest`); that every other loop has been
stopped or is over (`NoOrphanLoop`), and those of starts to come are untouched (`Fresh`); that a
loop which has let in a late client is past `accept` and comes back only to see
its flag (`PastAccept`); and that an own PIN is the PIN shown, on Linux once the
host runs (`OwnShown`). Opening a listener is one lemma for all three windows:
whichever port it gets, a start that leaves every older loop stopped leaves the
invariant.

Neither clicker property is inductive, because between a key and its picture there is a
queue, a thread and a scan. `ClickerInv` says where a picture of the screen still comes
from (`WillGrab`: a request that has not been drained, or a place of the thread before the
capture; `ShownFresh`), and that a host which counts keys counts right (`Following`): `Arrives`
says by a witness, one number for each request, that the requests not yet drained lead
from the host's index to the page. A scan's list is a beginning of the deck and the page is
where its place in the loop has put it (`ScanProgress`), as long as no key that turns a page is
behind it in the queue (`Undisturbed`).

**MirrorSessionProofs**, from `MirrorAssumption` (sizes are positive, `None` and
`Leftover` are no loops) and `Alone`, that no two loops serve at once - without
it both are false, as `two_screens` shows:

| Theorem | Says |
|---|---|
| `OneMonitor` | the monitor on the X server is the running session's second screen, and no other |
| `DesktopGivenBack` | when no session is on, the desktop has the size its user gave it last |

`ScreenInv` says what each place in create, run and drop knows of the desktop
(`Kept`): before it is grown, that its size is the user's and was saved; while it is
being changed, that it is as this session left it and that what was saved is the
user's; while a screen is up, that either that is still so or the user has chosen
a size that is not the grown one, which is why `drop` compares before it shrinks.
It is conditional on `~undone`: the user's last change did not fall between two
requests of a create or drop, and was not to exactly the grown size - there the
code has no way of knowing - and the host was not killed in between.

**VideoSessionProofs**, from `VideoAssumption`:

| Theorem | Says |
|---|---|
| `CallbacksDrained` | no callback is on the capture queue once its session's channel and closure are dropped, for any number of loops |
| `RegistryInSync` | `Spec => []RegistryTrue`, for any number of loops: what is listed exists or is being removed, and what the Mac has is listed, underway, given up on, or was left out of an answer of the window server |

`Inv` adds to the types that a queue is empty outside `stream`, `stopped` and
`barrier`: `dispatch_async_and_wait` is the only way out of the last, and it waits.
The registry needs `Registered`, that the display being removed is retained no more, and
rests on ids being new: what a loop waits for is no other's (`UnderwaySteps`). What the
window server leaves out of an answer is off the list by the code's own doing, and is named
(`unseen`); that a display is off the list for no other reason is the theorem.

**ConnectionProofs**, about the core from `CoreAssumption`, `RefusalAssumption` and
`NoneAssumption` (None is no error and no attempt), and about the record layer from
`RecordAssumption` (a body and a record carry one unit at least, thread 1 is a thread):

| Theorem | Says |
|---|---|
| `CoreTypes` | `Spec => []TypeOK` |
| `ReasonRight` | the reason on screen is that of the attempt on screen; nobody who typed no code is told the code is wrong |
| `SessionLasts` | an open session is on screen or on its way there, and only its host or its owner ends it |
| `RecordsTyped` | `RecordSpec => []RecordTypes` |
| `EndsStayTrue` | `RecordSpec => []EndsAreTrue`: no record fails to open, a clean end is one and loses no frame, a failure has the reason the client names or is the carrier's |
| `BothStayPipes` | `RecordSpec => BothPipes`: each direction implements Pipe under the refinement mapping |

The reason lives in a cell of a thread, so the invariant is about threads: two
attempts never have the same one (`Apart`), an attempt keeps its thread until its
reason has been read, and in between the cell holds the reason of its error (the
per-attempt conjuncts of `Inv`). The screen (`Screen`) is about the newest attempt,
so an older one that ends late closes what it opened.

`RecordInv` reads a direction as one sequence of units (`Stream`: the verdict, on the way
down, and then frame after frame) which records cut at `c[0] < c[1] < ...`; that sequence `c`
is the witness of `Flow`, and sealing only makes it longer. Everything on the way is a
stretch of it: what the writer has sealed ends where its place between length and body says
(`Written`); the pieces in its hand, on the wire and at the reader follow one another,
numbered from the first that has not been opened (`Carried`), of which a cut only takes the
end away; and what was opened is the frames received and a rest shorter than one (`Read`).
The lemmas about `seal`, `feed` and `next_frames` say what they make of such a stretch
wherever it was cut (`Sealing`, `Feeding`, `Framing`), so a reader of any direction is one
argument. `OneWriter` is why records reach the wire in the order of their numbers. `Turns`
and `Answered` say who may be where in the handshake and what is under way meanwhile, which
is what a client concludes from when its peer closes (`Reported`).

**RemoteBridgeProofs**, from `BridgeAssumption`, for any number of sessions,
messages and units, frames of any size and any room in the WebSocket:

| Theorem | Says |
|---|---|
| `BothEndsSound` | `Spec => []BridgeSound` |
| `BothWays` | `Spec => Pipes`: each direction implements Pipe under the refinement mapping |

`IInv` follows a message through every place it may be in. `Queued` and `Upstream`:
what the host has, then what the TCP connection, then what the WebSocket brings are
the guest's messages one after the other, with the room's signals only where
`Announced` allows them. `Delivered`: what the guest has, the WebSocket, the
channel, the chunk in the reader's hand and the connection are pieces of the host's
stream, each starting where the one before ends; a function of places to numbers
witnesses it (`Span`, `Piece`), and appending, taking and splitting chunks are lemmas about
such functions. `Framed`: a bridge that reframes carries whole frames. `Control` ties
the thread's place to the socket, the reader and the panel. A `Pipe` step is then
read off: an action either appends to one end, moves the other within it, begins a
new session, or stutters.

**DesktopProofs**; the one assumption on the constants is `PanelsAssumption`, that a monitor's
sides are natural numbers (the code has them as `u32`):

| Theorem | Says |
|---|---|
| `PictureStaysWhole` | `PictureSpec => []PictureWhole`: no frame is decoded without the one it was coded from, none is shown twice or late, all are of the client's own display |
| `KeysStayTrue` | every key a client sends is pressed as that key on Linux and Windows and as one of its own on a Mac (`TablesAgree`), and no two characters Linux types come out of the same keys (`CharsApart`) |
| `HeldStaysHeld` | `ControlSpec => []HeldIsHeld`: what is down at the host was pressed by its client and is held still, but for what was pressed when control was given up (`abandoned`) or down before the connection (`carried`); a drag is posted as one |
| `AccountStaysKept` | `PanelsSpec => AccountKept`: at rest the token is the session's, and the file too unless its last save failed; who signed out stays so, through restarts, until a code is accepted; unless that save failed (`unsaved`) or a session was being fetched (`raced`) |
| `ViewerStaysTrue` | `PanelsSpec => []ViewerTrue`: the viewer shows a connection while its client runs |
| `SizesStayTrue` | `MediaSpec => []SizesTrue`: for monitors of any sizes, the size reported is even, decodable and of the panel's shape; a frame has the size its encoder was told |
| `BindingsStayAgreed` | `MediaSpec => []BindingsAgree`: both bindings tell their app the same whatever the event before was, and a picture its own slot and bytes |

`Led` says there is a number w, the last frame written, such that the messages in the
socket lead the decoder to w and, while the stream goes on, the channel with the
callback's frame leads from w to the last frame coded; `Chain` states "leads" by a
witness from places to frame numbers, with lemmas for its ends, tail and
append. `Opening` says that the message that opens the stream is ahead of its first
frame and of nothing else.

`ControlInv` reads the inputs on their way: when the last of them has been injected, what is
down by this connection's doing will be what the client has pressed (`Settles`: the last input
that alters a key says), and a drag underway finds its button down (`MacInv`). The tables are
large, and `TablesAgree` splits them into the rows they are written in. `AccountInv` says what each
place of the panel's threads knows of the sign-in in memory and on disk (`Places`), as long as
the user did not sign out during a fetch, and of the file as long as its last save did not fail
(`Filed`).

The sizes are three roundings one after the other: a preset's percentage is off by less than
two pixels a side (`Near`), the cap to what a decoder takes scales that error down and adds
three of its own (`ScaledFacts`, `Shape`), which leaves the bound of five. It holds of
monitors wider or taller than any the run has, for which a bound in pixels of one side
against the other (rather than of both, as `SizesTrue` has it) would not. `MediaInv` keeps
the fields of the Android record (`Fields`), from which both bindings' readings are computed
for each kind of event (`Same`).

Only model-checked: what else `FormsKept` says of the forms of bytes and events that
MediaPath composes (NALs, lists of windows and pixels: induction over sequences), `TypeOK`
of HostLoop and MirrorSession as invariants of their own (their inductive invariants contain
them), and all liveness. Liveness under fairness and ENABLED are outside TLAPS's reach. No
module with a theorem uses a RECURSIVE operator.

## Where the code and its text disagree

What the models show the code to do against what it says of itself. Where a property
states what is said, the configuration named checks just that property and TLC ends
it in a counterexample (they are not among the runs above).

* `MCForgetUndone.cfg` (`ForgetIsFinal`, module MCPairingStore): "Forgotten. Each device
  needs the PIN on its next connection" (`host-ui/src/pairing.rs:152`). A Forget between the
  loop's re-read of the list (`transport/src/lib.rs:474`) and its save (`:524`) is
  overwritten.
* `MCTornFile.cfg` (`CrashLeavesWholeFile`, MCPairingStore): "a crash mid-write leaves the
  old file rather than half of a new one" (`transport/src/pairing.rs:273`). Two saves at
  once share one temporary file; then a power cut can leave a list that is neither.
* `MCRestart.cfg` (`RestartRebinds`, MCHostLifecycle): "Restart re-reads the network ... and
  rebinds in one click" (`host-windows/src/gui.rs:655`). On a chosen port it does not rebind
  while the old loop has it, and leaves the host stopped.
* `MCListener.cfg` (`ListenerRuns`, MCHostLifecycle): "The thread runs until `stop` is set"
  (`discovery/src/lib.rs:83`). The restarted Linux host's listener finds the port taken
  and ends at once.
* `MCTwoScreens.cfg` (`DesktopRestored` with two loops, MCMirrorSession): "the host serves one
  client at a time" (`host-linux/src/vdisplay.rs:50`). Loops of two starts each take the
  other's second screen for the user's desktop, and leave it wider.
* `MCMirrorStops.cfg` (`EndIsSeen`, MCMirrorSession): "Ending the stream at least lets the
  client say the mirror stopped" (`host-linux/src/stream.rs:64`). It leaves the client
  connected to nothing.
* `MCRoomCut.cfg` (`HostReleased`, RemoteBridge): the room's connection breaks, and the
  bridge returns without shutting the host's socket (`web-bridge/src/lib.rs:782`); the pump's
  reader keeps it open in a read, and a host with nothing to send serves nobody else.
* `MCFreedInUse.cfg` (`FreedUnused`, CoreSession): "The background threads stop and are joined"
  (`mobile-ffi/src/lib.rs:263`). Nobody joins them, and the apps free a handle while
  their pump is inside `next_event` with it.
* `MCWedged.cfg` (`AcceptLoopFreed`, MCVideoSession): "the accept loop is free to serve the
  next client" (`host-macos/src/host.rs:477`). When the capture dies while a callback waits
  in `send` on a full channel, the barrier behind that callback waits for ever.
* `CorruptNeverOverwritten` (in the place of `FileKept` in `MCPairingStore.cfg`): "A file that
  will not parse is **not** silently replaced" (`transport/src/pairing.rs:28`, and `:127`). Opening
  does not replace it. A loop that opened it before it was damaged throws the error of its
  re-read away (`transport/src/lib.rs:474`), and writes over it when a device pairs (`:524`).
* `ListAccurate` (in the place of `RegistryTrue` in `MCVideoSession.cfg`): "keeps the shared
  `VDisplays` registry in sync so the GUI list is accurate" (`host-macos/src/host.rs:380`). An
  error of the window server counts as no displays, and one that sleeps is left out of its
  answer (`:398`): a live display is struck off and a second one made.

Smaller ones, seen while modelling and excused in a property by name or left out of it:

* The account's refresh thread may store its session after the user has signed
  out, in the file, the token and the session one after the other (`raced` in HostPanels;
  `host-ui/src/account.rs:193-195`).
* A session file that could not be removed signs the user in again at the next start, and one
  whose write was cut short signs them out (`unsaved`; `account.rs:85-111`).
* A forgotten device is let in by the list the loop had, when the re-read fails as it connects
  (`StillInHand`; `lib.rs:474`), and is back on the list when a power cut comes before the system
  has written the folder (`undone`; `pairing.rs:293`).
* A host that does not read holds the bridge in a write, though the room has ended
  (`WaitsForHost`; `web-bridge/src/lib.rs:762`).
* "We emailed a 6-digit code to" names the address in the field when the answer comes,
  which may not be the one it was sent to (`account.rs:243`).
* A phone's drag lock and then "Left click": the click's release lets the host's button go
  while the app still shows that it drags.
* Keys and buttons held when control is given up stay down at the host, and on a Mac or a PC
  also when a session ends (`abandoned` and `carried` in DesktopInput); Linux destroys its
  device with the session.
* The command-line host keeps the old display in its slot after `wait_for_display` failed,
  although the shim has let go of it; every client of that size is then refused,
  until another size is asked for (DesktopVideo). Its barrier has the same wait as the Mac's.

## Not modelled

* **Cryptography** (PAKE, Noise, the records' cipher): ideal. **Codecs**, the system's own
  capture, virtual display and input calls, the X server, ffmpeg: external, modelled by what
  the code relies on.
* **Pixel filters** (`downscale`'s weights, `bgra_to_jpeg`), mouse acceleration, wheel units.
* **The encoding of a message's fields**; the forms of bytes that decide something (frames,
  records, NAL units, window lists, parameter sets) are modelled.
* **The knowledge base, the web pages' account and saved files**: menus over a web service.
* **QR codes, Wi-Fi and firewall helpers, installers, scripts.**
* **The phone apps' and the browser's rooms and screens** beyond the life of a session
  and the reading of its events.

In what is modelled: the status line of a window, and the "Stopped" an old loop
writes over its successor's; port 0, and the table of peers of discovery; the handshake's
write time-outs (a write that fails is the peer having left; after the handshake there
are none) and the time-out of each single read of a handshake (one event); a pairing file
damaged inside a save; `forget` of a single device, which only tests call;
file permissions; devices' labels beyond whether they have been named; a clock
that jumps (`Instant` does not).

## Plan

1. **Discovery.** Peer table, expiry, own beacons filtered; status line and
   beacon flag in HostLifecycle, with the loop that writes over another's.
2. **Composition.** RemoteBridge on top of HostLifecycle, whose restarts move the port
   the bridge captured, and CoreSession on top of RecordLayer's ends instead of `Kinds`.
3. **Proofs.** The rest of `FormsKept`, as far as it needs no induction over data
   (`GrabTrue` between a grab and its picture).
4. **Two loops** in the run of VideoSession, for what `DeadEndsStream` says of one while the
   other's display is removed.
