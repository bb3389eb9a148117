# Verification of openairplay2

TLA+ models of the parts of this AirPlay 2 receiver in which several tasks,
threads or connections meet, TLC configurations that check them on small
instances, and TLAPS proofs of their main properties for every value of the
constants. Paths are relative to the repository. `PROJECT.json` holds the
machine-readable side: components, runs, mutants, the map from definitions to
source lines, findings, hazards and theorems.

| Module | What it is |
|---|---|
| `Player` | the playback thread, its flags, its channel and its callers (`openairplay2/src/player.rs`) |
| `PlaybackQueue` | the abstract queue `Player` implements |
| `Takeover` | the active-session slot and the connections that contend for it (`takeover.rs`, `server.rs`, the end of a `session.rs` session) |
| `BufferedStream` | a seek on a buffered stream: the reader's boundary and the player's request (`session.rs`) |
| `Session` | one session's requests, events and position reports (`session.rs`, `Position` in `player.rs`) |
| `EventProtocol` | the order of events `events.rs` promises a host; `Session` implements it |
| `ControlChannel` | a connection from accept to close: permits, pairing, the cipher, framing (`server.rs`, `pairing.rs`, `crypto_stream.rs`, `cipher.rs`, `http.rs`) |
| `Srp`, `Tlv` | the arithmetic of the exchange (`srp.rs`) and the coding of its messages (`tlv.rs`) |
| `Pairing` | the channel with both: what ties its abstract password check and whole messages to them |
| `HostAudio` | the ALSA ring, fades, gain and mixer of the receiver program (`openairplay2-receiver/src/player.rs`, `mixer.rs`) |
| `NowPlaying` | the publisher, the bounded broadcast and the displays' folds (`openairplay2-receiver/src/tui.rs`, `openairplay2-tui*`) |
| `DisplayClient` | the display: its client task, event loop, picker and cover art (`openairplay2-tui/src/client.rs`, `tui.rs`, `main.rs`) |
| `Roster`, `TerminalGraphics` | its list of receivers (`discover.rs`), and what its terminal can draw (`images.rs`) |
| `Startup`, `Options` | receiver processes that start, stop and crash on one machine (`main.rs`, `identity.rs`, `receiver.rs`), and their options |
| `PlayerProofs`, `TakeoverProofs`, `BufferedStreamProofs`, `SessionProofs`, `ControlChannelProofs`, `HostAudioProofs`, `StartupProofs` | proofs about the modules they are named after |
| `DisplayProofs` | proofs about `DisplayClient` and `Roster`, and about `NowPlaying` |
| `MC*` | small instances for TLC |

## The system

A sender (a Mac, a phone) opens a control connection, pairs, sends two SETUPs
and then audio on a second TCP connection. The library decrypts, decodes and
queues it; the host program's sink plays it; terminal displays show what is
playing.

| Component | State | Operations | Meets others by |
|---|---|---|---|
| Playback queue, `player.rs` | channel of commands, `pending`, `paused`, `flush_request`, `stop`; the thread's `held`, `was_paused` | `play`, `set_paused`, `flush`, `Drop`; the thread's loop | atomics and an mpsc channel; `AudioSink` calls; `pending_samples` read by the audio reader |
| Active-session slot, `takeover.rs` | the holder: connection, eviction `Notify`, token | `claim`, the guard's drop, `is_held*` | a mutex, a `Notify` permit, the closing of an mpsc channel |
| Control connection, `server.rs` | session, pairing state, cipher, guard | read, SETUP claim, dispatch, respond, close | the slot, the session, a semaphore of connections |
| Session, `session.rs` | keys and formats, latched metadata and artwork, volume, track anchor, player, tasks, guard | SETUP 1 and 2, rate, flush, volume, metadata, progress, TEARDOWN, drop | the player, `flush_until_seq` shared with the readers, the host's event channel |
| Audio reader, `session.rs` | byte buffer, packets of the last read, decoder | accept, gate, read, boundary filter, decrypt, decode, `play` | `pending`, `flush_until_seq`, the channel |
| Events, `events.rs` | an unbounded channel | `send` | session and playback thread send, host receives |
| Publisher, `receiver/src/tui.rs` | snapshot, broadcast channel | `publish`, `serve_client` | a mutex, a bounded broadcast, one TCP connection per display |
| Display, `openairplay2-tui` | screen, picker, roster | connect, retry, apply, pick | frames from the publisher, mDNS discovery |
| Pairing and cipher, `pairing.rs`, `srp.rs`, `crypto_stream.rs`, `cipher.rs` | M1–M4 progress, keys, nonce counters, two buffers | one exchange, frame, unframe | the control connection |
| Identity, `identity.rs` | a key file | load or create | the file system, other receivers |
| ALSA output and mixer, `receiver/src/player.rs`, `mixer.rs` | the one PCM, its two ring pointers, fade, gain, the control's level and switch | `write`, `flush`, `set` | the playback thread, the event task |
| Receiver program, `receiver/src/main.rs` | options, the socket file, listeners | start, run, end | other receivers on the machine |
| Discovery, `openairplay2-tui/src/discover.rs` | the roster | one signal | Avahi, the event loop |
| Parsers, decoder, Avahi's registration, layout | none that evolves | pure or I/O | calls |

What is hard here, and which property watches over it, is listed under
"hazards" in `PROJECT.json`. In short: the player is steered by
flags that its thread reads once a pass and by wake-ups that a drain can take;
the slot is handed on by waiting for a teardown that may itself be waiting; a
seek must act on audio in four places at once through two variables read by two
tasks; a session tells its host from two threads; pairing changes keys under bytes
already buffered; the ring's two pointers overtake each other, and its volume is three
writes of which any may fail; files outlive the processes that write them; a display
must converge although it may miss any number of messages.

What makes each component correct:

- **queue**: packets sound in order, never while paused; a flush discards
  exactly what its caller named; the backpressure count neither leaks nor
  underflows; nothing sleeps on work; a drop ends.
- **slot**: one device, one session at a time; the last claim wins and every
  loser is told; a claim is always answered; the slot is not leaked.
- **seek**: no audio that was not named is skipped; what was named does not
  sound again.
- **displays**: whoever stays connected ends with what the receiver knows; the
  screen names the receiver the client is connected to; Enter picks the receiver
  the user moved to; the terminal has the picture the screen wants.
- **control channel**: requests once each and in order, however they are cut into
  reads and blocks; both ends change keys at the same request; nothing of a session before
  the password is proved; who stops asking gives its place in the connection budget back.
- **session**: what the sender says of a track reaches the host inside a session,
  the latest of it; the pause indicator is the gate; the clock follows gate and anchor.
- **host audio**: audio is written where it will be heard, begins with its fade,
  and is never louder than a volume that was asked for.
- **startup**: one identity whatever crashes, unless first runs meet, and few even then; a
  receiver alone on its machine is found at its socket.

## How the models correspond to the code

### Player

Actors: the audio reader (`PassGate`, `PlayAdd`, `PlaySend`), the session task
(`SetPaused`, `Flush`, `SendWake`, and the drop in `DropRaise`, `DropSend`,
`DropJoin`), the thread (`Recv`, `LoadPaused`, `SwapFlush`, `Drain`, `Retain`,
`Pop`, `WriteChunk`). A call is split wherever another thread can come
between its atomic accesses; accesses are merged only when nobody else can tell:
`recv` with the load of `stop` behind it, a sink write with the flag loads behind
it, the `fetch_sub`s of one `retain`.

- The atomics are `Relaxed`; the model interleaves them as one sequentially
  consistent memory. Each flag is a single cell whose store precedes a channel
  send, and the channel orders it before the receive.
- A packet is the number of its `play` call. Every AAC frame decodes to the same
  number of samples, so `pending` counts packets.
- `held` is a set popped by its minimum. That this is the `VecDeque` of the code
  is the invariant `Order` of `PlayerProofs`: everything in the channel is newer
  than everything held.
- `seq.saturating_add(1)` and the two sentinels are modelled over `U64Max`, a
  parameter. Of `position` only the number of the last packet reported is kept.
- The `Stop` arm behind `recv` cannot be reached: `stop` is raised before `Stop` is
  sent.
- History: `sounding` (in the sink since its last flush), `delivered`, `cut`
  (remainder dropped at an interruption), `discarded`, `doomed` (named by a request
  while that was outstanding), `named` (by the latest call), `missed` (a drain took
  a Wake that announced something not seen in this pass).

### Takeover

One process per control connection: `Receive` (a request: phase-1 or phase-2 SETUP,
or TEARDOWN), `claim` split at its lock (`ClaimOwn`, `Claim`), its notification
(`Notify`) and its bounded wait (`Finished`, `TimeOut`), then `Grant`
(`set_active_guard`), the dispatch (`Ports`, `StartStream`, `ReplacePlayer`,
`Teardown`), `Respond`, and the session's drop (`EndSession`, `JoinPlayer`,
`Release`). Requests that touch neither slot nor device are stood for by those that
change nothing here. A token is the channel whose closing tells a claim its
predecessor is done: it is live while a claim in progress or a guard owns it.

Two parameters describe the environment and are not part of the code:

- `Timeouts`: when `TAKEOVER_TIMEOUT` may fire. `"any"`: at any moment, a wedged
  sink can outlast it. `"stuck"`: only when no connection can move, that is,
  handlers and joins are quick next to two seconds. `"never"`: not at all.
- `Crosses`: may a SETUP be read while another connection is between the start of
  its claim and its notification?

### BufferedStream

The session task handles a flush in the code's order, boundary (`StoreBoundary`)
then request (`RequestFlush`), and a second phase 2 likewise (`ResetBoundary`,
`SpawnStream`). Each stream's reader is a process of its own: `ReadSocket` behind
the gate, `LoadBoundary`, the exchange (`Consume`), `PlayPacket`. The thread is the
one `Player` describes, coarser: `TakeRequest`, `Retain`, `PlayNext`.

- A packet is its number in the order of sending; sockets, batches and queues are
  sets taken in that order (TCP, `split_blocks`). A packet may be undecodable, and
  is then dropped by `PlayPacket`.
- The sender is external, and its behaviour is an assumption: it numbers upwards,
  waits for the answer to a request, continues at the boundary or above after a
  seek, and sends lower numbers again only after the stream reached the last
  boundary. This is what the comment on `skip_before_boundary` relies on. A sender
  that re-sends lower numbers without ever reaching the boundary would still have
  them skipped.
- Boundary 0 means none, as in the code; a flush until 0 is among the calls the
  proofs range over.
- A SETUP with a bad key or format starts no reader and is left out. Pausing only
  delays the thread and is left out.
- A replaced stream's reader runs on with the same `flush_until_seq`, and its
  player's count never falls again, so it may wait at the gate for good.
- History: `named` (some flush named it after it was sent), `due` (named, with
  nothing in front of it that is kept), `skipped`, and `usurped` (a reader of an
  older stream cleared the boundary).

### NowPlaying

`Publish` (the snapshot, under the lock) and `Broadcast` are separate steps, since
the code releases the lock between them; `Subscribe`, `SendSnapshot`,
`Forward` and `Disconnect` are `serve_client`; `Read` is the display's fold.
`SnapshotApply` and `DisplayApply` are the two folds, message by message. The
broadcast keeps `Capacity` messages and overwrites the oldest; the connection
holds `WireRoom` frames before a send blocks. `Possible` restricts the events
to those a library with one session at a time can send; it relies on `OneSession`. Its
specification is `FeedSpec` over `feed`, so that one module can extend it and `DisplayClient`.

### Session

One session's task, request by request: `SetupChannels` (a SETUP that starts
nothing), `StartStream`–`Replay`–`ClearTrack`–`Spawn`–`Joined` (the buffered
phase 2, split where the playback threads can come between), `SetRateAnchor`, `Flush`,
`SetVolume`, `SetProgress`, `Describe` (metadata, artwork), `Teardown`,
`Acknowledge`, `Drop`–`Dropped`. Each playback thread is the one of `Player` as far
as reports go: `Wake`, `Take`, `Look` (the flags between chunks), `NotePosition`
(under the anchor's lock), `Report` (after it). `Played` and `Total` wrap at `Width` and
`Past` saturates, as the code does.

- `host` folds the events the way the protocol's `Snapshot` does. `last` is the
  event `EventProtocol` speaks of.
- History: `told` (the last metadata and artwork since the last end), `after` (reports since a
  thread's gate was closed).
- Flush requests act on audio, in `Player` and `BufferedStream`; here a flush is only its event.
- Decibels are integers between `MuteDb` and `FullDb`; values that are not finite do
  not move the knob and are `Acknowledge`.

### ControlChannel, Srp, Tlv, Pairing

Per connection a receiver's end `rx`, a sender's end `tx` and two wires. A request is read in
parts (`Parts`): its head, and the reads its body comes in; a part stands where its last byte
is. The sender's parts wait in `held` until `Send` writes any number of them: in the clear one
piece each, under a key all in one block, so that a block may hold a part of a request, one
request or several, and a head and its body may be in different blocks. A block is two
halves with a count, so that a read may end anywhere in it. `ReadClear` and `ReadCipher` are the
two kinds of read,
`Decrypt` and `Reject` are `decrypt_available`, `ReadHead` and `Serve` are
`read_request` and one turn of `handle_connection`, `Switch` is the installation of the
cipher after the M4 was written, `Timeout` the handshake timeout, `Eof`, `Garbled` and
`WriteFails` the ways a connection ends.

- The cipher is ideal: a block opens under its own key and count only. A key is the number of
  the exchange it came from. A block is no request either: a receiver that still reads in the
  clear makes nothing of it, and that connection ends in `Timeout`.
- That a proof verifies exactly for who knows the password is `Verifies`; `Srp` has the
  arithmetic behind it, with hashes as tuples, and `SrpAgrees` (in `Pairing`) ties the two
  together. `TlvRoundTrips` does the same for the messages' coding.
- A wrong password is told apart in the sense that its key differs for some choice of the
  ends (`SecretsDiffer`): for single choices keys do coincide, in the code too, which relies on
  there being 2^256 of them at either end.
- The sender is external: it may pipeline, break off, hang up, or make a request over its own
  unanswered M3 (`hasty`), in which case the ends may part.
- The handshake timeout is for each request (`server.rs:23`): a peer that keeps asking for what
  is served without pairing, or keeps failing its M3, stays in the clear and keeps its
  permit. `ClearEnds` exempts exactly that: it says of every connection that it is encrypted or
  closed in the end, or answered again and again for ever.
- What an encrypted session's method does is left to `Session` and `Takeover`.

### HostAudio

`lead` is ALSA's application pointer minus its hardware pointer, and `ring` what is between
them. `Tick` is the hardware, `Attach` and `Detach` the two streams over the one PCM,
`Resync` and `WriteFrame` the two locks of `write`, `Flush` the rewind. `ResyncFails` is the
pointer that cannot be moved. `Stops` is the error after which a write fails; `Recover` is
`snd_pcm_recover`, which prepares the stream anew and empty, with the same frames to be written
again, and `GiveUp` the return when that fails too. `SetVolume`,
`SetLevel`, `SetSwitch` are `HwVolume::set` with each mixer write a step, `SetFails` and
`ControlGone` its failures. `control` is one of: no mixer, a control with a switch, one without.

- A frame is its place in a fade, the gain it was scaled by and the volume wanted then.
- A recovery that leaves the stream as it was (an interrupted call, a suspend the driver resumes
  from) is a write that takes longer, and is left out. A device that fails without end would
  keep `write` in its loop: `Stops` happens `MaxStops` times at most.
- History: `slip` (the place to write at was lost where no fade follows: the ring ran dry in the
  middle of a write, the pointers stayed apart, or the stream stopped; until a frame is heard),
  `click`,
  `want`/`was` and `failed` (the volumes that may still be in force).
- `SliderToRange` is the code's rounding in integers.

### DisplayClient, Roster, TerminalGraphics

Two channels, `updates` and `selections`, join the client task (`Connect`, `Hang`, `Fail`, `Close`,
`Break`, `EndRound`, `Retry`, `Selected`), the discovery task (`Browse`) and the event
loop (`Update`, `Move`, `Choose`, `Focus`), each event followed by the redraw (`Sync`).
Hosts, Avahi's signals, the sender's pictures and the user are external. A backoff ends at
any time.

- An endpoint is an address: a local candidate, the argument, or the address in an
  advertisement. `Choose` sends the row's, and the client tries that one from then on, also when
  the same receiver is up at another.
- An endpoint may accept and never answer ("silent"): the attempt has no timeout, and the client
  is `pending` until `LateAnswer`, which nothing makes happen. That also stands for a machine
  that vanished. A connection that was live and whose receiver vanishes without closing it is
  left out: the client would take it for a quiet one.
- `Roster` handles one signal: its resolution, the entry of exactly that advertisement, and the
  rows reported; of a name's addresses it prefers the first IPv4 one.
- `TerminalGraphics` decides from the environment which protocol draws and what reaches
  the terminal. The run's environment is a Kitty terminal behind a tmux that forwards everything.

### Startup, Options

A process walks through `main`: options, identity (`Load`, `OpenFile`, `WriteFile`), devices,
`Unlink` and `Bind` of the socket, the TCP listener, `Run`, `Shutdown`, `Clean`. It may
crash at any step, and each call may fail. The files outlive it, ports and device do not.
`Options` is `parse` and `resolve` over the fields that matter, with their errors.

## What the runs show

All cfgs switch deadlock checking off: each system may come to rest, after a
drop, with all connections closed, or when a bound is used up.

| Run | Bounds | Shows |
|---|---|---|
| `player_queue` | 3 packets stamped 5, 6, 5 of 2 chunks; gate 1, batch 1; flushes of everything and until 6; 2 control calls and a drop; 336,521 states | the count is exact, a flush takes what it named and no more, nothing sleeps on work but after a missed wake, `ImplementsQueue`, everything plays, a drop returns |
| `player_lost_wake` | 2 packets, 3 calls | `ResumePlays` fails |
| `takeover_chain` | 3 connections, 3 requests each, orderly and quick; symmetric; 317,390 states | one device, one session, last stream wins, losers are told |
| `takeover_any` | 2 connections, 3 requests, crossing, timeouts at any moment; 166,972 states | no leak, every claim is answered, every evicted connection closes |
| `now_playing` | 1 display, 2 connections, 4 events, 2 payloads, 2 messages kept, 1 frame in flight; 1,351,323 states | nothing is lost, displays catch up |
| `buffered_stream` | 2 streams, 3 packets, 2 flushes (of everything, until 2, until 3), batch 2, gate 1; 790,263 states | no wanted audio skipped, at most one packet slips |
| `session` | 5 requests, 2 streams, 2 payloads, 2 tracks of which one wraps, words of 3 bits, 2 frames a second; 150,660 states | nothing said is lost, the pause indicator is the gate, the clock stops with it and is stale for a second at most, `ImplementsEvents` |
| `control_channel` | a sender with the password (4 requests) and one without (3), 1 to 3 parts each, 1 permit, 3 pieces on a wire; prime 7; fragments of 2; 610,306 states | requests once each and in order, keys in step, password first, who stops asking in the clear ends, SRP agrees, TLV round trips |
| `host_audio` | a ring of 3 frames, chunks and fades of 2, 2 streams, a stop, 3 volumes set out of mute, bottom and middle, 3 kinds of control; 1,004,810 states | no click but one after a gap the code cannot see, no burst, writes ahead of the hardware that return |
| `display_client` | 2 local candidates, 2 receivers of which one is on two nets, a channel of 1, 4 outside events; 779,268 states | the screen tells the truth once it has caught up, choices are aimed, the list is current, the picture agrees, a host that is up is found unless an attempt hangs |
| `startup` | 2 processes at a time, 4 starts, 5 settings; symmetric; 293,330 states | one identity unless first runs meet, then at most one for each process, a lone receiver is reached |
| `startup_socket` | 2 processes, 2 starts | `LastStarterWins` fails |

Why the bounds are enough to meet the cases. *Player*: three packets put one in the
sink, one in the hold buffer and one in the channel or the call, on both sides of a
boundary, with a lower stamp re-sent behind a higher; two control calls and the
drop give pause–flush, flush–flush, pause–resume in all orders against each step of
the thread. *Takeover*: three connections give a chain in which the middle one is
evicted while it waits. *NowPlaying*: two messages kept and four events overflow the
broadcast; displays do not interact, so one is enough. *BufferedStream*: three packets
and two flushes put a second boundary between the load and the exchange of the first.
*Session*: five requests are a latched item, a stream, a pause and a second stream with its
end in any order, while the first thread still reports; the second track crosses the wrap.
*ControlChannel*: four requests are M1, M3 and two pipelined behind them or a second
exchange; three pieces end a read inside a block or between two blocks of one request; one
permit makes the two connections contend.
*HostAudio*: chunk and ring are not multiples of each other, so writes block in the middle;
a lag of two underruns it; one stop is before, during or after a write; three sets are
one that goes through between two that may fail.
*DisplayClient*: a channel of one makes the client wait for the screen; four events take an
endpoint down and up around a choice. *Startup*: four starts are a crashed first run, its
successor, and two that overlap with it. What does not depend on a bound is proved below.

Fairness. `Player`: the thread, the reader (the sender keeps sending), and calls
that have begun are weakly fair; nothing makes the session pause, flush or drop.
`Takeover`: each connection's task, its timer included, as the tokio runtime runs
every task that can move; none on the sender. `NowPlaying`: the event
task and the tasks serving connected displays; nothing makes a display connect or
stay. `ControlChannel`: each connection's task and timer, and the sender's reading:
a response is written in the clear without a timeout, so a sender that reads nothing
could hold its permit. `HostAudio`: the hardware clock once it runs, and a write that has
room or fails. `DisplayClient`: its three tasks; not the hosts, nor the user, nor an answer to
a hanging attempt, so `HostFound` supposes that attempts do not hang for ever. `Session`'s
`FairSpec` runs its own steps and threads, and its properties are safety. `Startup` and
`BufferedStream` assume no fairness.

### Disagreements found

Shown by a run:

1. **Lost wake** (`player.rs:327`, run `player_lost_wake`). The drain of a flush
   swallows the Wake of a resume made after the pass loaded `paused`; the thread then
   sleeps on held audio with the gate open until another command comes.
   `AsleepHasNoWork` shows this is the only way it can sleep on work.
2. **A socket taken away** (`receiver/src/main.rs:899`, run `startup_socket`). A
   receiver that ends removes whatever is at its socket path, also a later starter's.

Met while modelling; the models contain the behaviour, and the properties are stated
around it:

- A pause drops the chunks not yet written of the packet in hand (`player.rs:372`),
  though "pause holds; it never drops". `ImplementsQueue` lets a packet be cut.
- A SETUP read before its eviction is seen claims the slot back (`takeover.rs:75`),
  and two such claims wait for each other until both time out and both play
  (`takeover.rs:92`). `takeover_chain` and the theorems say so in their hypotheses.
- One packet past the boundary check when a flush is stored plays after the flush
  (`session.rs:669`). `AtMostOneSlips` says it is never more.
- `events.rs:84` says the queue was dropped when `Flushed` is sent; it is only requested.
- The volume of an ended session stays on displays that were connected
  (`openairplay2-tui/src/tui.rs:271`), not on those that connect later. `NothingIsLost`
  leaves the volume out.
- A connection to a local receiver that breaks with an error, rather than closing, is
  not reported to the screen in local mode (`client.rs:263`), although `client.rs:170`
  says what a stale "connected" screen would be. `ScreenTells` speaks of the wait after
  the round, when the picker has opened or the screen was told. A choice made while
  a local session is live waits for its end.
- Under tmux's allow-passthrough "on", the delete of a picture in a pane that went out of sight is
  dropped, and artwork that ends meanwhile stays. `PictureAgrees` is stated for "all".
- A write that fails prepares the stream anew and goes on with the fade where it was, mostly at
  full scale (`receiver/src/player.rs:798`), though "the opening frames after a start" should be
  faded (`player.rs:433`). `NoClick` allows one such beginning for a stream that stopped.
- Connecting and the WebSocket handshake have no timeout (`client.rs:234`, `client.rs:244`): an
  endpoint that accepts and never answers holds the round for good, no choice is taken, and a
  local receiver that appears does not win, as `client.rs:148` has it. `HostFound` supposes that
  no attempt hangs for ever.
- The handshake timeout bounds each request and not the time in the clear, so "a task held open
  indefinitely" (`server.rs:27`) is denied to who dribbles bytes, not to who keeps asking.
- Where `snd_pcm_forward` fails, `resync` still says that it has moved the pointer
  (`player.rs:773`), and a chunk is lost behind the play position. `WrittenAhead` allows it.
- A mixer set that fails halfway can leave the gain at 0 or the level changed, where
  `mixer.rs:104` keeps "the old level". `NoBurst` shows it is never louder for it.
- A crash between the truncation and the write of the identity file leaves a file every
  later start refuses (`identity.rs:100`), and of two first runs that overlap one serves an
  identity the file lost. `IdentityStable` allows for the second, up to one identity for each process.

## What is proved

Assumptions: only the modules' named ASSUMEs about their constants (sizes are naturals,
boundaries and volumes are in range, the mute is below the slider, SRP's modulus is a prime
and its generator a primitive root of it, as those of `srp.rs` (RFC 5054, 3072 bits) are, absent values are none of the
present ones, processes are finitely many, the roster's names are listed without repetition, as the `BTreeMap` keyed by name does),
which TLC also evaluates. The theorems that need an environment state
it in their hypotheses.

**PlayerProofs**, for any number of packets, chunks and calls. `TypeCorrect`
(the count never underflows), `CountExact` (`PendingCounts`), `Bounded`
(`QueueBounded`), `PauseSilences` (`PausedIsSilent`), `FlushIsExact`
(`FlushExact`), `FlushIsComplete` (`FlushReaches`), `NoWorkAsleep`
(`AsleepHasNoWork`), `PlayerRefinesQueue` (`ImplementsQueue`). None of these is
inductive by itself. The invariants, each inductive relative to those before it:
`Typed`; `Shape` (what each program counter implies about the locals); `Order`
(where a packet is, it is alone, and newer ones are behind it); `Counts` (`pending`
is the cardinality of what is outstanding); `Doom` (whatever the pending request
asks for is already doomed); `Reach` (whatever the latest call named is still
ahead of the drain); `Awake` (a changed flag is announced by a Wake in the channel
or in the call, or was missed). The refinement maps every step to one step of
`PlaybackQueue` or a stutter.

**TakeoverProofs**, for any set of connections. Unconditionally: `TypeCorrect`,
`SlotNotLeaked` (`HolderIsAlive`), `EveryLoserTold` (`LosersAreTold`). With
`Orderly` (no crossing): `LastWins` (`LastStreamWins`). With `Orderly` and `Quick`
(a wait does not run out while somebody can move): `OneHoldsDevice`
(`OneDevice`), `OneSessionAtATime` (`OneSession`), `VacantMeansSilent`
(`VacantIsSilent`). The argument: tokens are numbered in the order of claims,
whoever waits waits for the next lower token, and the owner of the least live
token can always move (`NoTimeOut`); so a wait ends because its predecessor let
go, and by then its sink is joined. `Orderly` is needed: with `Crosses` TRUE, TLC
violates `LastStreamWins` and `OneDevice`.

**BufferedStreamProofs**, for any number of streams, packets, flushes and any
sequence numbers. `TypeCorrect`; `NoWantedLost` (`NothingWantedSkipped`);
`BoundaryOutlivesRaces` (`ClearedWhenReached`); `OnlyOneSlips` (`AtMostOneSlips`).
The invariants:

- `Fifo`: packets keep their order from the socket to the sink.
- `Reached`: a packet about to consume a boundary has reached it.
- `Wanted`: a packet that the boundary would skip without any flush having named
  it stands behind one that will clear the boundary first. This needs the
  sender's side too: it goes below a boundary only once it has sent something at
  or above it.
- `AllButOne`: a due packet that is still in the socket meets the boundary before
  anything that clears it; one in the queue or the sink meets a request not yet
  served; and only one packet, that in the reader's hand when the boundary was
  stored, is exempt.

**SessionProofs**, for any number of requests, streams, tracks and payloads, any word
width and rate. `TypeCorrect`; `LatestIsTold` (`NothingUnsaid`); `IndicatorIsGate`
(`PausedMeansPaused`); `ClockFollowsGate` (`ClockStops`); `StaleIsBrief`
(`StaleForASecond`); `PromiseKept` (`ImplementsEvents`, every step maps to a step of
`EventProtocol` or a stutter). The invariant `Inv` is the conjunction of

- `Room`: a stream being set up has a thread left to start;
- `Telling`: a report about to be sent is of the second its thread has noted;
- `Order`: what each program counter implies about `active`, that `active` is the host's
  view of it, and that nothing is latched while a stream is served;
- `Gate`: a stream being set up has an open gate, one that is served the host's;
- `Budgeted`: reports since the gate closed, plus those the thread's place still allows,
  are at most two;
- `Stands`: threads not yet started are idle, and whatever position is shown has a thread that
  vouches for it, unless it is of the current anchor. The step that needs care is `Spawn`: the
  record it overwrites vouched for nothing.

**ControlChannelProofs**, for any connections and requests. `TypeCorrect`;
`ServedWhenPaired` (`PairedFirst`); `HandledInOrder` (`InOrder`); `EndsInStep`
(`InStep`). Three invariants, the later ones relative to the earlier:

- `GateInv`: the types, in which every request, wherever it is buffered, says whether its
  sender knows the password, with `Gate`: who is encrypted, about to be, or was served a
  session's method knows it.
- `AllOrdered`: over everything not yet handled - decrypted, read but not decrypted, on
  the wire, held by the sender - the parts stand in the order of sending (`Sorted`), the halves
  of a block stay together (`Cut`), what is not written comes last (`Queued`), and of every
  request between the last handled and the last made the part that completes it is there, but
  for those at the end that a sender that is gone had not written (`Complete`).
- `AllKeyed`, for a sender that waits for the answer to its M3: the responses on their way open
  in turn under the sender's key (`Answers`), what is on the wire is under one key with the
  counts the receiver will use (`Framed`), both agree on whether the next M3 changes keys
  (`Agreed`), and between an M4 that does and its reading nothing is in flight (`Announced`).

Of what the pairing messages carry: `SecretIsShared` and `SecretsAreTold`, joined in
`PasswordDecides` (`SrpAgrees`); `DecodesEncoded` and, for the messages of the run,
`ResponsesReadBack` (`TlvRoundTrips`).

- The arithmetic is for any prime and any primitive root, all secrets, multipliers and scramblers.
  `ModPow` is what its recursion says (`ModPowSteps`) and respects congruence (`Cong`), sums and
  products of exponents, so both ends raise the generator to (a + x u) b (`ServerPower`,
  `ClientPower`). The key is not zero because a product modulo a prime vanishes only with a factor
  (`NoZeroDivisors`, from the least multiplier that makes one vanish). Only that two
  passwords are told apart needs the primitive root, which gives them different verifiers.
- The coding is for any fragment size, any types and bytes, any number and length of items.
  `Decode` and `Encode` are unfolded item by item (`DecodeAppend`, `FlattenIs`); an item's first c
  fragments are read as its first c chunks joined (`ItemReads`), each but the last being
  full. The hypothesis `Separable` is needed: a value of a whole number of fragments swallows
  a successor of its type.

**HostAudioProofs**, for any ring, chunk, fade, volumes and mixer range. `TypeCorrect`;
`FadesIn` (`NoClick`); `AheadOfHardware` (`WrittenAhead`); `NeverLouder` (`NoBurst`).
`SliderInRange` and `SliderAtTop` bound the rounding. `Playing` says where the fade must stand
for each position of the two pointers, also after a stream has stopped and was prepared anew; `Loud` says, for each kind of control,
which of `want` and
`was` bounds the level while a set is under way, done or failed. Each scaled sample
carries `Fits`, so that no later set can make it louder.

**StartupProofs**, for any processes and starts. `OneIdentity` (`IdentityStable`): as long as
no first runs met, at most one process is between generating and writing; until it has
written nothing was served, and from then on every identity in use is the file's.
When first runs did meet, the bound is the number of processes: until one of them has opened the
file nobody is further (`Unopened`), and from then on the identities there are (`Known`: those
served, those processes have, the file's) only become fewer, since nobody finds the file absent
again. They were at most one for each process when the file was opened. `LoneReceiverIsReached` (`AloneIsReached`).

**DisplayProofs**, for any roster of advertisements, hosts, covers and terminals, any size of
the update channel (the run has 1), any number of displays and events and any capacity of
channel and wire. Of the client: `TypeCorrect`; `ScreenIsTold` (`ScreenTells`);
`ChoiceIsTheAim` (`ChoiceIsAimed`); `ListIsRoster` (`ListIsCurrent`); `PictureIsWanted`
(`PictureAgrees`). Its invariant `IInv` joins to the types one part for each pair of actors:

- `Standing`: the browser's signals of one advertisement alternate, the last agrees with the
  network, and what the roster has of it the first of them takes away. An advertisement with
  a signal under way is not counted as found; one without is in the roster exactly if found.
- `Listing`: the last list in the channel, or with none the screen's, is `Receivers` of the roster.
- `Telling`: what the client last said, of all but pictures and lists, agrees with where it
  stands: the endpoint while it is live, an end or the picker while it waits. A choice keeps
  the part about the connection true by being in the channel of selections.
- `Aimed`: the highlight is inside the list, and on the row the user moved to, by name.
- `Drawing`: the last focus event is the pane's state, and the picture follows what is drawn.

`ReceiversRows` states what `Receivers` computes (rows of the names seen, in order, each once);
`ChoiceIsTheAim` needs no more than `Aimed`. `ScreenIsTold` rests on `Told` and `Settled`, with lemmas
on what appending to a queue and taking from it do to them.

Of the feed (`NowPlaying`): `NothingLost` (`NothingIsLost`) and `FeedTypeCorrect`
(`FeedTypeOK`). `After(s, q)` is state `s` after messages `q`, and the invariant says, per display:

- `Held`: the snapshot stands when everything the channel still keeps for the display is applied to
  it again. This is why a snapshot read late, with older messages behind it, does no harm.
- `Reached`: a display that is not behind comes to the snapshot by the wire and the channel.

Both are about all fields but the volume. They rest on lemmas about the fold: it composes over
concatenation (`AfterBoth`); each message sets a field outright or leaves it alone, and so does a
sequence (`Effect`, `AfterField`); a state that a sequence leaves alone is left alone by each of its
suffixes (`SuffixKeeps`: the channel overwrote its oldest), and by the sequence with a message
applied before and after it (`AheadKeeps`: the snapshot ran ahead of the channel). These
are inductions over sequences of messages, done by a set of lengths that contains 0 and successors
(`SetInduction`, from the library's well-founded order on the naturals), since the prover
cannot instantiate an induction principle that takes a predicate.

## What is only model-checked

- Liveness (`EverythingPlays`, `DropReturns`, `ClaimReturns`, `EvictedCloses`,
  `CatchesUp`, `ClearEnds`, `WriteReturns`, `HostFound`): the prover does not reason
  about fairness.

## What is not modelled

- AAC decoding (a third-party decoder behind a call) and FairPlay's constant tables.
- Avahi's registration of the service: D-Bus I/O without a state of its own. What a display
  sees of it is an external action of `DisplayClient`.
- The ciphers' and hashes' arithmetic: they are ideal.
- DMAP, plists, MAC addresses, the JSON of the display protocol, the bytes of audio
  packets: pure conversions with no state.
- Layout, colours and gauges of the screen, the escape sequences of the image protocols,
  help texts, device listings, logging.
- The password check of the display's network listener (one comparison before
  `serve_client`), and the display's own argument parsing.
- The decryption, decoding and block splitting of the audio reader: a packet arrives
  whole and is decodable or not.

## Plan

Done: all modules of the table above, and the proofs: every safety and action property the runs
check is a theorem; liveness is not. Left, in order:

1. `Session` and `Player`: the abstract thread of `Session` and the detailed one of `Player` report
   positions alike; a refinement would say so.
2. The password check of the display listener and its effect on `DisplayClient`'s
   "locked" hosts; RTP packets that arrive in pieces, in `BufferedStream`.

Parameters stay CONSTANTS with weak, named assumptions, and modules to be proved about
declare no recursive operator.
