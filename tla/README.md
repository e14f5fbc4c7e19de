# K4remote: specifications, model checks and proofs

K4remote is a remote control for the Elecraft K4 transceiver: it keys a radio
transmitter over a network, lets other programs key it through a CAT server,
sends and plays audio, tunes an amplifier, shows what other stations report, and
keeps a log of contacts that must not be lost. This directory holds TLA+ modules
of the parts where order, failure and concurrency decide whether that is right,
the TLC configurations that check them, and theorems checked by TLAPS. File and
line references are relative to the repository's root; the modules name what
they model.

    tlasany M.tla                              parse
    tlc -workers 2 -config X.cfg M.tla         check; "runs" in PROJECT.json pairs them
    tlapm M.tla                                prove, M one of SessionProofs,
                                               ConnectionProofs, CatClientsProofs,
                                               LogQueueProofs, TxAudioProofs,
                                               PolledSourceProofs, StreamsProofs,
                                               DeskProofs

## 1. Inventory

### How the program runs

| actor | code | talks to the others by |
|---|---|---|
| UI thread | `app/src/main.rs`, `ui.rs`, `log_ui.rs` | commands into a channel of each worker; reads the snapshots they publish, ten times a second; key and mouse events queue until it handles them |
| worker thread | `app/src/worker.rs` | owns the `Session`, the audio devices, the CAT server; a loop: drain commands, collect a finished connect attempt, DTMF, service the link or start the next attempt |
| connect threads | `worker.rs` `open_link`, `k4-transport` | one result over a channel of their own, which the worker may have dropped meanwhile |
| CAT server threads | `k4-catsrv/src/server.rs` | accept, one reader and one writer per client, over one locked table; events (connected, line, disconnected) into a channel the worker polls |
| audio callbacks | `k4-audio/src/device.rs` | rings shared with the worker |
| logging worker | `app/src/wavelog.rs` | commands from the UI; a directory of files shared with other instances of the program; HTTP to Wavelog |
| lookup thread, keychain threads | `app/src/wavelog.rs` | one newest answer in a shared handle; the system's keychain |
| spot worker | `app/src/spot_sources.rs`, `k4-spot` | commands from the UI; polls each source in turn, publishes a status; a thread of its own per HTTP request |
| amplifier worker | `app/src/kpa.rs` | commands from the UI, a snapshot back |

### The components

**Session** (`crates/k4-session`). State: arm, voice, tune and raw-transmit
flags, the client's opt-in, since when a client keys and how long it may, the
ages of the last frame received and the last PING. Operations: arm, disarm,
key, unkey, key for a client, tune, stop, raw commands, the periodic `tick`,
`pump` of what arrives. Hard: three parties (operator, client, raw commands)
reach one transmitter by different methods; flags are what the *client* thinks,
the radio may think otherwise; one `tick` does one of three things. Correct
when nothing goes on air unarmed, a stop stops everything, a client's hold ends
with its licence and its time, the keep-alive is not starved and a dead path is
noticed.

**Worker: CAT clients** (`worker.rs` `service_catsrv`, `k4-catsrv`). State: who
keyed, the CAT audio device, the grace period, the server's clients and their
queued events. Hard: events of clients who left are still queued; commands of
the operator fall between any two of them; the session may vanish. Correct when
a client keys through the gate only, never ends the operator's transmit, and a
client that leaves does not leave the transmitter on.

**CAT server** (`k4-catsrv/src/server.rs`). State: the table of peers with their
bounded outgoing queues, the events. Hard: a client is closed from four places,
by three kinds of thread. Correct when the worker hears of every end, once.

**Worker: connection** (`run`, `begin_connect`, `poll_pending`, `service`,
`Backoff`). State: what was asked for, the attempt in flight, the next attempt,
the back-off, the session, the phase. Hard: results arrive after cancels;
retries are scheduled, cancelled and begun in different places. Correct when the
phase does not lie, nothing connects unasked and a wanted session comes back.

**Transmit audio** (`service`, `k4-audio` rings). State: two rings, the source
the buffer was last flushed for. Hard: the owner changes between two passes.
Correct when what goes out was captured since the key by the right source.

**Receive audio** (`service`, `k4-audio/src/jitter.rs`). State: the frame due,
the frames that wait, by a counter modulo 256. Hard: early, late, repeated and
restarted differ by a distance only. Correct when frames play once and in order,
and a stream that looks late is heard again.

**QSO log** (`k4-log` queue, `wavelog.rs`). State: one file per QSO, the sender
lock, each instance's pause, wait and setup. Hard: crashes and power losses
between a write and its flush, lost replies, several instances. Correct when no
QSO shown as queued is lost, a resend is not taken for somebody's duplicate, a
discard is final, and the queue empties when it can.

**Logging form** (`log_ui.rs`, the lookup's and the keychain's threads). State:
URL, token, station location, whether lookups are off, the newest answer, the
newest test report. Hard: every answer is about settings that may have changed.
Correct when a refused token rests, and the keychain follows the form.

**Spots** (`k4-spot`, `spot_sources.rs`). State: per source its connection,
wait and back-off; the worker's settings and statuses; a bounded store that
merges reports of a station. Hard: late answers, refusals that cross requests,
settings that change under way. Correct when a source delivers only what is of
its present session, waits as it should between failures, the published status
is that of what runs, and the newest word of a station survives.

**TLS trust** (`app/src/tls`, `main.rs`). State: the certificates approved per place,
the one pending, the one drawn. Hard: refusal, drawing, click and handling are
four moments. Correct when a connection opens only with what was approved there.

**Amplifier tune** (`main.rs`, `kpa.rs`, `worker.rs`). State: the tune in hand,
two command channels, two snapshots. Hard: keying and ending go over different
threads and links. Correct when a carrier always has its end.

**Push-to-talk hotkey** (`main.rs`). State: what is held, what is to be
captured, the snapshot. Hard: press, release and clicks interleave with commands
still on their way. Correct when a hold ends.

**CAT response cache, framing, parsers, settings, drawing, build tools**: pure
functions or I/O around libraries; `PROJECT.json` lists each with its reason.

`PROJECT.json` "hazards" lists what in this code is hard to test, each at its
line and with the property that covers it.

## 2. The modules

| module | models | composed of |
|---|---|---|
| `TransmitOwner` | what the interlock promises: who owns the transmitter, and how that may change | abstract |
| `Session` | `k4-session`, the two raw-command classifiers of `k4-protocol` | refines `TransmitOwner` |
| `CatClients` (`CatClientsMC`) | `service_catsrv`, the commands that touch a client's transmit, `k4-catsrv`'s policy | `S == INSTANCE Session` for every call on the session |
| `CatServer` | `k4-catsrv/src/server.rs`: accept, reader, writer, table, queues | |
| `Connection` | the worker's loop, connect threads, `Backoff`, the connect button | |
| `TxAudio` | the TX audio part of `service` and the capture rings | |
| `Jitter` | the RX audio part of `service` and the reorder buffer | |
| `SpotSource` | what every source of spots promises of its attempts | abstract |
| `PolledSource`, `TelnetSource`, `MqttSource`, `FreeDvSource` | the four kinds of source | each refines `SpotSource` |
| `SpotFeed` | the spot worker and its commands | a source is what `SpotSource` promises |
| `SpotStore` | the bounded store | |
| `LogQueue` (`LogQueueMC`) | `k4-log` queue, `reply.rs`, `wavelog.rs` worker | |
| `LogForm`, `LogToken` | the form against its lookup thread and Test; the token and its keychain threads | |
| `CertTrust` | approval of certificates | |
| `AmpTune` | the amplifier's tune | |
| `Ptt` | the push-to-talk hotkey | |
| `StreamsMC`, `DeskMC` | for TLC: several of the above as parts of one run; a behaviour is of one part, for they share no state in the code | `INSTANCE`s of their parts |
| `*Proofs` | the theorems, section 5 | extend what they prove about |

Operators named *Mutant* in a comment are wrong forms of a definition, used to
see that a property can fail; nothing else refers to them.

### Session

A method of the Rust type is an operator from a session record to the record
after the call and the commands it sends (`Does`). An action is one call: it
installs the record and lets the radio hear a prefix of the commands (`Send`:
the path may break at any command, and may swallow writes without an error).
`on_air` is what the radio really transmits; it is driven by the commands alone,
so the interlock properties compare the code's flags with the radio. Reports
travel back in `replies` and may be older than the last command. Time is kept
as ages in units in which `tick` is sure to run once (the worker calls it every
pass, far more often than any threshold), so `ticked` says whether it has. Raw
commands are one per class the code or the radio tells apart.

### CatClients and CatServer

In `CatClients` one step is one command of the operator, one pass of the
session, or one event of the server; the worker is one thread, so each is
atomic. Clients connect, send and leave in between and only append to `events`.
Each line's verdict (`Verdict`) is `k4-catsrv`'s `handle`; the worker's part
follows it, including what it does when there is no session. `keyed_by`, the
opt-in and the CAT audio device are kept apart because the code keeps them
apart. Answers to queries are left out.

`CatServer` is the layer below: a step is what a thread does under one hold of
the lock, one read or write, or one event sent. A client may stop reading (its
writer hangs, its queue fills), leave, or be closed by the worker, by a full
queue, by a failed write or by its reader. `CatClients` takes from it that every
end is told, which `EveryEndIsTold` states.

### Connection

The loop of `run` is four steps in turn, `at` says which is next; the commands
queue in `cmds`. A connect thread ends when it likes; its result is collected
or, after a cancel, dropped with its channel. The UI acts on `seen`, which only
`Look` refreshes: an operator with `hasty` clicks before the last act shows.
Which kind of operator it is, is chosen in the initial state (`Paces`).
Of the session only who it is with and whether it is keyed remains.

### TxAudio and Jitter

`TxAudio` keeps frames as their source and whether they were captured before the
key that is down. `Rekeys` lets a transmit end and another begin between two
passes of the worker: with it the code sends stale audio (section 4), without it
it does not.

In `Jitter` a frame carries the wrapping counter the code sees, and its number
in the radio's stream, which only the properties see. The path loses, repeats
and reorders within `Spread`; a pass pushes a batch and pops until nothing
comes; the radio may restart its counter anywhere.

### Spot sources

A source is cut at each `poll`, the one call the worker makes. `wait` is what is
left until `next_attempt`; a poll that connects may take `Slow` units, and the
wait that follows its failure has begun when the poll did. What travels is in a
short queue each way; of a line, packet or answer only what a poll tells apart.
`history` variables carry which request, login or session a message belongs to.
`SpotSource` is the promise: an attempt only when the wait is over, after a
failure the wait that the failures so far earn, a fresh back-off only after the
far end proved itself. `SpotFeed` builds on that promise, not on the sources.

### SpotStore, LogForm, LogToken

`SpotStore` keeps the list's order, because an insert takes the first match and
an eviction moves the last into the hole. In `LogForm` tokens, locations and
answers carry, unseen by the code, the server they are of. In `LogToken` a
thread per change writes the keychain in whatever order; `apart` says that a
write began beside another or was refused, when the code gives no promise until
the next write.

### CertTrust, AmpTune, Ptt

All three separate what the window shows (the last tick), what the user does to
it (an event or a click, handled later) and what the worker does (a command,
taken later). In `CertTrust` a click carries what the code carries: the
certificate, or the *index* in the list. In `AmpTune` each link may fail at any
time and the clock of the time-out counts ticks. In `Ptt` the keys the operator
holds and what the window believes held (`down`) are different variables.

### LogQueue

The directory is two functions, what the file system shows (`dir`) and what a
power loss leaves (`durable`); they meet at the flush of the directory. The
worker's thread is cut at every access to the directory or the server: `.tmp`
written (`Writing`), renamed (`Rename`), flushed (`Written`), request made
(`Call`), answer acted upon (`Answered`). Between any two cuts the instance may
be killed, the power may fail (undoing any part of what was not flushed), the
other instance may act or start - and starting removes the `.tmp` files of both.
A request may be stored whether or not an answer comes back. `confirmed` is what
the operator was shown as queued; `disturbed` marks the QSOs a fault hit while in
hand, for which the code cannot know whether a duplicate is its own.
Simplifications: a QSO's number is its place in the queue (the code orders by
second of logging and then by a random id); flushing the directory works (the
code ignores its failure); a command may come between the requests of one round
of steps, where the code finishes the round; `MAX_ENTRIES` is checked when the
code checks it, so two instances adding at once, or a removal undone by a power
loss, can pass it - which nothing else relies on, so no property forbids it.

## 3. The runs

| run | what it shows | bounds and why they are enough |
|---|---|---|
| `session_air` | `Interlock`, `StopSilences`: no emission begins unarmed or unconnected; the stop ends all or the path is broken | one raw command per class; the smallest times, since neither property looks at a clock |
| `session_time` | `ClaimLicensed`, `HoldBounded`, `KeepAlive`, `KnowsWhatItKeyed`, `DeadPathNoticed`, and that `Session` implements `TransmitOwner` (`OwnerSpec`) | two client limits (one may be changed to the other while held), a time-out longer than the PING interval; raw commands that do not key, because `KnowsWhatItKeyed` speaks of what the methods keyed |
| `cat_gates` | `OptInHasAudio`, `NothingLeftBehind`, `ClientsKeyThroughTheGate`, `OperatorUndisturbed` | two clients (holder and other), every kind of line, one event waiting, the server switched off and on |
| `cat_holder` | `HolderKnown`, `DepartureUnkeys` | two events waiting, so a departure queues behind a line or another departure; the server stays on (off: section 4) |
| `connection` | `PhaseHonest`, `NothingUnasked`; for an operator who waits for each act to show also `FirstRetrySoon`, `DtmfOnItsLink`, `Reconnects` | two targets, two commands waiting, two digits, the delays 1, 2, 4, a hasty and a patient operator |
| `log_queue` | `NothingLost`, `HeldIsForeign`, `DiscardStays` | two instances, two QSOs, a queue of one (so it fills), two faults in any combination |
| `log_drains` | `Drains` | two servers, so entries for the other one occur; one fault |
| `streams` | transmit audio: `OnlyWhatWasMeant`; receive audio: `WaitingIsAhead`, `PlayedInOrder`, `HeardAgain`; sources: `SourcesKeepTheirWord`, `DeliversItsOwn`, `BrokerKnowsWanted`; spot worker and store: `PublishesWhatIs`, `FreshestSurvive`; form: `DeadTokenRests`, `KeychainFollows` | rings of three frames (full, partly full, overflowing); a counter of 14 that a run of 17 frames wraps (half a turn has room for the buffer, a pass and the losses, as `Roomy` of section 5 asks, and no more), a buffer of two, one frame lost in a row, one overtaken, one restart; delays 1, 2, 4; four requests, so a late answer meets a second and a third; two packets each way, two topics, two stations; three frequencies with tolerance one, so two spots of a call drift together; a store of two that four reports overfill; two slots; two servers, two tokens |
| `desk` | `NeverStranded`, `HoldEnds`, `OnlyTrusted`, `EveryEndIsTold` | two commands waiting, a time-out of two ticks; two keys (the hotkey and another), two events waiting; two places, one public and two own certificates, a list of two, one click at a time; two clients over a limit of one, a queue of one line |
| `session_stale_report`, `cat_server_off`, `lookup_stays_off` | violations, section 4 | |

In `streams` and `desk` the parts are explored one after the other to their end;
the constants they have in common (the delays, `Sent`, `None`) have one value.
Type invariants (`TypeOK`) are checked where the run about the component's
safety is. Every property has a mutant of the code that violates it under the
run's own bounds. Clients, certificates of no authority, and the log's instances
are interchangeable where nothing tells them apart, so `cat_gates`, `desk` and
`log_queue` use symmetry; the runs that check liveness do not. `streams` and
`desk` stop when a part has used up its bounds (frames, requests, clients), so
they do not check for deadlock.

### Fairness

- `Session!FairSpec`: `tick` is called (the worker's loop calls it every pass)
  and time advances. Needed for `DeadPathNoticed`. Nothing is assumed of the
  path, the radio or the operator.
- `CatClients!FairSpec`: the worker polls the server's events (every pass).
- `Connection!FairSpec`: the loop runs; the command drain ends (strong: the
  operator may refill the channel, but not for ever faster than it is drained);
  a connect thread that is going to end does; time passes; the UI refreshes.
  A radio that hangs the TLS handshake is excluded by `Answers` and shown
  separately (section 4).
- `LogQueue!FairSpec`: each instance's thread goes on and its waits end (the
  loop wakes every 500 ms). Nothing is assumed of the server: `Drains` speaks of
  what follows when it answers well for good.

The modules of `streams` and `desk` assume no fairness: what must happen there
is stated as what is on its way (`HoldEnds`, `NeverStranded`, `EveryEndIsTold`)
or counted (`HeardAgain`), so it is an invariant.

## 4. Where the code departs from what is said of it

Checked as runs that must fail (`PROJECT.json` "findings"):

- **A stale report closes the stop gate** (`StopOffered`, `SessionStaleReport.cfg`):
  `pump` clears the raw-transmit flag on a report the radio sent before it heard
  the key command.
- **Switching the CAT server off leaves a client's transmit on** (`HolderKnown`,
  `CatServerOff.cfg`): the departure is dropped with the server; only the time
  limit ends it.
- **A refused lookup stays off** (`OffForThisSetup`, `LookupStaysOff.cfg`): the
  refusal is read again on each tick (log_ui.rs:247), also after the URL or the
  token has been changed, which should switch lookups on.

Kept as configurations beside the runs; each violates the property named:

| configuration | module | property | what the code does |
|---|---|---|---|
| `SessionOverTune.cfg` | Session | `NeverOverOperator` | `begin_tx_for_client` (lib.rs:366) looks at the voice flag only, so a client keys over the operator's tune |
| `SessionAnyText.cfg` | Session | `RawTxEndsByReport` | `pump` clears the raw-transmit flag on any text that arrives while an older report said receive |
| `SessionFailSafe.cfg` | Session | `FailSafeClearsRawTx` | the fail-safe (lib.rs:520) leaves `raw_tx` set |
| `CatAudioStays.cfg` | CatClientsMC | `AudioClosesWithOptIn` | disarm and stop clear the opt-in in the session, the worker's CAT audio device stays open |
| `ConnectOnAir.cfg` | Connection | `OffAirWithoutSession` | a disconnect while keyed leaves the snapshot transmitting |
| `ConnectTwice.cfg` | Connection | `ConnectedWhereAsked` | a second Connect changes the retained target, not the attempt in flight |
| `ConnectThreadDies.cfg` | Connection | `RetryAfterDeath` | a connect thread that dies without a result leaves no retry |
| `ConnectHangs.cfg` | Connection | `AttemptEnds` | the TLS handshake has no read time-out |
| `ConnectDtmf.cfg` | Connection | `DtmfOnItsLinkHasty` | with a hasty operator a Disconnect and a Connect drained together carry a digit sequence to the next link |
| `TxAudioRekey.cfg` | TxAudio | `OnlyWhatWasMeant` | a transmit that ends and another that begins between two passes: the second starts with audio from before it |
| `AmpSearch.cfg` | AmpTune | `SearchCalledOff` | the comment at main.rs:4284 says that a search is called off with its tune; it goes on, without a carrier, when the tune ends before a reply told of the search, or by a reply older than it |
| `PttCareless.cfg` | Ptt | `HoldEnds` | capturing another hotkey while holding the present one, or a release while the window has no focus, leaves the key down until the next tap |
| `LogTest.cfg` (run with `-continue`) | LogForm | `StationOfServer`, `ReportTaken` | a Test begun before the URL changed fills in the old server's location; a report equal to the last one taken is passed over though the location is gone |
| `LogTokenHome.cfg` | LogToken | `TokenStaysHome` | when the removal that a new URL asks for is refused, cut off, or overtaken by the write before it, the next start has the token of one server beside the URL of another, where log_ui.rs:397 says it is never sent elsewhere |

Seen while modelling; the modules do what the code does and no property hides it:

- telnet.rs:37 calls a constant the "first wait after a failure", and the MQTT
  and FreeDV sources have the like; the wait is counted from before a connect
  that blocks, so a connect slower than it is followed by no wait at all. The
  promise in `SpotSource` says so.
- freedv_source.rs:105: a pending certificate outlives a later failure of
  another kind. Withdrawing an approval does not end a connection that uses it.
- Telnet and MQTT lose what was read in the same poll as the close; MQTT
  delivers a Publish that comes before the ConnAck.
- Changing the settings of a polled network restarts it, and it asks at once.
- The reorder buffer plays one old frame out of order when the radio restarts
  its counter half a turn ahead, and with a buffer of 8 loses the order after
  more than 14 frames lost in a row; hence `Burst` and the scope of
  `PlayedInOrder`.
- In the spot store two spots of one call may drift within the tolerance of each
  other; nothing merges them (`DeDuplicated`, not kept).
- An approval is withdrawn by its index in the list (main.rs): two clicks
  handled in one batch (`Clicks = 2`) may withdraw another than the one meant.
- Amplifier: the state of an earlier search may end a new tune at once; disarming
  does not itself end a tune, the next tick does.
- Toggles send the negation of a snapshot up to 100 ms old (main.rs:3168), so two
  quick presses send the same command.
- The FreeDV roster takes a station up again on an event that comes after it
  left. The note that the token is kept for this session only is shown also for
  a removal that the keychain refused.

## 5. The proofs

Each theorem is for every value of the constants, under the assumptions named;
the modules with theorems reach no recursive operator.

`SessionProofs` (from `TimesAssumption`, `NoneAssumption`,
`ReplyMaxAssumption`, `RawCommandsAssumption`): the types, `InterlockHolds`,
`StopAlwaysSilences`, `ClaimAlwaysLicensed`, `HoldAlwaysBounded`,
`KeepAliveHolds`, `AlwaysKnowsWhatItKeyed` (when no raw command keys) and
`ImplementsOwner`, that every step of `Session` is a step of `TransmitOwner` or
a stutter. Each rests on a lemma that goes through every call on the session
with one question. The bound on a hold is not inductive by itself (`HoldInv`):
the claim must be licensed, the history `held`, which only counts, must be tied
to `client_tx_since`, and that to whether `tick` has run in this unit, since the
limit is enforced only there. The keep-alive (`Beats`): the tick that ends
an overdue hold does not ping, so a PING is at most one tick late, and then the
client's time cannot be over at the next tick as well.

`CatClientsProofs`: the types, `OptInHasAudio`, `NothingLeftBehind`,
`ClientsKeyThroughTheGate`, `OperatorUndisturbed`, and `HolderKnown` as long as
the server is left running. The calls on the session are lemmas; the invariants
are layered: what the session may hold (`Held`), what a device serves
(`Served`), that every client the worker heard of is alive or its departure is
queued, in order and last (`Attended`), and that who claims is known (`Known`).

`ConnectionProofs`: the types (also with threads that die and radios that hang),
`NothingUnasked`, `PhaseHonest` as long as threads end with a result (`Safe`),
and for the patient operator `FirstRetrySoon` and `DtmfOnItsLink`. The last two
need that at most one command is under way and nothing else beside a session
(`Calm`); without it they fail, as `ConnectDtmf.cfg` shows.

`LogQueueProofs`, for any number of instances, QSOs, servers and faults (from
`SizesAssumption`, `NoneAssumption`): the types, `NothingIsLost`,
`HeldIsAlwaysForeign`, `DiscardAlwaysStays`. `NothingLost` speaks of `dir` alone
and a power loss replaces that, so the invariant (`QueueSafe`) says of every
confirmed QSO that neither `dir` nor `durable` lacks it without the server or a
discard to answer for it; that an entry between its rename and its flush is in
the same position; and that a worker with a confirming answer in hand has the
QSO at the server, for it removes the file next. `HeldIsForeign` adds `Tracks`:
whenever the server holds our copy of an undisturbed QSO, its entry says that it
may have been sent, or a worker in hand knows. `DiscardStays` adds `Gone`.

`TxAudioProofs` and `PolledSourceProofs` prove the components by themselves:
that the flush decided by a comparison with the last pass is enough (`Flushed`:
what is stale in a ring implies that the next pass flushes), that the answer of
a request given up is never delivered (`InHand`), and that the polled source
implements `SpotSource`.

`StreamsProofs` states them of the specification that the run checks, and
proves the rest of what `streams` checks:

- Transmit audio: `OnlyWhatWasMeantGoesOut` (without `Rekeys`).
- Receive audio, for any counter and buffer. `WaitingIsAlwaysAhead`
  (`Buffered`: all that waits is less than half a turn ahead of the frame due; a
  release moves the due frame to the nearest that waits, and that is why).
  `AlwaysPlayedInOrder` from `Roomy`: (Burst + 1) (Capacity + Batch - 1) +
  Spread - 1 <= Half. The buffer sees counters only, so the invariant (`InStep`)
  says that a counter still tells the number in the stream: what is under way
  is younger than `Spread`, what waits was sent after the frame due and that
  less than half a turn ago, no more waits than a full pass adds (`Fits`), and
  of the numbers since the one due no more than `Burst` in a row are missing
  (`FewMissing`). `RoomAhead` closes the circle: were the frame due half a turn
  ago, that many numbers since would put more frames in the buffer than `Fits`
  allows (a pigeon-hole on the runs of Burst + 1 numbers). With a counter of 12
  instead of the run's 14, `Roomy` and the invariant fail. The code's counter of
  256 and buffer of 8 meet it with, say, 8 frames a pass and 7 lost in a row.
  `AlwaysHeardAgain` from `Hearable` (losses in a row and what overtakes fit in
  half a turn, a pass takes no more than one over the buffer), which allows new
  streams: the frames dropped in a row came in this pass, or the buffer holds
  and their number is what the counter has come round since (`DroppedInARow`);
  the gaps in what arrives are short (`OnTheWay`).
- Sources: `SourcesKeepTheirs`, that all four kinds implement `SpotSource`. The
  refinements need little invariant (that waits are numbers, that a connection
  is in a phase it knows: `Dials`, `Logged`, `Met`); FreeDV's handling of a
  batch is a recursive function on the naturals, shown to exist by taking the
  least number at which it would not. `AlwaysDeliversItsOwn` (from `Times`)
  has an invariant for each kind: the answer in hand is the last asked for and
  not one given up, a login was sent once before spots come (`LoggedInOnce`),
  and for FreeDV a chain through the packets under way (`Told`): each follows
  from the stage the one before it left the session in, and the chain ends in
  the session as the far end has it, so what is placed once all is read is who
  is there. `BrokerAlwaysKnows`: what the packets under way will make of the
  broker's subscriptions, read one after the other (`Brings`), is what the
  source takes it to be subscribed to unless a refusal is under way
  (`Subscribed`).
- Spot worker and store: `AlwaysPublishesWhatIs` (`Fed`: the last command of a
  kind that waits is the window's last wish; with none waiting the worker is as
  wished; what runs looks at the window set; at rest the panels read that).
  `FreshestAlwaysSurvive` from `Stamps` (times and the capacity are numbers): each
  report still young enough has a spot of its call at least as fresh, or the
  store is full of spots at least as fresh (`Survives`), over the purge, the
  merge into the first match and the move of the last spot into the hole. The
  purge is a recursive function on the list, treated as FreeDV's.
- Form and token: `KeychainAlwaysFollows`; `DeadTokenAlwaysRests` (`Formed`: what
  waits, is looked up and was answered carries a token entered for its server).

`DeskProofs`: `NeverIsStranded` (`AmpSafe`: with no tune in hand, a carrier has
its end in the queue and every tune in the queue an end behind it),
`HoldAlwaysEnds` (`PttSafe`: a key that was pressed is held or its release is
queued behind the press; while the window keys, the hotkey stays what it is and
its release comes; when it no longer does, each key-down command has a key-up
behind it),
`OnlyTrustedOpens` (`Vouched`: what is shown was refused, what is in the list
was refused and approved at that place, and a click that waits still means what
it was made on - which is where one click at a time is needed), and
`EveryEndIsAlwaysTold`, for any clients, limit and queue: in the queue a client's
arrival is first and its departure last (`InTurn`); whoever the worker knows or
is about to hear of has a reader that owes it a departure, or the departure is
in the queue, and not both (`ToldOf`); and the handles keep to the limit, also
while one is being accepted (`Limited`).

Only model-checked: liveness (`DeadPathNoticed`, `DepartureUnkeys`, `Reconnects`,
`Drains`), which is beyond the proof system. Every invariant and every other
action property of the passing runs is proved.

## 6. What is left

1. `CatClients` over `CatServer`: the events of the first as a refinement of
   those of the second, instead of `EveryEndIsTold` standing between them.
2. The steps of the liveness arguments that need no fairness: that what is
   waited for stays possible and that each step brings it nearer.
3. The amplifier worker's own connection, like `Connection`, and the K-Pod's
   polling.

## 7. Not modelled

About a twelfth of the implementation's lines is mapped, and most of the rest is
not a matter for a model checker:

- **Drawing and layout** (`ui.rs`, most of `main.rs`, `spectrum.rs`,
  `waterfall_gpu.rs`, `meter.rs`, `graphics.rs`, `spots.rs`, `layout.rs`, the
  renderers of `k4-stream`): a function of the state shown, with no protocol.
  Of `main.rs` the messages whose order matters are modelled (connect, push-to-
  talk, tune, certificates, the tick); nearly all others set one field or send
  one command.
- **Formats and wording** (CAT grammar beyond the classes that matter, ADIF, the
  spot feeds' parsers, MQTT and WebSocket encoding, the propagation data):
  functions of their bytes, which unit tests in the repository reach.
- **Numerical code** (codec, resampler, FFT and pan scaling).
- **Settings, backup, cryptography**: files read once and written whole.
- **K-Pod, update check, HTTP fetch, tips**: I/O around libraries; their commands
  enter the worker like those of the UI.
- **The vendored user-interface library, the simulator, diagnostics and build
  tasks** are not part of the running program.
- **Memory ordering** of the audio rings and the CAT server's table is left to
  the mutex the code uses.
