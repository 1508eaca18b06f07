# nanit-bridge in TLA+

nanit-bridge signs in to the cloud of the Nanit baby monitors, keeps a WebSocket
to every camera, lets the cameras publish their video to a local RTMP relay,
mirrors sensors and controls to MQTT and serves a dashboard. It is one Go
process whose parts share state through mutexes, channels and callbacks. The
modules here model those parts, TLC checks them on small instances, and TLAPS
proves all of their invariants but one, and the refinements, for every value of
the constants. `PROJECT.json`
lists the runs, the mutants that show each property can fail, the source lines
behind every definition, the hazards and the theorems.

## Inventory

### RTMP relay (`internal/rtmp/server.go`)
State: map stream key -> broadcaster under `Server.mu`; per broadcaster its
subscribers and the last `onMetaData`, AAC and H.264 configuration under a
read-write mutex; per subscriber a channel of 256 packets and `needsKeyframe`.
Operations: a camera publishes (registers, replaces an older publisher, reads,
caches, broadcasts, unregisters), a consumer subscribes over RTMP or through
`Subscribe`, `HasStream`. Calls out: `onDisconnect` of the manager, from a
goroutine, when a publisher ends. Hard: the channels are closed from three
places while a broadcast may send; lookup and subscription are two critical
sections; a full channel is drained by the publisher while its subscriber
receives. Correct when: nothing panics, the registry tells the truth, a
decoder never gets a frame it cannot decode, no subscriber holds up the
publisher, and nobody stays on a dead stream.

### Camera client (`internal/nanit/client.go`)
State: the current connection, `done`, the wait group, `streamRetrying`; per
connection its reader, keepalive, sensor poll, `errCh` and `connDone`.
Operations: connect and reconnect, start and stop streaming, retry, restart,
sleep mode, playback and sensor requests, `Stop`. Calls out: callbacks of the
manager on connect, disconnect, stream state, sensors, controls. Hard:
goroutines outlive the connection that started them, a half-open connection
shows no error, `Stop` races the dial, the retry flag is read, reset and set by
five goroutines. Correct when: a failed stream is asked for again, no goroutine
or socket leaks, `Stop` ends everything, half-open connections are dropped.

### Baby state (`internal/baby/state.go`)
State: one record per baby under a read-write mutex, subscribers notified after
every update, alert times and the timer that clears them. Hard: notification
happens outside the lock, so a later update may be read by an earlier
notification; the timer is compared with a time the message carried; `Snapshot`
upgrades its lock by releasing it. Correct when: subscribers end up with the
last state, and an alert ends after its lifetime.

### Manager (`internal/baby/manager.go`)
State: babies, one client per baby, `stopCh`, the loops it started. Operations:
`Start`, `Stop`, `Restart`, `SetRTMPToken`, message polling, push
notifications, the stream watchdog, the relay's disconnect callback, commands. Hard: loops re-read `m.stopCh` after
a restart has replaced it; `Start` may run while `Stop` does; the mutex is held
over network requests. Correct when: one set of loops runs, none survives
`Stop`, no channel is closed twice, and every registered baby has one client.

### MQTT publisher (`internal/mqtt/publisher.go`)
State: the last value published per topic, the command handler, the
subscriptions it re-establishes when it reconnects. Operations: publish a
baby's state as a set of deduplicated topics, publish discovery, handle a
command. Hard: the last value is recorded before it is sent and sent without
the lock; several goroutines publish; a message at QoS 0 is lost when the
broker is away, and the cache says it was sent. Correct when: the broker's
retained values reach the state.

### Token manager (`internal/nanit/auth.go`, `internal/api/nanit_auth.go`)
State: credentials, session (tokens and their time, babies) under a read-write
mutex, the session file, and the MFA challenge pending between the two requests
of a sign-in on the dashboard. Operations: `Login`, `LoginWithMFA`,
`GetAccessToken` with its refresh, `FetchBabies`, `LoadSession`, `save`,
`handleLogin`, `handleMFA`, `ensureAuth` of `main`. Hard: callers that find the
token expired meet at the refresh, which tests the expiry again; `save` copies
the session under the lock and writes the file without it; a crash may come
between truncating and writing the file; two sign-ins may overlap. Correct when:
a refresh token is never used twice, the session can be renewed without the
password, the file does not stay older than the memory, and the code that is
asked for is one the cloud accepts.

### Push receiver (`internal/nanit/push.go`)
State: `running`, `stopCh`, the FCM client, the credentials and their file, the
wait group. Operations: `Start` with its two registrations, `Stop`, the listener
that connects again after 5 seconds. Hard: `Start` marks itself running before
it has succeeded; the listener makes a new client and stores it in two steps,
and reads `stopCh` anew in each round, so `Stop` may close the wrong one; `Stop`
gives up after 3 seconds. Correct when: a receiver that says it runs listens
with credentials the cloud knows, and a stopped one ends.

### Dashboard server (`internal/api/server.go`)
State: the map of WebSocket clients, each with a channel of 32 messages and a
`closed` flag, under `Server.mu`; the ring of 200 log lines under
`LogBroadcaster.mu`, which calls into the server. Operations: accept, broadcast
of a state, broadcast of a line, reader and writer of a client, HTTP-FLV (a
subscriber of the relay), control requests, a new RTMP token. Hard: a client is
registered before its first messages are queued and before its writer runs; a
full channel is closed by the broadcast or by the reader. Correct when: a
dashboard has the current state and no gap in the log or is cut off, nothing
panics, and clients that went are forgotten.

### Dashboard authentication (`internal/api/auth.go`)
State: the password hash in its file, failed attempts per address (sessions are
signed cookies and not stored). Hard: the password is changed without the lock
first setup takes. It shares no state with the other parts.

### Rest
`internal/config` reads the environment once; `cmd/nanit-bridge` wires the
parts; `cmd/nanit-debug` is a developer's tool; `internal/api/static` is the
browser side; `internal/nanit/nanitpb` is generated. They keep no concurrent
state of their own and are not modelled; the wiring appears as the compositions.

### Interactions
The camera client calls the manager's callbacks, the manager updates the baby
state, the baby state notifies the MQTT publisher and the dashboard. The relay
calls the manager when a publisher ends; the manager, its watchdog and the
client's own retry loop all ask the camera to stream again. MQTT commands and
dashboard requests call the client through the manager.

## Plan

| # | Module | Models | State |
|---|---|---|---|
| 1 | `RtmpRelay` | the relay: publishers, broadcasters, subscribers | done, proved |
| 2 | `CameraClient` | one camera's connection loop and its goroutines | done, proved |
| 3 | `StateMirror` | baby state, alert timer and the MQTT mirror | done, proved |
| 4 | `Manager` | lifecycle of clients, loops and push receiver; RTMP token | done, proved |
| 5 | `DashboardHub` | WebSocket clients of the dashboard and the log | done, proved |
| 6 | `TokenManager` | refresh, session file, sign-in in two requests, crashes | done, proved |
| 7 | `StreamSupervision` | composition: relay, manager, client and camera around one stream | done, safety proved |
| 8 | `PushService` | abstract: what the manager takes the push receiver for | done |
| 9 | `PushReceiver` | the receiver in detail, which implements `PushService` | done, refinement proved |
| 10 | `StreamRegistry` | abstract: what the others take the relay for | done; `RtmpRelay` and `StreamSupervision` implement it, proved |
| 11 | `CameraLink` | abstract: what the manager takes a camera client for | done; `CameraClient` and `StreamSupervision` implement it, proved |
| 12 | `MirroredState` | abstract: a state and a screen that follows it | done; `StateMirror` implements it, proved |
| 13 | `ClientUse` | abstract: what a camera client expects of its owner | done; `Manager` keeps to it, `CameraClient` counts on no more, proved |

What could come next, in this order: the restart of the manager with two
generations of clients and the mirror in one model (the hazard at
`manager.go:578`); the hub as an implementation of a log and a state every viewer
follows.

The abstract modules are where the models meet. `StreamSupervision` and
`Manager` reduce relay, client and receiver to a few variables; for each of them
the detailed module and the reduced one are proved to behave as the same
abstract module says, so what the compositions assume is what the parts do:

| Abstract | Implemented by the detailed | and used as such by |
|---|---|---|
| `StreamRegistry` | `RtmpRelay` (`RelayIsRegistry`) | `StreamSupervision` (`RelayIsRegistry`) |
| `CameraLink` | `CameraClient` (`ClientIsLink`) | `StreamSupervision` (`ClientIsLink`) |
| `PushService` | `PushReceiver` (`ReceiverIsService`) | `Manager` (`ReceiverIsUsed`) |
| `ClientUse` | `Manager`, the caller (`ClientsAreUsed`) | `CameraClient`, the callee (`IsUsedSo`) |

`ClientUse` goes the other way: it is what the part asks of its caller. The fifth,
`MirroredState`, says what all of `StateMirror` is for, and nothing composes it.

Every component module comes with `MC<Module>`, which holds what only TLC needs
(symmetry sets, topic definitions), and `<Module>Proofs`. Within a module the
definitions that nothing uses are the forms of the definition that follows them
which a plausible mistake would give; `PROJECT.json` pairs each property with
one of them, and TLC finds the property violated when it takes the place of the
original. Type invariants are not among the runs' properties: TLC checked each
of them while the models were written, and every one is a theorem now.

## RtmpRelay

`pub[p]` is the program counter of `handlePublisher` of connection `p`,
`sub[s]` that of `handleSubscriber`. A broadcaster is named by the connection
that made it. A section under one mutex in which nothing blocks is a step; the
loop of `broadcast` may block on a channel, so each of its channel operations
is one, including the iterations of the drain. A packet carries its kind, the
number of video frames and of decoder configurations so far: enough to tell
whether a decoder can use it.

* `RelayFanout`: one publisher and one subscriber that joins, lags, overflows
  and leaves when it likes. No subscriber makes the publisher wait
  (`PublisherNeverWaits`), the decoder gets no frame without its predecessor
  (`VideoContinuity`) and the configuration in force before each keyframe while
  it has never overflowed (`ConfigBeforeKeyframe`).
* `RelayReplace`: two publishers on one key. No double close and no send on a
  closed channel (`NoPanic`); the relay implements `StreamRegistry`, so a key
  names the connection that published it last, for as long as that is read
  (`RelayIsRegistry`); the late cleanup of a replaced publisher does not touch
  its successor (`LivePublisherKeepsItsKey`), and subscribers of a publisher
  that was replaced or lost are let go (`SubscribersReleased`).
* `RelayDrain` (violated): the drain counts the packets of a full channel and
  then receives that many; the subscriber takes one meanwhile and the publisher
  waits for ever with the read lock held. `StuckForever` proves that nothing
  ends the wait, not even the subscriber's or the camera's leaving, and
  `StuckByReceive` that a receive during the drain is the only way into it.

A publisher may leave between `Subscribe`'s lookup and `addSubscriber`; the
channel the consumer gets is then never fed and never closed, against the
comment at `server.go:166`. `SubscribedStreamIsPublished` states the comment; it
fails, and no run repeats it. `SubscribersReleased` exempts just those.

Bounds. `Capacity` 3 stands for 256: it is the least that holds the three
configuration packets a new subscriber gets, and every full or empty case
occurs. `MaxPackets` 7 is enough to fill the channel, overflow, drain, wait for
a keyframe and go on; `Kinds` are those a run's properties tell apart. Each
connection is used once, so two publishers make one replacement with every
order of the two cleanups. The properties that a stuck drain would break exempt
exactly the publisher of `RelayDrain` (`Stuck`).

## CameraClient

`loop` is the program counter of `connectLoop` and `connect`; `reader`,
`keeper` and `polling` are the goroutines of a connection, `retry[l]` a
`streamRetryLoop`. Messages are the stream requests and their answers, the only
ones that change the client; a connection is open, silent (half open), reset or
closed. Timers fire at any time.

* `ClientSafety`: two connections and two retry loops. The retry flag is never
  set without a loop (`RetryFlagHasLoop`), reports always fit into `errCh`
  (`ReportsFit`), no socket is left open (`NoSocketLeaks`).
* `ClientLive`: half-open connections are dropped, goroutines of a closed
  connection end, `Stop` ends everything, a failed stream is asked for again.

The flag may be reset and set again while a retry loop sleeps, and two loops
then run and ask more often than every five seconds (`client.go:658`).
`OneRetryLoop` states that this does not happen; it fails, and no run repeats it.

Bounds. Connection identities are used again when all goroutines of the earlier
holder have ended, so two of them give any number of reconnects with one
generation of leftovers; one suffices for the liveness run, in which a
reconnect waits for the identity. `ErrCap` is the code's 2. `MaxAsked` 1: a
second open request adds no answer a first one cannot give.

## StateMirror

`state[t]` is the baby's state by MQTT topic, `age` of alerts in units of which
`TTL` is one, `timers` the clearing timers with the goroutines of their
functions, `lastPub` and `retained` the publisher's cache and the broker. An
actor's `at` follows `UpdateSensors`, the notification and `PublishState`
topic by topic; `pubDedup` records and sends in two steps. `raced` and `lost`
record that two publications overlapped or that the client dropped a message
while it was away.

* `MirrorExact`: with a goroutine that raises alerts of different age and
  changes the volume, a mirror that saw neither overlap nor loss is exact when
  nobody publishes (`MirrorIsExact`); an alert always has a timer, a goroutine
  about to start one or a publication about to end it (`AlertWillEnd`); and the
  broker stops showing alerts (`AlertsDisappear`).

`MirrorFollowsState` says more of the same mirror than `MirrorIsExact`, which looks
only when nobody publishes: each publication takes the broker from one snapshot of
the state to the next, with no value of another one mixed in, and ends when all of it
has arrived (`MirroredState`). It is a theorem.

Two publications that overlap may record in one order and send in the other; the
broker then keeps the older value and the cache says the newer one, against the
comments at `publisher.go:70` and `438`. `LastPubIsPublished` states them; it
fails, and no run repeats it. `LastPubIsExact` proves that overlap and loss are
all that can break it.

Bounds. One alert and one value per run are enough because topics do not
interact except by order within a publication. `Ages` 0 and 2: younger and
older than `TTL`. A timer identity is free when its function has returned.

## Manager

`at[c]` is the place of a goroutine that calls the manager: `main`, a sign-in
or a request for a new RTMP token. Each section under `m.mu` is a step; between
them `Stop` and `Start` hold what the code holds in local variables: `taken`
(`stopping`), `todo` (the babies left), `hand` and `uid` (`startBaby`). A client
is `up` once `Start` of it was called and `down` once its `Stop` returned. The
loops read `m.stopCh` each time they select; `Chans` are the identities of the
channels. The push receiver is stopped, listening, or `deaf`: running without a
listener. The cloud's list names each baby once.

* `ManagerCalls`: calls follow one another. The stop channel is closed once
  (`NoPanic`); every running client is registered or about to be stopped
  (`RunningIsOwned`); a started manager has a watchdog and somebody who fetches
  alerts (`StartedIsSupervised`); a stopped one is quiet (`StoppedIsQuiet`);
  file, relay, manager and cameras agree on the token (`TokensAgree`).
* `ManagerOverlap`: two callers at a time. Still no client is stopped twice
  (`ClientsStopOnce`; `CameraClient.Stop` could not bear it) and every loop
  waits for a channel that is closed or that the next `Stop` closes
  (`LoopsCanEnd`).

With overlapping calls the other properties do not hold of the code: a `Stop`
during `Start`'s request to the cloud lets `Start` close the channel again or
register clients nobody will stop, and two token requests may leave file and
relay with different tokens. The code does not prevent the overlap (a sign-in
during a restart, or the shutdown 10 seconds after a slow request) and no
document rules it out; the properties name the condition, `~overlapped`.

Bounds. Three clients serve two babies, as one may still be stopping while two
new ones start; two loops are one set, or one leftover and one new; three
channels are the present one and one per waiting loop. `ReceiverIsUsed` says
that the manager calls the receiver as `PushService` allows, one call at a time
while its own calls do not overlap; `ClientsAreUsed` says under the same condition
that it starts each client once and stops it once, as `ClientUse` demands. Both
are theorems. Identities are used
again when nothing refers to them. There is no liveness run: the manager's
promises are states to be in, and when a request to the cloud returns is not
its to say.

## DashboardHub

`at[v]` follows `handleWS` from registration over the initial state and the log
history to the reader; `queue` and `closed` are the client's channel, `writer`
its goroutine. `update[b]` is a goroutine that changed a state and is in
`BroadcastState`. States are version numbers and lines positions in the log;
`states` and `log` are what the browser was sent.

* `HubViewers`: nobody but a handler can panic (`HubNeverPanics`); a dashboard
  that took all its messages was sent the current state
  (`CurrentStateIsSent`) and the ring's lines without a gap (`LogHasNoGap`);
  clients that went or were cut off are forgotten (`ClientsAreForgotten`).

What the run also records: a handler that still has to queue its first messages
may wait for a full channel that nobody empties, or panic on one the broadcast
has closed, in which case the connection stays open with nobody behind it. And
the state sent last may be an older one. The properties exempt the first and do
not claim the second.

Bounds. Clients do not interact, so one viewer with two broadcasters and the
log is the interesting case. `Capacity` 2, `RingSize` 2, two versions and three
lines fill the channel with states, with lines and with both, and make the ring
drop a line. A broken connection is noticed by the reader, as one that was reset
is; a silent one has no time limit in the code and is not modelled.

## TokenManager

`at[a]` is the place of a goroutine (`main`, or one of the manager's or the
dashboard's) and `job[a]` what it came for: a token, the babies, a sign-in, the
code of a sign-in, or the start of the process. `lock` is the holder of `tm.mu`
for writing: `refresh` keeps it over its request and the saving of the file, so
who looks at the session waits; sections in which nothing blocks are steps.
`copy` is the session an actor is about to write, which `save` took under the
lock and writes without it; `Open` truncates the file and `Write` fills it, or
leaves the end of what another writer wrote. The cloud numbers its grants; it
exchanges a refresh token for a new one, or keeps it, and refuses one it has
exchanged. `Crash` ends the process between any two steps and starts `ensureAuth`
with the file it finds.

`TokenSession` (all in one run, for the histories are the same):

* `RefreshIsNeeded`: of all callers that find the token expired, one asks, and
  only while there is no fresh token; it holds because `refresh` tests again
  under the lock.
* `SessionIsRenewable`: the refresh token in memory is one the cloud still
  takes. `lost` excepts an answer that never reached the memory and a crash
  during a save: the session then takes a sign-in, which the code asks for.
* `FileIsCurrent`: when nobody saves, the file has the session. `behind` excepts
  a save that failed, which is only logged, and one that overlapped with a
  change: `FetchBabies` may write a copy it took before a refresh after the
  refresh has written its own. The next refresh mends it.
* `PendingCanBeSolved`: the challenge the dashboard asks a code for was issued
  for the credentials of the moment and has not been solved. `astray` excepts
  sign-ins that overlap: the answer to one replaces or clears the challenge of
  the other.

Bounds. Two callers and `main`, two of them active at a time: a refresh and
whoever meets it. Two grants make the exchange of a first refresh token by a
second, one crash follows or precedes either, and one challenge with two
accounts is enough for a code to be asked of the wrong one. Only tokens that
expire are numbered, so the bound ends a history without adding one. The run is
about safety: how long a request takes is the cloud's.

## StreamSupervision

The composition around one baby's stream. `phase` and `link` are `connect` of the
client and its socket, `asked` the requests to stream under way to the camera,
`hand` the message its reader handles, `entries` how many of its `Streaming` entries
are still to be passed to `onStreaming`, `retrying` and `retry` the retry loop;
`alive` and `stream` are the two fields of the baby's state that are set here, `told`
the status reported last, or "nothing" since the bridge itself set the stream to
stopped;
`watch` is the watchdog between its look, its mark and its request; `pub[p]` is a
publisher of the relay, up to the end of its disconnect callback, and
`registered` the relay's map. The camera sleeps, wakes, refuses, connects to the
relay and drops its connection when it likes, accepts with any number of `Streaming`
entries and any status in each, and sends statuses by itself. `HandleAnswer` and
`HandleReport` are the two halves of a message: what the client does with its
retries, then, entry by entry, what `OnStreaming` makes of a status (`Shown`:
started is active, paused is unhealthy, stopped is stopped). `CameraClient` has the
goroutines of the client, `RtmpRelay` the publishers; here they are reduced to the steps
the others can see, and the mutexes to the order of the steps.

* `MarksAreCorrected`: while a stream goes on, it is shown as the camera reported
  it last, or a request, a message of the camera or somebody about to ask is under
  way. It relates the three that mark (`RestartStream`, the watchdog,
  `onDisconnect`) to the requests that follow, and breaks when `RestartStream` asks
  only if the stream is missing.
* `ReportIsShown`: a mark of the bridge on a stream that stays is not for ever,
  however late the callbacks of earlier publishers come: again and again it is
  shown as the camera reported it.
* `StreamComesBack`: a camera that stays connected and awake publishes again and
  again, whatever was lost, refused or forgotten. This is what the watchdog is
  for: the client's retry ends when the camera says that it sleeps.
* `StreamIsLeftAlone`: in the end nobody asks for a stream that stays. Two
  premises name what the code cannot help: a camera that opens a new connection
  whenever it is asked is asked again because its old publisher left, and one that
  goes on refusing while it publishes is asked every five seconds.

None of these says that a stream that goes on is shown as active, for the code does
not see to that. Three things the model shows:

* A status stopped or paused, in an answer or sent by the camera, is shown whatever
  the relay receives. It stays until the camera reports again, and nobody asks for
  another report: the watchdog looks at the relay only.
* Every entry counts, of whichever stream (the name in it is not looked at), so of
  two entries the later one is shown.
* The late reader of a lost connection may report after `onDisconnect` has marked
  the stream stopped, so it may be shown active while the camera is away. The
  request of the next connection corrects it, if that is accepted.

Left out: the 60 and 90 seconds of grace and cooldown, which only delay
the watchdog; `Stop` and restart of the manager (`Manager`, `CameraClient`). A
reader outlives its connection by less than the 5 seconds before the next. That
the reduction is one is proved: the publishers and `registered` are the
`StreamRegistry` that `RtmpRelay` implements, `phase`, `retrying` and `retry` the
`CameraLink` that `CameraClient` does.

Bounds. Two publisher identities make a replacement with the old one's callback
late; a camera that wants a third waits for one to be free. One retry loop, as
`CameraClient` shows what two do; one request under way: a second open one adds
no answer a first cannot give. An answer has no entry, one or two: the second is
for what comes between two reports of one message. The status of an entry is chosen
when it is passed on, which comes to the same, as nobody reads it before.

## PushReceiver and PushService

`PushService` is what `Manager` takes the receiver for: `Start` makes it listen,
or fails and leaves it as it was or `deaf` (running without a listener), `Stop`
stops it, and between the calls it stays what it is. `PushReceiver` is the code:
`call` is the place in `Start` or `Stop`, `found`, `creds` and `file` the
credentials at hand, in memory and on disk, `cloud` the devices the cloud sends
the notifications of the account to, `loop[l]` a `listenLoop`, `client` the loop
whose client `p.client` is, `waiter` the goroutine in which `Stop` waits.

* `ReceiverIsService`: the refinement. `push` is mapped to `listening` when the
  receiver runs, `Start` has come to its end and a loop lives; lost connections,
  keys that cannot be loaded, clients that are made and stored in two steps and
  loops left behind are stutter. So `Manager` may have the receiver as one
  variable.
* `TokenIsKnown`: the credentials it listens with are of a device that gets the
  notifications, through crashes between its four steps and whatever fails to be
  saved. `astray` excepts two cases the code does not handle: after the sign-in
  of another account the device keeps its id and is not registered again, and a
  `Start` of a receiver that runs already takes credentials it does not register.
* `OneListener`: a loop starts when the one before has ended, unless a `Stop`
  gave up after three seconds. Only then may two loops run (every notification
  comes twice) or may the wait group be used again before `Wait` has returned,
  which panics and is modelled as a crash.
* `FallsSilent`: a receiver that stays stopped has no loop in the end. The
  premise that connections nobody closed end is needed: a loop that stores its
  client after `Stop` has closed the one before goes on listening.

Bounds. Two loops are a leftover and its successor; a third gives nothing new
(the run passes with three as well, in several minutes). Two devices are one to
be replaced and its replacement. The calls come one at a time, as the manager
makes them but for the overlap `Manager` records.

## Fairness

Only liveness runs assume any. Weak fairness stands for the Go scheduler and
for timers: a goroutine that can go on does. Strong fairness is used where a
step is enabled again and again but not always: write-lock sections of the
relay (Go's `RWMutex` lets no new reader in while a writer waits), answers
handled by the one goroutine that may be between two packets, and steps that
wait for a free identity of a loop or timer, which the program does not have to
wait for. Subscribers of the relay are assumed to go on receiving and a
WebSocket write to return. Nothing is assumed of cameras, owners, the cloud, the
network or the link to the broker: they may stop for ever. The exception is
`StreamSupervision`, where getting a stream takes a camera: one that can be
reached answers, and asked again and again, with whatever it sends in between, it
accepts and connects in the end;
without that no supervisor could do what `StreamComesBack` says.

## Proofs

Each proof module states an inductive invariant, proves that the initial
states satisfy it and that every action preserves each of its parts, and
derives the properties. TLC checked the parts before they were proved. A
refinement is proved with it too: one step of the proof for each action, which
is an action of the abstract module or a stutter.

* `RtmpRelayProofs`. `TypeOK`, `HandlerInv` (what each program counter says of
  the connection's key and broadcaster), `SubscriberMapInv` (an open channel is
  in the map of its broadcaster), `RegisteredIsLive`, `NoPanic`. `NoPanic` is
  not inductive alone: that a channel is closed once follows from who may still
  find it in a map. These prove `RelayIsRegistry` and
  `LivePublisherKeepsItsKey`. What the decoder gets takes four more parts:
  `PacketInv` (a packet carries the number of its frame and of the
  configurations before it), `DrainInv` (a drain is of a subscriber already
  served, and receives at least as often as the channel has packets), `ContentInv` (the packets in a channel follow one another and the last
  the decoder got, and before a keyframe is its configuration, or the subscriber
  waits for a keyframe) and `ProgressInv` (how far a broadcast has come with each
  subscriber). They prove `VideoContinuity` and `ConfigBeforeKeyframe`. `OpenIsInMap` (an
  open channel is in the map of its broadcaster, and its subscriber is still there) is
  `NoChannelIsForgotten`, and gives `OutlivedByLookup`: the lookup before the
  subscription is all that can break what the comment at `server.go:166` says. Assumes `Capacity >= 3`.
* `CameraClientProofs`. `TypeOK`, `RetryFlagHasLoop`, `NoSocketLeaks` and
  `ErrBudget`: reports in `errCh` plus goroutines that may still report are at
  most two. With them `ClientImplementsLink`: each step is one of `CameraLink`,
  in which a loop may end only when the flag is reset or the client stopped.
  `ConnInv` (`c.conn` is the connection that is served; between connections it is
  a closed one) gives `RequestsAreServed`: a loop that reads `c.conn` at any time
  never writes to a connection that nobody reads. `StopWindsDown` is the safety part
  of `StopEndsGoroutines`, and `UseOfClient` says that the model takes no other call
  of its owner than `ClientUse` has.
  Assumes `ErrCap >= 2`.
* `StateMirrorProofs`. `TypeOK`, `WorkInv` (what each place of an actor says of
  its work), `AlertWillEnd`, and `MirrorInv`: while nothing overlapped, there is
  one publisher, what is recorded is sent or about to be, and what its snapshot
  lacks leads to another publication. What is said of alerts assumes
  `Ages \subseteq Nat`: a cloud message from the future could outlive its timer.
  `TypeCorrect` and `PlainTopicsAreExact`, which is `MirrorIsExact` for the
  topics that are no alerts, do without. So does `MirrorFollows`, the refinement of
  `MirroredState`; `LastPubIsExact` needs `MirrorInv` only.
* `ManagerProofs`. `ChanInv` (a started manager's channel is open; a stopped
  one's is closed unless it was never started), `HandInv` (a client is in one
  place only) hold for overlapping calls; `SerialInv`, `OwnedInv`, `AlertInv`
  and `TokenInv` follow one caller through `Stop` and `Start`. Together they
  prove all seven properties of the two runs, and that the receiver is used as
  `PushService` allows. `UseInv` (what `startBaby` has in hand was not started, what
  `Stop` takes was) proves `ClientsAreUsedAsPromised`.
* `TokenManagerProofs`. `LockInv` (who refreshes holds `tm.mu` and saw an expired
  token), `AnswerInv` (tokens on their way are used by nobody else and were not
  exchanged), `FileInv` (who saves has the session in hand until `behind` is set)
  and `SignInInv` (what a sign-in that is alone may rely on) prove all four
  properties, for any number of callers, grants, challenges and crashes.
  `TogetherInv` (no session, file, copy or answer has one token without the other)
  then shows that a refresh carries a token the cloud knows as long as no answer was
  lost (`RefreshesAreAccepted`), `FileInv` that a crash between saves loses none
  (`CrashKeepsTokens`), and `CodesAreAccepted` that a sign-in alone sends its code
  for the challenge and credentials of the moment, which it reads without a lock.
* `StreamSupervisionProofs`. `TypeOK` and `MarksAreCorrected`, which is not
  inductive: `CorrectedInv` says the same already of a camera that will connect to
  the relay, `CameraInv` what a camera that sleeps does not do, and `ReportsInv` that
  only a report or a mark changes what is shown and that a reader with a report has a
  status to pass on. `RetryInv` (`RetriesAreMade`): a loop runs while `retrying` is
  set; with it what `MarksAreCorrected` counts as under way is. The two refinements
  need the types only. `Quiet` (the stream goes on and nobody is about to ask) is
  kept by every step that keeps the stream (`QuietStreamsStayQuiet`), which is the
  safety part of `StreamIsLeftAlone`, and means that once the camera's messages are
  handled the stream is shown as it reported it (`QuietStreamsShowReports`).
* `PushReceiverProofs`. `LoopInv` (the loop spawned last has seen no `Stop`, so it
  lives until the next one), `GroupInv` (what is left of loops and the wait group
  when no `Stop` gave up), `SaveInv` and `KeyInv` (what file, memory and cloud know
  of a device) prove `TokenIsKnown` and `OneListener`; with them
  `Implementation` proves `Spec => Service!Spec`, a case for each kind of step.
  `ToldInv` (the loops of a stopped receiver have all seen the `Stop`) gives
  `StoppedReceiverWindsDown`, the safety part of `FallsSilent`.
* `DashboardHubProofs`. `MemberInv` (clients are the connections whose channel
  is open), `StateInv` and `LogInv` (the current state and the last lines are
  always on their way: with a broadcast, with the handler, or in the channel).
  `EachEndsTheOther` (a writer that ended has closed the connection, a reader that
  ended the channel) and `ClosedChannelsDrain` are the safety part of
  `ClientsAreForgotten`.

Every module's type invariant is proved with its other invariants. Only
model-checked: `PublisherNeverWaits`, which uses `ENABLED`, and all liveness
properties, which are beyond the prover. Of four of them the safety part is proved:
`StopWindsDown`, `QuietStreamsStayQuiet`, `StoppedReceiverWindsDown` and
`ReaderAndWriterEndTogether` say that what is left has a way to its end and nothing
new begins; that it gets there is what fairness and TLC add.

Proved but checked by none of the runs: `ClientIsLink` of both modules,
`RelayIsRegistry` of `StreamSupervision`, `ReceiverIsUsed`, `ClientsAreUsed`,
`IsUsedSo`, `MirrorFollowsState`, `RetryInv`, `PlainIsExact`,
`RegisteredIsLive` (which `RelayIsRegistry` contains), the two theorems about a
stuck publisher and the theorems named above that say more than the runs' properties
do. TLC checked the refinements and `Quiet` of `StreamSupervision` on the whole
instance of `StreamRecovery`, `ClientIsLink` of `CameraClient` and `ReceiverIsUsed`
on millions of states of `ClientSafety` and `ManagerCalls`, and `ClientsAreUsed` on
the instance of `ManagerCalls` with one token; they are too slow for a run beside the
properties already there.

## Findings

`RelayDrain` violates `DrainNeverBlocks`: the drain of a full channel
(`rtmp/server.go:105`) may block the publisher for ever. The sections above name
three more disagreements between code and comments that the models record and
the checked properties exempt: `rtmp/server.go:170`, `nanit/client.go:645` and
`mqtt/publisher.go:438`.

## Not modelled

* Dashboard authentication: requests that read or replace one password file and
  count attempts. They share no state with the bridge, and what could go wrong
  between two of them is the content of a file.
* MQTT commands and discovery, control requests, settings, track lists, frame
  capture, reading messages from the cloud: they pass a request on and keep no
  state; `Manager` models those that change its own.
* Values published while the broker is away are lost and not sent again until
  they change (`publisher.go:444`): `StateMirror` has the loss, and its properties
  except what was lost.
* `internal/config` except the writing of the RTMP token: it reads the
  environment once, before anything runs. `cmd/nanit-debug`: a linear sequence
  of requests. The browser, beyond what it is sent. `nanitpb`: messages.
* Time: timers fire at any time, so no property is about how long anything takes.

`PROJECT.json` says of each component what is left out, and of each hazard that
no property covers, why.
