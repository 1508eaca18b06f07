----------------------------- MODULE RtmpRelay -----------------------------
(***************************************************************************)
(* The RTMP relay of src/internal/rtmp/server.go.                          *)
(*                                                                         *)
(* Cameras publish a stream under a key; consumers (go2rtc, Frigate, the   *)
(* dashboard's HTTP-FLV endpoint) subscribe to a key.  Every publishing    *)
(* connection owns one broadcaster: the map of its subscribers, the last   *)
(* configuration packets, and a read-write lock.  The server keeps the map *)
(* from keys to the broadcaster of the latest publisher.  A publisher      *)
(* broadcasts under the read lock, packet by packet and subscriber by      *)
(* subscriber, into the bounded channel of each subscriber; subscribers    *)
(* are added, removed and closed under the write lock.                     *)
(*                                                                         *)
(* A broadcaster is identified with the publishing connection that created *)
(* it.  Sections under a mutex in which nothing blocks are one step; the   *)
(* loop of broadcast, which may block on a channel, is a step per channel  *)
(* operation.  Payloads are abstracted to the packet's kind and to two     *)
(* counters that tell which video frame and which decoder configuration of *)
(* the publisher it belongs to.                                            *)
(***************************************************************************)
EXTENDS Naturals, Sequences, FiniteSets

CONSTANTS
    Keys,          \* stream keys, one per baby
    Publishers,    \* publishing connections, each used once
    Subscribers,   \* subscribing connections, each used once
    None,          \* no publisher
    Capacity,      \* capacity of a subscriber's channel (256 in the code)
    Kinds,         \* the kinds of packets the publishers of an instance send
    MaxPackets     \* bound: packets read from one publisher

ConfigKinds == {"metadata", "aacConfig", "h264Config"}
VideoKinds == {"key", "delta"}
PacketKinds == ConfigKinds \cup VideoKinds \cup {"aac"}

ASSUME NoneAssumption == None \notin Publishers
\* A new channel takes the three configuration packets without blocking.
ASSUME CapacityAssumption == Capacity \in Nat /\ Capacity >= 3
ASSUME KindsAssumption == Kinds \subseteq PacketKinds
ASSUME MaxPacketsAssumption == MaxPackets \in Nat

(* A packet: its kind, the number of video frames up to it (itself         *)
(* included) and the number of video decoder configurations up to it.      *)
Packet == [kind : PacketKinds, video : Nat, config : Nat]
NoPacket == [kind |-> "aac", video |-> 0, config |-> 0]

VARIABLES
    registry,    \* Server.broadcasters: the publisher registered for a key
    pub,         \* where handlePublisher of a connection is
    pubKey,      \* the key it publishes
    hand,        \* the packet it is handling
    sent,        \* what it has read so far
    cached,      \* its broadcaster's metadata, aacConfig and h264Config
    subs,        \* its broadcaster's subscribers
    pending,     \* subscribers the running broadcast has still to serve
    target,      \* the subscriber it is serving with a full channel
    left,        \* iterations left in the drain loop
    closers,     \* broadcasters with a pending `go old.closeSubscribers()`
    sub,         \* where handleSubscriber of a connection is
    source,      \* the broadcaster a subscriber looked up
    queue,       \* content of the subscriber's channel
    open,        \* whether that channel is open
    needsKey,    \* subscriber.needsKeyframe
    panicked,    \* the process has died: close of a closed channel, send on one
    seen,        \* history: the last video frame and configuration received
    overflowed   \* history: the subscriber's channel was full once

pubVars == <<hand, sent, cached>>
castVars == <<pending, target, left>>
subVars == <<sub, source>>
chanVars == <<queue, open, needsKey>>
history == <<seen, overflowed>>
vars == <<registry, pub, pubKey, pubVars, subs, castVars, closers, subVars,
          chanVars, panicked, history>>

PubStates == {"idle", "reading", "caching", "publishing", "sending", "full",
              "draining", "unregister", "closing", "gone"}
SubStates == {"idle", "found", "streaming", "leaving", "done"}

TypeOK ==
    /\ registry \in [Keys -> Publishers \cup {None}]
    /\ pub \in [Publishers -> PubStates]
    /\ pubKey \in [Publishers -> Keys \cup {None}]
    /\ hand \in [Publishers -> Packet]
    /\ sent \in [Publishers -> [packets : Nat, video : Nat, config : Nat]]
    /\ cached \in [Publishers -> [ConfigKinds -> {q \in Seq(Packet) : Len(q) <= 1}]]
    /\ subs \in [Publishers -> SUBSET Subscribers]
    /\ pending \in [Publishers -> SUBSET Subscribers]
    /\ target \in [Publishers -> Subscribers \cup {None}]
    /\ left \in [Publishers -> Nat]
    /\ closers \subseteq Publishers
    /\ sub \in [Subscribers -> SubStates]
    /\ source \in [Subscribers -> Publishers \cup {None}]
    /\ queue \in [Subscribers -> {q \in Seq(Packet) : Len(q) <= Capacity}]
    /\ open \in [Subscribers -> BOOLEAN]
    /\ needsKey \in [Subscribers -> BOOLEAN]
    /\ panicked \in BOOLEAN
    /\ seen \in [Subscribers -> [video : Nat, config : Nat]]
    /\ overflowed \in [Subscribers -> BOOLEAN]

Init ==
    /\ registry = [k \in Keys |-> None]
    /\ pub = [p \in Publishers |-> "idle"]
    /\ pubKey = [p \in Publishers |-> None]
    /\ hand = [p \in Publishers |-> NoPacket]
    /\ sent = [p \in Publishers |-> [packets |-> 0, video |-> 0, config |-> 0]]
    /\ cached = [p \in Publishers |-> [c \in ConfigKinds |-> << >>]]
    /\ subs = [p \in Publishers |-> {}]
    /\ pending = [p \in Publishers |-> {}]
    /\ target = [p \in Publishers |-> None]
    /\ left = [p \in Publishers |-> 0]
    /\ closers = {}
    /\ sub = [s \in Subscribers |-> "idle"]
    /\ source = [s \in Subscribers |-> None]
    /\ queue = [s \in Subscribers |-> << >>]
    /\ open = [s \in Subscribers |-> FALSE]
    /\ needsKey = [s \in Subscribers |-> FALSE]
    /\ panicked = FALSE
    /\ seen = [s \in Subscribers |-> [video |-> 0, config |-> 0]]
    /\ overflowed = [s \in Subscribers |-> FALSE]

-----------------------------------------------------------------------------
(* Locks, channels and the tests the handlers make.  A definition that     *)
(* nothing uses is a mutant of the one that follows it.                    *)

\* The broadcast of p holds the read lock of its broadcaster.
ReadLocked(p) == pub[p] \in {"sending", "full", "draining"}

\* A connection whose handler is still in its read loop or in a broadcast.
Live(p) == pub[p] \notin {"idle", "closing", "gone"}

RegisteredOrNot(p) == TRUE
NeverUnregister(p) == FALSE

\* The guard of handlePublisher's deferred delete.
StillRegistered(p) == registry[pubKey[p]] = p

\* What addSubscriber puts into a new channel.
Replay(p) ==
    cached[p]["metadata"] \o cached[p]["aacConfig"] \o cached[p]["h264Config"]

\* The publisher a new one replaces, if there is one.
NobodyReplaced(k) == {}
Replaced(k) == {registry[k]} \ {None}

CacheNothing(kind) == "publishing"

\* What the publisher does with a packet it has just read.
AfterRead(kind) == IF kind \in ConfigKinds THEN "caching" ELSE "publishing"

RemoveUnchecked(s) == {s}

\* Subscribers whose channels removeSubscriber closes.
ToRemove(s) == subs[source[s]] \cap {s}

SkipNothing(p, s) == FALSE

\* broadcast skips P- and B-frames until a keyframe arrives.
MustSkip(p, s) == needsKey[s] /\ hand[p].kind = "delta"

\* A send to the subscriber's channel does not block.
HasRoom(s) == Len(queue[s]) < Capacity

\* close of every channel in S; closing a closed channel panics.
CloseChannels(S) ==
    /\ open' = [s \in Subscribers |-> open[s] /\ s \notin S]
    /\ panicked' = (panicked \/ \E s \in S : ~open[s])

-----------------------------------------------------------------------------
(* The publishing connection: handlePublisher.                             *)

\* A publisher connects; it replaces the one registered for the key, whose
\* subscribers a new goroutine will close.
Publish(p, k) ==
    /\ pub[p] = "idle"
    /\ pub' = [pub EXCEPT ![p] = "reading"]
    /\ pubKey' = [pubKey EXCEPT ![p] = k]
    /\ registry' = [registry EXCEPT ![k] = p]
    /\ closers' = closers \cup Replaced(k)
    /\ UNCHANGED <<pubVars, subs, castVars, subVars, chanVars, panicked, history>>

\* The packets read so far, all, of the video and of its configuration,
\* once one more has been read.
Counted(p, kind) ==
    [packets |-> sent[p].packets + 1,
     video |-> sent[p].video + (IF kind \in VideoKinds THEN 1 ELSE 0),
     config |-> sent[p].config + (IF kind = "h264Config" THEN 1 ELSE 0)]

ReadPacket(p, kind) ==
    /\ pub[p] = "reading"
    /\ sent[p].packets < MaxPackets
    /\ pub' = [pub EXCEPT ![p] = AfterRead(kind)]
    /\ sent' = [sent EXCEPT ![p] = Counted(p, kind)]
    /\ hand' = [hand EXCEPT ![p] = [kind |-> kind, video |-> Counted(p, kind).video,
                                    config |-> Counted(p, kind).config]]
    /\ UNCHANGED <<registry, pubKey, cached, subs, castVars, closers, subVars,
                   chanVars, panicked, history>>

\* A configuration packet is cached for later subscribers before it is
\* broadcast to the present ones.
CachePacket(p) ==
    /\ pub[p] = "caching"
    /\ pub' = [pub EXCEPT ![p] = "publishing"]
    /\ cached' = [cached EXCEPT ![p][hand[p].kind] = <<hand[p]>>]
    /\ UNCHANGED <<registry, pubKey, hand, sent, subs, castVars, closers, subVars,
                   chanVars, panicked, history>>

BeginBroadcast(p) ==
    /\ pub[p] = "publishing"
    /\ pub' = [pub EXCEPT ![p] = "sending"]
    /\ pending' = [pending EXCEPT ![p] = subs[p]]
    /\ UNCHANGED <<registry, pubKey, pubVars, subs, target, left, closers, subVars,
                   chanVars, panicked, history>>

Skip(p, s) ==
    /\ pub[p] = "sending"
    /\ s \in pending[p]
    /\ MustSkip(p, s)
    /\ pending' = [pending EXCEPT ![p] = @ \ {s}]
    /\ UNCHANGED <<registry, pub, pubKey, pubVars, subs, target, left, closers,
                   subVars, chanVars, panicked, history>>

Send(p, s) ==
    /\ pub[p] = "sending"
    /\ s \in pending[p]
    /\ ~MustSkip(p, s)
    /\ HasRoom(s)
    /\ queue' = [queue EXCEPT ![s] = Append(@, hand[p])]
    /\ needsKey' = [needsKey EXCEPT ![s] = @ /\ hand[p].kind # "key"]
    /\ pending' = [pending EXCEPT ![p] = @ \ {s}]
    /\ panicked' = (panicked \/ ~open[s])
    /\ UNCHANGED <<registry, pub, pubKey, pubVars, subs, target, left, closers,
                   subVars, open, history>>

BlockWhenFull(p, s) == FALSE

\* The channel is full: the packet is dropped and a drain follows.
Overflow(p, s) ==
    /\ pub[p] = "sending"
    /\ s \in pending[p]
    /\ ~MustSkip(p, s)
    /\ ~HasRoom(s)
    /\ pub' = [pub EXCEPT ![p] = "full"]
    /\ needsKey' = [needsKey EXCEPT ![s] = TRUE]
    /\ pending' = [pending EXCEPT ![p] = @ \ {s}]
    /\ target' = [target EXCEPT ![p] = s]
    /\ overflowed' = [overflowed EXCEPT ![s] = TRUE]
    /\ UNCHANGED <<registry, pubKey, pubVars, subs, left, closers, subVars,
                   queue, open, panicked, seen>>

\* n := len(sub.pktC): the subscriber may have received in between.
MeasureDrain(p) ==
    /\ pub[p] = "full"
    /\ pub' = [pub EXCEPT ![p] = "draining"]
    /\ left' = [left EXCEPT ![p] = Len(queue[target[p]])]
    /\ UNCHANGED <<registry, pubKey, pubVars, subs, pending, target, closers,
                   subVars, chanVars, panicked, history>>

\* <-sub.pktC: waits while the channel is empty.
DrainOne(p) ==
    /\ pub[p] = "draining"
    /\ left[p] > 0
    /\ queue[target[p]] # << >>
    /\ queue' = [queue EXCEPT ![target[p]] = Tail(@)]
    /\ left' = [left EXCEPT ![p] = @ - 1]
    /\ UNCHANGED <<registry, pub, pubKey, pubVars, subs, pending, target, closers,
                   subVars, open, needsKey, panicked, history>>

DrainDone(p) ==
    /\ pub[p] = "draining"
    /\ left[p] = 0
    /\ pub' = [pub EXCEPT ![p] = "sending"]
    /\ UNCHANGED <<registry, pubKey, pubVars, subs, castVars, closers, subVars,
                   chanVars, panicked, history>>

EndBroadcast(p) ==
    /\ pub[p] = "sending"
    /\ pending[p] = {}
    /\ pub' = [pub EXCEPT ![p] = "reading"]
    /\ UNCHANGED <<registry, pubKey, pubVars, subs, castVars, closers, subVars,
                   chanVars, panicked, history>>

ReadError(p) ==
    /\ pub[p] = "reading"
    /\ pub' = [pub EXCEPT ![p] = "unregister"]
    /\ UNCHANGED <<registry, pubKey, pubVars, subs, castVars, closers, subVars,
                   chanVars, panicked, history>>

Unregister(p) ==
    /\ pub[p] = "unregister"
    /\ pub' = [pub EXCEPT ![p] = "closing"]
    /\ registry' = IF StillRegistered(p)
                   THEN [registry EXCEPT ![pubKey[p]] = None] ELSE registry
    /\ UNCHANGED <<pubKey, pubVars, subs, castVars, closers, subVars, chanVars,
                   panicked, history>>

\* closeSubscribers of p's broadcaster.
CloseSubscribers(p) ==
    /\ ~ReadLocked(p)
    /\ CloseChannels(subs[p])
    /\ subs' = [subs EXCEPT ![p] = {}]
    /\ UNCHANGED <<registry, pubKey, pubVars, castVars, subVars, queue, needsKey, history>>

\* ... by p's own deferred function, which then starts the disconnect callback
CloseOnExit(p) ==
    /\ pub[p] = "closing"
    /\ pub' = [pub EXCEPT ![p] = "gone"]
    /\ CloseSubscribers(p)
    /\ UNCHANGED closers

\* ... and by the goroutine the replacing publisher started.
CloseReplaced(p) ==
    /\ p \in closers
    /\ closers' = closers \ {p}
    /\ CloseSubscribers(p)
    /\ UNCHANGED pub

-----------------------------------------------------------------------------
(* The subscribing connection: handleSubscriber, and Subscribe with the    *)
(* loop of its caller.                                                     *)

Lookup(s, k) ==
    /\ sub[s] = "idle"
    /\ sub' = [sub EXCEPT ![s] = IF registry[k] = None THEN "done" ELSE "found"]
    /\ source' = [source EXCEPT ![s] = registry[k]]
    /\ UNCHANGED <<registry, pub, pubKey, pubVars, subs, castVars, closers, chanVars,
                   panicked, history>>

\* The lock of the server was released after the lookup.
AddSubscriber(s) ==
    /\ sub[s] = "found"
    /\ ~ReadLocked(source[s])
    /\ sub' = [sub EXCEPT ![s] = "streaming"]
    /\ subs' = [subs EXCEPT ![source[s]] = @ \cup {s}]
    /\ queue' = [queue EXCEPT ![s] = Replay(source[s])]
    /\ open' = [open EXCEPT ![s] = TRUE]
    /\ needsKey' = [needsKey EXCEPT ![s] = TRUE]
    /\ UNCHANGED <<registry, pub, pubKey, pubVars, castVars, closers, source,
                   panicked, history>>

Receive(s) ==
    LET pkt == Head(queue[s])
    IN /\ sub[s] = "streaming"
       /\ queue[s] # << >>
       /\ queue' = [queue EXCEPT ![s] = Tail(@)]
       /\ seen' = [seen EXCEPT ![s] =
                      [video |-> IF pkt.kind \in VideoKinds THEN pkt.video ELSE @.video,
                       config |-> IF pkt.kind = "h264Config" THEN pkt.config ELSE @.config]]
       /\ UNCHANGED <<registry, pub, pubKey, pubVars, subs, castVars, closers, subVars,
                      open, needsKey, panicked, overflowed>>

\* The channel is closed and empty.
SeeClosed(s) ==
    /\ sub[s] = "streaming"
    /\ ~open[s] /\ queue[s] = << >>
    /\ sub' = [sub EXCEPT ![s] = "leaving"]
    /\ UNCHANGED <<registry, pub, pubKey, pubVars, subs, castVars, closers, source,
                   chanVars, panicked, history>>

\* The client hangs up.
ClientGone(s) ==
    /\ sub[s] = "streaming"
    /\ sub' = [sub EXCEPT ![s] = "leaving"]
    /\ UNCHANGED <<registry, pub, pubKey, pubVars, subs, castVars, closers, source,
                   chanVars, panicked, history>>

RemoveSubscriber(s) ==
    /\ sub[s] = "leaving"
    /\ ~ReadLocked(source[s])
    /\ sub' = [sub EXCEPT ![s] = "done"]
    /\ CloseChannels(ToRemove(s))
    /\ subs' = [subs EXCEPT ![source[s]] = @ \ {s}]
    /\ UNCHANGED <<registry, pub, pubKey, pubVars, castVars, closers, source, queue,
                   needsKey, history>>

-----------------------------------------------------------------------------
Broadcast(p) ==
    \/ BeginBroadcast(p) \/ EndBroadcast(p)
    \/ MeasureDrain(p) \/ DrainOne(p) \/ DrainDone(p)
    \/ \E s \in Subscribers : Skip(p, s) \/ Send(p, s) \/ Overflow(p, s)

PublisherStep(p) ==
    \/ \E k \in Keys : Publish(p, k)
    \/ \E kind \in Kinds : ReadPacket(p, kind)
    \/ CachePacket(p) \/ Broadcast(p)
    \/ ReadError(p) \/ Unregister(p) \/ CloseOnExit(p) \/ CloseReplaced(p)

SubscriberStep(s) ==
    \/ \E k \in Keys : Lookup(s, k)
    \/ AddSubscriber(s) \/ Receive(s) \/ SeeClosed(s)
    \/ ClientGone(s) \/ RemoveSubscriber(s)

\* A panic ends the process.
Next ==
    /\ ~panicked
    /\ \/ \E p \in Publishers : PublisherStep(p)
       \/ \E s \in Subscribers : SubscriberStep(s)

Spec == Init /\ [][Next]_vars

(* The scheduler runs every goroutine that is not blocked.  A section under *)
(* the write lock waits for the broadcast in progress and then runs: Go's   *)
(* RWMutex admits no new reader while a writer waits, hence strong          *)
(* fairness.  Nothing makes a camera or a client connect, send or hang up;  *)
(* a subscriber is assumed to keep taking packets.                          *)
Fairness ==
    /\ \A p \in Publishers :
          /\ WF_vars(~panicked /\ (CachePacket(p) \/ Broadcast(p) \/ Unregister(p)))
          /\ SF_vars(~panicked /\ CloseOnExit(p))
          /\ SF_vars(~panicked /\ CloseReplaced(p))
    /\ \A s \in Subscribers :
          /\ WF_vars(~panicked /\ (Receive(s) \/ SeeClosed(s)))
          /\ SF_vars(~panicked /\ AddSubscriber(s))
          /\ SF_vars(~panicked /\ RemoveSubscriber(s))

FairSpec == Spec /\ Fairness

-----------------------------------------------------------------------------
(* Properties                                                              *)

\* The drain of p has more packets to take than its channel holds: only the
\* publisher itself could fill the channel, so it waits forever, holding the
\* read lock.
Stuck(p) == pub[p] = "draining" /\ left[p] > Len(queue[target[p]])

Registered(p) == \E k \in Keys : registry[k] = p

\* close(sub.pktC) happens once per channel and no packet is sent to a closed
\* channel, although a channel may be closed by the subscriber's own exit, by
\* the publisher's exit and by the goroutine of a replacing publisher.
NoPanic == ~panicked

\* HasStream, the watchdog's test and the MQTT and dashboard status tell the
\* truth: the publisher registered for a key publishes that key and has not
\* left its read loop for good.  RelayIsRegistry contains it; the proofs need it.
RegisteredIsLive ==
    \A k \in Keys : registry[k] # None => Live(registry[k]) /\ pubKey[registry[k]] = k

\* The relay is the registry of streams that the manager, the dashboard and the
\* subscribers take it for: a key goes to the latest publisher, and comes back only
\* from the one that has it, when it is no longer read.
ConnState(p) ==
    IF Live(p) THEN "open" ELSE IF pub[p] = "closing" THEN "left" ELSE "none"

Registry == INSTANCE StreamRegistry WITH
    Conns <- Publishers, owner <- registry, keyOf <- pubKey,
    conn <- [p \in Publishers |-> ConnState(p)]

RelayIsRegistry == Registry!Spec

\* A camera that reconnects replaces its old connection; when that connection
\* dies later, its cleanup does not unregister the new one.  Only a newer
\* publisher or its own cleanup takes the key from a publisher.
LivePublisherKeepsItsKey ==
    [][\A k \in Keys :
          registry[k] # None /\ registry'[k] # registry[k] =>
              \/ pub[registry[k]] = "unregister"
              \/ registry'[k] # None /\ pub[registry'[k]] = "idle"]_vars

\* A decoder is never handed a P- or B-frame without the frame before it: not
\* at the start, not after packets were dropped.  (In the one case where a
\* receive takes a packet the drain had counted, the publisher is stuck.)
VideoContinuity ==
    [][\A s \in Subscribers :
          Receive(s) /\ Head(queue[s]).kind = "delta" =>
              \/ seen[s].video > 0 /\ Head(queue[s]).video = seen[s].video + 1
              \/ Stuck(source[s])']_vars

\* While its channel has never been full, a subscriber has the decoder
\* configuration in force before each keyframe, whenever it joined, and
\* misses no keyframe after its first one.
ConfigBeforeKeyframe ==
    [][\A s \in Subscribers :
          Receive(s) /\ Head(queue[s]).kind = "key" /\ ~overflowed[s] =>
              /\ Head(queue[s]).config = seen[s].config
              /\ seen[s].video > 0 => Head(queue[s]).video = seen[s].video + 1]_vars

\* No subscriber, slow or gone, holds up the publisher: while it hands a packet
\* to its subscribers it can always go on (unless its drain lost the race).
PublisherNeverWaits ==
    \A p \in Publishers :
        pub[p] \in {"publishing", "sending", "full", "draining"} =>
            ENABLED Broadcast(p) \/ Stuck(p)

\* Consumers are not left on a dead stream: a subscriber of a registered stream
\* is let go once the publisher is replaced or lost (unless a drain is stuck).
SubscribersReleased ==
    \A p \in Publishers, s \in Subscribers :
        (s \in subs[p] /\ Registered(p)) ~>
            (sub[s] = "done" \/ Stuck(p) \/ []Registered(p))

\* server.go:103: the drain of a full channel leads to the next keyframe; it
\* never waits for a packet only the draining publisher could send.
DrainNeverBlocks == \A p \in Publishers : ~Stuck(p)

\* server.go:166-167: a subscriber gets a channel only of a stream that is
\* being published: no open channel belongs to a publisher that has left.  No run
\* checks it, for it fails: the publisher may leave between lookup and subscription.
SubscribedStreamIsPublished ==
    \A s \in Subscribers : open[s] => pub[source[s]] # "gone"
=============================================================================
