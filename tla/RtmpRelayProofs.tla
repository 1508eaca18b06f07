-------------------------- MODULE RtmpRelayProofs --------------------------
(***************************************************************************)
(* Theorems about RtmpRelay, for any number of keys and connections and    *)
(* any channel capacity.  The inductive invariant is IInv; its parts are   *)
(* preserved by every step one at a time: first what concerns connections  *)
(* and channels, then what the packets in the channels are.  The theorems  *)
(* at the end follow from it.                                              *)
(***************************************************************************)
EXTENDS RtmpRelay, SequenceTheorems, TLAPS

\* What the program counters say about the local variables of a handler.
HandlerInv ==
    /\ \A p \in Publishers :
          /\ pub[p] = "caching" => hand[p].kind \in ConfigKinds
          /\ pub[p] # "idle" => pubKey[p] \in Keys
          /\ pub[p] \in {"full", "draining"} => target[p] \in Subscribers
    /\ \A s \in Subscribers :
          sub[s] \in {"found", "streaming", "leaving"} => source[s] \in Publishers

\* A broadcaster's map holds the open channels of the subscribers that are
\* attached to it, and a broadcast in progress serves only those.
SubscriberMapInv ==
    /\ \A p \in Publishers : \A s \in subs[p] :
          open[s] /\ source[s] = p /\ sub[s] \in {"streaming", "leaving"}
    /\ \A p \in Publishers :
          /\ pending[p] \subseteq subs[p]
          /\ pending[p] # {} => ReadLocked(p)

-----------------------------------------------------------------------------
(* The content of the channels.  What a subscriber has received and what its   *)
(* channel holds are together what it has been offered of the stream.          *)

\* A packet of the video, and one that depends on or is the decoder configuration.
IsVideo(pkt) == pkt.kind \in VideoKinds
IsConfig(pkt) == pkt.kind = "h264Config"
UsesConfig(pkt) == pkt.kind \in {"key", "h264Config"}

(* The content q of a channel whose subscriber has last received video     *)
(* frame v and configuration c.                                            *)

\* Frames come in the order they were read, configurations do not go back.
Ordered(q, v, c) ==
    \A j \in 1..Len(q) :
        /\ IsVideo(q[j]) =>
              v < q[j].video /\ \A i \in 1..(j - 1) : IsVideo(q[i]) => q[i].video < q[j].video
        /\ UsesConfig(q[j]) =>
              c <= q[j].config /\ \A i \in 1..(j - 1) : IsConfig(q[i]) => q[i].config <= q[j].config

\* The frame before q[j] comes before it, or was the last one received.
Follows(q, v, j) ==
    \/ v > 0 /\ q[j].video = v + 1
    \/ \E i \in 1..(j - 1) : IsVideo(q[i]) /\ q[j].video = q[i].video + 1

\* A decoder can use every P- and B-frame.
Decodable(q, v) == \A j \in 1..Len(q) : q[j].kind = "delta" => Follows(q, v, j)

\* Nothing was lost: each frame but the first follows another, and the configuration
\* of a keyframe comes before it.
Complete(q, v, c) ==
    \A j \in 1..Len(q) :
        /\ IsVideo(q[j]) =>
              Follows(q, v, j) \/ (v = 0 /\ \A i \in 1..(j - 1) : ~IsVideo(q[i]))
        /\ q[j].kind = "key" =>
              c = q[j].config \/ \E i \in 1..(j - 1) : IsConfig(q[i]) /\ q[i].config = q[j].config

\* Nothing is newer than frame n and configuration m.
Bounded(q, v, c, n, m) ==
    /\ v <= n /\ c <= m
    /\ \A i \in 1..Len(q) : /\ IsVideo(q[i]) => q[i].video <= n
                            /\ UsesConfig(q[i]) => q[i].config <= m

\* The last frame is n, the last configuration m; there is no frame.
HasFrame(q, v, n) == n > 0 /\ (v = n \/ \E i \in 1..Len(q) : IsVideo(q[i]) /\ q[i].video = n)
HasConfig(q, c, m) == c = m \/ \E i \in 1..Len(q) : IsConfig(q[i]) /\ q[i].config = m
NoFrame(q, v) == v = 0 /\ \A i \in 1..Len(q) : ~IsVideo(q[i])

Attached(s) == sub[s] \in {"streaming", "leaving"}

\* The packet in the hands of p has still to be sent to s.
Owed(p, s) == pub[p] \in {"caching", "publishing"} \/ (ReadLocked(p) /\ s \in pending[p])

\* The number of video frames s has been offered.
Offered(p, s) ==
    IF IsVideo(hand[p]) /\ Owed(p, s) THEN sent[p].video - 1 ELSE sent[p].video

\* The packet in hand is the last one read; cached is the configuration in force.
PacketInv ==
    \A p \in Publishers :
        /\ pub[p] \in {"caching", "publishing", "sending", "full", "draining"} =>
              /\ hand[p].video = sent[p].video /\ hand[p].config = sent[p].config
              /\ IsVideo(hand[p]) => sent[p].video > 0
        /\ \A c \in ConfigKinds : cached[p][c] # << >> =>
              cached[p][c][1].kind = c /\ cached[p][c][1].config <= sent[p].config
        /\ \/ pub[p] = "caching" /\ IsConfig(hand[p])
           \/ cached[p]["h264Config"] = << >> /\ sent[p].config = 0
           \/ cached[p]["h264Config"] # << >> /\ cached[p]["h264Config"][1].config = sent[p].config

\* A drain is of a subscriber that has been served, and takes at least what is there.
DrainInv ==
    \A p \in Publishers :
        /\ pub[p] \in {"full", "draining"} =>
              /\ target[p] \in subs[p] \ pending[p]
              /\ needsKey[target[p]] /\ overflowed[target[p]]
        /\ pub[p] = "draining" => left[p] >= Len(queue[target[p]])

Drained(s) == pub[source[s]] = "draining" /\ target[source[s]] = s

\* What a channel holds ...
Content(s) ==
    /\ sub[s] \in {"idle", "found"} => queue[s] = << >> /\ seen[s] = [video |-> 0, config |-> 0]
    /\ Attached(s) =>
          /\ Ordered(queue[s], seen[s].video, seen[s].config)
          /\ ~Drained(s) => Decodable(queue[s], seen[s].video)
          /\ ~overflowed[s] => Complete(queue[s], seen[s].video, seen[s].config)
ContentInv == \A s \in Subscribers : Content(s)

\* ... and what its subscriber has of the stream.
Progress(p, s) ==
    /\ Bounded(queue[s], seen[s].video, seen[s].config, Offered(p, s), sent[p].config)
    /\ ~needsKey[s] => HasFrame(queue[s], seen[s].video, Offered(p, s))
    /\ needsKey[s] /\ ~overflowed[s] => NoFrame(queue[s], seen[s].video)
    /\ ~overflowed[s] /\ ~(IsConfig(hand[p]) /\ Owed(p, s)) =>
          HasConfig(queue[s], seen[s].config, sent[p].config)
ProgressInv == \A p \in Publishers : \A s \in subs[p] : Progress(p, s)

IInv == /\ TypeOK /\ HandlerInv /\ SubscriberMapInv /\ RegisteredIsLive /\ NoPanic
        /\ PacketInv /\ DrainInv /\ ContentInv /\ ProgressInv
-----------------------------------------------------------------------------
(* Lemmas about the content of a channel: what a receive and a send leave. *)

\* t is q without its head; t is q with pkt at its end.
IsTail(t, q) == Len(q) = Len(t) + 1 /\ \A i \in 1..Len(t) : t[i] = q[i + 1]
IsAppend(t, q, pkt) ==
    Len(t) = Len(q) + 1 /\ t[Len(q) + 1] = pkt /\ \A i \in 1..Len(q) : t[i] = q[i]

\* The frame and the configuration last received once pkt has been.
FrameAfter(pkt, v) == IF IsVideo(pkt) THEN pkt.video ELSE v
ConfigAfter(pkt, c) == IF IsConfig(pkt) THEN pkt.config ELSE c

\* Elements of a sequence of packets are packets.
LEMMA PacketsInQueue ==
    ASSUME NEW q \in Seq(Packet)
    PROVE  /\ Len(q) \in Nat
           /\ \A i \in 1..Len(q) : q[i] \in Packet /\ q[i].video \in Nat /\ q[i].config \in Nat
  <1>1. Len(q) \in Nat /\ \A i \in 1..Len(q) : q[i] \in Packet
    OBVIOUS
  <1>2. \A pkt \in Packet : pkt.video \in Nat /\ pkt.config \in Nat
    BY DEF Packet
  <1> QED
    BY <1>1, <1>2

\* The channel after a receive.
LEMMA TailIsTail ==
    ASSUME NEW q \in Seq(Packet), q # << >>
    PROVE  /\ Tail(q) \in Seq(Packet) /\ IsTail(Tail(q), q)
           /\ Head(q) = q[1] /\ 1 \in 1..Len(q)
  BY HeadTailProperties DEF IsTail

\* The channel after a send.
LEMMA AppendIsAppend ==
    ASSUME NEW q \in Seq(Packet), NEW pkt \in Packet
    PROVE  Append(q, pkt) \in Seq(Packet) /\ IsAppend(Append(q, pkt), q, pkt)
  BY AppendProperties DEF IsAppend

\* An element of the tail is a later element of the queue; what came before it does,
\* or is the head.
LEMMA TailIndex ==
    ASSUME NEW q \in Seq(Packet), NEW t \in Seq(Packet), IsTail(t, q), NEW j \in 1..Len(t)
    PROVE  /\ j + 1 \in 1..Len(q) /\ t[j] = q[j + 1]
           /\ \A i \in 1..(j - 1) : i + 1 \in 1..((j + 1) - 1) /\ t[i] = q[i + 1]
           /\ \A i \in 1..((j + 1) - 1) : i = 1 \/ (i - 1 \in 1..(j - 1) /\ t[i - 1] = q[i])
           /\ 1 \in 1..((j + 1) - 1) /\ 1 \in 1..Len(q)
  <1>1. Len(q) \in Nat /\ Len(t) \in Nat /\ j \in Nat /\ 1 <= j /\ j <= Len(t)
    BY PacketsInQueue
  <1>2. Len(q) = Len(t) + 1 /\ \A i \in 1..Len(t) : t[i] = q[i + 1]
    BY DEF IsTail
  <1> QED
    BY <1>1, <1>2

\* What is left after a receive is in order after what was received.
LEMMA OrderedTail ==
    ASSUME NEW q \in Seq(Packet), NEW t \in Seq(Packet), IsTail(t, q),
           NEW v \in Nat, NEW c \in Nat, Ordered(q, v, c)
    PROVE  Ordered(t, FrameAfter(q[1], v), ConfigAfter(q[1], c))
  <1> SUFFICES ASSUME NEW j \in 1..Len(t)
               PROVE  /\ IsVideo(t[j]) =>
                            /\ FrameAfter(q[1], v) < t[j].video
                            /\ \A i \in 1..(j - 1) : IsVideo(t[i]) => t[i].video < t[j].video
                      /\ UsesConfig(t[j]) =>
                            /\ ConfigAfter(q[1], c) <= t[j].config
                            /\ \A i \in 1..(j - 1) : IsConfig(t[i]) => t[i].config <= t[j].config
    BY DEF Ordered
  <1>1. /\ j + 1 \in 1..Len(q) /\ t[j] = q[j + 1] /\ 1 \in 1..((j + 1) - 1)
        /\ \A i \in 1..(j - 1) : i + 1 \in 1..((j + 1) - 1) /\ t[i] = q[i + 1]
    <2>1. j + 1 \in 1..Len(q) /\ t[j] = q[j + 1] /\ 1 \in 1..((j + 1) - 1)
      BY TailIndex
    <2>2. \A i \in 1..(j - 1) : i + 1 \in 1..((j + 1) - 1) /\ t[i] = q[i + 1]
      BY TailIndex
    <2> QED
      BY <2>1, <2>2
  <1>2. ASSUME IsVideo(t[j])
        PROVE  /\ FrameAfter(q[1], v) < t[j].video
               /\ \A i \in 1..(j - 1) : IsVideo(t[i]) => t[i].video < t[j].video
    <2>1. /\ v < q[j + 1].video
          /\ \A i \in 1..((j + 1) - 1) : IsVideo(q[i]) => q[i].video < q[j + 1].video
      BY <1>1, <1>2 DEF Ordered
    <2> QED
      BY <1>1, <2>1 DEF FrameAfter
  <1>3. ASSUME UsesConfig(t[j])
        PROVE  /\ ConfigAfter(q[1], c) <= t[j].config
               /\ \A i \in 1..(j - 1) : IsConfig(t[i]) => t[i].config <= t[j].config
    <2>1. /\ c <= q[j + 1].config
          /\ \A i \in 1..((j + 1) - 1) : IsConfig(q[i]) => q[i].config <= q[j + 1].config
      BY <1>1, <1>3 DEF Ordered
    <2> QED
      BY <1>1, <2>1 DEF ConfigAfter
  <1> QED
    BY <1>2, <1>3

\* A frame that follows another still does when the head has been received.
LEMMA FollowsTail ==
    ASSUME NEW q \in Seq(Packet), NEW t \in Seq(Packet), IsTail(t, q),
           NEW v \in Nat, NEW c \in Nat, Ordered(q, v, c),
           NEW j \in 1..Len(t), IsVideo(t[j]), Follows(q, v, j + 1)
    PROVE  Follows(t, FrameAfter(q[1], v), j)
  <1>1. /\ j + 1 \in 1..Len(q) /\ t[j] = q[j + 1] /\ 1 \in 1..((j + 1) - 1) /\ 1 \in 1..Len(q)
        /\ \A i \in 1..((j + 1) - 1) : i = 1 \/ (i - 1 \in 1..(j - 1) /\ t[i - 1] = q[i])
    BY TailIndex
  <1>2. q[1].video \in Nat /\ q[j + 1].video \in Nat
    BY <1>1, PacketsInQueue
  <1>3. IsVideo(q[1]) => v < q[1].video /\ q[1].video < q[j + 1].video
    BY <1>1 DEF Ordered
  <1>4. CASE v > 0 /\ q[j + 1].video = v + 1
    BY <1>1, <1>2, <1>3, <1>4 DEF Follows, FrameAfter
  <1>5. ASSUME NEW i \in 1..((j + 1) - 1), IsVideo(q[i]), q[j + 1].video = q[i].video + 1
        PROVE  Follows(t, FrameAfter(q[1], v), j)
    <2>1. CASE i = 1
      BY <1>1, <1>2, <1>3, <1>5, <2>1 DEF Follows, FrameAfter
    <2>2. CASE i # 1
      BY <1>1, <1>5, <2>2 DEF Follows
    <2> QED
      BY <2>1, <2>2
  <1> QED
    BY <1>4, <1>5 DEF Follows

\* ... can be decoded after it ...
LEMMA DecodableTail ==
    ASSUME NEW q \in Seq(Packet), NEW t \in Seq(Packet), IsTail(t, q),
           NEW v \in Nat, NEW c \in Nat, Ordered(q, v, c), Decodable(q, v)
    PROVE  Decodable(t, FrameAfter(q[1], v))
  <1> SUFFICES ASSUME NEW j \in 1..Len(t), t[j].kind = "delta"
               PROVE  Follows(t, FrameAfter(q[1], v), j)
    BY DEF Decodable
  <1>1. j + 1 \in 1..Len(q) /\ t[j] = q[j + 1]
    BY TailIndex
  <1>2. Follows(q, v, j + 1)
    BY <1>1 DEF Decodable
  <1>3. IsVideo(t[j])
    BY DEF IsVideo, VideoKinds
  <1> QED
    BY <1>2, <1>3, FollowsTail

\* ... and lacks nothing.
LEMMA CompleteTail ==
    ASSUME NEW q \in Seq(Packet), NEW t \in Seq(Packet), IsTail(t, q),
           NEW v \in Nat, NEW c \in Nat, Ordered(q, v, c), Complete(q, v, c)
    PROVE  Complete(t, FrameAfter(q[1], v), ConfigAfter(q[1], c))
  <1> SUFFICES ASSUME NEW j \in 1..Len(t)
               PROVE  /\ IsVideo(t[j]) =>
                            \/ Follows(t, FrameAfter(q[1], v), j)
                            \/ FrameAfter(q[1], v) = 0 /\ \A i \in 1..(j - 1) : ~IsVideo(t[i])
                      /\ t[j].kind = "key" =>
                            \/ ConfigAfter(q[1], c) = t[j].config
                            \/ \E i \in 1..(j - 1) : IsConfig(t[i]) /\ t[i].config = t[j].config
    BY DEF Complete
  <1>1. /\ j + 1 \in 1..Len(q) /\ t[j] = q[j + 1] /\ 1 \in 1..((j + 1) - 1) /\ 1 \in 1..Len(q)
        /\ \A i \in 1..(j - 1) : i + 1 \in 1..((j + 1) - 1) /\ t[i] = q[i + 1]
        /\ \A i \in 1..((j + 1) - 1) : i = 1 \/ (i - 1 \in 1..(j - 1) /\ t[i - 1] = q[i])
    <2>1. j + 1 \in 1..Len(q) /\ t[j] = q[j + 1] /\ 1 \in 1..((j + 1) - 1) /\ 1 \in 1..Len(q)
      BY TailIndex
    <2>2. \A i \in 1..(j - 1) : i + 1 \in 1..((j + 1) - 1) /\ t[i] = q[i + 1]
      BY TailIndex
    <2>3. \A i \in 1..((j + 1) - 1) : i = 1 \/ (i - 1 \in 1..(j - 1) /\ t[i - 1] = q[i])
      BY TailIndex
    <2> QED
      BY <2>1, <2>2, <2>3
  <1>2. q[1].config \in Nat /\ q[j + 1].config \in Nat
    BY <1>1, PacketsInQueue
  <1>3. ASSUME IsVideo(t[j])
        PROVE  \/ Follows(t, FrameAfter(q[1], v), j)
               \/ FrameAfter(q[1], v) = 0 /\ \A i \in 1..(j - 1) : ~IsVideo(t[i])
    <2>1. CASE Follows(q, v, j + 1)
      BY <1>3, <2>1, FollowsTail
    <2>2. CASE v = 0 /\ \A i \in 1..((j + 1) - 1) : ~IsVideo(q[i])
      BY <1>1, <2>2 DEF FrameAfter
    <2> QED
      BY <1>1, <1>3, <2>1, <2>2 DEF Complete
  <1>4. ASSUME t[j].kind = "key"
        PROVE  \/ ConfigAfter(q[1], c) = t[j].config
               \/ \E i \in 1..(j - 1) : IsConfig(t[i]) /\ t[i].config = t[j].config
    <2>1. IsConfig(q[1]) => c <= q[1].config /\ q[1].config <= q[j + 1].config
      BY <1>1, <1>4 DEF Ordered, UsesConfig, IsConfig
    <2>2. CASE c = q[j + 1].config
      BY <1>1, <1>2, <2>1, <2>2 DEF ConfigAfter
    <2>3. ASSUME NEW i \in 1..((j + 1) - 1), IsConfig(q[i]), q[i].config = q[j + 1].config
          PROVE  \/ ConfigAfter(q[1], c) = t[j].config
                 \/ \E k \in 1..(j - 1) : IsConfig(t[k]) /\ t[k].config = t[j].config
      <3>1. CASE i = 1
        BY <1>1, <2>3, <3>1 DEF ConfigAfter
      <3>2. CASE i # 1
        <4>1. i - 1 \in 1..(j - 1) /\ t[i - 1] = q[i]
          BY <1>1, <3>2
        <4> QED
          BY <1>1, <2>3, <4>1
      <3> QED
        BY <3>1, <3>2
    <2> QED
      BY <1>1, <1>4, <2>2, <2>3 DEF Complete
  <1> QED
    BY <1>3, <1>4

\* What a channel and its receiver together have of the stream, they keep.
LEMMA ProgressTail ==
    ASSUME NEW q \in Seq(Packet), NEW t \in Seq(Packet), IsTail(t, q),
           NEW v \in Nat, NEW c \in Nat, Ordered(q, v, c),
           NEW n \in Int, NEW m \in Nat, Bounded(q, v, c, n, m)
    PROVE  /\ Bounded(t, FrameAfter(q[1], v), ConfigAfter(q[1], c), n, m)
           /\ HasFrame(q, v, n) => HasFrame(t, FrameAfter(q[1], v), n)
           /\ HasConfig(q, c, m) => HasConfig(t, ConfigAfter(q[1], c), m)
           /\ NoFrame(q, v) => NoFrame(t, FrameAfter(q[1], v))
  <1>1. /\ Len(t) \in Nat /\ 1 \in 1..Len(q)
        /\ \A i \in 1..Len(t) : i + 1 \in 1..Len(q) /\ t[i] = q[i + 1]
        /\ \A i \in 1..Len(q) : i = 1 \/ (i - 1 \in 1..Len(t) /\ t[i - 1] = q[i])
    BY PacketsInQueue DEF IsTail
  <1>2. /\ q[1].video \in Nat /\ q[1].config \in Nat
        /\ IsVideo(q[1]) => v < q[1].video /\ q[1].video <= n
        /\ IsConfig(q[1]) => c <= q[1].config /\ q[1].config <= m
    BY <1>1, PacketsInQueue DEF Ordered, Bounded, IsConfig, UsesConfig
  <1>3. Bounded(t, FrameAfter(q[1], v), ConfigAfter(q[1], c), n, m)
    BY <1>1, <1>2 DEF Bounded, FrameAfter, ConfigAfter
  <1>4. ASSUME HasFrame(q, v, n) PROVE HasFrame(t, FrameAfter(q[1], v), n)
    <2>1. CASE v = n
      BY <1>2, <1>4, <2>1 DEF HasFrame, FrameAfter
    <2>2. ASSUME NEW i \in 1..Len(q), IsVideo(q[i]), q[i].video = n
          PROVE  HasFrame(t, FrameAfter(q[1], v), n)
      <3>1. CASE i = 1
        BY <1>4, <2>2, <3>1 DEF HasFrame, FrameAfter
      <3>2. CASE i # 1
        BY <1>1, <1>4, <2>2, <3>2 DEF HasFrame
      <3> QED
        BY <3>1, <3>2
    <2> QED
      BY <1>4, <2>1, <2>2 DEF HasFrame
  <1>5. ASSUME HasConfig(q, c, m) PROVE HasConfig(t, ConfigAfter(q[1], c), m)
    <2>1. CASE c = m
      BY <1>2, <2>1 DEF HasConfig, ConfigAfter
    <2>2. ASSUME NEW i \in 1..Len(q), IsConfig(q[i]), q[i].config = m
          PROVE  HasConfig(t, ConfigAfter(q[1], c), m)
      <3>1. CASE i = 1
        BY <2>2, <3>1 DEF HasConfig, ConfigAfter
      <3>2. CASE i # 1
        BY <1>1, <2>2, <3>2 DEF HasConfig
      <3> QED
        BY <3>1, <3>2
    <2> QED
      BY <1>5, <2>1, <2>2 DEF HasConfig
  <1>6. NoFrame(q, v) => NoFrame(t, FrameAfter(q[1], v))
    BY <1>1 DEF NoFrame, FrameAfter
  <1> QED
    BY <1>3, <1>4, <1>5, <1>6

\* A packet that is newer than what was sent, and that follows it if it must, leaves
\* the channel ordered and decodable.
LEMMA OrderedAppend ==
    ASSUME NEW q \in Seq(Packet), NEW pkt \in Packet, NEW t \in Seq(Packet),
           IsAppend(t, q, pkt), NEW v \in Nat, NEW c \in Nat, Ordered(q, v, c),
           NEW n \in Int, NEW m \in Nat, Bounded(q, v, c, n, m),
           IsVideo(pkt) => pkt.video > n, UsesConfig(pkt) => pkt.config >= m
    PROVE  Ordered(t, v, c)
  <1> SUFFICES ASSUME NEW j \in 1..Len(t)
               PROVE  /\ IsVideo(t[j]) =>
                            /\ v < t[j].video
                            /\ \A i \in 1..(j - 1) : IsVideo(t[i]) => t[i].video < t[j].video
                      /\ UsesConfig(t[j]) =>
                            /\ c <= t[j].config
                            /\ \A i \in 1..(j - 1) : IsConfig(t[i]) => t[i].config <= t[j].config
    BY DEF Ordered
  <1>1. /\ Len(q) \in Nat
        /\ \A i \in 1..(j - 1) : i \in 1..Len(q) /\ t[i] = q[i]
        /\ \A i \in 1..Len(q) : q[i].video \in Nat /\ q[i].config \in Nat
    BY PacketsInQueue DEF IsAppend
  <1>2. CASE j \in 1..Len(q)
    <2>1. t[j] = q[j]
      BY <1>2 DEF IsAppend
    <2> QED
      BY <1>1, <1>2, <2>1 DEF Ordered
  <1>3. CASE j = Len(q) + 1
    <2>1. t[j] = pkt /\ pkt.video \in Nat /\ pkt.config \in Nat
      BY <1>3 DEF IsAppend, Packet
    <2>2. \A i \in 1..Len(q) : IsConfig(q[i]) => UsesConfig(q[i])
      BY DEF IsConfig, UsesConfig
    <2>3. /\ v <= n /\ c <= m
          /\ \A i \in 1..(j - 1) : /\ t[i].video \in Nat /\ t[i].config \in Nat
                                   /\ IsVideo(t[i]) => t[i].video <= n
                                   /\ IsConfig(t[i]) => t[i].config <= m
      BY <1>1, <2>2 DEF Bounded
    <2>4. ASSUME IsVideo(t[j])
          PROVE  v < t[j].video /\ \A i \in 1..(j - 1) : IsVideo(t[i]) => t[i].video < t[j].video
      <3>1. n < t[j].video
        BY <2>1, <2>4
      <3>2. t[j].video \in Nat
        BY <2>1
      <3>3. \A i \in 1..(j - 1) : IsVideo(t[i]) => t[i].video < t[j].video
        BY <2>3, <3>1, <3>2
      <3> QED
        BY <2>3, <3>1, <3>2, <3>3
    <2>5. ASSUME UsesConfig(t[j])
          PROVE  c <= t[j].config /\ \A i \in 1..(j - 1) : IsConfig(t[i]) => t[i].config <= t[j].config
      <3>1. m <= t[j].config
        BY <2>1, <2>5
      <3> QED
        BY <2>1, <2>3, <3>1
    <2> QED
      BY <2>4, <2>5
  <1> QED
    BY <1>1, <1>2, <1>3 DEF IsAppend

\* A P- or B-frame that is sent must come after the frame before it.
LEMMA DecodableAppend ==
    ASSUME NEW q \in Seq(Packet), NEW pkt \in Packet, NEW t \in Seq(Packet),
           IsAppend(t, q, pkt), NEW v \in Nat, Decodable(q, v), NEW n \in Int,
           pkt.kind = "delta" => pkt.video = n + 1 /\ HasFrame(q, v, n)
    PROVE  Decodable(t, v)
  <1> SUFFICES ASSUME NEW j \in 1..Len(t), t[j].kind = "delta" PROVE Follows(t, v, j)
    BY DEF Decodable
  <1>1. /\ Len(q) \in Nat
        /\ \A i \in 1..(j - 1) : i \in 1..Len(q) /\ t[i] = q[i]
    BY PacketsInQueue DEF IsAppend
  <1>2. CASE j \in 1..Len(q)
    <2>1. t[j] = q[j]
      BY <1>2 DEF IsAppend
    <2> QED
      BY <1>1, <1>2, <2>1 DEF Decodable, Follows
  <1>3. CASE j = Len(q) + 1
    <2>1. t[j] = pkt /\ (j - 1) = Len(q)
      BY <1>1, <1>3 DEF IsAppend
    <2> QED
      BY <1>1, <2>1 DEF HasFrame, Follows
  <1> QED
    BY <1>1, <1>2, <1>3 DEF IsAppend

\* Nothing is lost if each packet is sent after what it needs.
LEMMA CompleteAppend ==
    ASSUME NEW q \in Seq(Packet), NEW pkt \in Packet, NEW t \in Seq(Packet),
           IsAppend(t, q, pkt), NEW v \in Nat, NEW c \in Nat, Complete(q, v, c),
           NEW n \in Int,
           IsVideo(pkt) => \/ pkt.video = n + 1 /\ HasFrame(q, v, n)
                           \/ NoFrame(q, v),
           pkt.kind = "key" => HasConfig(q, c, pkt.config)
    PROVE  Complete(t, v, c)
  <1> SUFFICES ASSUME NEW j \in 1..Len(t)
               PROVE  /\ IsVideo(t[j]) =>
                            \/ Follows(t, v, j)
                            \/ v = 0 /\ \A i \in 1..(j - 1) : ~IsVideo(t[i])
                      /\ t[j].kind = "key" =>
                            \/ c = t[j].config
                            \/ \E i \in 1..(j - 1) : IsConfig(t[i]) /\ t[i].config = t[j].config
    BY DEF Complete
  <1>1. /\ Len(q) \in Nat
        /\ \A i \in 1..(j - 1) : i \in 1..Len(q) /\ t[i] = q[i]
    BY PacketsInQueue DEF IsAppend
  <1>2. CASE j \in 1..Len(q)
    <2>1. t[j] = q[j]
      BY <1>2 DEF IsAppend
    <2>2. Follows(q, v, j) => Follows(t, v, j)
      BY <1>1, <2>1 DEF Follows
    <2> QED
      BY <1>1, <1>2, <2>1, <2>2 DEF Complete
  <1>3. CASE j = Len(q) + 1
    <2>1. t[j] = pkt /\ (j - 1) = Len(q)
      BY <1>1, <1>3 DEF IsAppend
    <2>2. HasFrame(q, v, n) /\ pkt.video = n + 1 => Follows(t, v, j)
      BY <1>1, <2>1 DEF HasFrame, Follows
    <2>3. NoFrame(q, v) => v = 0 /\ \A i \in 1..(j - 1) : ~IsVideo(t[i])
      BY <1>1 DEF NoFrame
    <2>4. HasConfig(q, c, pkt.config) =>
             \/ c = t[j].config
             \/ \E i \in 1..(j - 1) : IsConfig(t[i]) /\ t[i].config = t[j].config
      BY <1>1, <2>1 DEF HasConfig
    <2> QED
      BY <2>1, <2>2, <2>3, <2>4
  <1> QED
    BY <1>1, <1>2, <1>3 DEF IsAppend

\* The channel has the frame that was sent last ...
LEMMA SentFrame ==
    ASSUME NEW q \in Seq(Packet), NEW pkt, NEW t, IsAppend(t, q, pkt), NEW v,
           IsVideo(pkt), pkt.video > 0
    PROVE  HasFrame(t, v, pkt.video)
  <1>1. Len(q) \in Nat /\ Len(q) + 1 \in 1..Len(t) /\ t[Len(q) + 1] = pkt
    BY DEF IsAppend
  <1> QED
    BY <1>1 DEF HasFrame

\* ... and the configuration, and what it had before.
LEMMA ProgressAppend ==
    ASSUME NEW q \in Seq(Packet), NEW pkt \in Packet, NEW t \in Seq(Packet),
           IsAppend(t, q, pkt), NEW v \in Nat, NEW c \in Nat, NEW n \in Int, NEW m \in Nat
    PROVE  /\ Bounded(q, v, c, n, m) => \A k \in Int :
                 n <= k /\ (IsVideo(pkt) => pkt.video <= k) /\ (UsesConfig(pkt) => pkt.config <= m)
                    => Bounded(t, v, c, k, m)
           /\ HasFrame(q, v, n) => HasFrame(t, v, n)
           /\ HasConfig(q, c, m) => HasConfig(t, c, m)
           /\ IsConfig(pkt) /\ pkt.config = m => HasConfig(t, c, m)
           /\ NoFrame(q, v) /\ ~IsVideo(pkt) => NoFrame(t, v)
  <1>1. /\ Len(q) \in Nat /\ Len(q) + 1 \in 1..Len(t) /\ t[Len(q) + 1] = pkt
        /\ \A i \in 1..Len(q) : i \in 1..Len(t) /\ t[i] = q[i]
        /\ \A i \in 1..Len(t) : i \in 1..Len(q) \/ i = Len(q) + 1
    BY PacketsInQueue DEF IsAppend
  <1>2. \A i \in 1..Len(q) : q[i].video \in Nat /\ q[i].config \in Nat
    BY PacketsInQueue
  <1>3. ASSUME Bounded(q, v, c, n, m), NEW k \in Int, n <= k,
               IsVideo(pkt) => pkt.video <= k, UsesConfig(pkt) => pkt.config <= m
        PROVE  Bounded(t, v, c, k, m)
    BY <1>1, <1>2, <1>3 DEF Bounded
  <1>4. HasFrame(q, v, n) => HasFrame(t, v, n)
    BY <1>1 DEF HasFrame
  <1>5. HasConfig(q, c, m) => HasConfig(t, c, m)
    BY <1>1 DEF HasConfig
  <1>6. IsConfig(pkt) /\ pkt.config = m => HasConfig(t, c, m)
    BY <1>1 DEF HasConfig
  <1>7. NoFrame(q, v) /\ ~IsVideo(pkt) => NoFrame(t, v)
    BY <1>1 DEF NoFrame
  <1> QED
    BY <1>3, <1>4, <1>5, <1>6, <1>7

\* Dropping the head, as the drain does, keeps the order.
LEMMA OrderedDrop ==
    ASSUME NEW q \in Seq(Packet), NEW t \in Seq(Packet), IsTail(t, q),
           NEW v \in Nat, NEW c \in Nat, Ordered(q, v, c)
    PROVE  /\ Ordered(t, v, c)
           /\ \A n \in Int, m \in Nat : Bounded(q, v, c, n, m) => Bounded(t, v, c, n, m)
  <1>1. ASSUME NEW j \in 1..Len(t)
        PROVE  /\ IsVideo(t[j]) =>
                     v < t[j].video /\ \A i \in 1..(j - 1) : IsVideo(t[i]) => t[i].video < t[j].video
               /\ UsesConfig(t[j]) =>
                     c <= t[j].config
                     /\ \A i \in 1..(j - 1) : IsConfig(t[i]) => t[i].config <= t[j].config
    <2>1. /\ j + 1 \in 1..Len(q) /\ t[j] = q[j + 1]
          /\ \A i \in 1..(j - 1) : i + 1 \in 1..((j + 1) - 1) /\ t[i] = q[i + 1]
      BY <1>1, TailIndex
    <2> QED
      BY <2>1 DEF Ordered
  <1>2. \A i \in 1..Len(t) : i + 1 \in 1..Len(q) /\ t[i] = q[i + 1]
    BY PacketsInQueue DEF IsTail
  <1>3. \A n \in Int, m \in Nat : Bounded(q, v, c, n, m) => Bounded(t, v, c, n, m)
    BY <1>2 DEF Bounded
  <1> QED
    BY <1>1, <1>3 DEF Ordered

\* A bound may be raised.
LEMMA BoundedMore ==
    ASSUME NEW q \in Seq(Packet), NEW v \in Nat, NEW c \in Nat, NEW n \in Int, NEW m \in Nat,
           NEW k \in Int, NEW l \in Nat, Bounded(q, v, c, n, m), n <= k, m <= l
    PROVE  Bounded(q, v, c, k, l)
  <1>1. \A i \in 1..Len(q) : q[i].video \in Nat /\ q[i].config \in Nat
    BY PacketsInQueue
  <1> QED
    BY <1>1 DEF Bounded

\* An empty channel is in order, can be decoded and lacks nothing.
LEMMA NothingInQueue ==
    ASSUME NEW v, NEW c
    PROVE  Ordered(<< >>, v, c) /\ Decodable(<< >>, v) /\ Complete(<< >>, v, c)
  <1>1. 1..Len(<< >>) = {}
    OBVIOUS
  <1> QED
    BY <1>1 DEF Ordered, Decodable, Complete

\* What a new channel is filled with: configuration only, that of the decoder once.
LEMMA ReplayContent ==
    ASSUME TypeOK, PacketInv, NEW p \in Publishers
    PROVE  /\ Replay(p) \in Seq(Packet)
           /\ \A i \in 1..Len(Replay(p)) :
                 ~IsVideo(Replay(p)[i]) /\ Replay(p)[i].config <= sent[p].config
           /\ \A i, j \in 1..Len(Replay(p)) :
                 IsConfig(Replay(p)[i]) /\ UsesConfig(Replay(p)[j]) => i = j
           /\ cached[p]["h264Config"] # << >> =>
                 \E i \in 1..Len(Replay(p)) : Replay(p)[i] = cached[p]["h264Config"][1]
  <1> DEFINE a == cached[p]["metadata"]
             b == cached[p]["aacConfig"]
             d == cached[p]["h264Config"]
             Only(q, kind) == \A i \in 1..Len(q) : q[i].kind = kind /\ q[i].config <= sent[p].config
  <1>1. /\ a \in Seq(Packet) /\ Len(a) <= 1 /\ Only(a, "metadata")
        /\ b \in Seq(Packet) /\ Len(b) <= 1 /\ Only(b, "aacConfig")
        /\ d \in Seq(Packet) /\ Len(d) <= 1 /\ Only(d, "h264Config")
    <2>1. ASSUME NEW c \in ConfigKinds
          PROVE  cached[p][c] \in Seq(Packet) /\ Len(cached[p][c]) <= 1 /\ Only(cached[p][c], c)
      <3>1. cached[p][c] \in Seq(Packet) /\ Len(cached[p][c]) <= 1
        BY DEF TypeOK
      <3>2. Len(cached[p][c]) \in Nat
        BY <3>1, PacketsInQueue
      <3>3. ASSUME NEW i \in 1..Len(cached[p][c]) PROVE i = 1 /\ cached[p][c] # << >>
        BY <3>1, <3>2
      <3>4. Only(cached[p][c], c)
        BY <3>3 DEF PacketInv
      <3> QED
        BY <3>1, <3>4
    <2> HIDE DEF Only
    <2> QED
      BY <2>1 DEF ConfigKinds
  <1> HIDE DEF a, b, d
  <1>2. Replay(p) = (a \o b) \o d
    BY DEF Replay, a, b, d
  <1>3. /\ a \o b \in Seq(Packet) /\ Len(a \o b) = Len(a) + Len(b)
        /\ \A i \in 1..Len(a \o b) : (a \o b)[i] = IF i <= Len(a) THEN a[i] ELSE b[i - Len(a)]
    BY <1>1, ConcatProperties
  <1> DEFINE r == (a \o b) \o d
             m == Len(a) + Len(b)
  <1>4. /\ r \in Seq(Packet) /\ Len(r) = m + Len(d)
        /\ \A i \in 1..Len(r) : r[i] = IF i <= m THEN (a \o b)[i] ELSE d[i - m]
    BY <1>1, <1>3, ConcatProperties
  <1>5. Len(a) \in Nat /\ Len(b) \in Nat /\ Len(d) \in Nat /\ m \in Nat
    BY <1>1, PacketsInQueue
  <1>6. ASSUME NEW i \in 1..Len(r)
        PROVE  \/ i <= m /\ r[i].kind \in {"metadata", "aacConfig"} /\ r[i].config <= sent[p].config
               \/ i = m + 1 /\ r[i].kind = "h264Config" /\ r[i].config <= sent[p].config
    <2>1. CASE i <= m
      <3>1. CASE i <= Len(a)
        BY <1>1, <1>3, <1>4, <1>5, <1>6, <2>1, <3>1
      <3>2. CASE ~(i <= Len(a))
        <4>1. i - Len(a) \in 1..Len(b) /\ r[i] = b[i - Len(a)]
          BY <1>3, <1>4, <1>5, <1>6, <2>1, <3>2
        <4> QED
          BY <1>1, <2>1, <4>1
      <3> QED
        BY <3>1, <3>2
    <2>2. CASE ~(i <= m)
      <3>1. i - m \in 1..Len(d) /\ r[i] = d[i - m] /\ i = m + 1
        BY <1>1, <1>4, <1>5, <1>6, <2>2
      <3> QED
        BY <1>1, <3>1
    <2> QED
      BY <2>1, <2>2
  <1>7. d # << >> => m + 1 \in 1..Len(r) /\ r[m + 1] = d[1]
    BY <1>1, <1>4, <1>5
  <1> HIDE DEF r, m
  <1>8. Replay(p) = r
    BY <1>2 DEF r
  <1>9. \A i \in 1..Len(r) : ~IsVideo(r[i]) /\ r[i].config <= sent[p].config
    BY <1>6 DEF IsVideo, VideoKinds
  <1>10. ASSUME NEW i \in 1..Len(r), NEW j \in 1..Len(r), IsConfig(r[i]), UsesConfig(r[j])
         PROVE  i = j
    <2>1. i = m + 1 /\ j = m + 1
      BY <1>6, <1>10 DEF IsConfig, UsesConfig
    <2> QED
      BY <2>1
  <1> QED
    BY <1>4, <1>7, <1>8, <1>9, <1>10 DEF d

-----------------------------------------------------------------------------
USE NoneAssumption, CapacityAssumption, KindsAssumption

\* The initial states satisfy the invariant.
LEMMA InitInv == Init => IInv
  <1> SUFFICES ASSUME Init PROVE IInv
    OBVIOUS
  <1>1. TypeOK
    <2>1. NoPacket \in Packet
      BY DEF NoPacket, Packet, PacketKinds
    <2>2. << >> \in Seq(Packet) /\ Len(<< >>) = 0
      OBVIOUS
    <2>3. << >> \in {q \in Seq(Packet) : Len(q) <= 1} \cap {q \in Seq(Packet) : Len(q) <= Capacity}
      BY <2>2
    <2>4. /\ cached \in [Publishers -> [ConfigKinds -> {q \in Seq(Packet) : Len(q) <= 1}]]
          /\ queue \in [Subscribers -> {q \in Seq(Packet) : Len(q) <= Capacity}]
      BY <2>3 DEF Init
    <2> QED
      BY <2>1, <2>4 DEF Init, TypeOK, PubStates, SubStates
  <1>2. HandlerInv /\ SubscriberMapInv /\ RegisteredIsLive /\ NoPanic
    BY DEF Init, HandlerInv, SubscriberMapInv, RegisteredIsLive, NoPanic
  <1>3. PacketInv
    BY DEF Init, PacketInv, ConfigKinds
  <1>4. DrainInv /\ ContentInv /\ ProgressInv
    BY DEF Init, DrainInv, ContentInv, Content, Attached, ProgressInv
  <1> QED
    BY <1>1, <1>2, <1>3, <1>4 DEF IInv

\* Three sequences of one element at most are no longer than three.
LEMMA ShortConcat ==
    ASSUME NEW a \in Seq(Packet), NEW b \in Seq(Packet),
           NEW m \in Nat, NEW n \in Nat, Len(a) <= m, Len(b) <= n
    PROVE  a \o b \in Seq(Packet) /\ Len(a \o b) <= m + n
  <1>1. Len(a) \in Nat /\ Len(b) \in Nat
    OBVIOUS
  <1>2. a \o b \in Seq(Packet) /\ Len(a \o b) = Len(a) + Len(b)
    BY ConcatProperties
  <1> QED
    BY <1>1, <1>2

\* The replay of three cached packets fits into a new channel.
LEMMA ReplayType ==
    ASSUME TypeOK, NEW p \in Publishers
    PROVE  Replay(p) \in {q \in Seq(Packet) : Len(q) <= Capacity}
  <1>1. \A c \in ConfigKinds : cached[p][c] \in Seq(Packet) /\ Len(cached[p][c]) <= 1
    BY DEF TypeOK
  <1>2. /\ cached[p]["metadata"] \in Seq(Packet) /\ Len(cached[p]["metadata"]) <= 1
        /\ cached[p]["aacConfig"] \in Seq(Packet) /\ Len(cached[p]["aacConfig"]) <= 1
        /\ cached[p]["h264Config"] \in Seq(Packet) /\ Len(cached[p]["h264Config"]) <= 1
    BY <1>1 DEF ConfigKinds
  <1> DEFINE mA == cached[p]["metadata"] \o cached[p]["aacConfig"]
  <1>3. mA \in Seq(Packet) /\ Len(mA) <= 1 + 1
    BY <1>2, ShortConcat
  <1> HIDE DEF mA
  <1>4. /\ mA \o cached[p]["h264Config"] \in Seq(Packet)
        /\ Len(mA \o cached[p]["h264Config"]) <= 2 + 1
    BY <1>2, <1>3, ShortConcat
  <1>5. Replay(p) = mA \o cached[p]["h264Config"]
    BY DEF Replay, mA
  <1>6. Len(Replay(p)) <= Capacity
    <2>1. Len(Replay(p)) \in Nat
      BY <1>4, <1>5
    <2> QED
      BY <2>1, <1>4, <1>5
  <1> QED
    BY <1>4, <1>5, <1>6

\* Every step keeps the types, and the channels within their capacity.
LEMMA TypeStep == TypeOK /\ HandlerInv /\ [Next]_vars => TypeOK'
  <1> SUFFICES ASSUME TypeOK, HandlerInv, [Next]_vars PROVE TypeOK'
    OBVIOUS
  <1> USE DEF pubVars, castVars, subVars, chanVars, history, PubStates, SubStates
  <1>1. ASSUME NEW p \in Publishers, NEW k \in Keys, Publish(p, k) PROVE TypeOK'
    BY <1>1 DEF TypeOK, Publish, Replaced
  <1>2. ASSUME NEW p \in Publishers, NEW kind \in Kinds, ReadPacket(p, kind) PROVE TypeOK'
    <2>1. kind \in PacketKinds
      OBVIOUS
    <2>2. Counted(p, kind) \in [packets : Nat, video : Nat, config : Nat]
      BY DEF TypeOK, Counted
    <2>3. [kind |-> kind, video |-> Counted(p, kind).video,
           config |-> Counted(p, kind).config] \in Packet
      BY <2>1, <2>2 DEF Packet
    <2>4. AfterRead(kind) \in PubStates
      BY DEF AfterRead
    <2>5. sent' \in [Publishers -> [packets : Nat, video : Nat, config : Nat]]
      BY <1>2, <2>2 DEF TypeOK, ReadPacket
    <2>6. hand' \in [Publishers -> Packet]
      BY <1>2, <2>3 DEF TypeOK, ReadPacket
    <2>7. pub' \in [Publishers -> PubStates]
      BY <1>2, <2>4 DEF TypeOK, ReadPacket
    <2> QED
      BY <1>2, <2>5, <2>6, <2>7 DEF TypeOK, ReadPacket
  <1>3. ASSUME NEW p \in Publishers, CachePacket(p) PROVE TypeOK'
    <2>1. hand[p] \in Packet /\ hand[p].kind \in ConfigKinds
      BY <1>3 DEF TypeOK, CachePacket, HandlerInv
    <2>2. <<hand[p]>> \in {q \in Seq(Packet) : Len(q) <= 1}
      BY <2>1
    <2>3. cached' \in [Publishers -> [ConfigKinds -> {q \in Seq(Packet) : Len(q) <= 1}]]
      BY <1>3, <2>1, <2>2 DEF TypeOK, CachePacket
    <2>4. pub' \in [Publishers -> PubStates]
      BY <1>3 DEF TypeOK, CachePacket
    <2> QED
      BY <1>3, <2>3, <2>4 DEF TypeOK, CachePacket
  <1>4. ASSUME NEW p \in Publishers, BeginBroadcast(p) PROVE TypeOK'
    BY <1>4 DEF TypeOK, BeginBroadcast
  <1>5. ASSUME NEW p \in Publishers, NEW s \in Subscribers, Skip(p, s) PROVE TypeOK'
    BY <1>5 DEF TypeOK, Skip
  <1>6. ASSUME NEW p \in Publishers, NEW s \in Subscribers, Send(p, s) PROVE TypeOK'
    <2>1. hand[p] \in Packet /\ queue[s] \in Seq(Packet) /\ Len(queue[s]) < Capacity
      BY <1>6 DEF TypeOK, Send, HasRoom
    <2>2. /\ Append(queue[s], hand[p]) \in Seq(Packet)
          /\ Len(Append(queue[s], hand[p])) <= Capacity
      BY <2>1
    <2>3. queue' \in [Subscribers -> {q \in Seq(Packet) : Len(q) <= Capacity}]
      BY <1>6, <2>2 DEF TypeOK, Send
    <2> QED
      BY <1>6, <2>3 DEF TypeOK, Send
  <1>7. ASSUME NEW p \in Publishers, NEW s \in Subscribers, Overflow(p, s) PROVE TypeOK'
    <2>1. /\ pub' \in [Publishers -> PubStates]
          /\ pending' \in [Publishers -> SUBSET Subscribers]
          /\ target' \in [Publishers -> Subscribers \cup {None}]
      BY <1>7 DEF TypeOK, Overflow
    <2>2. /\ needsKey' \in [Subscribers -> BOOLEAN]
          /\ overflowed' \in [Subscribers -> BOOLEAN]
      BY <1>7 DEF TypeOK, Overflow
    <2> QED
      BY <1>7, <2>1, <2>2 DEF TypeOK, Overflow
  <1>8. ASSUME NEW p \in Publishers, MeasureDrain(p) PROVE TypeOK'
    <2>1. Len(queue[target[p]]) \in Nat
      BY <1>8 DEF TypeOK, MeasureDrain, HandlerInv
    <2>2. left' \in [Publishers -> Nat] /\ pub' \in [Publishers -> PubStates]
      BY <1>8, <2>1 DEF TypeOK, MeasureDrain
    <2> QED
      BY <1>8, <2>2 DEF TypeOK, MeasureDrain
  <1>9. ASSUME NEW p \in Publishers, DrainOne(p) PROVE TypeOK'
    <2>1. target[p] \in Subscribers
      BY <1>9 DEF DrainOne, HandlerInv
    <2>2. /\ queue[target[p]] \in Seq(Packet)
          /\ Len(queue[target[p]]) <= Capacity
          /\ queue[target[p]] # << >>
      BY <1>9, <2>1 DEF TypeOK, DrainOne
    <2>3. Tail(queue[target[p]]) \in {q \in Seq(Packet) : Len(q) <= Capacity}
      BY <2>2
    <2>4. queue' \in [Subscribers -> {q \in Seq(Packet) : Len(q) <= Capacity}]
      BY <1>9, <2>3 DEF TypeOK, DrainOne
    <2>5. left' \in [Publishers -> Nat]
      BY <1>9 DEF TypeOK, DrainOne
    <2> QED
      BY <1>9, <2>4, <2>5 DEF TypeOK, DrainOne
  <1>10. ASSUME NEW p \in Publishers, DrainDone(p) PROVE TypeOK'
    BY <1>10 DEF TypeOK, DrainDone
  <1>11. ASSUME NEW p \in Publishers, EndBroadcast(p) PROVE TypeOK'
    BY <1>11 DEF TypeOK, EndBroadcast
  <1>12. ASSUME NEW p \in Publishers, ReadError(p) PROVE TypeOK'
    BY <1>12 DEF TypeOK, ReadError
  <1>13. ASSUME NEW p \in Publishers, Unregister(p) PROVE TypeOK'
    BY <1>13 DEF TypeOK, Unregister
  <1>14. ASSUME NEW p \in Publishers, CloseOnExit(p) PROVE TypeOK'
    BY <1>14 DEF TypeOK, CloseOnExit, CloseSubscribers, CloseChannels
  <1>15. ASSUME NEW p \in Publishers, CloseReplaced(p) PROVE TypeOK'
    BY <1>15 DEF TypeOK, CloseReplaced, CloseSubscribers, CloseChannels
  <1>16. ASSUME NEW s \in Subscribers, NEW k \in Keys, Lookup(s, k) PROVE TypeOK'
    BY <1>16 DEF TypeOK, Lookup
  <1>17. ASSUME NEW s \in Subscribers, AddSubscriber(s) PROVE TypeOK'
    <2>1. source[s] \in Publishers
      BY <1>17 DEF HandlerInv, AddSubscriber
    <2>2. Replay(source[s]) \in {q \in Seq(Packet) : Len(q) <= Capacity}
      BY <2>1, ReplayType
    <2> QED
      BY <1>17, <2>1, <2>2 DEF TypeOK, AddSubscriber
  <1>18. ASSUME NEW s \in Subscribers, Receive(s) PROVE TypeOK'
    <2>1. Head(queue[s]) \in Packet
      BY <1>18 DEF TypeOK, Receive
    <2>2. Tail(queue[s]) \in {q \in Seq(Packet) : Len(q) <= Capacity}
      BY <1>18 DEF TypeOK, Receive
    <2> QED
      BY <1>18, <2>1, <2>2 DEF TypeOK, Receive, Packet
  <1>19. ASSUME NEW s \in Subscribers, SeeClosed(s) PROVE TypeOK'
    BY <1>19 DEF TypeOK, SeeClosed
  <1>20. ASSUME NEW s \in Subscribers, ClientGone(s) PROVE TypeOK'
    BY <1>20 DEF TypeOK, ClientGone
  <1>21. ASSUME NEW s \in Subscribers, RemoveSubscriber(s) PROVE TypeOK'
    BY <1>21 DEF TypeOK, RemoveSubscriber, CloseChannels, HandlerInv
  <1>22. CASE UNCHANGED vars
    BY <1>22 DEF TypeOK, vars
  <1> QED
    BY <1>1, <1>2, <1>3, <1>4, <1>5, <1>6, <1>7, <1>8, <1>9, <1>10, <1>11, <1>12,
       <1>13, <1>14, <1>15, <1>16, <1>17, <1>18, <1>19, <1>20, <1>21, <1>22
       DEF Next, PublisherStep, Broadcast, SubscriberStep

\* The handlers' counters keep telling the truth about their variables.
LEMMA HandlerStep == TypeOK /\ HandlerInv /\ [Next]_vars => HandlerInv'
  <1> SUFFICES ASSUME TypeOK, HandlerInv, [Next]_vars PROVE HandlerInv'
    OBVIOUS
  <1> USE DEF pubVars, castVars, subVars, chanVars, history
  <1>1. ASSUME NEW p \in Publishers, NEW k \in Keys, Publish(p, k) PROVE HandlerInv'
    BY <1>1 DEF TypeOK, HandlerInv, Publish, Replaced
  <1>2. ASSUME NEW p \in Publishers, NEW kind \in Kinds, ReadPacket(p, kind) PROVE HandlerInv'
    BY <1>2 DEF TypeOK, HandlerInv, ReadPacket, AfterRead
  <1>3. ASSUME NEW p \in Publishers, CachePacket(p) PROVE HandlerInv'
    BY <1>3 DEF TypeOK, HandlerInv, CachePacket
  <1>4. ASSUME NEW p \in Publishers, BeginBroadcast(p) PROVE HandlerInv'
    BY <1>4 DEF TypeOK, HandlerInv, BeginBroadcast
  <1>5. ASSUME NEW p \in Publishers, NEW s \in Subscribers, Skip(p, s) PROVE HandlerInv'
    BY <1>5 DEF TypeOK, HandlerInv, Skip
  <1>6. ASSUME NEW p \in Publishers, NEW s \in Subscribers, Send(p, s) PROVE HandlerInv'
    BY <1>6 DEF TypeOK, HandlerInv, Send
  <1>7. ASSUME NEW p \in Publishers, NEW s \in Subscribers, Overflow(p, s) PROVE HandlerInv'
    BY <1>7 DEF TypeOK, HandlerInv, Overflow
  <1>8. ASSUME NEW p \in Publishers, MeasureDrain(p) PROVE HandlerInv'
    BY <1>8 DEF TypeOK, HandlerInv, MeasureDrain
  <1>9. ASSUME NEW p \in Publishers, DrainOne(p) PROVE HandlerInv'
    BY <1>9 DEF TypeOK, HandlerInv, DrainOne
  <1>10. ASSUME NEW p \in Publishers, DrainDone(p) PROVE HandlerInv'
    BY <1>10 DEF TypeOK, HandlerInv, DrainDone
  <1>11. ASSUME NEW p \in Publishers, EndBroadcast(p) PROVE HandlerInv'
    BY <1>11 DEF TypeOK, HandlerInv, EndBroadcast
  <1>12. ASSUME NEW p \in Publishers, ReadError(p) PROVE HandlerInv'
    BY <1>12 DEF TypeOK, HandlerInv, ReadError
  <1>13. ASSUME NEW p \in Publishers, Unregister(p) PROVE HandlerInv'
    BY <1>13 DEF TypeOK, HandlerInv, Unregister
  <1>14. ASSUME NEW p \in Publishers, CloseOnExit(p) PROVE HandlerInv'
    BY <1>14 DEF TypeOK, HandlerInv, CloseOnExit, CloseSubscribers, CloseChannels
  <1>15. ASSUME NEW p \in Publishers, CloseReplaced(p) PROVE HandlerInv'
    BY <1>15 DEF TypeOK, HandlerInv, CloseReplaced, CloseSubscribers, CloseChannels
  <1>16. ASSUME NEW s \in Subscribers, NEW k \in Keys, Lookup(s, k) PROVE HandlerInv'
    BY <1>16 DEF TypeOK, HandlerInv, Lookup
  <1>17. ASSUME NEW s \in Subscribers, AddSubscriber(s) PROVE HandlerInv'
    BY <1>17 DEF TypeOK, HandlerInv, AddSubscriber
  <1>18. ASSUME NEW s \in Subscribers, Receive(s) PROVE HandlerInv'
    BY <1>18 DEF TypeOK, HandlerInv, Receive
  <1>19. ASSUME NEW s \in Subscribers, SeeClosed(s) PROVE HandlerInv'
    BY <1>19 DEF TypeOK, HandlerInv, SeeClosed
  <1>20. ASSUME NEW s \in Subscribers, ClientGone(s) PROVE HandlerInv'
    BY <1>20 DEF TypeOK, HandlerInv, ClientGone
  <1>21. ASSUME NEW s \in Subscribers, RemoveSubscriber(s) PROVE HandlerInv'
    BY <1>21 DEF TypeOK, HandlerInv, RemoveSubscriber, CloseChannels, ToRemove
  <1>22. CASE UNCHANGED vars
    BY <1>22 DEF TypeOK, HandlerInv, vars
  <1> QED
    BY <1>1, <1>2, <1>3, <1>4, <1>5, <1>6, <1>7, <1>8, <1>9, <1>10, <1>11, <1>12,
       <1>13, <1>14, <1>15, <1>16, <1>17, <1>18, <1>19, <1>20, <1>21, <1>22
       DEF Next, PublisherStep, Broadcast, SubscriberStep

\* A subscriber is in one map at a time, and leaves it when its channel closes.
LEMMA SubscriberMapStep == TypeOK /\ HandlerInv /\ SubscriberMapInv /\ [Next]_vars => SubscriberMapInv'
  <1> SUFFICES ASSUME TypeOK, HandlerInv, SubscriberMapInv, [Next]_vars PROVE SubscriberMapInv'
    OBVIOUS
  <1> USE DEF pubVars, castVars, subVars, chanVars, history
  <1>1. ASSUME NEW p \in Publishers, NEW k \in Keys, Publish(p, k) PROVE SubscriberMapInv'
    BY <1>1 DEF TypeOK, HandlerInv, SubscriberMapInv, ReadLocked, Publish, Replaced
  <1>2. ASSUME NEW p \in Publishers, NEW kind \in Kinds, ReadPacket(p, kind) PROVE SubscriberMapInv'
    <2>1. /\ UNCHANGED <<subs, open, source, sub, pending>>
          /\ pub[p] = "reading"
          /\ \A q \in Publishers : q # p => pub'[q] = pub[q]
      BY <1>2 DEF TypeOK, ReadPacket
    <2>2. \A q \in Publishers : pending[q] # {} => ReadLocked(q)'
      BY <2>1 DEF SubscriberMapInv, ReadLocked
    <2> QED
      BY <2>1, <2>2 DEF SubscriberMapInv
  <1>3. ASSUME NEW p \in Publishers, CachePacket(p) PROVE SubscriberMapInv'
    BY <1>3 DEF TypeOK, HandlerInv, SubscriberMapInv, ReadLocked, CachePacket
  <1>4. ASSUME NEW p \in Publishers, BeginBroadcast(p) PROVE SubscriberMapInv'
    BY <1>4 DEF TypeOK, HandlerInv, SubscriberMapInv, ReadLocked, BeginBroadcast
  <1>5. ASSUME NEW p \in Publishers, NEW s \in Subscribers, Skip(p, s) PROVE SubscriberMapInv'
    BY <1>5 DEF TypeOK, HandlerInv, SubscriberMapInv, ReadLocked, Skip
  <1>6. ASSUME NEW p \in Publishers, NEW s \in Subscribers, Send(p, s) PROVE SubscriberMapInv'
    BY <1>6 DEF TypeOK, HandlerInv, SubscriberMapInv, ReadLocked, Send
  <1>7. ASSUME NEW p \in Publishers, NEW s \in Subscribers, Overflow(p, s) PROVE SubscriberMapInv'
    BY <1>7 DEF TypeOK, HandlerInv, SubscriberMapInv, ReadLocked, Overflow
  <1>8. ASSUME NEW p \in Publishers, MeasureDrain(p) PROVE SubscriberMapInv'
    BY <1>8 DEF TypeOK, HandlerInv, SubscriberMapInv, ReadLocked, MeasureDrain
  <1>9. ASSUME NEW p \in Publishers, DrainOne(p) PROVE SubscriberMapInv'
    BY <1>9 DEF TypeOK, HandlerInv, SubscriberMapInv, ReadLocked, DrainOne
  <1>10. ASSUME NEW p \in Publishers, DrainDone(p) PROVE SubscriberMapInv'
    BY <1>10 DEF TypeOK, HandlerInv, SubscriberMapInv, ReadLocked, DrainDone
  <1>11. ASSUME NEW p \in Publishers, EndBroadcast(p) PROVE SubscriberMapInv'
    BY <1>11 DEF TypeOK, HandlerInv, SubscriberMapInv, ReadLocked, EndBroadcast
  <1>12. ASSUME NEW p \in Publishers, ReadError(p) PROVE SubscriberMapInv'
    BY <1>12 DEF TypeOK, HandlerInv, SubscriberMapInv, ReadLocked, ReadError
  <1>13. ASSUME NEW p \in Publishers, Unregister(p) PROVE SubscriberMapInv'
    BY <1>13 DEF TypeOK, HandlerInv, SubscriberMapInv, ReadLocked, Unregister
  <1>14. ASSUME NEW p \in Publishers, CloseOnExit(p) PROVE SubscriberMapInv'
    BY <1>14 DEF TypeOK, HandlerInv, SubscriberMapInv, ReadLocked, CloseOnExit, CloseSubscribers, CloseChannels
  <1>15. ASSUME NEW p \in Publishers, CloseReplaced(p) PROVE SubscriberMapInv'
    BY <1>15 DEF TypeOK, HandlerInv, SubscriberMapInv, ReadLocked, CloseReplaced, CloseSubscribers, CloseChannels
  <1>16. ASSUME NEW s \in Subscribers, NEW k \in Keys, Lookup(s, k) PROVE SubscriberMapInv'
    BY <1>16 DEF TypeOK, HandlerInv, SubscriberMapInv, ReadLocked, Lookup
  <1>17. ASSUME NEW s \in Subscribers, AddSubscriber(s) PROVE SubscriberMapInv'
    <2>1. source[s] \in Publishers /\ ~ReadLocked(source[s]) /\ sub[s] = "found"
      BY <1>17 DEF HandlerInv, AddSubscriber
    <2>2. /\ subs' = [subs EXCEPT ![source[s]] = @ \cup {s}]
          /\ open' = [open EXCEPT ![s] = TRUE]
          /\ sub' = [sub EXCEPT ![s] = "streaming"]
          /\ UNCHANGED <<pub, pending, source>>
      BY <1>17 DEF AddSubscriber
    <2>3. \A q \in Publishers : \A r \in subs'[q] :
             open'[r] /\ source'[r] = q /\ sub'[r] \in {"streaming", "leaving"}
      BY <2>1, <2>2 DEF TypeOK, SubscriberMapInv
    <2>4. \A q \in Publishers : pending'[q] \subseteq subs'[q]
      BY <2>1, <2>2 DEF TypeOK, SubscriberMapInv
    <2>5. \A q \in Publishers : pending'[q] # {} => ReadLocked(q)'
      BY <2>2 DEF SubscriberMapInv, ReadLocked
    <2> QED
      BY <2>3, <2>4, <2>5 DEF SubscriberMapInv
  <1>18. ASSUME NEW s \in Subscribers, Receive(s) PROVE SubscriberMapInv'
    BY <1>18 DEF TypeOK, HandlerInv, SubscriberMapInv, ReadLocked, Receive
  <1>19. ASSUME NEW s \in Subscribers, SeeClosed(s) PROVE SubscriberMapInv'
    BY <1>19 DEF TypeOK, HandlerInv, SubscriberMapInv, ReadLocked, SeeClosed
  <1>20. ASSUME NEW s \in Subscribers, ClientGone(s) PROVE SubscriberMapInv'
    BY <1>20 DEF TypeOK, HandlerInv, SubscriberMapInv, ReadLocked, ClientGone
  <1>21. ASSUME NEW s \in Subscribers, RemoveSubscriber(s) PROVE SubscriberMapInv'
    <2>1. source[s] \in Publishers /\ ~ReadLocked(source[s])
      BY <1>21 DEF HandlerInv, RemoveSubscriber
    <2>2. /\ subs' = [subs EXCEPT ![source[s]] = @ \ {s}]
          /\ open' = [r \in Subscribers |-> open[r] /\ r \notin ToRemove(s)]
          /\ sub' = [sub EXCEPT ![s] = "done"]
          /\ UNCHANGED <<pub, pending, source>>
      BY <1>21 DEF RemoveSubscriber, CloseChannels
    <2>3. pending[source[s]] = {}
      BY <2>1 DEF SubscriberMapInv
    <2>4. ASSUME NEW q \in Publishers, NEW r \in subs'[q]
          PROVE  r # s /\ r \in subs[q]
      BY <2>1, <2>2, <2>4 DEF TypeOK, SubscriberMapInv
    <2>5. ASSUME NEW q \in Publishers, NEW r \in subs'[q]
          PROVE  open'[r] /\ source'[r] = q /\ sub'[r] \in {"streaming", "leaving"}
      BY <2>2, <2>4, <2>5 DEF TypeOK, SubscriberMapInv, ToRemove
    <2>6. \A q \in Publishers : pending'[q] \subseteq subs'[q]
      BY <2>1, <2>2, <2>3 DEF TypeOK, SubscriberMapInv
    <2>7. \A q \in Publishers : pending'[q] # {} => ReadLocked(q)'
      BY <2>2 DEF SubscriberMapInv, ReadLocked
    <2> QED
      BY <2>5, <2>6, <2>7 DEF SubscriberMapInv
  <1>22. CASE UNCHANGED vars
    BY <1>22 DEF TypeOK, HandlerInv, SubscriberMapInv, ReadLocked, vars
  <1> QED
    BY <1>1, <1>2, <1>3, <1>4, <1>5, <1>6, <1>7, <1>8, <1>9, <1>10, <1>11, <1>12,
       <1>13, <1>14, <1>15, <1>16, <1>17, <1>18, <1>19, <1>20, <1>21, <1>22
       DEF Next, PublisherStep, Broadcast, SubscriberStep

\* Every closing finds its channels open, every send finds its channel open.
LEMMA NoPanicStep == TypeOK /\ HandlerInv /\ SubscriberMapInv /\ NoPanic /\ [Next]_vars => NoPanic'
  <1> SUFFICES ASSUME TypeOK, HandlerInv, SubscriberMapInv, NoPanic, [Next]_vars PROVE NoPanic'
    OBVIOUS
  <1> USE DEF pubVars, castVars, subVars, chanVars, history
  <1>1. ASSUME NEW p \in Publishers, NEW k \in Keys, Publish(p, k) PROVE NoPanic'
    BY <1>1 DEF TypeOK, HandlerInv, SubscriberMapInv, NoPanic, Publish, Replaced
  <1>2. ASSUME NEW p \in Publishers, NEW kind \in Kinds, ReadPacket(p, kind) PROVE NoPanic'
    BY <1>2 DEF TypeOK, HandlerInv, SubscriberMapInv, NoPanic, ReadPacket, AfterRead
  <1>3. ASSUME NEW p \in Publishers, CachePacket(p) PROVE NoPanic'
    BY <1>3 DEF TypeOK, HandlerInv, SubscriberMapInv, NoPanic, CachePacket
  <1>4. ASSUME NEW p \in Publishers, BeginBroadcast(p) PROVE NoPanic'
    BY <1>4 DEF TypeOK, HandlerInv, SubscriberMapInv, NoPanic, BeginBroadcast
  <1>5. ASSUME NEW p \in Publishers, NEW s \in Subscribers, Skip(p, s) PROVE NoPanic'
    BY <1>5 DEF TypeOK, HandlerInv, SubscriberMapInv, NoPanic, Skip
  <1>6. ASSUME NEW p \in Publishers, NEW s \in Subscribers, Send(p, s) PROVE NoPanic'
    BY <1>6 DEF TypeOK, HandlerInv, SubscriberMapInv, NoPanic, Send
  <1>7. ASSUME NEW p \in Publishers, NEW s \in Subscribers, Overflow(p, s) PROVE NoPanic'
    BY <1>7 DEF TypeOK, HandlerInv, SubscriberMapInv, NoPanic, Overflow
  <1>8. ASSUME NEW p \in Publishers, MeasureDrain(p) PROVE NoPanic'
    BY <1>8 DEF TypeOK, HandlerInv, SubscriberMapInv, NoPanic, MeasureDrain
  <1>9. ASSUME NEW p \in Publishers, DrainOne(p) PROVE NoPanic'
    BY <1>9 DEF TypeOK, HandlerInv, SubscriberMapInv, NoPanic, DrainOne
  <1>10. ASSUME NEW p \in Publishers, DrainDone(p) PROVE NoPanic'
    BY <1>10 DEF TypeOK, HandlerInv, SubscriberMapInv, NoPanic, DrainDone
  <1>11. ASSUME NEW p \in Publishers, EndBroadcast(p) PROVE NoPanic'
    BY <1>11 DEF TypeOK, HandlerInv, SubscriberMapInv, NoPanic, EndBroadcast
  <1>12. ASSUME NEW p \in Publishers, ReadError(p) PROVE NoPanic'
    BY <1>12 DEF TypeOK, HandlerInv, SubscriberMapInv, NoPanic, ReadError
  <1>13. ASSUME NEW p \in Publishers, Unregister(p) PROVE NoPanic'
    BY <1>13 DEF TypeOK, HandlerInv, SubscriberMapInv, NoPanic, Unregister
  <1>14. ASSUME NEW p \in Publishers, CloseOnExit(p) PROVE NoPanic'
    BY <1>14 DEF TypeOK, HandlerInv, SubscriberMapInv, NoPanic, CloseOnExit, CloseSubscribers, CloseChannels
  <1>15. ASSUME NEW p \in Publishers, CloseReplaced(p) PROVE NoPanic'
    BY <1>15 DEF TypeOK, HandlerInv, SubscriberMapInv, NoPanic, CloseReplaced, CloseSubscribers, CloseChannels
  <1>16. ASSUME NEW s \in Subscribers, NEW k \in Keys, Lookup(s, k) PROVE NoPanic'
    BY <1>16 DEF TypeOK, HandlerInv, SubscriberMapInv, NoPanic, Lookup
  <1>17. ASSUME NEW s \in Subscribers, AddSubscriber(s) PROVE NoPanic'
    BY <1>17 DEF TypeOK, HandlerInv, SubscriberMapInv, NoPanic, AddSubscriber
  <1>18. ASSUME NEW s \in Subscribers, Receive(s) PROVE NoPanic'
    BY <1>18 DEF TypeOK, HandlerInv, SubscriberMapInv, NoPanic, Receive
  <1>19. ASSUME NEW s \in Subscribers, SeeClosed(s) PROVE NoPanic'
    BY <1>19 DEF TypeOK, HandlerInv, SubscriberMapInv, NoPanic, SeeClosed
  <1>20. ASSUME NEW s \in Subscribers, ClientGone(s) PROVE NoPanic'
    BY <1>20 DEF TypeOK, HandlerInv, SubscriberMapInv, NoPanic, ClientGone
  <1>21. ASSUME NEW s \in Subscribers, RemoveSubscriber(s) PROVE NoPanic'
    BY <1>21 DEF TypeOK, HandlerInv, SubscriberMapInv, NoPanic, RemoveSubscriber, CloseChannels, ToRemove
  <1>22. CASE UNCHANGED vars
    BY <1>22 DEF TypeOK, HandlerInv, SubscriberMapInv, NoPanic, vars
  <1> QED
    BY <1>1, <1>2, <1>3, <1>4, <1>5, <1>6, <1>7, <1>8, <1>9, <1>10, <1>11, <1>12,
       <1>13, <1>14, <1>15, <1>16, <1>17, <1>18, <1>19, <1>20, <1>21, <1>22
       DEF Next, PublisherStep, Broadcast, SubscriberStep

\* Registrations are made by the publisher and undone before it leaves.
LEMMA RegisteredStep == TypeOK /\ HandlerInv /\ RegisteredIsLive /\ [Next]_vars => RegisteredIsLive'
  <1> SUFFICES ASSUME TypeOK, HandlerInv, RegisteredIsLive, [Next]_vars PROVE RegisteredIsLive'
    OBVIOUS
  <1> USE DEF pubVars, castVars, subVars, chanVars, history
  <1>1. ASSUME NEW p \in Publishers, NEW k \in Keys, Publish(p, k) PROVE RegisteredIsLive'
    BY <1>1 DEF TypeOK, HandlerInv, RegisteredIsLive, Live, Publish, Replaced
  <1>2. ASSUME NEW p \in Publishers, NEW kind \in Kinds, ReadPacket(p, kind) PROVE RegisteredIsLive'
    BY <1>2 DEF TypeOK, HandlerInv, RegisteredIsLive, Live, ReadPacket, AfterRead
  <1>3. ASSUME NEW p \in Publishers, CachePacket(p) PROVE RegisteredIsLive'
    BY <1>3 DEF TypeOK, HandlerInv, RegisteredIsLive, Live, CachePacket
  <1>4. ASSUME NEW p \in Publishers, BeginBroadcast(p) PROVE RegisteredIsLive'
    BY <1>4 DEF TypeOK, HandlerInv, RegisteredIsLive, Live, BeginBroadcast
  <1>5. ASSUME NEW p \in Publishers, NEW s \in Subscribers, Skip(p, s) PROVE RegisteredIsLive'
    BY <1>5 DEF TypeOK, HandlerInv, RegisteredIsLive, Live, Skip
  <1>6. ASSUME NEW p \in Publishers, NEW s \in Subscribers, Send(p, s) PROVE RegisteredIsLive'
    BY <1>6 DEF TypeOK, HandlerInv, RegisteredIsLive, Live, Send
  <1>7. ASSUME NEW p \in Publishers, NEW s \in Subscribers, Overflow(p, s) PROVE RegisteredIsLive'
    BY <1>7 DEF TypeOK, HandlerInv, RegisteredIsLive, Live, Overflow
  <1>8. ASSUME NEW p \in Publishers, MeasureDrain(p) PROVE RegisteredIsLive'
    BY <1>8 DEF TypeOK, HandlerInv, RegisteredIsLive, Live, MeasureDrain
  <1>9. ASSUME NEW p \in Publishers, DrainOne(p) PROVE RegisteredIsLive'
    BY <1>9 DEF TypeOK, HandlerInv, RegisteredIsLive, Live, DrainOne
  <1>10. ASSUME NEW p \in Publishers, DrainDone(p) PROVE RegisteredIsLive'
    BY <1>10 DEF TypeOK, HandlerInv, RegisteredIsLive, Live, DrainDone
  <1>11. ASSUME NEW p \in Publishers, EndBroadcast(p) PROVE RegisteredIsLive'
    BY <1>11 DEF TypeOK, HandlerInv, RegisteredIsLive, Live, EndBroadcast
  <1>12. ASSUME NEW p \in Publishers, ReadError(p) PROVE RegisteredIsLive'
    BY <1>12 DEF TypeOK, HandlerInv, RegisteredIsLive, Live, ReadError
  <1>13. ASSUME NEW p \in Publishers, Unregister(p) PROVE RegisteredIsLive'
    BY <1>13 DEF TypeOK, HandlerInv, RegisteredIsLive, Live, Unregister, StillRegistered
  <1>14. ASSUME NEW p \in Publishers, CloseOnExit(p) PROVE RegisteredIsLive'
    BY <1>14 DEF TypeOK, HandlerInv, RegisteredIsLive, Live, CloseOnExit, CloseSubscribers, CloseChannels
  <1>15. ASSUME NEW p \in Publishers, CloseReplaced(p) PROVE RegisteredIsLive'
    BY <1>15 DEF TypeOK, HandlerInv, RegisteredIsLive, Live, CloseReplaced, CloseSubscribers, CloseChannels
  <1>16. ASSUME NEW s \in Subscribers, NEW k \in Keys, Lookup(s, k) PROVE RegisteredIsLive'
    BY <1>16 DEF TypeOK, HandlerInv, RegisteredIsLive, Live, Lookup
  <1>17. ASSUME NEW s \in Subscribers, AddSubscriber(s) PROVE RegisteredIsLive'
    BY <1>17 DEF TypeOK, HandlerInv, RegisteredIsLive, Live, AddSubscriber
  <1>18. ASSUME NEW s \in Subscribers, Receive(s) PROVE RegisteredIsLive'
    BY <1>18 DEF TypeOK, HandlerInv, RegisteredIsLive, Live, Receive
  <1>19. ASSUME NEW s \in Subscribers, SeeClosed(s) PROVE RegisteredIsLive'
    BY <1>19 DEF TypeOK, HandlerInv, RegisteredIsLive, Live, SeeClosed
  <1>20. ASSUME NEW s \in Subscribers, ClientGone(s) PROVE RegisteredIsLive'
    BY <1>20 DEF TypeOK, HandlerInv, RegisteredIsLive, Live, ClientGone
  <1>21. ASSUME NEW s \in Subscribers, RemoveSubscriber(s) PROVE RegisteredIsLive'
    BY <1>21 DEF TypeOK, HandlerInv, RegisteredIsLive, Live, RemoveSubscriber, CloseChannels, ToRemove
  <1>22. CASE UNCHANGED vars
    BY <1>22 DEF TypeOK, HandlerInv, RegisteredIsLive, Live, vars
  <1> QED
    BY <1>1, <1>2, <1>3, <1>4, <1>5, <1>6, <1>7, <1>8, <1>9, <1>10, <1>11, <1>12,
       <1>13, <1>14, <1>15, <1>16, <1>17, <1>18, <1>19, <1>20, <1>21, <1>22
       DEF Next, PublisherStep, Broadcast, SubscriberStep

\* A packet in hand is the last one read, until it has been broadcast.
LEMMA PacketStep == TypeOK /\ HandlerInv /\ PacketInv /\ [Next]_vars => PacketInv'
  <1> SUFFICES ASSUME TypeOK, HandlerInv, PacketInv, [Next]_vars PROVE PacketInv'
    OBVIOUS
  <1> USE DEF pubVars, castVars, subVars, chanVars, history
  <1>1. ASSUME NEW p \in Publishers, NEW k \in Keys, Publish(p, k) PROVE PacketInv'
    BY <1>1 DEF TypeOK, HandlerInv, PacketInv, Publish, Replaced
  <1>2. ASSUME NEW p \in Publishers, NEW kind \in Kinds, ReadPacket(p, kind) PROVE PacketInv'
    <2>1. /\ pub[p] = "reading" /\ pub' = [pub EXCEPT ![p] = AfterRead(kind)]
          /\ sent' = [sent EXCEPT ![p] = Counted(p, kind)]
          /\ hand' = [hand EXCEPT ![p] = [kind |-> kind, video |-> Counted(p, kind).video,
                                          config |-> Counted(p, kind).config]]
          /\ cached' = cached
      BY <1>2 DEF ReadPacket
    <2>2. /\ sent[p].video \in Nat /\ sent[p].config \in Nat
          /\ \A c \in ConfigKinds : cached[p][c] # << >> => cached[p][c][1].config \in Nat
      <3>1. \A c \in ConfigKinds : cached[p][c] \in Seq(Packet)
        BY DEF TypeOK
      <3>2. \A c \in ConfigKinds : cached[p][c] # << >> => 1 \in 1..Len(cached[p][c])
        BY <3>1
      <3> QED
        BY <3>1, <3>2, PacketsInQueue DEF TypeOK
    <2>3. /\ Counted(p, kind).video \in Nat /\ Counted(p, kind).config \in Nat
          /\ Counted(p, kind).config >= sent[p].config
          /\ kind \in VideoKinds => Counted(p, kind).video > 0
          /\ kind # "h264Config" => Counted(p, kind).config = sent[p].config
      BY <2>2 DEF Counted
    <2>4. hand'[p].kind = kind /\ sent'[p] = Counted(p, kind)
          /\ hand'[p].video = sent'[p].video /\ hand'[p].config = sent'[p].config
      BY <2>1 DEF TypeOK
    <2>5. /\ IsVideo(hand[p])' => sent'[p].video > 0
          /\ \/ pub'[p] = "caching" /\ IsConfig(hand[p])'
             \/ sent'[p].config = sent[p].config
      BY <2>1, <2>3, <2>4 DEF IsVideo, IsConfig, AfterRead, ConfigKinds, TypeOK
    <2>6. ASSUME NEW q \in Publishers, q # p
          PROVE  pub'[q] = pub[q] /\ sent'[q] = sent[q] /\ hand'[q] = hand[q]
      BY <2>1, <2>6 DEF TypeOK
    <2>7. \A c \in ConfigKinds : cached[p][c] # << >> =>
             cached[p][c][1].kind = c /\ cached[p][c][1].config <= sent'[p].config
      BY <2>2, <2>3, <2>4 DEF PacketInv
    <2>8. /\ pub[p] # "caching"
          /\ \/ cached[p]["h264Config"] = << >> /\ sent[p].config = 0
             \/ cached[p]["h264Config"] # << >> /\ cached[p]["h264Config"][1].config = sent[p].config
      BY <2>1 DEF PacketInv
    <2>9. \/ pub'[p] = "caching" /\ IsConfig(hand[p])'
          \/ cached[p]["h264Config"] = << >> /\ sent'[p].config = 0
          \/ cached[p]["h264Config"] # << >> /\ cached[p]["h264Config"][1].config = sent'[p].config
      BY <2>5, <2>8
    <2> QED
      BY <2>1, <2>4, <2>5, <2>6, <2>7, <2>9 DEF PacketInv, IsVideo, IsConfig
  <1>3. ASSUME NEW p \in Publishers, CachePacket(p) PROVE PacketInv'
    <2>1. /\ pub[p] = "caching" /\ pub' = [pub EXCEPT ![p] = "publishing"]
          /\ cached' = [cached EXCEPT ![p][hand[p].kind] = <<hand[p]>>]
          /\ UNCHANGED <<hand, sent>>
      BY <1>3 DEF CachePacket
    <2>2. /\ hand[p].kind \in ConfigKinds /\ hand[p].config = sent[p].config
          /\ sent[p].config \in Nat
      BY <2>1 DEF HandlerInv, PacketInv, TypeOK
    <2>3. /\ cached'[p] = [cached[p] EXCEPT ![hand[p].kind] = <<hand[p]>>]
          /\ \A q \in Publishers : q # p => cached'[q] = cached[q] /\ pub'[q] = pub[q]
          /\ pub'[p] = "publishing"
      BY <2>1 DEF TypeOK
    <2>4. \A c \in ConfigKinds :
             cached'[p][c] = IF c = hand[p].kind THEN <<hand[p]>> ELSE cached[p][c]
      BY <2>2, <2>3 DEF TypeOK
    <2>5. <<hand[p]>> # << >> /\ <<hand[p]>>[1] = hand[p]
      OBVIOUS
    <2>6. \A c \in ConfigKinds : cached'[p][c] # << >> =>
             cached'[p][c][1].kind = c /\ cached'[p][c][1].config <= sent[p].config
      <3>1. ASSUME NEW c \in ConfigKinds, cached'[p][c] # << >>
            PROVE  cached'[p][c][1].kind = c /\ cached'[p][c][1].config <= sent[p].config
        <4>1. CASE c = hand[p].kind
          BY <2>2, <2>4, <2>5, <4>1
        <4>2. CASE c # hand[p].kind
          BY <2>4, <3>1, <4>2 DEF PacketInv
        <4> QED
          BY <4>1, <4>2
      <3> QED
        BY <3>1
    <2>7. \/ cached'[p]["h264Config"] = << >> /\ sent[p].config = 0
          \/ cached'[p]["h264Config"] # << >> /\ cached'[p]["h264Config"][1].config = sent[p].config
      <3>1. CASE hand[p].kind = "h264Config"
        BY <2>2, <2>4, <2>5, <3>1 DEF ConfigKinds
      <3>2. CASE hand[p].kind # "h264Config"
        <4>1. cached'[p]["h264Config"] = cached[p]["h264Config"]
          BY <2>4, <3>2 DEF ConfigKinds
        <4>2. ~IsConfig(hand[p])
          BY <3>2 DEF IsConfig
        <4> QED
          BY <4>1, <4>2 DEF PacketInv
      <3> QED
        BY <3>1, <3>2
    <2> QED
      BY <2>1, <2>3, <2>6, <2>7 DEF PacketInv, IsVideo, IsConfig
  <1>4. ASSUME NEW p \in Publishers, BeginBroadcast(p) PROVE PacketInv'
    BY <1>4 DEF TypeOK, HandlerInv, PacketInv, BeginBroadcast
  <1>5. ASSUME NEW p \in Publishers, NEW s \in Subscribers, Skip(p, s) PROVE PacketInv'
    BY <1>5 DEF TypeOK, HandlerInv, PacketInv, Skip
  <1>6. ASSUME NEW p \in Publishers, NEW s \in Subscribers, Send(p, s) PROVE PacketInv'
    BY <1>6 DEF TypeOK, HandlerInv, PacketInv, Send
  <1>7. ASSUME NEW p \in Publishers, NEW s \in Subscribers, Overflow(p, s) PROVE PacketInv'
    BY <1>7 DEF TypeOK, HandlerInv, PacketInv, Overflow
  <1>8. ASSUME NEW p \in Publishers, MeasureDrain(p) PROVE PacketInv'
    BY <1>8 DEF TypeOK, HandlerInv, PacketInv, MeasureDrain
  <1>9. ASSUME NEW p \in Publishers, DrainOne(p) PROVE PacketInv'
    BY <1>9 DEF TypeOK, HandlerInv, PacketInv, DrainOne
  <1>10. ASSUME NEW p \in Publishers, DrainDone(p) PROVE PacketInv'
    BY <1>10 DEF TypeOK, HandlerInv, PacketInv, DrainDone
  <1>11. ASSUME NEW p \in Publishers, EndBroadcast(p) PROVE PacketInv'
    BY <1>11 DEF TypeOK, HandlerInv, PacketInv, EndBroadcast
  <1>12. ASSUME NEW p \in Publishers, ReadError(p) PROVE PacketInv'
    BY <1>12 DEF TypeOK, HandlerInv, PacketInv, ReadError
  <1>13. ASSUME NEW p \in Publishers, Unregister(p) PROVE PacketInv'
    BY <1>13 DEF TypeOK, HandlerInv, PacketInv, Unregister
  <1>14. ASSUME NEW p \in Publishers, CloseOnExit(p) PROVE PacketInv'
    BY <1>14 DEF TypeOK, HandlerInv, PacketInv, CloseOnExit, CloseSubscribers, CloseChannels
  <1>15. ASSUME NEW p \in Publishers, CloseReplaced(p) PROVE PacketInv'
    BY <1>15 DEF TypeOK, HandlerInv, PacketInv, CloseReplaced, CloseSubscribers, CloseChannels
  <1>16. ASSUME NEW s \in Subscribers, NEW k \in Keys, Lookup(s, k) PROVE PacketInv'
    BY <1>16 DEF TypeOK, HandlerInv, PacketInv, Lookup
  <1>17. ASSUME NEW s \in Subscribers, AddSubscriber(s) PROVE PacketInv'
    BY <1>17 DEF TypeOK, HandlerInv, PacketInv, AddSubscriber
  <1>18. ASSUME NEW s \in Subscribers, Receive(s) PROVE PacketInv'
    BY <1>18 DEF TypeOK, HandlerInv, PacketInv, Receive
  <1>19. ASSUME NEW s \in Subscribers, SeeClosed(s) PROVE PacketInv'
    BY <1>19 DEF TypeOK, HandlerInv, PacketInv, SeeClosed
  <1>20. ASSUME NEW s \in Subscribers, ClientGone(s) PROVE PacketInv'
    BY <1>20 DEF TypeOK, HandlerInv, PacketInv, ClientGone
  <1>21. ASSUME NEW s \in Subscribers, RemoveSubscriber(s) PROVE PacketInv'
    BY <1>21 DEF TypeOK, HandlerInv, PacketInv, RemoveSubscriber, CloseChannels
  <1>22. CASE UNCHANGED vars
    BY <1>22 DEF TypeOK, HandlerInv, PacketInv, vars
  <1> QED
    BY <1>1, <1>2, <1>3, <1>4, <1>5, <1>6, <1>7, <1>8, <1>9, <1>10, <1>11, <1>12,
       <1>13, <1>14, <1>15, <1>16, <1>17, <1>18, <1>19, <1>20, <1>21, <1>22
       DEF Next, PublisherStep, Broadcast, SubscriberStep

\* While a drain runs, nobody joins, leaves or sends to the channel it drains.
LEMMA DrainStep == TypeOK /\ HandlerInv /\ SubscriberMapInv /\ DrainInv /\ [Next]_vars => DrainInv'
  <1> SUFFICES ASSUME TypeOK, HandlerInv, SubscriberMapInv, DrainInv, [Next]_vars PROVE DrainInv'
    OBVIOUS
  <1> USE DEF pubVars, castVars, subVars, chanVars, history
  <1>1. ASSUME NEW p \in Publishers, NEW k \in Keys, Publish(p, k) PROVE DrainInv'
    BY <1>1 DEF TypeOK, HandlerInv, SubscriberMapInv, DrainInv, ReadLocked, Publish, Replaced
  <1>2. ASSUME NEW p \in Publishers, NEW kind \in Kinds, ReadPacket(p, kind) PROVE DrainInv'
    BY <1>2 DEF TypeOK, HandlerInv, SubscriberMapInv, DrainInv, ReadLocked, ReadPacket, AfterRead, Counted
  <1>3. ASSUME NEW p \in Publishers, CachePacket(p) PROVE DrainInv'
    BY <1>3 DEF TypeOK, HandlerInv, SubscriberMapInv, DrainInv, ReadLocked, CachePacket
  <1>4. ASSUME NEW p \in Publishers, BeginBroadcast(p) PROVE DrainInv'
    BY <1>4 DEF TypeOK, HandlerInv, SubscriberMapInv, DrainInv, ReadLocked, BeginBroadcast
  <1>5. ASSUME NEW p \in Publishers, NEW s \in Subscribers, Skip(p, s) PROVE DrainInv'
    BY <1>5 DEF TypeOK, HandlerInv, SubscriberMapInv, DrainInv, ReadLocked, Skip
  <1>6. ASSUME NEW p \in Publishers, NEW s \in Subscribers, Send(p, s) PROVE DrainInv'
    <2>1. /\ pub[p] = "sending" /\ s \in subs[p]
          /\ UNCHANGED <<pub, target, left, subs, overflowed>>
          /\ \A x \in Publishers : pending'[x] \subseteq pending[x]
      BY <1>6 DEF Send, SubscriberMapInv, TypeOK
    <2>2. \A r \in Subscribers : r # s => queue'[r] = queue[r] /\ needsKey'[r] = needsKey[r]
      BY <1>6 DEF Send, TypeOK
    <2>3. ASSUME NEW x \in Publishers, pub[x] \in {"full", "draining"}
          PROVE  target[x] \in Subscribers /\ target[x] # s
      BY <2>1, <2>3 DEF DrainInv, SubscriberMapInv, TypeOK
    <2> QED
      BY <2>1, <2>2, <2>3 DEF DrainInv
  <1>7. ASSUME NEW p \in Publishers, NEW s \in Subscribers, Overflow(p, s) PROVE DrainInv'
    BY <1>7 DEF TypeOK, HandlerInv, SubscriberMapInv, DrainInv, ReadLocked, Overflow
  <1>8. ASSUME NEW p \in Publishers, MeasureDrain(p) PROVE DrainInv'
    BY <1>8 DEF TypeOK, HandlerInv, SubscriberMapInv, DrainInv, ReadLocked, MeasureDrain
  <1>9. ASSUME NEW p \in Publishers, DrainOne(p) PROVE DrainInv'
    <2>1. /\ pub[p] = "draining" /\ left[p] > 0 /\ queue[target[p]] # << >>
          /\ queue' = [queue EXCEPT ![target[p]] = Tail(@)]
          /\ left' = [left EXCEPT ![p] = @ - 1]
          /\ UNCHANGED <<pub, target, subs, pending, needsKey, overflowed>>
      BY <1>9 DEF DrainOne
    <2>2. target[p] \in subs[p] /\ target[p] \in Subscribers /\ left[p] >= Len(queue[target[p]])
      BY <2>1 DEF DrainInv, HandlerInv
    <2>3. left'[p] >= Len(queue'[target[p]])
      <3>1. /\ queue[target[p]] \in Seq(Packet) /\ left[p] \in Nat
            /\ queue'[target[p]] = Tail(queue[target[p]]) /\ left'[p] = left[p] - 1
        BY <2>1, <2>2 DEF TypeOK
      <3>2. /\ Len(queue[target[p]]) = Len(Tail(queue[target[p]])) + 1
            /\ Len(Tail(queue[target[p]])) \in Nat
        BY <2>1, <3>1, TailIsTail, PacketsInQueue DEF IsTail
      <3> QED
        BY <2>2, <3>1, <3>2
    <2>4. ASSUME NEW x \in Publishers, x # p, pub[x] = "draining"
          PROVE  left'[x] = left[x] /\ queue'[target[x]] = queue[target[x]]
      <3>1. target[x] \in Subscribers /\ target[x] # target[p]
        BY <2>2, <2>4 DEF DrainInv, SubscriberMapInv, HandlerInv
      <3> QED
        BY <2>1, <2>4, <3>1 DEF TypeOK
    <2> QED
      BY <2>1, <2>3, <2>4 DEF DrainInv
  <1>10. ASSUME NEW p \in Publishers, DrainDone(p) PROVE DrainInv'
    BY <1>10 DEF TypeOK, HandlerInv, SubscriberMapInv, DrainInv, ReadLocked, DrainDone
  <1>11. ASSUME NEW p \in Publishers, EndBroadcast(p) PROVE DrainInv'
    BY <1>11 DEF TypeOK, HandlerInv, SubscriberMapInv, DrainInv, ReadLocked, EndBroadcast
  <1>12. ASSUME NEW p \in Publishers, ReadError(p) PROVE DrainInv'
    BY <1>12 DEF TypeOK, HandlerInv, SubscriberMapInv, DrainInv, ReadLocked, ReadError
  <1>13. ASSUME NEW p \in Publishers, Unregister(p) PROVE DrainInv'
    BY <1>13 DEF TypeOK, HandlerInv, SubscriberMapInv, DrainInv, ReadLocked, Unregister
  <1>14. ASSUME NEW p \in Publishers, CloseOnExit(p) PROVE DrainInv'
    BY <1>14 DEF TypeOK, HandlerInv, SubscriberMapInv, DrainInv, ReadLocked, CloseOnExit, CloseSubscribers, CloseChannels
  <1>15. ASSUME NEW p \in Publishers, CloseReplaced(p) PROVE DrainInv'
    BY <1>15 DEF TypeOK, HandlerInv, SubscriberMapInv, DrainInv, ReadLocked, CloseReplaced, CloseSubscribers, CloseChannels
  <1>16. ASSUME NEW s \in Subscribers, NEW k \in Keys, Lookup(s, k) PROVE DrainInv'
    BY <1>16 DEF TypeOK, HandlerInv, SubscriberMapInv, DrainInv, ReadLocked, Lookup
  <1>17. ASSUME NEW s \in Subscribers, AddSubscriber(s) PROVE DrainInv'
    <2>1. /\ subs' = [subs EXCEPT ![source[s]] = @ \cup {s}]
          /\ queue' = [queue EXCEPT ![s] = Replay(source[s])]
          /\ needsKey' = [needsKey EXCEPT ![s] = TRUE]
          /\ UNCHANGED <<pub, target, left, pending, overflowed>>
      BY <1>17 DEF AddSubscriber
    <2>2. \A p \in Publishers : pub[p] \in {"full", "draining"} =>
             target[p] \in Subscribers /\ target[p] # s
      BY <1>17 DEF TypeOK, HandlerInv, SubscriberMapInv, DrainInv, ReadLocked, AddSubscriber
    <2> QED
      BY <2>1, <2>2 DEF TypeOK, DrainInv
  <1>18. ASSUME NEW s \in Subscribers, Receive(s) PROVE DrainInv'
    <2>1. /\ queue[s] # << >> /\ queue' = [queue EXCEPT ![s] = Tail(@)]
          /\ UNCHANGED <<pub, target, left, subs, pending, needsKey, overflowed>>
      BY <1>18 DEF Receive
    <2>2. ASSUME NEW x \in Publishers, pub[x] = "draining"
          PROVE  left[x] >= Len(queue'[target[x]])
      <3>1. target[x] \in Subscribers /\ left[x] >= Len(queue[target[x]])
        BY <2>2 DEF DrainInv, HandlerInv
      <3>2. /\ queue[s] \in Seq(Packet) /\ Tail(queue[s]) \in Seq(Packet)
            /\ Len(queue[s]) = Len(Tail(queue[s])) + 1
        BY <2>1, TailIsTail DEF TypeOK, IsTail
      <3>3. Len(queue[s]) \in Nat /\ Len(Tail(queue[s])) \in Nat /\ left[x] \in Nat
        BY <3>2, PacketsInQueue DEF TypeOK
      <3>4. CASE target[x] = s
        <4>1. queue'[target[x]] = Tail(queue[s])
          BY <2>1, <3>4 DEF TypeOK
        <4> QED
          BY <3>1, <3>2, <3>3, <3>4, <4>1
      <3>5. CASE target[x] # s
        BY <2>1, <3>1, <3>5 DEF TypeOK
      <3> QED
        BY <3>4, <3>5
    <2> QED
      BY <2>1, <2>2 DEF DrainInv
  <1>19. ASSUME NEW s \in Subscribers, SeeClosed(s) PROVE DrainInv'
    BY <1>19 DEF TypeOK, HandlerInv, SubscriberMapInv, DrainInv, ReadLocked, SeeClosed
  <1>20. ASSUME NEW s \in Subscribers, ClientGone(s) PROVE DrainInv'
    BY <1>20 DEF TypeOK, HandlerInv, SubscriberMapInv, DrainInv, ReadLocked, ClientGone
  <1>21. ASSUME NEW s \in Subscribers, RemoveSubscriber(s) PROVE DrainInv'
    BY <1>21 DEF TypeOK, HandlerInv, SubscriberMapInv, DrainInv, ReadLocked, RemoveSubscriber, CloseChannels
  <1>22. CASE UNCHANGED vars
    BY <1>22 DEF TypeOK, HandlerInv, SubscriberMapInv, DrainInv, ReadLocked, vars
  <1> QED
    BY <1>1, <1>2, <1>3, <1>4, <1>5, <1>6, <1>7, <1>8, <1>9, <1>10, <1>11, <1>12,
       <1>13, <1>14, <1>15, <1>16, <1>17, <1>18, <1>19, <1>20, <1>21, <1>22
       DEF Next, PublisherStep, Broadcast, SubscriberStep

\* What a channel holds stays ordered, decodable and, while it never overflowed, complete.
LEMMA ContentStep == TypeOK /\ HandlerInv /\ SubscriberMapInv /\ PacketInv /\ DrainInv /\ ContentInv /\ ProgressInv /\ [Next]_vars => ContentInv'
  <1> SUFFICES ASSUME TypeOK, HandlerInv, SubscriberMapInv, PacketInv, DrainInv, ContentInv, ProgressInv, [Next]_vars PROVE ContentInv'
    OBVIOUS
  <1> USE DEF pubVars, castVars, subVars, chanVars, history
  <1>1. ASSUME NEW p \in Publishers, NEW k \in Keys, Publish(p, k) PROVE ContentInv'
    BY <1>1 DEF TypeOK, HandlerInv, ContentInv, Content, Attached, Drained, Publish, Replaced
  <1>2. ASSUME NEW p \in Publishers, NEW kind \in Kinds, ReadPacket(p, kind) PROVE ContentInv'
    BY <1>2 DEF TypeOK, HandlerInv, ContentInv, Content, Attached, Drained, ReadPacket, AfterRead, Counted
  <1>3. ASSUME NEW p \in Publishers, CachePacket(p) PROVE ContentInv'
    BY <1>3 DEF TypeOK, HandlerInv, ContentInv, Content, Attached, Drained, CachePacket
  <1>4. ASSUME NEW p \in Publishers, BeginBroadcast(p) PROVE ContentInv'
    BY <1>4 DEF TypeOK, HandlerInv, ContentInv, Content, Attached, Drained, BeginBroadcast
  <1>5. ASSUME NEW p \in Publishers, NEW s \in Subscribers, Skip(p, s) PROVE ContentInv'
    BY <1>5 DEF TypeOK, HandlerInv, ContentInv, Content, Attached, Drained, Skip
  <1>6. ASSUME NEW p \in Publishers, NEW s \in Subscribers, Send(p, s) PROVE ContentInv'
    <2> DEFINE q == queue[s]
               t == Append(q, hand[p])
               v == seen[s].video
               c == seen[s].config
    <2>1. /\ pub[p] = "sending" /\ s \in pending[p] /\ ~MustSkip(p, s)
          /\ queue' = [queue EXCEPT ![s] = t]
          /\ UNCHANGED <<pub, target, sub, source, seen, overflowed>>
      BY <1>6 DEF Send
    <2>2. /\ s \in subs[p] /\ source[s] = p /\ Attached(s) /\ ~Drained(s)
      BY <2>1 DEF SubscriberMapInv, Attached, Drained
    <2>3. /\ q \in Seq(Packet) /\ hand[p] \in Packet /\ v \in Nat /\ c \in Nat
          /\ sent[p].video \in Nat /\ sent[p].config \in Nat
      BY DEF TypeOK
    <2>4. t \in Seq(Packet) /\ IsAppend(t, q, hand[p])
      BY <2>3, AppendIsAppend
    <2>5. /\ Offered(p, s) \in Int
          /\ IsVideo(hand[p]) => hand[p].video = Offered(p, s) + 1
          /\ hand[p].config = sent[p].config
      BY <2>1, <2>3 DEF PacketInv, Offered, Owed, ReadLocked
    <2>6. /\ Bounded(q, v, c, Offered(p, s), sent[p].config)
          /\ ~needsKey[s] => HasFrame(q, v, Offered(p, s))
          /\ needsKey[s] /\ ~overflowed[s] => NoFrame(q, v)
          /\ ~overflowed[s] /\ ~IsConfig(hand[p]) => HasConfig(q, c, hand[p].config)
      BY <2>2, <2>5 DEF ProgressInv, Progress
    <2>7. /\ Ordered(q, v, c) /\ Decodable(q, v)
          /\ ~overflowed[s] => Complete(q, v, c)
      BY <2>2 DEF ContentInv, Content
    <2> HIDE DEF q, t, v, c
    <2>8. Ordered(t, v, c)
      <3>1. IsVideo(hand[p]) => hand[p].video > Offered(p, s)
        BY <2>5
      <3>2. UsesConfig(hand[p]) => hand[p].config >= sent[p].config
        BY <2>3, <2>5
      <3> QED
        BY <2>3, <2>4, <2>5, <2>6, <2>7, <3>1, <3>2, OrderedAppend
    <2>9. Decodable(t, v)
      <3>1. hand[p].kind = "delta" => hand[p].video = Offered(p, s) + 1 /\ HasFrame(q, v, Offered(p, s))
        BY <2>1, <2>5, <2>6 DEF MustSkip, IsVideo, VideoKinds
      <3> QED
        BY <2>3, <2>4, <2>5, <2>7, <3>1, DecodableAppend
    <2>10. ASSUME ~overflowed[s] PROVE Complete(t, v, c)
      <3>1. IsVideo(hand[p]) => \/ hand[p].video = Offered(p, s) + 1 /\ HasFrame(q, v, Offered(p, s))
                                \/ NoFrame(q, v)
        BY <2>5, <2>6, <2>10
      <3>2. hand[p].kind = "key" => HasConfig(q, c, hand[p].config)
        BY <2>6, <2>10 DEF IsConfig
      <3> QED
        BY <2>3, <2>4, <2>5, <2>7, <2>10, <3>1, <3>2, CompleteAppend
    <2>11. Content(s)'
      <3>1. queue'[s] = t
        BY <2>1 DEF TypeOK
      <3>2. seen'[s].video = v /\ seen'[s].config = c
        BY <2>1 DEF v, c
      <3> QED
        BY <2>1, <2>2, <2>8, <2>9, <2>10, <3>1, <3>2 DEF Content, Attached
    <2>12. ASSUME NEW r \in Subscribers, r # s PROVE Content(r)'
      <3>1. queue'[r] = queue[r]
        BY <2>1, <2>12 DEF TypeOK
      <3> QED
        BY <2>1, <3>1 DEF ContentInv, Content, Attached, Drained
    <2> QED
      BY <2>11, <2>12 DEF ContentInv
  <1>7. ASSUME NEW p \in Publishers, NEW s \in Subscribers, Overflow(p, s) PROVE ContentInv'
    BY <1>7 DEF TypeOK, HandlerInv, ContentInv, Content, Attached, Drained, Overflow
  <1>8. ASSUME NEW p \in Publishers, MeasureDrain(p) PROVE ContentInv'
    BY <1>8 DEF TypeOK, HandlerInv, ContentInv, Content, Attached, Drained, MeasureDrain
  <1>9. ASSUME NEW p \in Publishers, DrainOne(p) PROVE ContentInv'
    <2>0. target[p] \in Subscribers
      BY <1>9 DEF DrainOne, HandlerInv
    <2> PICK s \in Subscribers : s = target[p]
      BY <2>0
    <2> DEFINE q == queue[s]
               t == Tail(q)
               v == seen[s].video
               c == seen[s].config
    <2>1. /\ pub[p] = "draining" /\ q # << >> /\ target[p] = s
          /\ queue' = [queue EXCEPT ![s] = t]
          /\ UNCHANGED <<pub, target, sub, source, seen, overflowed>>
      BY <1>9 DEF DrainOne
    <2>2. s \in subs[p] /\ source[s] = p /\ Attached(s) /\ Drained(s) /\ overflowed[s]
      BY <2>1 DEF DrainInv, SubscriberMapInv, Attached, Drained
    <2>3. q \in Seq(Packet) /\ v \in Nat /\ c \in Nat
      BY <2>1 DEF TypeOK
    <2>4. t \in Seq(Packet) /\ IsTail(t, q)
      BY <2>1, <2>3, TailIsTail
    <2>5. Ordered(q, v, c)
      BY <2>1, <2>2 DEF ContentInv, Content
    <2> HIDE DEF q, t, v, c
    <2>6. Ordered(t, v, c)
      BY <2>3, <2>4, <2>5, OrderedDrop
    <2>7. Content(s)'
      <3>1. queue'[s] = t
        BY <2>1 DEF TypeOK
      <3>2. seen'[s].video = v /\ seen'[s].config = c
        BY <2>1 DEF v, c
      <3>3. sub'[s] = sub[s] /\ Drained(s)' /\ overflowed'[s]
        BY <2>1, <2>2 DEF Drained
      <3> QED
        BY <2>2, <2>6, <3>1, <3>2, <3>3 DEF Content, Attached
    <2>8. ASSUME NEW r \in Subscribers, r # s PROVE Content(r)'
      <3>1. queue'[r] = queue[r]
        BY <2>1, <2>8 DEF TypeOK
      <3> QED
        BY <2>1, <3>1 DEF ContentInv, Content, Attached, Drained
    <2> QED
      BY <2>7, <2>8 DEF ContentInv
  <1>10. ASSUME NEW p \in Publishers, DrainDone(p) PROVE ContentInv'
    <2>1. /\ pub[p] = "draining" /\ left[p] = 0 /\ pub' = [pub EXCEPT ![p] = "sending"]
          /\ UNCHANGED <<target, queue, sub, source, seen, overflowed>>
      BY <1>10 DEF DrainDone
    <2>2. queue[target[p]] = << >>
      <3>1. target[p] \in Subscribers /\ left[p] >= Len(queue[target[p]])
        BY <2>1 DEF DrainInv, HandlerInv
      <3>2. queue[target[p]] \in Seq(Packet) /\ Len(queue[target[p]]) \in Nat
        BY <3>1, PacketsInQueue DEF TypeOK
      <3>3. Len(queue[target[p]]) = 0
        BY <2>1, <3>1, <3>2
      <3> QED
        BY <3>2, <3>3
    <2>3. ASSUME NEW s \in Subscribers PROVE Content(s)'
      <3>1. CASE s = target[p]
        BY <2>1, <2>2, <3>1, NothingInQueue DEF ContentInv, Content, Attached
      <3>2. CASE s # target[p]
        <4>1. Attached(s) => Drained(s)' = Drained(s)
          BY <2>1, <3>2 DEF Drained, Attached, HandlerInv, TypeOK
        <4> QED
          BY <2>1, <4>1 DEF ContentInv, Content, Attached
      <3> QED
        BY <3>1, <3>2
    <2> QED
      BY <2>3 DEF ContentInv
  <1>11. ASSUME NEW p \in Publishers, EndBroadcast(p) PROVE ContentInv'
    BY <1>11 DEF TypeOK, HandlerInv, ContentInv, Content, Attached, Drained, EndBroadcast
  <1>12. ASSUME NEW p \in Publishers, ReadError(p) PROVE ContentInv'
    BY <1>12 DEF TypeOK, HandlerInv, ContentInv, Content, Attached, Drained, ReadError
  <1>13. ASSUME NEW p \in Publishers, Unregister(p) PROVE ContentInv'
    BY <1>13 DEF TypeOK, HandlerInv, ContentInv, Content, Attached, Drained, Unregister
  <1>14. ASSUME NEW p \in Publishers, CloseOnExit(p) PROVE ContentInv'
    BY <1>14 DEF TypeOK, HandlerInv, ContentInv, Content, Attached, Drained, CloseOnExit, CloseSubscribers, CloseChannels
  <1>15. ASSUME NEW p \in Publishers, CloseReplaced(p) PROVE ContentInv'
    BY <1>15 DEF TypeOK, HandlerInv, ContentInv, Content, Attached, Drained, CloseReplaced, CloseSubscribers, CloseChannels
  <1>16. ASSUME NEW s \in Subscribers, NEW k \in Keys, Lookup(s, k) PROVE ContentInv'
    BY <1>16 DEF TypeOK, HandlerInv, ContentInv, Content, Attached, Drained, Lookup
  <1>17. ASSUME NEW s \in Subscribers, AddSubscriber(s) PROVE ContentInv'
    <2> DEFINE p == source[s]
               r == Replay(p)
    <2>1. /\ sub[s] = "found" /\ p \in Publishers
          /\ sub' = [sub EXCEPT ![s] = "streaming"]
          /\ queue' = [queue EXCEPT ![s] = r]
          /\ UNCHANGED <<pub, target, source, seen, overflowed>>
      BY <1>17 DEF AddSubscriber, HandlerInv
    <2>2. seen[s] = [video |-> 0, config |-> 0]
      BY <2>1 DEF ContentInv, Content
    <2>3. /\ r \in Seq(Packet)
          /\ \A i \in 1..Len(r) : ~IsVideo(r[i])
          /\ \A i, j \in 1..Len(r) : IsConfig(r[i]) /\ UsesConfig(r[j]) => i = j
      BY <2>1, ReplayContent
    <2> HIDE DEF p, r
    <2>4. \A j \in 1..Len(r) :
             /\ r[j].config \in Nat /\ r[j].kind # "key" /\ r[j].kind # "delta"
             /\ \A i \in 1..(j - 1) : i \in 1..Len(r) /\ i # j
      <3>1. Len(r) \in Nat /\ \A j \in 1..Len(r) : r[j].config \in Nat
        BY <2>3, PacketsInQueue
      <3>2. \A j \in 1..Len(r) : r[j].kind # "key" /\ r[j].kind # "delta"
        BY <2>3 DEF IsVideo, VideoKinds
      <3>3. \A j \in 1..Len(r) : \A i \in 1..(j - 1) : i \in 1..Len(r) /\ i # j
        BY <3>1
      <3> QED
        BY <3>1, <3>2, <3>3
    <2>5. Ordered(r, 0, 0) /\ Decodable(r, 0) /\ Complete(r, 0, 0)
      BY <2>3, <2>4 DEF Ordered, Decodable, Complete
    <2>6. Content(s)'
      BY <2>1, <2>2, <2>5 DEF Content, Attached, TypeOK
    <2>7. ASSUME NEW x \in Subscribers, x # s PROVE Content(x)'
      <3>1. queue'[x] = queue[x] /\ sub'[x] = sub[x]
        BY <2>1, <2>7 DEF TypeOK
      <3> QED
        BY <2>1, <3>1 DEF ContentInv, Content, Attached, Drained
    <2> QED
      BY <2>6, <2>7 DEF ContentInv
  <1>18. ASSUME NEW s \in Subscribers, Receive(s) PROVE ContentInv'
    <2> DEFINE q == queue[s]
               t == Tail(q)
               v == seen[s].video
               c == seen[s].config
    <2>1. /\ sub[s] = "streaming" /\ q # << >>
          /\ queue' = [queue EXCEPT ![s] = t]
          /\ seen' = [seen EXCEPT ![s] = [video |-> FrameAfter(Head(q), v), config |-> ConfigAfter(Head(q), c)]]
          /\ UNCHANGED <<pub, target, sub, source, overflowed>>
      BY <1>18 DEF Receive, FrameAfter, ConfigAfter, IsVideo, IsConfig
    <2>2. q \in Seq(Packet) /\ v \in Nat /\ c \in Nat
      BY DEF TypeOK
    <2>3. t \in Seq(Packet) /\ IsTail(t, q) /\ Head(q) = q[1]
      BY <2>1, <2>2, TailIsTail
    <2>4. /\ Ordered(q, v, c)
          /\ ~Drained(s) => Decodable(q, v)
          /\ ~overflowed[s] => Complete(q, v, c)
      BY <2>1 DEF ContentInv, Content, Attached
    <2>5. /\ queue'[s] = t
          /\ seen'[s].video = FrameAfter(q[1], v) /\ seen'[s].config = ConfigAfter(q[1], c)
      BY <2>1, <2>3 DEF TypeOK
    <2> HIDE DEF q, t, v, c
    <2>6. Ordered(t, FrameAfter(q[1], v), ConfigAfter(q[1], c))
      BY <2>2, <2>3, <2>4, OrderedTail
    <2>7. ~Drained(s) => Decodable(t, FrameAfter(q[1], v))
      BY <2>2, <2>3, <2>4, DecodableTail
    <2>8. ~overflowed[s] => Complete(t, FrameAfter(q[1], v), ConfigAfter(q[1], c))
      BY <2>2, <2>3, <2>4, CompleteTail
    <2>9. Content(s)'
      BY <2>1, <2>5, <2>6, <2>7, <2>8 DEF Content, Attached, Drained
    <2>10. ASSUME NEW x \in Subscribers, x # s PROVE Content(x)'
      <3>1. queue'[x] = queue[x] /\ seen'[x] = seen[x]
        BY <2>1, <2>10 DEF TypeOK
      <3> QED
        BY <2>1, <3>1 DEF ContentInv, Content, Attached, Drained
    <2> QED
      BY <2>9, <2>10 DEF ContentInv
  <1>19. ASSUME NEW s \in Subscribers, SeeClosed(s) PROVE ContentInv'
    BY <1>19 DEF TypeOK, HandlerInv, ContentInv, Content, Attached, Drained, SeeClosed
  <1>20. ASSUME NEW s \in Subscribers, ClientGone(s) PROVE ContentInv'
    BY <1>20 DEF TypeOK, HandlerInv, ContentInv, Content, Attached, Drained, ClientGone
  <1>21. ASSUME NEW s \in Subscribers, RemoveSubscriber(s) PROVE ContentInv'
    BY <1>21 DEF TypeOK, HandlerInv, ContentInv, Content, Attached, Drained, RemoveSubscriber, CloseChannels
  <1>22. CASE UNCHANGED vars
    BY <1>22 DEF TypeOK, HandlerInv, ContentInv, Content, Attached, Drained, vars
  <1> QED
    BY <1>1, <1>2, <1>3, <1>4, <1>5, <1>6, <1>7, <1>8, <1>9, <1>10, <1>11, <1>12,
       <1>13, <1>14, <1>15, <1>16, <1>17, <1>18, <1>19, <1>20, <1>21, <1>22
       DEF Next, PublisherStep, Broadcast, SubscriberStep

\* A step that leaves the packets, the channels and what is owed alone, or lets a
\* subscriber go, keeps it.
LEMMA ProgressKept ==
    ASSUME ProgressInv, UNCHANGED <<queue, seen, needsKey, overflowed, sent, hand>>,
           \A p \in Publishers : \A s \in subs'[p] : s \in subs[p] /\ Owed(p, s)' = Owed(p, s)
    PROVE  ProgressInv'
  <1> SUFFICES ASSUME NEW p \in Publishers, NEW s \in subs'[p] PROVE Progress(p, s)'
    BY DEF ProgressInv
  <1>1. Progress(p, s) /\ Owed(p, s)' = Owed(p, s)
    BY DEF ProgressInv
  <1>2. Offered(p, s)' = Offered(p, s)
    BY <1>1 DEF Offered
  <1> QED
    BY <1>1, <1>2 DEF Progress

\* What a subscriber has got of the stream goes on as far as it has been offered.
LEMMA ProgressStep == TypeOK /\ HandlerInv /\ SubscriberMapInv /\ PacketInv /\ DrainInv /\ ContentInv /\ ProgressInv /\ [Next]_vars => ProgressInv'
  <1> SUFFICES ASSUME TypeOK, HandlerInv, SubscriberMapInv, PacketInv, DrainInv, ContentInv, ProgressInv, [Next]_vars PROVE ProgressInv'
    OBVIOUS
  <1> USE DEF pubVars, castVars, subVars, chanVars, history
  <1>1. ASSUME NEW p \in Publishers, NEW k \in Keys, Publish(p, k) PROVE ProgressInv'
    <2>1. UNCHANGED <<queue, seen, needsKey, overflowed, sent, hand>>
      BY <1>1 DEF Publish, Replaced
    <2>2. \A x \in Publishers : \A r \in subs'[x] : r \in subs[x] /\ Owed(x, r)' = Owed(x, r)
      BY <1>1 DEF TypeOK, Owed, ReadLocked, Publish, Replaced
    <2> QED
      BY <2>1, <2>2, ProgressKept
  <1>2. ASSUME NEW p \in Publishers, NEW kind \in Kinds, ReadPacket(p, kind) PROVE ProgressInv'
    <2>1. /\ pub[p] = "reading" /\ pub' = [pub EXCEPT ![p] = AfterRead(kind)]
          /\ sent' = [sent EXCEPT ![p] = Counted(p, kind)]
          /\ hand' = [hand EXCEPT ![p] = [kind |-> kind, video |-> Counted(p, kind).video,
                                          config |-> Counted(p, kind).config]]
          /\ UNCHANGED <<subs, pending, queue, needsKey, seen, overflowed>>
      BY <1>2 DEF ReadPacket
    <2>2. /\ hand'[p].kind = kind /\ sent'[p] = Counted(p, kind)
          /\ pub'[p] \in {"caching", "publishing"}
      BY <2>1 DEF TypeOK, AfterRead
    <2>3. /\ sent[p].video \in Nat /\ sent[p].config \in Nat
          /\ sent'[p].config \in Nat /\ sent'[p].config >= sent[p].config
          /\ kind # "h264Config" => sent'[p].config = sent[p].config
      BY <2>2 DEF TypeOK, Counted
    <2>4. ASSUME NEW s \in subs[p] PROVE Progress(p, s)'
      <3>1. ~Owed(p, s) /\ Owed(p, s)'
        BY <2>1, <2>2 DEF Owed, ReadLocked
      <3>2. Offered(p, s) = sent[p].video
        BY <3>1 DEF Offered
      <3>3. Offered(p, s)' = sent[p].video
        BY <2>2, <2>3, <3>1 DEF Offered, IsVideo, Counted, VideoKinds
      <3>4. queue[s] \in Seq(Packet) /\ seen[s].video \in Nat /\ seen[s].config \in Nat
        BY DEF TypeOK
      <3>5. Bounded(queue[s], seen[s].video, seen[s].config, sent[p].video, sent'[p].config)
        <4>1. Bounded(queue[s], seen[s].video, seen[s].config, sent[p].video, sent[p].config)
          BY <3>2 DEF ProgressInv, Progress
        <4>2. sent[p].video \in Int /\ sent[p].video <= sent[p].video
          BY <2>3
        <4> QED
          BY <2>3, <3>4, <4>1, <4>2, BoundedMore
      <3>6. ~overflowed[s] /\ ~IsConfig(hand[p])' =>
               HasConfig(queue[s], seen[s].config, sent'[p].config)
        BY <2>2, <2>3, <3>1 DEF ProgressInv, Progress, IsConfig
      <3> QED
        BY <2>1, <3>1, <3>2, <3>3, <3>5, <3>6 DEF ProgressInv, Progress
    <2>5. ASSUME NEW x \in Publishers, x # p, NEW s \in subs[x] PROVE Progress(x, s)'
      <3>1. sent'[x] = sent[x] /\ hand'[x] = hand[x] /\ pub'[x] = pub[x]
        BY <2>1, <2>5 DEF TypeOK
      <3> QED
        BY <2>1, <3>1 DEF ProgressInv, Progress, Offered, Owed, ReadLocked
    <2> QED
      BY <2>1, <2>4, <2>5 DEF ProgressInv
  <1>3. ASSUME NEW p \in Publishers, CachePacket(p) PROVE ProgressInv'
    <2>1. UNCHANGED <<queue, seen, needsKey, overflowed, sent, hand>>
      BY <1>3 DEF CachePacket
    <2>2. \A x \in Publishers : \A r \in subs'[x] : r \in subs[x] /\ Owed(x, r)' = Owed(x, r)
      BY <1>3 DEF TypeOK, Owed, ReadLocked, CachePacket
    <2> QED
      BY <2>1, <2>2, ProgressKept
  <1>4. ASSUME NEW p \in Publishers, BeginBroadcast(p) PROVE ProgressInv'
    <2>1. UNCHANGED <<queue, seen, needsKey, overflowed, sent, hand>>
      BY <1>4 DEF BeginBroadcast
    <2>2. \A x \in Publishers : \A r \in subs'[x] : r \in subs[x] /\ Owed(x, r)' = Owed(x, r)
      BY <1>4 DEF TypeOK, Owed, ReadLocked, BeginBroadcast
    <2> QED
      BY <2>1, <2>2, ProgressKept
  <1>5. ASSUME NEW p \in Publishers, NEW s \in Subscribers, Skip(p, s) PROVE ProgressInv'
    <2>1. /\ pub[p] = "sending" /\ s \in pending[p] /\ needsKey[s] /\ hand[p].kind = "delta"
          /\ pending' = [pending EXCEPT ![p] = @ \ {s}]
          /\ UNCHANGED <<pub, sent, hand, subs, queue, needsKey, seen, overflowed>>
      BY <1>5 DEF Skip, MustSkip
    <2>2. /\ s \in subs[p] /\ queue[s] \in Seq(Packet) /\ seen[s].video \in Nat
          /\ seen[s].config \in Nat /\ sent[p].video \in Nat /\ sent[p].config \in Nat
      BY <2>1 DEF TypeOK, SubscriberMapInv
    <2>3. /\ Offered(p, s) = sent[p].video - 1 /\ Offered(p, s)' = sent[p].video
          /\ ~IsConfig(hand[p])
      BY <2>1 DEF Offered, Owed, ReadLocked, IsVideo, IsConfig, VideoKinds, TypeOK
    <2>4. Bounded(queue[s], seen[s].video, seen[s].config, sent[p].video, sent[p].config)
      <3>1. Bounded(queue[s], seen[s].video, seen[s].config, Offered(p, s), sent[p].config)
        BY <2>2 DEF ProgressInv, Progress
      <3> QED
        BY <2>2, <2>3, <3>1, BoundedMore
    <2>5. Progress(p, s)'
      BY <2>1, <2>2, <2>3, <2>4 DEF ProgressInv, Progress
    <2>6. ASSUME NEW x \in Publishers, NEW r \in subs'[x], ~(x = p /\ r = s) PROVE Progress(x, r)'
      <3>0. r \in subs[x] /\ r \in Subscribers /\ r # s
        BY <2>1, <2>2, <2>6 DEF TypeOK, SubscriberMapInv
      <3>1. queue'[r] = queue[r]
        BY <2>1, <3>0 DEF TypeOK
      <3>2. Owed(x, r)' = Owed(x, r)
        BY <2>1, <3>0 DEF Owed, ReadLocked, TypeOK
      <3> QED
        BY <2>1, <3>0, <3>1, <3>2 DEF ProgressInv, Progress, Offered
    <2> QED
      BY <2>5, <2>6 DEF ProgressInv
  <1>6. ASSUME NEW p \in Publishers, NEW s \in Subscribers, Send(p, s) PROVE ProgressInv'
    <2> DEFINE q == queue[s]
               t == Append(q, hand[p])
               v == seen[s].video
               c == seen[s].config
    <2>1. /\ pub[p] = "sending" /\ s \in pending[p] /\ ~MustSkip(p, s)
          /\ pending' = [pending EXCEPT ![p] = @ \ {s}]
          /\ queue' = [queue EXCEPT ![s] = t]
          /\ needsKey' = [needsKey EXCEPT ![s] = @ /\ hand[p].kind # "key"]
          /\ UNCHANGED <<pub, sent, hand, subs, seen, overflowed>>
      BY <1>6 DEF Send
    <2>2. /\ s \in subs[p] /\ q \in Seq(Packet) /\ hand[p] \in Packet /\ v \in Nat
          /\ c \in Nat /\ sent[p].video \in Nat /\ sent[p].config \in Nat
      BY <2>1 DEF TypeOK, SubscriberMapInv
    <2>3. t \in Seq(Packet) /\ IsAppend(t, q, hand[p])
      BY <2>2, AppendIsAppend
    <2>4. /\ Offered(p, s) \in Int /\ Offered(p, s) <= sent[p].video
          /\ ~IsVideo(hand[p]) => Offered(p, s) = sent[p].video
          /\ Offered(p, s)' = sent[p].video
      BY <2>1, <2>2 DEF Offered, Owed, ReadLocked, TypeOK
    <2>5. /\ hand[p].video = sent[p].video /\ hand[p].config = sent[p].config
          /\ IsVideo(hand[p]) => sent[p].video > 0
      BY <2>1 DEF PacketInv
    <2>6. /\ Bounded(q, v, c, Offered(p, s), sent[p].config)
          /\ ~needsKey[s] => HasFrame(q, v, Offered(p, s))
          /\ needsKey[s] /\ ~overflowed[s] => NoFrame(q, v)
          /\ ~overflowed[s] /\ ~IsConfig(hand[p]) => HasConfig(q, c, sent[p].config)
      BY <2>2 DEF ProgressInv, Progress
    <2>7. /\ queue'[s] = t /\ seen'[s].video = v /\ seen'[s].config = c
          /\ needsKey'[s] = (needsKey[s] /\ hand[p].kind # "key")
      BY <2>1, <2>2 DEF TypeOK
    <2>8. /\ hand[p].kind = "key" => IsVideo(hand[p])
          /\ needsKey[s] /\ hand[p].kind # "key" => ~IsVideo(hand[p])
      BY <2>1 DEF MustSkip, IsVideo, VideoKinds
    <2> HIDE DEF q, t, v, c
    <2> DEFINE n == Offered(p, s)
               m == sent[p].config
    <2>9. /\ Bounded(t, v, c, sent[p].video, m)
          /\ HasFrame(q, v, n) => HasFrame(t, v, n)
          /\ IsVideo(hand[p]) => HasFrame(t, v, sent[p].video)
          /\ HasConfig(q, c, m) => HasConfig(t, c, m)
          /\ IsConfig(hand[p]) => HasConfig(t, c, m)
          /\ NoFrame(q, v) /\ ~IsVideo(hand[p]) => NoFrame(t, v)
      <3>1. /\ IsVideo(hand[p]) => hand[p].video <= sent[p].video
            /\ UsesConfig(hand[p]) => hand[p].config <= m
            /\ sent[p].video \in Int /\ n \in Int /\ m \in Nat
        BY <2>2, <2>4, <2>5
      <3>2. /\ n <= sent[p].video /\ Bounded(q, v, c, n, m)
            /\ hand[p].video = sent[p].video /\ hand[p].config = m
        BY <2>4, <2>5, <2>6
      <3> HIDE DEF n, m
      <3>3. \A k \in Int :
                 n <= k /\ (IsVideo(hand[p]) => hand[p].video <= k)
                        /\ (UsesConfig(hand[p]) => hand[p].config <= m)
                    => Bounded(t, v, c, k, m)
        BY <2>2, <2>3, <3>1, <3>2, ProgressAppend
      <3>4. /\ HasFrame(q, v, n) => HasFrame(t, v, n)
            /\ HasConfig(q, c, m) => HasConfig(t, c, m)
            /\ IsConfig(hand[p]) /\ hand[p].config = m => HasConfig(t, c, m)
            /\ NoFrame(q, v) /\ ~IsVideo(hand[p]) => NoFrame(t, v)
        BY <2>2, <2>3, <3>1, ProgressAppend
      <3>5. IsVideo(hand[p]) => HasFrame(t, v, hand[p].video)
        BY <2>2, <2>3, <2>5, SentFrame
      <3> QED
        BY <3>1, <3>2, <3>3, <3>4, <3>5
    <2>10. ~needsKey'[s] => HasFrame(t, v, sent[p].video)
      BY <2>4, <2>6, <2>7, <2>8, <2>9
    <2>11. needsKey'[s] /\ ~overflowed[s] => NoFrame(t, v)
      BY <2>6, <2>7, <2>8, <2>9
    <2>12. ~overflowed[s] => HasConfig(t, c, sent[p].config)
      BY <2>6, <2>9
    <2>13. Progress(p, s)'
      BY <2>1, <2>4, <2>7, <2>9, <2>10, <2>11, <2>12 DEF Progress
    <2>14. ASSUME NEW x \in Publishers, NEW r \in subs'[x], ~(x = p /\ r = s) PROVE Progress(x, r)'
      <3>0. r \in subs[x] /\ r \in Subscribers /\ r # s
        BY <2>1, <2>2, <2>14 DEF TypeOK, SubscriberMapInv
      <3>1. queue'[r] = queue[r] /\ needsKey'[r] = needsKey[r]
        BY <2>1, <3>0 DEF TypeOK
      <3>2. Owed(x, r)' = Owed(x, r)
        BY <2>1, <3>0 DEF Owed, ReadLocked, TypeOK
      <3> QED
        BY <2>1, <3>0, <3>1, <3>2 DEF ProgressInv, Progress, Offered
    <2> QED
      BY <2>13, <2>14 DEF ProgressInv
  <1>7. ASSUME NEW p \in Publishers, NEW s \in Subscribers, Overflow(p, s) PROVE ProgressInv'
    <2>1. /\ pub[p] = "sending" /\ s \in pending[p]
          /\ pub' = [pub EXCEPT ![p] = "full"]
          /\ pending' = [pending EXCEPT ![p] = @ \ {s}]
          /\ needsKey' = [needsKey EXCEPT ![s] = TRUE]
          /\ overflowed' = [overflowed EXCEPT ![s] = TRUE]
          /\ UNCHANGED <<sent, hand, subs, queue, seen>>
      BY <1>7 DEF Overflow
    <2>2. /\ s \in subs[p] /\ queue[s] \in Seq(Packet) /\ seen[s].video \in Nat
          /\ seen[s].config \in Nat /\ sent[p].video \in Nat /\ sent[p].config \in Nat
      BY <2>1 DEF TypeOK, SubscriberMapInv
    <2>3. /\ Offered(p, s) \in Int /\ Offered(p, s) <= sent[p].video
          /\ Offered(p, s)' = sent[p].video
      BY <2>1, <2>2 DEF Offered, Owed, ReadLocked, TypeOK
    <2>4. Bounded(queue[s], seen[s].video, seen[s].config, sent[p].video, sent[p].config)
      <3>1. Bounded(queue[s], seen[s].video, seen[s].config, Offered(p, s), sent[p].config)
        BY <2>2 DEF ProgressInv, Progress
      <3> QED
        BY <2>2, <2>3, <3>1, BoundedMore
    <2>5. needsKey'[s] /\ overflowed'[s]
      BY <2>1 DEF TypeOK
    <2>6. Progress(p, s)'
      BY <2>1, <2>3, <2>4, <2>5 DEF Progress
    <2>7. ASSUME NEW x \in Publishers, NEW r \in subs'[x], ~(x = p /\ r = s) PROVE Progress(x, r)'
      <3>0. r \in subs[x] /\ r \in Subscribers /\ r # s
        BY <2>1, <2>2, <2>7 DEF TypeOK, SubscriberMapInv
      <3>1. queue'[r] = queue[r] /\ needsKey'[r] = needsKey[r] /\ overflowed'[r] = overflowed[r]
        BY <2>1, <3>0 DEF TypeOK
      <3>2. Owed(x, r)' = Owed(x, r)
        BY <2>1, <3>0 DEF Owed, ReadLocked, TypeOK
      <3> QED
        BY <2>1, <3>0, <3>1, <3>2 DEF ProgressInv, Progress, Offered
    <2> QED
      BY <2>6, <2>7 DEF ProgressInv
  <1>8. ASSUME NEW p \in Publishers, MeasureDrain(p) PROVE ProgressInv'
    <2>1. UNCHANGED <<queue, seen, needsKey, overflowed, sent, hand>>
      BY <1>8 DEF MeasureDrain
    <2>2. \A x \in Publishers : \A r \in subs'[x] : r \in subs[x] /\ Owed(x, r)' = Owed(x, r)
      BY <1>8 DEF TypeOK, Owed, ReadLocked, MeasureDrain
    <2> QED
      BY <2>1, <2>2, ProgressKept
  <1>9. ASSUME NEW p \in Publishers, DrainOne(p) PROVE ProgressInv'
    <2>0. target[p] \in Subscribers
      BY <1>9 DEF DrainOne, HandlerInv
    <2> PICK s \in Subscribers : s = target[p]
      BY <2>0
    <2> DEFINE q == queue[s]
               t == Tail(q)
               v == seen[s].video
               c == seen[s].config
    <2>1. /\ pub[p] = "draining" /\ q # << >> /\ target[p] = s
          /\ queue' = [queue EXCEPT ![s] = t]
          /\ UNCHANGED <<pub, pending, sent, hand, subs, needsKey, seen, overflowed>>
      BY <1>9 DEF DrainOne
    <2>2. s \in subs[p] /\ sub[s] \in {"streaming", "leaving"} /\ needsKey[s] /\ overflowed[s]
      BY <2>1 DEF DrainInv, SubscriberMapInv
    <2>3. /\ q \in Seq(Packet) /\ v \in Nat /\ c \in Nat
          /\ Offered(p, s) \in Int /\ sent[p].config \in Nat
      BY <2>1 DEF TypeOK, Offered
    <2>4. t \in Seq(Packet) /\ IsTail(t, q)
      BY <2>1, <2>3, TailIsTail
    <2>5. Ordered(q, v, c) /\ Bounded(q, v, c, Offered(p, s), sent[p].config)
      BY <2>2 DEF ContentInv, Content, Attached, ProgressInv, Progress
    <2>6. queue'[s] = t /\ seen'[s].video = v /\ seen'[s].config = c
      BY <2>1 DEF TypeOK
    <2> HIDE DEF q, t, v, c
    <2>7. Bounded(t, v, c, Offered(p, s), sent[p].config)
      BY <2>3, <2>4, <2>5, OrderedDrop
    <2>8. Progress(p, s)'
      <3>1. Offered(p, s)' = Offered(p, s)
        BY <2>1 DEF Offered, Owed, ReadLocked
      <3> QED
        BY <2>1, <2>2, <2>6, <2>7, <3>1 DEF Progress
    <2>9. ASSUME NEW x \in Publishers, NEW r \in subs'[x], ~(x = p /\ r = s) PROVE Progress(x, r)'
      <3>0. r \in subs[x] /\ r \in Subscribers /\ r # s
        BY <2>1, <2>2, <2>9 DEF TypeOK, SubscriberMapInv
      <3>1. queue'[r] = queue[r]
        BY <2>1, <3>0 DEF TypeOK
      <3>2. Owed(x, r)' = Owed(x, r)
        BY <2>1, <3>0 DEF Owed, ReadLocked, TypeOK
      <3> QED
        BY <2>1, <3>0, <3>1, <3>2 DEF ProgressInv, Progress, Offered
    <2> QED
      BY <2>8, <2>9 DEF ProgressInv
  <1>10. ASSUME NEW p \in Publishers, DrainDone(p) PROVE ProgressInv'
    <2>1. UNCHANGED <<queue, seen, needsKey, overflowed, sent, hand>>
      BY <1>10 DEF DrainDone
    <2>2. \A x \in Publishers : \A r \in subs'[x] : r \in subs[x] /\ Owed(x, r)' = Owed(x, r)
      BY <1>10 DEF TypeOK, Owed, ReadLocked, DrainDone
    <2> QED
      BY <2>1, <2>2, ProgressKept
  <1>11. ASSUME NEW p \in Publishers, EndBroadcast(p) PROVE ProgressInv'
    <2>1. UNCHANGED <<queue, seen, needsKey, overflowed, sent, hand>>
      BY <1>11 DEF EndBroadcast
    <2>2. \A x \in Publishers : \A r \in subs'[x] : r \in subs[x] /\ Owed(x, r)' = Owed(x, r)
      BY <1>11 DEF TypeOK, Owed, ReadLocked, EndBroadcast
    <2> QED
      BY <2>1, <2>2, ProgressKept
  <1>12. ASSUME NEW p \in Publishers, ReadError(p) PROVE ProgressInv'
    <2>1. UNCHANGED <<queue, seen, needsKey, overflowed, sent, hand>>
      BY <1>12 DEF ReadError
    <2>2. \A x \in Publishers : \A r \in subs'[x] : r \in subs[x] /\ Owed(x, r)' = Owed(x, r)
      BY <1>12 DEF TypeOK, Owed, ReadLocked, ReadError
    <2> QED
      BY <2>1, <2>2, ProgressKept
  <1>13. ASSUME NEW p \in Publishers, Unregister(p) PROVE ProgressInv'
    <2>1. UNCHANGED <<queue, seen, needsKey, overflowed, sent, hand>>
      BY <1>13 DEF Unregister
    <2>2. \A x \in Publishers : \A r \in subs'[x] : r \in subs[x] /\ Owed(x, r)' = Owed(x, r)
      BY <1>13 DEF TypeOK, Owed, ReadLocked, Unregister
    <2> QED
      BY <2>1, <2>2, ProgressKept
  <1>14. ASSUME NEW p \in Publishers, CloseOnExit(p) PROVE ProgressInv'
    <2>1. UNCHANGED <<queue, seen, needsKey, overflowed, sent, hand>>
      BY <1>14 DEF CloseOnExit, CloseSubscribers
    <2>2. \A x \in Publishers : \A r \in subs'[x] : r \in subs[x] /\ Owed(x, r)' = Owed(x, r)
      BY <1>14 DEF TypeOK, Owed, ReadLocked, CloseOnExit, CloseSubscribers
    <2> QED
      BY <2>1, <2>2, ProgressKept
  <1>15. ASSUME NEW p \in Publishers, CloseReplaced(p) PROVE ProgressInv'
    <2>1. UNCHANGED <<queue, seen, needsKey, overflowed, sent, hand>>
      BY <1>15 DEF CloseReplaced, CloseSubscribers
    <2>2. \A x \in Publishers : \A r \in subs'[x] : r \in subs[x] /\ Owed(x, r)' = Owed(x, r)
      BY <1>15 DEF TypeOK, Owed, ReadLocked, CloseReplaced, CloseSubscribers
    <2> QED
      BY <2>1, <2>2, ProgressKept
  <1>16. ASSUME NEW s \in Subscribers, NEW k \in Keys, Lookup(s, k) PROVE ProgressInv'
    <2>1. UNCHANGED <<queue, seen, needsKey, overflowed, sent, hand>>
      BY <1>16 DEF Lookup
    <2>2. \A x \in Publishers : \A r \in subs'[x] : r \in subs[x] /\ Owed(x, r)' = Owed(x, r)
      BY <1>16 DEF TypeOK, Owed, ReadLocked, Lookup
    <2> QED
      BY <2>1, <2>2, ProgressKept
  <1>17. ASSUME NEW s \in Subscribers, AddSubscriber(s) PROVE ProgressInv'
    <2>0. source[s] \in Publishers
      BY <1>17 DEF AddSubscriber, HandlerInv
    <2> PICK p \in Publishers : p = source[s]
      BY <2>0
    <2> DEFINE q == Replay(p)
    <2>1. /\ sub[s] = "found" /\ ~ReadLocked(p)
          /\ subs' = [subs EXCEPT ![p] = @ \cup {s}]
          /\ queue' = [queue EXCEPT ![s] = q]
          /\ needsKey' = [needsKey EXCEPT ![s] = TRUE]
          /\ UNCHANGED <<pub, pending, sent, hand, cached, seen, overflowed>>
      BY <1>17 DEF AddSubscriber
    <2>2. seen[s].video = 0 /\ seen[s].config = 0
      BY <2>1 DEF ContentInv, Content
    <2>3. /\ q \in Seq(Packet)
          /\ \A i \in 1..Len(q) : ~IsVideo(q[i]) /\ q[i].config <= sent[p].config
          /\ cached[p]["h264Config"] # << >> =>
                \E i \in 1..Len(q) : q[i] = cached[p]["h264Config"][1]
      BY ReplayContent
    <2>4. sent[p].video \in Nat /\ sent[p].config \in Nat
      BY DEF TypeOK
    <2>5. Offered(p, s) \in Int /\ Offered(p, s) >= 0
      BY <2>1, <2>4 DEF Offered, Owed, PacketInv
    <2>6. /\ queue'[s] = q /\ needsKey'[s] = TRUE
          /\ Offered(p, s)' = Offered(p, s) /\ Owed(p, s)' = Owed(p, s)
      BY <2>1 DEF TypeOK, Offered, Owed, ReadLocked
    <2> HIDE DEF q
    <2>7. Bounded(q, 0, 0, Offered(p, s), sent[p].config) /\ NoFrame(q, 0)
      BY <2>3, <2>4, <2>5 DEF Bounded, NoFrame
    <2>8. ~(IsConfig(hand[p]) /\ Owed(p, s)) => HasConfig(q, 0, sent[p].config)
      <3>1. CASE cached[p]["h264Config"] = << >> /\ sent[p].config = 0
        BY <3>1 DEF HasConfig
      <3>2. CASE cached[p]["h264Config"] # << >> /\ cached[p]["h264Config"][1].config = sent[p].config
        <4>1. IsConfig(cached[p]["h264Config"][1])
          BY <3>2 DEF PacketInv, IsConfig, ConfigKinds
        <4> QED
          BY <2>3, <3>2, <4>1 DEF HasConfig
      <3>3. CASE pub[p] = "caching" /\ IsConfig(hand[p])
        BY <3>3 DEF Owed
      <3> QED
        BY <3>1, <3>2, <3>3 DEF PacketInv
    <2>9. Progress(p, s)'
      BY <2>1, <2>2, <2>6, <2>7, <2>8 DEF Progress
    <2>10. ASSUME NEW x \in Publishers, NEW r \in subs'[x], ~(x = p /\ r = s) PROVE Progress(x, r)'
      <3>0. r \in subs[x] /\ r \in Subscribers /\ r # s
        BY <2>1, <2>10 DEF TypeOK, SubscriberMapInv
      <3>1. queue'[r] = queue[r] /\ needsKey'[r] = needsKey[r]
        BY <2>1, <3>0 DEF TypeOK
      <3>2. Owed(x, r)' = Owed(x, r)
        BY <2>1, <3>0 DEF Owed, ReadLocked, TypeOK
      <3> QED
        BY <2>1, <3>0, <3>1, <3>2 DEF ProgressInv, Progress, Offered
    <2> QED
      BY <2>9, <2>10 DEF ProgressInv
  <1>18. ASSUME NEW s \in Subscribers, Receive(s) PROVE ProgressInv'
    <2> DEFINE q == queue[s]
               t == Tail(q)
               v == seen[s].video
               c == seen[s].config
    <2>1. /\ sub[s] = "streaming" /\ q # << >>
          /\ queue' = [queue EXCEPT ![s] = t]
          /\ seen' = [seen EXCEPT ![s] = [video |-> FrameAfter(Head(q), v), config |-> ConfigAfter(Head(q), c)]]
          /\ UNCHANGED <<pub, pending, sent, hand, subs, needsKey, overflowed>>
      BY <1>18 DEF Receive, FrameAfter, ConfigAfter, IsVideo, IsConfig
    <2>2. q \in Seq(Packet) /\ v \in Nat /\ c \in Nat
      BY DEF TypeOK
    <2>3. t \in Seq(Packet) /\ IsTail(t, q) /\ Head(q) = q[1]
      BY <2>1, <2>2, TailIsTail
    <2>4. Ordered(q, v, c)
      BY <2>1 DEF ContentInv, Content, Attached
    <2>5. /\ queue'[s] = t
          /\ seen'[s].video = FrameAfter(q[1], v) /\ seen'[s].config = ConfigAfter(q[1], c)
      BY <2>1, <2>3 DEF TypeOK
    <2>6. ASSUME NEW p \in Publishers, s \in subs[p] PROVE Progress(p, s)'
      <3> DEFINE n == Offered(p, s)
                 m == sent[p].config
      <3>1. n \in Int /\ m \in Nat
        BY DEF TypeOK, Offered
      <3>2. /\ Bounded(q, v, c, n, m)
            /\ ~needsKey[s] => HasFrame(q, v, n)
            /\ needsKey[s] /\ ~overflowed[s] => NoFrame(q, v)
            /\ ~overflowed[s] /\ ~(IsConfig(hand[p]) /\ Owed(p, s)) => HasConfig(q, c, m)
        BY <2>6 DEF ProgressInv, Progress
      <3>3. n' = n /\ m' = m /\ Owed(p, s)' = Owed(p, s)
        BY <2>1 DEF Offered, Owed, ReadLocked
      <3> HIDE DEF n, m, q, t, v, c
      <3>4. /\ Bounded(t, FrameAfter(q[1], v), ConfigAfter(q[1], c), n, m)
            /\ HasFrame(q, v, n) => HasFrame(t, FrameAfter(q[1], v), n)
            /\ HasConfig(q, c, m) => HasConfig(t, ConfigAfter(q[1], c), m)
            /\ NoFrame(q, v) => NoFrame(t, FrameAfter(q[1], v))
        BY <2>2, <2>3, <2>4, <3>1, <3>2, ProgressTail
      <3>5. n = Offered(p, s) /\ m = sent[p].config
        BY DEF n, m
      <3> QED
        BY <2>1, <2>5, <3>2, <3>3, <3>4, <3>5 DEF Progress, n, m
    <2>7. ASSUME NEW x \in Publishers, NEW r \in subs[x], r # s PROVE Progress(x, r)'
      <3>1. queue'[r] = queue[r] /\ seen'[r] = seen[r]
        BY <2>1, <2>7 DEF TypeOK
      <3> QED
        BY <2>1, <3>1 DEF ProgressInv, Progress, Offered, Owed, ReadLocked
    <2> QED
      BY <2>1, <2>6, <2>7 DEF ProgressInv
  <1>19. ASSUME NEW s \in Subscribers, SeeClosed(s) PROVE ProgressInv'
    <2>1. UNCHANGED <<queue, seen, needsKey, overflowed, sent, hand>>
      BY <1>19 DEF SeeClosed
    <2>2. \A x \in Publishers : \A r \in subs'[x] : r \in subs[x] /\ Owed(x, r)' = Owed(x, r)
      BY <1>19 DEF TypeOK, Owed, ReadLocked, SeeClosed
    <2> QED
      BY <2>1, <2>2, ProgressKept
  <1>20. ASSUME NEW s \in Subscribers, ClientGone(s) PROVE ProgressInv'
    <2>1. UNCHANGED <<queue, seen, needsKey, overflowed, sent, hand>>
      BY <1>20 DEF ClientGone
    <2>2. \A x \in Publishers : \A r \in subs'[x] : r \in subs[x] /\ Owed(x, r)' = Owed(x, r)
      BY <1>20 DEF TypeOK, Owed, ReadLocked, ClientGone
    <2> QED
      BY <2>1, <2>2, ProgressKept
  <1>21. ASSUME NEW s \in Subscribers, RemoveSubscriber(s) PROVE ProgressInv'
    <2>1. UNCHANGED <<queue, seen, needsKey, overflowed, sent, hand>>
      BY <1>21 DEF RemoveSubscriber
    <2>2. \A x \in Publishers : \A r \in subs'[x] : r \in subs[x] /\ Owed(x, r)' = Owed(x, r)
      BY <1>21 DEF TypeOK, Owed, ReadLocked, RemoveSubscriber
    <2> QED
      BY <2>1, <2>2, ProgressKept
  <1>22. CASE UNCHANGED vars
    BY <1>22 DEF TypeOK, HandlerInv, SubscriberMapInv, ProgressInv, Progress, Offered, Owed, ReadLocked, vars
  <1> QED
    BY <1>1, <1>2, <1>3, <1>4, <1>5, <1>6, <1>7, <1>8, <1>9, <1>10, <1>11, <1>12,
       <1>13, <1>14, <1>15, <1>16, <1>17, <1>18, <1>19, <1>20, <1>21, <1>22
       DEF Next, PublisherStep, Broadcast, SubscriberStep

\* A publisher whose drain waits for a packet keeps waiting: nobody else sends to that
\* channel, and what makes it wait is not undone by a receive.
LEMMA StuckStep ==
  ASSUME TypeOK, HandlerInv, SubscriberMapInv, DrainInv, [Next]_vars,
         NEW p \in Publishers, Stuck(p)
  PROVE  Stuck(p)' /\ subs'[p] = subs[p] /\ sent'[p] = sent[p]
  <1> USE DEF pubVars, castVars, subVars, chanVars, history
  <1> DEFINE Waits == Stuck(p)' /\ subs'[p] = subs[p] /\ sent'[p] = sent[p]
  <1>a. /\ pub[p] = "draining" /\ left[p] > Len(queue[target[p]])
        /\ target[p] \in subs[p] /\ target[p] \in Subscribers
        /\ queue[target[p]] \in Seq(Packet) /\ Len(queue[target[p]]) \in Nat /\ left[p] \in Nat
    <2>1. pub[p] = "draining" /\ left[p] > Len(queue[target[p]]) /\ left[p] \in Nat
      BY DEF Stuck, TypeOK
    <2>2. target[p] \in subs[p] /\ target[p] \in Subscribers
      BY <2>1 DEF DrainInv, HandlerInv
    <2> QED
      BY <2>1, <2>2, PacketsInQueue DEF TypeOK
  <1>1. ASSUME NEW x \in Publishers, NEW k \in Keys, Publish(x, k) PROVE Waits
    BY <1>a, <1>1 DEF Stuck, ReadLocked, TypeOK, Publish, Replaced
  <1>2. ASSUME NEW x \in Publishers, NEW kind \in Kinds, ReadPacket(x, kind) PROVE Waits
    BY <1>a, <1>2 DEF Stuck, ReadLocked, TypeOK, ReadPacket, AfterRead, Counted
  <1>3. ASSUME NEW x \in Publishers, CachePacket(x) PROVE Waits
    BY <1>a, <1>3 DEF Stuck, ReadLocked, TypeOK, CachePacket
  <1>4. ASSUME NEW x \in Publishers, BeginBroadcast(x) PROVE Waits
    BY <1>a, <1>4 DEF Stuck, ReadLocked, TypeOK, BeginBroadcast
  <1>5. ASSUME NEW x \in Publishers, NEW s \in Subscribers, Skip(x, s) PROVE Waits
    BY <1>a, <1>5 DEF Stuck, ReadLocked, TypeOK, Skip
  <1>6. ASSUME NEW x \in Publishers, NEW s \in Subscribers, Send(x, s) PROVE Waits
    <2>1. /\ pub[x] = "sending" /\ s \in subs[x] /\ queue' = [queue EXCEPT ![s] = Append(@, hand[x])]
          /\ UNCHANGED <<pub, target, left, subs, sent>>
      BY <1>6 DEF Send, SubscriberMapInv
    <2>2. s # target[p]
      BY <1>a, <2>1 DEF SubscriberMapInv
    <2> QED
      BY <1>a, <2>1, <2>2 DEF Stuck, TypeOK
  <1>7. ASSUME NEW x \in Publishers, NEW s \in Subscribers, Overflow(x, s) PROVE Waits
    BY <1>a, <1>7 DEF Stuck, ReadLocked, TypeOK, Overflow
  <1>8. ASSUME NEW x \in Publishers, MeasureDrain(x) PROVE Waits
    BY <1>a, <1>8 DEF Stuck, ReadLocked, TypeOK, MeasureDrain
  <1>9. ASSUME NEW x \in Publishers, DrainOne(x) PROVE Waits
    <2>1. /\ pub[x] = "draining" /\ queue[target[x]] # << >> /\ left[x] > 0
          /\ queue' = [queue EXCEPT ![target[x]] = Tail(@)]
          /\ left' = [left EXCEPT ![x] = @ - 1]
          /\ UNCHANGED <<pub, target, subs, sent>>
      BY <1>9 DEF DrainOne
    <2>2. target[x] \in subs[x] /\ target[x] \in Subscribers
      BY <2>1 DEF DrainInv, HandlerInv
    <2>3. x = p \/ target[x] # target[p]
      BY <1>a, <2>2 DEF SubscriberMapInv
    <2>4. CASE x = p
      <3>1. queue'[target[p]] = Tail(queue[target[p]]) /\ left'[p] = left[p] - 1
        BY <1>a, <2>1, <2>4 DEF TypeOK
      <3>2. Len(queue[target[p]]) = Len(Tail(queue[target[p]])) + 1 /\ Len(Tail(queue[target[p]])) \in Nat
        BY <1>a, <2>1, <2>4, TailIsTail, PacketsInQueue DEF IsTail
      <3>3. left'[p] > Len(queue'[target[p]])
        BY <1>a, <3>1, <3>2
      <3> QED
        BY <1>a, <2>1, <3>3 DEF Stuck
    <2>5. CASE x # p
      BY <1>a, <2>1, <2>2, <2>3, <2>5 DEF Stuck, TypeOK
    <2> QED
      BY <2>4, <2>5
  <1>10. ASSUME NEW x \in Publishers, DrainDone(x) PROVE Waits
    <2>1. x # p
      BY <1>a, <1>10 DEF DrainDone
    <2> QED
      BY <1>a, <2>1, <1>10 DEF Stuck, TypeOK, DrainDone
  <1>11. ASSUME NEW x \in Publishers, EndBroadcast(x) PROVE Waits
    BY <1>a, <1>11 DEF Stuck, ReadLocked, TypeOK, EndBroadcast
  <1>12. ASSUME NEW x \in Publishers, ReadError(x) PROVE Waits
    BY <1>a, <1>12 DEF Stuck, ReadLocked, TypeOK, ReadError
  <1>13. ASSUME NEW x \in Publishers, Unregister(x) PROVE Waits
    BY <1>a, <1>13 DEF Stuck, ReadLocked, TypeOK, Unregister
  <1>14. ASSUME NEW x \in Publishers, CloseOnExit(x) PROVE Waits
    BY <1>a, <1>14 DEF Stuck, ReadLocked, TypeOK, CloseOnExit, CloseSubscribers, CloseChannels
  <1>15. ASSUME NEW x \in Publishers, CloseReplaced(x) PROVE Waits
    BY <1>a, <1>15 DEF Stuck, ReadLocked, TypeOK, CloseReplaced, CloseSubscribers, CloseChannels
  <1>16. ASSUME NEW s \in Subscribers, NEW k \in Keys, Lookup(s, k) PROVE Waits
    BY <1>a, <1>16 DEF Stuck, ReadLocked, TypeOK, Lookup
  <1>17. ASSUME NEW s \in Subscribers, AddSubscriber(s) PROVE Waits
    <2>1. /\ sub[s] = "found" /\ ~ReadLocked(source[s])
          /\ subs' = [subs EXCEPT ![source[s]] = @ \cup {s}]
          /\ queue' = [queue EXCEPT ![s] = Replay(source[s])]
          /\ UNCHANGED <<pub, target, left, sent>>
      BY <1>17 DEF AddSubscriber
    <2>2. s # target[p] /\ source[s] # p
      BY <1>a, <2>1 DEF SubscriberMapInv, ReadLocked
    <2> QED
      BY <1>a, <2>1, <2>2 DEF Stuck, TypeOK
  <1>18. ASSUME NEW s \in Subscribers, Receive(s) PROVE Waits
    <2>1. /\ queue[s] # << >> /\ queue' = [queue EXCEPT ![s] = Tail(@)]
          /\ UNCHANGED <<pub, target, left, subs, sent>>
      BY <1>18 DEF Receive
    <2>2. CASE s = target[p]
      <3>1. Len(queue[s]) = Len(Tail(queue[s])) + 1 /\ Len(Tail(queue[s])) \in Nat
        BY <1>a, <2>1, <2>2, TailIsTail, PacketsInQueue DEF IsTail
      <3>2. queue'[target[p]] = Tail(queue[s])
        BY <1>a, <2>1, <2>2 DEF TypeOK
      <3>3. left[p] > Len(queue'[target[p]])
        BY <1>a, <2>2, <3>1, <3>2
      <3> QED
        BY <1>a, <2>1, <3>3 DEF Stuck
    <2>3. CASE s # target[p]
      BY <1>a, <2>1, <2>3 DEF Stuck, TypeOK
    <2> QED
      BY <2>2, <2>3
  <1>19. ASSUME NEW s \in Subscribers, SeeClosed(s) PROVE Waits
    BY <1>a, <1>19 DEF Stuck, ReadLocked, TypeOK, SeeClosed
  <1>20. ASSUME NEW s \in Subscribers, ClientGone(s) PROVE Waits
    BY <1>a, <1>20 DEF Stuck, ReadLocked, TypeOK, ClientGone
  <1>21. ASSUME NEW s \in Subscribers, RemoveSubscriber(s) PROVE Waits
    BY <1>a, <1>21 DEF Stuck, ReadLocked, TypeOK, RemoveSubscriber, CloseChannels
  <1>22. CASE UNCHANGED vars
    BY <1>22 DEF Stuck, vars
  <1> QED
    BY <1>1, <1>2, <1>3, <1>4, <1>5, <1>6, <1>7, <1>8, <1>9, <1>10, <1>11, <1>12,
       <1>13, <1>14, <1>15, <1>16, <1>17, <1>18, <1>19, <1>20, <1>21, <1>22
       DEF Next, PublisherStep, Broadcast, SubscriberStep

\* Only a receive of the subscriber it drains makes a publisher wait.
LEMMA StuckCause ==
  ASSUME TypeOK, HandlerInv, SubscriberMapInv, DrainInv, [Next]_vars,
         NEW p \in Publishers, ~Stuck(p), Stuck(p)'
  PROVE  pub[p] = "draining" /\ Receive(target[p])
  <1> USE DEF pubVars, castVars, subVars, chanVars, history
  <1> DEFINE Raced == pub[p] = "draining" /\ Receive(target[p])
  <1>a. pub'[p] = "draining" /\ left'[p] > Len(queue'[target'[p]])
    BY DEF Stuck
  <1>b. ~(pub[p] = "draining" /\ left[p] > Len(queue[target[p]]))
    BY DEF Stuck
  <1>1. ASSUME NEW x \in Publishers, NEW k \in Keys, Publish(x, k) PROVE Raced
    BY <1>a, <1>b, <1>1 DEF Stuck, TypeOK, Publish, Replaced
  <1>2. ASSUME NEW x \in Publishers, NEW kind \in Kinds, ReadPacket(x, kind) PROVE Raced
    BY <1>a, <1>b, <1>2 DEF Stuck, TypeOK, ReadPacket, AfterRead
  <1>3. ASSUME NEW x \in Publishers, CachePacket(x) PROVE Raced
    BY <1>a, <1>b, <1>3 DEF Stuck, TypeOK, CachePacket
  <1>4. ASSUME NEW x \in Publishers, BeginBroadcast(x) PROVE Raced
    BY <1>a, <1>b, <1>4 DEF Stuck, TypeOK, BeginBroadcast
  <1>5. ASSUME NEW x \in Publishers, NEW s \in Subscribers, Skip(x, s) PROVE Raced
    BY <1>a, <1>b, <1>5 DEF Stuck, TypeOK, Skip
  <1>6. ASSUME NEW x \in Publishers, NEW s \in Subscribers, Send(x, s) PROVE Raced
    <2>1. /\ pub[x] = "sending" /\ s \in subs[x] /\ queue' = [queue EXCEPT ![s] = Append(@, hand[x])]
          /\ UNCHANGED <<pub, target, left>>
      BY <1>6 DEF Send, SubscriberMapInv
    <2>2. pub[p] = "draining" /\ target[p] \in subs[p] /\ target[p] \in Subscribers
      BY <1>a, <2>1 DEF DrainInv, HandlerInv
    <2>3. s # target[p]
      BY <2>1, <2>2 DEF SubscriberMapInv
    <2> QED
      BY <1>a, <1>b, <2>1, <2>2, <2>3 DEF Stuck, TypeOK
  <1>7. ASSUME NEW x \in Publishers, NEW s \in Subscribers, Overflow(x, s) PROVE Raced
    BY <1>a, <1>b, <1>7 DEF Stuck, TypeOK, Overflow
  <1>8. ASSUME NEW x \in Publishers, MeasureDrain(x) PROVE Raced
    <2>1. /\ pub[x] = "full" /\ left' = [left EXCEPT ![x] = Len(queue[target[x]])]
          /\ pub' = [pub EXCEPT ![x] = "draining"] /\ UNCHANGED <<target, queue>>
      BY <1>8 DEF MeasureDrain
    <2>2. CASE x = p
      <3>1. left'[p] = Len(queue[target[p]]) /\ target[p] \in Subscribers
        BY <2>1, <2>2 DEF TypeOK, HandlerInv
      <3>2. Len(queue[target[p]]) \in Nat
        BY <3>1, PacketsInQueue DEF TypeOK
      <3> QED
        BY <1>a, <2>1, <3>1, <3>2
    <2>3. CASE x # p
      BY <1>a, <1>b, <2>1, <2>3 DEF Stuck, TypeOK
    <2> QED
      BY <2>2, <2>3
  <1>9. ASSUME NEW x \in Publishers, DrainOne(x) PROVE Raced
    <2>1. /\ pub[x] = "draining" /\ queue[target[x]] # << >> /\ left[x] > 0
          /\ queue' = [queue EXCEPT ![target[x]] = Tail(@)]
          /\ left' = [left EXCEPT ![x] = @ - 1]
          /\ UNCHANGED <<pub, target>>
      BY <1>9 DEF DrainOne
    <2>2. pub[p] = "draining" /\ target[p] \in subs[p] /\ target[p] \in Subscribers
      BY <1>a, <2>1 DEF DrainInv, HandlerInv
    <2>3. target[x] \in subs[x] /\ target[x] \in Subscribers
      BY <2>1 DEF DrainInv, HandlerInv
    <2>4. CASE x = p
      <3>1. queue'[target[p]] = Tail(queue[target[p]]) /\ left'[p] = left[p] - 1
        BY <2>1, <2>2, <2>4 DEF TypeOK
      <3>2. /\ Len(queue[target[p]]) = Len(Tail(queue[target[p]])) + 1
            /\ Len(queue[target[p]]) \in Nat /\ Len(Tail(queue[target[p]])) \in Nat
        <4>1. queue[target[p]] \in Seq(Packet) /\ queue[target[p]] # << >>
          BY <2>1, <2>2, <2>4 DEF TypeOK
        <4> QED
          BY <4>1, TailIsTail, PacketsInQueue DEF IsTail
      <3>3. left[p] \in Nat /\ left'[p] > Len(queue'[target[p]])
        BY <1>a, <2>1 DEF TypeOK
      <3>4. left[p] > Len(queue[target[p]])
        BY <3>1, <3>2, <3>3
      <3> QED
        BY <1>b, <2>2, <3>4 DEF Stuck
    <2>5. CASE x # p
      <3>1. target[x] # target[p]
        BY <2>2, <2>3, <2>5 DEF SubscriberMapInv
      <3> QED
        BY <1>a, <1>b, <2>1, <2>2, <3>1, <2>5 DEF Stuck, TypeOK
    <2> QED
      BY <2>4, <2>5
  <1>10. ASSUME NEW x \in Publishers, DrainDone(x) PROVE Raced
    BY <1>a, <1>b, <1>10 DEF Stuck, TypeOK, DrainDone
  <1>11. ASSUME NEW x \in Publishers, EndBroadcast(x) PROVE Raced
    BY <1>a, <1>b, <1>11 DEF Stuck, TypeOK, EndBroadcast
  <1>12. ASSUME NEW x \in Publishers, ReadError(x) PROVE Raced
    BY <1>a, <1>b, <1>12 DEF Stuck, TypeOK, ReadError
  <1>13. ASSUME NEW x \in Publishers, Unregister(x) PROVE Raced
    BY <1>a, <1>b, <1>13 DEF Stuck, TypeOK, Unregister
  <1>14. ASSUME NEW x \in Publishers, CloseOnExit(x) PROVE Raced
    BY <1>a, <1>b, <1>14 DEF Stuck, TypeOK, CloseOnExit, CloseSubscribers, CloseChannels
  <1>15. ASSUME NEW x \in Publishers, CloseReplaced(x) PROVE Raced
    BY <1>a, <1>b, <1>15 DEF Stuck, TypeOK, CloseReplaced, CloseSubscribers, CloseChannels
  <1>16. ASSUME NEW s \in Subscribers, NEW k \in Keys, Lookup(s, k) PROVE Raced
    BY <1>a, <1>b, <1>16 DEF Stuck, TypeOK, Lookup
  <1>17. ASSUME NEW s \in Subscribers, AddSubscriber(s) PROVE Raced
    <2>1. /\ sub[s] = "found" /\ queue' = [queue EXCEPT ![s] = Replay(source[s])]
          /\ UNCHANGED <<pub, target, left>>
      BY <1>17 DEF AddSubscriber
    <2>2. pub[p] = "draining" /\ target[p] \in subs[p] /\ target[p] \in Subscribers
      BY <1>a, <2>1 DEF DrainInv, HandlerInv
    <2>3. s # target[p]
      BY <2>1, <2>2 DEF SubscriberMapInv
    <2> QED
      BY <1>a, <1>b, <2>1, <2>2, <2>3 DEF Stuck, TypeOK
  <1>18. ASSUME NEW s \in Subscribers, Receive(s) PROVE Raced
    <2>1. /\ queue' = [queue EXCEPT ![s] = Tail(@)] /\ UNCHANGED <<pub, target, left>>
      BY <1>18 DEF Receive
    <2>2. pub[p] = "draining" /\ target[p] \in Subscribers
      BY <1>a, <2>1 DEF HandlerInv
    <2>3. CASE s # target[p]
      BY <1>a, <1>b, <2>1, <2>2, <2>3 DEF Stuck, TypeOK
    <2> QED
      BY <2>2, <2>3, <1>18
  <1>19. ASSUME NEW s \in Subscribers, SeeClosed(s) PROVE Raced
    BY <1>a, <1>b, <1>19 DEF Stuck, TypeOK, SeeClosed
  <1>20. ASSUME NEW s \in Subscribers, ClientGone(s) PROVE Raced
    BY <1>a, <1>b, <1>20 DEF Stuck, TypeOK, ClientGone
  <1>21. ASSUME NEW s \in Subscribers, RemoveSubscriber(s) PROVE Raced
    BY <1>a, <1>b, <1>21 DEF Stuck, TypeOK, RemoveSubscriber, CloseChannels
  <1>22. CASE UNCHANGED vars
    BY <1>22 DEF Stuck, vars
  <1> QED
    BY <1>1, <1>2, <1>3, <1>4, <1>5, <1>6, <1>7, <1>8, <1>9, <1>10, <1>11, <1>12,
       <1>13, <1>14, <1>15, <1>16, <1>17, <1>18, <1>19, <1>20, <1>21, <1>22
       DEF Next, PublisherStep, Broadcast, SubscriberStep

-----------------------------------------------------------------------------
\* The invariant holds in every reachable state.
THEOREM Invariance == Spec => []IInv
  <1>1. IInv /\ [Next]_vars => IInv'
    BY TypeStep, HandlerStep, SubscriberMapStep, NoPanicStep, RegisteredStep,
       PacketStep, DrainStep, ContentStep, ProgressStep DEF IInv
  <1> QED
    BY InitInv, <1>1, PTL DEF Spec

\* The types of the variables; no channel holds more than its capacity.
THEOREM TypeCorrect == Spec => []TypeOK
  <1>1. IInv => TypeOK
    BY DEF IInv
  <1> QED
    BY Invariance, <1>1, PTL

\* No channel is closed twice or sent to after it was closed, whatever the
\* order in which publishers are replaced, publishers leave and clients go.
THEOREM RelayNeverPanics == Spec => []NoPanic
  <1>1. IInv => NoPanic
    BY DEF IInv
  <1> QED
    BY Invariance, <1>1, PTL

\* A registered publisher is one that is still serving its connection.
THEOREM HasStreamIsTrue == Spec => []RegisteredIsLive
  <1>1. IInv => RegisteredIsLive
    BY DEF IInv
  <1> QED
    BY Invariance, <1>1, PTL

\* Only its own cleanup or a newer publisher takes the key from a publisher:
\* the late cleanup of a replaced connection leaves the new one registered.
THEOREM KeyIsKept == Spec => LivePublisherKeepsItsKey
  <1> DEFINE Kept(k) == registry[k] # None /\ registry'[k] # registry[k] =>
                          \/ pub[registry[k]] = "unregister"
                          \/ registry'[k] # None /\ pub[registry'[k]] = "idle"
  <1>1. ASSUME TypeOK, HandlerInv, Next, NEW k \in Keys PROVE Kept(k)
    <2> USE DEF pubVars, castVars, subVars, chanVars, history
    <2>1. ASSUME NEW p \in Publishers, NEW kk \in Keys, Publish(p, kk) PROVE Kept(k)
      BY <1>1, <2>1 DEF TypeOK, Publish
    <2>2. ASSUME NEW p \in Publishers, Unregister(p) PROVE Kept(k)
      BY <1>1, <2>2 DEF TypeOK, HandlerInv, Unregister, StillRegistered
    <2>3. registry' # registry =>
             \E p \in Publishers : Unregister(p) \/ \E kk \in Keys : Publish(p, kk)
      <3>1. ASSUME NEW p \in Publishers, PublisherStep(p), registry' # registry
            PROVE  Unregister(p) \/ \E kk \in Keys : Publish(p, kk)
        BY <3>1 DEF PublisherStep, Broadcast, ReadPacket, CachePacket, BeginBroadcast,
           EndBroadcast, MeasureDrain, DrainOne, DrainDone, Skip, Send, Overflow,
           ReadError, CloseOnExit, CloseReplaced, CloseSubscribers
      <3>2. ASSUME NEW s \in Subscribers, SubscriberStep(s) PROVE registry' = registry
        BY <3>2 DEF SubscriberStep, Lookup, AddSubscriber, Receive, SeeClosed,
           ClientGone, RemoveSubscriber
      <3> QED
        BY <1>1, <3>1, <3>2 DEF Next
    <2> QED
      BY <2>1, <2>2, <2>3
  <1>2. IInv /\ [Next]_vars => [\A k \in Keys : Kept(k)]_vars
    BY <1>1 DEF IInv
  <1> QED
    BY Invariance, <1>2, PTL DEF Spec, LivePublisherKeepsItsKey

\* A step of the relay is a step of the registry, or nothing to it: it takes a key for
\* a publisher, gives it back, or ends a connection, and all other steps are none of those.
LEMMA RegistryStep ==
  TypeOK /\ HandlerInv /\ RegisteredIsLive /\ [Next]_vars => [Registry!Next]_(Registry!vars)
  <1> SUFFICES ASSUME TypeOK, HandlerInv, RegisteredIsLive, [Next]_vars
               PROVE  [Registry!Next]_(Registry!vars)
    OBVIOUS
  <1> USE NoneAssumption DEF pubVars, castVars, subVars, chanVars, history
  <1> DEFINE Same == /\ registry' = registry /\ pubKey' = pubKey
                     /\ \A q \in Publishers : ConnState(q)' = ConnState(q)
  <1>1. ASSUME Same PROVE [Registry!Next]_(Registry!vars)
    <2>1. [q \in Publishers |-> ConnState(q)]' = [q \in Publishers |-> ConnState(q)]
      BY <1>1
    <2> QED
      BY <1>1, <2>1 DEF Registry!vars
  <1>2. ASSUME NEW p \in Publishers, NEW k \in Keys, Publish(p, k)
        PROVE  [Registry!Next]_(Registry!vars)
    <2>1. Registry!Join(p, k)
      BY <1>2 DEF TypeOK, Publish, ConnState, Live, Registry!Join
    <2> QED
      BY <2>1 DEF Registry!Next
  <1>3. ASSUME NEW p \in Publishers, Unregister(p) PROVE [Registry!Next]_(Registry!vars)
    <2>1. registry' = [k \in Keys |-> IF registry[k] = p THEN None ELSE registry[k]]
      <3>1. pubKey[p] \in Keys
        BY <1>3 DEF HandlerInv, Unregister
      <3>2. \A k \in Keys : registry[k] = p => k = pubKey[p]
        BY DEF RegisteredIsLive
      <3> QED
        BY <1>3, <3>1, <3>2 DEF TypeOK, Unregister, StillRegistered
    <2>2. Registry!Leave(p)
      BY <1>3, <2>1 DEF TypeOK, Unregister, ConnState, Live, Registry!Leave
    <2> QED
      BY <2>2 DEF Registry!Next
  <1>4. ASSUME NEW p \in Publishers, CloseOnExit(p) PROVE [Registry!Next]_(Registry!vars)
    <2>1. Registry!Finish(p)
      BY <1>4 DEF TypeOK, CloseOnExit, CloseSubscribers, ConnState, Live, Registry!Finish
    <2> QED
      BY <2>1 DEF Registry!Next
  <1>5. ASSUME NEW p \in Publishers, Broadcast(p) PROVE Same
    <2>1. /\ registry' = registry /\ pubKey' = pubKey
          /\ \E at \in {"reading", "sending", "full", "draining"} :
                pub' = pub \/ pub' = [pub EXCEPT ![p] = at]
      BY <1>5 DEF Broadcast, BeginBroadcast, EndBroadcast, MeasureDrain, DrainOne,
         DrainDone, Skip, Send, Overflow
    <2>2. pub[p] \in {"publishing", "sending", "full", "draining"}
      BY <1>5 DEF Broadcast, BeginBroadcast, EndBroadcast, MeasureDrain, DrainOne,
         DrainDone, Skip, Send, Overflow
    <2> QED
      BY <2>1, <2>2 DEF TypeOK, ConnState, Live
  <1>6. ASSUME NEW p \in Publishers, NEW kind \in Kinds, ReadPacket(p, kind) PROVE Same
    BY <1>6 DEF TypeOK, ConnState, Live, ReadPacket, AfterRead
  <1>7. ASSUME NEW p \in Publishers, CachePacket(p) \/ ReadError(p) PROVE Same
    BY <1>7 DEF TypeOK, ConnState, Live, CachePacket, ReadError
  <1>8. ASSUME NEW p \in Publishers, CloseReplaced(p) PROVE Same
    BY <1>8 DEF ConnState, Live, CloseReplaced, CloseSubscribers
  <1>9. ASSUME NEW s \in Subscribers, SubscriberStep(s) PROVE Same
    BY <1>9 DEF ConnState, Live, SubscriberStep, Lookup, AddSubscriber, Receive, SeeClosed,
       ClientGone, RemoveSubscriber
  <1>10. CASE UNCHANGED vars
    <2>1. Same
      BY <1>10 DEF vars, ConnState, Live
    <2> QED
      BY <1>1, <2>1
  <1> HIDE DEF Same
  <1> QED
    BY <1>1, <1>2, <1>3, <1>4, <1>5, <1>6, <1>7, <1>8, <1>9, <1>10
       DEF Next, PublisherStep

\* The relay, with its packets, channels and locks, is the registry of streams: a key
\* has the latest publisher until that one is no longer read, and the late cleanup of
\* a replaced connection changes nothing.
THEOREM RelayImplementsRegistry == Spec => RelayIsRegistry
  <1>1. Init => Registry!Init
    BY DEF Init, Registry!Init, ConnState, Live
  <1>2. IInv /\ [Next]_vars => [Registry!Next]_(Registry!vars)
    BY RegistryStep DEF IInv
  <1> QED
    BY Invariance, <1>1, <1>2, PTL DEF Spec, RelayIsRegistry, Registry!Spec

\* Whatever was dropped when a channel was full, and whenever a subscriber joined,
\* it never receives a P- or B-frame without the frame before it, unless the drain
\* lost the race and is stuck.
THEOREM VideoIsContinuous == Spec => VideoContinuity
  <1> DEFINE Continuous(s) ==
               Receive(s) /\ Head(queue[s]).kind = "delta" =>
                  \/ seen[s].video > 0 /\ Head(queue[s]).video = seen[s].video + 1
                  \/ Stuck(source[s])'
  <1>1. ASSUME TypeOK, HandlerInv, DrainInv, ContentInv, NEW s \in Subscribers,
               Receive(s), Head(queue[s]).kind = "delta"
        PROVE  \/ seen[s].video > 0 /\ Head(queue[s]).video = seen[s].video + 1
               \/ Stuck(source[s])'
    <2>1. /\ sub[s] = "streaming" /\ queue[s] # << >> /\ source[s] \in Publishers
          /\ queue' = [queue EXCEPT ![s] = Tail(@)]
          /\ UNCHANGED <<pub, target, left, source>>
      BY <1>1 DEF Receive, HandlerInv, castVars, subVars
    <2>2. /\ queue[s] \in Seq(Packet) /\ Tail(queue[s]) \in Seq(Packet)
          /\ IsTail(Tail(queue[s]), queue[s])
          /\ Head(queue[s]) = queue[s][1] /\ 1 \in 1..Len(queue[s])
      BY <1>1, <2>1, TailIsTail DEF TypeOK
    <2>3. CASE Drained(s)
      <3>1. left[source[s]] >= Len(queue[s])
        BY <1>1, <2>1, <2>3 DEF Drained, DrainInv
      <3>2. queue'[s] = Tail(queue[s])
        BY <1>1, <2>1 DEF TypeOK
      <3>3. left[source[s]] > Len(queue'[s])
        <4>1. /\ Len(queue[s]) = Len(Tail(queue[s])) + 1
              /\ Len(queue[s]) \in Nat /\ Len(Tail(queue[s])) \in Nat /\ left[source[s]] \in Nat
          BY <1>1, <2>1, <2>2, PacketsInQueue DEF IsTail, TypeOK
        <4> QED
          BY <3>1, <3>2, <4>1
      <3> QED
        BY <2>1, <2>3, <3>3 DEF Stuck, Drained
    <2>4. CASE ~Drained(s)
      <3>1. Decodable(queue[s], seen[s].video)
        BY <1>1, <2>1, <2>4 DEF ContentInv, Content, Attached
      <3>2. Follows(queue[s], seen[s].video, 1)
        BY <1>1, <2>2, <3>1 DEF Decodable
      <3> QED
        BY <2>2, <3>2 DEF Follows
    <2> QED
      BY <2>3, <2>4
  <1>2. IInv /\ [Next]_vars => [\A s \in Subscribers : Continuous(s)]_vars
    BY <1>1 DEF IInv
  <1> QED
    BY Invariance, <1>2, PTL DEF Spec, VideoContinuity

\* A subscriber whose channel has never been full is given the decoder configuration
\* in force before each keyframe and misses no frame since its first keyframe.
THEOREM KeyframesAreUsable == Spec => ConfigBeforeKeyframe
  <1> DEFINE Usable(s) ==
               Receive(s) /\ Head(queue[s]).kind = "key" /\ ~overflowed[s] =>
                  /\ Head(queue[s]).config = seen[s].config
                  /\ seen[s].video > 0 => Head(queue[s]).video = seen[s].video + 1
  <1>1. ASSUME TypeOK, ContentInv, NEW s \in Subscribers,
               Receive(s), Head(queue[s]).kind = "key", ~overflowed[s]
        PROVE  /\ Head(queue[s]).config = seen[s].config
               /\ seen[s].video > 0 => Head(queue[s]).video = seen[s].video + 1
    <2>1. sub[s] = "streaming" /\ queue[s] # << >>
      BY <1>1 DEF Receive
    <2>2. Head(queue[s]) = queue[s][1] /\ 1 \in 1..Len(queue[s])
      BY <1>1, <2>1, TailIsTail DEF TypeOK
    <2>3. Complete(queue[s], seen[s].video, seen[s].config)
      BY <1>1, <2>1 DEF ContentInv, Content, Attached
    <2>4. IsVideo(queue[s][1])
      BY <1>1, <2>2 DEF IsVideo, VideoKinds
    <2> QED
      BY <1>1, <2>2, <2>3, <2>4 DEF Complete, Follows
  <1>2. IInv /\ [Next]_vars => [\A s \in Subscribers : Usable(s)]_vars
    BY <1>1 DEF IInv
  <1> QED
    BY Invariance, <1>2, PTL DEF Spec, ConfigBeforeKeyframe

\* What the run RelayDrain finds cannot heal (server.go:105): a publisher whose drain
\* has lost the race reads nothing any more and lets no subscriber go, ever.
THEOREM StuckForever ==
  Spec => [][\A p \in Publishers :
                Stuck(p) => Stuck(p)' /\ subs'[p] = subs[p] /\ sent'[p] = sent[p]]_vars
  <1> DEFINE Stays(p) == Stuck(p) => Stuck(p)' /\ subs'[p] = subs[p] /\ sent'[p] = sent[p]
  <1>1. IInv /\ [Next]_vars => [\A p \in Publishers : Stays(p)]_vars
    BY StuckStep DEF IInv
  <1> QED
    BY Invariance, <1>1, PTL DEF Spec

\* Nor is there another way into it: the subscriber took a packet between len(sub.pktC)
\* and the end of the drain.
THEOREM StuckByReceive ==
  Spec => [][\A p \in Publishers :
                ~Stuck(p) /\ Stuck(p)' => pub[p] = "draining" /\ Receive(target[p])]_vars
  <1> DEFINE Raced(p) == ~Stuck(p) /\ Stuck(p)' => pub[p] = "draining" /\ Receive(target[p])
  <1>1. IInv /\ [Next]_vars => [\A p \in Publishers : Raced(p)]_vars
    BY StuckCause DEF IInv
  <1> QED
    BY Invariance, <1>1, PTL DEF Spec

\* A channel that is open is in the map of its broadcaster, and the handler of its
\* subscriber has not returned.
OpenIsInMap ==
    \A s \in Subscribers :
        open[s] => s \in subs[source[s]] /\ sub[s] \in {"streaming", "leaving"}

\* Every step keeps the open channels in the maps.
LEMMA OpenStep ==
    TypeOK /\ HandlerInv /\ SubscriberMapInv /\ OpenIsInMap /\ [Next]_vars => OpenIsInMap'
  <1> SUFFICES ASSUME TypeOK, HandlerInv, SubscriberMapInv, OpenIsInMap, [Next]_vars
               PROVE  OpenIsInMap'
    OBVIOUS
  <1> USE DEF TypeOK, pubVars, castVars, subVars, chanVars, history
  <1>1. ASSUME NEW p \in Publishers, CloseSubscribers(p), sub' = sub, source' = source
        PROVE  OpenIsInMap'
    <2> SUFFICES ASSUME NEW s \in Subscribers, open'[s]
                 PROVE  s \in subs'[source[s]] /\ sub[s] \in {"streaming", "leaving"}
      BY <1>1 DEF OpenIsInMap
    <2>1. open[s] /\ s \notin subs[p]
      BY <1>1 DEF CloseSubscribers, CloseChannels
    <2>2. s \in subs[source[s]] /\ sub[s] \in {"streaming", "leaving"}
      BY <2>1 DEF OpenIsInMap
    <2>3. source[s] \in Publishers /\ source[s] # p
      BY <2>1, <2>2 DEF HandlerInv
    <2> QED
      BY <1>1, <2>2, <2>3 DEF CloseSubscribers
  <1>2. ASSUME NEW s \in Subscribers, NEW k \in Keys, Lookup(s, k) PROVE OpenIsInMap'
    BY <1>2 DEF Lookup, OpenIsInMap
  <1>3. ASSUME NEW s \in Subscribers, AddSubscriber(s) PROVE OpenIsInMap'
    BY <1>3 DEF AddSubscriber, OpenIsInMap, HandlerInv
  <1>4. ASSUME NEW s \in Subscribers, SeeClosed(s) \/ ClientGone(s) PROVE OpenIsInMap'
    BY <1>4 DEF SeeClosed, ClientGone, OpenIsInMap
  <1>5. ASSUME NEW s \in Subscribers, RemoveSubscriber(s) PROVE OpenIsInMap'
    BY <1>5 DEF RemoveSubscriber, CloseChannels, ToRemove, OpenIsInMap, HandlerInv
  <1>6. ASSUME UNCHANGED <<subs, sub, source, open>> PROVE OpenIsInMap'
    BY <1>6 DEF OpenIsInMap
  <1>7. ASSUME NEW p \in Publishers, PublisherStep(p) PROVE OpenIsInMap'
    <2>1. CASE CloseOnExit(p) \/ CloseReplaced(p)
      BY <1>1, <2>1 DEF CloseOnExit, CloseReplaced, CloseSubscribers
    <2>2. CASE ~CloseOnExit(p) /\ ~CloseReplaced(p)
      BY <1>6, <1>7, <2>2 DEF PublisherStep, Broadcast, Publish, ReadPacket, CachePacket,
         BeginBroadcast, EndBroadcast, MeasureDrain, DrainOne, DrainDone, Skip, Send,
         Overflow, ReadError, Unregister
    <2> QED
      BY <2>1, <2>2
  <1>8. ASSUME NEW s \in Subscribers, Receive(s) PROVE OpenIsInMap'
    BY <1>6, <1>8 DEF Receive
  <1>9. CASE UNCHANGED vars
    BY <1>6, <1>9 DEF vars
  <1> QED
    BY <1>2, <1>3, <1>4, <1>5, <1>7, <1>8, <1>9 DEF Next, SubscriberStep

\* removeSubscriber and closeSubscribers leave no channel behind (server.go:66-82):
\* whoever waits on an open channel is in the map, where the next closeSubscribers finds it.
THEOREM NoChannelIsForgotten == Spec => []OpenIsInMap
  <1>1. Init => OpenIsInMap
    BY DEF Init, OpenIsInMap
  <1>2. IInv /\ OpenIsInMap /\ [Next]_vars => OpenIsInMap'
    BY OpenStep DEF IInv
  <1> QED
    BY <1>1, <1>2, Invariance, PTL DEF Spec

Outlives(s) == open[s] /\ pub[source[s]] = "gone"

\* Where "the stream it subscribes to is being published" (server.go:166-167) fails, the
\* lookup is the only cause: a handler that has returned closes every channel there
\* is, and what is open of its stream later was added after it (server.go:166-170).
THEOREM OutlivedByLookup ==
  Spec => [][\A s \in Subscribers : ~Outlives(s) /\ Outlives(s)' =>
                AddSubscriber(s) /\ pub[source[s]] = "gone"]_vars
  <1> DEFINE Late(s) == ~Outlives(s) /\ Outlives(s)' =>
                           AddSubscriber(s) /\ pub[source[s]] = "gone"
  <1>1. ASSUME TypeOK, HandlerInv, OpenIsInMap, Next, NEW s \in Subscribers
        PROVE  Late(s)
    <2> USE DEF TypeOK, pubVars, castVars, subVars, chanVars, history
    <2>a. open[s] => source[s] \in Publishers /\ s \in subs[source[s]] /\ sub[s] # "idle"
      BY <1>1 DEF OpenIsInMap, HandlerInv
    <2>1. ASSUME NEW p \in Publishers, CloseOnExit(p) PROVE Late(s)
      <3>1. /\ pub' = [pub EXCEPT ![p] = "gone"] /\ source' = source
            /\ open'[s] => open[s] /\ s \notin subs[p]
        BY <2>1 DEF CloseOnExit, CloseSubscribers, CloseChannels
      <3> QED
        BY <1>1, <2>a, <3>1 DEF Outlives
    <2>2. ASSUME NEW p \in Publishers, CloseReplaced(p) PROVE Late(s)
      BY <1>1, <2>2 DEF CloseReplaced, CloseSubscribers, CloseChannels, Outlives
    <2>3. ASSUME NEW p \in Publishers, PublisherStep(p), ~CloseOnExit(p), ~CloseReplaced(p)
          PROVE  Late(s)
      <3>1. /\ UNCHANGED <<open, source>>
            /\ \E w \in PubStates \ {"gone"} : pub' = [pub EXCEPT ![p] = w] \/ pub' = pub
        BY <2>3 DEF PublisherStep, Broadcast, Publish, ReadPacket, CachePacket,
           BeginBroadcast, EndBroadcast, MeasureDrain, DrainOne, DrainDone, Skip, Send,
           Overflow, ReadError, Unregister, AfterRead, PubStates
      <3> QED
        BY <1>1, <2>a, <3>1 DEF Outlives
    <2>4. ASSUME NEW r \in Subscribers, SubscriberStep(r) PROVE Late(s)
      <3>1. CASE AddSubscriber(r)
        BY <1>1, <3>1 DEF AddSubscriber, HandlerInv, Outlives
      <3>2. CASE \E k \in Keys : Lookup(r, k)
        <4>1. PICK k \in Keys : Lookup(r, k)
          BY <3>2
        <4>2. open' = open /\ pub' = pub /\ (s # r => source'[s] = source[s]) /\ sub[r] = "idle"
          BY <1>1, <4>1 DEF Lookup
        <4> QED
          BY <2>a, <4>2 DEF Outlives
      <3>3. CASE Receive(r) \/ SeeClosed(r) \/ ClientGone(r) \/ RemoveSubscriber(r)
        BY <1>1, <3>3 DEF Receive, SeeClosed, ClientGone, RemoveSubscriber, CloseChannels,
           Outlives
      <3> QED
        BY <2>4, <3>1, <3>2, <3>3 DEF SubscriberStep
    <2> QED
      BY <1>1, <2>1, <2>2, <2>3, <2>4 DEF Next
  <1>2. IInv /\ OpenIsInMap /\ [Next]_vars => [\A s \in Subscribers : Late(s)]_vars
    BY <1>1 DEF IInv
  <1> QED
    BY Invariance, NoChannelIsForgotten, <1>2, PTL DEF Spec
=============================================================================
