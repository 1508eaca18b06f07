---------------------------- MODULE DashboardHub ----------------------------
(***************************************************************************)
(* The WebSocket clients of the dashboard, src/internal/api/server.go: the *)
(* handler that accepts one, queues what it must know first and becomes    *)
(* its reader, the writer that empties its channel, the broadcasts of new  *)
(* states and of log lines, and the viewer's side of the connection        *)
(* (src/internal/api/static/dashboard/app.js).                             *)
(*                                                                         *)
(* Sections under Server.mu and LogBroadcaster.mu block on nothing else,   *)
(* so each is one step; Write of the log holds both.  The states of all    *)
(* babies are one version number, a log line is its position in the log.   *)
(***************************************************************************)
EXTENDS Naturals, Sequences

CONSTANTS
    Viewers,       \* connections of dashboards, each used once
    Broadcasters,  \* goroutines that change a state and broadcast it
    Capacity,      \* capacity of a client's channel (32 in the code)
    RingSize,      \* lines the log keeps (200 in the code)
    MaxVersion,    \* bound: changes of the state
    MaxLines       \* bound: lines of the log

ASSUME SizesAssumption ==
    /\ Capacity \in Nat \ {0} /\ RingSize \in Nat \ {0}
    /\ MaxVersion \in Nat /\ MaxLines \in Nat

VARIABLES
    version,   \* the state of the babies
    update,    \* where a broadcaster is
    told,      \* the version it will send
    lines,     \* lines written to the log
    clients,   \* s.clients
    at,        \* where handleWS of a connection is
    initial,   \* the version of its initial message
    history,   \* the lines of its log_init message
    queue,     \* c.send
    closed,    \* c.closed, and c.send is closed
    writer,    \* wsWriter
    conn,      \* the connection
    states,    \* versions the dashboard was shown
    log,       \* lines the dashboard was shown
    missed,    \* history: a line did not fit into the channel
    hubPanics  \* history: a goroutine other than a handler closed a closed channel

hub == <<version, update, told, lines>>
handler == <<at, initial, history>>
channel == <<queue, closed>>
screen == <<states, log>>
vars == <<hub, clients, handler, channel, writer, conn, screen, missed, hubPanics>>

Versions == 0..MaxVersion
Lines == 1..MaxLines
Messages == [states : SUBSET Versions, log : SUBSET Lines]
StateMessage(n) == [states |-> {n}, log |-> {}]
LogMessage(set) == [states |-> {}, log |-> set]

Places == {"new", "accepted", "described", "queued", "logged", "ready", "reading",
           "panicked", "ended"}

TypeOK ==
    /\ version \in Versions
    /\ update \in [Broadcasters -> {"idle", "changed", "described"}]
    /\ told \in [Broadcasters -> Versions]
    /\ lines \in 0..MaxLines
    /\ clients \subseteq Viewers
    /\ at \in [Viewers -> Places]
    /\ initial \in [Viewers -> Versions]
    /\ history \in [Viewers -> SUBSET Lines]
    /\ queue \in [Viewers -> Seq(Messages)]
    /\ \A v \in Viewers : Len(queue[v]) <= Capacity
    /\ closed \in [Viewers -> BOOLEAN]
    /\ writer \in [Viewers -> {"none", "running", "ended"}]
    /\ conn \in [Viewers -> {"open", "lost", "closed"}]
    /\ states \in [Viewers -> SUBSET Versions]
    /\ log \in [Viewers -> SUBSET Lines]
    /\ missed \in [Viewers -> BOOLEAN]
    /\ hubPanics \in BOOLEAN

Init ==
    /\ version = 0 /\ lines = 0
    /\ update = [b \in Broadcasters |-> "idle"]
    /\ told = [b \in Broadcasters |-> 0]
    /\ clients = {}
    /\ at = [v \in Viewers |-> "new"]
    /\ initial = [v \in Viewers |-> 0]
    /\ history = [v \in Viewers |-> {}]
    /\ queue = [v \in Viewers |-> <<>>]
    /\ closed = [v \in Viewers |-> FALSE]
    /\ writer = [v \in Viewers |-> "none"]
    /\ conn = [v \in Viewers |-> "open"]
    /\ states = [v \in Viewers |-> {}]
    /\ log = [v \in Viewers |-> {}]
    /\ missed = [v \in Viewers |-> FALSE]
    /\ hubPanics = FALSE
-----------------------------------------------------------------------------
(* A definition that nothing uses is a mutant of the one that follows it.  *)

HasRoom(v) == Len(queue[v]) < Capacity

\* if c.closed { continue }
Receivers == {v \in clients : ~closed[v]}

OneTooFew == {n \in Lines : n <= lines /\ n + RingSize > lines + 1}

\* The ring: the last lines of the log.
Ring == {n \in Lines : n <= lines /\ n + RingSize > lines}

SkipTheFull == {}

\* BroadcastState cuts off the clients that do not keep up.
CutOff == {v \in Receivers : ~HasRoom(v)}

\* close(c.send), c.closed = true
Close(set) ==
    /\ closed' = [v \in Viewers |-> closed[v] \/ v \in set]
    /\ hubPanics' = (hubPanics \/ \E v \in set : closed[v])

CloseAnyway(v) == Close({v})

\* wsReader closes the channel if nobody did.
CloseOnLeave(v) == Close({v} \ {w \in Viewers : closed[w]})

LeaveOpen(v) == conn[v]

\* wsWriter closes the connection when it ends.
AfterWriter(v) == "closed"

Put(set, msg) ==
    queue' = [v \in Viewers |->
                 IF v \in set /\ HasRoom(v) THEN Append(queue[v], msg) ELSE queue[v]]

Go(v, place) == at' = [at EXCEPT ![v] = place]
-----------------------------------------------------------------------------
(* States and log lines                                                    *)

\* A goroutine changes the state of a baby, which notifies ...
Change(b) ==
    /\ update[b] = "idle" /\ version < MaxVersion
    /\ version' = version + 1
    /\ update' = [update EXCEPT ![b] = "changed"]
    /\ UNCHANGED <<told, lines, clients, handler, channel, writer, conn, screen,
                   missed, hubPanics>>

\* ... BroadcastState: a message is made of what the state is now ...
Describe(b) ==
    /\ update[b] = "changed"
    /\ update' = [update EXCEPT ![b] = "described"]
    /\ told' = [told EXCEPT ![b] = version]
    /\ UNCHANGED <<version, lines, clients, handler, channel, writer, conn, screen,
                   missed, hubPanics>>

\* ... and put into every channel; who has no room is cut off.
BroadcastState(b) ==
    /\ update[b] = "described"
    /\ update' = [update EXCEPT ![b] = "idle"]
    /\ Put(Receivers, StateMessage(told[b]))
    /\ clients' = clients \ CutOff
    /\ Close(CutOff)
    /\ UNCHANGED <<version, told, lines, handler, writer, conn, screen, missed>>

\* LogBroadcaster.Write and its listener; who has no room misses the line.
WriteLog ==
    /\ lines < MaxLines
    /\ lines' = lines + 1
    /\ Put(Receivers, LogMessage({lines + 1}))
    /\ missed' = [v \in Viewers |-> missed[v] \/ (v \in Receivers /\ ~HasRoom(v))]
    /\ UNCHANGED <<version, update, told, clients, handler, closed, writer, conn, screen, hubPanics>>
-----------------------------------------------------------------------------
(* handleWS                                                                *)

Accept(v) ==
    /\ at[v] = "new"
    /\ Go(v, "accepted")
    /\ clients' = clients \cup {v}
    /\ UNCHANGED <<hub, initial, history, channel, writer, conn, screen, missed, hubPanics>>

TakeInitial(v) ==
    /\ at[v] = "accepted"
    /\ Go(v, "described")
    /\ initial' = [initial EXCEPT ![v] = version]
    /\ UNCHANGED <<hub, clients, history, channel, writer, conn, screen, missed, hubPanics>>

\* The handler itself waits for room; a send on a closed channel panics, which
\* net/http recovers, but nobody closes the connection.
Send(v, msg, next) ==
    /\ \/ /\ closed[v]
          /\ Go(v, "panicked")
          /\ UNCHANGED queue
       \/ /\ ~closed[v] /\ HasRoom(v)
          /\ Go(v, next)
          /\ Put({v}, msg)
    /\ UNCHANGED <<hub, clients, initial, history, closed, writer, conn, screen,
                   missed, hubPanics>>

SendInitial(v) ==
    at[v] = "described" /\ Send(v, StateMessage(initial[v]), "queued")

TakeHistory(v) ==
    /\ at[v] = "queued"
    /\ Go(v, IF Ring = {} THEN "ready" ELSE "logged")
    /\ history' = [history EXCEPT ![v] = Ring]
    /\ UNCHANGED <<hub, clients, initial, channel, writer, conn, screen, missed, hubPanics>>

SendHistory(v) ==
    at[v] = "logged" /\ Send(v, LogMessage(history[v]), "ready")

Serve(v) ==
    /\ at[v] = "ready"
    /\ Go(v, "reading")
    /\ writer' = [writer EXCEPT ![v] = "running"]
    /\ UNCHANGED <<hub, clients, initial, history, channel, conn, screen, missed, hubPanics>>

\* wsReader: the connection is broken, or was closed by the writer.
Leave(v) ==
    /\ at[v] = "reading" /\ conn[v] # "open"
    /\ Go(v, "ended")
    /\ clients' = clients \ {v}
    /\ CloseOnLeave(v)
    /\ conn' = [conn EXCEPT ![v] = "closed"]
    /\ UNCHANGED <<hub, initial, history, queue, writer, screen, missed>>
-----------------------------------------------------------------------------
(* wsWriter and the connection                                             *)

Take(v) ==
    /\ writer[v] = "running" /\ queue[v] # <<>>
    /\ queue' = [queue EXCEPT ![v] = Tail(@)]
    /\ UNCHANGED <<hub, clients, handler, closed, missed, hubPanics>>

\* The dashboard shows the message.
Write(v) ==
    /\ conn[v] = "open"
    /\ Take(v)
    /\ states' = [states EXCEPT ![v] = @ \cup Head(queue[v]).states]
    /\ log' = [log EXCEPT ![v] = @ \cup Head(queue[v]).log]
    /\ UNCHANGED <<writer, conn>>

\* On a broken connection a write may succeed or fail.
WriteInVain(v) ==
    /\ conn[v] # "open"
    /\ Take(v)
    /\ \/ UNCHANGED <<writer, conn>>
       \/ /\ writer' = [writer EXCEPT ![v] = "ended"]
          /\ conn' = [conn EXCEPT ![v] = AfterWriter(v)]
    /\ UNCHANGED screen

WriterEnds(v) ==
    /\ writer[v] = "running" /\ closed[v] /\ queue[v] = <<>>
    /\ writer' = [writer EXCEPT ![v] = "ended"]
    /\ conn' = [conn EXCEPT ![v] = AfterWriter(v)]
    /\ UNCHANGED <<hub, clients, handler, channel, screen, missed, hubPanics>>

\* The browser goes away or the network breaks.
ConnectionLost(v) ==
    /\ at[v] # "new" /\ conn[v] = "open"
    /\ conn' = [conn EXCEPT ![v] = "lost"]
    /\ UNCHANGED <<hub, clients, handler, channel, writer, screen, missed, hubPanics>>
-----------------------------------------------------------------------------
Broadcast(b) == Describe(b) \/ BroadcastState(b)

HandleWS(v) ==
    TakeInitial(v) \/ SendInitial(v) \/ TakeHistory(v) \/ SendHistory(v) \/ Serve(v)

Writer(v) == Write(v) \/ WriteInVain(v) \/ WriterEnds(v)

Next ==
    \/ \E b \in Broadcasters : Change(b) \/ Broadcast(b)
    \/ WriteLog
    \/ \E v \in Viewers : Accept(v) \/ HandleWS(v) \/ Leave(v) \/ Writer(v) \/ ConnectionLost(v)

Spec == Init /\ [][Next]_vars

(* Goroutines take their steps; a write returns, because the browser reads *)
(* or the connection breaks.                                               *)
Fairness ==
    /\ \A b \in Broadcasters : WF_vars(Broadcast(b))
    /\ \A v \in Viewers : WF_vars(HandleWS(v)) /\ WF_vars(Leave(v)) /\ WF_vars(Writer(v))

FairSpec == Spec /\ Fairness
-----------------------------------------------------------------------------
(* Properties                                                              *)

\* All that was sent to the dashboard has been shown.
UpToDate(v) == /\ at[v] = "reading" /\ conn[v] = "open"
               /\ ~closed[v] /\ queue[v] = <<>>

\* A channel is closed by the broadcast that cuts a client off or by its
\* reader, never by both, and no broadcast sends to a closed channel: neither
\* the callbacks of a camera nor a log call can panic here.
HubNeverPanics == ~hubPanics /\ \A v \in clients : ~closed[v]

\* A dashboard that is connected and up to date has been sent the current state
\* when no broadcast is under way, whenever it connected: it is cut off rather
\* than left behind.  (An older state may have been sent after it.)
CurrentStateIsSent ==
    (\A b \in Broadcasters : update[b] = "idle") =>
        \A v \in Viewers : UpToDate(v) => version \in states[v]

\* ... and has the last lines of the log without a gap, also those written
\* while it connected, unless its channel was full.
LogHasNoGap ==
    \A v \in Viewers : UpToDate(v) /\ ~missed[v] =>
        \A n \in Lines : n <= lines /\ n + RingSize > lines => n \in log[v]

\* A client that is gone or was cut off is forgotten, its connection closed and
\* its goroutines ended, unless its handler still waits to queue the first
\* messages or panicked doing so.
ClientsAreForgotten ==
    \A v \in Viewers :
        at[v] # "new" /\ (conn[v] = "lost" \/ closed[v]) ~>
            \/ at[v] = "ended" /\ v \notin clients /\ conn[v] = "closed" /\ writer[v] = "ended"
            \/ at[v] \in {"described", "logged", "panicked"}
=============================================================================
