---------------------------- MODULE CameraClient ----------------------------
(***************************************************************************)
(* The client of one camera, src/internal/nanit/client.go: the loop that   *)
(* keeps a WebSocket to the Nanit cloud open, the goroutines of each       *)
(* connection (reader, keepalive, sensor poll), the request that makes the *)
(* camera stream to the relay and the loops that repeat it, and Stop.      *)
(*                                                                         *)
(* Messages are abstracted to the requests to start or stop streaming and  *)
(* their answers: these are the only ones that change the client's state.  *)
(* The other requests and pushes run a callback of the client's owner.     *)
(* Time is abstracted: a timer fires at any time, and eventually.          *)
(* Conns are identities of connections, used again when every goroutine of *)
(* the earlier connection has ended; Loops are identities of retry loops.  *)
(***************************************************************************)
EXTENDS Naturals, FiniteSets

CONSTANTS
    Conns,      \* identities of connections
    Loops,      \* identities of retry loops; bounds how many run at once
    None,       \* no connection
    ErrCap,     \* capacity of errCh (2 in the code)
    MaxAsked    \* bound: streaming requests a connection has open

ASSUME NoneAssumption == None \notin Conns
ASSUME ErrCapAssumption == ErrCap \in Nat /\ ErrCap >= 2
ASSUME MaxAskedAssumption == MaxAsked \in Nat \ {0}

VARIABLES
    done,       \* the channel c.done is closed
    stopping,   \* Stop has closed c.done and not yet the connection
    loop,       \* where connectLoop and connect are
    cur,        \* the local variable conn of connect
    conn,       \* the field c.conn
    sock,       \* the state of a connection's socket
    reader,     \* where readLoop of a connection is, or the answer it handles
    keeper,     \* where keepaliveLoop of a connection is
    polling,    \* connections whose sensorPollLoop runs
    errs,       \* number of errors in a connection's errCh
    asked,      \* streaming requests the camera may still answer
    retrying,   \* c.streamRetrying
    retry,      \* where a streamRetryLoop is
    restarter   \* where a RestartStreaming called by the manager is

connVars == <<sock, reader, keeper, polling, errs>>
streamVars == <<retrying, retry>>
vars == <<done, stopping, loop, cur, conn, connVars, asked, streamVars, restarter>>

Answers == {"ok", "sleeping", "failed"}
LoopStates == {"top", "dialing", "dialed", "starting", "startFailed", "serving",
               "stopping", "closing", "pause", "ended"}
SockStates == {"none", "open", "silent", "reset", "closed"}
RetryStates == {"none", "sleeping", "sending", "waiting"}

TypeOK ==
    /\ done \in BOOLEAN /\ stopping \in BOOLEAN
    /\ loop \in LoopStates
    /\ cur \in Conns \cup {None} /\ conn \in Conns \cup {None}
    /\ sock \in [Conns -> SockStates]
    /\ reader \in [Conns -> {"reading", "reporting", "ended"} \cup Answers]
    /\ keeper \in [Conns -> {"ticking", "reporting", "ended"}]
    /\ polling \subseteq Conns
    /\ errs \in [Conns -> 0..ErrCap]
    /\ asked \in [Conns -> 0..MaxAsked]
    /\ (cur = None) <=> loop \in {"top", "dialing", "pause", "ended"}
    /\ retrying \in BOOLEAN
    /\ retry \in [Loops -> RetryStates]
    /\ restarter \in {"idle", "failed"}

Init ==
    /\ done = FALSE /\ stopping = FALSE
    /\ loop = "top"
    /\ cur = None /\ conn = None
    /\ sock = [c \in Conns |-> "none"]
    /\ reader = [c \in Conns |-> "ended"]
    /\ keeper = [c \in Conns |-> "ended"]
    /\ polling = {}
    /\ errs = [c \in Conns |-> 0]
    /\ asked = [c \in Conns |-> 0]
    /\ retrying = FALSE
    /\ retry = [l \in Loops |-> "none"]
    /\ restarter = "idle"

-----------------------------------------------------------------------------
(* Requests, and the retry flag.  A definition that nothing uses is a      *)
(* mutant of the one that follows it.                                      *)

\* Nothing of the connection is left; its identity may be used again.
Reclaimed(c) ==
    /\ sock[c] \in {"none", "closed"} /\ reader[c] = "ended" /\ keeper[c] = "ended"
    /\ c \notin polling /\ c # cur

\* sendRequest: the write goes to c.conn.  A request the peer never reads is
\* lost, and what is written to a socket that is not open may be refused.
Ask ==
    /\ conn # None /\ sock[conn] # "closed"
    /\ asked' = IF sock[conn] = "open"
                THEN [asked EXCEPT ![conn] = IF @ < MaxAsked THEN @ + 1 ELSE @]
                ELSE asked
AskFails == (conn # None => sock[conn] # "open") /\ UNCHANGED asked

\* scheduleStreamRetry: nothing if a loop is thought to run.
ScheduleRetry ==
    \/ retrying /\ UNCHANGED streamVars
    \/ /\ ~retrying
       /\ retrying' = TRUE
       /\ \E l \in Loops : /\ retry[l] = "none"
                           /\ retry' = [retry EXCEPT ![l] = "sleeping"]

\* The flag ends the retry loops when they next look at it.
EndRetry == retrying' = FALSE /\ UNCHANGED retry

GiveUp == "none"

\* Where a retry loop goes when it cannot send.
AfterSendError == "sleeping"

KeepTicking(c) == "ticking"

\* keepaliveLoop returns after it has reported.
AfterReport(c) == "ended"

NeverClosed(c) == FALSE

\* connDone of a connection is closed: connect has left it.
ConnDone(c) == c # cur \/ loop \in {"stopping", "closing"}

WriteErrorsOnly(c) == sock[c] \in {"reset", "closed"}

\* The keepalive finds the connection stale or cannot write.
KeepaliveFails(c) == sock[c] \in {"silent", "reset", "closed"}

\* connect returns when it has no connection.
AfterDialError == "pause"

LeftOpen == sock

\* conn.Close() at the end of connect.
ClosedSock == [sock EXCEPT ![cur] = "closed"]

IgnoreDone == FALSE

\* What the retry loops' selects see of c.done.
SeesDone == done
-----------------------------------------------------------------------------
(* connectLoop and connect                                                 *)

LoopTop ==
    /\ loop = "top"
    /\ loop' = IF done THEN "ended" ELSE "dialing"
    /\ UNCHANGED <<done, stopping, cur, conn, connVars, asked, streamVars, restarter>>

\* No access token, no connection, or the dial was cancelled by Stop.
DialFails ==
    /\ loop = "dialing"
    /\ loop' = AfterDialError
    /\ UNCHANGED <<done, stopping, cur, conn, connVars, asked, streamVars, restarter>>

\* c.conn is not the new connection yet; where it was the closed one this identity
\* had before, which nobody can tell from no connection, it is none.
DialSucceeds(c) ==
    /\ loop = "dialing"
    /\ Reclaimed(c)
    /\ loop' = "dialed"
    /\ cur' = c
    /\ conn' = IF conn = c THEN None ELSE conn
    /\ sock' = [sock EXCEPT ![c] = "open"]
    /\ errs' = [errs EXCEPT ![c] = 0]
    /\ asked' = [asked EXCEPT ![c] = 0]
    /\ UNCHANGED <<done, stopping, reader, keeper, polling, streamVars, restarter>>

\* c.conn = conn, onConnect, and the three goroutines of the connection.
Install ==
    /\ loop = "dialed"
    /\ loop' = "starting"
    /\ conn' = cur
    /\ reader' = [reader EXCEPT ![cur] = "reading"]
    /\ keeper' = [keeper EXCEPT ![cur] = "ticking"]
    /\ polling' = polling \cup {cur}
    /\ UNCHANGED <<done, stopping, cur, sock, errs, asked, streamVars,
                   restarter>>

StartFirst ==
    /\ loop = "starting"
    /\ \/ Ask /\ loop' = "serving"
       \/ AskFails /\ loop' = "startFailed"
    /\ UNCHANGED <<done, stopping, cur, conn, connVars, streamVars, restarter>>

StartFailed ==
    /\ loop = "startFailed"
    /\ loop' = "serving"
    /\ ScheduleRetry
    /\ UNCHANGED <<done, stopping, cur, conn, connVars, asked, restarter>>

\* The select of connect, close(connDone) and the first half of stopStreaming.
Leave ==
    /\ loop = "serving"
    /\ errs[cur] > 0 \/ done
    /\ loop' = "stopping"
    /\ EndRetry
    /\ UNCHANGED <<done, stopping, cur, conn, sock, reader, keeper, polling, errs, asked,
                   restarter>>

\* The second half of stopStreaming: no request when the client is stopped; the
\* outcome of the request is ignored.
SendStop ==
    /\ loop = "stopping"
    /\ loop' = "closing"
    /\ \/ done /\ UNCHANGED asked
       \/ ~done /\ (Ask \/ AskFails)
    /\ UNCHANGED <<done, stopping, cur, conn, connVars, streamVars, restarter>>

\* conn.Close() and onDisconnect.
CloseConn ==
    /\ loop = "closing"
    /\ loop' = "pause"
    /\ sock' = ClosedSock
    /\ cur' = None
    /\ UNCHANGED <<done, stopping, conn, reader, keeper, polling, errs, asked,
                   streamVars, restarter>>

\* The reconnect interval, or Stop.
PauseEnds ==
    /\ loop = "pause"
    /\ loop' = IF done THEN "ended" ELSE "top"
    /\ UNCHANGED <<done, stopping, cur, conn, connVars, asked, streamVars, restarter>>

ConnectLoop ==
    \/ LoopTop \/ DialFails \/ (\E c \in Conns : DialSucceeds(c)) \/ Install
    \/ StartFirst \/ StartFailed \/ Leave \/ SendStop \/ CloseConn \/ PauseEnds
-----------------------------------------------------------------------------
(* The goroutines of a connection                                          *)

\* An answer to a streaming request arrives; it may have been received before
\* the socket was closed.
ReadAnswer(c, answer) ==
    /\ reader[c] = "reading"
    /\ asked[c] > 0
    /\ reader' = [reader EXCEPT ![c] = answer]
    /\ asked' = [asked EXCEPT ![c] = @ - 1]
    /\ UNCHANGED <<done, stopping, loop, cur, conn, sock, keeper, polling, errs,
                   streamVars, restarter>>

\* handleResponse for PUT_STREAMING.
HandleAnswer(c) ==
    /\ reader[c] \in Answers
    /\ reader' = [reader EXCEPT ![c] = "reading"]
    /\ IF reader[c] = "failed" THEN ScheduleRetry ELSE EndRetry
    /\ UNCHANGED <<done, stopping, loop, cur, conn, sock, keeper, polling, errs,
                   asked, restarter>>

ReadFails(c) ==
    /\ reader[c] = "reading"
    /\ sock[c] \in {"reset", "closed"}
    /\ reader' = [reader EXCEPT ![c] = "reporting"]
    /\ UNCHANGED <<done, stopping, loop, cur, conn, sock, keeper, polling, errs,
                   asked, streamVars, restarter>>

\* errCh <- err; return.  Nobody reads the answers still to come.
ReaderReports(c) ==
    /\ reader[c] = "reporting"
    /\ errs[c] < ErrCap
    /\ reader' = [reader EXCEPT ![c] = "ended"]
    /\ errs' = [errs EXCEPT ![c] = @ + 1]
    /\ asked' = [asked EXCEPT ![c] = 0]
    /\ UNCHANGED <<done, stopping, loop, cur, conn, sock, keeper, polling, streamVars,
                   restarter>>

KeeperFails(c) ==
    /\ keeper[c] = "ticking"
    /\ KeepaliveFails(c)
    /\ keeper' = [keeper EXCEPT ![c] = "reporting"]
    /\ UNCHANGED <<done, stopping, loop, cur, conn, sock, reader, polling, errs,
                   asked, streamVars, restarter>>

KeeperReports(c) ==
    /\ keeper[c] = "reporting"
    /\ errs[c] < ErrCap
    /\ keeper' = [keeper EXCEPT ![c] = AfterReport(c)]
    /\ errs' = [errs EXCEPT ![c] = @ + 1]
    /\ UNCHANGED <<done, stopping, loop, cur, conn, sock, reader, polling, asked,
                   streamVars, restarter>>

KeeperStops(c) ==
    /\ keeper[c] = "ticking"
    /\ done
    /\ keeper' = [keeper EXCEPT ![c] = "ended"]
    /\ UNCHANGED <<done, stopping, loop, cur, conn, sock, reader, polling, errs,
                   asked, streamVars, restarter>>

PollerStops(c) ==
    /\ c \in polling
    /\ ConnDone(c) \/ done
    /\ polling' = polling \ {c}
    /\ UNCHANGED <<done, stopping, loop, cur, conn, sock, reader, keeper, errs,
                   asked, streamVars, restarter>>

Connection(c) ==
    \/ (\E answer \in Answers : ReadAnswer(c, answer)) \/ HandleAnswer(c)
    \/ ReadFails(c) \/ ReaderReports(c)
    \/ KeeperFails(c) \/ KeeperReports(c) \/ KeeperStops(c) \/ PollerStops(c)
-----------------------------------------------------------------------------
(* streamRetryLoop                                                         *)

\* The interval has passed, or Stop.
RetryWakes(l) ==
    /\ retry[l] = "sleeping"
    /\ retry' = [retry EXCEPT ![l] = IF SeesDone \/ ~retrying THEN "none" ELSE "sending"]
    /\ UNCHANGED <<done, stopping, loop, cur, conn, connVars, asked, retrying, restarter>>

RetrySends(l) ==
    /\ retry[l] = "sending"
    /\ \/ Ask /\ retry' = [retry EXCEPT ![l] = "waiting"]
       \/ AskFails /\ retry' = [retry EXCEPT ![l] = AfterSendError]
    /\ UNCHANGED <<done, stopping, loop, cur, conn, connVars, retrying, restarter>>

\* The time for an answer has passed, or Stop.
RetryLooks(l) ==
    /\ retry[l] = "waiting"
    /\ retry' = [retry EXCEPT ![l] = IF SeesDone \/ ~retrying THEN "none" ELSE "sleeping"]
    /\ UNCHANGED <<done, stopping, loop, cur, conn, connVars, asked, retrying, restarter>>

RetryLoop(l) == RetryWakes(l) \/ RetrySends(l) \/ RetryLooks(l)
-----------------------------------------------------------------------------
(* Calls from the owner of the client, and the network                     *)

\* RestartStreaming, by the relay's disconnect callback or the watchdog.
Restart ==
    /\ restarter = "idle"
    /\ \/ Ask /\ UNCHANGED restarter
       \/ AskFails /\ restarter' = "failed"
    /\ UNCHANGED <<done, stopping, loop, cur, conn, connVars, streamVars>>

RestartFailed ==
    /\ restarter = "failed"
    /\ restarter' = "idle"
    /\ ScheduleRetry
    /\ UNCHANGED <<done, stopping, loop, cur, conn, connVars, asked>>

\* SetSleepMode(false) starts the stream again after a delay unless the client
\* was stopped meanwhile; the outcome of the request is ignored.
DelayedStart ==
    /\ ~done
    /\ Ask
    /\ UNCHANGED <<done, stopping, loop, cur, conn, connVars, streamVars, restarter>>

\* Stop: close(c.done), then close the connection of the moment; it then waits
\* for the goroutines, for a limited time.
Stop ==
    /\ ~done
    /\ done' = TRUE
    /\ stopping' = TRUE
    /\ UNCHANGED <<loop, cur, conn, connVars, asked, streamVars, restarter>>

StopCloses ==
    /\ stopping
    /\ stopping' = FALSE
    /\ sock' = IF conn = None THEN sock ELSE [sock EXCEPT ![conn] = "closed"]
    /\ UNCHANGED <<done, loop, cur, conn, reader, keeper, polling, errs, asked,
                   streamVars, restarter>>

\* The peer or the network closes a connection, or it goes silent: no data, no
\* error, and what is sent is lost.
ConnectionLost(c) ==
    /\ sock[c] = "open"
    /\ \E lost \in {"reset", "silent"} : sock' = [sock EXCEPT ![c] = lost]
    /\ UNCHANGED <<done, stopping, loop, cur, conn, reader, keeper, polling, errs,
                   asked, streamVars, restarter>>
-----------------------------------------------------------------------------
Next ==
    \/ ConnectLoop
    \/ \E c \in Conns : Connection(c) \/ ConnectionLost(c)
    \/ \E l \in Loops : RetryLoop(l)
    \/ Restart \/ RestartFailed \/ DelayedStart \/ Stop \/ StopCloses

Spec == Init /\ [][Next]_vars

(* The scheduler runs every goroutine; its timers fire, its dials end (they *)
(* have a deadline) and a lost connection shows.  What waits for a free     *)
(* identity of a retry loop gets it.  Nothing makes the camera answer, the  *)
(* owner call, or the network fail.                                         *)
Fairness ==
    /\ WF_vars(LoopTop \/ DialFails \/ Install \/ StartFirst \/ Leave \/ SendStop
               \/ CloseConn \/ PauseEnds)
    /\ SF_vars(StartFailed)
    /\ \A c \in Conns :
          /\ SF_vars(HandleAnswer(c))
          /\ WF_vars(ReadFails(c) \/ ReaderReports(c))
          /\ WF_vars(KeeperFails(c) \/ KeeperReports(c) \/ KeeperStops(c))
          /\ WF_vars(PollerStops(c))
    /\ \A l \in Loops : WF_vars(RetryLoop(l))
    /\ SF_vars(RestartFailed)
    /\ WF_vars(StopCloses)

FairSpec == Spec /\ Fairness
-----------------------------------------------------------------------------
(* Properties                                                              *)

\* The connection the manager knows of, from onConnect to onDisconnect.
LinkPhase ==
    CASE loop \in {"starting", "startFailed"} -> "connected"
      [] loop = "serving" -> "serving"
      [] loop \in {"stopping", "closing"} -> "leaving"
      [] OTHER -> "down"

Link == INSTANCE CameraLink WITH
    phase <- LinkPhase, running <- {l \in Loops : retry[l] # "none"}, stopped <- done

\* The client is the link the manager takes it for: the connections it reports come
\* one after the other, and each ends with its retries called off.
ClientIsLink == Link!Spec

\* The calls its owner makes: the client of this module has been started.
Use == INSTANCE ClientUse WITH
    Clients <- {"client"},
    stage <- [k \in {"client"} |->
                CASE ~done -> "running" [] done /\ stopping -> "stopping" [] OTHER -> "stopped"]

\* Nothing is called of a client but what the manager calls.
IsUsedSo == [][Use!Next]_(Use!vars)

\* The flag that makes scheduleStreamRetry do nothing is true only while a loop
\* runs that will ask again: otherwise no failure would ever start one.
RetryFlagHasLoop == retrying /\ ~done => \E l \in Loops : retry[l] # "none"

\* No goroutine waits to report an error nobody will receive: errCh has room
\* for every report of a connection, received or not.
ReportsFit ==
    \A c \in Conns :
        reader[c] = "reporting" \/ keeper[c] = "reporting" => errs[c] < ErrCap

\* connect never leaves a socket behind: an unclosed one is its current one.
NoSocketLeaks ==
    \A c \in Conns : sock[c] \in {"open", "silent", "reset"} => c = cur

\* A half-open connection, which shows no error, is given up.
HalfOpenIsDropped ==
    \A c \in Conns : sock[c] = "silent" ~> sock[c] = "closed"

\* Every goroutine of a closed connection ends, also when the client goes on.
ConnectionsReclaimed ==
    \A c \in Conns : sock[c] = "closed" ~> Reclaimed(c)

\* After Stop the connection loop, the retry loops and the goroutines of the
\* connections end, also those started while or after Stop ran.
StopEndsGoroutines ==
    /\ done ~> loop = "ended"
    /\ \A l \in Loops : (done /\ retry[l] # "none") ~> retry[l] = "none"
    /\ \A c \in Conns : done ~> Reclaimed(c)

\* On a working connection a stream that failed is asked for again, until the
\* camera agrees or sleeps.
FailedStreamIsAskedAgain ==
    retrying ~> \/ ~retrying \/ done
                \/ \E l \in Loops : retry[l] = "waiting"
                \/ conn = None \/ sock[conn] # "open"

\* client.go:632-634 and 658: the retry loop; one, that asks every 5 seconds.  No run
\* checks it, for it fails: the flag may be reset and set again while a loop sleeps.
OneRetryLoop == Cardinality({l \in Loops : retry[l] # "none"}) <= 1
=============================================================================
