------------------------------ MODULE Manager ------------------------------
(***************************************************************************)
(* The manager of the cameras, src/internal/baby/manager.go: Start, Stop,  *)
(* Restart and SetRTMPToken, the goroutines that call them (main and the   *)
(* dashboard's handlers for the sign-in and for a new RTMP token), the     *)
(* loops Start leaves behind (message poll, stream watchdog), and as much  *)
(* of the camera clients and of the push receiver as Start and Stop touch. *)
(*                                                                         *)
(* Sections under m.mu are one step.  A close of a closed channel panics:  *)
(* in main that ends the process, in a handler net/http recovers it and    *)
(* m.mu stays locked; either way the manager does nothing more.            *)
(*                                                                         *)
(* Clients, Loops and Chans are identities, used again when nothing refers *)
(* to the earlier holder any more; each bounds how many exist at once.     *)
(***************************************************************************)

CONSTANTS
    Callers,    \* goroutines that call the manager
    Babies,     \* the babies the cloud may list
    Clients,    \* identities of camera clients
    Loops,      \* identities of the goroutines of a loop
    Chans,      \* identities of stop channels
    Tokens,     \* RTMP tokens
    None        \* no client; the token of a file that could not be written

ASSUME NoneAssumption == None \notin Clients \cup Tokens \cup Babies \cup Chans

VARIABLES
    started,     \* m.started
    stopCh,      \* m.stopCh
    closed,      \* the stop channels that are closed
    babies,      \* m.babies: the client of a baby
    rtmpToken,   \* m.rtmpToken
    at,          \* where a caller is
    again,       \* the caller is in Restart: Start follows Stop
    todo,        \* babies a Start has not started yet
    uid,         \* the baby in startBaby
    hand,        \* the client in startBaby
    taken,       \* the local variable stopping of Stop, until its clients are
                 \* being stopped
    up,          \* clients that have been started
    down,        \* clients that have been stopped
    ending,      \* clients in whose Stop a goroutine is
    tokenOf,     \* the token in a client's rtmpURL
    loop,        \* what a loop is, where it is and the channel it waits on
    push,        \* the push receiver: stopped, or running with or without listener
    pushActive,  \* m.pushActive
    fileToken,   \* the token in the file
    relayToken,  \* the token the relay accepts
    newToken,    \* the token a handler has generated
    overlapped,  \* history: calls of two goroutines have overlapped
    panicked     \* history: a closed channel was closed

core == <<started, stopCh, closed>>
caller == <<at, again, newToken, overlapped>>
starting == <<todo, uid, hand>>
clients == <<up, down, ending, tokenOf>>
pushVars == <<push, pushActive>>
tokens == <<rtmpToken, fileToken, relayToken>>
vars == <<core, babies, caller, starting, taken, clients, loop, pushVars, tokens,
          panicked>>

Places == {"idle", "relay", "manager", "stop", "stopPush", "stopClients", "waiting",
           "start", "fetching", "starting", "built", "registered", "push", "watchdog"}
Kinds == {"poll", "watchdog"}
Ended == [kind |-> "poll", at |-> "ended", ch |-> None]

TypeOK ==
    /\ started \in BOOLEAN
    /\ stopCh \in Chans /\ closed \subseteq Chans
    /\ babies \in [Babies -> Clients \cup {None}]
    /\ at \in [Callers -> Places]
    /\ again \in [Callers -> BOOLEAN]
    /\ todo \in [Callers -> SUBSET Babies]
    /\ \A c \in Callers : todo[c] # {} => at[c] \in {"starting", "built", "registered"}
    /\ uid \in [Callers -> Babies \cup {None}]
    /\ hand \in [Callers -> Clients \cup {None}]
    /\ \A c \in Callers : (hand[c] = None) <=> at[c] \notin {"built", "registered"}
    /\ taken \in [Callers -> SUBSET Clients]
    /\ \A c \in Callers : taken[c] # {} => at[c] \in {"stopPush", "stopClients"}
    /\ up \subseteq Clients /\ down \subseteq Clients /\ ending \subseteq Clients
    /\ tokenOf \in [Clients -> Tokens]
    /\ loop \in [Loops -> [kind : Kinds, at : {"top", "waiting", "ended"},
                           ch : Chans \cup {None}]]
    /\ push \in {"stopped", "deaf", "listening"} /\ pushActive \in BOOLEAN
    /\ rtmpToken \in Tokens /\ relayToken \in Tokens
    /\ fileToken \in Tokens \cup {None}
    /\ newToken \in [Callers -> Tokens]
    /\ overlapped \in BOOLEAN /\ panicked \in BOOLEAN

NoBabies == [b \in Babies |-> None]

Init ==
    /\ started = FALSE
    /\ stopCh \in Chans /\ closed = {}
    /\ babies = NoBabies
    /\ at = [c \in Callers |-> "idle"]
    /\ again = [c \in Callers |-> FALSE]
    /\ todo = [c \in Callers |-> {}]
    /\ uid = [c \in Callers |-> None]
    /\ hand = [c \in Callers |-> None]
    /\ taken = [c \in Callers |-> {}]
    /\ up = {} /\ down = {} /\ ending = {}
    /\ loop = [l \in Loops |-> Ended]
    /\ push = "stopped" /\ pushActive = FALSE
    /\ rtmpToken \in Tokens
    /\ fileToken = rtmpToken /\ relayToken = rtmpToken
    /\ newToken = [c \in Callers |-> rtmpToken]
    /\ tokenOf = [k \in Clients |-> rtmpToken]
    /\ overlapped = FALSE /\ panicked = FALSE
-----------------------------------------------------------------------------
(* A definition that nothing uses is a mutant of the one that follows it.  *)

Registered == {babies[b] : b \in Babies} \ {None}
Running == up \ down
Alive(l) == loop[l].at # "ended"

UnusedChan(ch) == ch # stopCh /\ \A l \in Loops : loop[l].at = "waiting" => loop[l].ch # ch

UnusedClient(k) ==
    /\ k \notin Registered \cup Running \cup ending
    /\ \A c \in Callers : k # hand[c] /\ k \notin taken[c]

KeepChan == UNCHANGED <<stopCh, closed>>

\* m.stopCh = make(chan struct{})
NewChan == \E ch \in Chans : /\ UnusedChan(ch)
                             /\ stopCh' = ch
                             /\ closed' = closed \ {ch}

KeepOpen == UNCHANGED <<closed, panicked>>

\* close(m.stopCh)
CloseChan ==
    /\ panicked' = (stopCh \in closed)
    /\ closed' = closed \cup {stopCh}

\* Start closes the channel when it cannot get the babies.
CloseOnFailure == CloseChan

StillStarted == started

\* m.started after Stop.
StoppedNow == FALSE

KeptBabies == babies

\* m.babies after Stop.
EmptiedBabies == NoBabies

TakenAfterReset == {}

\* stopping := m.babies, before the map is replaced.
ToStop == Registered

KeepsRunning == push

\* What PushReceiver.Stop leaves, running or not.
PushStopped == "stopped"

\* SetRTMPToken: the clients keep the URL they were made with.
TellClients == "idle"

\* ... and are replaced if the manager has been started.
AfterSetToken == IF started THEN "stop" ELSE "idle"

\* After startBaby, Start goes on with the next baby.
AfterBaby(c) == "starting"

\* Restart goes on with Start.
AfterStop(c) == IF again[c] THEN "start" ELSE "idle"

Spawn(kind) ==
    \E l \in Loops : /\ ~Alive(l)
                     /\ loop' = [loop EXCEPT ![l] = [kind |-> kind, at |-> "top", ch |-> None]]

Go(c, place) == at' = [at EXCEPT ![c] = place]
-----------------------------------------------------------------------------
(* The callers                                                             *)

Begin(c, place, start) ==
    /\ at[c] = "idle"
    /\ Go(c, place)
    /\ again' = [again EXCEPT ![c] = start]
    /\ overlapped' = (overlapped \/ \E d \in Callers : at[d] # "idle")
    /\ UNCHANGED <<core, babies, starting, taken, clients, loop, pushVars,
                   rtmpToken, relayToken, panicked>>

\* startOrRestartManager, of main and of a sign-in on the dashboard.
SignIn(c) ==
    /\ Begin(c, IF started THEN "stop" ELSE "start", TRUE)
    /\ UNCHANGED <<newToken, fileToken>>

\* main before it exits.
Shutdown(c) ==
    /\ Begin(c, "stop", FALSE)
    /\ UNCHANGED <<newToken, fileToken>>

\* A new RTMP token is generated and written to its file ...
Regenerate(c, t) ==
    /\ Begin(c, "relay", TRUE)
    /\ newToken' = [newToken EXCEPT ![c] = t]
    /\ fileToken' = t

\* ... which may fail with the file truncated: the request ends here.
WriteFails ==
    /\ fileToken' = None
    /\ UNCHANGED <<core, babies, caller, starting, taken, clients, loop, pushVars,
                   rtmpToken, relayToken, panicked>>

\* rtmp.Server.SetToken
SetRelayToken(c) ==
    /\ at[c] = "relay"
    /\ Go(c, "manager")
    /\ relayToken' = newToken[c]
    /\ UNCHANGED <<core, babies, again, newToken, overlapped, starting, taken,
                   clients, loop, pushVars, rtmpToken, fileToken, panicked>>

SetRTMPToken(c) ==
    /\ at[c] = "manager"
    /\ Go(c, AfterSetToken)
    /\ rtmpToken' = newToken[c]
    /\ UNCHANGED <<core, babies, again, newToken, overlapped, starting, taken,
                   clients, loop, pushVars, fileToken, relayToken, panicked>>
-----------------------------------------------------------------------------
(* Stop                                                                    *)

BeginStop(c) ==
    /\ at[c] = "stop"
    /\ \/ /\ ~started
          /\ Go(c, AfterStop(c))
          /\ UNCHANGED <<core, taken, babies, panicked>>
       \/ /\ started
          /\ Go(c, "stopPush")
          /\ CloseChan
          /\ started' = StoppedNow
          /\ taken' = [taken EXCEPT ![c] = ToStop]
          /\ babies' = EmptiedBabies
          /\ UNCHANGED stopCh
    /\ UNCHANGED <<again, newToken, overlapped, starting, clients, loop, pushVars, tokens>>

StopPush(c) ==
    /\ at[c] = "stopPush"
    /\ Go(c, "stopClients")
    /\ pushActive' = FALSE
    /\ push' = PushStopped
    /\ UNCHANGED <<core, babies, again, newToken, overlapped, starting, taken,
                   clients, loop, tokens, panicked>>

\* A goroutine for every client ...
StopClients(c) ==
    /\ at[c] = "stopClients"
    /\ Go(c, "waiting")
    /\ ending' = ending \cup taken[c]
    /\ taken' = [taken EXCEPT ![c] = {}]
    /\ UNCHANGED <<core, babies, again, newToken, overlapped, starting, up, down,
                   tokenOf, loop, pushVars, tokens, panicked>>

\* ... calls its Stop; Stop of the manager waits for them, or 5 seconds.
ClientStops(k) ==
    /\ k \in ending
    /\ ending' = ending \ {k}
    /\ down' = down \cup {k}
    /\ UNCHANGED <<core, babies, caller, starting, taken, up, tokenOf, loop,
                   pushVars, tokens, panicked>>

StopReturns(c) ==
    /\ at[c] = "waiting"
    /\ Go(c, AfterStop(c))
    /\ UNCHANGED <<core, babies, again, newToken, overlapped, starting, taken,
                   clients, loop, pushVars, tokens, panicked>>
-----------------------------------------------------------------------------
(* Start                                                                   *)

BeginStart(c) ==
    /\ at[c] = "start"
    /\ \/ started /\ Go(c, "idle") /\ UNCHANGED core
       \/ /\ ~started
          /\ Go(c, "fetching")
          /\ started' = TRUE
          /\ NewChan
    /\ UNCHANGED <<babies, again, newToken, overlapped, starting, taken, clients,
                   loop, pushVars, tokens, panicked>>

\* FetchBabies fails and the session holds no list of babies.
FetchFails(c) ==
    /\ at[c] = "fetching"
    /\ Go(c, "idle")
    /\ started' = FALSE
    /\ CloseOnFailure
    /\ UNCHANGED <<stopCh, babies, again, newToken, overlapped, starting, taken,
                   clients, loop, pushVars, tokens>>

Fetched(c) ==
    /\ at[c] = "fetching"
    /\ Go(c, "starting")
    /\ \E list \in SUBSET Babies : todo' = [todo EXCEPT ![c] = list]
    /\ babies' = NoBabies
    /\ UNCHANGED <<core, again, newToken, overlapped, uid, hand, taken, clients,
                   loop, pushVars, tokens, panicked>>

\* startBaby: a client with the URL of the moment ...
BuildClient(c) ==
    /\ at[c] = "starting"
    /\ \E b \in todo[c], k \in Clients :
          /\ UnusedClient(k)
          /\ todo' = [todo EXCEPT ![c] = @ \ {b}]
          /\ uid' = [uid EXCEPT ![c] = b]
          /\ hand' = [hand EXCEPT ![c] = k]
          /\ tokenOf' = [tokenOf EXCEPT ![k] = rtmpToken]
          /\ up' = up \ {k} /\ down' = down \ {k}
    /\ Go(c, "built")
    /\ UNCHANGED <<core, babies, again, newToken, overlapped, taken, ending, loop,
                   pushVars, tokens, panicked>>

\* ... is registered under the lock ...
Register(c) ==
    /\ at[c] = "built"
    /\ Go(c, "registered")
    /\ babies' = [babies EXCEPT ![uid[c]] = hand[c]]
    /\ UNCHANGED <<core, again, newToken, overlapped, starting, taken, clients,
                   loop, pushVars, tokens, panicked>>

\* ... and started without it.
StartClient(c) ==
    /\ at[c] = "registered"
    /\ Go(c, AfterBaby(c))
    /\ up' = up \cup {hand[c]}
    /\ hand' = [hand EXCEPT ![c] = None]
    /\ uid' = [uid EXCEPT ![c] = None]
    /\ UNCHANGED <<core, babies, again, newToken, overlapped, todo, taken, down,
                   ending, tokenOf, loop, pushVars, tokens, panicked>>

BabiesStarted(c) ==
    /\ at[c] = "starting"
    /\ todo[c] = {}
    /\ Go(c, "push")
    /\ UNCHANGED <<core, babies, again, newToken, overlapped, starting, taken,
                   clients, loop, pushVars, tokens, panicked>>

\* PushReceiver.Start; without credentials for a receiver, or when it fails,
\* messages are polled.  It may fail with running already set.
StartPush(c) ==
    /\ at[c] = "push"
    /\ Go(c, "watchdog")
    /\ \/ /\ push' = IF push = "stopped" THEN "listening" ELSE push
          /\ pushActive' = TRUE
          /\ UNCHANGED loop
       \/ /\ push' \in {push, IF push = "stopped" THEN "deaf" ELSE push}
          /\ pushActive' = FALSE
          /\ Spawn("poll")
    /\ UNCHANGED <<core, babies, again, newToken, overlapped, starting, taken,
                   clients, tokens, panicked>>

StartWatchdog(c) ==
    /\ at[c] = "watchdog"
    /\ Go(c, "idle")
    /\ Spawn("watchdog")
    /\ UNCHANGED <<core, babies, again, newToken, overlapped, starting, taken,
                   clients, pushVars, tokens, panicked>>
-----------------------------------------------------------------------------
(* The loops                                                               *)

loopOnly == <<core, babies, caller, starting, taken, clients, pushVars, tokens, panicked>>

\* select reads m.stopCh ...
LoopSelects(l) ==
    /\ loop[l].at = "top"
    /\ loop' = [loop EXCEPT ![l].at = "waiting", ![l].ch = stopCh]
    /\ UNCHANGED loopOnly

\* ... and the ticker may win although the channel is closed; a round of
\* polling or of the watchdog follows.
LoopTicks(l) ==
    /\ loop[l].at = "waiting"
    /\ loop' = [loop EXCEPT ![l].at = "top", ![l].ch = None]
    /\ UNCHANGED loopOnly

LoopEnds(l) ==
    /\ loop[l].at = "waiting"
    /\ loop[l].ch \in closed
    /\ loop' = [loop EXCEPT ![l] = Ended]
    /\ UNCHANGED loopOnly
-----------------------------------------------------------------------------
Call(c) ==
    SignIn(c) \/ Shutdown(c) \/ \E t \in Tokens : Regenerate(c, t)

Step(c) ==
    \/ SetRelayToken(c) \/ SetRTMPToken(c)
    \/ BeginStop(c) \/ StopPush(c) \/ StopClients(c) \/ StopReturns(c)
    \/ BeginStart(c) \/ FetchFails(c) \/ Fetched(c) \/ BabiesStarted(c)
    \/ BuildClient(c) \/ Register(c) \/ StartClient(c)
    \/ StartPush(c) \/ StartWatchdog(c)

LoopStep(l) == LoopSelects(l) \/ LoopTicks(l) \/ LoopEnds(l)

Next ==
    /\ ~panicked
    /\ \/ \E c \in Callers : Call(c) \/ Step(c)
       \/ WriteFails
       \/ \E k \in Clients : ClientStops(k)
       \/ \E l \in Loops : LoopStep(l)

Spec == Init /\ [][Next]_vars
-----------------------------------------------------------------------------
(* Properties                                                              *)

Idle == \A c \in Callers : at[c] = "idle"

\* CameraClient.Stop tests its done channel and closes it without a lock, so it
\* must not run twice at a time: however calls overlap, a client is taken by one
\* Stop only, and no command looks up a client that was stopped.
ClientsStopOnce ==
    \A c \in Callers :
        /\ taken[c] \cap (ending \cup down \cup Registered) = {}
        /\ \A d \in Callers \ {c} : taken[c] \cap taken[d] = {}
        /\ Registered \cap (ending \cup down) = {}

\* However calls overlap, a loop waits for a channel that is closed or that the
\* next Stop will close; a loop that missed a Stop, because its ticker won or
\* it was polling, is ended by a later one.
LoopsCanEnd ==
    \A l \in Loops : loop[l].at = "waiting" =>
        loop[l].ch \in closed \/ (started /\ loop[l].ch = stopCh)

\* The push receiver as the manager uses it.
Receiver == INSTANCE PushService WITH
    active <- pushActive,
    calling <- IF \E c \in Callers : at[c] = "push" THEN "starting" ELSE "idle"

\* When calls do not overlap, the manager calls the receiver as PushReceiver expects
\* to be called, one Start or Stop at a time, and sees no more than it promises.
ReceiverIsUsed == [][~overlapped' => Receiver!Next \/ UNCHANGED Receiver!vars]_vars

\* What the manager has called of its clients.
Stage(k) ==
    CASE k \in ending                       -> "stopping"
      [] k \in down \ ending                -> "stopped"
      [] k \in up \ (down \cup ending)      -> "running"
      [] k \notin up \cup down \cup ending  -> IF \E c \in Callers : hand[c] = k
                                              THEN "built" ELSE "none"

Use == INSTANCE ClientUse WITH stage <- [k \in Clients |-> Stage(k)]

\* When calls do not overlap, every client is started once, and stopped by one
\* goroutine after that.  No run checks it.
ClientsAreUsed == [][~overlapped' => Use!Next \/ UNCHANGED Use!vars]_vars

\* When calls do not overlap, every close of the stop channel is the first.
NoPanic == ~overlapped => ~panicked

\* When calls do not overlap, a running client is registered or is about to be
\* stopped: no camera connection is left without anyone who could stop it.
RunningIsOwned ==
    ~overlapped =>
        Running \subseteq Registered \cup ending \cup UNION {taken[c] : c \in Callers}

\* When calls do not overlap, a started manager has a watchdog no closed channel
\* will end, and alerts arrive: the push receiver listens, or a poll loop runs.
StartedIsSupervised ==
    LET lives(kind) == \E l \in Loops : /\ Alive(l) /\ loop[l].kind = kind
                                        /\ loop[l].ch \notin closed
    IN ~overlapped /\ Idle /\ started =>
        /\ lives("watchdog")
        /\ IF pushActive THEN push = "listening" ELSE lives("poll")

\* When calls do not overlap, nothing of a stopped manager goes on but its loops.
StoppedIsQuiet ==
    ~overlapped /\ Idle /\ ~started =>
        push = "stopped" /\ Registered = {} /\ Running \subseteq ending

\* When calls do not overlap, file, relay, manager and the URLs of the cameras
\* have the same token; a file that could not be written counts as none.
TokensAgree ==
    ~overlapped /\ Idle =>
        /\ fileToken \in {rtmpToken, None} /\ relayToken = rtmpToken
        /\ \A k \in Registered : tokenOf[k] = rtmpToken
=============================================================================
