----------------------------- MODULE PushReceiver -----------------------------
(***************************************************************************)
(* The receiver of push notifications, src/internal/nanit/push.go: Start   *)
(* and Stop, the credentials it registers and keeps in a file, and its     *)
(* listenLoop, of which a Stop that gave up waiting may leave one behind.  *)
(*                                                                         *)
(* Start and Stop are called one at a time (Manager shows when they are).  *)
(* The services behind it, Firebase and the cloud of Nanit, are what       *)
(* the code uses of them: they register a device and may fail.  The count  *)
(* of stale notifications, which is only logged, is left out.              *)
(***************************************************************************)
EXTENDS FiniteSets, Naturals

CONSTANTS
    Devices,    \* devices Firebase can register; bounds the registrations
    Loops,      \* goroutines running listenLoop; bounds how many run at once
    None        \* no credentials, no client

\* What the file keeps: a device of Firebase, and if the cloud gave it an id.
Credentials == [device: Devices, known: BOOLEAN]

ASSUME NoneAssumption == None \notin Loops \cup Credentials

VARIABLES
    call,       \* the call the manager is in, and where it is
    found,      \* the credentials Start has at hand
    active,     \* pushActive of the manager
    creds,      \* p.creds
    file,       \* the credentials in the file; None if they cannot be used
    cloud,      \* devices that get the notifications of the account signed in
    running,    \* p.running, and p.stopCh is open
    spawned,    \* the Start that set running has started a loop
    loop,       \* where a listenLoop is
    stale,      \* loops that may see a closed channel: they have seen a Stop
    client,     \* the loop whose client is p.client
    waiter,     \* goroutines Stop has left in wg.Wait
    gaveUp,     \* history: a Stop gave up on what goes on still
    astray      \* history: credentials were left unregistered, see TokenIsKnown

caller == <<call, found, active>>
keys == <<creds, file, cloud, astray>>
listener == <<loop, stale, client, waiter, gaveUp>>
vars == <<caller, keys, running, spawned, listener>>

Calls == {"idle", "loading", "saving", "locking", "registering", "recording",
          "spawning", "stopping"}
LoopStates == {"none", "top", "made", "stored", "listening", "closed", "waiting"}
Alive == {l \in Loops : loop[l] # "none"}

TypeOK ==
    /\ call \in Calls /\ found \in Credentials \cup {None} /\ active \in BOOLEAN
    /\ creds \in Credentials \cup {None} /\ file \in Credentials \cup {None}
    /\ cloud \subseteq Devices
    /\ running \in BOOLEAN /\ spawned \in BOOLEAN
    /\ loop \in [Loops -> LoopStates] /\ stale \subseteq Loops
    /\ client \in Loops \cup {None}
    /\ waiter \in {"none", "blocked", "woken"}
    /\ gaveUp \in BOOLEAN /\ astray \in BOOLEAN

Init ==
    /\ call = "idle" /\ found = None /\ active = FALSE
    /\ creds = None /\ file = None /\ cloud = {} /\ astray = FALSE
    /\ running = FALSE /\ spawned = FALSE
    /\ loop = [l \in Loops |-> "none"] /\ stale = {} /\ client = None
    /\ waiter = "none" /\ gaveUp = FALSE
-----------------------------------------------------------------------------
(* Helpers.  A definition that nothing uses is a mutant of the one that    *)
(* follows it.                                                             *)

\* A saved device is taken for registered.
RegisterNew == IF file # None THEN "spawning" ELSE "registering"

\* A device the cloud has given an id is not registered again.
AfterLock == IF found.known THEN "spawning" ELSE "registering"

EndsOnError == {"none"}

\* StartListening returned, with an error or without.
AfterListening == {"top", "waiting"}

NobodyTold == {}

\* Loops that find the channel Stop closed.
Told == Alive

AtOnce == TRUE

\* What Stop waits for.
Waited == waiter = "none"

\* What saveCredentials leaves: the new file, the old, or one cut short.
Saved(c) == {c, file, None}

Return(ok) == call' = "idle" /\ found' = None /\ active' = ok
-----------------------------------------------------------------------------
(* Start                                                                   *)

BeginStart ==
    /\ call = "idle" /\ call' = "loading"
    /\ UNCHANGED <<found, active, keys, running, spawned, listener>>

Load ==
    /\ call = "loading" /\ file # None
    /\ call' = "locking" /\ found' = file
    /\ UNCHANGED <<active, keys, running, spawned, listener>>

Register(d) ==
    /\ call = "loading" /\ file = None
    /\ d \notin cloud \cup {c.device : c \in {creds} \ {None}}
    /\ call' = "saving" /\ found' = [device |-> d, known |-> FALSE]
    /\ UNCHANGED <<active, keys, running, spawned, listener>>

RegisterFails ==
    /\ call = "loading" /\ file = None
    /\ Return(FALSE)
    /\ UNCHANGED <<keys, running, spawned, listener>>

Save ==
    /\ call = "saving"
    /\ call' = "locking" /\ file' \in Saved(found)
    /\ UNCHANGED <<found, active, creds, cloud, astray, running, spawned, listener>>

\* The receiver runs already: only the credentials are replaced.
AlreadyRunning ==
    /\ call = "locking" /\ running
    /\ creds' = found /\ astray' = (astray \/ ~found.known)
    /\ Return(TRUE)
    /\ UNCHANGED <<file, cloud, running, spawned, listener>>

SetRunning ==
    /\ call = "locking" /\ ~running
    /\ creds' = found /\ running' = TRUE
    /\ call' = AfterLock
    /\ UNCHANGED <<found, active, file, cloud, astray, spawned, listener>>

\* registerWithNanit; an answer may lack the id.
RegisterWithNanit ==
    /\ call = "registering"
    /\ cloud' = cloud \cup {creds.device} /\ astray' = FALSE
    /\ \E known \in BOOLEAN : creds' = [creds EXCEPT !.known = known]
    /\ call' = "recording"
    /\ UNCHANGED <<found, active, file, running, spawned, listener>>

\* The request fails, or its answer is lost; the receiver stays running.
NanitFails ==
    /\ call = "registering"
    /\ cloud' \in {cloud, cloud \cup {creds.device}}
    /\ Return(FALSE)
    /\ UNCHANGED <<creds, file, astray, running, spawned, listener>>

Record ==
    /\ call = "recording"
    /\ call' = "spawning" /\ file' \in Saved(creds)
    /\ UNCHANGED <<found, active, creds, cloud, astray, running, spawned, listener>>

Spawn(l) ==
    /\ call = "spawning" /\ loop[l] = "none"
    /\ loop' = [loop EXCEPT ![l] = "top"] /\ spawned' = TRUE
    /\ Return(TRUE)
    /\ UNCHANGED <<keys, running, stale, client, waiter, gaveUp>>
-----------------------------------------------------------------------------
(* Stop                                                                    *)

StopIdle ==
    /\ call = "idle" /\ ~running
    /\ Return(FALSE)
    /\ UNCHANGED <<keys, running, spawned, listener>>

\* Close ends the connection of a client; one that does not listen yet may ignore it.
CloseClient ==
    IF client \in Loops /\ loop[client] \in {"stored", "listening"}
    THEN \/ loop' = [loop EXCEPT ![client] = "closed"]
         \/ loop[client] = "stored" /\ loop' = loop
    ELSE loop' = loop

\* The flag, the channel and p.client, then a goroutine that waits for the loops.
BeginStop ==
    /\ call = "idle" /\ running
    /\ running' = FALSE /\ spawned' = FALSE
    /\ CloseClient /\ stale' = Told
    /\ call' = (IF Alive = {} THEN "idle" ELSE "stopping")
    /\ active' = FALSE
    /\ waiter' = IF Alive # {} /\ waiter = "none" THEN "blocked" ELSE waiter
    /\ UNCHANGED <<found, keys, client, gaveUp>>

StopReturns ==
    /\ call = "stopping" /\ Waited
    /\ Return(FALSE)
    /\ UNCHANGED <<keys, running, spawned, listener>>

\* After three seconds; the goroutine goes on waiting.
StopGivesUp ==
    /\ call = "stopping" /\ waiter # "none"
    /\ gaveUp' = TRUE
    /\ Return(FALSE)
    /\ UNCHANGED <<keys, running, spawned, loop, stale, client, waiter>>

WaiterReturns ==
    /\ waiter = "woken" /\ Alive = {}
    /\ waiter' = "none" /\ gaveUp' = FALSE
    /\ UNCHANGED <<caller, keys, running, spawned, loop, stale, client>>
-----------------------------------------------------------------------------
(* listenLoop and listen                                                   *)

Goes(l, places) == \E p \in places : loop' = [loop EXCEPT ![l] = p]

aside == <<caller, keys, running, spawned, gaveUp>>

SeesStop(l) ==
    /\ loop[l] \in {"top", "waiting"} /\ l \in stale
    /\ loop' = [loop EXCEPT ![l] = "none"] /\ stale' = stale \ {l}
    /\ waiter' = IF waiter = "blocked" /\ Alive = {l} THEN "woken" ELSE waiter
    /\ UNCHANGED <<aside, client>>

MakeClient(l) ==
    /\ loop[l] = "top" /\ running /\ Goes(l, {"made"})
    /\ UNCHANGED <<aside, stale, client, waiter>>

LoadKeysFails(l) ==
    /\ loop[l] = "made" /\ Goes(l, {"waiting"})
    /\ UNCHANGED <<aside, stale, client, waiter>>

Store(l) ==
    /\ loop[l] = "made" /\ Goes(l, {"stored"})
    /\ client' = l
    /\ UNCHANGED <<aside, stale, waiter>>

Connect(l) ==
    /\ loop[l] = "stored" /\ Goes(l, {"listening"} \cup AfterListening)
    /\ UNCHANGED <<aside, stale, client, waiter>>

ClosedReturns(l) ==
    /\ loop[l] = "closed" /\ Goes(l, AfterListening)
    /\ UNCHANGED <<aside, stale, client, waiter>>

\* After five seconds; the timer may win over a closed channel.
WaitEnds(l) ==
    /\ loop[l] = "waiting" /\ Goes(l, {"top"})
    /\ UNCHANGED <<aside, stale, client, waiter>>
-----------------------------------------------------------------------------
(* The world                                                               *)

ConnectionLost(l) ==
    /\ loop[l] = "listening" /\ Goes(l, AfterListening)
    /\ UNCHANGED <<aside, stale, client, waiter>>

\* Another account signs in, whose notifications no device of ours gets.
SignIn ==
    /\ cloud' = {} /\ astray' = TRUE
    /\ UNCHANGED <<caller, creds, file, running, spawned, listener>>

\* The process ends, perhaps while it writes the file, and starts again.
Crash ==
    /\ Return(FALSE) /\ creds' = None
    /\ file' \in {file} \cup IF call \in {"saving", "recording"} THEN {None} ELSE {}
    /\ running' = FALSE /\ spawned' = FALSE
    /\ loop' = [l \in Loops |-> "none"] /\ stale' = {} /\ client' = None
    /\ waiter' = "none" /\ gaveUp' = FALSE
    /\ UNCHANGED <<cloud, astray>>

\* A wait group that is used again before Wait has returned panics.
Panic == waiter = "woken" /\ Alive # {} /\ Crash
-----------------------------------------------------------------------------
Start ==
    \/ BeginStart \/ Load \/ (\E d \in Devices : Register(d)) \/ RegisterFails \/ Save
    \/ AlreadyRunning \/ SetRunning \/ RegisterWithNanit \/ NanitFails \/ Record
    \/ \E l \in Loops : Spawn(l)

Stop == StopIdle \/ BeginStop \/ StopReturns \/ StopGivesUp

Listen(l) ==
    \/ SeesStop(l) \/ MakeClient(l) \/ LoadKeysFails(l) \/ Store(l) \/ Connect(l)
    \/ ClosedReturns(l) \/ WaitEnds(l)

Next ==
    \/ Start \/ Stop \/ WaiterReturns \/ SignIn \/ Crash \/ Panic
    \/ \E l \in Loops : Listen(l) \/ ConnectionLost(l)

Spec == Init /\ [][Next]_vars

\* Goroutines run, and a closed client returns.
FairSpec == Spec /\ (\A l \in Loops : WF_vars(Listen(l)))
-----------------------------------------------------------------------------
(* Properties                                                              *)

\* What the manager sees: until Start returns the receiver is as it was, and then
\* it listens as long as a loop lives.
ServiceState ==
    IF ~running \/ call \in {"registering", "recording", "spawning"} THEN "stopped"
    ELSE IF spawned /\ Alive # {} THEN "listening" ELSE "deaf"

Service == INSTANCE PushService WITH
    push <- ServiceState,
    calling <- IF call \in {"idle", "stopping"} THEN call ELSE "starting"

\* The receiver is the service the manager takes it for: through lost connections,
\* failing requests and loops left behind it listens from a successful Start to the
\* next Stop.
ReceiverIsService == Service!Spec

\* The credentials a started receiver listens with are of a device that gets the
\* notifications, through crashes and whatever fails to be saved; not after another
\* account signed in, nor when a Start of a running receiver replaced them.
TokenIsKnown == spawned /\ ~astray => creds.device \in cloud

\* A loop is started when the one before has ended and nobody waits for it any more,
\* unless a Stop gave up; two loops, and a panic of the wait group, come only of that.
OneListener ==
    ~gaveUp => /\ Cardinality(Alive) <= 1 /\ (waiter = "woken" => Alive = {})
               /\ call = "spawning" => Alive = {} /\ waiter = "none"

\* A receiver that stays stopped falls silent, if connections nobody closed end: the
\* one a loop opened after Stop had closed the client before.
FallsSilent ==
    <>[]~running /\ (\A l \in Loops : []<>(loop[l] # "listening")) => <>[](Alive = {})
=============================================================================
