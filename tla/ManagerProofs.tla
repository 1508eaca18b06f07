--------------------------- MODULE ManagerProofs ---------------------------
(***************************************************************************)
(* Theorems about Manager, for any number of callers, babies, clients,     *)
(* loops, channels and tokens.  The last two compose the manager with what *)
(* it calls: it uses the receiver as PushService allows, and its clients   *)
(* as ClientUse does.                                                      *)
(***************************************************************************)
EXTENDS Manager, TLAPS

\* Until the first Start there is nothing to end.
Quiet ==
    /\ \A l \in Loops : loop[l].at = "ended"
    /\ \A c \in Callers : at[c] \in {"idle", "relay", "manager", "stop", "start"}

\* The channel of a started manager is open, that of a stopped one closed.
ChanInv ==
    /\ started => stopCh \notin closed
    /\ ~started /\ stopCh \notin closed => Quiet
    /\ LoopsCanEnd

\* The client startBaby has built is nobody else's until it is registered.
HandInv ==
    /\ \A c \in Callers : at[c] = "built" =>
          /\ hand[c] \notin Registered \cup ending \cup down
          /\ \A d \in Callers : hand[c] \notin taken[d]
    /\ \A c, d \in Callers : hand[c] = hand[d] => c = d \/ hand[c] = None
    /\ ClientsStopOnce

\* The places of Start behind its first section.
Inside == {"fetching", "starting", "built", "registered", "push", "watchdog"}

SerialInv == ~overlapped =>
    /\ ~panicked
    /\ \A c, d \in Callers : at[c] = "idle" \/ at[d] = "idle" \/ c = d
    /\ \A c \in Callers : at[c] \in Inside => started
    /\ \A c \in Callers : at[c] \in {"stopPush", "stopClients", "waiting"} => ~started

Owned == Registered \cup ending \cup UNION {taken[c] : c \in Callers}

OwnedInv == ~overlapped =>
    /\ Running \subseteq Owned
    /\ ~started => babies = NoBabies
    /\ \A c \in Callers :
          /\ at[c] = "fetching" => babies = NoBabies
          /\ \A b \in todo[c] : babies[b] = None
          /\ at[c] \in {"built", "registered"} => uid[c] \in Babies /\ uid[c] \notin todo[c]
          /\ at[c] = "built" => babies[uid[c]] = None
          /\ at[c] = "registered" => babies[uid[c]] = hand[c]

\* A loop of the kind runs, and no closed channel ends it.
Lives(kind) == \E l \in Loops : /\ loop[l].at # "ended" /\ loop[l].kind = kind
                                /\ loop[l].ch \notin closed

Alerted == IF pushActive THEN push = "listening" ELSE Lives("poll")

\* Start finds the receiver stopped, and leaves somebody to fetch the messages.
AlertInv == ~overlapped =>
    /\ ~started /\ (\A c \in Callers : at[c] # "stopPush") => push = "stopped"
    /\ \A c \in Callers : at[c] \in Inside \ {"watchdog"} => push = "stopped"
    /\ started /\ (\A c \in Callers : at[c] \notin Inside \ {"watchdog"}) => Alerted
    /\ started /\ (\A c \in Callers : at[c] \notin Inside) => Lives("watchdog")

\* A new token reaches the file, the relay, the manager and the clients in turn.
TokenInv == ~overlapped =>
    /\ \A c \in Callers :
          /\ at[c] \in {"relay", "manager"} => fileToken \in {newToken[c], None}
          /\ at[c] = "relay" => relayToken = rtmpToken
          /\ at[c] = "manager" => relayToken = newToken[c]
          /\ at[c] = "built" => tokenOf[hand[c]] = rtmpToken
    /\ (\A c \in Callers : at[c] \notin {"relay", "manager"}) =>
          fileToken \in {rtmpToken, None} /\ relayToken = rtmpToken
    /\ (\A c \in Callers : at[c] # "stop") =>
          \A k \in Registered : tokenOf[k] = rtmpToken

IInv == TypeOK /\ ChanInv /\ HandInv /\ SerialInv /\ OwnedInv /\ AlertInv /\ TokenInv
-----------------------------------------------------------------------------
USE NoneAssumption

\* The initial states satisfy the invariant.
LEMMA InitInv == Init => IInv
  <1> SUFFICES ASSUME Init PROVE IInv
    OBVIOUS
  <1>1. TypeOK
    BY DEF Init, TypeOK, Places, Kinds, Ended, NoBabies
  <1>2. ChanInv
    BY DEF Init, ChanInv, LoopsCanEnd, Quiet, Ended
  <1>3. HandInv
    BY DEF Init, HandInv, ClientsStopOnce, Registered, NoBabies
  <1>4. SerialInv /\ OwnedInv
    BY DEF Init, SerialInv, Inside, OwnedInv, Running, NoBabies
  <1>5. AlertInv /\ TokenInv
    BY DEF Init, AlertInv, TokenInv, Inside, Registered, NoBabies
  <1> QED
    BY <1>1, <1>2, <1>3, <1>4, <1>5 DEF IInv

\* A close either panics or does not.
LEMMA CloseIsBoolean == CloseChan => panicked' \in BOOLEAN
  BY DEF CloseChan

\* A call that begins while another runs is recorded for good.
LEMMA BeginIsAlone ==
  ASSUME TypeOK, NEW c \in Callers, NEW place, NEW start, Begin(c, place, start), ~overlapped'
  PROVE  /\ ~overlapped
         /\ \A d \in Callers : at[d] = "idle"
         /\ \A d \in Callers : at'[d] = IF d = c THEN place ELSE "idle"
         /\ UNCHANGED <<core, babies, starting, taken, clients, loop, pushVars,
                        rtmpToken, relayToken, panicked>>
  BY DEF Begin, Go, TypeOK

\* Every step keeps the types.
LEMMA TypeStep == TypeOK /\ [Next]_vars => TypeOK'
  <1> SUFFICES ASSUME TypeOK, [Next]_vars PROVE TypeOK'
    OBVIOUS
  <1> USE DEF core, caller, starting, clients, pushVars, tokens, loopOnly
  <1>1. ASSUME NEW c \in Callers, SignIn(c) PROVE TypeOK'
    BY <1>1 DEF TypeOK, Places, Kinds, Ended, SignIn, Begin, Go
  <1>2. ASSUME NEW c \in Callers, Shutdown(c) PROVE TypeOK'
    BY <1>2 DEF TypeOK, Places, Kinds, Ended, Shutdown, Begin, Go
  <1>3. ASSUME NEW c \in Callers, NEW t \in Tokens, Regenerate(c, t) PROVE TypeOK'
    BY <1>3 DEF TypeOK, Places, Kinds, Ended, Regenerate, Begin, Go
  <1>4. ASSUME WriteFails PROVE TypeOK'
    BY <1>4 DEF TypeOK, Places, Kinds, Ended, WriteFails
  <1>5. ASSUME NEW c \in Callers, SetRelayToken(c) PROVE TypeOK'
    BY <1>5 DEF TypeOK, Places, Kinds, Ended, SetRelayToken, Go
  <1>6. ASSUME NEW c \in Callers, SetRTMPToken(c) PROVE TypeOK'
    BY <1>6 DEF TypeOK, Places, Kinds, Ended, SetRTMPToken, Go, AfterSetToken
  <1>7. ASSUME NEW c \in Callers, BeginStop(c) PROVE TypeOK'
    <2>1. CASE ~started
      BY <1>7, <2>1 DEF TypeOK, Places, BeginStop, Go, AfterStop
    <2>2. CASE started
      <3>1. panicked' \in BOOLEAN
        <4>1. CloseChan
          BY <1>7, <2>2 DEF BeginStop
        <4> QED
          BY <4>1, CloseIsBoolean
      <3>2. Registered \subseteq Clients /\ NoBabies \in [Babies -> Clients \cup {None}]
        BY DEF TypeOK, Registered, NoBabies
      <3>3. /\ at[c] = "stop" /\ at' = [at EXCEPT ![c] = "stopPush"]
            /\ closed' = closed \cup {stopCh} /\ started' = FALSE
            /\ taken' = [taken EXCEPT ![c] = Registered] /\ babies' = NoBabies
            /\ UNCHANGED <<stopCh, again, newToken, overlapped, starting, clients, loop,
                           pushVars, tokens>>
        BY <1>7, <2>2 DEF BeginStop, Go, CloseChan, StoppedNow, ToStop, EmptiedBabies
      <3>4. /\ \A d \in Callers : taken'[d] # {} => at'[d] \in {"stopPush", "stopClients"}
            /\ \A d \in Callers : todo[d] # {} => at'[d] \in {"starting", "built", "registered"}
            /\ \A d \in Callers : (hand[d] = None) <=> at'[d] \notin {"built", "registered"}
        BY <3>3 DEF TypeOK
      <3>5. taken' \in [Callers -> SUBSET Clients] /\ at' \in [Callers -> Places]
        BY <3>2, <3>3 DEF TypeOK, Places
      <3> QED
        BY <3>1, <3>2, <3>3, <3>4, <3>5 DEF TypeOK
    <2> QED
      BY <2>1, <2>2 DEF TypeOK
  <1>8. ASSUME NEW c \in Callers, StopPush(c) PROVE TypeOK'
    BY <1>8 DEF TypeOK, Places, Kinds, Ended, StopPush, Go, PushStopped
  <1>9. ASSUME NEW c \in Callers, StopClients(c) PROVE TypeOK'
    BY <1>9 DEF TypeOK, Places, Kinds, Ended, StopClients, Go
  <1>10. ASSUME NEW c \in Callers, StopReturns(c) PROVE TypeOK'
    BY <1>10 DEF TypeOK, Places, Kinds, Ended, StopReturns, Go, AfterStop
  <1>11. ASSUME NEW c \in Callers, BeginStart(c) PROVE TypeOK'
    <2>1. CASE started
      BY <1>11, <2>1 DEF TypeOK, Places, BeginStart, Go
    <2>2. CASE ~started
      <3>1. stopCh' \in Chans /\ closed' \subseteq Chans /\ started' \in BOOLEAN
        BY <1>11, <2>2 DEF TypeOK, BeginStart, NewChan
      <3>2. at[c] = "start" /\ at' = [at EXCEPT ![c] = "fetching"]
        BY <1>11, <2>2 DEF BeginStart, Go
      <3>3. /\ at' \in [Callers -> Places]
            /\ \A d \in Callers : taken[d] # {} => at'[d] \in {"stopPush", "stopClients"}
            /\ \A d \in Callers : todo[d] # {} => at'[d] \in {"starting", "built", "registered"}
            /\ \A d \in Callers : (hand[d] = None) <=> at'[d] \notin {"built", "registered"}
        BY <3>2 DEF TypeOK, Places
      <3> QED
        BY <1>11, <3>1, <3>3 DEF TypeOK, BeginStart
    <2> QED
      BY <2>1, <2>2
  <1>12. ASSUME NEW c \in Callers, FetchFails(c) PROVE TypeOK'
    <2>1. panicked' \in BOOLEAN
      BY <1>12, CloseIsBoolean DEF FetchFails, CloseOnFailure
    <2> QED
      BY <1>12, <2>1 DEF TypeOK, Places, FetchFails, Go, CloseOnFailure, CloseChan
  <1>13. ASSUME NEW c \in Callers, Fetched(c) PROVE TypeOK'
    BY <1>13 DEF TypeOK, Places, Kinds, Ended, Fetched, Go, NoBabies
  <1>14. ASSUME NEW c \in Callers, BabiesStarted(c) PROVE TypeOK'
    BY <1>14 DEF TypeOK, Places, Kinds, Ended, BabiesStarted, Go
  <1>15. ASSUME NEW c \in Callers, BuildClient(c) PROVE TypeOK'
    BY <1>15 DEF TypeOK, Places, Kinds, Ended, BuildClient, Go, UnusedClient
  <1>16. ASSUME NEW c \in Callers, Register(c) PROVE TypeOK'
    BY <1>16 DEF TypeOK, Places, Kinds, Ended, Register, Go
  <1>17. ASSUME NEW c \in Callers, StartClient(c) PROVE TypeOK'
    BY <1>17 DEF TypeOK, Places, Kinds, Ended, StartClient, Go, AfterBaby
  <1>18. ASSUME NEW c \in Callers, StartPush(c) PROVE TypeOK'
    <2>1. push' \in {"stopped", "deaf", "listening"} /\ pushActive' \in BOOLEAN
      BY <1>18 DEF TypeOK, StartPush
    <2>2. loop' \in [Loops -> [kind : Kinds, at : {"top", "waiting", "ended"},
                              ch : Chans \cup {None}]]
      BY <1>18 DEF TypeOK, StartPush, Spawn, Kinds
    <2>3. /\ at' \in [Callers -> Places]
          /\ \A d \in Callers : taken[d] # {} => at'[d] \in {"stopPush", "stopClients"}
          /\ \A d \in Callers : todo[d] # {} => at'[d] \in {"starting", "built", "registered"}
          /\ \A d \in Callers : (hand[d] = None) <=> at'[d] \notin {"built", "registered"}
      BY <1>18 DEF TypeOK, Places, StartPush, Go
    <2>4. UNCHANGED <<core, babies, again, newToken, overlapped, starting, taken, clients,
                      tokens, panicked>>
      BY <1>18 DEF StartPush
    <2> QED
      BY <2>1, <2>2, <2>3, <2>4 DEF TypeOK
  <1>19. ASSUME NEW c \in Callers, StartWatchdog(c) PROVE TypeOK'
    BY <1>19 DEF TypeOK, Places, Kinds, Ended, StartWatchdog, Go, Spawn, Alive
  <1>20. ASSUME NEW k \in Clients, ClientStops(k) PROVE TypeOK'
    BY <1>20 DEF TypeOK, Places, Kinds, Ended, ClientStops
  <1>21. ASSUME NEW l \in Loops, LoopSelects(l) PROVE TypeOK'
    <2>1. loop[l] \in [kind : Kinds, at : {"top", "waiting", "ended"}, ch : Chans \cup {None}]
      BY DEF TypeOK
    <2>2. loop'[l] = [kind |-> loop[l].kind, at |-> "waiting", ch |-> stopCh]
      BY <1>21, <2>1 DEF TypeOK, LoopSelects
    <2>3. loop' \in [Loops -> [kind : Kinds, at : {"top", "waiting", "ended"},
                              ch : Chans \cup {None}]]
      BY <1>21, <2>1, <2>2 DEF TypeOK, LoopSelects
    <2> QED
      BY <1>21, <2>3 DEF TypeOK, LoopSelects
  <1>22. ASSUME NEW l \in Loops, LoopTicks(l) PROVE TypeOK'
    <2>1. loop[l] \in [kind : Kinds, at : {"top", "waiting", "ended"}, ch : Chans \cup {None}]
      BY DEF TypeOK
    <2>2. loop'[l] = [kind |-> loop[l].kind, at |-> "top", ch |-> None]
      BY <1>22, <2>1 DEF TypeOK, LoopTicks
    <2>3. loop' \in [Loops -> [kind : Kinds, at : {"top", "waiting", "ended"},
                              ch : Chans \cup {None}]]
      BY <1>22, <2>1, <2>2 DEF TypeOK, LoopTicks
    <2> QED
      BY <1>22, <2>3 DEF TypeOK, LoopTicks
  <1>23. ASSUME NEW l \in Loops, LoopEnds(l) PROVE TypeOK'
    BY <1>23 DEF TypeOK, Places, Kinds, Ended, LoopEnds, Ended
  <1>24. CASE UNCHANGED vars
    BY <1>24 DEF TypeOK, Places, Kinds, Ended, vars
  <1> QED
    BY <1>1, <1>2, <1>3, <1>4, <1>5, <1>6, <1>7, <1>8, <1>9, <1>10, <1>11, <1>12, <1>13,
       <1>14, <1>15, <1>16, <1>17, <1>18, <1>19, <1>20, <1>21, <1>22, <1>23, <1>24
       DEF Next, Call, Step, LoopStep

\* A stopped manager that was started once has a closed channel.
LEMMA ChanStep == TypeOK /\ ChanInv /\ [Next]_vars => ChanInv'
  <1> SUFFICES ASSUME TypeOK, ChanInv, [Next]_vars PROVE ChanInv'
    OBVIOUS
  <1> USE DEF core, caller, starting, clients, pushVars, tokens, loopOnly
  <1>1. ASSUME NEW c \in Callers, SignIn(c) PROVE ChanInv'
    BY <1>1 DEF TypeOK, ChanInv, LoopsCanEnd, Quiet, SignIn, Begin, Go
  <1>2. ASSUME NEW c \in Callers, Shutdown(c) PROVE ChanInv'
    BY <1>2 DEF TypeOK, ChanInv, LoopsCanEnd, Quiet, Shutdown, Begin, Go
  <1>3. ASSUME NEW c \in Callers, NEW t \in Tokens, Regenerate(c, t) PROVE ChanInv'
    BY <1>3 DEF TypeOK, ChanInv, LoopsCanEnd, Quiet, Regenerate, Begin, Go
  <1>4. ASSUME WriteFails PROVE ChanInv'
    BY <1>4 DEF TypeOK, ChanInv, LoopsCanEnd, Quiet, WriteFails
  <1>5. ASSUME NEW c \in Callers, SetRelayToken(c) PROVE ChanInv'
    BY <1>5 DEF TypeOK, ChanInv, LoopsCanEnd, Quiet, SetRelayToken, Go
  <1>6. ASSUME NEW c \in Callers, SetRTMPToken(c) PROVE ChanInv'
    BY <1>6 DEF TypeOK, ChanInv, LoopsCanEnd, Quiet, SetRTMPToken, Go, AfterSetToken
  <1>7. ASSUME NEW c \in Callers, BeginStop(c) PROVE ChanInv'
    BY <1>7 DEF TypeOK, ChanInv, LoopsCanEnd, Quiet, BeginStop, Go, CloseChan, AfterStop, StoppedNow, ToStop, EmptiedBabies, NoBabies
  <1>8. ASSUME NEW c \in Callers, StopPush(c) PROVE ChanInv'
    BY <1>8 DEF TypeOK, ChanInv, LoopsCanEnd, Quiet, StopPush, Go, PushStopped
  <1>9. ASSUME NEW c \in Callers, StopClients(c) PROVE ChanInv'
    BY <1>9 DEF TypeOK, ChanInv, LoopsCanEnd, Quiet, StopClients, Go
  <1>10. ASSUME NEW c \in Callers, StopReturns(c) PROVE ChanInv'
    BY <1>10 DEF TypeOK, ChanInv, LoopsCanEnd, Quiet, StopReturns, Go, AfterStop
  <1>11. ASSUME NEW c \in Callers, BeginStart(c) PROVE ChanInv'
    BY <1>11 DEF TypeOK, ChanInv, LoopsCanEnd, Quiet, BeginStart, Go, NewChan, UnusedChan
  <1>12. ASSUME NEW c \in Callers, FetchFails(c) PROVE ChanInv'
    BY <1>12 DEF TypeOK, ChanInv, LoopsCanEnd, Quiet, FetchFails, Go, CloseOnFailure, CloseChan
  <1>13. ASSUME NEW c \in Callers, Fetched(c) PROVE ChanInv'
    BY <1>13 DEF TypeOK, ChanInv, LoopsCanEnd, Quiet, Fetched, Go, NoBabies
  <1>14. ASSUME NEW c \in Callers, BabiesStarted(c) PROVE ChanInv'
    BY <1>14 DEF TypeOK, ChanInv, LoopsCanEnd, Quiet, BabiesStarted, Go
  <1>15. ASSUME NEW c \in Callers, BuildClient(c) PROVE ChanInv'
    BY <1>15 DEF TypeOK, ChanInv, LoopsCanEnd, Quiet, BuildClient, Go, UnusedClient
  <1>16. ASSUME NEW c \in Callers, Register(c) PROVE ChanInv'
    BY <1>16 DEF TypeOK, ChanInv, LoopsCanEnd, Quiet, Register, Go
  <1>17. ASSUME NEW c \in Callers, StartClient(c) PROVE ChanInv'
    BY <1>17 DEF TypeOK, ChanInv, LoopsCanEnd, Quiet, StartClient, Go, AfterBaby
  <1>18. ASSUME NEW c \in Callers, StartPush(c) PROVE ChanInv'
    <2>1. started \/ stopCh \in closed
      BY <1>18 DEF ChanInv, Quiet, StartPush
    <2>2. CASE loop' = loop
      BY <1>18, <2>1, <2>2 DEF ChanInv, LoopsCanEnd, StartPush
    <2>3. CASE Spawn("poll")
      BY <1>18, <2>1, <2>3 DEF TypeOK, ChanInv, LoopsCanEnd, StartPush, Spawn
    <2> QED
      BY <1>18, <2>2, <2>3 DEF StartPush
  <1>19. ASSUME NEW c \in Callers, StartWatchdog(c) PROVE ChanInv'
    BY <1>19 DEF TypeOK, ChanInv, LoopsCanEnd, Quiet, StartWatchdog, Go, Spawn, Alive
  <1>20. ASSUME NEW k \in Clients, ClientStops(k) PROVE ChanInv'
    BY <1>20 DEF TypeOK, ChanInv, LoopsCanEnd, Quiet, ClientStops
  <1>21. ASSUME NEW l \in Loops, LoopSelects(l) PROVE ChanInv'
    BY <1>21 DEF TypeOK, ChanInv, LoopsCanEnd, Quiet, LoopSelects
  <1>22. ASSUME NEW l \in Loops, LoopTicks(l) PROVE ChanInv'
    BY <1>22 DEF TypeOK, ChanInv, LoopsCanEnd, Quiet, LoopTicks
  <1>23. ASSUME NEW l \in Loops, LoopEnds(l) PROVE ChanInv'
    BY <1>23 DEF TypeOK, ChanInv, LoopsCanEnd, Quiet, LoopEnds, Ended
  <1>24. CASE UNCHANGED vars
    BY <1>24 DEF TypeOK, ChanInv, LoopsCanEnd, Quiet, vars
  <1> QED
    BY <1>1, <1>2, <1>3, <1>4, <1>5, <1>6, <1>7, <1>8, <1>9, <1>10, <1>11, <1>12, <1>13,
       <1>14, <1>15, <1>16, <1>17, <1>18, <1>19, <1>20, <1>21, <1>22, <1>23, <1>24
       DEF Next, Call, Step, LoopStep

\* A client passes from one place to the next and is never in two.
LEMMA HandStep == TypeOK /\ HandInv /\ [Next]_vars => HandInv'
  <1> SUFFICES ASSUME TypeOK, HandInv, [Next]_vars PROVE HandInv'
    OBVIOUS
  <1> USE DEF core, caller, starting, clients, pushVars, tokens, loopOnly
  <1>1. ASSUME NEW c \in Callers, SignIn(c) PROVE HandInv'
    BY <1>1 DEF TypeOK, HandInv, ClientsStopOnce, Registered, SignIn, Begin, Go
  <1>2. ASSUME NEW c \in Callers, Shutdown(c) PROVE HandInv'
    BY <1>2 DEF TypeOK, HandInv, ClientsStopOnce, Registered, Shutdown, Begin, Go
  <1>3. ASSUME NEW c \in Callers, NEW t \in Tokens, Regenerate(c, t) PROVE HandInv'
    BY <1>3 DEF TypeOK, HandInv, ClientsStopOnce, Registered, Regenerate, Begin, Go
  <1>4. ASSUME WriteFails PROVE HandInv'
    BY <1>4 DEF TypeOK, HandInv, ClientsStopOnce, Registered, WriteFails
  <1>5. ASSUME NEW c \in Callers, SetRelayToken(c) PROVE HandInv'
    BY <1>5 DEF TypeOK, HandInv, ClientsStopOnce, Registered, SetRelayToken, Go
  <1>6. ASSUME NEW c \in Callers, SetRTMPToken(c) PROVE HandInv'
    BY <1>6 DEF TypeOK, HandInv, ClientsStopOnce, Registered, SetRTMPToken, Go, AfterSetToken
  <1>7. ASSUME NEW c \in Callers, BeginStop(c) PROVE HandInv'
    <2>1. CASE ~started
      BY <1>7, <2>1 DEF TypeOK, HandInv, ClientsStopOnce, Registered, BeginStop, Go, AfterStop
    <2>2. CASE started
      <3>1. /\ at' = [at EXCEPT ![c] = "stopPush"]
            /\ taken' = [taken EXCEPT ![c] = Registered]
            /\ UNCHANGED <<hand, ending, down>>
        BY <1>7, <2>2 DEF BeginStop, Go, ToStop
      <3>2. Registered' = {}
        BY <1>7, <2>2 DEF BeginStop, EmptiedBabies, NoBabies, Registered
      <3>3. \A d \in Callers : taken'[d] = IF d = c THEN Registered ELSE taken[d]
        BY <3>1 DEF TypeOK
      <3>4. \A d \in Callers : at'[d] = "built" => at[d] = "built"
        BY <3>1 DEF TypeOK
      <3> QED
        BY <3>1, <3>2, <3>3, <3>4 DEF HandInv, ClientsStopOnce
    <2> QED
      BY <2>1, <2>2 DEF TypeOK
  <1>8. ASSUME NEW c \in Callers, StopPush(c) PROVE HandInv'
    BY <1>8 DEF TypeOK, HandInv, ClientsStopOnce, Registered, StopPush, Go, PushStopped
  <1>9. ASSUME NEW c \in Callers, StopClients(c) PROVE HandInv'
    BY <1>9 DEF TypeOK, HandInv, ClientsStopOnce, Registered, StopClients, Go
  <1>10. ASSUME NEW c \in Callers, StopReturns(c) PROVE HandInv'
    BY <1>10 DEF TypeOK, HandInv, ClientsStopOnce, Registered, StopReturns, Go, AfterStop
  <1>11. ASSUME NEW c \in Callers, BeginStart(c) PROVE HandInv'
    BY <1>11 DEF TypeOK, HandInv, ClientsStopOnce, Registered, BeginStart, Go, NewChan, UnusedChan
  <1>12. ASSUME NEW c \in Callers, FetchFails(c) PROVE HandInv'
    BY <1>12 DEF TypeOK, HandInv, ClientsStopOnce, Registered, FetchFails, Go, CloseOnFailure, CloseChan
  <1>13. ASSUME NEW c \in Callers, Fetched(c) PROVE HandInv'
    BY <1>13 DEF TypeOK, HandInv, ClientsStopOnce, Registered, Fetched, Go, NoBabies
  <1>14. ASSUME NEW c \in Callers, BabiesStarted(c) PROVE HandInv'
    BY <1>14 DEF TypeOK, HandInv, ClientsStopOnce, Registered, BabiesStarted, Go
  <1>15. ASSUME NEW c \in Callers, BuildClient(c) PROVE HandInv'
    BY <1>15 DEF TypeOK, HandInv, ClientsStopOnce, Registered, BuildClient, Go, UnusedClient
  <1>16. ASSUME NEW c \in Callers, Register(c) PROVE HandInv'
    BY <1>16 DEF TypeOK, HandInv, ClientsStopOnce, Registered, Register, Go
  <1>17. ASSUME NEW c \in Callers, StartClient(c) PROVE HandInv'
    BY <1>17 DEF TypeOK, HandInv, ClientsStopOnce, Registered, StartClient, Go, AfterBaby
  <1>18. ASSUME NEW c \in Callers, StartPush(c) PROVE HandInv'
    BY <1>18 DEF TypeOK, HandInv, ClientsStopOnce, Registered, StartPush, Go, Spawn, Alive
  <1>19. ASSUME NEW c \in Callers, StartWatchdog(c) PROVE HandInv'
    BY <1>19 DEF TypeOK, HandInv, ClientsStopOnce, Registered, StartWatchdog, Go, Spawn, Alive
  <1>20. ASSUME NEW k \in Clients, ClientStops(k) PROVE HandInv'
    BY <1>20 DEF TypeOK, HandInv, ClientsStopOnce, Registered, ClientStops
  <1>21. ASSUME NEW l \in Loops, LoopSelects(l) PROVE HandInv'
    BY <1>21 DEF TypeOK, HandInv, ClientsStopOnce, Registered, LoopSelects
  <1>22. ASSUME NEW l \in Loops, LoopTicks(l) PROVE HandInv'
    BY <1>22 DEF TypeOK, HandInv, ClientsStopOnce, Registered, LoopTicks
  <1>23. ASSUME NEW l \in Loops, LoopEnds(l) PROVE HandInv'
    BY <1>23 DEF TypeOK, HandInv, ClientsStopOnce, Registered, LoopEnds, Ended
  <1>24. CASE UNCHANGED vars
    BY <1>24 DEF TypeOK, HandInv, ClientsStopOnce, Registered, vars
  <1> QED
    BY <1>1, <1>2, <1>3, <1>4, <1>5, <1>6, <1>7, <1>8, <1>9, <1>10, <1>11, <1>12, <1>13,
       <1>14, <1>15, <1>16, <1>17, <1>18, <1>19, <1>20, <1>21, <1>22, <1>23, <1>24
       DEF Next, Call, Step, LoopStep

\* Without overlapping calls the caller inside Start is the one that set started.
LEMMA SerialStep == TypeOK /\ ChanInv /\ SerialInv /\ [Next]_vars => SerialInv'
  <1> SUFFICES ASSUME TypeOK, ChanInv, SerialInv, [Next]_vars PROVE SerialInv'
    OBVIOUS
  <1> USE DEF core, caller, starting, clients, pushVars, tokens, loopOnly
  <1>1. ASSUME NEW c \in Callers, SignIn(c) PROVE SerialInv'
    <2> SUFFICES ASSUME ~overlapped' PROVE SerialInv'
      BY DEF SerialInv
    <2>1. Begin(c, (IF started THEN "stop" ELSE "start"), TRUE)
      BY <1>1 DEF SignIn
    <2>2. /\ ~overlapped
          /\ \A d \in Callers : at[d] = "idle"
          /\ \A d \in Callers : at'[d] = IF d = c THEN (IF started THEN "stop" ELSE "start") ELSE "idle"
          /\ UNCHANGED <<core, babies, starting, taken, clients, loop, pushVars,
                         rtmpToken, relayToken, panicked>>
      BY <2>1, BeginIsAlone
    <2> QED
      BY <1>1, <2>2 DEF TypeOK, SerialInv, Inside
  <1>2. ASSUME NEW c \in Callers, Shutdown(c) PROVE SerialInv'
    <2> SUFFICES ASSUME ~overlapped' PROVE SerialInv'
      BY DEF SerialInv
    <2>1. Begin(c, "stop", FALSE)
      BY <1>2 DEF Shutdown
    <2>2. /\ ~overlapped
          /\ \A d \in Callers : at[d] = "idle"
          /\ \A d \in Callers : at'[d] = IF d = c THEN "stop" ELSE "idle"
          /\ UNCHANGED <<core, babies, starting, taken, clients, loop, pushVars,
                         rtmpToken, relayToken, panicked>>
      BY <2>1, BeginIsAlone
    <2> QED
      BY <1>2, <2>2 DEF TypeOK, SerialInv, Inside
  <1>3. ASSUME NEW c \in Callers, NEW t \in Tokens, Regenerate(c, t) PROVE SerialInv'
    <2> SUFFICES ASSUME ~overlapped' PROVE SerialInv'
      BY DEF SerialInv
    <2>1. Begin(c, "relay", TRUE)
      BY <1>3 DEF Regenerate
    <2>2. /\ ~overlapped
          /\ \A d \in Callers : at[d] = "idle"
          /\ \A d \in Callers : at'[d] = IF d = c THEN "relay" ELSE "idle"
          /\ UNCHANGED <<core, babies, starting, taken, clients, loop, pushVars,
                         rtmpToken, relayToken, panicked>>
      BY <2>1, BeginIsAlone
    <2> QED
      BY <1>3, <2>2 DEF TypeOK, SerialInv, Inside
  <1>4. ASSUME WriteFails PROVE SerialInv'
    BY <1>4 DEF TypeOK, ChanInv, SerialInv, Inside, WriteFails
  <1>5. ASSUME NEW c \in Callers, SetRelayToken(c) PROVE SerialInv'
    BY <1>5 DEF TypeOK, ChanInv, SerialInv, Inside, SetRelayToken, Go
  <1>6. ASSUME NEW c \in Callers, SetRTMPToken(c) PROVE SerialInv'
    BY <1>6 DEF TypeOK, ChanInv, SerialInv, Inside, SetRTMPToken, Go, AfterSetToken
  <1>7. ASSUME NEW c \in Callers, BeginStop(c) PROVE SerialInv'
    BY <1>7 DEF TypeOK, ChanInv, SerialInv, Inside, BeginStop, Go, CloseChan, AfterStop, StoppedNow, ToStop, EmptiedBabies, NoBabies
  <1>8. ASSUME NEW c \in Callers, StopPush(c) PROVE SerialInv'
    BY <1>8 DEF TypeOK, ChanInv, SerialInv, Inside, StopPush, Go, PushStopped
  <1>9. ASSUME NEW c \in Callers, StopClients(c) PROVE SerialInv'
    BY <1>9 DEF TypeOK, ChanInv, SerialInv, Inside, StopClients, Go
  <1>10. ASSUME NEW c \in Callers, StopReturns(c) PROVE SerialInv'
    BY <1>10 DEF TypeOK, ChanInv, SerialInv, Inside, StopReturns, Go, AfterStop
  <1>11. ASSUME NEW c \in Callers, BeginStart(c) PROVE SerialInv'
    BY <1>11 DEF TypeOK, ChanInv, SerialInv, Inside, BeginStart, Go, NewChan, UnusedChan
  <1>12. ASSUME NEW c \in Callers, FetchFails(c) PROVE SerialInv'
    BY <1>12 DEF TypeOK, ChanInv, SerialInv, Inside, FetchFails, Go, CloseOnFailure, CloseChan
  <1>13. ASSUME NEW c \in Callers, Fetched(c) PROVE SerialInv'
    BY <1>13 DEF TypeOK, ChanInv, SerialInv, Inside, Fetched, Go, NoBabies
  <1>14. ASSUME NEW c \in Callers, BabiesStarted(c) PROVE SerialInv'
    BY <1>14 DEF TypeOK, ChanInv, SerialInv, Inside, BabiesStarted, Go
  <1>15. ASSUME NEW c \in Callers, BuildClient(c) PROVE SerialInv'
    BY <1>15 DEF TypeOK, ChanInv, SerialInv, Inside, BuildClient, Go, UnusedClient
  <1>16. ASSUME NEW c \in Callers, Register(c) PROVE SerialInv'
    BY <1>16 DEF TypeOK, ChanInv, SerialInv, Inside, Register, Go
  <1>17. ASSUME NEW c \in Callers, StartClient(c) PROVE SerialInv'
    BY <1>17 DEF TypeOK, ChanInv, SerialInv, Inside, StartClient, Go, AfterBaby
  <1>18. ASSUME NEW c \in Callers, StartPush(c) PROVE SerialInv'
    BY <1>18 DEF TypeOK, ChanInv, SerialInv, Inside, StartPush, Go, Spawn, Alive
  <1>19. ASSUME NEW c \in Callers, StartWatchdog(c) PROVE SerialInv'
    BY <1>19 DEF TypeOK, ChanInv, SerialInv, Inside, StartWatchdog, Go, Spawn, Alive
  <1>20. ASSUME NEW k \in Clients, ClientStops(k) PROVE SerialInv'
    BY <1>20 DEF TypeOK, ChanInv, SerialInv, Inside, ClientStops
  <1>21. ASSUME NEW l \in Loops, LoopSelects(l) PROVE SerialInv'
    BY <1>21 DEF TypeOK, ChanInv, SerialInv, Inside, LoopSelects
  <1>22. ASSUME NEW l \in Loops, LoopTicks(l) PROVE SerialInv'
    BY <1>22 DEF TypeOK, ChanInv, SerialInv, Inside, LoopTicks
  <1>23. ASSUME NEW l \in Loops, LoopEnds(l) PROVE SerialInv'
    BY <1>23 DEF TypeOK, ChanInv, SerialInv, Inside, LoopEnds, Ended
  <1>24. CASE UNCHANGED vars
    BY <1>24 DEF TypeOK, ChanInv, SerialInv, Inside, vars
  <1> QED
    BY <1>1, <1>2, <1>3, <1>4, <1>5, <1>6, <1>7, <1>8, <1>9, <1>10, <1>11, <1>12, <1>13,
       <1>14, <1>15, <1>16, <1>17, <1>18, <1>19, <1>20, <1>21, <1>22, <1>23, <1>24
       DEF Next, Call, Step, LoopStep

\* Without overlapping calls a client is registered before it runs, and for good.
LEMMA OwnedStep == TypeOK /\ SerialInv /\ OwnedInv /\ [Next]_vars => OwnedInv'
  <1> SUFFICES ASSUME TypeOK, SerialInv, OwnedInv, [Next]_vars PROVE OwnedInv'
    OBVIOUS
  <1> USE DEF core, caller, starting, clients, pushVars, tokens, loopOnly
  <1>1. ASSUME NEW c \in Callers, SignIn(c) PROVE OwnedInv'
    BY <1>1 DEF TypeOK, SerialInv, Inside, OwnedInv, Owned, Registered, Running, SignIn, Begin, Go
  <1>2. ASSUME NEW c \in Callers, Shutdown(c) PROVE OwnedInv'
    BY <1>2 DEF TypeOK, SerialInv, Inside, OwnedInv, Owned, Registered, Running, Shutdown, Begin, Go
  <1>3. ASSUME NEW c \in Callers, NEW t \in Tokens, Regenerate(c, t) PROVE OwnedInv'
    BY <1>3 DEF TypeOK, SerialInv, Inside, OwnedInv, Owned, Registered, Running, Regenerate, Begin, Go
  <1>4. ASSUME WriteFails PROVE OwnedInv'
    BY <1>4 DEF TypeOK, SerialInv, Inside, OwnedInv, Owned, Registered, Running, WriteFails
  <1>5. ASSUME NEW c \in Callers, SetRelayToken(c) PROVE OwnedInv'
    BY <1>5 DEF TypeOK, SerialInv, Inside, OwnedInv, Owned, Registered, Running, SetRelayToken, Go
  <1>6. ASSUME NEW c \in Callers, SetRTMPToken(c) PROVE OwnedInv'
    BY <1>6 DEF TypeOK, SerialInv, Inside, OwnedInv, Owned, Registered, Running, SetRTMPToken, Go, AfterSetToken
  <1>7. ASSUME NEW c \in Callers, BeginStop(c) PROVE OwnedInv'
    BY <1>7 DEF TypeOK, SerialInv, Inside, OwnedInv, Owned, Registered, Running, BeginStop, Go, CloseChan, AfterStop, StoppedNow, ToStop, EmptiedBabies, NoBabies
  <1>8. ASSUME NEW c \in Callers, StopPush(c) PROVE OwnedInv'
    BY <1>8 DEF TypeOK, SerialInv, Inside, OwnedInv, Owned, Registered, Running, StopPush, Go, PushStopped
  <1>9. ASSUME NEW c \in Callers, StopClients(c) PROVE OwnedInv'
    BY <1>9 DEF TypeOK, SerialInv, Inside, OwnedInv, Owned, Registered, Running, StopClients, Go
  <1>10. ASSUME NEW c \in Callers, StopReturns(c) PROVE OwnedInv'
    BY <1>10 DEF TypeOK, SerialInv, Inside, OwnedInv, Owned, Registered, Running, StopReturns, Go, AfterStop
  <1>11. ASSUME NEW c \in Callers, BeginStart(c) PROVE OwnedInv'
    BY <1>11 DEF TypeOK, SerialInv, Inside, OwnedInv, Owned, Registered, Running, BeginStart, Go, NewChan, UnusedChan
  <1>12. ASSUME NEW c \in Callers, FetchFails(c) PROVE OwnedInv'
    BY <1>12 DEF TypeOK, SerialInv, Inside, OwnedInv, Owned, Registered, Running, FetchFails, Go, CloseOnFailure, CloseChan
  <1>13. ASSUME NEW c \in Callers, Fetched(c) PROVE OwnedInv'
    BY <1>13 DEF TypeOK, SerialInv, Inside, OwnedInv, Owned, Registered, Running, Fetched, Go, NoBabies
  <1>14. ASSUME NEW c \in Callers, BabiesStarted(c) PROVE OwnedInv'
    BY <1>14 DEF TypeOK, SerialInv, Inside, OwnedInv, Owned, Registered, Running, BabiesStarted, Go
  <1>15. ASSUME NEW c \in Callers, BuildClient(c) PROVE OwnedInv'
    BY <1>15 DEF TypeOK, SerialInv, Inside, OwnedInv, Owned, Registered, Running, BuildClient, Go, UnusedClient
  <1>16. ASSUME NEW c \in Callers, Register(c) PROVE OwnedInv'
    BY <1>16 DEF TypeOK, SerialInv, Inside, OwnedInv, Owned, Registered, Running, Register, Go
  <1>17. ASSUME NEW c \in Callers, StartClient(c) PROVE OwnedInv'
    BY <1>17 DEF TypeOK, SerialInv, Inside, OwnedInv, Owned, Registered, Running, StartClient, Go, AfterBaby
  <1>18. ASSUME NEW c \in Callers, StartPush(c) PROVE OwnedInv'
    BY <1>18 DEF TypeOK, SerialInv, Inside, OwnedInv, Owned, Registered, Running, StartPush, Go, Spawn, Alive
  <1>19. ASSUME NEW c \in Callers, StartWatchdog(c) PROVE OwnedInv'
    BY <1>19 DEF TypeOK, SerialInv, Inside, OwnedInv, Owned, Registered, Running, StartWatchdog, Go, Spawn, Alive
  <1>20. ASSUME NEW k \in Clients, ClientStops(k) PROVE OwnedInv'
    BY <1>20 DEF TypeOK, SerialInv, Inside, OwnedInv, Owned, Registered, Running, ClientStops
  <1>21. ASSUME NEW l \in Loops, LoopSelects(l) PROVE OwnedInv'
    BY <1>21 DEF TypeOK, SerialInv, Inside, OwnedInv, Owned, Registered, Running, LoopSelects
  <1>22. ASSUME NEW l \in Loops, LoopTicks(l) PROVE OwnedInv'
    BY <1>22 DEF TypeOK, SerialInv, Inside, OwnedInv, Owned, Registered, Running, LoopTicks
  <1>23. ASSUME NEW l \in Loops, LoopEnds(l) PROVE OwnedInv'
    BY <1>23 DEF TypeOK, SerialInv, Inside, OwnedInv, Owned, Registered, Running, LoopEnds, Ended
  <1>24. CASE UNCHANGED vars
    BY <1>24 DEF TypeOK, SerialInv, Inside, OwnedInv, Owned, Registered, Running, vars
  <1> QED
    BY <1>1, <1>2, <1>3, <1>4, <1>5, <1>6, <1>7, <1>8, <1>9, <1>10, <1>11, <1>12, <1>13,
       <1>14, <1>15, <1>16, <1>17, <1>18, <1>19, <1>20, <1>21, <1>22, <1>23, <1>24
       DEF Next, Call, Step, LoopStep

\* Without overlapping calls a started manager has someone to fetch the messages.
LEMMA AlertStep == TypeOK /\ ChanInv /\ SerialInv /\ AlertInv /\ [Next]_vars => AlertInv'
  <1> SUFFICES ASSUME TypeOK, ChanInv, SerialInv, AlertInv, [Next]_vars PROVE AlertInv'
    OBVIOUS
  <1> USE DEF core, caller, starting, clients, pushVars, tokens, loopOnly
  <1>1. ASSUME NEW c \in Callers, SignIn(c) PROVE AlertInv'
    BY <1>1 DEF TypeOK, ChanInv, SerialInv, Inside, AlertInv, Alerted, Lives, SignIn, Begin, Go
  <1>2. ASSUME NEW c \in Callers, Shutdown(c) PROVE AlertInv'
    BY <1>2 DEF TypeOK, ChanInv, SerialInv, Inside, AlertInv, Alerted, Lives, Shutdown, Begin, Go
  <1>3. ASSUME NEW c \in Callers, NEW t \in Tokens, Regenerate(c, t) PROVE AlertInv'
    BY <1>3 DEF TypeOK, ChanInv, SerialInv, Inside, AlertInv, Alerted, Lives, Regenerate, Begin, Go
  <1>4. ASSUME WriteFails PROVE AlertInv'
    BY <1>4 DEF TypeOK, ChanInv, SerialInv, Inside, AlertInv, Alerted, Lives, WriteFails
  <1>5. ASSUME NEW c \in Callers, SetRelayToken(c) PROVE AlertInv'
    BY <1>5 DEF TypeOK, ChanInv, SerialInv, Inside, AlertInv, Alerted, Lives, SetRelayToken, Go
  <1>6. ASSUME NEW c \in Callers, SetRTMPToken(c) PROVE AlertInv'
    BY <1>6 DEF TypeOK, ChanInv, SerialInv, Inside, AlertInv, Alerted, Lives, SetRTMPToken, Go, AfterSetToken
  <1>7. ASSUME NEW c \in Callers, BeginStop(c) PROVE AlertInv'
    BY <1>7 DEF TypeOK, ChanInv, SerialInv, Inside, AlertInv, Alerted, Lives, BeginStop, Go, CloseChan, AfterStop, StoppedNow, ToStop, EmptiedBabies, NoBabies
  <1>8. ASSUME NEW c \in Callers, StopPush(c) PROVE AlertInv'
    BY <1>8 DEF TypeOK, ChanInv, SerialInv, Inside, AlertInv, Alerted, Lives, StopPush, Go, PushStopped
  <1>9. ASSUME NEW c \in Callers, StopClients(c) PROVE AlertInv'
    BY <1>9 DEF TypeOK, ChanInv, SerialInv, Inside, AlertInv, Alerted, Lives, StopClients, Go
  <1>10. ASSUME NEW c \in Callers, StopReturns(c) PROVE AlertInv'
    BY <1>10 DEF TypeOK, ChanInv, SerialInv, Inside, AlertInv, Alerted, Lives, StopReturns, Go, AfterStop
  <1>11. ASSUME NEW c \in Callers, BeginStart(c) PROVE AlertInv'
    <2> SUFFICES ASSUME ~overlapped PROVE AlertInv'
      BY <1>11 DEF BeginStart, AlertInv
    <2>1. at[c] = "start" /\ \A d \in Callers \ {c} : at[d] = "idle"
      BY <1>11 DEF BeginStart, SerialInv
    <2>2. UNCHANGED <<push, pushActive, loop, overlapped>>
      BY <1>11 DEF BeginStart
    <2>3. CASE started
      <3>1. UNCHANGED core /\ \A d \in Callers : at'[d] = "idle"
        BY <1>11, <2>1, <2>3 DEF TypeOK, BeginStart, Go
      <3> QED
        BY <2>1, <2>2, <2>3, <3>1 DEF AlertInv, Alerted, Lives, Inside
    <2>4. CASE ~started
      <3>1. started' /\ at'[c] = "fetching" /\ \A d \in Callers \ {c} : at'[d] = "idle"
        BY <1>11, <2>1, <2>4 DEF TypeOK, BeginStart, Go
      <3>2. push = "stopped"
        BY <2>1, <2>4 DEF AlertInv
      <3> QED
        BY <2>2, <3>1, <3>2 DEF AlertInv, Inside
    <2> QED
      BY <2>3, <2>4
  <1>12. ASSUME NEW c \in Callers, FetchFails(c) PROVE AlertInv'
    BY <1>12 DEF TypeOK, ChanInv, SerialInv, Inside, AlertInv, Alerted, Lives, FetchFails, Go, CloseOnFailure, CloseChan
  <1>13. ASSUME NEW c \in Callers, Fetched(c) PROVE AlertInv'
    BY <1>13 DEF TypeOK, ChanInv, SerialInv, Inside, AlertInv, Alerted, Lives, Fetched, Go, NoBabies
  <1>14. ASSUME NEW c \in Callers, BabiesStarted(c) PROVE AlertInv'
    BY <1>14 DEF TypeOK, ChanInv, SerialInv, Inside, AlertInv, Alerted, Lives, BabiesStarted, Go
  <1>15. ASSUME NEW c \in Callers, BuildClient(c) PROVE AlertInv'
    BY <1>15 DEF TypeOK, ChanInv, SerialInv, Inside, AlertInv, Alerted, Lives, BuildClient, Go, UnusedClient
  <1>16. ASSUME NEW c \in Callers, Register(c) PROVE AlertInv'
    BY <1>16 DEF TypeOK, ChanInv, SerialInv, Inside, AlertInv, Alerted, Lives, Register, Go
  <1>17. ASSUME NEW c \in Callers, StartClient(c) PROVE AlertInv'
    BY <1>17 DEF TypeOK, ChanInv, SerialInv, Inside, AlertInv, Alerted, Lives, StartClient, Go, AfterBaby
  <1>18. ASSUME NEW c \in Callers, StartPush(c) PROVE AlertInv'
    BY <1>18 DEF TypeOK, ChanInv, SerialInv, Inside, AlertInv, Alerted, Lives, StartPush, Go, Spawn, Alive
  <1>19. ASSUME NEW c \in Callers, StartWatchdog(c) PROVE AlertInv'
    BY <1>19 DEF TypeOK, ChanInv, SerialInv, Inside, AlertInv, Alerted, Lives, StartWatchdog, Go, Spawn, Alive
  <1>20. ASSUME NEW k \in Clients, ClientStops(k) PROVE AlertInv'
    BY <1>20 DEF TypeOK, ChanInv, SerialInv, Inside, AlertInv, Alerted, Lives, ClientStops
  <1>21. ASSUME NEW l \in Loops, LoopSelects(l) PROVE AlertInv'
    <2>1. loop[l].kind \in Kinds /\ loop'[l].kind = loop[l].kind /\ loop'[l].at = "waiting"
          /\ loop'[l].ch = stopCh
      BY <1>21 DEF TypeOK, LoopSelects
    <2>2. \A m \in Loops \ {l} : loop'[m] = loop[m]
      BY <1>21 DEF TypeOK, LoopSelects
    <2>3. UNCHANGED <<started, closed, at, push, pushActive, overlapped>>
      BY <1>21 DEF LoopSelects
    <2>4. ASSUME started, NEW kind, Lives(kind) PROVE Lives(kind)'
      <3>1. stopCh \notin closed
        BY <2>4, NoneAssumption DEF ChanInv, TypeOK
      <3>2. PICK m \in Loops : /\ loop[m].at # "ended" /\ loop[m].kind = kind
                               /\ loop[m].ch \notin closed
        BY <2>4 DEF Lives
      <3>3. /\ loop'[m].at # "ended" /\ loop'[m].kind = kind
            /\ loop'[m].ch \notin closed'
        BY <2>1, <2>2, <2>3, <3>1, <3>2
      <3> QED
        BY <3>3 DEF Lives
    <2> QED
      BY <2>3, <2>4 DEF AlertInv, Alerted, Inside
  <1>22. ASSUME NEW l \in Loops, LoopTicks(l) PROVE AlertInv'
    <2>1. loop[l].kind \in Kinds /\ loop'[l].kind = loop[l].kind /\ loop'[l].at = "top"
          /\ loop'[l].ch = None
      BY <1>22 DEF TypeOK, LoopTicks
    <2>2. \A m \in Loops \ {l} : loop'[m] = loop[m]
      BY <1>22 DEF TypeOK, LoopTicks
    <2>3. UNCHANGED <<started, closed, at, push, pushActive, overlapped>>
      BY <1>22 DEF LoopTicks
    <2>4. ASSUME started, NEW kind, Lives(kind) PROVE Lives(kind)'
      <3>1. None \notin closed
        BY <2>4, NoneAssumption DEF ChanInv, TypeOK
      <3>2. PICK m \in Loops : /\ loop[m].at # "ended" /\ loop[m].kind = kind
                               /\ loop[m].ch \notin closed
        BY <2>4 DEF Lives
      <3>3. /\ loop'[m].at # "ended" /\ loop'[m].kind = kind
            /\ loop'[m].ch \notin closed'
        BY <2>1, <2>2, <2>3, <3>1, <3>2
      <3> QED
        BY <3>3 DEF Lives
    <2> QED
      BY <2>3, <2>4 DEF AlertInv, Alerted, Inside
  <1>23. ASSUME NEW l \in Loops, LoopEnds(l) PROVE AlertInv'
    BY <1>23 DEF TypeOK, ChanInv, SerialInv, Inside, AlertInv, Alerted, Lives, LoopEnds, Ended
  <1>24. CASE UNCHANGED vars
    BY <1>24 DEF TypeOK, ChanInv, SerialInv, Inside, AlertInv, Alerted, Lives, vars
  <1> QED
    BY <1>1, <1>2, <1>3, <1>4, <1>5, <1>6, <1>7, <1>8, <1>9, <1>10, <1>11, <1>12, <1>13,
       <1>14, <1>15, <1>16, <1>17, <1>18, <1>19, <1>20, <1>21, <1>22, <1>23, <1>24
       DEF Next, Call, Step, LoopStep

\* Without overlapping calls the places of the token differ only on its way.
LEMMA TokenStep == TypeOK /\ SerialInv /\ OwnedInv /\ TokenInv /\ [Next]_vars => TokenInv'
  <1> SUFFICES ASSUME TypeOK, SerialInv, OwnedInv, TokenInv, [Next]_vars PROVE TokenInv'
    OBVIOUS
  <1> USE DEF core, caller, starting, clients, pushVars, tokens, loopOnly
  <1>1. ASSUME NEW c \in Callers, SignIn(c) PROVE TokenInv'
    BY <1>1 DEF TypeOK, SerialInv, Inside, OwnedInv, TokenInv, Registered, SignIn, Begin, Go
  <1>2. ASSUME NEW c \in Callers, Shutdown(c) PROVE TokenInv'
    BY <1>2 DEF TypeOK, SerialInv, Inside, OwnedInv, TokenInv, Registered, Shutdown, Begin, Go
  <1>3. ASSUME NEW c \in Callers, NEW t \in Tokens, Regenerate(c, t) PROVE TokenInv'
    <2> SUFFICES ASSUME ~overlapped' PROVE TokenInv'
      BY DEF TokenInv
    <2>1. Begin(c, "relay", TRUE)
      BY <1>3 DEF Regenerate
    <2>2. /\ ~overlapped
          /\ \A d \in Callers : at[d] = "idle"
          /\ \A d \in Callers : at'[d] = IF d = c THEN "relay" ELSE "idle"
          /\ UNCHANGED <<core, babies, starting, taken, clients, loop, pushVars,
                         rtmpToken, relayToken, panicked>>
      BY <2>1, BeginIsAlone
    <2>3. newToken'[c] = t /\ fileToken' = t
      BY <1>3 DEF Regenerate, TypeOK
    <2> QED
      BY <2>2, <2>3 DEF TokenInv, Registered
  <1>4. ASSUME WriteFails PROVE TokenInv'
    BY <1>4 DEF TypeOK, SerialInv, Inside, OwnedInv, TokenInv, Registered, WriteFails
  <1>5. ASSUME NEW c \in Callers, SetRelayToken(c) PROVE TokenInv'
    BY <1>5 DEF TypeOK, SerialInv, Inside, OwnedInv, TokenInv, Registered, SetRelayToken, Go
  <1>6. ASSUME NEW c \in Callers, SetRTMPToken(c) PROVE TokenInv'
    <2> SUFFICES ASSUME ~overlapped PROVE TokenInv'
      BY <1>6 DEF SetRTMPToken, TokenInv
    <2>1. /\ rtmpToken' = newToken[c] /\ at[c] = "manager"
          /\ relayToken = newToken[c] /\ fileToken \in {newToken[c], None}
          /\ UNCHANGED <<babies, newToken, tokenOf, hand, fileToken, relayToken, started>>
      BY <1>6 DEF SetRTMPToken, TokenInv
    <2>2. \A d \in Callers : at'[d] = IF d = c THEN AfterSetToken ELSE "idle"
      BY <1>6, <2>1 DEF SetRTMPToken, Go, TypeOK, SerialInv
    <2>3. started => \E d \in Callers : at'[d] = "stop"
      BY <2>2 DEF AfterSetToken
    <2>4. ~started => Registered' = {}
      BY <2>1 DEF OwnedInv, Registered, NoBabies
    <2>5. \A d \in Callers : at'[d] \in {"stop", "idle"}
      BY <2>2 DEF AfterSetToken
    <2> QED
      BY <2>1, <2>3, <2>4, <2>5 DEF TokenInv
  <1>7. ASSUME NEW c \in Callers, BeginStop(c) PROVE TokenInv'
    BY <1>7 DEF TypeOK, SerialInv, Inside, OwnedInv, TokenInv, Registered, BeginStop, Go, CloseChan, AfterStop, StoppedNow, ToStop, EmptiedBabies, NoBabies
  <1>8. ASSUME NEW c \in Callers, StopPush(c) PROVE TokenInv'
    BY <1>8 DEF TypeOK, SerialInv, Inside, OwnedInv, TokenInv, Registered, StopPush, Go, PushStopped
  <1>9. ASSUME NEW c \in Callers, StopClients(c) PROVE TokenInv'
    BY <1>9 DEF TypeOK, SerialInv, Inside, OwnedInv, TokenInv, Registered, StopClients, Go
  <1>10. ASSUME NEW c \in Callers, StopReturns(c) PROVE TokenInv'
    BY <1>10 DEF TypeOK, SerialInv, Inside, OwnedInv, TokenInv, Registered, StopReturns, Go, AfterStop
  <1>11. ASSUME NEW c \in Callers, BeginStart(c) PROVE TokenInv'
    BY <1>11 DEF TypeOK, SerialInv, Inside, OwnedInv, TokenInv, Registered, BeginStart, Go, NewChan, UnusedChan
  <1>12. ASSUME NEW c \in Callers, FetchFails(c) PROVE TokenInv'
    BY <1>12 DEF TypeOK, SerialInv, Inside, OwnedInv, TokenInv, Registered, FetchFails, Go, CloseOnFailure, CloseChan
  <1>13. ASSUME NEW c \in Callers, Fetched(c) PROVE TokenInv'
    BY <1>13 DEF TypeOK, SerialInv, Inside, OwnedInv, TokenInv, Registered, Fetched, Go, NoBabies
  <1>14. ASSUME NEW c \in Callers, BabiesStarted(c) PROVE TokenInv'
    BY <1>14 DEF TypeOK, SerialInv, Inside, OwnedInv, TokenInv, Registered, BabiesStarted, Go
  <1>15. ASSUME NEW c \in Callers, BuildClient(c) PROVE TokenInv'
    BY <1>15 DEF TypeOK, SerialInv, Inside, OwnedInv, TokenInv, Registered, BuildClient, Go, UnusedClient
  <1>16. ASSUME NEW c \in Callers, Register(c) PROVE TokenInv'
    BY <1>16 DEF TypeOK, SerialInv, Inside, OwnedInv, TokenInv, Registered, Register, Go
  <1>17. ASSUME NEW c \in Callers, StartClient(c) PROVE TokenInv'
    BY <1>17 DEF TypeOK, SerialInv, Inside, OwnedInv, TokenInv, Registered, StartClient, Go, AfterBaby
  <1>18. ASSUME NEW c \in Callers, StartPush(c) PROVE TokenInv'
    BY <1>18 DEF TypeOK, SerialInv, Inside, OwnedInv, TokenInv, Registered, StartPush, Go, Spawn, Alive
  <1>19. ASSUME NEW c \in Callers, StartWatchdog(c) PROVE TokenInv'
    BY <1>19 DEF TypeOK, SerialInv, Inside, OwnedInv, TokenInv, Registered, StartWatchdog, Go, Spawn, Alive
  <1>20. ASSUME NEW k \in Clients, ClientStops(k) PROVE TokenInv'
    BY <1>20 DEF TypeOK, SerialInv, Inside, OwnedInv, TokenInv, Registered, ClientStops
  <1>21. ASSUME NEW l \in Loops, LoopSelects(l) PROVE TokenInv'
    BY <1>21 DEF TypeOK, SerialInv, Inside, OwnedInv, TokenInv, Registered, LoopSelects
  <1>22. ASSUME NEW l \in Loops, LoopTicks(l) PROVE TokenInv'
    BY <1>22 DEF TypeOK, SerialInv, Inside, OwnedInv, TokenInv, Registered, LoopTicks
  <1>23. ASSUME NEW l \in Loops, LoopEnds(l) PROVE TokenInv'
    BY <1>23 DEF TypeOK, SerialInv, Inside, OwnedInv, TokenInv, Registered, LoopEnds, Ended
  <1>24. CASE UNCHANGED vars
    BY <1>24 DEF TypeOK, SerialInv, Inside, OwnedInv, TokenInv, Registered, vars
  <1> QED
    BY <1>1, <1>2, <1>3, <1>4, <1>5, <1>6, <1>7, <1>8, <1>9, <1>10, <1>11, <1>12, <1>13,
       <1>14, <1>15, <1>16, <1>17, <1>18, <1>19, <1>20, <1>21, <1>22, <1>23, <1>24
       DEF Next, Call, Step, LoopStep

-----------------------------------------------------------------------------
\* The invariant holds in every reachable state.
THEOREM Invariance == Spec => []IInv
  <1>1. IInv /\ [Next]_vars => IInv'
    BY TypeStep, ChanStep, HandStep, SerialStep, OwnedStep, AlertStep, TokenStep DEF IInv
  <1> QED
    BY InitInv, <1>1, PTL DEF Spec

\* Every variable has its type.
THEOREM TypeCorrect == Spec => []TypeOK
  <1>1. IInv => TypeOK
    BY DEF IInv
  <1> QED
    BY Invariance, <1>1, PTL

\* However calls overlap, Stop of a camera client never runs twice at a time,
\* and no command looks up a client that was stopped.
THEOREM ClientsAreStoppedOnce == Spec => []ClientsStopOnce
  <1>1. IInv => ClientsStopOnce
    BY DEF IInv, HandInv
  <1> QED
    BY Invariance, <1>1, PTL

\* However calls overlap, a loop waits for a channel that is closed or that the
\* next Stop closes.
THEOREM LoopsEnd == Spec => []LoopsCanEnd
  <1>1. IInv => LoopsCanEnd
    BY DEF IInv, ChanInv
  <1> QED
    BY Invariance, <1>1, PTL

\* Without overlapping calls no closed channel is closed.
THEOREM SerialCallsNeverPanic == Spec => []NoPanic
  <1>1. IInv => NoPanic
    BY DEF IInv, SerialInv, NoPanic
  <1> QED
    BY Invariance, <1>1, PTL

\* Without overlapping calls no client runs that nobody could stop.
THEOREM RunningClientsAreOwned == Spec => []RunningIsOwned
  <1>1. IInv => RunningIsOwned
    BY DEF IInv, OwnedInv, Owned, RunningIsOwned
  <1> QED
    BY Invariance, <1>1, PTL

\* Without overlapping calls a started manager has a watchdog, and a listening
\* push receiver or a poll loop.
THEOREM StartedManagersAreSupervised == Spec => []StartedIsSupervised
  <1>1. IInv => StartedIsSupervised
    BY DEF IInv, AlertInv, Alerted, Lives, Inside, Idle, Alive, StartedIsSupervised
  <1> QED
    BY Invariance, <1>1, PTL

\* Without overlapping calls nothing of a stopped manager goes on but its loops.
THEOREM StoppedManagersAreQuiet == Spec => []StoppedIsQuiet
  <1>1. IInv => StoppedIsQuiet
    BY DEF IInv, TypeOK, AlertInv, OwnedInv, Owned, Registered, NoBabies, Idle,
           StoppedIsQuiet
  <1> QED
    BY Invariance, <1>1, PTL

\* Without overlapping calls file, relay, manager and cameras have one token.
THEOREM TokensAreEqual == Spec => []TokensAgree
  <1>1. IInv => TokensAgree
    BY DEF IInv, TokenInv, Idle, TokensAgree
  <1> QED
    BY Invariance, <1>1, PTL

\* A step that neither enters nor leaves PushReceiver.Start and does not stop the receiver
\* is none of the receiver's.
LEMMA OtherSteps ==
  ASSUME TypeOK, NEW c \in Callers, NEW place, at[c] # "push", place # "push",
         Go(c, place), UNCHANGED pushVars
  PROVE  UNCHANGED Receiver!vars
  <1>1. (\E d \in Callers : at[d] = "push")' <=> \E d \in Callers : at[d] = "push"
    BY DEF Go, TypeOK
  <1> QED
    BY <1>1 DEF Receiver!vars, pushVars

\* The manager calls the receiver one Start or Stop at a time.
LEMMA ReceiverStep == TypeOK /\ SerialInv /\ Next /\ ~overlapped' =>
                        Receiver!Next \/ UNCHANGED Receiver!vars
  <1> SUFFICES ASSUME TypeOK, SerialInv, Next, ~overlapped'
               PROVE  Receiver!Next \/ UNCHANGED Receiver!vars
    OBVIOUS
  <1> DEFINE Used == Receiver!Next \/ UNCHANGED Receiver!vars
             InPush == \E d \in Callers : at[d] = "push"
  <1>1. ASSUME NEW c \in Callers, NEW place \in {"start", "stop", "relay"}, NEW start,
               Begin(c, place, start)
        PROVE  Used
    BY <1>1, OtherSteps DEF Begin
  <1>2. ASSUME NEW c \in Callers, Call(c) PROVE Used
    BY <1>1, <1>2 DEF Call, SignIn, Shutdown, Regenerate
  <1>3. ASSUME UNCHANGED <<caller, pushVars>> PROVE Used
    <2>1. at' = at
      BY <1>3 DEF caller
    <2> QED
      BY <1>3, <2>1 DEF Receiver!vars, pushVars
  <1>4. ASSUME WriteFails \/ (\E k \in Clients : ClientStops(k)) \/ \E l \in Loops : LoopStep(l)
        PROVE  Used
    BY <1>3, <1>4 DEF WriteFails, ClientStops, LoopStep, LoopSelects, LoopTicks, LoopEnds, loopOnly
  <1>5. ASSUME NEW c \in Callers, SetRelayToken(c) \/ SetRTMPToken(c) PROVE Used
    BY <1>5, OtherSteps DEF SetRelayToken, SetRTMPToken, AfterSetToken
  <1>6. ASSUME NEW c \in Callers, BeginStop(c) \/ StopClients(c) \/ StopReturns(c) PROVE Used
    BY <1>6, OtherSteps DEF BeginStop, StopClients, StopReturns, AfterStop
  <1>7. ASSUME NEW c \in Callers, BeginStart(c) \/ FetchFails(c) \/ Fetched(c) PROVE Used
    BY <1>7, OtherSteps DEF BeginStart, FetchFails, Fetched
  <1>8. ASSUME NEW c \in Callers, BuildClient(c) \/ Register(c) \/ StartClient(c) PROVE Used
    BY <1>8, OtherSteps DEF BuildClient, Register, StartClient, AfterBaby
  <1>9. ASSUME NEW c \in Callers, StartWatchdog(c) PROVE Used
    BY <1>9, OtherSteps DEF StartWatchdog
  <1>10. ASSUME NEW c \in Callers, BabiesStarted(c) PROVE Used
    <2>1. ~InPush /\ InPush'
      BY <1>10 DEF BabiesStarted, Go, TypeOK, SerialInv
    <2>2. Receiver!BeginStart
      BY <1>10, <2>1 DEF BabiesStarted, pushVars, Receiver!BeginStart
    <2> QED
      BY <2>2 DEF Receiver!Next
  <1>11. ASSUME NEW c \in Callers, StartPush(c) PROVE Used
    <2>1. InPush /\ ~InPush'
      BY <1>11 DEF StartPush, Go, TypeOK, SerialInv
    <2>2. Receiver!Started \/ Receiver!Failed
      BY <1>11, <2>1 DEF StartPush, Receiver!Started, Receiver!Failed
    <2> QED
      BY <2>2 DEF Receiver!Next
  <1>12. ASSUME NEW c \in Callers, StopPush(c) PROVE Used
    <2>1. ~InPush /\ ~InPush'
      BY <1>12 DEF StopPush, Go, TypeOK, SerialInv
    <2>2. Receiver!Stop
      BY <1>12, <2>1 DEF StopPush, PushStopped, Receiver!Stop
    <2> QED
      BY <2>2 DEF Receiver!Next
  <1> HIDE DEF Used
  <1>13. ASSUME NEW c \in Callers, Step(c) PROVE Used
    BY <1>5, <1>6, <1>7, <1>8, <1>9, <1>10, <1>11, <1>12, <1>13 DEF Step
  <1>14. Used
    BY <1>2, <1>4, <1>13 DEF Next
  <1> QED
    BY <1>14 DEF Used

\* While calls do not overlap, the steps of the manager at the push receiver are steps of
\* the service that PushReceiver implements.
THEOREM ReceiverIsUsedAsPromised == Spec => ReceiverIsUsed
  <1>1. IInv /\ [Next]_vars => [~overlapped' => Receiver!Next \/ UNCHANGED Receiver!vars]_vars
    BY ReceiverStep DEF IInv
  <1> QED
    BY Invariance, <1>1, PTL DEF Spec, ReceiverIsUsed
-----------------------------------------------------------------------------
(* The clients.                                                            *)

\* What startBaby holds has not been started; without overlapping calls what Stop takes
\* has.
UseInv ==
    /\ \A c \in Callers : hand[c] \notin up
    /\ ~overlapped =>
          /\ \A k \in Registered : k \in up \/ \E c \in Callers : hand[c] = k
          /\ \A c \in Callers : taken[c] \subseteq up
          /\ ending \subseteq up

\* A step that touches no client keeps it.
LEMMA UseKept ==
  ASSUME UseInv, UNCHANGED <<hand, up, ending, taken, babies>>, overlapped => overlapped'
  PROVE  UseInv'
  BY DEF UseInv, Registered

\* Every step keeps it.
LEMMA UseStep == IInv /\ UseInv /\ [Next]_vars => UseInv'
  <1> SUFFICES ASSUME IInv, UseInv, [Next]_vars PROVE UseInv'
    OBVIOUS
  <1> USE DEF core, caller, starting, clients, pushVars, tokens, loopOnly
  <1>0. TypeOK /\ HandInv /\ SerialInv
    BY DEF IInv
  <1>1. ASSUME NEW c \in Callers, Call(c) PROVE UseInv'
    BY <1>1, UseKept DEF Call, SignIn, Shutdown, Regenerate, Begin
  <1>2. ASSUME NEW c \in Callers,
               \/ SetRelayToken(c) \/ SetRTMPToken(c) \/ StopPush(c) \/ StopReturns(c)
               \/ BeginStart(c) \/ FetchFails(c)
        PROVE  UseInv'
    BY <1>2, UseKept DEF SetRelayToken, SetRTMPToken, StopPush, StopReturns, BeginStart,
       FetchFails
  <1>3. ASSUME NEW c \in Callers, BabiesStarted(c) \/ StartPush(c) \/ StartWatchdog(c)
        PROVE  UseInv'
    BY <1>3, UseKept DEF BabiesStarted, StartPush, StartWatchdog
  <1>4. ASSUME NEW c \in Callers, BeginStop(c) PROVE UseInv'
    <2>1. CASE ~started
      BY <1>4, <2>1, UseKept DEF BeginStop
    <2>2. CASE started
      <3>1. /\ at[c] = "stop" /\ taken' = [taken EXCEPT ![c] = Registered]
            /\ babies' = NoBabies /\ UNCHANGED <<hand, up, ending, overlapped>>
        BY <1>4, <2>2 DEF BeginStop, ToStop, EmptiedBabies
      <3>2. ~overlapped => \A d \in Callers : hand[d] = None
        BY <1>0, <3>1 DEF TypeOK, SerialInv
      <3>3. ~overlapped => Registered \subseteq up
        BY <3>2 DEF UseInv, Registered
      <3>4. Registered' = {}
        BY <3>1 DEF NoBabies, Registered
      <3> QED
        BY <1>0, <3>1, <3>3, <3>4 DEF TypeOK, UseInv
    <2> QED
      BY <2>1, <2>2
  <1>5. ASSUME NEW c \in Callers, StopClients(c) PROVE UseInv'
    BY <1>0, <1>5 DEF StopClients, TypeOK, UseInv, Registered
  <1>6. ASSUME NEW c \in Callers, Fetched(c) PROVE UseInv'
    <2>1. Registered' = {}
      BY <1>6 DEF Fetched, NoBabies, Registered
    <2> QED
      BY <1>6, <2>1 DEF Fetched, UseInv
  <1>7. ASSUME NEW c \in Callers, BuildClient(c) PROVE UseInv'
    <2>1. PICK k \in Clients :
             /\ UnusedClient(k)
             /\ hand' = [hand EXCEPT ![c] = k] /\ up' = up \ {k}
      BY <1>7 DEF BuildClient
    <2>2. hand[c] = None /\ UNCHANGED <<babies, overlapped, taken, ending>>
      BY <1>0, <1>7 DEF BuildClient, TypeOK
    <2>3. Registered' = Registered /\ k \notin Registered
      BY <2>1, <2>2 DEF UnusedClient, Registered
    <2>4. \A d \in Callers : hand'[d] \notin up'
      BY <1>0, <2>1 DEF TypeOK, UseInv
    <2>5. ASSUME ~overlapped, NEW j \in Registered PROVE j \in up' \/ \E d \in Callers : hand'[d] = j
      BY <1>0, <2>1, <2>2, <2>3, <2>5 DEF TypeOK, UseInv, Registered
    <2>6. ASSUME ~overlapped PROVE (\A d \in Callers : taken[d] \subseteq up') /\ ending \subseteq up'
      BY <2>1, <2>6 DEF UnusedClient, UseInv
    <2> QED
      BY <2>2, <2>3, <2>4, <2>5, <2>6 DEF UseInv
  <1>8. ASSUME NEW c \in Callers, Register(c) PROVE UseInv'
    <2>1. Registered' \subseteq Registered \cup {hand[c]}
      BY <1>0, <1>8 DEF Register, TypeOK, Registered
    <2> QED
      BY <1>8, <2>1 DEF Register, UseInv
  <1>9. ASSUME NEW c \in Callers, StartClient(c) PROVE UseInv'
    <2>1. Registered' = Registered
      BY <1>9 DEF StartClient, Registered
    <2> QED
      BY <1>0, <1>9, <2>1 DEF StartClient, TypeOK, HandInv, UseInv, Registered
  <1>10. ASSUME NEW k \in Clients, ClientStops(k) PROVE UseInv'
    BY <1>10 DEF ClientStops, UseInv, Registered
  <1>11. ASSUME WriteFails \/ \E l \in Loops : LoopStep(l) PROVE UseInv'
    <2>1. UNCHANGED <<hand, up, ending, taken, babies, overlapped>>
      BY <1>11 DEF WriteFails, LoopStep, LoopSelects, LoopTicks, LoopEnds
    <2> QED
      BY <2>1, UseKept
  <1>12. ASSUME UNCHANGED vars PROVE UseInv'
    BY <1>12, UseKept DEF vars
  <1> QED
    BY <1>1, <1>2, <1>3, <1>4, <1>5, <1>6, <1>7, <1>8, <1>9, <1>10, <1>11, <1>12
       DEF Next, Step

\* What startBaby holds has not been started, and what a lone Stop takes has.
LEMMA StartedBeforeStopped == Spec => []UseInv
  <1>1. Init => UseInv
    BY DEF Init, UseInv, Registered, NoBabies
  <1> QED
    BY <1>1, UseStep, Invariance, PTL DEF Spec

\* Clients that change their stage together, and no other does.
LEMMA Together ==
  ASSUME NEW K \in SUBSET Clients, NEW from, NEW to,
         \A k \in K : Stage(k) \in from /\ Stage(k)' = to,
         \A k \in Clients \ K : Stage(k)' = Stage(k)
  PROVE  Use!Become(K, from, to)
  BY DEF Use!Become

\* A step that touches no client is none of theirs.
LEMMA StagesKept == UNCHANGED <<hand, up, down, ending>> => UNCHANGED Use!vars
  BY DEF Use!vars, Stage

\* Without overlapping calls every step uses the clients as they want to be.
LEMMA StageStep ==
  IInv /\ UseInv /\ Next /\ ~overlapped' => Use!Next \/ UNCHANGED Use!vars
  <1> SUFFICES ASSUME IInv, UseInv, Next, ~overlapped' PROVE Use!Next \/ UNCHANGED Use!vars
    OBVIOUS
  <1> DEFINE Used == Use!Next \/ UNCHANGED Use!vars
  <1> USE DEF core, caller, starting, clients, pushVars, tokens, loopOnly
  <1>0. TypeOK /\ HandInv /\ SerialInv /\ OwnedInv
    BY DEF IInv
  <1>1. ASSUME NEW c \in Callers, Call(c) PROVE Used
    BY <1>1, StagesKept DEF Call, SignIn, Shutdown, Regenerate, Begin
  <1>2. ASSUME NEW c \in Callers,
               \/ SetRelayToken(c) \/ SetRTMPToken(c) \/ BeginStop(c) \/ StopPush(c)
               \/ StopReturns(c) \/ BeginStart(c) \/ FetchFails(c)
        PROVE  Used
    BY <1>2, StagesKept DEF SetRelayToken, SetRTMPToken, BeginStop, StopPush, StopReturns,
       BeginStart, FetchFails
  <1>3. ASSUME NEW c \in Callers,
               Fetched(c) \/ BabiesStarted(c) \/ Register(c) \/ StartPush(c) \/ StartWatchdog(c)
        PROVE  Used
    BY <1>3, StagesKept DEF Fetched, BabiesStarted, Register, StartPush, StartWatchdog
  <1>4. ASSUME WriteFails \/ \E l \in Loops : LoopStep(l) PROVE Used
    BY <1>4, StagesKept DEF WriteFails, LoopStep, LoopSelects, LoopTicks, LoopEnds
  <1>5. ASSUME NEW c \in Callers, BuildClient(c) PROVE Used
    <2>1. PICK k \in Clients :
             /\ UnusedClient(k)
             /\ hand' = [hand EXCEPT ![c] = k]
             /\ up' = up \ {k} /\ down' = down \ {k} /\ ending' = ending
      BY <1>5 DEF BuildClient
    <2>2. hand[c] = None
      BY <1>0, <1>5 DEF BuildClient, TypeOK
    <2>3. Stage(k) \in {"none", "stopped"} /\ Stage(k)' = "built"
      BY <1>0, <2>1 DEF Stage, UnusedClient, Running, TypeOK
    <2>4. \A j \in Clients \ {k} : Stage(j)' = Stage(j)
      BY <1>0, <2>1, <2>2 DEF Stage, TypeOK
    <2>5. Use!Build(k)
      BY <2>3, <2>4, Together DEF Use!Build
    <2> QED
      BY <2>5 DEF Use!Next
  <1>6. ASSUME NEW c \in Callers, StartClient(c) PROVE Used
    <2>0. PICK k \in Clients : k = hand[c]
      BY <1>0, <1>6 DEF StartClient, TypeOK
    <2>1. /\ at[c] = "registered" /\ hand' = [hand EXCEPT ![c] = None]
          /\ up' = up \cup {k} /\ UNCHANGED <<down, ending, overlapped>>
      BY <1>6, <2>0 DEF StartClient
    <2>2. k \in Registered
      BY <1>0, <2>0, <2>1 DEF TypeOK, OwnedInv, Registered
    <2>3. k \notin ending \cup down \cup up
      BY <1>0, <2>0, <2>2 DEF HandInv, ClientsStopOnce, UseInv
    <2>4. Stage(k) \in {"built"} /\ Stage(k)' = "running"
      BY <2>0, <2>1, <2>3 DEF Stage
    <2>5. \A j \in Clients \ {k} : Stage(j)' = Stage(j)
      BY <1>0, <2>0, <2>1 DEF Stage, TypeOK
    <2>6. Use!Start(k)
      BY <2>4, <2>5, Together DEF Use!Start
    <2> QED
      BY <2>2, <2>6 DEF Use!Next
  <1>7. ASSUME NEW c \in Callers, StopClients(c) PROVE Used
    <2> DEFINE K == taken[c]
    <2>1. ending' = ending \cup K /\ UNCHANGED <<hand, up, down, overlapped>>
      BY <1>7 DEF StopClients
    <2>2. K \in SUBSET Clients /\ K \cap (ending \cup down) = {} /\ K \subseteq up
      BY <1>0, <2>1 DEF TypeOK, HandInv, ClientsStopOnce, UseInv
    <2>3. \A k \in K : Stage(k) \in {"running"} /\ Stage(k)' = "stopping"
      BY <2>1, <2>2 DEF Stage
    <2>4. \A k \in Clients \ K : Stage(k)' = Stage(k)
      BY <2>1 DEF Stage
    <2>5. Use!Stop(K)
      BY <2>2, <2>3, <2>4, Together DEF Use!Stop
    <2>6. CASE K = {}
      BY <2>1, <2>6, StagesKept
    <2> QED
      BY <2>2, <2>5, <2>6 DEF Use!Next
  <1>8. ASSUME NEW k \in Clients, ClientStops(k) PROVE Used
    <2>1. /\ k \in ending /\ ending' = ending \ {k} /\ down' = down \cup {k}
          /\ UNCHANGED <<hand, up>>
      BY <1>8 DEF ClientStops
    <2>2. Stage(k) \in {"stopping"} /\ Stage(k)' = "stopped"
      BY <2>1 DEF Stage
    <2>3. \A j \in Clients \ {k} : Stage(j)' = Stage(j)
      BY <2>1 DEF Stage
    <2>4. Use!StopReturns(k)
      BY <2>2, <2>3, Together DEF Use!StopReturns
    <2> QED
      BY <2>4 DEF Use!Next
  <1> QED
    BY <1>1, <1>2, <1>3, <1>4, <1>5, <1>6, <1>7, <1>8 DEF Next, Step

\* While calls do not overlap, each client is started once and then stopped by one
\* goroutine: Start, Stop and Restart (manager.go:72-165) never start a client that was
\* stopped and never call its Stop again, although Stop returns before the clients do.
THEOREM ClientsAreUsedAsPromised == Spec => ClientsAreUsed
  <1>1. IInv /\ UseInv /\ [Next]_vars => [~overlapped' => Use!Next \/ UNCHANGED Use!vars]_vars
    BY StageStep
  <1> QED
    BY <1>1, StartedBeforeStopped, Invariance, PTL DEF Spec, ClientsAreUsed
=============================================================================
