--------------------------- MODULE PushReceiverProofs ---------------------------
(***************************************************************************)
(* Proofs about PushReceiver, for any devices and any number of loops: its *)
(* properties, of the liveness one the safety part, and that it implements *)
(* PushService.                                                            *)
(* The heart is LoopInv: the loop a Start has spawned has seen no Stop, so *)
(* it is alive until the next one, whatever older loops do.                *)
(***************************************************************************)
EXTENDS PushReceiver, FiniteSetTheorems, TLAPS

\* Where a call is, and what it has at hand there.
PlaceInv ==
    /\ call \in {"saving", "locking", "registering"} => found # None
    /\ call \in {"registering", "recording", "spawning"} =>
           running /\ ~spawned /\ creds # None
    /\ spawned => running /\ creds # None
    /\ call = "stopping" => ~running /\ ~active

\* A Start that registers found no registered device in the file.
SaveInv ==
    /\ call = "saving" => file = None /\ ~found.known
    /\ call = "locking" => file \in {None, found}
    /\ call = "registering" => creds = found /\ ~found.known /\ file \in {None, found}

\* Credentials with an id, and those a loop is started with, are registered.
KeyInv ==
    ~astray => /\ file # None /\ file.known => file.device \in cloud
               /\ found # None /\ found.known => found.device \in cloud
               /\ creds # None /\ creds.known => creds.device \in cloud
               /\ call \in {"recording", "spawning"} \/ spawned => creds.device \in cloud

\* Only a loop that runs has seen a Stop; the one that was spawned last has not.
LoopInv ==
    /\ stale \subseteq Alive
    /\ spawned => \E l \in Loops : loop[l] # "none" /\ l \notin stale

\* What is left when no Stop gave up.
GroupInv ==
    ~gaveUp => /\ waiter # "none" => call = "stopping"
               /\ ~spawned /\ waiter # "blocked" => Alive = {}
               /\ \A l, m \in Loops : loop[l] # "none" /\ loop[m] # "none" => l = m
-----------------------------------------------------------------------------
\* Every step keeps the types.
LEMMA TypeStep ==
  TypeOK /\ PlaceInv /\ [Next]_vars => TypeOK'
  <1> SUFFICES ASSUME TypeOK, PlaceInv, [Next]_vars PROVE TypeOK'
    OBVIOUS
  <1> USE NoneAssumption DEF caller, keys, listener, aside
  <1>1. ASSUME BeginStart PROVE TypeOK'
    BY <1>1 DEF TypeOK, Credentials, Calls, LoopStates, BeginStart
  <1>2. ASSUME Load PROVE TypeOK'
    BY <1>2 DEF TypeOK, Credentials, Calls, LoopStates, Load
  <1>3. ASSUME NEW d \in Devices, Register(d) PROVE TypeOK'
    BY <1>3 DEF TypeOK, Credentials, Calls, LoopStates, Register
  <1>4. ASSUME RegisterFails PROVE TypeOK'
    BY <1>4 DEF TypeOK, Credentials, Calls, LoopStates, RegisterFails, Return
  <1>5. ASSUME Save PROVE TypeOK'
    BY <1>5 DEF TypeOK, Credentials, Calls, LoopStates, Save, Saved
  <1>6. ASSUME AlreadyRunning PROVE TypeOK'
    BY <1>6 DEF TypeOK, Credentials, Calls, LoopStates, AlreadyRunning, Return
  <1>7. ASSUME SetRunning PROVE TypeOK'
    BY <1>7 DEF TypeOK, Credentials, Calls, LoopStates, SetRunning, AfterLock
  <1>8. ASSUME RegisterWithNanit PROVE TypeOK'
    <2>1. /\ found' = found /\ active' = active /\ file' = file /\ running' = running
          /\ spawned' = spawned /\ loop' = loop /\ stale' = stale /\ client' = client
          /\ waiter' = waiter /\ gaveUp' = gaveUp
      BY <1>8 DEF RegisterWithNanit, PlaceInv
    <2>2. (call \in Calls)'
      BY <1>8 DEF Calls, RegisterWithNanit, PlaceInv
    <2>3. (creds \in Credentials \cup {None})'
      BY <1>8 DEF TypeOK, Credentials, RegisterWithNanit, PlaceInv
    <2>4. (cloud \subseteq Devices)'
      BY <1>8 DEF TypeOK, Credentials, RegisterWithNanit, PlaceInv
    <2>5. (astray \in BOOLEAN)'
      BY <1>8 DEF RegisterWithNanit, PlaceInv
    <2> QED
      BY <2>1, <2>2, <2>3, <2>4, <2>5 DEF TypeOK
  <1>9. ASSUME NanitFails PROVE TypeOK'
    <2>1. /\ creds' = creds /\ file' = file /\ running' = running /\ spawned' = spawned
          /\ loop' = loop /\ stale' = stale /\ client' = client /\ waiter' = waiter
          /\ gaveUp' = gaveUp /\ astray' = astray
      BY <1>9 DEF NanitFails, Return, PlaceInv
    <2>2. (call \in Calls)'
      BY <1>9 DEF Calls, NanitFails, Return, PlaceInv
    <2>3. (found \in Credentials \cup {None})'
      BY <1>9 DEF NanitFails, Return, PlaceInv
    <2>4. (active \in BOOLEAN)'
      BY <1>9 DEF NanitFails, Return, PlaceInv
    <2>5. (cloud \subseteq Devices)'
      BY <1>9 DEF TypeOK, Credentials, NanitFails, Return, PlaceInv
    <2> QED
      BY <2>1, <2>2, <2>3, <2>4, <2>5 DEF TypeOK
  <1>10. ASSUME Record PROVE TypeOK'
    BY <1>10 DEF TypeOK, Credentials, Calls, LoopStates, Record, Saved
  <1>11. ASSUME NEW l \in Loops, Spawn(l) PROVE TypeOK'
    BY <1>11 DEF TypeOK, Credentials, Calls, LoopStates, Spawn, Return
  <1>12. ASSUME StopIdle PROVE TypeOK'
    BY <1>12 DEF TypeOK, Credentials, Calls, LoopStates, StopIdle, Return
  <1>13. ASSUME BeginStop PROVE TypeOK'
    <2>1. /\ found' = found /\ creds' = creds /\ file' = file /\ cloud' = cloud
          /\ client' = client /\ gaveUp' = gaveUp /\ astray' = astray
      BY <1>13 DEF BeginStop, CloseClient, Told, Alive
    <2>2. (call \in Calls)'
      BY <1>13 DEF Calls, BeginStop, CloseClient, Told, Alive
    <2>3. (active \in BOOLEAN)'
      BY <1>13 DEF BeginStop, CloseClient, Told, Alive
    <2>4. (running \in BOOLEAN)'
      BY <1>13 DEF BeginStop, CloseClient, Told, Alive
    <2>5. (spawned \in BOOLEAN)'
      BY <1>13 DEF BeginStop, CloseClient, Told, Alive
    <2>6. (loop \in [Loops -> LoopStates])'
      BY <1>13 DEF TypeOK, LoopStates, BeginStop, CloseClient, Told, Alive
    <2>7. (stale \subseteq Loops)'
      BY <1>13 DEF TypeOK, BeginStop, CloseClient, Told, Alive
    <2>8. (waiter \in {"none", "blocked", "woken"})'
      BY <1>13 DEF TypeOK, BeginStop, CloseClient, Told, Alive
    <2> QED
      BY <2>1, <2>2, <2>3, <2>4, <2>5, <2>6, <2>7, <2>8 DEF TypeOK
  <1>14. ASSUME StopReturns PROVE TypeOK'
    BY <1>14 DEF TypeOK, Credentials, Calls, LoopStates, StopReturns, Return, Waited
  <1>15. ASSUME StopGivesUp PROVE TypeOK'
    BY <1>15 DEF TypeOK, Credentials, Calls, LoopStates, StopGivesUp, Return
  <1>16. ASSUME WaiterReturns PROVE TypeOK'
    <2>1. /\ call' = call /\ found' = found /\ active' = active /\ creds' = creds
          /\ file' = file /\ cloud' = cloud /\ running' = running /\ spawned' = spawned
          /\ loop' = loop /\ stale' = stale /\ client' = client /\ astray' = astray
      BY <1>16 DEF WaiterReturns
    <2>2. (waiter \in {"none", "blocked", "woken"})'
      BY <1>16 DEF TypeOK, WaiterReturns
    <2>3. (gaveUp \in BOOLEAN)'
      BY <1>16 DEF TypeOK, WaiterReturns
    <2> QED
      BY <2>1, <2>2, <2>3 DEF TypeOK
  <1>17. ASSUME NEW l \in Loops, SeesStop(l) PROVE TypeOK'
    BY <1>17 DEF TypeOK, Credentials, Calls, LoopStates, SeesStop
  <1>18. ASSUME NEW l \in Loops, MakeClient(l) PROVE TypeOK'
    BY <1>18 DEF TypeOK, Credentials, Calls, LoopStates, MakeClient, Goes
  <1>19. ASSUME NEW l \in Loops, LoadKeysFails(l) PROVE TypeOK'
    BY <1>19 DEF TypeOK, Credentials, Calls, LoopStates, LoadKeysFails, Goes
  <1>20. ASSUME NEW l \in Loops, Store(l) PROVE TypeOK'
    BY <1>20 DEF TypeOK, Credentials, Calls, LoopStates, Store, Goes
  <1>21. ASSUME NEW l \in Loops, Connect(l) PROVE TypeOK'
    BY <1>21 DEF TypeOK, Credentials, Calls, LoopStates, Connect, Goes, AfterListening
  <1>22. ASSUME NEW l \in Loops, ClosedReturns(l) PROVE TypeOK'
    BY <1>22 DEF TypeOK, Credentials, Calls, LoopStates, ClosedReturns, Goes,
       AfterListening
  <1>23. ASSUME NEW l \in Loops, WaitEnds(l) PROVE TypeOK'
    BY <1>23 DEF TypeOK, Credentials, Calls, LoopStates, WaitEnds, Goes
  <1>24. ASSUME NEW l \in Loops, ConnectionLost(l) PROVE TypeOK'
    BY <1>24 DEF TypeOK, Credentials, Calls, LoopStates, ConnectionLost, Goes,
       AfterListening
  <1>25. ASSUME SignIn PROVE TypeOK'
    BY <1>25 DEF TypeOK, Credentials, Calls, LoopStates, SignIn
  <1>26. ASSUME Crash PROVE TypeOK'
    <2>1. /\ cloud' = cloud /\ astray' = astray
      BY <1>26 DEF Crash, Return
    <2>2. (call \in Calls)'
      BY <1>26 DEF Calls, Crash, Return
    <2>3. (found \in Credentials \cup {None})'
      BY <1>26 DEF Crash, Return
    <2>4. (active \in BOOLEAN)'
      BY <1>26 DEF Crash, Return
    <2>5. (creds \in Credentials \cup {None})'
      BY <1>26 DEF TypeOK, Credentials, Crash, Return
    <2>6. (file \in Credentials \cup {None})'
      BY <1>26 DEF TypeOK, Crash, Return
    <2>7. (running \in BOOLEAN)'
      BY <1>26 DEF Crash, Return
    <2>8. (spawned \in BOOLEAN)'
      BY <1>26 DEF Crash, Return
    <2>9. (loop \in [Loops -> LoopStates])'
      BY <1>26 DEF TypeOK, LoopStates, Crash, Return
    <2>10. (stale \subseteq Loops)'
      BY <1>26 DEF TypeOK, Crash, Return
    <2>11. (client \in Loops \cup {None})'
      BY <1>26 DEF TypeOK, Crash, Return
    <2>12. (waiter \in {"none", "blocked", "woken"})'
      BY <1>26 DEF TypeOK, Crash, Return
    <2>13. (gaveUp \in BOOLEAN)'
      BY <1>26 DEF TypeOK, Crash, Return
    <2> QED
      BY <2>1, <2>2, <2>3, <2>4, <2>5, <2>6, <2>7, <2>8, <2>9, <2>10, <2>11,
         <2>12, <2>13 DEF TypeOK
  <1>27. ASSUME Panic PROVE TypeOK'
    BY <1>27 DEF TypeOK, Credentials, Calls, LoopStates, Panic, Crash, Return
  <1>28. CASE UNCHANGED vars
    BY <1>28 DEF TypeOK, Credentials, Calls, LoopStates, vars
  <1> QED
    BY <1>1, <1>2, <1>3, <1>4, <1>5, <1>6, <1>7, <1>8, <1>9, <1>10, <1>11, <1>12,
       <1>13, <1>14, <1>15, <1>16, <1>17, <1>18, <1>19, <1>20, <1>21, <1>22, <1>23,
       <1>24, <1>25, <1>26, <1>27, <1>28 DEF Next, Start, Stop, Listen

\* A call goes from place to place.
LEMMA PlaceStep ==
  TypeOK /\ PlaceInv /\ [Next]_vars => PlaceInv'
  <1> SUFFICES ASSUME TypeOK, PlaceInv, [Next]_vars PROVE PlaceInv'
    OBVIOUS
  <1> USE NoneAssumption DEF caller, keys, listener, aside
  <1>1. ASSUME BeginStart PROVE PlaceInv'
    BY <1>1 DEF TypeOK, Credentials, Calls, LoopStates, PlaceInv, BeginStart
  <1>2. ASSUME Load PROVE PlaceInv'
    BY <1>2 DEF TypeOK, Credentials, Calls, LoopStates, PlaceInv, Load
  <1>3. ASSUME NEW d \in Devices, Register(d) PROVE PlaceInv'
    <2>1. [device |-> d, known |-> FALSE] \in Credentials
      BY DEF Credentials
    <2>2. found' # None
      BY <1>3, <2>1 DEF Register
    <2> QED
      BY <1>3, <2>2 DEF PlaceInv, Register
  <1>4. ASSUME RegisterFails PROVE PlaceInv'
    BY <1>4 DEF TypeOK, Credentials, Calls, LoopStates, PlaceInv, RegisterFails, Return
  <1>5. ASSUME Save PROVE PlaceInv'
    BY <1>5 DEF TypeOK, Credentials, Calls, LoopStates, PlaceInv, Save, Saved
  <1>6. ASSUME AlreadyRunning PROVE PlaceInv'
    BY <1>6 DEF TypeOK, Credentials, Calls, LoopStates, PlaceInv, AlreadyRunning, Return
  <1>7. ASSUME SetRunning PROVE PlaceInv'
    BY <1>7 DEF TypeOK, Credentials, Calls, LoopStates, PlaceInv, SetRunning, AfterLock
  <1>8. ASSUME RegisterWithNanit PROVE PlaceInv'
    BY <1>8 DEF TypeOK, Credentials, Calls, LoopStates, PlaceInv, RegisterWithNanit
  <1>9. ASSUME NanitFails PROVE PlaceInv'
    BY <1>9 DEF TypeOK, Credentials, Calls, LoopStates, PlaceInv, NanitFails, Return
  <1>10. ASSUME Record PROVE PlaceInv'
    BY <1>10 DEF TypeOK, Credentials, Calls, LoopStates, PlaceInv, Record, Saved
  <1>11. ASSUME NEW l \in Loops, Spawn(l) PROVE PlaceInv'
    BY <1>11 DEF TypeOK, Credentials, Calls, LoopStates, PlaceInv, Spawn, Return
  <1>12. ASSUME StopIdle PROVE PlaceInv'
    BY <1>12 DEF TypeOK, Credentials, Calls, LoopStates, PlaceInv, StopIdle, Return
  <1>13. ASSUME BeginStop PROVE PlaceInv'
    BY <1>13 DEF TypeOK, Credentials, Calls, LoopStates, PlaceInv, BeginStop,
       CloseClient, Told
  <1>14. ASSUME StopReturns PROVE PlaceInv'
    BY <1>14 DEF TypeOK, Credentials, Calls, LoopStates, PlaceInv, StopReturns,
       Return, Waited
  <1>15. ASSUME StopGivesUp PROVE PlaceInv'
    BY <1>15 DEF TypeOK, Credentials, Calls, LoopStates, PlaceInv, StopGivesUp, Return
  <1>16. ASSUME WaiterReturns PROVE PlaceInv'
    BY <1>16 DEF TypeOK, Credentials, Calls, LoopStates, PlaceInv, WaiterReturns
  <1>17. ASSUME NEW l \in Loops, SeesStop(l) PROVE PlaceInv'
    BY <1>17 DEF TypeOK, Credentials, Calls, LoopStates, PlaceInv, SeesStop
  <1>18. ASSUME NEW l \in Loops, MakeClient(l) PROVE PlaceInv'
    BY <1>18 DEF TypeOK, Credentials, Calls, LoopStates, PlaceInv, MakeClient, Goes
  <1>19. ASSUME NEW l \in Loops, LoadKeysFails(l) PROVE PlaceInv'
    BY <1>19 DEF TypeOK, Credentials, Calls, LoopStates, PlaceInv, LoadKeysFails, Goes
  <1>20. ASSUME NEW l \in Loops, Store(l) PROVE PlaceInv'
    BY <1>20 DEF TypeOK, Credentials, Calls, LoopStates, PlaceInv, Store, Goes
  <1>21. ASSUME NEW l \in Loops, Connect(l) PROVE PlaceInv'
    BY <1>21 DEF TypeOK, Credentials, Calls, LoopStates, PlaceInv, Connect, Goes,
       AfterListening
  <1>22. ASSUME NEW l \in Loops, ClosedReturns(l) PROVE PlaceInv'
    BY <1>22 DEF TypeOK, Credentials, Calls, LoopStates, PlaceInv, ClosedReturns,
       Goes, AfterListening
  <1>23. ASSUME NEW l \in Loops, WaitEnds(l) PROVE PlaceInv'
    BY <1>23 DEF TypeOK, Credentials, Calls, LoopStates, PlaceInv, WaitEnds, Goes
  <1>24. ASSUME NEW l \in Loops, ConnectionLost(l) PROVE PlaceInv'
    BY <1>24 DEF TypeOK, Credentials, Calls, LoopStates, PlaceInv, ConnectionLost,
       Goes, AfterListening
  <1>25. ASSUME SignIn PROVE PlaceInv'
    BY <1>25 DEF TypeOK, Credentials, Calls, LoopStates, PlaceInv, SignIn
  <1>26. ASSUME Crash PROVE PlaceInv'
    BY <1>26 DEF TypeOK, Credentials, Calls, LoopStates, PlaceInv, Crash, Return
  <1>27. ASSUME Panic PROVE PlaceInv'
    BY <1>27 DEF TypeOK, Credentials, Calls, LoopStates, PlaceInv, Panic, Crash, Return
  <1>28. CASE UNCHANGED vars
    BY <1>28 DEF TypeOK, Credentials, Calls, LoopStates, PlaceInv, vars
  <1> QED
    BY <1>1, <1>2, <1>3, <1>4, <1>5, <1>6, <1>7, <1>8, <1>9, <1>10, <1>11, <1>12,
       <1>13, <1>14, <1>15, <1>16, <1>17, <1>18, <1>19, <1>20, <1>21, <1>22, <1>23,
       <1>24, <1>25, <1>26, <1>27, <1>28 DEF Next, Start, Stop, Listen

\* Nobody but Start touches the file.
LEMMA SaveStep ==
  TypeOK /\ PlaceInv /\ SaveInv /\ [Next]_vars => SaveInv'
  <1> SUFFICES ASSUME TypeOK, PlaceInv, SaveInv, [Next]_vars PROVE SaveInv'
    OBVIOUS
  <1> USE NoneAssumption DEF caller, keys, listener, aside
  <1>1. ASSUME BeginStart PROVE SaveInv'
    BY <1>1 DEF TypeOK, Credentials, Calls, LoopStates, PlaceInv, SaveInv, BeginStart
  <1>2. ASSUME Load PROVE SaveInv'
    BY <1>2 DEF TypeOK, Credentials, Calls, LoopStates, PlaceInv, SaveInv, Load
  <1>3. ASSUME NEW d \in Devices, Register(d) PROVE SaveInv'
    BY <1>3 DEF TypeOK, Credentials, Calls, LoopStates, PlaceInv, SaveInv, Register
  <1>4. ASSUME RegisterFails PROVE SaveInv'
    BY <1>4 DEF TypeOK, Credentials, Calls, LoopStates, PlaceInv, SaveInv,
       RegisterFails, Return
  <1>5. ASSUME Save PROVE SaveInv'
    BY <1>5 DEF TypeOK, Credentials, Calls, LoopStates, PlaceInv, SaveInv, Save, Saved
  <1>6. ASSUME AlreadyRunning PROVE SaveInv'
    BY <1>6 DEF TypeOK, Credentials, Calls, LoopStates, PlaceInv, SaveInv,
       AlreadyRunning, Return
  <1>7. ASSUME SetRunning PROVE SaveInv'
    BY <1>7 DEF TypeOK, Credentials, Calls, LoopStates, PlaceInv, SaveInv,
       SetRunning, AfterLock
  <1>8. ASSUME RegisterWithNanit PROVE SaveInv'
    BY <1>8 DEF TypeOK, Credentials, Calls, LoopStates, PlaceInv, SaveInv,
       RegisterWithNanit
  <1>9. ASSUME NanitFails PROVE SaveInv'
    BY <1>9 DEF TypeOK, Credentials, Calls, LoopStates, PlaceInv, SaveInv,
       NanitFails, Return
  <1>10. ASSUME Record PROVE SaveInv'
    BY <1>10 DEF TypeOK, Credentials, Calls, LoopStates, PlaceInv, SaveInv, Record,
       Saved
  <1>11. ASSUME NEW l \in Loops, Spawn(l) PROVE SaveInv'
    BY <1>11 DEF TypeOK, Credentials, Calls, LoopStates, PlaceInv, SaveInv, Spawn,
       Return
  <1>12. ASSUME StopIdle PROVE SaveInv'
    BY <1>12 DEF TypeOK, Credentials, Calls, LoopStates, PlaceInv, SaveInv,
       StopIdle, Return
  <1>13. ASSUME BeginStop PROVE SaveInv'
    BY <1>13 DEF TypeOK, Credentials, Calls, LoopStates, PlaceInv, SaveInv,
       BeginStop, CloseClient, Told
  <1>14. ASSUME StopReturns PROVE SaveInv'
    BY <1>14 DEF TypeOK, Credentials, Calls, LoopStates, PlaceInv, SaveInv,
       StopReturns, Return, Waited
  <1>15. ASSUME StopGivesUp PROVE SaveInv'
    BY <1>15 DEF TypeOK, Credentials, Calls, LoopStates, PlaceInv, SaveInv,
       StopGivesUp, Return
  <1>16. ASSUME WaiterReturns PROVE SaveInv'
    BY <1>16 DEF TypeOK, Credentials, Calls, LoopStates, PlaceInv, SaveInv,
       WaiterReturns
  <1>17. ASSUME NEW l \in Loops, SeesStop(l) PROVE SaveInv'
    BY <1>17 DEF TypeOK, Credentials, Calls, LoopStates, PlaceInv, SaveInv, SeesStop
  <1>18. ASSUME NEW l \in Loops, MakeClient(l) PROVE SaveInv'
    BY <1>18 DEF TypeOK, Credentials, Calls, LoopStates, PlaceInv, SaveInv,
       MakeClient, Goes
  <1>19. ASSUME NEW l \in Loops, LoadKeysFails(l) PROVE SaveInv'
    BY <1>19 DEF TypeOK, Credentials, Calls, LoopStates, PlaceInv, SaveInv,
       LoadKeysFails, Goes
  <1>20. ASSUME NEW l \in Loops, Store(l) PROVE SaveInv'
    BY <1>20 DEF TypeOK, Credentials, Calls, LoopStates, PlaceInv, SaveInv, Store, Goes
  <1>21. ASSUME NEW l \in Loops, Connect(l) PROVE SaveInv'
    BY <1>21 DEF TypeOK, Credentials, Calls, LoopStates, PlaceInv, SaveInv, Connect,
       Goes, AfterListening
  <1>22. ASSUME NEW l \in Loops, ClosedReturns(l) PROVE SaveInv'
    BY <1>22 DEF TypeOK, Credentials, Calls, LoopStates, PlaceInv, SaveInv,
       ClosedReturns, Goes, AfterListening
  <1>23. ASSUME NEW l \in Loops, WaitEnds(l) PROVE SaveInv'
    BY <1>23 DEF TypeOK, Credentials, Calls, LoopStates, PlaceInv, SaveInv,
       WaitEnds, Goes
  <1>24. ASSUME NEW l \in Loops, ConnectionLost(l) PROVE SaveInv'
    BY <1>24 DEF TypeOK, Credentials, Calls, LoopStates, PlaceInv, SaveInv,
       ConnectionLost, Goes, AfterListening
  <1>25. ASSUME SignIn PROVE SaveInv'
    BY <1>25 DEF TypeOK, Credentials, Calls, LoopStates, PlaceInv, SaveInv, SignIn
  <1>26. ASSUME Crash PROVE SaveInv'
    BY <1>26 DEF TypeOK, Credentials, Calls, LoopStates, PlaceInv, SaveInv, Crash,
       Return
  <1>27. ASSUME Panic PROVE SaveInv'
    BY <1>27 DEF TypeOK, Credentials, Calls, LoopStates, PlaceInv, SaveInv, Panic,
       Crash, Return
  <1>28. CASE UNCHANGED vars
    BY <1>28 DEF TypeOK, Credentials, Calls, LoopStates, PlaceInv, SaveInv, vars
  <1> QED
    BY <1>1, <1>2, <1>3, <1>4, <1>5, <1>6, <1>7, <1>8, <1>9, <1>10, <1>11, <1>12,
       <1>13, <1>14, <1>15, <1>16, <1>17, <1>18, <1>19, <1>20, <1>21, <1>22, <1>23,
       <1>24, <1>25, <1>26, <1>27, <1>28 DEF Next, Start, Stop, Listen

\* An id is recorded after the registration.
LEMMA KeyStep ==
  TypeOK /\ PlaceInv /\ SaveInv /\ KeyInv /\ [Next]_vars => KeyInv'
  <1> SUFFICES ASSUME TypeOK, PlaceInv, SaveInv, KeyInv, [Next]_vars PROVE KeyInv'
    OBVIOUS
  <1> USE NoneAssumption DEF caller, keys, listener, aside
  <1>1. ASSUME BeginStart PROVE KeyInv'
    BY <1>1 DEF TypeOK, Credentials, Calls, LoopStates, PlaceInv, SaveInv, KeyInv,
       BeginStart
  <1>2. ASSUME Load PROVE KeyInv'
    BY <1>2 DEF TypeOK, Credentials, Calls, LoopStates, PlaceInv, SaveInv, KeyInv, Load
  <1>3. ASSUME NEW d \in Devices, Register(d) PROVE KeyInv'
    BY <1>3 DEF TypeOK, Credentials, Calls, LoopStates, PlaceInv, SaveInv, KeyInv,
       Register
  <1>4. ASSUME RegisterFails PROVE KeyInv'
    BY <1>4 DEF TypeOK, Credentials, Calls, LoopStates, PlaceInv, SaveInv, KeyInv,
       RegisterFails, Return
  <1>5. ASSUME Save PROVE KeyInv'
    BY <1>5 DEF TypeOK, Credentials, Calls, LoopStates, PlaceInv, SaveInv, KeyInv,
       Save, Saved
  <1>6. ASSUME AlreadyRunning PROVE KeyInv'
    BY <1>6 DEF TypeOK, Credentials, Calls, LoopStates, PlaceInv, SaveInv, KeyInv,
       AlreadyRunning, Return
  <1>7. ASSUME SetRunning PROVE KeyInv'
    BY <1>7 DEF TypeOK, Credentials, Calls, LoopStates, PlaceInv, SaveInv, KeyInv,
       SetRunning, AfterLock
  <1>8. ASSUME RegisterWithNanit PROVE KeyInv'
    BY <1>8 DEF TypeOK, Credentials, Calls, LoopStates, PlaceInv, SaveInv, KeyInv,
       RegisterWithNanit
  <1>9. ASSUME NanitFails PROVE KeyInv'
    BY <1>9 DEF TypeOK, Credentials, Calls, LoopStates, PlaceInv, SaveInv, KeyInv,
       NanitFails, Return
  <1>10. ASSUME Record PROVE KeyInv'
    BY <1>10 DEF TypeOK, Credentials, Calls, LoopStates, PlaceInv, SaveInv, KeyInv,
       Record, Saved
  <1>11. ASSUME NEW l \in Loops, Spawn(l) PROVE KeyInv'
    BY <1>11 DEF TypeOK, Credentials, Calls, LoopStates, PlaceInv, SaveInv, KeyInv,
       Spawn, Return
  <1>12. ASSUME StopIdle PROVE KeyInv'
    BY <1>12 DEF TypeOK, Credentials, Calls, LoopStates, PlaceInv, SaveInv, KeyInv,
       StopIdle, Return
  <1>13. ASSUME BeginStop PROVE KeyInv'
    BY <1>13 DEF TypeOK, Credentials, Calls, LoopStates, PlaceInv, SaveInv, KeyInv,
       BeginStop, CloseClient, Told
  <1>14. ASSUME StopReturns PROVE KeyInv'
    BY <1>14 DEF TypeOK, Credentials, Calls, LoopStates, PlaceInv, SaveInv, KeyInv,
       StopReturns, Return, Waited
  <1>15. ASSUME StopGivesUp PROVE KeyInv'
    BY <1>15 DEF TypeOK, Credentials, Calls, LoopStates, PlaceInv, SaveInv, KeyInv,
       StopGivesUp, Return
  <1>16. ASSUME WaiterReturns PROVE KeyInv'
    BY <1>16 DEF TypeOK, Credentials, Calls, LoopStates, PlaceInv, SaveInv, KeyInv,
       WaiterReturns
  <1>17. ASSUME NEW l \in Loops, SeesStop(l) PROVE KeyInv'
    BY <1>17 DEF TypeOK, Credentials, Calls, LoopStates, PlaceInv, SaveInv, KeyInv,
       SeesStop
  <1>18. ASSUME NEW l \in Loops, MakeClient(l) PROVE KeyInv'
    BY <1>18 DEF TypeOK, Credentials, Calls, LoopStates, PlaceInv, SaveInv, KeyInv,
       MakeClient, Goes
  <1>19. ASSUME NEW l \in Loops, LoadKeysFails(l) PROVE KeyInv'
    BY <1>19 DEF TypeOK, Credentials, Calls, LoopStates, PlaceInv, SaveInv, KeyInv,
       LoadKeysFails, Goes
  <1>20. ASSUME NEW l \in Loops, Store(l) PROVE KeyInv'
    BY <1>20 DEF TypeOK, Credentials, Calls, LoopStates, PlaceInv, SaveInv, KeyInv,
       Store, Goes
  <1>21. ASSUME NEW l \in Loops, Connect(l) PROVE KeyInv'
    BY <1>21 DEF TypeOK, Credentials, Calls, LoopStates, PlaceInv, SaveInv, KeyInv,
       Connect, Goes, AfterListening
  <1>22. ASSUME NEW l \in Loops, ClosedReturns(l) PROVE KeyInv'
    BY <1>22 DEF TypeOK, Credentials, Calls, LoopStates, PlaceInv, SaveInv, KeyInv,
       ClosedReturns, Goes, AfterListening
  <1>23. ASSUME NEW l \in Loops, WaitEnds(l) PROVE KeyInv'
    BY <1>23 DEF TypeOK, Credentials, Calls, LoopStates, PlaceInv, SaveInv, KeyInv,
       WaitEnds, Goes
  <1>24. ASSUME NEW l \in Loops, ConnectionLost(l) PROVE KeyInv'
    BY <1>24 DEF TypeOK, Credentials, Calls, LoopStates, PlaceInv, SaveInv, KeyInv,
       ConnectionLost, Goes, AfterListening
  <1>25. ASSUME SignIn PROVE KeyInv'
    BY <1>25 DEF TypeOK, Credentials, Calls, LoopStates, PlaceInv, SaveInv, KeyInv,
       SignIn
  <1>26. ASSUME Crash PROVE KeyInv'
    BY <1>26 DEF TypeOK, Credentials, Calls, LoopStates, PlaceInv, SaveInv, KeyInv,
       Crash, Return
  <1>27. ASSUME Panic PROVE KeyInv'
    BY <1>27 DEF TypeOK, Credentials, Calls, LoopStates, PlaceInv, SaveInv, KeyInv,
       Panic, Crash, Return
  <1>28. CASE UNCHANGED vars
    BY <1>28 DEF TypeOK, Credentials, Calls, LoopStates, PlaceInv, SaveInv, KeyInv, vars
  <1> QED
    BY <1>1, <1>2, <1>3, <1>4, <1>5, <1>6, <1>7, <1>8, <1>9, <1>10, <1>11, <1>12,
       <1>13, <1>14, <1>15, <1>16, <1>17, <1>18, <1>19, <1>20, <1>21, <1>22, <1>23,
       <1>24, <1>25, <1>26, <1>27, <1>28 DEF Next, Start, Stop, Listen

\* Every loop alive sees a Stop, and only those end.
LEMMA LoopStep ==
  TypeOK /\ PlaceInv /\ LoopInv /\ [Next]_vars => LoopInv'
  <1> SUFFICES ASSUME TypeOK, PlaceInv, LoopInv, [Next]_vars PROVE LoopInv'
    OBVIOUS
  <1> USE NoneAssumption DEF caller, keys, listener, aside
  <1>1. ASSUME BeginStart PROVE LoopInv'
    BY <1>1 DEF TypeOK, LoopStates, PlaceInv, LoopInv, Alive, BeginStart
  <1>2. ASSUME Load PROVE LoopInv'
    BY <1>2 DEF TypeOK, LoopStates, PlaceInv, LoopInv, Alive, Load
  <1>3. ASSUME NEW d \in Devices, Register(d) PROVE LoopInv'
    BY <1>3 DEF TypeOK, LoopStates, PlaceInv, LoopInv, Alive, Register
  <1>4. ASSUME RegisterFails PROVE LoopInv'
    BY <1>4 DEF TypeOK, LoopStates, PlaceInv, LoopInv, Alive, RegisterFails, Return
  <1>5. ASSUME Save PROVE LoopInv'
    BY <1>5 DEF TypeOK, LoopStates, PlaceInv, LoopInv, Alive, Save, Saved
  <1>6. ASSUME AlreadyRunning PROVE LoopInv'
    BY <1>6 DEF TypeOK, LoopStates, PlaceInv, LoopInv, Alive, AlreadyRunning, Return
  <1>7. ASSUME SetRunning PROVE LoopInv'
    BY <1>7 DEF TypeOK, LoopStates, PlaceInv, LoopInv, Alive, SetRunning, AfterLock
  <1>8. ASSUME RegisterWithNanit PROVE LoopInv'
    BY <1>8 DEF TypeOK, LoopStates, PlaceInv, LoopInv, Alive, RegisterWithNanit
  <1>9. ASSUME NanitFails PROVE LoopInv'
    BY <1>9 DEF TypeOK, LoopStates, PlaceInv, LoopInv, Alive, NanitFails, Return
  <1>10. ASSUME Record PROVE LoopInv'
    BY <1>10 DEF TypeOK, LoopStates, PlaceInv, LoopInv, Alive, Record, Saved
  <1>11. ASSUME NEW l \in Loops, Spawn(l) PROVE LoopInv'
    BY <1>11 DEF TypeOK, LoopStates, PlaceInv, LoopInv, Alive, Spawn, Return
  <1>12. ASSUME StopIdle PROVE LoopInv'
    BY <1>12 DEF TypeOK, LoopStates, PlaceInv, LoopInv, Alive, StopIdle, Return
  <1>13. ASSUME BeginStop PROVE LoopInv'
    BY <1>13 DEF TypeOK, LoopStates, PlaceInv, LoopInv, Alive, BeginStop,
       CloseClient, Told
  <1>14. ASSUME StopReturns PROVE LoopInv'
    BY <1>14 DEF TypeOK, LoopStates, PlaceInv, LoopInv, Alive, StopReturns, Return,
       Waited
  <1>15. ASSUME StopGivesUp PROVE LoopInv'
    BY <1>15 DEF TypeOK, LoopStates, PlaceInv, LoopInv, Alive, StopGivesUp, Return
  <1>16. ASSUME WaiterReturns PROVE LoopInv'
    BY <1>16 DEF TypeOK, LoopStates, PlaceInv, LoopInv, Alive, WaiterReturns
  <1>17. ASSUME NEW l \in Loops, SeesStop(l) PROVE LoopInv'
    BY <1>17 DEF TypeOK, LoopStates, PlaceInv, LoopInv, Alive, SeesStop
  <1>18. ASSUME NEW l \in Loops, MakeClient(l) PROVE LoopInv'
    BY <1>18 DEF TypeOK, LoopStates, PlaceInv, LoopInv, Alive, MakeClient, Goes
  <1>19. ASSUME NEW l \in Loops, LoadKeysFails(l) PROVE LoopInv'
    BY <1>19 DEF TypeOK, LoopStates, PlaceInv, LoopInv, Alive, LoadKeysFails, Goes
  <1>20. ASSUME NEW l \in Loops, Store(l) PROVE LoopInv'
    BY <1>20 DEF TypeOK, LoopStates, PlaceInv, LoopInv, Alive, Store, Goes
  <1>21. ASSUME NEW l \in Loops, Connect(l) PROVE LoopInv'
    BY <1>21 DEF TypeOK, LoopStates, PlaceInv, LoopInv, Alive, Connect, Goes,
       AfterListening
  <1>22. ASSUME NEW l \in Loops, ClosedReturns(l) PROVE LoopInv'
    BY <1>22 DEF TypeOK, LoopStates, PlaceInv, LoopInv, Alive, ClosedReturns, Goes,
       AfterListening
  <1>23. ASSUME NEW l \in Loops, WaitEnds(l) PROVE LoopInv'
    BY <1>23 DEF TypeOK, LoopStates, PlaceInv, LoopInv, Alive, WaitEnds, Goes
  <1>24. ASSUME NEW l \in Loops, ConnectionLost(l) PROVE LoopInv'
    BY <1>24 DEF TypeOK, LoopStates, PlaceInv, LoopInv, Alive, ConnectionLost, Goes,
       AfterListening
  <1>25. ASSUME SignIn PROVE LoopInv'
    BY <1>25 DEF TypeOK, LoopStates, PlaceInv, LoopInv, Alive, SignIn
  <1>26. ASSUME Crash PROVE LoopInv'
    BY <1>26 DEF TypeOK, LoopStates, PlaceInv, LoopInv, Alive, Crash, Return
  <1>27. ASSUME Panic PROVE LoopInv'
    BY <1>27 DEF TypeOK, LoopStates, PlaceInv, LoopInv, Alive, Panic, Crash, Return
  <1>28. CASE UNCHANGED vars
    BY <1>28 DEF TypeOK, LoopStates, PlaceInv, LoopInv, Alive, vars
  <1> QED
    BY <1>1, <1>2, <1>3, <1>4, <1>5, <1>6, <1>7, <1>8, <1>9, <1>10, <1>11, <1>12,
       <1>13, <1>14, <1>15, <1>16, <1>17, <1>18, <1>19, <1>20, <1>21, <1>22, <1>23,
       <1>24, <1>25, <1>26, <1>27, <1>28 DEF Next, Start, Stop, Listen

\* A Stop that returns leaves no loop.
LEMMA GroupStep ==
  TypeOK /\ PlaceInv /\ LoopInv /\ GroupInv /\ [Next]_vars => GroupInv'
  <1> SUFFICES ASSUME TypeOK, PlaceInv, LoopInv, GroupInv, [Next]_vars PROVE GroupInv'
    OBVIOUS
  <1> USE NoneAssumption DEF caller, keys, listener, aside
  <1>1. ASSUME BeginStart PROVE GroupInv'
    BY <1>1 DEF TypeOK, LoopStates, PlaceInv, LoopInv, GroupInv, Alive, BeginStart
  <1>2. ASSUME Load PROVE GroupInv'
    BY <1>2 DEF TypeOK, LoopStates, PlaceInv, LoopInv, GroupInv, Alive, Load
  <1>3. ASSUME NEW d \in Devices, Register(d) PROVE GroupInv'
    BY <1>3 DEF TypeOK, LoopStates, PlaceInv, LoopInv, GroupInv, Alive, Register
  <1>4. ASSUME RegisterFails PROVE GroupInv'
    BY <1>4 DEF TypeOK, LoopStates, PlaceInv, LoopInv, GroupInv, Alive,
       RegisterFails, Return
  <1>5. ASSUME Save PROVE GroupInv'
    BY <1>5 DEF TypeOK, LoopStates, PlaceInv, LoopInv, GroupInv, Alive, Save, Saved
  <1>6. ASSUME AlreadyRunning PROVE GroupInv'
    BY <1>6 DEF TypeOK, LoopStates, PlaceInv, LoopInv, GroupInv, Alive,
       AlreadyRunning, Return
  <1>7. ASSUME SetRunning PROVE GroupInv'
    BY <1>7 DEF TypeOK, LoopStates, PlaceInv, LoopInv, GroupInv, Alive, SetRunning,
       AfterLock
  <1>8. ASSUME RegisterWithNanit PROVE GroupInv'
    BY <1>8 DEF TypeOK, LoopStates, PlaceInv, LoopInv, GroupInv, Alive,
       RegisterWithNanit
  <1>9. ASSUME NanitFails PROVE GroupInv'
    BY <1>9 DEF TypeOK, LoopStates, PlaceInv, LoopInv, GroupInv, Alive, NanitFails,
       Return
  <1>10. ASSUME Record PROVE GroupInv'
    BY <1>10 DEF TypeOK, LoopStates, PlaceInv, LoopInv, GroupInv, Alive, Record, Saved
  <1>11. ASSUME NEW l \in Loops, Spawn(l) PROVE GroupInv'
    BY <1>11 DEF TypeOK, LoopStates, PlaceInv, LoopInv, GroupInv, Alive, Spawn, Return
  <1>12. ASSUME StopIdle PROVE GroupInv'
    BY <1>12 DEF TypeOK, LoopStates, PlaceInv, LoopInv, GroupInv, Alive, StopIdle,
       Return
  <1>13. ASSUME BeginStop PROVE GroupInv'
    BY <1>13 DEF TypeOK, LoopStates, PlaceInv, LoopInv, GroupInv, Alive, BeginStop,
       CloseClient, Told
  <1>14. ASSUME StopReturns PROVE GroupInv'
    BY <1>14 DEF TypeOK, LoopStates, PlaceInv, LoopInv, GroupInv, Alive,
       StopReturns, Return, Waited
  <1>15. ASSUME StopGivesUp PROVE GroupInv'
    BY <1>15 DEF TypeOK, LoopStates, PlaceInv, LoopInv, GroupInv, Alive,
       StopGivesUp, Return
  <1>16. ASSUME WaiterReturns PROVE GroupInv'
    BY <1>16 DEF TypeOK, LoopStates, PlaceInv, LoopInv, GroupInv, Alive, WaiterReturns
  <1>17. ASSUME NEW l \in Loops, SeesStop(l) PROVE GroupInv'
    BY <1>17 DEF TypeOK, LoopStates, PlaceInv, LoopInv, GroupInv, Alive, SeesStop
  <1>18. ASSUME NEW l \in Loops, MakeClient(l) PROVE GroupInv'
    BY <1>18 DEF TypeOK, LoopStates, PlaceInv, LoopInv, GroupInv, Alive, MakeClient,
       Goes
  <1>19. ASSUME NEW l \in Loops, LoadKeysFails(l) PROVE GroupInv'
    BY <1>19 DEF TypeOK, LoopStates, PlaceInv, LoopInv, GroupInv, Alive,
       LoadKeysFails, Goes
  <1>20. ASSUME NEW l \in Loops, Store(l) PROVE GroupInv'
    BY <1>20 DEF TypeOK, LoopStates, PlaceInv, LoopInv, GroupInv, Alive, Store, Goes
  <1>21. ASSUME NEW l \in Loops, Connect(l) PROVE GroupInv'
    BY <1>21 DEF TypeOK, LoopStates, PlaceInv, LoopInv, GroupInv, Alive, Connect,
       Goes, AfterListening
  <1>22. ASSUME NEW l \in Loops, ClosedReturns(l) PROVE GroupInv'
    BY <1>22 DEF TypeOK, LoopStates, PlaceInv, LoopInv, GroupInv, Alive,
       ClosedReturns, Goes, AfterListening
  <1>23. ASSUME NEW l \in Loops, WaitEnds(l) PROVE GroupInv'
    BY <1>23 DEF TypeOK, LoopStates, PlaceInv, LoopInv, GroupInv, Alive, WaitEnds, Goes
  <1>24. ASSUME NEW l \in Loops, ConnectionLost(l) PROVE GroupInv'
    BY <1>24 DEF TypeOK, LoopStates, PlaceInv, LoopInv, GroupInv, Alive,
       ConnectionLost, Goes, AfterListening
  <1>25. ASSUME SignIn PROVE GroupInv'
    BY <1>25 DEF TypeOK, LoopStates, PlaceInv, LoopInv, GroupInv, Alive, SignIn
  <1>26. ASSUME Crash PROVE GroupInv'
    BY <1>26 DEF TypeOK, LoopStates, PlaceInv, LoopInv, GroupInv, Alive, Crash, Return
  <1>27. ASSUME Panic PROVE GroupInv'
    BY <1>27 DEF TypeOK, LoopStates, PlaceInv, LoopInv, GroupInv, Alive, Panic,
       Crash, Return
  <1>28. CASE UNCHANGED vars
    BY <1>28 DEF TypeOK, LoopStates, PlaceInv, LoopInv, GroupInv, Alive, vars
  <1> QED
    BY <1>1, <1>2, <1>3, <1>4, <1>5, <1>6, <1>7, <1>8, <1>9, <1>10, <1>11, <1>12,
       <1>13, <1>14, <1>15, <1>16, <1>17, <1>18, <1>19, <1>20, <1>21, <1>22, <1>23,
       <1>24, <1>25, <1>26, <1>27, <1>28 DEF Next, Start, Stop, Listen

-----------------------------------------------------------------------------
IInv == TypeOK /\ PlaceInv /\ SaveInv /\ KeyInv /\ LoopInv /\ GroupInv

\* The invariant holds at the start.
LEMMA InitInv == Init => IInv
  <1> SUFFICES ASSUME Init PROVE IInv
    OBVIOUS
  <1>1. TypeOK
    BY DEF Init, TypeOK, Calls, LoopStates
  <1>2. PlaceInv /\ SaveInv /\ KeyInv
    BY DEF Init, PlaceInv, SaveInv, KeyInv
  <1>3. LoopInv /\ GroupInv
    BY DEF Init, LoopInv, GroupInv, Alive
  <1> QED
    BY <1>1, <1>2, <1>3 DEF IInv

\* Every step keeps it.
LEMMA StepInv == IInv /\ [Next]_vars => IInv'
  BY TypeStep, PlaceStep, SaveStep, KeyStep, LoopStep, GroupStep DEF IInv

\* The invariant holds in every reachable state.
THEOREM Invariance == Spec => []IInv
  BY InitInv, StepInv, PTL DEF Spec

\* Every variable has its type.
THEOREM TypeCorrect == Spec => []TypeOK
  <1>1. IInv => TypeOK
    BY DEF IInv
  <1> QED
    BY Invariance, <1>1, PTL

\* A started receiver listens with credentials of a device that gets the
\* notifications of the account, unless it went astray.
THEOREM TokensAreKnown == Spec => []TokenIsKnown
  <1>1. IInv => TokenIsKnown
    BY DEF IInv, KeyInv, TokenIsKnown
  <1> QED
    BY Invariance, <1>1, PTL

\* Unless a Stop gave up, loops do not overlap and nobody waits for one that ended.
THEOREM ListenersAreOne == Spec => []OneListener
  <1>1. IInv => OneListener
    <2> SUFFICES ASSUME IInv, ~gaveUp
                 PROVE  /\ Cardinality(Alive) <= 1 /\ (waiter = "woken" => Alive = {})
                        /\ call = "spawning" => Alive = {} /\ waiter = "none"
      BY DEF OneListener
    <2>1. Cardinality(Alive) <= 1
      <3>1. CASE Alive = {}
        BY <3>1, FS_EmptySet
      <3>2. CASE Alive # {}
        <4>1. PICK l \in Loops : loop[l] # "none"
          BY <3>2 DEF Alive
        <4>2. Alive = {l}
          BY <4>1 DEF IInv, GroupInv, Alive
        <4> QED
          BY <4>2, FS_Singleton
      <3> QED
        BY <3>1, <3>2
    <2>2. waiter = "woken" => Alive = {}
      BY DEF IInv, PlaceInv, GroupInv
    <2>3. call = "spawning" => Alive = {} /\ waiter = "none"
      BY DEF IInv, PlaceInv, GroupInv
    <2> QED
      BY <2>1, <2>2, <2>3
  <1> QED
    BY Invariance, <1>1, PTL

\* Every step is a step of the service, or changes nothing it shows.
LEMMA ServiceStep ==
  IInv /\ IInv' /\ [Next]_vars => [Service!Next]_Service!vars
  <1> SUFFICES ASSUME IInv, IInv', [Next]_vars PROVE [Service!Next]_Service!vars
    OBVIOUS
  <1> USE NoneAssumption DEF caller, keys, listener, aside
  <1>1. ASSUME BeginStart PROVE [Service!Next]_Service!vars
    <2>1. Service!BeginStart
      BY <1>1 DEF IInv, TypeOK, Credentials, Calls, PlaceInv, LoopInv, Alive,
         ServiceState, BeginStart, Service!BeginStart
    <2> QED
      BY <2>1 DEF Service!Next
  <1>2. ASSUME Load PROVE [Service!Next]_Service!vars
    BY <1>2 DEF IInv, TypeOK, Credentials, Calls, PlaceInv, LoopInv, Alive,
       ServiceState, Load, Service!vars
  <1>3. ASSUME NEW d \in Devices, Register(d) PROVE [Service!Next]_Service!vars
    BY <1>3 DEF IInv, TypeOK, Credentials, Calls, PlaceInv, LoopInv, Alive,
       ServiceState, Register, Service!vars
  <1>4. ASSUME RegisterFails PROVE [Service!Next]_Service!vars
    <2>1. Service!Failed
      BY <1>4 DEF IInv, TypeOK, Credentials, Calls, PlaceInv, LoopInv, Alive,
         ServiceState, RegisterFails, Return, Service!Failed
    <2> QED
      BY <2>1 DEF Service!Next
  <1>5. ASSUME Save PROVE [Service!Next]_Service!vars
    BY <1>5 DEF IInv, TypeOK, Credentials, Calls, PlaceInv, LoopInv, Alive,
       ServiceState, Save, Saved, Service!vars
  <1>6. ASSUME AlreadyRunning PROVE [Service!Next]_Service!vars
    <2>1. Service!Started
      BY <1>6 DEF IInv, TypeOK, Credentials, Calls, PlaceInv, LoopInv, Alive,
         ServiceState, AlreadyRunning, Return, Service!Started
    <2> QED
      BY <2>1 DEF Service!Next
  <1>7. ASSUME SetRunning PROVE [Service!Next]_Service!vars
    BY <1>7 DEF IInv, TypeOK, Credentials, Calls, PlaceInv, LoopInv, Alive,
       ServiceState, SetRunning, AfterLock, Service!vars
  <1>8. ASSUME RegisterWithNanit PROVE [Service!Next]_Service!vars
    BY <1>8 DEF IInv, TypeOK, Credentials, Calls, PlaceInv, LoopInv, Alive,
       ServiceState, RegisterWithNanit, Service!vars
  <1>9. ASSUME NanitFails PROVE [Service!Next]_Service!vars
    <2>1. Service!Failed
      BY <1>9 DEF IInv, TypeOK, Credentials, Calls, PlaceInv, LoopInv, Alive,
         ServiceState, NanitFails, Return, Service!Failed
    <2> QED
      BY <2>1 DEF Service!Next
  <1>10. ASSUME Record PROVE [Service!Next]_Service!vars
    BY <1>10 DEF IInv, TypeOK, Credentials, Calls, PlaceInv, LoopInv, Alive,
       ServiceState, Record, Saved, Service!vars
  <1>11. ASSUME NEW l \in Loops, Spawn(l) PROVE [Service!Next]_Service!vars
    <2>1. Service!Started
      BY <1>11 DEF IInv, TypeOK, Credentials, Calls, PlaceInv, LoopInv, Alive,
         ServiceState, Spawn, Return, Service!Started
    <2> QED
      BY <2>1 DEF Service!Next
  <1>12. ASSUME StopIdle PROVE [Service!Next]_Service!vars
    <2>1. Service!Stop
      BY <1>12 DEF IInv, TypeOK, Credentials, Calls, PlaceInv, LoopInv, Alive,
         ServiceState, StopIdle, Return, Service!Stop
    <2> QED
      BY <2>1 DEF Service!Next
  <1>13. ASSUME BeginStop PROVE [Service!Next]_Service!vars
    <2>1. Service!Stop
      BY <1>13 DEF IInv, TypeOK, Credentials, Calls, PlaceInv, LoopInv, Alive,
         ServiceState, BeginStop, CloseClient, Told, Service!Stop
    <2> QED
      BY <2>1 DEF Service!Next
  <1>14. ASSUME StopReturns PROVE [Service!Next]_Service!vars
    <2>1. Service!StopReturns
      BY <1>14 DEF IInv, TypeOK, Credentials, Calls, PlaceInv, LoopInv, Alive,
         ServiceState, StopReturns, Return, Waited, Service!StopReturns
    <2> QED
      BY <2>1 DEF Service!Next
  <1>15. ASSUME StopGivesUp PROVE [Service!Next]_Service!vars
    <2>1. Service!StopReturns
      BY <1>15 DEF IInv, TypeOK, Credentials, Calls, PlaceInv, LoopInv, Alive,
         ServiceState, StopGivesUp, Return, Service!StopReturns
    <2> QED
      BY <2>1 DEF Service!Next
  <1>16. ASSUME WaiterReturns PROVE [Service!Next]_Service!vars
    BY <1>16 DEF IInv, TypeOK, Credentials, Calls, PlaceInv, LoopInv, Alive,
       ServiceState, WaiterReturns, Service!vars
  <1>17. ASSUME NEW l \in Loops, SeesStop(l) PROVE [Service!Next]_Service!vars
    BY <1>17 DEF IInv, TypeOK, Credentials, Calls, PlaceInv, LoopInv, Alive,
       ServiceState, SeesStop, Service!vars
  <1>18. ASSUME NEW l \in Loops, MakeClient(l) PROVE [Service!Next]_Service!vars
    BY <1>18 DEF IInv, TypeOK, Credentials, Calls, PlaceInv, LoopInv, Alive,
       ServiceState, MakeClient, Goes, Service!vars
  <1>19. ASSUME NEW l \in Loops, LoadKeysFails(l) PROVE [Service!Next]_Service!vars
    BY <1>19 DEF IInv, TypeOK, Credentials, Calls, PlaceInv, LoopInv, Alive,
       ServiceState, LoadKeysFails, Goes, Service!vars
  <1>20. ASSUME NEW l \in Loops, Store(l) PROVE [Service!Next]_Service!vars
    BY <1>20 DEF IInv, TypeOK, Credentials, Calls, PlaceInv, LoopInv, Alive,
       ServiceState, Store, Goes, Service!vars
  <1>21. ASSUME NEW l \in Loops, Connect(l) PROVE [Service!Next]_Service!vars
    BY <1>21 DEF IInv, TypeOK, Credentials, Calls, PlaceInv, LoopInv, Alive,
       ServiceState, Connect, Goes, AfterListening, Service!vars
  <1>22. ASSUME NEW l \in Loops, ClosedReturns(l) PROVE [Service!Next]_Service!vars
    BY <1>22 DEF IInv, TypeOK, Credentials, Calls, PlaceInv, LoopInv, Alive,
       ServiceState, ClosedReturns, Goes, AfterListening, Service!vars
  <1>23. ASSUME NEW l \in Loops, WaitEnds(l) PROVE [Service!Next]_Service!vars
    BY <1>23 DEF IInv, TypeOK, Credentials, Calls, PlaceInv, LoopInv, Alive,
       ServiceState, WaitEnds, Goes, Service!vars
  <1>24. ASSUME NEW l \in Loops, ConnectionLost(l) PROVE [Service!Next]_Service!vars
    BY <1>24 DEF IInv, TypeOK, Credentials, Calls, PlaceInv, LoopInv, Alive,
       ServiceState, ConnectionLost, Goes, AfterListening, Service!vars
  <1>25. ASSUME SignIn PROVE [Service!Next]_Service!vars
    BY <1>25 DEF IInv, TypeOK, Credentials, Calls, PlaceInv, LoopInv, Alive,
       ServiceState, SignIn, Service!vars
  <1>26. ASSUME Crash PROVE [Service!Next]_Service!vars
    <2>1. Service!Crash
      BY <1>26 DEF IInv, TypeOK, Credentials, Calls, PlaceInv, LoopInv, Alive,
         ServiceState, Crash, Return, Service!Crash
    <2> QED
      BY <2>1 DEF Service!Next
  <1>27. ASSUME Panic PROVE [Service!Next]_Service!vars
    <2>1. Service!Crash
      BY <1>27 DEF IInv, TypeOK, Credentials, Calls, PlaceInv, LoopInv, Alive,
         ServiceState, Panic, Crash, Return, Service!Crash
    <2> QED
      BY <2>1 DEF Service!Next
  <1>28. CASE UNCHANGED vars
    BY <1>28 DEF vars, ServiceState, Alive, Service!vars
  <1> QED
    BY <1>1, <1>2, <1>3, <1>4, <1>5, <1>6, <1>7, <1>8, <1>9, <1>10, <1>11, <1>12,
       <1>13, <1>14, <1>15, <1>16, <1>17, <1>18, <1>19, <1>20, <1>21, <1>22, <1>23,
       <1>24, <1>25, <1>26, <1>27, <1>28 DEF Next, Start, Stop, Listen

\* The receiver implements the service the manager takes it for.
THEOREM Implementation == Spec => ReceiverIsService
  <1>1. Init => Service!Init
    BY DEF Init, Service!Init, ServiceState
  <1>2. IInv /\ IInv' /\ [Next]_vars => [Service!Next]_Service!vars
    BY ServiceStep
  <1> QED
    BY Invariance, <1>1, <1>2, PTL DEF Spec, ReceiverIsService, Service!Spec
-----------------------------------------------------------------------------
(* The safety part of FallsSilent.                                         *)

\* Every loop of a stopped receiver has seen the Stop.
ToldInv == ~running => Alive \subseteq stale

\* How far a loop is from the place where it looks for a Stop.
Distance(place) ==
    CASE place = "made" -> 4 [] place = "stored" -> 3 [] place \in {"listening", "closed"} -> 2
      [] place \in {"top", "waiting"} -> 1 [] OTHER -> 0

\* The values the proofs use.
LEMMA Distances ==
  /\ Distance("made") = 4 /\ Distance("stored") = 3
  /\ Distance("listening") = 2 /\ Distance("closed") = 2
  /\ Distance("top") = 1 /\ Distance("waiting") = 1 /\ Distance("none") = 0
  BY DEF Distance

\* A loop goes on to its end, or goes round without a client.
WindsDown(l) ==
    \/ loop'[l] = loop[l]
    \/ Distance(loop'[l]) < Distance(loop[l])
    \/ loop[l] = "waiting" /\ loop'[l] = "top"

\* No loop of a stopped receiver starts, or makes a client.
LEMMA SilentStep ==
  ASSUME TypeOK, PlaceInv, Next, ~running, ~running', NEW l \in Loops
  PROVE  WindsDown(l)
  <1> USE DEF caller, keys, listener, aside, TypeOK, PlaceInv
  <1>1. ASSUME loop' = loop PROVE WindsDown(l)
    BY <1>1 DEF WindsDown
  <1>2. CASE Start
    BY <1>1, <1>2 DEF Start, BeginStart, Load, Register, RegisterFails, Save, AlreadyRunning,
       SetRunning, RegisterWithNanit, NanitFails, Record, Spawn
  <1>3. CASE Stop \/ WaiterReturns \/ SignIn
    BY <1>1, <1>3 DEF Stop, StopIdle, BeginStop, StopReturns, StopGivesUp, WaiterReturns, SignIn
  <1>4. ASSUME Crash PROVE WindsDown(l)
    <2>1. loop'[l] = "none"
      BY <1>4 DEF Crash
    <2> QED
      BY <2>1, Distances DEF WindsDown, LoopStates
  <1>5. ASSUME NEW m \in Loops, Listen(m) \/ ConnectionLost(m) PROVE WindsDown(l)
    <2>1. ASSUME NEW place, loop' = [loop EXCEPT ![m] = place],
                 \/ Distance(place) < Distance(loop[m])
                 \/ loop[m] = "waiting" /\ place = "top"
          PROVE  WindsDown(l)
      BY <2>1 DEF WindsDown
    <2>2. CASE SeesStop(m)
      <3>1. loop' = [loop EXCEPT ![m] = "none"] /\ loop[m] \in {"top", "waiting"}
        BY <2>2 DEF SeesStop
      <3>2. Distance(loop[m]) = 1 /\ Distance("none") < 1
        BY <3>1, Distances
      <3> QED
        BY <2>1, <3>1, <3>2
    <2>3. CASE MakeClient(m)
      BY <2>3 DEF MakeClient
    <2>4. CASE LoadKeysFails(m) \/ Store(m)
      BY <2>1, <2>4, Distances DEF LoadKeysFails, Store, Goes
    <2>5. CASE Connect(m)
      <3>1. PICK place \in {"listening", "top", "waiting"} : loop' = [loop EXCEPT ![m] = place]
        BY <2>5 DEF Connect, Goes, AfterListening
      <3>2. Distance(place) < 3 /\ Distance(loop[m]) = 3
        BY <2>5, <3>1, Distances DEF Connect
      <3> QED
        BY <2>1, <3>1, <3>2, Distances
    <2>6. CASE ClosedReturns(m) \/ ConnectionLost(m)
      BY <2>1, <2>6, Distances DEF ClosedReturns, ConnectionLost, Goes, AfterListening
    <2>7. CASE WaitEnds(m)
      BY <2>1, <2>7 DEF WaitEnds, Goes
    <2> QED
      BY <1>5, <2>2, <2>3, <2>4, <2>5, <2>6, <2>7 DEF Listen
  <1> QED
    BY <1>2, <1>3, <1>4, <1>5 DEF Next, Panic

\* Every step keeps ToldInv.
LEMMA ToldStep == TypeOK /\ PlaceInv /\ ToldInv /\ [Next]_vars => ToldInv'
  <1> SUFFICES ASSUME TypeOK, PlaceInv, ToldInv, [Next]_vars PROVE ToldInv'
    OBVIOUS
  <1> USE DEF caller, keys, listener, aside, TypeOK, PlaceInv, Alive
  <1>1. ASSUME UNCHANGED <<loop, stale>>, running' = running PROVE ToldInv'
    BY <1>1 DEF ToldInv
  <1>2. CASE Start
    BY <1>2 DEF ToldInv, Start, BeginStart, Load, Register, RegisterFails, Save, AlreadyRunning,
       SetRunning, RegisterWithNanit, NanitFails, Record, Spawn
  <1>3. CASE StopIdle \/ StopReturns \/ StopGivesUp \/ WaiterReturns \/ SignIn \/ UNCHANGED vars
    BY <1>1, <1>3 DEF StopIdle, StopReturns, StopGivesUp, WaiterReturns, SignIn, vars
  <1>4. CASE BeginStop
    <2>1. Alive' = Alive /\ stale' = Alive
      BY <1>4 DEF BeginStop, CloseClient, Told
    <2> QED
      BY <2>1 DEF ToldInv
  <1>5. CASE Crash
    BY <1>5 DEF Crash, ToldInv
  <1>6. ASSUME NEW l \in Loops, Listen(l) \/ ConnectionLost(l) PROVE ToldInv'
    <2>1. CASE SeesStop(l)
      BY <2>1 DEF SeesStop, ToldInv
    <2>2. CASE ~SeesStop(l)
      <3>1. Alive' = Alive /\ UNCHANGED <<stale, running>>
        BY <1>6, <2>2 DEF Listen, MakeClient, LoadKeysFails, Store, Connect, ClosedReturns,
           WaitEnds, ConnectionLost, Goes, AfterListening
      <3> QED
        BY <3>1 DEF ToldInv
    <2> QED
      BY <2>1, <2>2
  <1> QED
    BY <1>2, <1>3, <1>4, <1>5, <1>6 DEF Next, Stop, Panic

\* After Stop (push.go:102-122, 222-240) no loop starts and none makes another client,
\* however long one was left behind: each has seen the Stop, and goes on to where it looks
\* for it.
THEOREM StoppedReceiverWindsDown ==
  Spec => [][~running /\ ~running' => Alive \subseteq stale /\ \A l \in Loops : WindsDown(l)]_vars
  <1>1. Init => ToldInv
    BY DEF Init, ToldInv, Alive
  <1>2. IInv /\ ToldInv /\ [Next]_vars => ToldInv'
    BY ToldStep DEF IInv
  <1>3. IInv /\ ToldInv /\ [Next]_vars =>
          [~running /\ ~running' => Alive \subseteq stale /\ \A l \in Loops : WindsDown(l)]_vars
    BY SilentStep DEF IInv, ToldInv
  <1> QED
    BY <1>1, <1>2, <1>3, Invariance, PTL DEF Spec
=============================================================================
