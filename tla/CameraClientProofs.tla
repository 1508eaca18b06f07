------------------------ MODULE CameraClientProofs ------------------------
(***************************************************************************)
(* Theorems about CameraClient, for any number of connections and retry    *)
(* loops and any capacity of errCh that is at least two: the invariants,   *)
(* that the client implements CameraLink, which connection its requests    *)
(* are written to, how it ends, and what its owner must not call.          *)
(***************************************************************************)
EXTENDS CameraClient, TLAPS

Running(state) == IF state = "ended" THEN 0 ELSE 1

\* Each goroutine that can report has its place in errCh, from the moment the
\* connection is dialed.
ErrBudget ==
    /\ \A c \in Conns : errs[c] + Running(reader[c]) + Running(keeper[c]) <= 2
    /\ loop = "dialed" =>
          errs[cur] = 0 /\ reader[cur] = "ended" /\ keeper[cur] = "ended"

IInv == TypeOK /\ RetryFlagHasLoop /\ ErrBudget /\ NoSocketLeaks
-----------------------------------------------------------------------------
USE NoneAssumption, ErrCapAssumption, MaxAskedAssumption

\* The initial states satisfy the invariant.
LEMMA InitInv == Init => IInv
  <1> SUFFICES ASSUME Init PROVE IInv
    OBVIOUS
  <1>1. TypeOK
    <2>1. 0 \in 0..ErrCap /\ 0 \in 0..MaxAsked
      OBVIOUS
    <2>2. errs \in [Conns -> 0..ErrCap] /\ asked \in [Conns -> 0..MaxAsked]
      BY <2>1 DEF Init
    <2> QED
      BY <2>2 DEF Init, TypeOK, LoopStates, SockStates, RetryStates
  <1>2. RetryFlagHasLoop /\ ErrBudget /\ NoSocketLeaks
    BY DEF Init, RetryFlagHasLoop, ErrBudget, NoSocketLeaks, Running
  <1> QED
    BY <1>1, <1>2 DEF IInv

\* Every step keeps the types.
LEMMA TypeStep == TypeOK /\ [Next]_vars => TypeOK'
  <1> SUFFICES ASSUME TypeOK, [Next]_vars PROVE TypeOK'
    OBVIOUS
  <1> USE DEF connVars, streamVars
  <1>1. ASSUME LoopTop PROVE TypeOK'
    BY <1>1 DEF TypeOK, LoopStates, SockStates, RetryStates, Answers, LoopTop
  <1>2. ASSUME DialFails PROVE TypeOK'
    BY <1>2 DEF TypeOK, LoopStates, SockStates, RetryStates, Answers, DialFails, AfterDialError
  <1>3. ASSUME NEW c \in Conns, DialSucceeds(c) PROVE TypeOK'
    BY <1>3 DEF TypeOK, LoopStates, SockStates, RetryStates, Answers, DialSucceeds
  <1>4. ASSUME Install PROVE TypeOK'
    BY <1>4 DEF TypeOK, LoopStates, SockStates, RetryStates, Answers, Install
  <1>5. ASSUME StartFirst PROVE TypeOK'
    BY <1>5 DEF TypeOK, LoopStates, SockStates, RetryStates, Answers, StartFirst, Ask, AskFails
  <1>6. ASSUME StartFailed PROVE TypeOK'
    BY <1>6 DEF TypeOK, LoopStates, SockStates, RetryStates, Answers, StartFailed, ScheduleRetry
  <1>7. ASSUME Leave PROVE TypeOK'
    BY <1>7 DEF TypeOK, LoopStates, SockStates, RetryStates, Answers, Leave, EndRetry
  <1>8. ASSUME SendStop PROVE TypeOK'
    BY <1>8 DEF TypeOK, LoopStates, SockStates, RetryStates, Answers, SendStop, Ask, AskFails
  <1>9. ASSUME CloseConn PROVE TypeOK'
    BY <1>9 DEF TypeOK, LoopStates, SockStates, RetryStates, Answers, CloseConn, ClosedSock
  <1>10. ASSUME PauseEnds PROVE TypeOK'
    BY <1>10 DEF TypeOK, LoopStates, SockStates, RetryStates, Answers, PauseEnds
  <1>11. ASSUME NEW c \in Conns, NEW answer \in Answers, ReadAnswer(c, answer) PROVE TypeOK'
    BY <1>11 DEF TypeOK, LoopStates, SockStates, RetryStates, Answers, ReadAnswer
  <1>12. ASSUME NEW c \in Conns, HandleAnswer(c) PROVE TypeOK'
    BY <1>12 DEF TypeOK, LoopStates, SockStates, RetryStates, Answers, HandleAnswer, ScheduleRetry, EndRetry
  <1>13. ASSUME NEW c \in Conns, ReadFails(c) PROVE TypeOK'
    BY <1>13 DEF TypeOK, LoopStates, SockStates, RetryStates, Answers, ReadFails
  <1>14. ASSUME NEW c \in Conns, ReaderReports(c) PROVE TypeOK'
    BY <1>14 DEF TypeOK, LoopStates, SockStates, RetryStates, Answers, ReaderReports
  <1>15. ASSUME NEW c \in Conns, KeeperFails(c) PROVE TypeOK'
    BY <1>15 DEF TypeOK, LoopStates, SockStates, RetryStates, Answers, KeeperFails
  <1>16. ASSUME NEW c \in Conns, KeeperReports(c) PROVE TypeOK'
    BY <1>16 DEF TypeOK, LoopStates, SockStates, RetryStates, Answers, KeeperReports, AfterReport
  <1>17. ASSUME NEW c \in Conns, KeeperStops(c) PROVE TypeOK'
    BY <1>17 DEF TypeOK, LoopStates, SockStates, RetryStates, Answers, KeeperStops
  <1>18. ASSUME NEW c \in Conns, PollerStops(c) PROVE TypeOK'
    BY <1>18 DEF TypeOK, LoopStates, SockStates, RetryStates, Answers, PollerStops
  <1>19. ASSUME NEW c \in Conns, ConnectionLost(c) PROVE TypeOK'
    BY <1>19 DEF TypeOK, LoopStates, SockStates, RetryStates, Answers, ConnectionLost
  <1>20. ASSUME NEW l \in Loops, RetryWakes(l) PROVE TypeOK'
    BY <1>20 DEF TypeOK, LoopStates, SockStates, RetryStates, Answers, RetryWakes, SeesDone
  <1>21. ASSUME NEW l \in Loops, RetrySends(l) PROVE TypeOK'
    BY <1>21 DEF TypeOK, LoopStates, SockStates, RetryStates, Answers, RetrySends, Ask, AskFails, AfterSendError
  <1>22. ASSUME NEW l \in Loops, RetryLooks(l) PROVE TypeOK'
    BY <1>22 DEF TypeOK, LoopStates, SockStates, RetryStates, Answers, RetryLooks, SeesDone
  <1>23. ASSUME Restart PROVE TypeOK'
    BY <1>23 DEF TypeOK, LoopStates, SockStates, RetryStates, Answers, Restart, Ask, AskFails
  <1>24. ASSUME RestartFailed PROVE TypeOK'
    BY <1>24 DEF TypeOK, LoopStates, SockStates, RetryStates, Answers, RestartFailed, ScheduleRetry
  <1>25. ASSUME DelayedStart PROVE TypeOK'
    BY <1>25 DEF TypeOK, LoopStates, SockStates, RetryStates, Answers, DelayedStart, Ask
  <1>26. ASSUME Stop PROVE TypeOK'
    BY <1>26 DEF TypeOK, LoopStates, SockStates, RetryStates, Answers, Stop
  <1>27. ASSUME StopCloses PROVE TypeOK'
    BY <1>27 DEF TypeOK, LoopStates, SockStates, RetryStates, Answers, StopCloses
  <1>28. CASE UNCHANGED vars
    BY <1>28 DEF TypeOK, LoopStates, SockStates, RetryStates, Answers, vars
  <1> QED
    BY <1>1, <1>2, <1>3, <1>4, <1>5, <1>6, <1>7, <1>8, <1>9, <1>10, <1>11, <1>12,
       <1>13, <1>14, <1>15, <1>16, <1>17, <1>18, <1>19, <1>20, <1>21, <1>22, <1>23, <1>24,
       <1>25, <1>26, <1>27, <1>28
       DEF Next, ConnectLoop, Connection, RetryLoop

\* No step ends the last retry loop while the flag is up.
LEMMA RetryFlagStep == TypeOK /\ RetryFlagHasLoop /\ [Next]_vars => RetryFlagHasLoop'
  <1> SUFFICES ASSUME TypeOK, RetryFlagHasLoop, [Next]_vars PROVE RetryFlagHasLoop'
    OBVIOUS
  <1> USE DEF connVars, streamVars
  <1>1. ASSUME LoopTop PROVE RetryFlagHasLoop'
    BY <1>1 DEF TypeOK, RetryFlagHasLoop, RetryStates, LoopTop
  <1>2. ASSUME DialFails PROVE RetryFlagHasLoop'
    BY <1>2 DEF TypeOK, RetryFlagHasLoop, RetryStates, DialFails, AfterDialError
  <1>3. ASSUME NEW c \in Conns, DialSucceeds(c) PROVE RetryFlagHasLoop'
    BY <1>3 DEF TypeOK, RetryFlagHasLoop, RetryStates, DialSucceeds
  <1>4. ASSUME Install PROVE RetryFlagHasLoop'
    BY <1>4 DEF TypeOK, RetryFlagHasLoop, RetryStates, Install
  <1>5. ASSUME StartFirst PROVE RetryFlagHasLoop'
    BY <1>5 DEF TypeOK, RetryFlagHasLoop, RetryStates, StartFirst, Ask, AskFails
  <1>6. ASSUME StartFailed PROVE RetryFlagHasLoop'
    BY <1>6 DEF TypeOK, RetryFlagHasLoop, RetryStates, StartFailed, ScheduleRetry
  <1>7. ASSUME Leave PROVE RetryFlagHasLoop'
    BY <1>7 DEF TypeOK, RetryFlagHasLoop, RetryStates, Leave, EndRetry
  <1>8. ASSUME SendStop PROVE RetryFlagHasLoop'
    BY <1>8 DEF TypeOK, RetryFlagHasLoop, RetryStates, SendStop, Ask, AskFails
  <1>9. ASSUME CloseConn PROVE RetryFlagHasLoop'
    BY <1>9 DEF TypeOK, RetryFlagHasLoop, RetryStates, CloseConn, ClosedSock
  <1>10. ASSUME PauseEnds PROVE RetryFlagHasLoop'
    BY <1>10 DEF TypeOK, RetryFlagHasLoop, RetryStates, PauseEnds
  <1>11. ASSUME NEW c \in Conns, NEW answer \in Answers, ReadAnswer(c, answer) PROVE RetryFlagHasLoop'
    BY <1>11 DEF TypeOK, RetryFlagHasLoop, RetryStates, ReadAnswer
  <1>12. ASSUME NEW c \in Conns, HandleAnswer(c) PROVE RetryFlagHasLoop'
    BY <1>12 DEF TypeOK, RetryFlagHasLoop, RetryStates, HandleAnswer, ScheduleRetry, EndRetry
  <1>13. ASSUME NEW c \in Conns, ReadFails(c) PROVE RetryFlagHasLoop'
    BY <1>13 DEF TypeOK, RetryFlagHasLoop, RetryStates, ReadFails
  <1>14. ASSUME NEW c \in Conns, ReaderReports(c) PROVE RetryFlagHasLoop'
    BY <1>14 DEF TypeOK, RetryFlagHasLoop, RetryStates, ReaderReports
  <1>15. ASSUME NEW c \in Conns, KeeperFails(c) PROVE RetryFlagHasLoop'
    BY <1>15 DEF TypeOK, RetryFlagHasLoop, RetryStates, KeeperFails
  <1>16. ASSUME NEW c \in Conns, KeeperReports(c) PROVE RetryFlagHasLoop'
    BY <1>16 DEF TypeOK, RetryFlagHasLoop, RetryStates, KeeperReports, AfterReport
  <1>17. ASSUME NEW c \in Conns, KeeperStops(c) PROVE RetryFlagHasLoop'
    BY <1>17 DEF TypeOK, RetryFlagHasLoop, RetryStates, KeeperStops
  <1>18. ASSUME NEW c \in Conns, PollerStops(c) PROVE RetryFlagHasLoop'
    BY <1>18 DEF TypeOK, RetryFlagHasLoop, RetryStates, PollerStops
  <1>19. ASSUME NEW c \in Conns, ConnectionLost(c) PROVE RetryFlagHasLoop'
    BY <1>19 DEF TypeOK, RetryFlagHasLoop, RetryStates, ConnectionLost
  <1>20. ASSUME NEW l \in Loops, RetryWakes(l) PROVE RetryFlagHasLoop'
    BY <1>20 DEF TypeOK, RetryFlagHasLoop, RetryStates, RetryWakes, SeesDone
  <1>21. ASSUME NEW l \in Loops, RetrySends(l) PROVE RetryFlagHasLoop'
    BY <1>21 DEF TypeOK, RetryFlagHasLoop, RetryStates, RetrySends, Ask, AskFails, AfterSendError
  <1>22. ASSUME NEW l \in Loops, RetryLooks(l) PROVE RetryFlagHasLoop'
    BY <1>22 DEF TypeOK, RetryFlagHasLoop, RetryStates, RetryLooks, SeesDone
  <1>23. ASSUME Restart PROVE RetryFlagHasLoop'
    BY <1>23 DEF TypeOK, RetryFlagHasLoop, RetryStates, Restart, Ask, AskFails
  <1>24. ASSUME RestartFailed PROVE RetryFlagHasLoop'
    BY <1>24 DEF TypeOK, RetryFlagHasLoop, RetryStates, RestartFailed, ScheduleRetry
  <1>25. ASSUME DelayedStart PROVE RetryFlagHasLoop'
    BY <1>25 DEF TypeOK, RetryFlagHasLoop, RetryStates, DelayedStart, Ask
  <1>26. ASSUME Stop PROVE RetryFlagHasLoop'
    BY <1>26 DEF TypeOK, RetryFlagHasLoop, RetryStates, Stop
  <1>27. ASSUME StopCloses PROVE RetryFlagHasLoop'
    BY <1>27 DEF TypeOK, RetryFlagHasLoop, RetryStates, StopCloses
  <1>28. CASE UNCHANGED vars
    BY <1>28 DEF TypeOK, RetryFlagHasLoop, RetryStates, vars
  <1> QED
    BY <1>1, <1>2, <1>3, <1>4, <1>5, <1>6, <1>7, <1>8, <1>9, <1>10, <1>11, <1>12,
       <1>13, <1>14, <1>15, <1>16, <1>17, <1>18, <1>19, <1>20, <1>21, <1>22, <1>23, <1>24,
       <1>25, <1>26, <1>27, <1>28
       DEF Next, ConnectLoop, Connection, RetryLoop

\* A report takes the place its goroutine leaves.
LEMMA ErrBudgetStep == TypeOK /\ ErrBudget /\ [Next]_vars => ErrBudget'
  <1> SUFFICES ASSUME TypeOK, ErrBudget, [Next]_vars PROVE ErrBudget'
    OBVIOUS
  <1> USE DEF connVars, streamVars
  <1>1. ASSUME LoopTop PROVE ErrBudget'
    BY <1>1 DEF TypeOK, ErrBudget, Running, Answers, LoopTop
  <1>2. ASSUME DialFails PROVE ErrBudget'
    BY <1>2 DEF TypeOK, ErrBudget, Running, Answers, DialFails, AfterDialError
  <1>3. ASSUME NEW c \in Conns, DialSucceeds(c) PROVE ErrBudget'
    BY <1>3 DEF TypeOK, ErrBudget, Running, Answers, DialSucceeds, Reclaimed
  <1>4. ASSUME Install PROVE ErrBudget'
    BY <1>4 DEF TypeOK, ErrBudget, Running, Answers, Install
  <1>5. ASSUME StartFirst PROVE ErrBudget'
    BY <1>5 DEF TypeOK, ErrBudget, Running, Answers, StartFirst, Ask, AskFails
  <1>6. ASSUME StartFailed PROVE ErrBudget'
    BY <1>6 DEF TypeOK, ErrBudget, Running, Answers, StartFailed, ScheduleRetry
  <1>7. ASSUME Leave PROVE ErrBudget'
    BY <1>7 DEF TypeOK, ErrBudget, Running, Answers, Leave, EndRetry
  <1>8. ASSUME SendStop PROVE ErrBudget'
    BY <1>8 DEF TypeOK, ErrBudget, Running, Answers, SendStop, Ask, AskFails
  <1>9. ASSUME CloseConn PROVE ErrBudget'
    BY <1>9 DEF TypeOK, ErrBudget, Running, Answers, CloseConn, ClosedSock
  <1>10. ASSUME PauseEnds PROVE ErrBudget'
    BY <1>10 DEF TypeOK, ErrBudget, Running, Answers, PauseEnds
  <1>11. ASSUME NEW c \in Conns, NEW answer \in Answers, ReadAnswer(c, answer) PROVE ErrBudget'
    BY <1>11 DEF TypeOK, ErrBudget, Running, Answers, ReadAnswer
  <1>12. ASSUME NEW c \in Conns, HandleAnswer(c) PROVE ErrBudget'
    BY <1>12 DEF TypeOK, ErrBudget, Running, Answers, HandleAnswer, ScheduleRetry, EndRetry
  <1>13. ASSUME NEW c \in Conns, ReadFails(c) PROVE ErrBudget'
    BY <1>13 DEF TypeOK, ErrBudget, Running, Answers, ReadFails
  <1>14. ASSUME NEW c \in Conns, ReaderReports(c) PROVE ErrBudget'
    <2>1. /\ reader[c] = "reporting" /\ reader'[c] = "ended"
          /\ errs'[c] = errs[c] + 1 /\ keeper'[c] = keeper[c]
      BY <1>14 DEF ReaderReports, TypeOK
    <2>2. \A d \in Conns \ {c} :
             errs'[d] = errs[d] /\ reader'[d] = reader[d] /\ keeper'[d] = keeper[d]
      BY <1>14 DEF ReaderReports, TypeOK
    <2>3. loop' = loop /\ cur' = cur
      BY <1>14 DEF ReaderReports
    <2>4. loop = "dialed" => cur \in Conns \ {c}
      BY <2>1 DEF ErrBudget, TypeOK
    <2>5. \A d \in Conns : errs'[d] + Running(reader'[d]) + Running(keeper'[d]) <= 2
      <3>1. errs'[c] + Running(reader'[c]) + Running(keeper'[c]) <= 2
        BY <2>1 DEF ErrBudget, Running, TypeOK
      <3> QED
        BY <2>2, <3>1 DEF ErrBudget
    <2> QED
      BY <2>2, <2>3, <2>4, <2>5 DEF ErrBudget
  <1>15. ASSUME NEW c \in Conns, KeeperFails(c) PROVE ErrBudget'
    BY <1>15 DEF TypeOK, ErrBudget, Running, Answers, KeeperFails
  <1>16. ASSUME NEW c \in Conns, KeeperReports(c) PROVE ErrBudget'
    <2>1. /\ keeper[c] = "reporting" /\ keeper'[c] = "ended"
          /\ errs'[c] = errs[c] + 1 /\ reader'[c] = reader[c]
      BY <1>16 DEF KeeperReports, TypeOK, AfterReport
    <2>2. \A d \in Conns \ {c} :
             errs'[d] = errs[d] /\ reader'[d] = reader[d] /\ keeper'[d] = keeper[d]
      BY <1>16 DEF KeeperReports, TypeOK
    <2>3. loop' = loop /\ cur' = cur
      BY <1>16 DEF KeeperReports
    <2>4. loop = "dialed" => cur \in Conns \ {c}
      BY <2>1 DEF ErrBudget, TypeOK
    <2>5. \A d \in Conns : errs'[d] + Running(reader'[d]) + Running(keeper'[d]) <= 2
      <3>1. errs'[c] + Running(reader'[c]) + Running(keeper'[c]) <= 2
        BY <2>1 DEF ErrBudget, Running, TypeOK
      <3> QED
        BY <2>2, <3>1 DEF ErrBudget
    <2> QED
      BY <2>2, <2>3, <2>4, <2>5 DEF ErrBudget
  <1>17. ASSUME NEW c \in Conns, KeeperStops(c) PROVE ErrBudget'
    BY <1>17 DEF TypeOK, ErrBudget, Running, Answers, KeeperStops
  <1>18. ASSUME NEW c \in Conns, PollerStops(c) PROVE ErrBudget'
    BY <1>18 DEF TypeOK, ErrBudget, Running, Answers, PollerStops
  <1>19. ASSUME NEW c \in Conns, ConnectionLost(c) PROVE ErrBudget'
    BY <1>19 DEF TypeOK, ErrBudget, Running, Answers, ConnectionLost
  <1>20. ASSUME NEW l \in Loops, RetryWakes(l) PROVE ErrBudget'
    BY <1>20 DEF TypeOK, ErrBudget, Running, Answers, RetryWakes, SeesDone
  <1>21. ASSUME NEW l \in Loops, RetrySends(l) PROVE ErrBudget'
    BY <1>21 DEF TypeOK, ErrBudget, Running, Answers, RetrySends, Ask, AskFails, AfterSendError
  <1>22. ASSUME NEW l \in Loops, RetryLooks(l) PROVE ErrBudget'
    BY <1>22 DEF TypeOK, ErrBudget, Running, Answers, RetryLooks, SeesDone
  <1>23. ASSUME Restart PROVE ErrBudget'
    BY <1>23 DEF TypeOK, ErrBudget, Running, Answers, Restart, Ask, AskFails
  <1>24. ASSUME RestartFailed PROVE ErrBudget'
    BY <1>24 DEF TypeOK, ErrBudget, Running, Answers, RestartFailed, ScheduleRetry
  <1>25. ASSUME DelayedStart PROVE ErrBudget'
    BY <1>25 DEF TypeOK, ErrBudget, Running, Answers, DelayedStart, Ask
  <1>26. ASSUME Stop PROVE ErrBudget'
    BY <1>26 DEF TypeOK, ErrBudget, Running, Answers, Stop
  <1>27. ASSUME StopCloses PROVE ErrBudget'
    BY <1>27 DEF TypeOK, ErrBudget, Running, Answers, StopCloses
  <1>28. CASE UNCHANGED vars
    BY <1>28 DEF TypeOK, ErrBudget, Running, Answers, vars
  <1> QED
    BY <1>1, <1>2, <1>3, <1>4, <1>5, <1>6, <1>7, <1>8, <1>9, <1>10, <1>11, <1>12,
       <1>13, <1>14, <1>15, <1>16, <1>17, <1>18, <1>19, <1>20, <1>21, <1>22, <1>23, <1>24,
       <1>25, <1>26, <1>27, <1>28
       DEF Next, ConnectLoop, Connection, RetryLoop

\* The loop closes its connection before it leaves it.
LEMMA NoSocketLeaksStep == TypeOK /\ NoSocketLeaks /\ [Next]_vars => NoSocketLeaks'
  <1> SUFFICES ASSUME TypeOK, NoSocketLeaks, [Next]_vars PROVE NoSocketLeaks'
    OBVIOUS
  <1> USE DEF connVars, streamVars
  <1>1. ASSUME LoopTop PROVE NoSocketLeaks'
    BY <1>1 DEF TypeOK, NoSocketLeaks, LoopTop
  <1>2. ASSUME DialFails PROVE NoSocketLeaks'
    BY <1>2 DEF TypeOK, NoSocketLeaks, DialFails, AfterDialError
  <1>3. ASSUME NEW c \in Conns, DialSucceeds(c) PROVE NoSocketLeaks'
    BY <1>3 DEF TypeOK, NoSocketLeaks, DialSucceeds
  <1>4. ASSUME Install PROVE NoSocketLeaks'
    BY <1>4 DEF TypeOK, NoSocketLeaks, Install
  <1>5. ASSUME StartFirst PROVE NoSocketLeaks'
    BY <1>5 DEF TypeOK, NoSocketLeaks, StartFirst, Ask, AskFails
  <1>6. ASSUME StartFailed PROVE NoSocketLeaks'
    BY <1>6 DEF TypeOK, NoSocketLeaks, StartFailed, ScheduleRetry
  <1>7. ASSUME Leave PROVE NoSocketLeaks'
    BY <1>7 DEF TypeOK, NoSocketLeaks, Leave, EndRetry
  <1>8. ASSUME SendStop PROVE NoSocketLeaks'
    BY <1>8 DEF TypeOK, NoSocketLeaks, SendStop, Ask, AskFails
  <1>9. ASSUME CloseConn PROVE NoSocketLeaks'
    BY <1>9 DEF TypeOK, NoSocketLeaks, CloseConn, ClosedSock
  <1>10. ASSUME PauseEnds PROVE NoSocketLeaks'
    BY <1>10 DEF TypeOK, NoSocketLeaks, PauseEnds
  <1>11. ASSUME NEW c \in Conns, NEW answer \in Answers, ReadAnswer(c, answer) PROVE NoSocketLeaks'
    BY <1>11 DEF TypeOK, NoSocketLeaks, ReadAnswer
  <1>12. ASSUME NEW c \in Conns, HandleAnswer(c) PROVE NoSocketLeaks'
    BY <1>12 DEF TypeOK, NoSocketLeaks, HandleAnswer, ScheduleRetry, EndRetry
  <1>13. ASSUME NEW c \in Conns, ReadFails(c) PROVE NoSocketLeaks'
    BY <1>13 DEF TypeOK, NoSocketLeaks, ReadFails
  <1>14. ASSUME NEW c \in Conns, ReaderReports(c) PROVE NoSocketLeaks'
    BY <1>14 DEF TypeOK, NoSocketLeaks, ReaderReports
  <1>15. ASSUME NEW c \in Conns, KeeperFails(c) PROVE NoSocketLeaks'
    BY <1>15 DEF TypeOK, NoSocketLeaks, KeeperFails
  <1>16. ASSUME NEW c \in Conns, KeeperReports(c) PROVE NoSocketLeaks'
    BY <1>16 DEF TypeOK, NoSocketLeaks, KeeperReports, AfterReport
  <1>17. ASSUME NEW c \in Conns, KeeperStops(c) PROVE NoSocketLeaks'
    BY <1>17 DEF TypeOK, NoSocketLeaks, KeeperStops
  <1>18. ASSUME NEW c \in Conns, PollerStops(c) PROVE NoSocketLeaks'
    BY <1>18 DEF TypeOK, NoSocketLeaks, PollerStops
  <1>19. ASSUME NEW c \in Conns, ConnectionLost(c) PROVE NoSocketLeaks'
    BY <1>19 DEF TypeOK, NoSocketLeaks, ConnectionLost
  <1>20. ASSUME NEW l \in Loops, RetryWakes(l) PROVE NoSocketLeaks'
    BY <1>20 DEF TypeOK, NoSocketLeaks, RetryWakes, SeesDone
  <1>21. ASSUME NEW l \in Loops, RetrySends(l) PROVE NoSocketLeaks'
    BY <1>21 DEF TypeOK, NoSocketLeaks, RetrySends, Ask, AskFails, AfterSendError
  <1>22. ASSUME NEW l \in Loops, RetryLooks(l) PROVE NoSocketLeaks'
    BY <1>22 DEF TypeOK, NoSocketLeaks, RetryLooks, SeesDone
  <1>23. ASSUME Restart PROVE NoSocketLeaks'
    BY <1>23 DEF TypeOK, NoSocketLeaks, Restart, Ask, AskFails
  <1>24. ASSUME RestartFailed PROVE NoSocketLeaks'
    BY <1>24 DEF TypeOK, NoSocketLeaks, RestartFailed, ScheduleRetry
  <1>25. ASSUME DelayedStart PROVE NoSocketLeaks'
    BY <1>25 DEF TypeOK, NoSocketLeaks, DelayedStart, Ask
  <1>26. ASSUME Stop PROVE NoSocketLeaks'
    BY <1>26 DEF TypeOK, NoSocketLeaks, Stop
  <1>27. ASSUME StopCloses PROVE NoSocketLeaks'
    BY <1>27 DEF TypeOK, NoSocketLeaks, StopCloses
  <1>28. CASE UNCHANGED vars
    BY <1>28 DEF TypeOK, NoSocketLeaks, vars
  <1> QED
    BY <1>1, <1>2, <1>3, <1>4, <1>5, <1>6, <1>7, <1>8, <1>9, <1>10, <1>11, <1>12,
       <1>13, <1>14, <1>15, <1>16, <1>17, <1>18, <1>19, <1>20, <1>21, <1>22, <1>23, <1>24,
       <1>25, <1>26, <1>27, <1>28
       DEF Next, ConnectLoop, Connection, RetryLoop

-----------------------------------------------------------------------------
\* The invariant holds in every reachable state.
THEOREM Invariance == Spec => []IInv
  <1>1. IInv /\ [Next]_vars => IInv'
    BY TypeStep, RetryFlagStep, ErrBudgetStep, NoSocketLeaksStep DEF IInv
  <1> QED
    BY InitInv, <1>1, PTL DEF Spec

\* Every variable has its type.
THEOREM TypeCorrect == Spec => []TypeOK
  <1>1. IInv => TypeOK
    BY DEF IInv
  <1> QED
    BY Invariance, <1>1, PTL

\* While the retry flag is up and the client runs, a retry loop runs: a failed
\* stream request is never swallowed by a flag nobody will reset.
THEOREM RetryFlagIsTrue == Spec => []RetryFlagHasLoop
  <1>1. IInv => RetryFlagHasLoop
    BY DEF IInv
  <1> QED
    BY Invariance, <1>1, PTL

\* The reader and the keepalive of a connection never wait to report: a channel
\* of two errors is enough, in whatever order they fail and connect leaves.
THEOREM ReportsNeverWait == Spec => []ReportsFit
  <1>1. IInv => ReportsFit
    <2> SUFFICES ASSUME IInv, NEW c \in Conns,
                        reader[c] = "reporting" \/ keeper[c] = "reporting"
                 PROVE  errs[c] < ErrCap
      BY DEF ReportsFit
    <2>1. errs[c] + 1 <= 2
      BY DEF IInv, ErrBudget, Running, TypeOK
    <2> QED
      BY <2>1 DEF IInv, TypeOK
  <1> QED
    BY Invariance, <1>1, PTL

\* The connection loop closes every socket it opened before it dials again.
THEOREM SocketsAreClosed == Spec => []NoSocketLeaks
  <1>1. IInv => NoSocketLeaks
    BY DEF IInv
  <1> QED
    BY Invariance, <1>1, PTL

-----------------------------------------------------------------------------
\* The retry loops that run.
Asking == {l \in Loops : retry[l] # "none"}

\* A step that neither calls back nor changes the retries is nothing to the owner.
LEMMA LinkKept ==
  ASSUME UNCHANGED <<LinkPhase, Asking, retrying, done>>
  PROVE  UNCHANGED Link!vars
  BY DEF Asking, Link!vars, Link!retries

\* What the client schedules, the link schedules.
LEMMA LinkSchedule ==
  ASSUME TypeOK, ScheduleRetry
  PROVE  Link!Schedule
  <1>1. CASE retrying /\ UNCHANGED streamVars
    BY <1>1 DEF streamVars, Link!Schedule, Link!retries
  <1>2. ASSUME NEW l \in Loops, ~retrying, retrying' = TRUE, retry[l] = "none",
               retry' = [retry EXCEPT ![l] = "sleeping"]
        PROVE  Link!Schedule
    <2>1. l \in Loops \ Asking /\ Asking' = Asking \cup {l}
      BY <1>2 DEF TypeOK, Asking
    <2> QED
      BY <1>2, <2>1 DEF Asking, Link!Schedule
  <1> QED
    BY <1>1, <1>2 DEF ScheduleRetry

\* The flag goes down and no loop is touched.
LEMMA LinkSettled ==
  ASSUME EndRetry
  PROVE  retrying' = FALSE /\ Asking' = Asking
  BY DEF EndRetry, Asking

\* What a retry loop does is the end of it, or nothing to the owner.
LEMMA LinkRetryStep ==
  ASSUME TypeOK, NEW l \in Loops, RetryLoop(l)
  PROVE  [Link!Next]_(Link!vars)
  <1> USE DEF connVars, streamVars
  <1>1. /\ UNCHANGED <<LinkPhase, retrying, done>>
        /\ \E s \in RetryStates : retry' = [retry EXCEPT ![l] = s]
        /\ retry[l] # "none"
        /\ retry'[l] = "none" => done \/ ~retrying
    BY DEF TypeOK, RetryLoop, RetryWakes, RetrySends, RetryLooks, SeesDone, AfterSendError,
       RetryStates, LinkPhase
  <1>2. CASE retry'[l] = "none"
    <2>1. l \in Asking /\ Asking' = Asking \ {l}
      BY <1>1, <1>2 DEF TypeOK, Asking
    <2>2. Link!LoopEnds(l)
      BY <1>1, <1>2, <2>1 DEF Asking, Link!LoopEnds
    <2> QED
      BY <2>2 DEF Link!Next
  <1>3. CASE retry'[l] # "none"
    <2>1. Asking' = Asking
      BY <1>1, <1>3 DEF TypeOK, Asking
    <2> QED
      BY <1>1, <2>1, LinkKept
  <1> QED
    BY <1>2, <1>3

\* Every step of the connection loop is a step of the link, or nothing to the owner.
LEMMA LinkLoopStep ==
  ASSUME TypeOK, ConnectLoop
  PROVE  [Link!Next]_(Link!vars)
  <1> USE DEF connVars, streamVars
  <1>1. ASSUME LoopTop \/ DialFails \/ (\E c \in Conns : DialSucceeds(c)) \/ PauseEnds
        PROVE  [Link!Next]_(Link!vars)
    <2>1. UNCHANGED <<LinkPhase, Asking, retrying, done>>
      BY <1>1 DEF LoopTop, DialFails, AfterDialError, DialSucceeds, PauseEnds, LinkPhase, Asking
    <2> QED
      BY <2>1, LinkKept
  <1>2. ASSUME Install PROVE [Link!Next]_(Link!vars)
    <2>1. Link!Connect
      BY <1>2 DEF Install, LinkPhase, Link!Connect, Link!retries
    <2> QED
      BY <2>1 DEF Link!Next
  <1>3. ASSUME StartFirst PROVE [Link!Next]_(Link!vars)
    <2>1. CASE loop' = "serving"
      <3>1. Link!AskFirst
        BY <1>3, <2>1 DEF StartFirst, LinkPhase, Link!AskFirst, Link!retries
      <3> QED
        BY <3>1 DEF Link!Next
    <2>2. CASE loop' = "startFailed"
      <3>1. UNCHANGED <<LinkPhase, Asking, retrying, done>>
        BY <1>3, <2>2 DEF StartFirst, LinkPhase, Asking
      <3> QED
        BY <3>1, LinkKept
    <2> QED
      BY <1>3, <2>1, <2>2 DEF StartFirst
  <1>4. ASSUME StartFailed PROVE [Link!Next]_(Link!vars)
    <2>1. Link!Schedule
      BY <1>4, LinkSchedule DEF StartFailed
    <2>2. Link!AskFirst
      BY <1>4, <2>1 DEF StartFailed, LinkPhase, Link!AskFirst
    <2> QED
      BY <2>2 DEF Link!Next
  <1>5. ASSUME Leave PROVE [Link!Next]_(Link!vars)
    <2>1. retrying' = FALSE /\ Asking' = Asking
      BY <1>5, LinkSettled DEF Leave
    <2>2. Link!Leave
      BY <1>5, <2>1 DEF Leave, LinkPhase, Asking, Link!Leave
    <2> QED
      BY <2>2 DEF Link!Next
  <1>6. ASSUME SendStop PROVE [Link!Next]_(Link!vars)
    <2>1. UNCHANGED <<LinkPhase, Asking, retrying, done>>
      BY <1>6 DEF SendStop, LinkPhase, Asking
    <2> QED
      BY <2>1, LinkKept
  <1>7. ASSUME CloseConn PROVE [Link!Next]_(Link!vars)
    <2>1. Link!Disconnect
      BY <1>7 DEF CloseConn, LinkPhase, Link!Disconnect, Link!retries
    <2> QED
      BY <2>1 DEF Link!Next
  <1> QED
    BY <1>1, <1>2, <1>3, <1>4, <1>5, <1>6, <1>7 DEF ConnectLoop

\* Every step is a step of the link, or nothing to the owner.
LEMMA LinkStep == TypeOK /\ [Next]_vars => [Link!Next]_(Link!vars)
  <1> SUFFICES ASSUME TypeOK, [Next]_vars PROVE [Link!Next]_(Link!vars)
    OBVIOUS
  <1> USE DEF connVars, streamVars
  <1>1. ASSUME UNCHANGED <<loop, streamVars, done>> PROVE [Link!Next]_(Link!vars)
    <2>1. UNCHANGED <<LinkPhase, Asking, retrying, done>>
      BY <1>1 DEF LinkPhase, Asking
    <2> QED
      BY <2>1, LinkKept
  <1>2. ASSUME UNCHANGED <<loop, done>>, ScheduleRetry PROVE [Link!Next]_(Link!vars)
    <2>1. Link!Schedule
      BY <1>2, LinkSchedule
    <2>2. Link!AskFails
      BY <1>2, <2>1 DEF LinkPhase, Link!AskFails
    <2> QED
      BY <2>2 DEF Link!Next
  <1>3. ASSUME UNCHANGED <<loop, done>>, EndRetry PROVE [Link!Next]_(Link!vars)
    <2>1. retrying' = FALSE /\ Asking' = Asking
      BY <1>3, LinkSettled
    <2>2. Link!Settled
      BY <1>3, <2>1 DEF LinkPhase, Asking, Link!Settled
    <2> QED
      BY <2>2 DEF Link!Next
  <1>4. ASSUME NEW c \in Conns, Connection(c) PROVE [Link!Next]_(Link!vars)
    <2>1. CASE HandleAnswer(c)
      BY <1>2, <1>3, <2>1 DEF HandleAnswer
    <2>2. CASE ~HandleAnswer(c)
      BY <1>1, <1>4, <2>2 DEF Connection, ReadAnswer, ReadFails, ReaderReports,
         KeeperFails, KeeperReports, KeeperStops, PollerStops
    <2> QED
      BY <2>1, <2>2
  <1>5. ASSUME NEW c \in Conns, ConnectionLost(c) PROVE [Link!Next]_(Link!vars)
    BY <1>1, <1>5 DEF ConnectionLost
  <1>6. CASE Restart \/ DelayedStart \/ StopCloses
    BY <1>1, <1>6 DEF Restart, DelayedStart, StopCloses
  <1>7. CASE RestartFailed
    BY <1>2, <1>7 DEF RestartFailed
  <1>8. CASE Stop
    <2>1. Link!Stop
      BY <1>8 DEF Stop, LinkPhase, Link!Stop, Link!retries
    <2> QED
      BY <2>1 DEF Link!Next
  <1>9. CASE UNCHANGED vars
    BY <1>1, <1>9 DEF vars
  <1> QED
    BY <1>4, <1>5, <1>6, <1>7, <1>8, <1>9, LinkLoopStep, LinkRetryStep DEF Next

\* With its sockets, goroutines and channels the client is the link that the manager
\* takes it for.
THEOREM ClientImplementsLink == Spec => ClientIsLink
  <1>1. Init => Link!Init
    BY DEF Init, LinkPhase, Link!Init
  <1>2. IInv /\ [Next]_vars => [Link!Next]_(Link!vars)
    BY LinkStep DEF IInv
  <1> QED
    BY Invariance, <1>1, <1>2, PTL DEF Spec, ClientIsLink, Link!Spec

-----------------------------------------------------------------------------
(* What requests are written to, and how the client ends.                  *)

\* connect has made its connection the one of the client, and has not left it.
Installed == loop \in {"starting", "startFailed", "serving", "stopping", "closing"}

\* c.conn is the connection that is served; between connections it is a closed one.
ConnInv ==
    /\ Installed => conn = cur
    /\ conn # None /\ ~Installed => conn # cur /\ sock[conn] = "closed"

\* No step leaves c.conn at a connection that is open and not served.
LEMMA ConnStep == TypeOK /\ ConnInv /\ [Next]_vars => ConnInv'
  <1> SUFFICES ASSUME TypeOK, ConnInv, [Next]_vars PROVE ConnInv'
    OBVIOUS
  <1> USE DEF TypeOK, connVars, streamVars, Installed
  <1>1. ASSUME UNCHANGED <<loop, cur, conn>>,
               \A c \in Conns : sock[c] = "closed" => sock'[c] = "closed"
        PROVE  ConnInv'
    BY <1>1 DEF ConnInv
  <1>2. ASSUME LoopTop \/ DialFails \/ PauseEnds PROVE ConnInv'
    BY <1>2 DEF LoopTop, DialFails, AfterDialError, PauseEnds, ConnInv
  <1>3. ASSUME NEW c \in Conns, DialSucceeds(c) PROVE ConnInv'
    BY <1>3 DEF DialSucceeds, ConnInv
  <1>4. ASSUME Install PROVE ConnInv'
    BY <1>4 DEF Install, ConnInv
  <1>5. ASSUME StartFirst \/ StartFailed \/ Leave \/ SendStop PROVE ConnInv'
    BY <1>5 DEF StartFirst, StartFailed, Leave, SendStop, ConnInv
  <1>6. ASSUME CloseConn PROVE ConnInv'
    BY <1>6 DEF CloseConn, ClosedSock, ConnInv
  <1>7. ASSUME NEW c \in Conns, Connection(c) \/ ConnectionLost(c) PROVE ConnInv'
    BY <1>1, <1>7 DEF Connection, ReadAnswer, HandleAnswer, ReadFails, ReaderReports,
       KeeperFails, KeeperReports, KeeperStops, PollerStops, ConnectionLost
  <1>8. ASSUME NEW l \in Loops, RetryLoop(l) PROVE ConnInv'
    BY <1>1, <1>8 DEF RetryLoop, RetryWakes, RetrySends, RetryLooks
  <1>9. CASE Restart \/ RestartFailed \/ DelayedStart \/ Stop \/ UNCHANGED vars
    BY <1>1, <1>9 DEF Restart, RestartFailed, DelayedStart, Stop, vars
  <1>10. CASE StopCloses
    BY <1>1, <1>10 DEF StopCloses
  <1> QED
    BY <1>2, <1>3, <1>4, <1>5, <1>6, <1>7, <1>8, <1>9, <1>10 DEF Next, ConnectLoop

\* c.conn is the connection that is served or a closed one.
LEMMA ConnIsServed == Spec => []ConnInv
  <1>1. Init => ConnInv
    BY DEF Init, ConnInv, Installed
  <1>2. IInv /\ ConnInv /\ [Next]_vars => ConnInv'
    BY ConnStep DEF IInv
  <1> QED
    BY <1>1, <1>2, Invariance, PTL DEF Spec

\* Retry loops, RestartStreaming and delayed starts read c.conn at any time
\* (client.go:580-592), also while connect is between two connections; what they get to
\* write is written to the connection connect is serving, never to one it has left or
\* has not begun to read.
THEOREM RequestsAreServed ==
  Spec => [][\A c \in Conns : asked'[c] > asked[c] => c = cur /\ Installed]_vars
  <1> DEFINE Served(c) == asked'[c] > asked[c] => c = cur /\ Installed
  <1>1. ASSUME TypeOK, TypeOK', ConnInv, Next, NEW c \in Conns PROVE Served(c)
    <2> USE <1>1 DEF TypeOK, connVars
    <2>0. asked[c] \in Nat /\ asked'[c] \in Nat
      OBVIOUS
    <2>1. ASSUME Ask PROVE Served(c)
      <3>1. conn # None /\ sock[conn] # "closed"
        BY <2>1 DEF Ask
      <3>2. Installed /\ conn = cur
        BY <3>1 DEF ConnInv
      <3> QED
        BY <2>1, <3>1, <3>2 DEF Ask
    <2>2. ASSUME asked'[c] <= asked[c] PROVE Served(c)
      BY <2>0, <2>2
    <2>3. ASSUME asked' = asked PROVE Served(c)
      BY <2>2, <2>3
    <2>4. CASE ConnectLoop
      <3>1. ASSUME NEW d \in Conns, DialSucceeds(d) PROVE asked'[c] <= asked[c]
        BY <3>1 DEF DialSucceeds
      <3> QED
        BY <2>1, <2>2, <2>3, <2>4, <3>1 DEF ConnectLoop, LoopTop, DialFails, Install,
           StartFirst, StartFailed, Leave, SendStop, CloseConn, PauseEnds, AskFails
    <2>5. ASSUME NEW d \in Conns, Connection(d) \/ ConnectionLost(d) PROVE Served(c)
      <3>1. ASSUME (\E answer \in Answers : ReadAnswer(d, answer)) \/ ReaderReports(d)
            PROVE  asked'[c] <= asked[c]
        BY <3>1 DEF ReadAnswer, ReaderReports
      <3> QED
        BY <2>2, <2>3, <2>5, <3>1 DEF Connection, HandleAnswer, ReadFails, KeeperFails,
           KeeperReports, KeeperStops, PollerStops, ConnectionLost
    <2>6. ASSUME NEW l \in Loops, RetryLoop(l) PROVE Served(c)
      BY <2>1, <2>3, <2>6 DEF RetryLoop, RetryWakes, RetrySends, RetryLooks, AskFails
    <2>7. CASE Restart \/ RestartFailed \/ DelayedStart \/ Stop \/ StopCloses
      BY <2>1, <2>3, <2>7 DEF Restart, RestartFailed, DelayedStart, Stop, StopCloses, AskFails
    <2> QED
      BY <2>4, <2>5, <2>6, <2>7 DEF Next
  <1>2. IInv /\ ConnInv /\ [Next]_vars => [\A c \in Conns : Served(c)]_vars
    BY <1>1, TypeStep DEF IInv
  <1> QED
    BY <1>2, Invariance, ConnIsServed, PTL DEF Spec

\* How far connectLoop is from its end.
Rank(place) ==
    CASE place = "top" -> 9      [] place = "dialing" -> 8     [] place = "dialed" -> 7
      [] place = "starting" -> 6 [] place = "startFailed" -> 5 [] place = "serving" -> 4
      [] place = "stopping" -> 3 [] place = "closing" -> 2     [] place = "pause" -> 1
      [] OTHER -> 0

\* A goroutine of the connection starts.
Starts(c) ==
    \/ reader[c] = "ended" /\ reader'[c] # "ended"
    \/ keeper[c] = "ended" /\ keeper'[c] # "ended"
    \/ c \notin polling /\ c \in polling'

\* The safety part of StopEndsGoroutines (client.go:132-153, 173-193): once c.done is
\* closed, wherever Stop came between the steps of connectLoop, the loop only gets nearer
\* to its end, and no goroutine starts but those of a connection that was being dialed.
THEOREM StopWindsDown ==
  Spec => [][done => /\ done'
                     /\ loop' = loop \/ Rank(loop') < Rank(loop)
                     /\ \A c \in Conns : Starts(c) => loop = "dialed" /\ c = cur]_vars
  <1> DEFINE WindsDown ==
               done => /\ done'
                       /\ loop' = loop \/ Rank(loop') < Rank(loop)
                       /\ \A c \in Conns : Starts(c) => loop = "dialed" /\ c = cur
  <1>1. ASSUME TypeOK, Next PROVE WindsDown
    <2> USE <1>1 DEF connVars, streamVars
    <2>1. /\ Rank("top") = 9 /\ Rank("dialing") = 8 /\ Rank("dialed") = 7
          /\ Rank("starting") = 6 /\ Rank("startFailed") = 5 /\ Rank("serving") = 4
          /\ Rank("stopping") = 3 /\ Rank("closing") = 2 /\ Rank("pause") = 1
          /\ Rank("ended") = 0
      BY DEF Rank
    <2>2. CASE Install
      <3>1. \A c \in Conns : Starts(c) => loop = "dialed" /\ c = cur
        BY <2>2 DEF Install, Starts, TypeOK
      <3> QED
        BY <2>1, <2>2, <3>1 DEF Install
    <2>3. CASE ConnectLoop /\ ~Install
      <3>1. \A c \in Conns : ~Starts(c)
        BY <2>3 DEF ConnectLoop, LoopTop, DialFails, DialSucceeds, StartFirst, StartFailed,
           Leave, SendStop, CloseConn, PauseEnds, Starts
      <3>2. CASE LoopTop \/ DialFails \/ (\E c \in Conns : DialSucceeds(c))
        <4>1. CASE LoopTop
          BY <2>1, <3>1, <4>1 DEF LoopTop
        <4>2. CASE DialFails
          BY <2>1, <3>1, <4>2 DEF DialFails, AfterDialError
        <4>3. ASSUME NEW c \in Conns, DialSucceeds(c) PROVE WindsDown
          BY <2>1, <3>1, <4>3 DEF DialSucceeds
        <4> QED
          BY <3>2, <4>1, <4>2, <4>3
      <3>3. CASE StartFirst
        BY <2>1, <3>1, <3>3 DEF StartFirst
      <3>4. CASE StartFailed
        BY <2>1, <3>1, <3>4 DEF StartFailed
      <3>5. CASE Leave
        BY <2>1, <3>1, <3>5 DEF Leave
      <3>6. CASE SendStop
        BY <2>1, <3>1, <3>6 DEF SendStop
      <3>7. CASE CloseConn
        BY <2>1, <3>1, <3>7 DEF CloseConn
      <3>8. CASE PauseEnds
        BY <2>1, <3>1, <3>8 DEF PauseEnds
      <3> QED
        BY <2>3, <3>2, <3>3, <3>4, <3>5, <3>6, <3>7, <3>8 DEF ConnectLoop
    <2>4. ASSUME NEW c \in Conns, Connection(c) \/ ConnectionLost(c) PROVE WindsDown
      <3>1. UNCHANGED <<done, loop>>
        BY <2>4 DEF Connection, ReadAnswer, HandleAnswer, ReadFails, ReaderReports,
           KeeperFails, KeeperReports, KeeperStops, PollerStops, ConnectionLost
      <3>2. \A d \in Conns : ~Starts(d)
        BY <2>4 DEF Connection, ReadAnswer, HandleAnswer, ReadFails, ReaderReports,
           KeeperFails, KeeperReports, AfterReport, KeeperStops, PollerStops,
           ConnectionLost, Answers, Starts, TypeOK
      <3> QED
        BY <3>1, <3>2
    <2>5. ASSUME NEW l \in Loops, RetryLoop(l) PROVE WindsDown
      BY <2>5 DEF RetryLoop, RetryWakes, RetrySends, RetryLooks, Starts
    <2>6. CASE Restart \/ RestartFailed \/ DelayedStart \/ Stop \/ StopCloses
      BY <2>6 DEF Restart, RestartFailed, DelayedStart, Stop, StopCloses, Starts
    <2> QED
      BY <2>2, <2>3, <2>4, <2>5, <2>6 DEF Next
  <1>2. IInv /\ [Next]_vars => [WindsDown]_vars
    BY <1>1 DEF IInv
  <1> QED
    BY <1>2, Invariance, PTL DEF Spec
\* The client counts on no other use by its owner than ClientUse allows, and Manager makes:
\* one Stop, and no Start after it (client.go:127-153).
THEOREM UseOfClient == Spec => IsUsedSo
  <1> USE DEF connVars, streamVars
  <1>1. ASSUME UNCHANGED <<done, stopping>> PROVE UNCHANGED Use!vars
    BY <1>1 DEF Use!vars
  <1>2. ASSUME Stop PROVE Use!Next
    <2>1. Use!Stop({"client"})
      BY <1>2 DEF Stop, Use!Stop, Use!Become
    <2> QED
      BY <2>1 DEF Use!Next
  <1>3. ASSUME StopCloses, done PROVE Use!Next
    <2>1. Use!StopReturns("client")
      BY <1>3 DEF StopCloses, Use!StopReturns, Use!Become
    <2> QED
      BY <2>1 DEF Use!Next
  <1>4. ASSUME [Next]_vars PROVE Stop \/ StopCloses \/ UNCHANGED <<done, stopping>>
    <2>1. ASSUME ConnectLoop PROVE UNCHANGED <<done, stopping>>
      BY <2>1 DEF ConnectLoop, LoopTop, DialFails, DialSucceeds, Install, StartFirst,
         StartFailed, Leave, SendStop, CloseConn, PauseEnds
    <2>2. ASSUME NEW c \in Conns, Connection(c) \/ ConnectionLost(c)
          PROVE  UNCHANGED <<done, stopping>>
      BY <2>2 DEF Connection, ReadAnswer, HandleAnswer, ReadFails, ReaderReports,
         KeeperFails, KeeperReports, KeeperStops, PollerStops, ConnectionLost
    <2>3. ASSUME (\E l \in Loops : RetryLoop(l)) \/ UNCHANGED vars
          PROVE  UNCHANGED <<done, stopping>>
      BY <2>3 DEF RetryLoop, RetryWakes, RetrySends, RetryLooks, vars
    <2>4. ASSUME Restart \/ RestartFailed \/ DelayedStart PROVE UNCHANGED <<done, stopping>>
      BY <2>4 DEF Restart, RestartFailed, DelayedStart
    <2> QED
      BY <1>4, <2>1, <2>2, <2>3, <2>4 DEF Next
  <1>5. (stopping => done) /\ [Next]_vars => (stopping => done)'
    BY <1>4 DEF Stop, StopCloses
  <1>6. (stopping => done) /\ [Next]_vars => [Use!Next]_(Use!vars)
    BY <1>1, <1>2, <1>3, <1>4 DEF StopCloses
  <1>7. Init => (stopping => done)
    BY DEF Init
  <1> QED
    BY <1>5, <1>6, <1>7, PTL DEF Spec, IsUsedSo
=============================================================================
