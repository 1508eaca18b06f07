----------------------- MODULE StreamSupervisionProofs -----------------------
(***************************************************************************)
(* Proofs about StreamSupervision, for any number of publishers and retry  *)
(* loops.  MarksAreCorrected is not inductive: between the acceptance of   *)
(* a request and the connection of the camera to the relay nothing is      *)
(* streaming yet, and a camera that woke up has no request open.  The      *)
(* refinements show that its relay and its client are those of RtmpRelay   *)
(* and CameraClient.  The last theorems are the safety part of             *)
(* StreamIsLeftAlone, and what is then shown.                              *)
(***************************************************************************)
EXTENDS StreamSupervision, TLAPS

\* A camera in sleep mode streams nothing and will not; nor does one that said so
\* and was not asked since.
CameraInv ==
    /\ ~awake => ~wants /\ feeds = None
    /\ hand = "sleeping" /\ link = "open" => ~wants /\ feeds = None

\* Somebody asks, was asked, or answers.
Correcting ==
    \/ asked > 0 \/ hand # "none" \/ retrying
    \/ watch = "marked" \/ \E p \in Pubs : pub[p] = "marked"

\* What streams or will was reported since it was marked, or somebody will ask.
CorrectedInv ==
    phase = "serving" /\ link = "open" /\ (wants \/ feeds # None) /\ told = "nothing" =>
        Correcting

\* The state shown is the one reported last, if nobody marked it since.
ReportsInv == told # "nothing" => stream = Shown[told]
-----------------------------------------------------------------------------

\* A loop is started with its type.
LEMMA ScheduleRetryType ==
  ASSUME TypeOK, ScheduleRetry
  PROVE  /\ retrying' \in BOOLEAN
         /\ retry' \in [Loops -> {"none", "sleeping", "waiting"}]
  <1>1. CASE retrying /\ UNCHANGED <<retrying, retry>>
    <2>1. retrying' = retrying /\ retry' = retry
      BY <1>1
    <2> QED
      BY <2>1 DEF TypeOK
  <1>2. ASSUME NEW l \in Loops, retrying' = TRUE,
               retry' = [retry EXCEPT ![l] = "sleeping"]
        PROVE  /\ retrying' \in BOOLEAN
               /\ retry' \in [Loops -> {"none", "sleeping", "waiting"}]
    <2>1. retrying' \in BOOLEAN
      BY <1>2
    <2>2. retry' \in [Loops -> {"none", "sleeping", "waiting"}]
      BY <1>2 DEF TypeOK
    <2> QED
      BY <2>1, <2>2
  <1> QED
    BY <1>1, <1>2 DEF ScheduleRetry

\* A request keeps the types of what it changes.
LEMMA AskOrRetryType ==
  ASSUME TypeOK, AskOrRetry
  PROVE  /\ asked' \in 0..MaxAsked
         /\ retrying' \in BOOLEAN
         /\ retry' \in [Loops -> {"none", "sleeping", "waiting"}]
  <1>1. CASE Ask /\ UNCHANGED <<retrying, retry>>
    <2>1. asked' \in 0..MaxAsked
      BY <1>1, MaxAskedAssumption DEF TypeOK, Ask
    <2>2. retrying' = retrying /\ retry' = retry
      BY <1>1
    <2> QED
      BY <2>1, <2>2 DEF TypeOK
  <1>2. CASE AskFails /\ ScheduleRetry
    <2>1. asked' \in 0..MaxAsked
      BY <1>2 DEF TypeOK, AskFails
    <2> QED
      BY <1>2, <2>1, ScheduleRetryType
  <1> QED
    BY <1>1, <1>2 DEF AskOrRetry

\* Every step keeps the types.
LEMMA TypeStep ==
  TypeOK /\ [Next]_vars => TypeOK'
  <1> SUFFICES ASSUME TypeOK, [Next]_vars PROVE TypeOK'
    OBVIOUS
  <1> USE NoneAssumption, MaxAskedAssumption DEF client, state, relay, camera
  <1>1. ASSUME Connect PROVE TypeOK'
    BY <1>1 DEF TypeOK, Phases, Connect
  <1>2. ASSUME StartFirst PROVE TypeOK'
    <2>1. /\ hand' = hand /\ entries' = entries /\ alive' = alive /\ stream' = stream
          /\ told' = told /\ watch' = watch /\ pub' = pub /\ registered' = registered
          /\ awake' = awake /\ wants' = wants /\ feeds' = feeds
      BY <1>2 DEF StartFirst
    <2>2. (phase \in Phases /\ link \in {"none", "open", "broken"})'
      BY <1>2 DEF TypeOK, Phases, StartFirst
    <2>3. (asked \in 0..MaxAsked)'
      BY <1>2, AskOrRetryType DEF StartFirst
    <2>4. (retrying \in BOOLEAN)'
      BY <1>2, AskOrRetryType DEF StartFirst
    <2>5. (retry \in [Loops -> {"none", "sleeping", "waiting"}])'
      BY <1>2, AskOrRetryType DEF StartFirst
    <2> QED
      BY <2>1, <2>2, <2>3, <2>4, <2>5 DEF TypeOK
  <1>3. ASSUME Leave PROVE TypeOK'
    <2>1. /\ asked' = asked /\ hand' = hand /\ entries' = entries /\ retry' = retry
          /\ alive' = alive /\ stream' = stream /\ told' = told /\ watch' = watch
          /\ pub' = pub /\ registered' = registered /\ awake' = awake
          /\ feeds' = feeds
      BY <1>3 DEF Leave
    <2>2. (phase \in Phases /\ link \in {"none", "open", "broken"})'
      BY <1>3 DEF TypeOK, Phases, Leave
    <2>3. (retrying \in BOOLEAN)'
      BY <1>3 DEF Leave
    <2>4. (wants \in BOOLEAN)'
      BY <1>3, Zenon DEF TypeOK, Leave
    <2> QED
      BY <2>1, <2>2, <2>3, <2>4 DEF TypeOK
  <1>4. ASSUME OnDisconnect PROVE TypeOK'
    <2>1. /\ asked' = asked /\ hand' = hand /\ entries' = entries
          /\ retrying' = retrying /\ retry' = retry /\ stream' = stream
          /\ told' = told /\ watch' = watch /\ pub' = pub /\ registered' = registered
          /\ awake' = awake /\ wants' = wants /\ feeds' = feeds
      BY <1>4 DEF OnDisconnect
    <2>2. (phase \in Phases /\ link \in {"none", "open", "broken"})'
      BY <1>4 DEF Phases, OnDisconnect
    <2>3. (alive \in BOOLEAN)'
      BY <1>4 DEF OnDisconnect
    <2> QED
      BY <2>1, <2>2, <2>3 DEF TypeOK
  <1>5. ASSUME OnDisconnectStopped PROVE TypeOK'
    BY <1>5 DEF TypeOK, Phases, OnDisconnectStopped, MarkStopped
  <1>6. ASSUME Break PROVE TypeOK'
    <2>1. /\ hand' = hand /\ entries' = entries /\ retrying' = retrying
          /\ retry' = retry /\ alive' = alive /\ stream' = stream /\ told' = told
          /\ watch' = watch /\ pub' = pub /\ registered' = registered
          /\ awake' = awake /\ feeds' = feeds
      BY <1>6 DEF Break
    <2>2. (phase \in Phases /\ link \in {"none", "open", "broken"})'
      BY <1>6 DEF TypeOK, Phases, Break
    <2>3. (asked \in 0..MaxAsked)'
      BY <1>6, MaxAskedAssumption DEF Break
    <2>4. (wants \in BOOLEAN)'
      BY <1>6 DEF TypeOK, Break
    <2> QED
      BY <2>1, <2>2, <2>3, <2>4 DEF TypeOK
  <1>7. ASSUME HandleMessage PROVE TypeOK'
    <2>1. /\ phase' = phase /\ asked' = asked /\ alive' = alive /\ watch' = watch
          /\ pub' = pub /\ registered' = registered /\ awake' = awake /\ wants' = wants
          /\ feeds' = feeds /\ link' = link
      BY <1>7 DEF HandleMessage
    <2>2. CASE HandleAnswer /\ UNCHANGED <<stream, told>>
      <3>1. entries' \in 0..MaxEntries /\ stream' = stream /\ told' = told
        BY <2>2 DEF HandleAnswer, TypeOK
      <3>2. hand' \in Messages \cup {"none"}
        BY <2>2 DEF HandleAnswer, Messages
      <3>3. retrying' \in BOOLEAN
        BY <2>2, ScheduleRetryType DEF HandleAnswer, AfterAccepted
      <3>4. retry' \in [Loops -> {"none", "sleeping", "waiting"}]
        BY <2>2, ScheduleRetryType DEF TypeOK, HandleAnswer
      <3> QED
        BY <2>1, <3>1, <3>2, <3>3, <3>4 DEF TypeOK
    <2>3. CASE HandleReport /\ UNCHANGED <<retrying, retry>>
      <3>1. retrying' = retrying /\ retry' = retry
        BY <2>3
      <3>2. hand' \in Messages \cup {"none"}
        BY <2>3 DEF HandleReport, Messages
      <3>3. entries' \in 0..MaxEntries
        BY <2>3, MaxEntriesAssumption DEF HandleReport, TypeOK
      <3>4. stream' \in {"stopped", "active", "unhealthy"} /\ told' \in Statuses
        BY <2>3 DEF HandleReport, Reported, Statuses, Shown
      <3> QED
        BY <2>1, <3>1, <3>2, <3>3, <3>4 DEF TypeOK
    <2> QED
      BY <1>7, <2>2, <2>3 DEF HandleMessage
  <1>8. ASSUME NEW l \in Loops, RetryWakes(l) PROVE TypeOK'
    BY <1>8 DEF TypeOK, Phases, RetryWakes, Ask, AskFails
  <1>9. ASSUME NEW l \in Loops, RetryWaited(l) PROVE TypeOK'
    BY <1>9 DEF TypeOK, Phases, RetryWaited
  <1>10. ASSUME WatchdogFinds PROVE TypeOK'
    BY <1>10 DEF TypeOK, Phases, WatchdogFinds, StreamMissing
  <1>11. ASSUME WatchdogMarks PROVE TypeOK'
    BY <1>11 DEF TypeOK, Phases, WatchdogMarks, MarkStopped
  <1>12. ASSUME WatchdogAsks PROVE TypeOK'
    <2>1. /\ phase' = phase /\ hand' = hand /\ entries' = entries /\ alive' = alive
          /\ stream' = stream /\ told' = told /\ pub' = pub
          /\ registered' = registered /\ awake' = awake /\ wants' = wants
          /\ feeds' = feeds /\ link' = link
      BY <1>12 DEF WatchdogAsks
    <2>2. (asked \in 0..MaxAsked)'
      BY <1>12, AskOrRetryType DEF WatchdogAsks
    <2>3. (retrying \in BOOLEAN)'
      BY <1>12, AskOrRetryType DEF WatchdogAsks
    <2>4. (retry \in [Loops -> {"none", "sleeping", "waiting"}])'
      BY <1>12, AskOrRetryType DEF WatchdogAsks
    <2>5. (watch \in {"ticking", "missing", "marked", "cooling"})'
      BY <1>12 DEF TypeOK, Phases, WatchdogAsks
    <2> QED
      BY <2>1, <2>2, <2>3, <2>4, <2>5 DEF TypeOK
  <1>13. ASSUME CooldownEnds PROVE TypeOK'
    BY <1>13 DEF TypeOK, Phases, CooldownEnds
  <1>14. ASSUME NEW p \in Pubs, PublisherLeaves(p) PROVE TypeOK'
    BY <1>14 DEF TypeOK, Phases, PublisherLeaves
  <1>15. ASSUME NEW p \in Pubs, RestartStreamMarks(p) PROVE TypeOK'
    BY <1>15 DEF TypeOK, Phases, RestartStreamMarks, MarkStopped
  <1>16. ASSUME NEW p \in Pubs, RestartStreamAsks(p) PROVE TypeOK'
    <2>1. /\ phase' = phase /\ hand' = hand /\ entries' = entries /\ alive' = alive
          /\ stream' = stream /\ told' = told /\ watch' = watch
          /\ registered' = registered /\ awake' = awake /\ wants' = wants
          /\ feeds' = feeds /\ link' = link
      BY <1>16 DEF RestartStreamAsks, AskAgain
    <2>2. (asked \in 0..MaxAsked)'
      BY <1>16, AskOrRetryType DEF RestartStreamAsks, AskAgain
    <2>3. (retrying \in BOOLEAN)'
      BY <1>16, AskOrRetryType DEF RestartStreamAsks, AskAgain
    <2>4. (retry \in [Loops -> {"none", "sleeping", "waiting"}])'
      BY <1>16, AskOrRetryType DEF RestartStreamAsks, AskAgain
    <2>5. (pub \in [Pubs -> {"none", "open", "left", "marked"}])'
      BY <1>16 DEF TypeOK, Phases, RestartStreamAsks, AskAgain
    <2> QED
      BY <2>1, <2>2, <2>3, <2>4, <2>5 DEF TypeOK
  <1>17. ASSUME Accept PROVE TypeOK'
    <2>1. wants' \in BOOLEAN
      BY <1>17 DEF TypeOK, Accept
    <2> QED
      BY <1>17, <2>1 DEF TypeOK, Messages, Accept, Answer
  <1>18. ASSUME Refuse PROVE TypeOK'
    BY <1>18 DEF TypeOK, Messages, Refuse, Answer
  <1>19. ASSUME NEW p \in Pubs, Publish(p) PROVE TypeOK'
    <2>1. /\ phase' = phase /\ asked' = asked /\ hand' = hand /\ entries' = entries
          /\ retrying' = retrying /\ retry' = retry /\ alive' = alive
          /\ stream' = stream /\ told' = told /\ watch' = watch /\ awake' = awake
          /\ link' = link
      BY <1>19 DEF Publish
    <2>2. (pub \in [Pubs -> {"none", "open", "left", "marked"}])'
      BY <1>19 DEF TypeOK, Publish
    <2>3. (registered \in Pubs \cup {None})'
      BY <1>19 DEF Publish
    <2>4. (wants \in BOOLEAN)'
      BY <1>19 DEF Publish
    <2>5. (feeds \in Pubs \cup {None})'
      BY <1>19 DEF Publish
    <2> QED
      BY <2>1, <2>2, <2>3, <2>4, <2>5 DEF TypeOK
  <1>20. ASSUME Forget PROVE TypeOK'
    <2>1. /\ phase' = phase /\ asked' = asked /\ hand' = hand /\ entries' = entries
          /\ retrying' = retrying /\ retry' = retry /\ alive' = alive
          /\ stream' = stream /\ told' = told /\ watch' = watch /\ pub' = pub
          /\ registered' = registered /\ awake' = awake /\ feeds' = feeds
          /\ link' = link
      BY <1>20 DEF Forget
    <2>2. (wants \in BOOLEAN)'
      BY <1>20 DEF Forget
    <2> QED
      BY <2>1, <2>2 DEF TypeOK
  <1>21. ASSUME Drop PROVE TypeOK'
    BY <1>21 DEF TypeOK, Phases, Drop
  <1>22. ASSUME Sleep PROVE TypeOK'
    <2>1. /\ phase' = phase /\ asked' = asked /\ hand' = hand /\ entries' = entries
          /\ retrying' = retrying /\ retry' = retry /\ alive' = alive
          /\ stream' = stream /\ told' = told /\ watch' = watch /\ pub' = pub
          /\ registered' = registered /\ link' = link
      BY <1>22 DEF Sleep
    <2>2. (awake \in BOOLEAN)'
      BY <1>22 DEF Sleep
    <2>3. (wants \in BOOLEAN)'
      BY <1>22 DEF Sleep
    <2>4. (feeds \in Pubs \cup {None})'
      BY <1>22 DEF Sleep
    <2> QED
      BY <2>1, <2>2, <2>3, <2>4 DEF TypeOK
  <1>23. ASSUME Wake PROVE TypeOK'
    BY <1>23 DEF TypeOK, Phases, Wake, Ask
  <1>24. ASSUME Report PROVE TypeOK'
    <2>1. entries' \in 0..MaxEntries
      BY <1>24, MaxEntriesAssumption DEF Report
    <2> QED
      BY <1>24, <2>1 DEF TypeOK, Messages, Report
  <1>25. CASE UNCHANGED vars
    BY <1>25 DEF TypeOK, Phases, vars
  <1> QED
    BY <1>1, <1>2, <1>3, <1>4, <1>5, <1>6, <1>7, <1>8, <1>9, <1>10, <1>11, <1>12,
       <1>13, <1>14, <1>15, <1>16, <1>17, <1>18, <1>19, <1>20, <1>21, <1>22, <1>23, <1>24, <1>25
       DEF Next, Bridge, ConnectLoop, RetryLoop, WatchdogLoop, Publisher, Camera

\* A camera is asleep for as long as it streams nothing.
LEMMA CameraStep ==
  TypeOK /\ CameraInv /\ [Next]_vars => CameraInv'
  <1> SUFFICES ASSUME TypeOK, CameraInv, [Next]_vars PROVE CameraInv'
    OBVIOUS
  <1> USE NoneAssumption, MaxAskedAssumption DEF client, state, relay, camera
  <1>1. ASSUME Connect PROVE CameraInv'
    BY <1>1 DEF TypeOK, Phases, CameraInv, Connect
  <1>2. ASSUME StartFirst PROVE CameraInv'
    BY <1>2 DEF TypeOK, Phases, CameraInv, StartFirst, AskOrRetry, Ask,
       AskFails, ScheduleRetry
  <1>3. ASSUME Leave PROVE CameraInv'
    <2>1. phase = "serving" /\ link = "broken" /\ hand' = hand /\ link' = link /\ feeds' = feeds
      BY <1>3 DEF Leave
    <2>2. awake' = awake /\ (wants' = wants \/ wants' = FALSE)
      BY <1>3 DEF Leave
    <2>3. (~awake => ~wants /\ feeds = None)'
      BY <2>1, <2>2 DEF CameraInv
    <2> QED
      BY <2>1, <2>3 DEF CameraInv
  <1>4. ASSUME OnDisconnect PROVE CameraInv'
    BY <1>4 DEF TypeOK, Phases, CameraInv, OnDisconnect
  <1>5. ASSUME OnDisconnectStopped PROVE CameraInv'
    BY <1>5 DEF TypeOK, Phases, CameraInv, OnDisconnectStopped
  <1>6. ASSUME Break PROVE CameraInv'
    BY <1>6 DEF TypeOK, Phases, CameraInv, Break
  <1>7. ASSUME HandleMessage PROVE CameraInv'
    BY <1>7 DEF TypeOK, Phases, CameraInv, HandleMessage, HandleAnswer,
       HandleReport, ScheduleRetry, AfterAccepted
  <1>8. ASSUME NEW l \in Loops, RetryWakes(l) PROVE CameraInv'
    BY <1>8 DEF TypeOK, Phases, CameraInv, RetryWakes, Ask, AskFails
  <1>9. ASSUME NEW l \in Loops, RetryWaited(l) PROVE CameraInv'
    BY <1>9 DEF TypeOK, Phases, CameraInv, RetryWaited
  <1>10. ASSUME WatchdogFinds PROVE CameraInv'
    BY <1>10 DEF TypeOK, Phases, CameraInv, WatchdogFinds, StreamMissing
  <1>11. ASSUME WatchdogMarks PROVE CameraInv'
    BY <1>11 DEF TypeOK, Phases, CameraInv, WatchdogMarks, MarkStopped
  <1>12. ASSUME WatchdogAsks PROVE CameraInv'
    BY <1>12 DEF TypeOK, Phases, CameraInv, WatchdogAsks, AskOrRetry, Ask,
       AskFails, ScheduleRetry
  <1>13. ASSUME CooldownEnds PROVE CameraInv'
    BY <1>13 DEF TypeOK, Phases, CameraInv, CooldownEnds
  <1>14. ASSUME NEW p \in Pubs, PublisherLeaves(p) PROVE CameraInv'
    BY <1>14 DEF TypeOK, Phases, CameraInv, PublisherLeaves
  <1>15. ASSUME NEW p \in Pubs, RestartStreamMarks(p) PROVE CameraInv'
    BY <1>15 DEF TypeOK, Phases, CameraInv, RestartStreamMarks, MarkStopped
  <1>16. ASSUME NEW p \in Pubs, RestartStreamAsks(p) PROVE CameraInv'
    BY <1>16 DEF TypeOK, Phases, CameraInv, RestartStreamAsks, AskAgain,
       AskOrRetry, Ask, AskFails, ScheduleRetry
  <1>17. ASSUME Accept PROVE CameraInv'
    BY <1>17 DEF TypeOK, Phases, CameraInv, Accept, Answer
  <1>18. ASSUME Refuse PROVE CameraInv'
    BY <1>18 DEF TypeOK, Phases, CameraInv, Refuse, Answer
  <1>19. ASSUME NEW p \in Pubs, Publish(p) PROVE CameraInv'
    BY <1>19 DEF TypeOK, Phases, CameraInv, Publish
  <1>20. ASSUME Forget PROVE CameraInv'
    BY <1>20 DEF TypeOK, Phases, CameraInv, Forget
  <1>21. ASSUME Drop PROVE CameraInv'
    BY <1>21 DEF TypeOK, Phases, CameraInv, Drop
  <1>22. ASSUME Sleep PROVE CameraInv'
    BY <1>22 DEF TypeOK, Phases, CameraInv, Sleep
  <1>23. ASSUME Wake PROVE CameraInv'
    BY <1>23 DEF TypeOK, Phases, CameraInv, Wake, Ask
  <1>24. ASSUME Report PROVE CameraInv'
    BY <1>24 DEF TypeOK, CameraInv, Report
  <1>25. CASE UNCHANGED vars
    BY <1>25 DEF TypeOK, Phases, CameraInv, vars
  <1> QED
    BY <1>1, <1>2, <1>3, <1>4, <1>5, <1>6, <1>7, <1>8, <1>9, <1>10, <1>11, <1>12,
       <1>13, <1>14, <1>15, <1>16, <1>17, <1>18, <1>19, <1>20, <1>21, <1>22, <1>23, <1>24, <1>25
       DEF Next, Bridge, ConnectLoop, RetryLoop, WatchdogLoop, Publisher, Camera

\* Every mark is followed by a request, and every refusal by another.
LEMMA CorrectedStep ==
  TypeOK /\ CameraInv /\ CorrectedInv /\ [Next]_vars => CorrectedInv'
  <1> SUFFICES ASSUME TypeOK, CameraInv, CorrectedInv, [Next]_vars PROVE CorrectedInv'
    OBVIOUS
  <1> USE NoneAssumption, MaxAskedAssumption DEF client, state, relay, camera
  <1>1. ASSUME Connect PROVE CorrectedInv'
    BY <1>1 DEF TypeOK, Phases, CameraInv, CorrectedInv, Correcting, Connect
  <1>2. ASSUME StartFirst PROVE CorrectedInv'
    BY <1>2 DEF TypeOK, Phases, CameraInv, CorrectedInv, Correcting,
       StartFirst, AskOrRetry, Ask, AskFails, ScheduleRetry
  <1>3. ASSUME Leave PROVE CorrectedInv'
    BY <1>3 DEF TypeOK, Phases, CameraInv, CorrectedInv, Correcting, Leave
  <1>4. ASSUME OnDisconnect PROVE CorrectedInv'
    BY <1>4 DEF TypeOK, Phases, CameraInv, CorrectedInv, Correcting,
       OnDisconnect
  <1>5. ASSUME OnDisconnectStopped PROVE CorrectedInv'
    BY <1>5 DEF TypeOK, Phases, CameraInv, CorrectedInv, Correcting,
       OnDisconnectStopped
  <1>6. ASSUME Break PROVE CorrectedInv'
    BY <1>6 DEF TypeOK, Phases, CameraInv, CorrectedInv, Correcting, Break
  <1>7. ASSUME HandleMessage PROVE CorrectedInv'
    <2>1. /\ phase' = phase /\ link' = link /\ asked' = asked /\ watch' = watch
          /\ pub' = pub /\ wants' = wants /\ feeds' = feeds
      BY <1>7 DEF HandleMessage
    <2>2. CASE HandleAnswer /\ UNCHANGED <<stream, told>>
      BY <2>1, <2>2 DEF CameraInv, CorrectedInv, Correcting, HandleAnswer, ScheduleRetry,
         AfterAccepted
    <2>3. CASE HandleReport
      <3>1. told' # "nothing"
        BY <2>3 DEF HandleReport, Reported, Statuses
      <3> QED
        BY <3>1 DEF CorrectedInv
    <2> QED
      BY <1>7, <2>2, <2>3 DEF HandleMessage
  <1>8. ASSUME NEW l \in Loops, RetryWakes(l) PROVE CorrectedInv'
    BY <1>8 DEF TypeOK, Phases, CameraInv, CorrectedInv, Correcting,
       RetryWakes, Ask, AskFails
  <1>9. ASSUME NEW l \in Loops, RetryWaited(l) PROVE CorrectedInv'
    BY <1>9 DEF TypeOK, Phases, CameraInv, CorrectedInv, Correcting,
       RetryWaited
  <1>10. ASSUME WatchdogFinds PROVE CorrectedInv'
    BY <1>10 DEF TypeOK, Phases, CameraInv, CorrectedInv, Correcting,
       WatchdogFinds, StreamMissing
  <1>11. ASSUME WatchdogMarks PROVE CorrectedInv'
    BY <1>11 DEF TypeOK, Phases, CameraInv, CorrectedInv, Correcting,
       WatchdogMarks, MarkStopped
  <1>12. ASSUME WatchdogAsks PROVE CorrectedInv'
    BY <1>12 DEF TypeOK, Phases, CameraInv, CorrectedInv, Correcting,
       WatchdogAsks, AskOrRetry, Ask, AskFails, ScheduleRetry
  <1>13. ASSUME CooldownEnds PROVE CorrectedInv'
    BY <1>13 DEF TypeOK, Phases, CameraInv, CorrectedInv, Correcting,
       CooldownEnds
  <1>14. ASSUME NEW p \in Pubs, PublisherLeaves(p) PROVE CorrectedInv'
    BY <1>14 DEF TypeOK, Phases, CameraInv, CorrectedInv, Correcting,
       PublisherLeaves
  <1>15. ASSUME NEW p \in Pubs, RestartStreamMarks(p) PROVE CorrectedInv'
    BY <1>15 DEF TypeOK, Phases, CameraInv, CorrectedInv, Correcting,
       RestartStreamMarks, MarkStopped
  <1>16. ASSUME NEW p \in Pubs, RestartStreamAsks(p) PROVE CorrectedInv'
    BY <1>16 DEF TypeOK, Phases, CameraInv, CorrectedInv, Correcting,
       RestartStreamAsks, AskAgain, AskOrRetry, Ask, AskFails, ScheduleRetry
  <1>17. ASSUME Accept PROVE CorrectedInv'
    BY <1>17 DEF TypeOK, Phases, CameraInv, CorrectedInv, Correcting,
       Accept, Answer
  <1>18. ASSUME Refuse PROVE CorrectedInv'
    BY <1>18 DEF TypeOK, Phases, CameraInv, CorrectedInv, Correcting,
       Refuse, Answer
  <1>19. ASSUME NEW p \in Pubs, Publish(p) PROVE CorrectedInv'
    BY <1>19 DEF TypeOK, Phases, CameraInv, CorrectedInv, Correcting, Publish
  <1>20. ASSUME Forget PROVE CorrectedInv'
    BY <1>20 DEF TypeOK, Phases, CameraInv, CorrectedInv, Correcting, Forget
  <1>21. ASSUME Drop PROVE CorrectedInv'
    BY <1>21 DEF TypeOK, Phases, CameraInv, CorrectedInv, Correcting, Drop
  <1>22. ASSUME Sleep PROVE CorrectedInv'
    BY <1>22 DEF TypeOK, Phases, CameraInv, CorrectedInv, Correcting, Sleep
  <1>23. ASSUME Wake PROVE CorrectedInv'
    BY <1>23 DEF TypeOK, Phases, CameraInv, CorrectedInv, Correcting, Wake, Ask
  <1>24. ASSUME Report PROVE CorrectedInv'
    BY <1>24 DEF CorrectedInv, Correcting, Report
  <1>25. CASE UNCHANGED vars
    BY <1>25 DEF TypeOK, Phases, CameraInv, CorrectedInv, Correcting, vars
  <1> QED
    BY <1>1, <1>2, <1>3, <1>4, <1>5, <1>6, <1>7, <1>8, <1>9, <1>10, <1>11, <1>12,
       <1>13, <1>14, <1>15, <1>16, <1>17, <1>18, <1>19, <1>20, <1>21, <1>22, <1>23, <1>24, <1>25
       DEF Next, Bridge, ConnectLoop, RetryLoop, WatchdogLoop, Publisher, Camera

\* The state shown follows what onStreaming is called with; the rest only marks it.
LEMMA ReportsStep ==
  ReportsInv /\ [Next]_vars => ReportsInv'
  <1> SUFFICES ASSUME ReportsInv, [Next]_vars PROVE ReportsInv'
    OBVIOUS
  <1> USE DEF client, state, relay, camera
  <1>1. ASSUME UNCHANGED <<stream, told>> PROVE ReportsInv'
    BY <1>1 DEF ReportsInv
  <1>2. ASSUME MarkStopped PROVE ReportsInv'
    BY <1>2 DEF ReportsInv, MarkStopped
  <1>3. CASE ConnectLoop
    BY <1>1, <1>2, <1>3 DEF ConnectLoop, Connect, StartFirst, Leave, OnDisconnect,
       OnDisconnectStopped
  <1>4. CASE HandleAnswer /\ UNCHANGED <<stream, told>>
    BY <1>1, <1>4
  <1>5. CASE HandleReport
    BY <1>5 DEF HandleReport, ReportsInv
  <1>6. ASSUME NEW l \in Loops, RetryLoop(l) PROVE ReportsInv'
    BY <1>1, <1>6 DEF RetryLoop, RetryWakes, RetryWaited
  <1>7. CASE WatchdogLoop
    BY <1>1, <1>2, <1>7 DEF WatchdogLoop, WatchdogFinds, WatchdogMarks, WatchdogAsks,
       CooldownEnds
  <1>8. ASSUME NEW p \in Pubs, Publisher(p) PROVE ReportsInv'
    BY <1>1, <1>2, <1>8 DEF Publisher, PublisherLeaves, RestartStreamMarks,
       RestartStreamAsks
  <1>9. CASE Camera
    BY <1>1, <1>9 DEF Camera, Break, Accept, Refuse, Report, Answer, Publish, Forget, Drop,
       Sleep, Wake
  <1>10. CASE UNCHANGED vars
    BY <1>1, <1>10 DEF vars
  <1> QED
    BY <1>3, <1>4, <1>5, <1>6, <1>7, <1>8, <1>9, <1>10 DEF Next, Bridge, HandleMessage

-----------------------------------------------------------------------------
IInv == TypeOK /\ CameraInv /\ CorrectedInv /\ ReportsInv

\* The invariant holds at the start.
LEMMA InitInv == Init => IInv
  <1> SUFFICES ASSUME Init PROVE IInv
    OBVIOUS
  <1>1. TypeOK
    <2>1. 0 \in 0..MaxAsked /\ 0 \in 0..MaxEntries
      BY MaxAskedAssumption, MaxEntriesAssumption
    <2>2. /\ retrying \in BOOLEAN /\ alive \in BOOLEAN /\ wants \in BOOLEAN
          /\ awake \in BOOLEAN
      BY DEF Init
    <2> QED
      BY <2>1, <2>2 DEF Init, TypeOK, Phases
  <1>2. CameraInv
    BY DEF Init, CameraInv
  <1>3. CorrectedInv
    BY DEF Init, CorrectedInv
  <1>4. ReportsInv
    BY DEF Init, ReportsInv
  <1> QED
    BY <1>1, <1>2, <1>3, <1>4 DEF IInv

\* The invariant holds in every reachable state.
THEOREM Invariance == Spec => []IInv
  <1>1. IInv /\ [Next]_vars => IInv'
    BY TypeStep, CameraStep, CorrectedStep, ReportsStep DEF IInv
  <1> QED
    BY InitInv, <1>1, PTL DEF Spec

\* Every variable has its type.
THEOREM TypeCorrect == Spec => []TypeOK
  <1>1. IInv => TypeOK
    BY DEF IInv
  <1> QED
    BY Invariance, <1>1, PTL

\* While a stream goes on it is shown as the camera reported it last, or a request for
\* it, an answer or somebody about to ask is under way (RestartStream, checkStreamHealth
\* and the OnStreaming and OnDisconnect callbacks of manager.go; client.go,
\* handleResponse, streamRetryLoop): no mark of the bridge stays without one.
THEOREM MarksCorrected == Spec => []MarksAreCorrected
  <1>1. IInv => MarksAreCorrected
    BY DEF IInv, TypeOK, CorrectedInv, Correcting, ReportsInv, MarksAreCorrected,
       ShownAsReported, Streaming, Reachable
  <1> QED
    BY Invariance, <1>1, PTL

\* The part of a step that starts or ends no publisher leaves the registry alone.
LEMMA RegistryStep == TypeOK /\ [Next]_vars => [Registry!Next]_(Registry!vars)
  <1> SUFFICES ASSUME TypeOK, [Next]_vars PROVE [Registry!Next]_(Registry!vars)
    OBVIOUS
  <1> USE NoneAssumption DEF client, state, relay, camera
  <1> DEFINE Conn == [p \in Pubs |-> IF pub[p] = "marked" THEN "none" ELSE pub[p]]
  <1>1. ASSUME Conn' = Conn, registered' = registered
        PROVE  [Registry!Next]_(Registry!vars)
    BY <1>1 DEF Registry!vars
  <1>2. ASSUME NEW p \in Pubs, Publish(p) PROVE [Registry!Next]_(Registry!vars)
    <2>1. Conn' = [Conn EXCEPT ![p] = "open"]
      BY <1>2 DEF TypeOK, Publish
    <2>2. Registry!Join(p, "baby")
      BY <1>2, <2>1 DEF TypeOK, Publish, Registry!Join
    <2> QED
      BY <2>2 DEF Registry!Next
  <1>3. ASSUME NEW p \in Pubs, PublisherLeaves(p) PROVE [Registry!Next]_(Registry!vars)
    <2>1. Conn' = [Conn EXCEPT ![p] = "left"]
      BY <1>3 DEF TypeOK, PublisherLeaves
    <2>2. Registry!Leave(p)
      BY <1>3, <2>1 DEF TypeOK, PublisherLeaves, Registry!Leave
    <2> QED
      BY <2>2 DEF Registry!Next
  <1>4. ASSUME NEW p \in Pubs, RestartStreamMarks(p) PROVE [Registry!Next]_(Registry!vars)
    <2>1. Conn' = [Conn EXCEPT ![p] = "none"]
      BY <1>4 DEF TypeOK, RestartStreamMarks
    <2>2. Registry!Finish(p)
      BY <1>4, <2>1 DEF TypeOK, RestartStreamMarks, Registry!Finish
    <2> QED
      BY <2>2 DEF Registry!Next
  <1>5. ASSUME NEW p \in Pubs, RestartStreamAsks(p) PROVE [Registry!Next]_(Registry!vars)
    <2>1. Conn' = Conn
      BY <1>5 DEF TypeOK, RestartStreamAsks
    <2> QED
      BY <1>1, <1>5, <2>1 DEF RestartStreamAsks
  <1>6. ASSUME UNCHANGED relay PROVE [Registry!Next]_(Registry!vars)
    BY <1>1, <1>6
  <1>7. CASE ConnectLoop
    BY <1>6, <1>7 DEF ConnectLoop, Connect, StartFirst, Leave, OnDisconnect,
       OnDisconnectStopped
  <1>8. CASE HandleMessage \/ \E l \in Loops : RetryLoop(l)
    BY <1>6, <1>8 DEF HandleMessage, RetryLoop, RetryWakes, RetryWaited
  <1>9. CASE WatchdogLoop
    BY <1>6, <1>9 DEF WatchdogLoop, WatchdogFinds, WatchdogMarks, WatchdogAsks, CooldownEnds
  <1>10. CASE Break \/ Accept \/ Refuse \/ Report \/ Forget \/ Drop \/ Sleep \/ Wake
    BY <1>6, <1>10 DEF Break, Accept, Refuse, Report, Answer, Forget, Drop, Sleep, Wake
  <1>11. CASE UNCHANGED vars
    BY <1>6, <1>11 DEF vars
  <1> QED
    BY <1>2, <1>3, <1>4, <1>5, <1>7, <1>8, <1>9, <1>10, <1>11
       DEF Next, Bridge, Publisher, Camera

\* What this module takes the relay for is what RtmpRelay implements.
THEOREM SupervisedRelayIsRegistry == Spec => RelayIsRegistry
  <1>1. Init => Registry!Init
    BY DEF Init, Registry!Init
  <1>2. IInv /\ [Next]_vars => [Registry!Next]_(Registry!vars)
    BY RegistryStep DEF IInv
  <1> QED
    BY Invariance, <1>1, <1>2, PTL DEF Spec, RelayIsRegistry, Registry!Spec

\* A retry loop that is thought to run does run.
RetryInv == retrying => \E l \in Loops : retry[l] # "none"

\* Loops are started with the flag, and end only when it is down.
LEMMA RetryStep == TypeOK /\ RetryInv /\ [Next]_vars => RetryInv'
  <1> SUFFICES ASSUME TypeOK, RetryInv, [Next]_vars PROVE RetryInv'
    OBVIOUS
  <1> USE DEF client, state, relay, camera
  <1>1. ASSUME UNCHANGED <<retrying, retry>> PROVE RetryInv'
    BY <1>1 DEF RetryInv
  <1>2. ASSUME ScheduleRetry PROVE RetryInv'
    BY <1>1, <1>2 DEF ScheduleRetry, RetryInv, TypeOK
  <1>3. ASSUME AskOrRetry PROVE RetryInv'
    BY <1>1, <1>2, <1>3 DEF AskOrRetry
  <1>4. ASSUME HandleMessage PROVE RetryInv'
    BY <1>1, <1>2, <1>4 DEF HandleMessage, HandleAnswer, AfterAccepted, RetryInv
  <1>5. ASSUME NEW l \in Loops, RetryWakes(l) PROVE RetryInv'
    BY <1>1, <1>5 DEF RetryWakes, RetryInv, TypeOK
  <1>6. ASSUME NEW l \in Loops, RetryWaited(l) PROVE RetryInv'
    BY <1>6 DEF RetryWaited, RetryInv, TypeOK
  <1>7. CASE ConnectLoop
    BY <1>1, <1>3, <1>7 DEF ConnectLoop, Connect, StartFirst, Leave, OnDisconnect,
       OnDisconnectStopped, RetryInv
  <1>8. CASE WatchdogLoop
    BY <1>1, <1>3, <1>8 DEF WatchdogLoop, WatchdogFinds, WatchdogMarks, WatchdogAsks,
       CooldownEnds
  <1>9. CASE \E p \in Pubs : Publisher(p)
    BY <1>1, <1>3, <1>9 DEF Publisher, PublisherLeaves, RestartStreamMarks,
       RestartStreamAsks, AskAgain
  <1>10. CASE Camera
    BY <1>1, <1>10 DEF Camera, Break, Accept, Refuse, Report, Answer, Publish, Forget, Drop,
       Sleep, Wake
  <1>11. CASE UNCHANGED vars
    BY <1>1, <1>11 DEF vars
  <1> QED
    BY <1>4, <1>5, <1>6, <1>7, <1>8, <1>9, <1>10, <1>11 DEF Next, Bridge, RetryLoop

\* What MarksAreCorrected counts as a correction under way is one: while the client
\* has retrying set, a loop is there that will ask.
THEOREM RetriesAreMade == Spec => []RetryInv
  <1>1. Init => RetryInv
    BY DEF Init, RetryInv
  <1>2. IInv /\ RetryInv /\ [Next]_vars => RetryInv'
    BY RetryStep DEF IInv
  <1> QED
    BY Invariance, <1>1, <1>2, PTL DEF Spec

\* The retry loops that run, and the connection the manager knows of.
Asking == {l \in Loops : retry[l] # "none"}
LinkPhase == IF phase = "gone" THEN "down" ELSE phase

\* A step that neither calls back nor changes the retries is nothing to the manager.
LEMMA LinkKept ==
  ASSUME UNCHANGED <<LinkPhase, Asking, retrying>>
  PROVE  UNCHANGED Link!vars
  BY DEF LinkPhase, Asking, Link!vars, Link!retries

\* A request schedules a loop, if it fails and none is thought to run.
LEMMA LinkAsk ==
  ASSUME TypeOK, AskOrRetry \/ ScheduleRetry
  PROVE  Link!Schedule \/ UNCHANGED <<retrying, Asking>>
  <1>1. ASSUME NEW l \in Loops, ~retrying, retrying' = TRUE, retry[l] = "none",
               retry' = [retry EXCEPT ![l] = "sleeping"]
        PROVE  Link!Schedule
    <2>1. l \in Loops \ Asking /\ Asking' = Asking \cup {l}
      BY <1>1 DEF TypeOK, Asking
    <2> QED
      BY <1>1, <2>1 DEF Asking, Link!Schedule
  <1>2. ASSUME UNCHANGED <<retrying, retry>> PROVE UNCHANGED <<retrying, Asking>>
    BY <1>2 DEF Asking
  <1> QED
    BY <1>1, <1>2 DEF AskOrRetry, ScheduleRetry

\* Every step is a step of the link, or nothing to the manager.
LEMMA LinkStep == TypeOK /\ [Next]_vars => [Link!Next]_(Link!vars)
  <1> SUFFICES ASSUME TypeOK, [Next]_vars PROVE [Link!Next]_(Link!vars)
    OBVIOUS
  <1> USE DEF client, state, relay, camera
  <1>1. ASSUME UNCHANGED <<phase, retrying, retry>> PROVE [Link!Next]_(Link!vars)
    <2>1. UNCHANGED <<LinkPhase, Asking, retrying>>
      BY <1>1 DEF LinkPhase, Asking
    <2> QED
      BY <2>1, LinkKept
  <1>2. ASSUME UNCHANGED phase, AskOrRetry \/ ScheduleRetry PROVE [Link!Next]_(Link!vars)
    <2>1. CASE Link!Schedule
      <3>1. Link!AskFails
        BY <1>2, <2>1 DEF Link!AskFails
      <3> QED
        BY <3>1 DEF Link!Next
    <2>2. CASE UNCHANGED <<retrying, Asking>>
      BY <1>2, <2>2, LinkKept DEF LinkPhase
    <2> QED
      BY <1>2, <2>1, <2>2, LinkAsk
  <1>3. ASSUME UNCHANGED <<phase, retry>>, retrying' = FALSE PROVE [Link!Next]_(Link!vars)
    <2>1. Link!Settled
      BY <1>3 DEF Link!Settled
    <2> QED
      BY <2>1 DEF Link!Next
  <1>4. ASSUME Connect PROVE [Link!Next]_(Link!vars)
    <2>1. Link!Connect
      BY <1>4 DEF Connect, Link!Connect, Link!retries
    <2> QED
      BY <2>1 DEF Link!Next
  <1>5. ASSUME StartFirst PROVE [Link!Next]_(Link!vars)
    <2>1. Link!Schedule \/ UNCHANGED <<retrying, Asking>>
      BY <1>5, LinkAsk DEF StartFirst
    <2>2. Link!AskFirst
      BY <1>5, <2>1 DEF StartFirst, Asking, Link!AskFirst, Link!retries
    <2> QED
      BY <2>2 DEF Link!Next
  <1>6. ASSUME Leave PROVE [Link!Next]_(Link!vars)
    <2>1. Link!Leave
      BY <1>6 DEF Leave, Link!Leave
    <2> QED
      BY <2>1 DEF Link!Next
  <1>7. ASSUME OnDisconnect PROVE [Link!Next]_(Link!vars)
    <2>1. Link!Disconnect
      BY <1>7 DEF OnDisconnect, Link!Disconnect, Link!retries
    <2> QED
      BY <2>1 DEF Link!Next
  <1>8. ASSUME OnDisconnectStopped PROVE [Link!Next]_(Link!vars)
    <2>1. UNCHANGED <<LinkPhase, Asking, retrying>>
      BY <1>8 DEF OnDisconnectStopped, LinkPhase, Asking
    <2> QED
      BY <2>1, LinkKept
  <1>9. ASSUME HandleMessage PROVE [Link!Next]_(Link!vars)
    BY <1>1, <1>2, <1>3, <1>9 DEF HandleMessage, HandleAnswer, AfterAccepted
  <1>10. ASSUME NEW l \in Loops, RetryLoop(l) PROVE [Link!Next]_(Link!vars)
    <2>1. /\ UNCHANGED <<phase, retrying>>
          /\ retry[l] # "none"
          /\ \/ ~retrying /\ retry' = [retry EXCEPT ![l] = "none"]
             \/ retry' = [retry EXCEPT ![l] = "sleeping"]
             \/ retry' = [retry EXCEPT ![l] = "waiting"]
             \/ retry' = retry
      BY <1>10 DEF RetryLoop, RetryWakes, RetryWaited
    <2>2. CASE ~retrying /\ retry' = [retry EXCEPT ![l] = "none"]
      <3>1. l \in Asking /\ Asking' = Asking \ {l}
        BY <2>1, <2>2 DEF TypeOK, Asking
      <3>2. Link!LoopEnds(l)
        BY <2>1, <2>2, <3>1 DEF Asking, Link!LoopEnds
      <3> QED
        BY <3>2 DEF Link!Next
    <2>3. ASSUME NEW s \in {"sleeping", "waiting"}, retry' = [retry EXCEPT ![l] = s]
          PROVE  [Link!Next]_(Link!vars)
      <3>1. Asking' = Asking
        BY <2>1, <2>3 DEF TypeOK, Asking
      <3> QED
        BY <2>1, <3>1, LinkKept DEF LinkPhase
    <2> QED
      BY <1>1, <2>1, <2>2, <2>3
  <1>11. CASE WatchdogLoop
    BY <1>1, <1>2, <1>11 DEF WatchdogLoop, WatchdogFinds, WatchdogMarks, WatchdogAsks,
       CooldownEnds
  <1>12. CASE \E p \in Pubs : Publisher(p)
    BY <1>1, <1>2, <1>12 DEF Publisher, PublisherLeaves, RestartStreamMarks,
       RestartStreamAsks, AskAgain
  <1>13. CASE Camera
    BY <1>1, <1>13 DEF Camera, Break, Accept, Refuse, Report, Answer, Publish, Forget, Drop,
       Sleep, Wake
  <1>14. CASE UNCHANGED vars
    BY <1>1, <1>14 DEF vars
  <1> QED
    BY <1>4, <1>5, <1>6, <1>7, <1>8, <1>9, <1>10, <1>11, <1>12, <1>13, <1>14
       DEF Next, Bridge, ConnectLoop

\* The client of this module is the link that CameraClient implements.
THEOREM SupervisedClientIsLink == Spec => ClientIsLink
  <1>1. Init => Link!Init
    BY DEF Init, Link!Init
  <1>2. IInv /\ [Next]_vars => [Link!Next]_(Link!vars)
    BY LinkStep DEF IInv
  <1> QED
    BY Invariance, <1>1, <1>2, PTL DEF Spec, ClientIsLink, Link!Spec
-----------------------------------------------------------------------------
(* The safety part of StreamIsLeftAlone.                                   *)

\* The stream goes on, nobody asks for it or is about to, no refusal is being handled,
\* the camera opens no other connection, and the relay has no older one.
Quiet ==
    /\ Streaming /\ Calm /\ hand # "failed" /\ ~wants
    /\ \A p \in Pubs : pub[p] = "open" => p = registered

\* Without a step of the network or the camera that ends the stream nothing disturbs it.
LEMMA QuietStep == TypeOK /\ Quiet /\ Streaming' /\ [Next]_vars => Quiet'
  <1> SUFFICES ASSUME TypeOK, Quiet, Streaming', [Next]_vars PROVE Quiet'
    OBVIOUS
  <1> USE DEF client, state, relay, camera, Quiet, Streaming, Reachable, Calm
  <1>1. CASE ConnectLoop
    BY <1>1 DEF ConnectLoop, Connect, StartFirst, Leave, OnDisconnect, OnDisconnectStopped
  <1>2. CASE HandleMessage
    <2>1. retrying' = FALSE
      BY <1>2 DEF HandleMessage, HandleAnswer, AfterAccepted
    <2>2. hand' # "failed"
      BY <1>2 DEF HandleMessage, HandleAnswer, HandleReport
    <2> QED
      BY <1>2, <2>1, <2>2 DEF HandleMessage
  <1>3. ASSUME NEW l \in Loops, RetryLoop(l) PROVE Quiet'
    BY <1>3 DEF RetryLoop, RetryWakes, RetryWaited
  <1>4. CASE WatchdogLoop
    BY <1>4 DEF WatchdogLoop, WatchdogFinds, StreamMissing, WatchdogMarks, WatchdogAsks,
       CooldownEnds, TypeOK
  <1>5. ASSUME NEW p \in Pubs, Publisher(p) PROVE Quiet'
    BY <1>5 DEF Publisher, PublisherLeaves, RestartStreamMarks, RestartStreamAsks
  <1>6. CASE Break \/ Forget \/ Drop \/ Sleep \/ Wake \/ \E p \in Pubs : Publish(p)
    BY <1>6 DEF Break, Forget, Drop, Sleep, Wake, Publish
  <1>7. CASE Accept \/ Refuse \/ Report
    BY <1>7 DEF Accept, Refuse, Report, Answer
  <1>8. CASE UNCHANGED vars
    BY <1>8 DEF vars
  <1> QED
    BY <1>1, <1>2, <1>3, <1>4, <1>5, <1>6, <1>7, <1>8 DEF Next, Bridge, Camera

\* A stream that nobody is about to ask for is left alone as long as it goes on
\* (manager.go, checkStreamHealth and RestartStream; client.go, streamRetryLoop): no
\* watchdog, callback or retry loop asks for it again, in whatever order they run.
THEOREM QuietStreamsStayQuiet == Spec => [][Quiet /\ Streaming' => Quiet']_vars
  <1>1. IInv /\ [Next]_vars => [Quiet /\ Streaming' => Quiet']_vars
    BY QuietStep DEF IInv
  <1> QED
    BY <1>1, Invariance, PTL DEF Spec

\* ... and is shown as the camera reported it last, once its messages are handled: no
\* mark of an earlier publisher's callback, the watchdog or a disconnect is left.
THEOREM QuietStreamsShowReports == Spec => [](Quiet /\ hand = "none" => ShownAsReported)
  <1>1. IInv => (Quiet /\ hand = "none" => ShownAsReported)
    BY DEF IInv, TypeOK, CorrectedInv, Correcting, ReportsInv, ShownAsReported, Quiet,
       Streaming, Reachable, Calm
  <1> QED
    BY <1>1, Invariance, PTL
=============================================================================
