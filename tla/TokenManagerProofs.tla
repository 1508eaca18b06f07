-------------------------- MODULE TokenManagerProofs --------------------------
(***************************************************************************)
(* Proofs about TokenManager.  The inductive invariant has six parts: the  *)
(* types; the places a job passes through; what the holder of tm.mu does;  *)
(* which refresh tokens are in use; how file, memory and the copies under  *)
(* way to the file agree; and what a sign-in that is alone may rely on.    *)
(***************************************************************************)
EXTENDS TokenManager, TLAPS

\* The places each job passes through.
PlaceInv ==
    \A a \in Actors :
        /\ at[a] \in {"fetching", "record", "copy"} => job[a] = "fetch"
        /\ at[a] \in {"login", "password", "challenged"} => job[a] \in {"login", "boot"}
        /\ at[a] \in {"mfa", "code"} => job[a] \in {"mfa", "boot"}
        /\ at[a] = "signedIn" => job[a] \in {"login", "mfa", "boot"}
        /\ at[a] = "clear" => job[a] = "mfa"

\* Who refreshes holds tm.mu, and refreshes a token that has expired; who saves
\* without tm.mu has fetched the babies.
LockInv ==
    /\ \A a \in Actors : at[a] \in {"refreshing", "renewed"} => lock = a
    /\ \A a \in Actors : at[a] = "refreshing" => ~Fresh /\ session.refresh # 0
    /\ \A a \in Actors : Saving(a) /\ lock # a => job[a] = "fetch"

\* An answer with the tokens of a grant is on its way to this actor.
Answered(a) == at[a] \in {"renewed", "signedIn"}

\* Refresh tokens are numbers of grants.
NumberInv ==
    /\ session.refresh <= granted
    /\ file # None => file.refresh <= granted
    /\ \A a \in Actors : copy[a].refresh <= granted /\ answer[a].refresh <= granted
    /\ \A n \in retired : n <= granted

\* Tokens on their way are used by nobody else and were not exchanged.
AnswerInv ==
    /\ \A a \in Actors : at[a] = "signedIn" => answer[a].refresh # 0
    /\ \A a \in Actors : Answered(a) /\ answer[a].refresh # 0 =>
          /\ answer[a].refresh \notin retired
          /\ answer[a].refresh # session.refresh
          /\ \A b \in Actors \ {a} : Answered(b) => answer[b].refresh # answer[a].refresh
    /\ \A a \in Actors : at[a] = "renewed" /\ answer[a].refresh = 0 =>
          session.refresh \notin retired \cup {0}

\* The file has the tokens of the memory.
FileHasTokens ==
    /\ file # None
    /\ file.access = session.access /\ file.refresh = session.refresh

\* Who holds tm.mu writes what the memory has; so does everybody, unless behind.
FileInv ==
    /\ \A a \in Actors : Saving(a) /\ (lock = a \/ ~behind) => copy[a] = session
    /\ \A a \in Actors : at[a] = "write" /\ ~behind => file \in {None, session}
    /\ ~behind /\ (\A a \in Actors : ~Saving(a)) =>
          FileHasTokens /\ ((\A a \in Actors : at[a] # "copy") => file = session)

\* Credentials are known when they are used, and a solved challenge was issued.
CredInv ==
    /\ Configured # None => cred # None
    /\ \A a \in Actors :
          at[a] \in {"login", "mfa", "password", "code", "challenged"} => cred # None
    /\ \A a \in Actors : at[a] \in {"password", "code"} => with[a] # None
    /\ pending # 0 => cred # None
    /\ \A m \in solved : issued[m] # None

\* The code of this request was accepted.
Accepted(a) == job[a] = "mfa" /\ at[a] \in {"signedIn", "open", "write", "clear"}

\* A sign-in that is alone works with the credentials and the challenge of the moment.
SignInInv ==
    ~astray =>
        /\ \A a, b \in Actors : SigningIn(a) /\ SigningIn(b) => a = b
        /\ pending # 0 /\ (\A a \in Actors : ~Accepted(a)) =>
              pending \notin solved /\ issued[pending] = cred
        /\ \A a \in Actors : SigningIn(a) /\ job[a] # "mfa" => pending = 0
        /\ \A a \in Actors : at[a] = "password" => with[a] = cred
        /\ \A a \in Actors : at[a] = "challenged" =>
              token[a] \notin solved /\ issued[token[a]] = cred
        /\ \A a \in Actors : job[a] = "mfa" /\ at[a] \in {"mfa", "code"} => token[a] = pending
-----------------------------------------------------------------------------
\* A caller that is ready is one of the actors and does nothing.
LEMMA ReadyIsIdle == \A a : Ready(a) => a \in Actors /\ at[a] = "idle"
  BY DEF Ready, Actors

\* Where an actor that has a token goes on, by its job.
LEMMA PlaceWithToken ==
  \A a : /\ WithToken(a) \in {"idle", "fetching", "clear", "check"}
         /\ WithToken(a) = "fetching" => job[a] = "fetch"
         /\ WithToken(a) = "clear" => job[a] = "mfa"
         /\ job[a] = "mfa" => WithToken(a) = "clear"
         /\ WithToken(a) = "idle" => job[a] = "get"
  BY DEF WithToken

\* What the steps below need of the types: functions and their domains ...
Shapes ==
    /\ at \in [Actors -> Places] /\ job \in [Actors -> Jobs]
    /\ answer \in [Actors -> [access : Grants, refresh : Grants]]
    /\ copy \in [Actors -> Sessions]
    /\ with \in [Actors -> Accounts \cup {None}]
    /\ token \in [Actors -> Challenges]
    /\ issued \in [Challenges -> Accounts \cup {None}]

\* The type invariant gives the shapes.
LEMMA ShapesOfTypes == TypeOK => Shapes
  BY DEF TypeOK, Shapes

\* ... and numbers.
Numbers ==
    /\ session \in Sessions
    /\ session.access \in Nat /\ session.refresh \in Nat
    /\ file # None => file.refresh \in Nat
    /\ \A a \in Actors : answer[a].refresh \in Nat /\ copy[a].refresh \in Nat
    /\ granted \in Nat /\ expired \in Nat
    /\ \A n \in retired : n \in Nat

\* It gives the numbers too, as grants are numbered.
LEMMA NumbersOfTypes == TypeOK => Numbers
  BY BoundAssumption DEF TypeOK, Numbers, Grants, Sessions

\* No tokens, no session and no challenge are values of their types.
LEMMA EmptyTypes ==
  /\ 0 \in Grants /\ 0 \in Challenges
  /\ Empty \in Sessions /\ Nothing \in [access : Grants, refresh : Grants]
  BY BoundAssumption DEF Grants, Challenges, Empty, Sessions, Nothing

\* A session with new tokens is a session.
LEMMA UpdatedType ==
  ASSUME session \in Sessions, NEW t \in [access : Grants, refresh : Grants]
  PROVE  Updated(t) \in Sessions /\ ToSave(t) \in Sessions
  BY DEF Sessions, Updated, ToSave, Refresh

\* The number of a new grant is within its bound.
LEMMA GrantingType == granted \in Grants /\ Granting => granted' \in Grants
  BY BoundAssumption DEF Grants, Granting

\* Every step keeps the types.
LEMMA TypeStep ==
  TypeOK /\ [Next]_vars => TypeOK'
  <1> SUFFICES ASSUME TypeOK, [Next]_vars 
           PROVE  TypeOK'
    OBVIOUS
  <1> USE NoneAssumption, MainAssumption, ReadyIsIdle, PlaceWithToken
       DEF memory, requests, actor, cloud, outside, history
  <1>1. ASSUME NEW a \in Actors, Begin(a) PROVE TypeOK'
    BY <1>1, EmptyTypes, UpdatedType, GrantingType DEF TypeOK, Places, Jobs, Begin, Go
  <1>2. ASSUME NEW a \in Actors, HandleLogin(a) PROVE TypeOK'
    BY <1>2, EmptyTypes, UpdatedType, GrantingType DEF TypeOK, Places, Jobs,
       HandleLogin, Go, PendingAfterLogin
  <1>3. ASSUME NEW a \in Actors, HandleMFA(a) PROVE TypeOK'
    BY <1>3, EmptyTypes, UpdatedType, GrantingType DEF TypeOK, Places, Jobs,
       HandleMFA, Go
  <1>4. ASSUME NEW a \in Actors, Check(a) PROVE TypeOK'
    <2>1. CASE Onward(a)
      BY <1>4, <2>1 DEF TypeOK, Places, Jobs, Check, Go, Onward
    <2>2. CASE Go(a, "lock") /\ UNCHANGED job
      BY <1>4, <2>2 DEF TypeOK, Places, Jobs, Check, Go
    <2> QED
      BY <1>4, <2>1, <2>2 DEF Check
  <1>5. ASSUME NEW a \in Actors, Lock(a) PROVE TypeOK'
    <2>1. CASE RenewedMeanwhile /\ Onward(a) /\ UNCHANGED memory
      BY <1>5, <2>1 DEF TypeOK, Places, Jobs, Lock, Go, Onward
    <2>2. CASE WithoutToken(a) /\ UNCHANGED <<session, lock, job>>
      BY <1>5, <2>2 DEF TypeOK, Places, Jobs, Lock, Go, WithoutToken
    <2>3. CASE lock' = a /\ Go(a, "refreshing") /\ UNCHANGED <<session, cred, job>>
      BY <1>5, <2>3 DEF TypeOK, Places, Jobs, Lock, Go
    <2> QED
      BY <1>5, <2>1, <2>2, <2>3 DEF Lock
  <1>6. ASSUME NEW a \in Actors, CloudRenews(a) PROVE TypeOK'
    <2>1. granted' \in Grants /\ session.refresh \in Grants
      BY <1>6, GrantingType DEF TypeOK, CloudRenews, Sessions
    <2>2. answer' \in [Actors -> [access : Grants, refresh : Grants]] /\ retired' \subseteq Grants
      BY <1>6, <2>1, EmptyTypes DEF TypeOK, CloudRenews
    <2>3. at' \in [Actors -> Places]
      BY <1>6 DEF TypeOK, CloudRenews, Go, Places
    <2>4. lost' \in BOOLEAN /\ behind' \in BOOLEAN /\ astray' \in BOOLEAN
      BY <1>6 DEF TypeOK, CloudRenews
    <2> QED
      BY <1>6, <2>1, <2>2, <2>3, <2>4 DEF TypeOK, CloudRenews
  <1>7. ASSUME NEW a \in Actors, RefreshFails(a) PROVE TypeOK'
    BY <1>7, EmptyTypes, UpdatedType, GrantingType DEF TypeOK, Places, Jobs,
       RefreshFails, Go, Unlocked, WithoutToken
  <1>8. ASSUME NEW a \in Actors, Store(a) PROVE TypeOK'
    BY <1>8, EmptyTypes, UpdatedType, GrantingType DEF TypeOK, Places, Jobs, Store, Go
  <1>9. ASSUME NEW a \in Actors, Open(a) PROVE TypeOK'
    <2>1. at' \in [Actors -> Places] /\ job' \in [Actors -> Jobs]
      BY <1>9 DEF TypeOK, Open, Go, Saved, Onward, Places, Jobs
    <2>2. copy' \in [Actors -> Sessions] /\ file' \in Sessions \cup {None}
      BY <1>9, EmptyTypes DEF TypeOK, Open, Saved
    <2>3. lock' \in Actors \cup {None} /\ behind' \in BOOLEAN
      BY <1>9 DEF TypeOK, Open, Saved, Unlocked
    <2> QED
      BY <1>9, <2>1, <2>2, <2>3 DEF TypeOK, Open
  <1>10. ASSUME NEW a \in Actors, Write(a) PROVE TypeOK'
    <2> at \in [Actors -> Places] /\ job \in [Actors -> Jobs]
      BY DEF TypeOK
    <2>0. Saved(a)
      BY <1>10 DEF Write
    <2>1. at' \in [Actors -> Places] /\ job' \in [Actors -> Jobs]
      BY <2>0 DEF Go, Saved, Onward, Places, Jobs
    <2>2. copy' \in [Actors -> Sessions] /\ file' \in Sessions \cup {None}
      BY <1>10, EmptyTypes DEF TypeOK, Write, Saved
    <2>3. lock' \in Actors \cup {None} /\ behind' \in BOOLEAN
      BY <1>10 DEF TypeOK, Write, Saved, Unlocked
    <2> QED
      BY <1>10, <2>1, <2>2, <2>3 DEF TypeOK, Write
  <1>11. ASSUME NEW a \in Actors, Fetch(a) PROVE TypeOK'
    BY <1>11, EmptyTypes, UpdatedType, GrantingType DEF TypeOK, Places, Jobs, Fetch, Go
  <1>12. ASSUME NEW a \in Actors, RecordBabies(a) PROVE TypeOK'
    <2>1. session' \in Sessions
      BY <1>12 DEF TypeOK, RecordBabies, Sessions
    <2>2. at' \in [Actors -> Places] /\ behind' \in BOOLEAN
      BY <1>12 DEF TypeOK, RecordBabies, Go, Places
    <2> QED
      BY <1>12, <2>1, <2>2 DEF TypeOK, RecordBabies
  <1>13. ASSUME NEW a \in Actors, CopySession(a) PROVE TypeOK'
    BY <1>13, EmptyTypes, UpdatedType, GrantingType DEF TypeOK, Places, Jobs,
       CopySession, Go
  <1>14. ASSUME NEW a \in Actors, Send(a) PROVE TypeOK'
    BY <1>14, EmptyTypes, UpdatedType, GrantingType DEF TypeOK, Places, Jobs, Send, Go
  <1>15. ASSUME NEW a \in Actors, CloudGrants(a) PROVE TypeOK'
    BY <1>15, EmptyTypes, UpdatedType, GrantingType DEF TypeOK, Places, Jobs,
       CloudGrants, Go
  <1>16. ASSUME NEW a \in Actors, CloudChallenges(a) PROVE TypeOK'
    BY <1>16, EmptyTypes, UpdatedType, GrantingType DEF TypeOK, Places, Jobs,
       CloudChallenges, Go
  <1>17. ASSUME NEW a \in Actors, Challenged(a) PROVE TypeOK'
    <2>1. CASE pending' = token[a] /\ token' = [token EXCEPT ![a] = 0] /\ Go(a, "idle")
      BY <1>17, <2>1, EmptyTypes DEF TypeOK, Places, Challenged, Go
    <2>2. CASE job[a] = "boot" /\ Go(a, "mfa") /\ UNCHANGED <<pending, token>>
      BY <1>17, <2>2 DEF TypeOK, Places, Challenged, Go
    <2> QED
      BY <1>17, <2>1, <2>2 DEF Challenged
  <1>18. ASSUME NEW a \in Actors, SignInFails(a) PROVE TypeOK'
    BY <1>18, EmptyTypes, UpdatedType, GrantingType DEF TypeOK, Places, Jobs,
       SignInFails, Go
  <1>19. ASSUME NEW a \in Actors, ClearPending(a) PROVE TypeOK'
    BY <1>19, EmptyTypes, UpdatedType, GrantingType DEF TypeOK, Places, Jobs,
       ClearPending, Go, PendingAfterMFA
  <1>20. ASSUME Expire PROVE TypeOK'
    <2>1. expired' \in Grants
      BY <1>20, BoundAssumption DEF TypeOK, Expire, Grants
    <2> QED
      BY <1>20, <2>1 DEF TypeOK, Expire
  <1>21. ASSUME Crash PROVE TypeOK'
    <2>1. session' \in Sessions /\ cred' \in Accounts \cup {None}
      BY <1>21, EmptyTypes, ConfiguredAssumption DEF TypeOK, Crash, Loaded
    <2>2. at' \in [Actors -> Places] /\ job' \in [Actors -> Jobs]
      BY <1>21 DEF Crash, Booting, Places, Jobs
    <2>3. /\ answer' \in [Actors -> [access : Grants, refresh : Grants]]
          /\ copy' \in [Actors -> Sessions] /\ token' \in [Actors -> Challenges]
          /\ with' \in [Actors -> Accounts \cup {None}] /\ pending' \in Challenges
      BY <1>21, EmptyTypes DEF Crash
    <2>4. crashes' \in 0..MaxCrashes
      BY <1>21, BoundAssumption DEF TypeOK, Crash
    <2>5. lost' \in BOOLEAN /\ behind' \in BOOLEAN /\ astray' \in BOOLEAN
      BY <1>21 DEF TypeOK, Crash
    <2> QED
      BY <1>21, <2>1, <2>2, <2>3, <2>4, <2>5 DEF TypeOK, Crash
  <1>22. CASE UNCHANGED vars
    BY <1>22 DEF TypeOK, Places, Jobs, vars
  <1> QED
    BY <1>1, <1>2, <1>3, <1>4, <1>5, <1>6, <1>7, <1>8, <1>9, <1>10, <1>11, <1>12,
       <1>13, <1>14, <1>15, <1>16, <1>17, <1>18, <1>19, <1>20, <1>21, <1>22
       DEF Next, Step

\* A job goes on at one of its places.
LEMMA PlaceStep ==
  Shapes /\ PlaceInv /\ [Next]_vars => PlaceInv'
  <1> SUFFICES ASSUME Shapes, PlaceInv, [Next]_vars 
           PROVE  PlaceInv'
    OBVIOUS
  <1> USE NoneAssumption, MainAssumption, ReadyIsIdle, PlaceWithToken
       DEF memory, requests, actor, cloud, outside, history
  <1>1. ASSUME NEW a \in Actors, Begin(a) PROVE PlaceInv'
    BY <1>1 DEF Shapes, PlaceInv, Begin, Go
  <1>2. ASSUME NEW a \in Actors, HandleLogin(a) PROVE PlaceInv'
    BY <1>2 DEF Shapes, PlaceInv, HandleLogin, Go, PendingAfterLogin
  <1>3. ASSUME NEW a \in Actors, HandleMFA(a) PROVE PlaceInv'
    BY <1>3 DEF Shapes, PlaceInv, HandleMFA, Go
  <1>4. ASSUME NEW a \in Actors, Check(a) PROVE PlaceInv'
    BY <1>4 DEF Shapes, PlaceInv, Check, Go, Onward, Fresh
  <1>5. ASSUME NEW a \in Actors, Lock(a) PROVE PlaceInv'
    BY <1>5 DEF Shapes, PlaceInv, Lock, Go, Onward, WithoutToken, RenewedMeanwhile,
       Fresh
  <1>6. ASSUME NEW a \in Actors, CloudRenews(a) PROVE PlaceInv'
    BY <1>6 DEF Shapes, PlaceInv, CloudRenews, Go, Granting
  <1>7. ASSUME NEW a \in Actors, RefreshFails(a) PROVE PlaceInv'
    BY <1>7 DEF Shapes, PlaceInv, RefreshFails, Go, Unlocked, WithoutToken, Nothing
  <1>8. ASSUME NEW a \in Actors, Store(a) PROVE PlaceInv'
    BY <1>8 DEF Shapes, PlaceInv, Store, Go, Updated, ToSave, Refresh, Nothing
  <1>9. ASSUME NEW a \in Actors, Open(a) PROVE PlaceInv'
    BY <1>9 DEF Shapes, PlaceInv, Open, Go, Saved, Unlocked, Onward, Empty
  <1>10. ASSUME NEW a \in Actors, Write(a) PROVE PlaceInv'
    BY <1>10 DEF Shapes, PlaceInv, Write, Go, Saved, Unlocked, Onward, Empty
  <1>11. ASSUME NEW a \in Actors, Fetch(a) PROVE PlaceInv'
    BY <1>11 DEF Shapes, PlaceInv, Fetch, Go
  <1>12. ASSUME NEW a \in Actors, RecordBabies(a) PROVE PlaceInv'
    BY <1>12 DEF Shapes, PlaceInv, RecordBabies, Go
  <1>13. ASSUME NEW a \in Actors, CopySession(a) PROVE PlaceInv'
    BY <1>13 DEF Shapes, PlaceInv, CopySession, Go
  <1>14. ASSUME NEW a \in Actors, Send(a) PROVE PlaceInv'
    BY <1>14 DEF Shapes, PlaceInv, Send, Go
  <1>15. ASSUME NEW a \in Actors, CloudGrants(a) PROVE PlaceInv'
    BY <1>15 DEF Shapes, PlaceInv, CloudGrants, Go, Granting
  <1>16. ASSUME NEW a \in Actors, CloudChallenges(a) PROVE PlaceInv'
    BY <1>16 DEF Shapes, PlaceInv, CloudChallenges, Go
  <1>17. ASSUME NEW a \in Actors, Challenged(a) PROVE PlaceInv'
    BY <1>17 DEF Shapes, PlaceInv, Challenged, Go
  <1>18. ASSUME NEW a \in Actors, SignInFails(a) PROVE PlaceInv'
    BY <1>18 DEF Shapes, PlaceInv, SignInFails, Go, Nothing
  <1>19. ASSUME NEW a \in Actors, ClearPending(a) PROVE PlaceInv'
    BY <1>19 DEF Shapes, PlaceInv, ClearPending, Go, PendingAfterMFA
  <1>20. ASSUME Expire PROVE PlaceInv'
    BY <1>20 DEF Shapes, PlaceInv, Expire
  <1>21. ASSUME Crash PROVE PlaceInv'
    BY <1>21 DEF Shapes, PlaceInv, Crash, Loaded, Empty, Nothing, Booting
  <1>22. CASE UNCHANGED vars
    BY <1>22 DEF Shapes, PlaceInv, vars
  <1> QED
    BY <1>1, <1>2, <1>3, <1>4, <1>5, <1>6, <1>7, <1>8, <1>9, <1>10, <1>11, <1>12,
       <1>13, <1>14, <1>15, <1>16, <1>17, <1>18, <1>19, <1>20, <1>21, <1>22
       DEF Next, Step

\* tm.mu is held over the request for a new token.
LEMMA LockStep ==
  Shapes /\ Numbers /\ PlaceInv /\ LockInv /\ [Next]_vars => LockInv'
  <1> SUFFICES ASSUME Shapes, Numbers, PlaceInv, LockInv, [Next]_vars 
           PROVE  LockInv'
    OBVIOUS
  <1> USE NoneAssumption, MainAssumption, ReadyIsIdle, PlaceWithToken
       DEF memory, requests, actor, cloud, outside, history
  <1>1. ASSUME NEW a \in Actors, Begin(a) PROVE LockInv'
    BY <1>1 DEF Shapes, Numbers, PlaceInv, LockInv, Fresh, Saving, Begin, Go
  <1>2. ASSUME NEW a \in Actors, HandleLogin(a) PROVE LockInv'
    BY <1>2 DEF Shapes, Numbers, PlaceInv, LockInv, Fresh, Saving, HandleLogin, Go,
       PendingAfterLogin
  <1>3. ASSUME NEW a \in Actors, HandleMFA(a) PROVE LockInv'
    BY <1>3 DEF Shapes, Numbers, PlaceInv, LockInv, Fresh, Saving, HandleMFA, Go
  <1>4. ASSUME NEW a \in Actors, Check(a) PROVE LockInv'
    BY <1>4 DEF Shapes, Numbers, PlaceInv, LockInv, Fresh, Saving, Check, Go,
       Onward, Fresh
  <1>5. ASSUME NEW a \in Actors, Lock(a) PROVE LockInv'
    <2>1. CASE RenewedMeanwhile /\ Onward(a) /\ UNCHANGED memory
      BY <1>5, <2>1 DEF Shapes, Numbers, PlaceInv, LockInv, Fresh, Saving,
         RenewedMeanwhile, Lock, Go, Onward
    <2>2. CASE WithoutToken(a) /\ UNCHANGED <<session, lock, job>>
      BY <1>5, <2>2 DEF Shapes, Numbers, PlaceInv, LockInv, Fresh, Saving,
         RenewedMeanwhile, Lock, Go, WithoutToken
    <2>3. CASE lock' = a /\ Go(a, "refreshing") /\ UNCHANGED <<session, cred, job>>
      BY <1>5, <2>3 DEF Shapes, Numbers, PlaceInv, LockInv, Fresh, Saving,
         RenewedMeanwhile, Lock, Go
    <2> QED
      BY <1>5, <2>1, <2>2, <2>3 DEF Lock
  <1>6. ASSUME NEW a \in Actors, CloudRenews(a) PROVE LockInv'
    BY <1>6 DEF Shapes, Numbers, PlaceInv, LockInv, Fresh, Saving, CloudRenews, Go,
       Granting
  <1>7. ASSUME NEW a \in Actors, RefreshFails(a) PROVE LockInv'
    BY <1>7 DEF Shapes, Numbers, PlaceInv, LockInv, Fresh, Saving, RefreshFails, Go,
       Unlocked, WithoutToken, Nothing
  <1>8. ASSUME NEW a \in Actors, Store(a) PROVE LockInv'
    BY <1>8 DEF Shapes, Numbers, PlaceInv, LockInv, Fresh, Saving, Store, Go,
       Updated, ToSave, Refresh, Nothing
  <1>9. ASSUME NEW a \in Actors, Open(a) PROVE LockInv'
    <2>1. CASE Go(a, "write") /\ UNCHANGED <<job, lock>>
      BY <1>9, <2>1 DEF Shapes, PlaceInv, LockInv, Fresh, Saving, Open, Go
    <2>2. CASE Saved(a)
      BY <1>9, <2>2 DEF Shapes, PlaceInv, LockInv, Fresh, Saving, Open, Go, Saved,
         Unlocked, Onward
    <2> QED
      BY <1>9, <2>1, <2>2 DEF Open
  <1>10. ASSUME NEW a \in Actors, Write(a) PROVE LockInv'
    BY <1>10 DEF Shapes, Numbers, PlaceInv, LockInv, Fresh, Saving, Write, Go,
       Saved, Unlocked, Onward, Empty
  <1>11. ASSUME NEW a \in Actors, Fetch(a) PROVE LockInv'
    BY <1>11 DEF Shapes, Numbers, PlaceInv, LockInv, Fresh, Saving, Fetch, Go
  <1>12. ASSUME NEW a \in Actors, RecordBabies(a) PROVE LockInv'
    BY <1>12 DEF Shapes, Numbers, PlaceInv, LockInv, Fresh, Saving, RecordBabies, Go
  <1>13. ASSUME NEW a \in Actors, CopySession(a) PROVE LockInv'
    BY <1>13 DEF Shapes, Numbers, PlaceInv, LockInv, Fresh, Saving, CopySession, Go
  <1>14. ASSUME NEW a \in Actors, Send(a) PROVE LockInv'
    BY <1>14 DEF Shapes, Numbers, PlaceInv, LockInv, Fresh, Saving, Send, Go
  <1>15. ASSUME NEW a \in Actors, CloudGrants(a) PROVE LockInv'
    BY <1>15 DEF Shapes, Numbers, PlaceInv, LockInv, Fresh, Saving, CloudGrants, Go,
       Granting
  <1>16. ASSUME NEW a \in Actors, CloudChallenges(a) PROVE LockInv'
    BY <1>16 DEF Shapes, Numbers, PlaceInv, LockInv, Fresh, Saving, CloudChallenges, Go
  <1>17. ASSUME NEW a \in Actors, Challenged(a) PROVE LockInv'
    BY <1>17 DEF Shapes, Numbers, PlaceInv, LockInv, Fresh, Saving, Challenged, Go
  <1>18. ASSUME NEW a \in Actors, SignInFails(a) PROVE LockInv'
    BY <1>18 DEF Shapes, Numbers, PlaceInv, LockInv, Fresh, Saving, SignInFails, Go,
       Nothing
  <1>19. ASSUME NEW a \in Actors, ClearPending(a) PROVE LockInv'
    BY <1>19 DEF Shapes, Numbers, PlaceInv, LockInv, Fresh, Saving, ClearPending,
       Go, PendingAfterMFA
  <1>20. ASSUME Expire PROVE LockInv'
    BY <1>20 DEF Shapes, Numbers, PlaceInv, LockInv, Fresh, Saving, Expire
  <1>21. ASSUME Crash PROVE LockInv'
    BY <1>21 DEF Shapes, Numbers, PlaceInv, LockInv, Fresh, Saving, Crash, Loaded,
       Empty, Nothing, Booting
  <1>22. CASE UNCHANGED vars
    BY <1>22 DEF Shapes, Numbers, PlaceInv, LockInv, Fresh, Saving, vars
  <1> QED
    BY <1>1, <1>2, <1>3, <1>4, <1>5, <1>6, <1>7, <1>8, <1>9, <1>10, <1>11, <1>12,
       <1>13, <1>14, <1>15, <1>16, <1>17, <1>18, <1>19, <1>20, <1>21, <1>22
       DEF Next, Step

\* No refresh token is newer than the last grant.
LEMMA NumberStep ==
  Shapes /\ Numbers /\ NumberInv /\ [Next]_vars => NumberInv'
  <1> SUFFICES ASSUME Shapes, Numbers, NumberInv, [Next]_vars 
           PROVE  NumberInv'
    OBVIOUS
  <1> USE NoneAssumption, MainAssumption, ReadyIsIdle, PlaceWithToken
       DEF memory, requests, actor, cloud, outside, history
  <1>1. ASSUME NEW a \in Actors, Begin(a) PROVE NumberInv'
    BY <1>1 DEF Shapes, Numbers, NumberInv, Begin, Go
  <1>2. ASSUME NEW a \in Actors, HandleLogin(a) PROVE NumberInv'
    BY <1>2 DEF Shapes, Numbers, NumberInv, HandleLogin, Go, PendingAfterLogin
  <1>3. ASSUME NEW a \in Actors, HandleMFA(a) PROVE NumberInv'
    BY <1>3 DEF Shapes, Numbers, NumberInv, HandleMFA, Go
  <1>4. ASSUME NEW a \in Actors, Check(a) PROVE NumberInv'
    BY <1>4 DEF Shapes, Numbers, NumberInv, Check, Go, Onward, Fresh
  <1>5. ASSUME NEW a \in Actors, Lock(a) PROVE NumberInv'
    BY <1>5 DEF Shapes, Numbers, NumberInv, Lock, Go, Onward, WithoutToken,
       RenewedMeanwhile, Fresh
  <1>6. ASSUME NEW a \in Actors, CloudRenews(a) PROVE NumberInv'
    <2>1. granted' = granted + 1 /\ session' = session /\ file' = file /\ copy' = copy
      BY <1>6 DEF CloudRenews, Granting
    <2>2. answer'[a].refresh \in {0, granted'} /\ \A b \in Actors \ {a} : answer'[b] = answer[b]
      BY <1>6, <2>1 DEF Shapes, CloudRenews
    <2>3. \A n \in retired' : n <= granted'
      BY <1>6, <2>1 DEF Numbers, NumberInv, CloudRenews
    <2> QED
      BY <2>1, <2>2, <2>3 DEF Numbers, NumberInv
  <1>7. ASSUME NEW a \in Actors, RefreshFails(a) PROVE NumberInv'
    BY <1>7 DEF Shapes, Numbers, NumberInv, RefreshFails, Go, Unlocked,
       WithoutToken, Nothing
  <1>8. ASSUME NEW a \in Actors, Store(a) PROVE NumberInv'
    BY <1>8 DEF Shapes, Numbers, NumberInv, Store, Go, Updated, ToSave, Refresh, Nothing
  <1>9. ASSUME NEW a \in Actors, Open(a) PROVE NumberInv'
    BY <1>9 DEF Shapes, Numbers, NumberInv, Open, Go, Saved, Unlocked, Onward, Empty
  <1>10. ASSUME NEW a \in Actors, Write(a) PROVE NumberInv'
    BY <1>10 DEF Shapes, Numbers, NumberInv, Write, Go, Saved, Unlocked, Onward, Empty
  <1>11. ASSUME NEW a \in Actors, Fetch(a) PROVE NumberInv'
    BY <1>11 DEF Shapes, Numbers, NumberInv, Fetch, Go
  <1>12. ASSUME NEW a \in Actors, RecordBabies(a) PROVE NumberInv'
    BY <1>12 DEF Shapes, Numbers, NumberInv, RecordBabies, Go
  <1>13. ASSUME NEW a \in Actors, CopySession(a) PROVE NumberInv'
    BY <1>13 DEF Shapes, Numbers, NumberInv, CopySession, Go
  <1>14. ASSUME NEW a \in Actors, Send(a) PROVE NumberInv'
    BY <1>14 DEF Shapes, Numbers, NumberInv, Send, Go
  <1>15. ASSUME NEW a \in Actors, CloudGrants(a) PROVE NumberInv'
    BY <1>15 DEF Shapes, Numbers, NumberInv, CloudGrants, Go, Granting
  <1>16. ASSUME NEW a \in Actors, CloudChallenges(a) PROVE NumberInv'
    BY <1>16 DEF Shapes, Numbers, NumberInv, CloudChallenges, Go
  <1>17. ASSUME NEW a \in Actors, Challenged(a) PROVE NumberInv'
    BY <1>17 DEF Shapes, Numbers, NumberInv, Challenged, Go
  <1>18. ASSUME NEW a \in Actors, SignInFails(a) PROVE NumberInv'
    BY <1>18 DEF Shapes, Numbers, NumberInv, SignInFails, Go, Nothing
  <1>19. ASSUME NEW a \in Actors, ClearPending(a) PROVE NumberInv'
    BY <1>19 DEF Shapes, Numbers, NumberInv, ClearPending, Go, PendingAfterMFA
  <1>20. ASSUME Expire PROVE NumberInv'
    BY <1>20 DEF Shapes, Numbers, NumberInv, Expire
  <1>21. ASSUME Crash PROVE NumberInv'
    BY <1>21 DEF Shapes, Numbers, NumberInv, Crash, Loaded, Empty, Nothing, Booting
  <1>22. CASE UNCHANGED vars
    BY <1>22 DEF Shapes, Numbers, NumberInv, vars
  <1> QED
    BY <1>1, <1>2, <1>3, <1>4, <1>5, <1>6, <1>7, <1>8, <1>9, <1>10, <1>11, <1>12,
       <1>13, <1>14, <1>15, <1>16, <1>17, <1>18, <1>19, <1>20, <1>21, <1>22
       DEF Next, Step

\* A refresh token on its way is good and nobody else's.
LEMMA AnswerStep ==
  Shapes /\ Numbers /\ LockInv /\ NumberInv /\ AnswerInv /\ [Next]_vars => AnswerInv'
  <1> SUFFICES ASSUME Shapes, Numbers, LockInv, NumberInv, AnswerInv, [Next]_vars 
           PROVE  AnswerInv'
    OBVIOUS
  <1> USE NoneAssumption, MainAssumption, ReadyIsIdle, PlaceWithToken
       DEF memory, requests, actor, cloud, outside, history
  <1>1. ASSUME NEW a \in Actors, Begin(a) PROVE AnswerInv'
    BY <1>1 DEF Shapes, Numbers, LockInv, NumberInv, AnswerInv, Answered, Begin, Go
  <1>2. ASSUME NEW a \in Actors, HandleLogin(a) PROVE AnswerInv'
    BY <1>2 DEF Shapes, Numbers, LockInv, NumberInv, AnswerInv, Answered,
       HandleLogin, Go, PendingAfterLogin
  <1>3. ASSUME NEW a \in Actors, HandleMFA(a) PROVE AnswerInv'
    BY <1>3 DEF Shapes, Numbers, LockInv, NumberInv, AnswerInv, Answered, HandleMFA, Go
  <1>4. ASSUME NEW a \in Actors, Check(a) PROVE AnswerInv'
    <2>1. CASE Onward(a)
      BY <1>4, <2>1 DEF Shapes, AnswerInv, Answered, Check, Go, Onward
    <2>2. CASE Go(a, "lock") /\ UNCHANGED job
      BY <1>4, <2>2 DEF Shapes, AnswerInv, Answered, Check, Go
    <2> QED
      BY <1>4, <2>1, <2>2 DEF Check
  <1>5. ASSUME NEW a \in Actors, Lock(a) PROVE AnswerInv'
    <2>1. CASE RenewedMeanwhile /\ Onward(a) /\ UNCHANGED memory
      BY <1>5, <2>1 DEF Shapes, AnswerInv, Answered, Lock, Go, Onward
    <2>2. CASE WithoutToken(a) /\ UNCHANGED <<session, lock, job>>
      BY <1>5, <2>2 DEF Shapes, AnswerInv, Answered, Lock, Go, WithoutToken
    <2>3. CASE lock' = a /\ Go(a, "refreshing") /\ UNCHANGED <<session, cred, job>>
      BY <1>5, <2>3 DEF Shapes, AnswerInv, Answered, Lock, Go
    <2> QED
      BY <1>5, <2>1, <2>2, <2>3 DEF Lock
  <1>6. ASSUME NEW a \in Actors, CloudRenews(a) PROVE AnswerInv'
    BY <1>6 DEF Shapes, Numbers, LockInv, NumberInv, AnswerInv, Answered,
       CloudRenews, Go, Granting
  <1>7. ASSUME NEW a \in Actors, RefreshFails(a) PROVE AnswerInv'
    BY <1>7 DEF Shapes, Numbers, LockInv, NumberInv, AnswerInv, Answered,
       RefreshFails, Go, Unlocked, WithoutToken, Nothing
  <1>8. ASSUME NEW a \in Actors, Store(a) PROVE AnswerInv'
    BY <1>8 DEF Shapes, Numbers, LockInv, NumberInv, AnswerInv, Answered, Store, Go,
       Updated, ToSave, Refresh, Nothing
  <1>9. ASSUME NEW a \in Actors, Open(a) PROVE AnswerInv'
    BY <1>9 DEF Shapes, Numbers, LockInv, NumberInv, AnswerInv, Answered, Open, Go,
       Saved, Unlocked, Onward, Empty
  <1>10. ASSUME NEW a \in Actors, Write(a) PROVE AnswerInv'
    <2>1. UNCHANGED <<session, answer, retired>>
      BY <1>10 DEF Write
    <2>2. \E place \in {"idle", "fetching", "clear", "check"} : Go(a, place)
      BY <1>10 DEF Write, Saved, Onward
    <2> QED
      BY <2>1, <2>2 DEF Shapes, AnswerInv, Answered, Go
  <1>11. ASSUME NEW a \in Actors, Fetch(a) PROVE AnswerInv'
    BY <1>11 DEF Shapes, Numbers, LockInv, NumberInv, AnswerInv, Answered, Fetch, Go
  <1>12. ASSUME NEW a \in Actors, RecordBabies(a) PROVE AnswerInv'
    BY <1>12 DEF Shapes, Numbers, LockInv, NumberInv, AnswerInv, Answered,
       RecordBabies, Go
  <1>13. ASSUME NEW a \in Actors, CopySession(a) PROVE AnswerInv'
    BY <1>13 DEF Shapes, Numbers, LockInv, NumberInv, AnswerInv, Answered,
       CopySession, Go
  <1>14. ASSUME NEW a \in Actors, Send(a) PROVE AnswerInv'
    BY <1>14 DEF Shapes, Numbers, LockInv, NumberInv, AnswerInv, Answered, Send, Go
  <1>15. ASSUME NEW a \in Actors, CloudGrants(a) PROVE AnswerInv'
    BY <1>15 DEF Shapes, Numbers, LockInv, NumberInv, AnswerInv, Answered,
       CloudGrants, Go, Granting
  <1>16. ASSUME NEW a \in Actors, CloudChallenges(a) PROVE AnswerInv'
    BY <1>16 DEF Shapes, Numbers, LockInv, NumberInv, AnswerInv, Answered,
       CloudChallenges, Go
  <1>17. ASSUME NEW a \in Actors, Challenged(a) PROVE AnswerInv'
    BY <1>17 DEF Shapes, Numbers, LockInv, NumberInv, AnswerInv, Answered,
       Challenged, Go
  <1>18. ASSUME NEW a \in Actors, SignInFails(a) PROVE AnswerInv'
    BY <1>18 DEF Shapes, Numbers, LockInv, NumberInv, AnswerInv, Answered,
       SignInFails, Go, Nothing
  <1>19. ASSUME NEW a \in Actors, ClearPending(a) PROVE AnswerInv'
    BY <1>19 DEF Shapes, Numbers, LockInv, NumberInv, AnswerInv, Answered,
       ClearPending, Go, PendingAfterMFA
  <1>20. ASSUME Expire PROVE AnswerInv'
    BY <1>20 DEF Shapes, Numbers, LockInv, NumberInv, AnswerInv, Answered, Expire
  <1>21. ASSUME Crash PROVE AnswerInv'
    BY <1>21 DEF Shapes, Numbers, LockInv, NumberInv, AnswerInv, Answered, Crash,
       Loaded, Empty, Nothing, Booting
  <1>22. CASE UNCHANGED vars
    BY <1>22 DEF Shapes, Numbers, LockInv, NumberInv, AnswerInv, Answered, vars
  <1> QED
    BY <1>1, <1>2, <1>3, <1>4, <1>5, <1>6, <1>7, <1>8, <1>9, <1>10, <1>11, <1>12,
       <1>13, <1>14, <1>15, <1>16, <1>17, <1>18, <1>19, <1>20, <1>21, <1>22
       DEF Next, Step

\* File, memory and the copies to be written differ only when a save is overtaken.
LEMMA FileStep ==
  Shapes /\ Numbers /\ PlaceInv /\ LockInv /\ FileInv /\ [Next]_vars => FileInv'
  <1> SUFFICES ASSUME Shapes, Numbers, PlaceInv, LockInv, FileInv, [Next]_vars 
           PROVE  FileInv'
    OBVIOUS
  <1> USE NoneAssumption, MainAssumption, ReadyIsIdle, PlaceWithToken
       DEF memory, requests, actor, cloud, outside, history
  <1>1. ASSUME NEW a \in Actors, Begin(a) PROVE FileInv'
    BY <1>1 DEF Shapes, PlaceInv, LockInv, FileInv, FileHasTokens, Saving,
       OthersSaving, Begin, Go
  <1>2. ASSUME NEW a \in Actors, HandleLogin(a) PROVE FileInv'
    BY <1>2 DEF Shapes, PlaceInv, LockInv, FileInv, FileHasTokens, Saving,
       OthersSaving, HandleLogin, Go, PendingAfterLogin
  <1>3. ASSUME NEW a \in Actors, HandleMFA(a) PROVE FileInv'
    BY <1>3 DEF Shapes, PlaceInv, LockInv, FileInv, FileHasTokens, Saving,
       OthersSaving, HandleMFA, Go
  <1>4. ASSUME NEW a \in Actors, Check(a) PROVE FileInv'
    BY <1>4 DEF Shapes, PlaceInv, LockInv, FileInv, FileHasTokens, Saving,
       OthersSaving, Check, Go, Onward, Fresh
  <1>5. ASSUME NEW a \in Actors, Lock(a) PROVE FileInv'
    BY <1>5 DEF Shapes, PlaceInv, LockInv, FileInv, FileHasTokens, Saving,
       OthersSaving, Lock, Go, Onward, WithoutToken, RenewedMeanwhile, Fresh
  <1>6. ASSUME NEW a \in Actors, CloudRenews(a) PROVE FileInv'
    BY <1>6 DEF Shapes, PlaceInv, LockInv, FileInv, FileHasTokens, Saving,
       OthersSaving, CloudRenews, Go, Granting
  <1>7. ASSUME NEW a \in Actors, RefreshFails(a) PROVE FileInv'
    BY <1>7 DEF Shapes, PlaceInv, LockInv, FileInv, FileHasTokens, Saving,
       OthersSaving, RefreshFails, Go, Unlocked, WithoutToken, Nothing
  <1>8. ASSUME NEW a \in Actors, Store(a) PROVE FileInv'
    BY <1>8 DEF Shapes, PlaceInv, LockInv, FileInv, FileHasTokens, Saving,
       OthersSaving, Store, Go, Updated, ToSave, Refresh, Nothing
  <1>9. ASSUME NEW a \in Actors, Open(a) PROVE FileInv'
    BY <1>9 DEF Shapes, PlaceInv, LockInv, FileInv, FileHasTokens, Saving,
       OthersSaving, Open, Go, Saved, Unlocked, Onward, Empty
  <1>10. ASSUME NEW a \in Actors, Write(a) PROVE FileInv'
    <2> at \in [Actors -> Places] /\ copy \in [Actors -> Sessions]
      BY DEF Shapes
    <2>1. \A b \in Actors \ {a} : at'[b] = at[b] /\ copy'[b] = copy[b]
      BY <1>10 DEF Write, Saved, Onward, Go
    <2>2. at'[a] \notin {"open", "write", "copy"}
      BY <1>10 DEF Write, Saved, Onward, Go
    <2>3. session' = session /\ lock' \in {lock, None} /\ lock' # a
      BY <1>10, NoneAssumption DEF Write, Saved, Unlocked
    <2>4. CASE behind' /\ lock' \notin Actors
      BY <2>1, <2>2, <2>3, <2>4 DEF FileInv, Saving
    <2>5. CASE behind' /\ lock' \in Actors
      BY <2>1, <2>2, <2>3, <2>5, NoneAssumption DEF FileInv, Saving
    <2>6. CASE ~behind'
      <3>1. copy[a] = session
        BY <1>10, <2>6 DEF Write, FileInv, Saving
      <3>2. file' = session
        BY <1>10, <2>6, <3>1 DEF Write, FileInv
      <3>3. \A b \in Actors \ {a} : Saving(b) => copy[b] = session
        BY <1>10, <2>6 DEF Write, FileInv, Saving, OthersSaving
      <3>4. file' # None
        BY <3>2 DEF Numbers
      <3> QED
        BY <2>1, <2>2, <2>3, <2>6, <3>1, <3>2, <3>3, <3>4 DEF FileInv,
           FileHasTokens, Saving
    <2> QED
      BY <2>4, <2>5, <2>6
  <1>11. ASSUME NEW a \in Actors, Fetch(a) PROVE FileInv'
    BY <1>11 DEF Shapes, PlaceInv, LockInv, FileInv, FileHasTokens, Saving,
       OthersSaving, Fetch, Go
  <1>12. ASSUME NEW a \in Actors, RecordBabies(a) PROVE FileInv'
    <2> at \in [Actors -> Places] /\ session \in Sessions
      BY DEF Shapes, Numbers
    <2>1. session'.access = session.access /\ session'.refresh = session.refresh
      BY <1>12 DEF RecordBabies, Sessions
    <2>2. at'[a] = "copy" /\ ~Saving(a) /\ \A b \in Actors \ {a} : at'[b] = at[b]
      BY <1>12 DEF RecordBabies, Go, Saving
    <2>3. lock' = None /\ lock = None /\ copy' = copy /\ file' = file
      BY <1>12 DEF RecordBabies
    <2>4. CASE behind'
      BY <2>2, <2>3, <2>4, NoneAssumption DEF FileInv, Saving
    <2>5. CASE ~behind'
      <3>1. ~behind /\ \A b \in Actors : ~Saving(b)
        BY <1>12, <2>2, <2>5 DEF RecordBabies, OthersSaving
      <3> QED
        BY <2>1, <2>2, <2>3, <3>1 DEF FileInv, FileHasTokens, Saving
    <2> QED
      BY <2>4, <2>5
  <1>13. ASSUME NEW a \in Actors, CopySession(a) PROVE FileInv'
    BY <1>13 DEF Shapes, PlaceInv, LockInv, FileInv, FileHasTokens, Saving,
       OthersSaving, CopySession, Go
  <1>14. ASSUME NEW a \in Actors, Send(a) PROVE FileInv'
    BY <1>14 DEF Shapes, PlaceInv, LockInv, FileInv, FileHasTokens, Saving,
       OthersSaving, Send, Go
  <1>15. ASSUME NEW a \in Actors, CloudGrants(a) PROVE FileInv'
    BY <1>15 DEF Shapes, PlaceInv, LockInv, FileInv, FileHasTokens, Saving,
       OthersSaving, CloudGrants, Go, Granting
  <1>16. ASSUME NEW a \in Actors, CloudChallenges(a) PROVE FileInv'
    BY <1>16 DEF Shapes, PlaceInv, LockInv, FileInv, FileHasTokens, Saving,
       OthersSaving, CloudChallenges, Go
  <1>17. ASSUME NEW a \in Actors, Challenged(a) PROVE FileInv'
    BY <1>17 DEF Shapes, PlaceInv, LockInv, FileInv, FileHasTokens, Saving,
       OthersSaving, Challenged, Go
  <1>18. ASSUME NEW a \in Actors, SignInFails(a) PROVE FileInv'
    BY <1>18 DEF Shapes, PlaceInv, LockInv, FileInv, FileHasTokens, Saving,
       OthersSaving, SignInFails, Go, Nothing
  <1>19. ASSUME NEW a \in Actors, ClearPending(a) PROVE FileInv'
    BY <1>19 DEF Shapes, PlaceInv, LockInv, FileInv, FileHasTokens, Saving,
       OthersSaving, ClearPending, Go, PendingAfterMFA
  <1>20. ASSUME Expire PROVE FileInv'
    BY <1>20 DEF Shapes, PlaceInv, LockInv, FileInv, FileHasTokens, Saving,
       OthersSaving, Expire
  <1>21. ASSUME Crash PROVE FileInv'
    BY <1>21 DEF Shapes, PlaceInv, LockInv, FileInv, FileHasTokens, Saving,
       OthersSaving, Crash, Loaded, Empty, Nothing, Booting
  <1>22. CASE UNCHANGED vars
    BY <1>22 DEF Shapes, PlaceInv, LockInv, FileInv, FileHasTokens, Saving,
       OthersSaving, vars
  <1> QED
    BY <1>1, <1>2, <1>3, <1>4, <1>5, <1>6, <1>7, <1>8, <1>9, <1>10, <1>11, <1>12,
       <1>13, <1>14, <1>15, <1>16, <1>17, <1>18, <1>19, <1>20, <1>21, <1>22
       DEF Next, Step

\* A session stays renewable.
LEMMA RenewStep ==
  Shapes /\ Numbers /\ LockInv /\ AnswerInv /\ FileInv /\ SessionIsRenewable /\ [Next]_vars => SessionIsRenewable'
  <1> SUFFICES ASSUME Shapes, Numbers, LockInv, AnswerInv, FileInv, SessionIsRenewable, [Next]_vars 
           PROVE  SessionIsRenewable'
    OBVIOUS
  <1> USE NoneAssumption, MainAssumption, ReadyIsIdle, PlaceWithToken
       DEF memory, requests, actor, cloud, outside, history
  <1>1. ASSUME NEW a \in Actors, Begin(a) PROVE SessionIsRenewable'
    BY <1>1 DEF Shapes, Numbers, LockInv, AnswerInv, Answered, SessionIsRenewable,
       Begin, Go
  <1>2. ASSUME NEW a \in Actors, HandleLogin(a) PROVE SessionIsRenewable'
    BY <1>2 DEF Shapes, Numbers, LockInv, AnswerInv, Answered, SessionIsRenewable,
       HandleLogin, Go, PendingAfterLogin
  <1>3. ASSUME NEW a \in Actors, HandleMFA(a) PROVE SessionIsRenewable'
    BY <1>3 DEF Shapes, Numbers, LockInv, AnswerInv, Answered, SessionIsRenewable,
       HandleMFA, Go
  <1>4. ASSUME NEW a \in Actors, Check(a) PROVE SessionIsRenewable'
    <2>1. CASE Onward(a)
      BY <1>4, <2>1 DEF Shapes, SessionIsRenewable, Check, Go, Onward
    <2>2. CASE Go(a, "lock") /\ UNCHANGED job
      BY <1>4, <2>2 DEF Shapes, SessionIsRenewable, Check, Go
    <2> QED
      BY <1>4, <2>1, <2>2 DEF Check
  <1>5. ASSUME NEW a \in Actors, Lock(a) PROVE SessionIsRenewable'
    <2>1. CASE RenewedMeanwhile /\ Onward(a) /\ UNCHANGED memory
      BY <1>5, <2>1 DEF Shapes, SessionIsRenewable, Lock, Go, Onward
    <2>2. CASE WithoutToken(a) /\ UNCHANGED <<session, lock, job>>
      BY <1>5, <2>2 DEF Shapes, SessionIsRenewable, Lock, Go, WithoutToken
    <2>3. CASE lock' = a /\ Go(a, "refreshing") /\ UNCHANGED <<session, cred, job>>
      BY <1>5, <2>3 DEF Shapes, SessionIsRenewable, Lock, Go
    <2> QED
      BY <1>5, <2>1, <2>2, <2>3 DEF Lock
  <1>6. ASSUME NEW a \in Actors, CloudRenews(a) PROVE SessionIsRenewable'
    BY <1>6 DEF Shapes, Numbers, LockInv, AnswerInv, Answered, SessionIsRenewable,
       CloudRenews, Go, Granting
  <1>7. ASSUME NEW a \in Actors, RefreshFails(a) PROVE SessionIsRenewable'
    BY <1>7 DEF Shapes, Numbers, LockInv, AnswerInv, Answered, SessionIsRenewable,
       RefreshFails, Go, Unlocked, WithoutToken, Nothing
  <1>8. ASSUME NEW a \in Actors, Store(a) PROVE SessionIsRenewable'
    BY <1>8 DEF Shapes, Numbers, LockInv, AnswerInv, Answered, SessionIsRenewable,
       Store, Go, Updated, ToSave, Refresh, Nothing
  <1>9. ASSUME NEW a \in Actors, Open(a) PROVE SessionIsRenewable'
    BY <1>9 DEF Shapes, Numbers, LockInv, AnswerInv, Answered, SessionIsRenewable,
       Open, Go, Saved, Unlocked, Onward, Empty
  <1>10. ASSUME NEW a \in Actors, Write(a) PROVE SessionIsRenewable'
    BY <1>10 DEF Shapes, Numbers, LockInv, AnswerInv, Answered, SessionIsRenewable,
       Write, Go, Saved, Unlocked, Onward, Empty
  <1>11. ASSUME NEW a \in Actors, Fetch(a) PROVE SessionIsRenewable'
    BY <1>11 DEF Shapes, Numbers, LockInv, AnswerInv, Answered, SessionIsRenewable,
       Fetch, Go
  <1>12. ASSUME NEW a \in Actors, RecordBabies(a) PROVE SessionIsRenewable'
    BY <1>12 DEF Shapes, Numbers, LockInv, AnswerInv, Answered, SessionIsRenewable,
       RecordBabies, Go
  <1>13. ASSUME NEW a \in Actors, CopySession(a) PROVE SessionIsRenewable'
    BY <1>13 DEF Shapes, Numbers, LockInv, AnswerInv, Answered, SessionIsRenewable,
       CopySession, Go
  <1>14. ASSUME NEW a \in Actors, Send(a) PROVE SessionIsRenewable'
    BY <1>14 DEF Shapes, Numbers, LockInv, AnswerInv, Answered, SessionIsRenewable,
       Send, Go
  <1>15. ASSUME NEW a \in Actors, CloudGrants(a) PROVE SessionIsRenewable'
    BY <1>15 DEF Shapes, Numbers, LockInv, AnswerInv, Answered, SessionIsRenewable,
       CloudGrants, Go, Granting
  <1>16. ASSUME NEW a \in Actors, CloudChallenges(a) PROVE SessionIsRenewable'
    BY <1>16 DEF Shapes, Numbers, LockInv, AnswerInv, Answered, SessionIsRenewable,
       CloudChallenges, Go
  <1>17. ASSUME NEW a \in Actors, Challenged(a) PROVE SessionIsRenewable'
    <2>1. CASE pending' = token[a] /\ token' = [token EXCEPT ![a] = 0] /\ Go(a, "idle")
      BY <1>17, <2>1 DEF Shapes, SessionIsRenewable, Challenged, Go
    <2>2. CASE job[a] = "boot" /\ Go(a, "mfa") /\ UNCHANGED <<pending, token>>
      BY <1>17, <2>2 DEF Shapes, SessionIsRenewable, Challenged, Go
    <2> QED
      BY <1>17, <2>1, <2>2 DEF Challenged
  <1>18. ASSUME NEW a \in Actors, SignInFails(a) PROVE SessionIsRenewable'
    BY <1>18 DEF Shapes, Numbers, LockInv, AnswerInv, Answered, SessionIsRenewable,
       SignInFails, Go, Nothing
  <1>19. ASSUME NEW a \in Actors, ClearPending(a) PROVE SessionIsRenewable'
    BY <1>19 DEF Shapes, Numbers, LockInv, AnswerInv, Answered, SessionIsRenewable,
       ClearPending, Go, PendingAfterMFA
  <1>20. ASSUME Expire PROVE SessionIsRenewable'
    BY <1>20 DEF Shapes, Numbers, LockInv, AnswerInv, Answered, SessionIsRenewable,
       Expire
  <1>21. ASSUME Crash PROVE SessionIsRenewable'
    <2>1. ASSUME ~lost', session'.access # 0 PROVE session'.refresh \notin retired \cup {0}
      <3>1. ~lost /\ ~behind /\ \A b \in Actors : ~Saving(b) /\ at[b] # "renewed"
        BY <1>21, <2>1 DEF Crash
      <3>2. FileHasTokens
        BY <3>1 DEF FileInv
      <3>3. session'.access = session.access /\ session'.refresh = session.refresh
        BY <1>21, <3>2 DEF Crash, Loaded, FileHasTokens
      <3> QED
        BY <2>1, <3>1, <3>3 DEF SessionIsRenewable
    <2> QED
      BY <1>21, <2>1 DEF Crash, SessionIsRenewable
  <1>22. CASE UNCHANGED vars
    BY <1>22 DEF Shapes, Numbers, LockInv, AnswerInv, Answered, SessionIsRenewable, vars
  <1> QED
    BY <1>1, <1>2, <1>3, <1>4, <1>5, <1>6, <1>7, <1>8, <1>9, <1>10, <1>11, <1>12,
       <1>13, <1>14, <1>15, <1>16, <1>17, <1>18, <1>19, <1>20, <1>21, <1>22
       DEF Next, Step

\* Credentials stay known.
LEMMA CredStep ==
  Shapes /\ PlaceInv /\ CredInv /\ [Next]_vars => CredInv'
  <1> SUFFICES ASSUME Shapes, PlaceInv, CredInv, [Next]_vars 
           PROVE  CredInv'
    OBVIOUS
  <1> USE NoneAssumption, MainAssumption, ReadyIsIdle, PlaceWithToken
       DEF memory, requests, actor, cloud, outside, history
  <1>1. ASSUME NEW a \in Actors, Begin(a) PROVE CredInv'
    BY <1>1 DEF Shapes, PlaceInv, CredInv, Begin, Go
  <1>2. ASSUME NEW a \in Actors, HandleLogin(a) PROVE CredInv'
    BY <1>2 DEF Shapes, PlaceInv, CredInv, HandleLogin, Go, PendingAfterLogin
  <1>3. ASSUME NEW a \in Actors, HandleMFA(a) PROVE CredInv'
    BY <1>3 DEF Shapes, PlaceInv, CredInv, HandleMFA, Go
  <1>4. ASSUME NEW a \in Actors, Check(a) PROVE CredInv'
    BY <1>4 DEF Shapes, PlaceInv, CredInv, Check, Go, Onward, Fresh
  <1>5. ASSUME NEW a \in Actors, Lock(a) PROVE CredInv'
    BY <1>5 DEF Shapes, PlaceInv, CredInv, Lock, Go, Onward, WithoutToken,
       RenewedMeanwhile, Fresh
  <1>6. ASSUME NEW a \in Actors, CloudRenews(a) PROVE CredInv'
    BY <1>6 DEF Shapes, PlaceInv, CredInv, CloudRenews, Go, Granting
  <1>7. ASSUME NEW a \in Actors, RefreshFails(a) PROVE CredInv'
    BY <1>7 DEF Shapes, PlaceInv, CredInv, RefreshFails, Go, Unlocked, WithoutToken,
       Nothing
  <1>8. ASSUME NEW a \in Actors, Store(a) PROVE CredInv'
    BY <1>8 DEF Shapes, PlaceInv, CredInv, Store, Go, Updated, ToSave, Refresh, Nothing
  <1>9. ASSUME NEW a \in Actors, Open(a) PROVE CredInv'
    BY <1>9 DEF Shapes, PlaceInv, CredInv, Open, Go, Saved, Unlocked, Onward, Empty
  <1>10. ASSUME NEW a \in Actors, Write(a) PROVE CredInv'
    BY <1>10 DEF Shapes, PlaceInv, CredInv, Write, Go, Saved, Unlocked, Onward, Empty
  <1>11. ASSUME NEW a \in Actors, Fetch(a) PROVE CredInv'
    BY <1>11 DEF Shapes, PlaceInv, CredInv, Fetch, Go
  <1>12. ASSUME NEW a \in Actors, RecordBabies(a) PROVE CredInv'
    BY <1>12 DEF Shapes, PlaceInv, CredInv, RecordBabies, Go
  <1>13. ASSUME NEW a \in Actors, CopySession(a) PROVE CredInv'
    BY <1>13 DEF Shapes, PlaceInv, CredInv, CopySession, Go
  <1>14. ASSUME NEW a \in Actors, Send(a) PROVE CredInv'
    BY <1>14 DEF Shapes, PlaceInv, CredInv, Send, Go
  <1>15. ASSUME NEW a \in Actors, CloudGrants(a) PROVE CredInv'
    BY <1>15 DEF Shapes, PlaceInv, CredInv, CloudGrants, Go, Granting
  <1>16. ASSUME NEW a \in Actors, CloudChallenges(a) PROVE CredInv'
    <2>1. with[a] # None /\ cred # None
      BY <1>16 DEF CloudChallenges, CredInv
    <2>2. \A m \in solved : issued'[m] # None
      BY <1>16, <2>1 DEF Shapes, CloudChallenges, CredInv
    <2> QED
      BY <1>16, <2>1, <2>2 DEF Shapes, CloudChallenges, Go, CredInv
  <1>17. ASSUME NEW a \in Actors, Challenged(a) PROVE CredInv'
    BY <1>17 DEF Shapes, PlaceInv, CredInv, Challenged, Go
  <1>18. ASSUME NEW a \in Actors, SignInFails(a) PROVE CredInv'
    BY <1>18 DEF Shapes, PlaceInv, CredInv, SignInFails, Go, Nothing
  <1>19. ASSUME NEW a \in Actors, ClearPending(a) PROVE CredInv'
    BY <1>19 DEF Shapes, PlaceInv, CredInv, ClearPending, Go, PendingAfterMFA
  <1>20. ASSUME Expire PROVE CredInv'
    BY <1>20 DEF Shapes, PlaceInv, CredInv, Expire
  <1>21. ASSUME Crash PROVE CredInv'
    BY <1>21 DEF Shapes, PlaceInv, CredInv, Crash, Loaded, Empty, Nothing, Booting
  <1>22. CASE UNCHANGED vars
    BY <1>22 DEF Shapes, PlaceInv, CredInv, vars
  <1> QED
    BY <1>1, <1>2, <1>3, <1>4, <1>5, <1>6, <1>7, <1>8, <1>9, <1>10, <1>11, <1>12,
       <1>13, <1>14, <1>15, <1>16, <1>17, <1>18, <1>19, <1>20, <1>21, <1>22
       DEF Next, Step

\* A sign-in that is alone finds what it left.
LEMMA SignInStep ==
  Shapes /\ PlaceInv /\ LockInv /\ CredInv /\ SignInInv /\ [Next]_vars => SignInInv'
  <1> SUFFICES ASSUME Shapes, PlaceInv, LockInv, CredInv, SignInInv, [Next]_vars 
           PROVE  SignInInv'
    OBVIOUS
  <1> USE NoneAssumption, MainAssumption, ReadyIsIdle, PlaceWithToken
       DEF memory, requests, actor, cloud, outside, history
  <1>1. ASSUME NEW a \in Actors, Begin(a) PROVE SignInInv'
    BY <1>1 DEF Shapes, PlaceInv, CredInv, SignInInv, SigningIn, Accepted, Begin, Go
  <1>2. ASSUME NEW a \in Actors, HandleLogin(a) PROVE SignInInv'
    BY <1>2 DEF Shapes, PlaceInv, CredInv, SignInInv, SigningIn, Accepted,
       HandleLogin, Go, PendingAfterLogin
  <1>3. ASSUME NEW a \in Actors, HandleMFA(a) PROVE SignInInv'
    <2>1. /\ at[a] = "idle" /\ at' = [at EXCEPT ![a] = "mfa"]
          /\ job' = [job EXCEPT ![a] = "mfa"] /\ token' = [token EXCEPT ![a] = pending]
          /\ UNCHANGED <<cred, pending, solved, issued, with>>
      BY <1>3 DEF HandleMFA, Go
    <2>2. ~astray' => ~astray /\ \A b \in Actors : ~SigningIn(b)
      BY <1>3 DEF HandleMFA
    <2>3. \A b \in Actors : at[b] \in {"password", "challenged", "signedIn", "mfa", "code"} => SigningIn(b)
      BY DEF PlaceInv, SigningIn
    <2> QED
      BY <2>1, <2>2, <2>3 DEF Shapes, SignInInv, SigningIn, Accepted
  <1>4. ASSUME NEW a \in Actors, Check(a) PROVE SignInInv'
    <2>1. CASE Onward(a)
      BY <1>4, <2>1 DEF Shapes, PlaceInv, CredInv, SignInInv, SigningIn, Accepted,
         Check, Go, Onward
    <2>2. CASE Go(a, "lock") /\ UNCHANGED job
      BY <1>4, <2>2 DEF Shapes, PlaceInv, CredInv, SignInInv, SigningIn, Accepted,
         Check, Go
    <2> QED
      BY <1>4, <2>1, <2>2 DEF Check
  <1>5. ASSUME NEW a \in Actors, Lock(a) PROVE SignInInv'
    <2>1. CASE RenewedMeanwhile /\ Onward(a) /\ UNCHANGED memory
      BY <1>5, <2>1 DEF Shapes, PlaceInv, CredInv, SignInInv, SigningIn, Accepted,
         Lock, Go, Onward
    <2>2. CASE WithoutToken(a) /\ UNCHANGED <<session, lock, job>>
      BY <1>5, <2>2 DEF Shapes, PlaceInv, CredInv, SignInInv, SigningIn, Accepted,
         Lock, Go, WithoutToken
    <2>3. CASE lock' = a /\ Go(a, "refreshing") /\ UNCHANGED <<session, cred, job>>
      BY <1>5, <2>3 DEF Shapes, PlaceInv, CredInv, SignInInv, SigningIn, Accepted,
         Lock, Go
    <2> QED
      BY <1>5, <2>1, <2>2, <2>3 DEF Lock
  <1>6. ASSUME NEW a \in Actors, CloudRenews(a) PROVE SignInInv'
    BY <1>6 DEF Shapes, PlaceInv, CredInv, SignInInv, SigningIn, Accepted,
       CloudRenews, Go, Granting
  <1>7. ASSUME NEW a \in Actors, RefreshFails(a) PROVE SignInInv'
    <2>1. CASE job[a] # "boot" /\ Go(a, "idle") /\ UNCHANGED cred
      BY <1>7, <2>1 DEF Shapes, SignInInv, SigningIn, Accepted, RefreshFails, Go
    <2>2. CASE job[a] = "boot"
      <3> at \in [Actors -> Places] /\ job \in [Actors -> Jobs]
        BY DEF Shapes
      <3>1. /\ at'[a] \in {"login", "idle"} /\ job' = job
            /\ \A b \in Actors \ {a} : at'[b] = at[b]
        BY <1>7, <2>2 DEF RefreshFails, Go, WithoutToken
      <3>2. UNCHANGED <<pending, solved, issued, token, with, astray>>
        BY <1>7 DEF RefreshFails
      <3>3. SigningIn(a)
        BY <1>7, <2>2 DEF RefreshFails, SigningIn
      <3>4. ~astray => pending = 0 /\ \A b \in Actors \ {a} : ~SigningIn(b)
        BY <2>2, <3>3 DEF SignInInv
      <3>5. \A b \in Actors : SigningIn(b)' => SigningIn(b)
        BY <3>1, <3>3 DEF SigningIn
      <3> QED
        BY <2>2, <3>1, <3>2, <3>3, <3>4, <3>5 DEF PlaceInv, SignInInv, SigningIn
    <2> QED
      BY <1>7, <2>1, <2>2 DEF RefreshFails, WithoutToken
  <1>8. ASSUME NEW a \in Actors, Store(a) PROVE SignInInv'
    BY <1>8 DEF Shapes, PlaceInv, CredInv, SignInInv, SigningIn, Accepted, Store,
       Go, Updated, ToSave, Refresh, Nothing
  <1>9. ASSUME NEW a \in Actors, Open(a) PROVE SignInInv'
    <2> at \in [Actors -> Places] /\ job \in [Actors -> Jobs]
      BY DEF Shapes
    <2>1. UNCHANGED <<cred, pending, solved, issued, token, with, astray>>
      BY <1>9 DEF Open
    <2>2. \A b \in Actors \ {a} : at'[b] = at[b] /\ job'[b] = job[b]
      BY <1>9 DEF Open, Saved, Onward, Go
    <2>3. \/ at'[a] = "idle" /\ job'[a] = job[a] /\ job[a] # "mfa"
          \/ at'[a] = "write" /\ job'[a] = job[a]
          \/ at'[a] = "clear" /\ job'[a] = job[a] /\ job[a] = "mfa"
          \/ job'[a] \in {"get", "fetch"} /\ job[a] # "mfa"
      BY <1>9 DEF Open, Saved, Onward, Go, Jobs, LockInv, Saving
    <2>4. at[a] \in {"open", "write"}
      BY <1>9 DEF Open
    <2>5. at'[a] \notin {"password", "code", "mfa", "challenged"}
      BY <1>9 DEF Open, Saved, Onward, Go
    <2> QED
      BY <2>1, <2>2, <2>3, <2>4, <2>5 DEF SignInInv, SigningIn, Accepted
  <1>10. ASSUME NEW a \in Actors, Write(a) PROVE SignInInv'
    <2> at \in [Actors -> Places] /\ job \in [Actors -> Jobs]
      BY DEF Shapes
    <2>1. UNCHANGED <<cred, pending, solved, issued, token, with, astray>>
      BY <1>10 DEF Write
    <2>2. \A b \in Actors \ {a} : at'[b] = at[b] /\ job'[b] = job[b]
      BY <1>10 DEF Write, Saved, Onward, Go
    <2>3. \/ at'[a] = "idle" /\ job'[a] = job[a] /\ job[a] # "mfa"
          \/ at'[a] = "write" /\ job'[a] = job[a]
          \/ at'[a] = "clear" /\ job'[a] = job[a] /\ job[a] = "mfa"
          \/ job'[a] \in {"get", "fetch"} /\ job[a] # "mfa"
      BY <1>10 DEF Write, Saved, Onward, Go, Jobs, LockInv, Saving
    <2>4. at[a] \in {"open", "write"}
      BY <1>10 DEF Write
    <2>5. at'[a] \notin {"password", "code", "mfa", "challenged"}
      BY <1>10 DEF Write, Saved, Onward, Go
    <2> QED
      BY <2>1, <2>2, <2>3, <2>4, <2>5 DEF SignInInv, SigningIn, Accepted
  <1>11. ASSUME NEW a \in Actors, Fetch(a) PROVE SignInInv'
    BY <1>11 DEF Shapes, PlaceInv, CredInv, SignInInv, SigningIn, Accepted, Fetch, Go
  <1>12. ASSUME NEW a \in Actors, RecordBabies(a) PROVE SignInInv'
    BY <1>12 DEF Shapes, PlaceInv, CredInv, SignInInv, SigningIn, Accepted,
       RecordBabies, Go
  <1>13. ASSUME NEW a \in Actors, CopySession(a) PROVE SignInInv'
    BY <1>13 DEF Shapes, PlaceInv, CredInv, SignInInv, SigningIn, Accepted,
       CopySession, Go
  <1>14. ASSUME NEW a \in Actors, Send(a) PROVE SignInInv'
    BY <1>14 DEF Shapes, PlaceInv, CredInv, SignInInv, SigningIn, Accepted, Send, Go
  <1>15. ASSUME NEW a \in Actors, CloudGrants(a) PROVE SignInInv'
    BY <1>15 DEF Shapes, PlaceInv, CredInv, SignInInv, SigningIn, Accepted,
       CloudGrants, Go, Granting
  <1>16. ASSUME NEW a \in Actors, CloudChallenges(a) PROVE SignInInv'
    BY <1>16 DEF Shapes, PlaceInv, CredInv, SignInInv, SigningIn, Accepted,
       CloudChallenges, Go
  <1>17. ASSUME NEW a \in Actors, Challenged(a) PROVE SignInInv'
    <2>1. CASE pending' = token[a] /\ token' = [token EXCEPT ![a] = 0] /\ Go(a, "idle")
      BY <1>17, <2>1 DEF Shapes, PlaceInv, CredInv, SignInInv, SigningIn,
         Accepted, Challenged, Go
    <2>2. CASE job[a] = "boot" /\ Go(a, "mfa") /\ UNCHANGED <<pending, token>>
      BY <1>17, <2>2 DEF Shapes, PlaceInv, CredInv, SignInInv, SigningIn,
         Accepted, Challenged, Go
    <2> QED
      BY <1>17, <2>1, <2>2 DEF Challenged
  <1>18. ASSUME NEW a \in Actors, SignInFails(a) PROVE SignInInv'
    <2>1. /\ at' = [at EXCEPT ![a] = "idle"] /\ token' = [token EXCEPT ![a] = 0]
          /\ with' = [with EXCEPT ![a] = None]
          /\ UNCHANGED <<cred, job, pending, solved, issued>>
      BY <1>18 DEF SignInFails, Go
    <2>2. ~astray' => ~astray /\ ~Accepted(a)
      BY <1>18 DEF SignInFails, Accepted
    <2> QED
      BY <2>1, <2>2 DEF Shapes, SignInInv, SigningIn, Accepted
  <1>19. ASSUME NEW a \in Actors, ClearPending(a) PROVE SignInInv'
    BY <1>19 DEF Shapes, PlaceInv, CredInv, SignInInv, SigningIn, Accepted,
       ClearPending, Go, PendingAfterMFA
  <1>20. ASSUME Expire PROVE SignInInv'
    BY <1>20 DEF Shapes, PlaceInv, CredInv, SignInInv, SigningIn, Accepted, Expire
  <1>21. ASSUME Crash PROVE SignInInv'
    BY <1>21 DEF Shapes, PlaceInv, CredInv, SignInInv, SigningIn, Accepted, Crash,
       Loaded, Empty, Nothing, Booting
  <1>22. CASE UNCHANGED vars
    BY <1>22 DEF Shapes, PlaceInv, CredInv, SignInInv, SigningIn, Accepted, vars
  <1> QED
    BY <1>1, <1>2, <1>3, <1>4, <1>5, <1>6, <1>7, <1>8, <1>9, <1>10, <1>11, <1>12,
       <1>13, <1>14, <1>15, <1>16, <1>17, <1>18, <1>19, <1>20, <1>21, <1>22
       DEF Next, Step

-----------------------------------------------------------------------------
IInv ==
    /\ TypeOK /\ PlaceInv /\ LockInv /\ NumberInv /\ AnswerInv /\ FileInv /\ CredInv
    /\ SignInInv /\ SessionIsRenewable

\* The invariant holds when the process starts without a session file.
LEMMA InitInv == Init => IInv
  <1> SUFFICES ASSUME Init PROVE IInv
    OBVIOUS
  <1>1. TypeOK
    <2>1. at \in [Actors -> Places] /\ job \in [Actors -> Jobs]
      BY DEF Init, Booting, Places, Jobs
    <2>2. /\ answer \in [Actors -> [access : Grants, refresh : Grants]]
          /\ copy \in [Actors -> Sessions] /\ with \in [Actors -> Accounts \cup {None}]
          /\ token \in [Actors -> Challenges] /\ issued \in [Challenges -> Accounts \cup {None}]
      BY EmptyTypes DEF Init
    <2>3. /\ session \in Sessions /\ cred \in Accounts \cup {None} /\ lock = None
          /\ pending \in Challenges /\ file \in Sessions
      BY EmptyTypes, ConfiguredAssumption DEF Init
    <2>4. crashes \in 0..MaxCrashes /\ granted \in Grants /\ expired \in Grants
      BY EmptyTypes, BoundAssumption DEF Init
    <2> QED
      BY <2>1, <2>2, <2>3, <2>4 DEF Init, TypeOK
  <1>2. \A a \in Actors : at[a] = (IF a = Main THEN "check" ELSE "idle")
    BY DEF Init, Booting
  <1>3. \A a \in Actors : job[a] = (IF a = Main THEN "boot" ELSE "get")
    BY DEF Init
  <1>4. PlaceInv /\ LockInv
    BY <1>2 DEF PlaceInv, LockInv, Saving
  <1>5. NumberInv /\ AnswerInv
    BY <1>2, BoundAssumption DEF Init, NumberInv, AnswerInv, Answered, Empty, Nothing
  <1>6. file # None
    BY EmptyTypes, NoneAssumption DEF Init
  <1>7. FileInv
    BY <1>2, <1>6 DEF Init, FileInv, FileHasTokens, Saving
  <1>8. CredInv
    BY <1>2, NoneAssumption DEF Init, CredInv
  <1>9. SignInInv
    BY <1>2, <1>3 DEF Init, SignInInv, SigningIn, Accepted
  <1>10. SessionIsRenewable
    BY DEF Init, SessionIsRenewable, Empty
  <1> QED
    BY <1>1, <1>4, <1>5, <1>7, <1>8, <1>9, <1>10 DEF IInv

\* The invariant holds in every reachable state.
THEOREM Invariance == Spec => []IInv
  <1>1. IInv /\ [Next]_vars => IInv'
    BY TypeStep, PlaceStep, LockStep, NumberStep, AnswerStep, FileStep, CredStep,
       SignInStep, RenewStep, ShapesOfTypes, NumbersOfTypes DEF IInv
  <1> QED
    BY InitInv, <1>1, PTL DEF Spec

\* Every variable has its type.
THEOREM TypeCorrect == Spec => []TypeOK
  <1>1. IInv => TypeOK
    BY DEF IInv
  <1> QED
    BY Invariance, <1>1, PTL

\* However many callers find the token expired, one request renews it, and only
\* an expired token is renewed.
THEOREM RefreshesAreNeeded == Spec => []RefreshIsNeeded
  <1>1. IInv => RefreshIsNeeded
    BY DEF IInv, LockInv, RefreshIsNeeded, Refreshing
  <1> QED
    BY Invariance, <1>1, PTL

\* A signed-in session can be renewed without the password, also after a crash,
\* unless the tokens of an answer got lost.
THEOREM SessionsAreRenewable == Spec => []SessionIsRenewable
  <1>1. IInv => SessionIsRenewable
    BY DEF IInv
  <1> QED
    BY Invariance, <1>1, PTL

\* When nobody is saving the file has the session, unless the last save failed or
\* was overtaken.
THEOREM FilesAreCurrent == Spec => []FileIsCurrent
  <1>1. IInv => FileIsCurrent
    BY DEF IInv, FileInv, FileIsCurrent
  <1> QED
    BY Invariance, <1>1, PTL

\* Between sign-ins that do not overlap, the challenge the dashboard asks to
\* answer was issued for the credentials of the moment and not solved yet.
THEOREM PendingChallengesCanBeSolved == Spec => []PendingCanBeSolved
  <1>1. IInv => PendingCanBeSolved
    BY DEF IInv, SignInInv, PendingCanBeSolved, SigningIn, Accepted
  <1> QED
    BY Invariance, <1>1, PTL

-----------------------------------------------------------------------------
(* What the requests to the cloud carry, and what a crash leaves.          *)

\* Whoever has a refresh token has an access token; answers have one.
Together(t) == t.refresh # 0 => t.access # 0

TogetherInv ==
    /\ Together(session)
    /\ file # None => Together(file)
    /\ \A a \in Actors : Together(copy[a])
    /\ \A a \in Actors : Answered(a) => answer[a].access # 0

\* No step separates the tokens of a session from each other.
LEMMA TogetherStep ==
  TypeOK /\ TogetherInv /\ [Next]_vars => TogetherInv'
  <1> SUFFICES ASSUME Shapes, Numbers, TogetherInv, [Next]_vars
               PROVE  TogetherInv'
    BY ShapesOfTypes, NumbersOfTypes
  <1> USE ReadyIsIdle, PlaceWithToken
       DEF memory, requests, actor, cloud, outside, history, Shapes, TogetherInv, Answered
  <1>1. ASSUME UNCHANGED <<session, file, copy, answer>>, NEW a \in Actors,
               \A b \in Actors \ {a} : at'[b] = at[b],
               at'[a] \notin {"renewed", "signedIn"}
        PROVE  TogetherInv'
    BY <1>1
  <1>2. ASSUME NEW a \in Actors,
               Begin(a) \/ Check(a) \/ Lock(a) \/ HandleLogin(a) \/ HandleMFA(a)
               \/ Fetch(a) \/ Send(a) \/ CloudChallenges(a) \/ Challenged(a)
               \/ ClearPending(a)
        PROVE  TogetherInv'
    <2>1. UNCHANGED <<session, file, copy, answer>>
      BY <1>2 DEF Begin, Check, Lock, HandleLogin, HandleMFA, Fetch, Send,
         CloudChallenges, Challenged, ClearPending
    <2>2. \E w \in Places \ {"renewed", "signedIn"} : at' = [at EXCEPT ![a] = w]
      BY <1>2 DEF Begin, Check, Lock, WithoutToken, Onward, HandleLogin, HandleMFA, Fetch,
         Send, CloudChallenges, Challenged, ClearPending, Go, Places
    <2> QED
      BY <1>1, <2>1, <2>2
  <1>3. ASSUME NEW a \in Actors, CloudRenews(a) \/ CloudGrants(a) PROVE TogetherInv'
    <2>1. UNCHANGED <<session, file, copy>>
      BY <1>3 DEF CloudRenews, CloudGrants
    <2>2. answer'[a].access = granted + 1 /\ granted + 1 # 0
      BY <1>3 DEF CloudRenews, CloudGrants, Granting, Numbers
    <2>3. \A b \in Actors \ {a} : at'[b] = at[b] /\ answer'[b] = answer[b]
      BY <1>3 DEF CloudRenews, CloudGrants, Go
    <2> QED
      BY <2>1, <2>2, <2>3
  <1>4. ASSUME NEW a \in Actors, RefreshFails(a) \/ SignInFails(a) PROVE TogetherInv'
    <2>1. UNCHANGED <<session, file, copy>>
      BY <1>4 DEF RefreshFails, SignInFails
    <2>2. /\ at'[a] \notin {"renewed", "signedIn"}
          /\ \A b \in Actors \ {a} : at'[b] = at[b] /\ answer'[b] = answer[b]
      BY <1>4 DEF RefreshFails, SignInFails, WithoutToken, Go
    <2> QED
      BY <2>1, <2>2
  <1>5. ASSUME NEW a \in Actors, Store(a) PROVE TogetherInv'
    <2>1. /\ session'.access = answer[a].access /\ file' = file
          /\ copy' = [copy EXCEPT ![a] = session']
          /\ answer' = [answer EXCEPT ![a] = Nothing] /\ at' = [at EXCEPT ![a] = "open"]
      BY <1>5 DEF Store, Updated, ToSave, Go
    <2>2. answer[a].access # 0
      BY <1>5 DEF Store
    <2> QED
      BY <2>1, <2>2 DEF Together
  <1>6. ASSUME NEW a \in Actors, Open(a) \/ Write(a) PROVE TogetherInv'
    <2>1. UNCHANGED <<session, answer>> /\ file' \in {None, file, copy[a]}
      BY <1>6 DEF Open, Write
    <2>2. copy' = copy \/ copy' = [copy EXCEPT ![a] = Empty]
      BY <1>6 DEF Open, Write, Saved
    <2>3. \E w \in {"write", "idle", "fetching", "clear", "check"} :
             at' = [at EXCEPT ![a] = w]
      BY <1>6 DEF Open, Write, Saved, Onward, Go
    <2>4. Together(Empty)
      BY DEF Together, Empty
    <2> QED
      BY <2>1, <2>2, <2>3, <2>4
  <1>7. ASSUME NEW a \in Actors, RecordBabies(a) \/ CopySession(a) PROVE TogetherInv'
    <2>1. session' = session \/ session' = [session EXCEPT !.listed = TRUE]
      BY <1>7 DEF RecordBabies, CopySession
    <2>2. Together(session')
      BY <2>1 DEF Together, Numbers, Sessions
    <2>3. copy' = copy \/ copy' = [copy EXCEPT ![a] = session]
      BY <1>7 DEF RecordBabies, CopySession
    <2>4. UNCHANGED <<file, answer>> /\ \E w \in {"copy", "open"} : at' = [at EXCEPT ![a] = w]
      BY <1>7 DEF RecordBabies, CopySession, Go
    <2> QED
      BY <2>2, <2>3, <2>4
  <1>8. CASE Crash
    <2>1. /\ session' = Empty \/ (file # None /\ session' = file)
          /\ file' = file /\ copy' = [a \in Actors |-> Empty]
          /\ \A a \in Actors : at'[a] \in {"check", "idle"}
      BY <1>8 DEF Crash, Loaded, Booting
    <2>2. Together(Empty)
      BY DEF Together, Empty
    <2>3. \A a \in Actors : ~Answered(a)'
      BY <2>1 DEF Answered
    <2>4. \A a \in Actors : Together(copy'[a])
      BY <2>1, <2>2
    <2>5. Together(session') /\ (file' # None => Together(file'))
      BY <2>1, <2>2
    <2> QED
      BY <2>3, <2>4, <2>5
  <1>9. CASE Expire \/ UNCHANGED vars
    BY <1>9 DEF Expire, vars
  <1> QED
    BY <1>2, <1>3, <1>4, <1>5, <1>6, <1>7, <1>8, <1>9 DEF Next, Step

\* The tokens of the session, of the file and of every copy come and go in pairs.
LEMMA TokensTogether == Spec => []TogetherInv
  <1>1. Init => TogetherInv
    <2> SUFFICES ASSUME Init PROVE TogetherInv
      OBVIOUS
    <2>1. \A a \in Actors : at[a] \notin {"renewed", "signedIn"}
      BY DEF Init, Booting
    <2> QED
      BY <2>1 DEF Init, TogetherInv, Together, Empty, Answered
  <1>2. IInv /\ TogetherInv /\ [Next]_vars => TogetherInv'
    BY TogetherStep DEF IInv
  <1> QED
    BY <1>1, <1>2, Invariance, PTL DEF Spec

\* The request refresh sends carries a token the cloud still knows.
RefreshIsAccepted ==
    \A a \in Actors : Refreshing(a) /\ ~lost => session.refresh \notin retired \cup {0}

\* While a refresh waits for its answer nothing exchanges or forgets the token it has
\* sent, neither a sign-in nor another caller, so that a refusal means the cloud has
\* ended the session (auth.go:182-231); except after an answer was lost.
THEOREM RefreshesAreAccepted == Spec => []RefreshIsAccepted
  <1>1. ASSUME IInv, TogetherInv, ~lost, NEW a \in Actors, at[a] = "refreshing"
        PROVE  session.refresh \notin retired \cup {0}
    <2>1. lock = a /\ session.refresh # 0
      BY <1>1 DEF IInv, LockInv
    <2>2. \A b \in Actors : at[b] # "renewed"
      BY <1>1, <2>1 DEF IInv, LockInv
    <2>3. session.access # 0
      BY <1>1, <2>1 DEF TogetherInv, Together
    <2> QED
      BY <1>1, <2>2, <2>3 DEF IInv, SessionIsRenewable
  <1>2. IInv /\ TogetherInv => RefreshIsAccepted
    BY <1>1 DEF RefreshIsAccepted, Refreshing
  <1> QED
    BY <1>2, Invariance, TokensTogether, PTL

\* A crash between saves costs no sign-in: LoadSession (auth.go:429-449) finds both tokens
\* as the memory had them, unless somebody was saving, had yet to store an answer, or
\* the last save had failed or was overtaken.
THEOREM CrashKeepsTokens ==
  Spec => [][Crash /\ ~lost' => /\ session'.access = session.access
                                /\ session'.refresh = session.refresh]_vars
  <1>1. ASSUME IInv, Crash, ~lost'
        PROVE  session'.access = session.access /\ session'.refresh = session.refresh
    <2>1. ~behind /\ \A a \in Actors : ~Saving(a)
      BY <1>1 DEF Crash
    <2>2. FileHasTokens
      BY <1>1, <2>1 DEF IInv, FileInv
    <2> QED
      BY <1>1, <2>2 DEF Crash, Loaded, FileHasTokens
  <1>2. IInv /\ [Next]_vars =>
           [Crash /\ ~lost' => /\ session'.access = session.access
                               /\ session'.refresh = session.refresh]_vars
    BY <1>1
  <1> QED
    BY <1>2, Invariance, PTL DEF Spec

\* The code a sign-in sends, or is about to, answers a challenge for its credentials.
CodeIsAccepted ==
    ~astray => \A a \in Actors :
        /\ at[a] \in {"mfa", "code"} => token[a] \notin solved /\ issued[token[a]] = cred
        /\ at[a] = "code" => with[a] = cred

\* A sign-in that is alone keeps its challenge and its credentials to itself.
LEMMA CodeStep ==
  IInv /\ CodeIsAccepted /\ [Next]_vars => CodeIsAccepted'
  <1> SUFFICES ASSUME Shapes, PlaceInv, LockInv, CredInv, SignInInv, CodeIsAccepted,
                      [Next]_vars, ~astray'
               PROVE  CodeIsAccepted'
    BY ShapesOfTypes DEF IInv, CodeIsAccepted
  <1> USE ReadyIsIdle, PlaceWithToken
       DEF memory, requests, actor, cloud, outside, history, Shapes
  <1>a. \A b \in Actors : at[b] \in {"login", "password", "challenged", "mfa", "code",
                                     "signedIn", "clear"} => SigningIn(b)
    BY DEF PlaceInv, SigningIn
  <1>b. ~astray => \A b, c \in Actors : SigningIn(b) /\ SigningIn(c) => b = c
    BY DEF SignInInv
  <1>1. ASSUME NEW a \in Actors, ~astray,
               UNCHANGED <<cred, solved, issued>>,
               \A b \in Actors \ {a} : at'[b] = at[b] /\ token'[b] = token[b] /\ with'[b] = with[b],
               at'[a] \notin {"mfa", "code"}
        PROVE  CodeIsAccepted'
    BY <1>1 DEF CodeIsAccepted
  <1>2. ASSUME NEW a \in Actors,
               Begin(a) \/ Check(a) \/ CloudRenews(a) \/ Store(a) \/ Open(a) \/ Write(a)
               \/ Fetch(a) \/ RecordBabies(a) \/ CopySession(a) \/ SignInFails(a)
               \/ ClearPending(a)
        PROVE  CodeIsAccepted'
    <2>a. UNCHANGED <<cred, solved, issued>>
      BY <1>2 DEF Begin, Check, CloudRenews, Store, Open, Write, Fetch, RecordBabies,
         CopySession, SignInFails, ClearPending
    <2>1. ~astray
      <3>1. CASE SignInFails(a)
        BY <3>1 DEF SignInFails
      <3>2. CASE ~SignInFails(a)
        BY <1>2, <3>2 DEF Begin, Check, CloudRenews, Store, Open, Write, Fetch, RecordBabies,
           CopySession, ClearPending
      <3> QED
        BY <3>1, <3>2
    <2>2. \A b \in Actors \ {a} : token'[b] = token[b] /\ with'[b] = with[b]
      BY <1>2 DEF Begin, Check, CloudRenews, Store, Open, Write, Saved, Fetch, RecordBabies,
         CopySession, SignInFails, ClearPending
    <2>3. \E w \in Places \ {"mfa", "code"} : at' = [at EXCEPT ![a] = w]
      BY <1>2 DEF Begin, Check, CloudRenews, Store, Open, Write, Saved, Fetch, RecordBabies,
         CopySession, SignInFails, ClearPending, Onward, Go, Places
    <2> QED
      BY <1>1, <2>a, <2>1, <2>2, <2>3
  \* Only main, at the start, takes other credentials here, and signs in alone.
  <1>3. ASSUME NEW a \in Actors, Lock(a) \/ RefreshFails(a) PROVE CodeIsAccepted'
    <2>1. UNCHANGED <<token, with, solved, issued, astray>> /\ ~astray
      BY <1>3 DEF Lock, RefreshFails
    <2>2. at[a] \in {"lock", "refreshing", "renewed"}
      BY <1>3 DEF Lock, RefreshFails
    <2>3. /\ \E w \in Places \ {"mfa", "code"} : at' = [at EXCEPT ![a] = w]
          /\ cred' # cred => SigningIn(a)
      BY <1>3, <2>2 DEF Lock, RefreshFails, WithoutToken, Onward, Go, Places, SigningIn
    <2>4. CASE cred' = cred
      BY <1>1, <2>1, <2>3, <2>4
    <2>5. CASE cred' # cred
      <3>1. \A b \in Actors : at'[b] \notin {"mfa", "code"}
        BY <1>a, <1>b, <2>1, <2>2, <2>3, <2>5
      <3> QED
        BY <3>1 DEF CodeIsAccepted
    <2> QED
      BY <2>4, <2>5
  <1>4. ASSUME NEW a \in Actors, HandleLogin(a) PROVE CodeIsAccepted'
    <2>1. \A b \in Actors : ~SigningIn(b)
      BY <1>4 DEF HandleLogin
    <2>2. at' = [at EXCEPT ![a] = "login"]
      BY <1>4 DEF HandleLogin, Go
    <2>3. \A b \in Actors : at'[b] \notin {"mfa", "code"}
      BY <1>a, <2>1, <2>2
    <2> QED
      BY <2>3 DEF CodeIsAccepted
  <1>5. ASSUME NEW a \in Actors, HandleMFA(a) PROVE CodeIsAccepted'
    <2>1. ~astray /\ \A b \in Actors : ~SigningIn(b)
      BY <1>5 DEF HandleMFA
    <2>2. /\ at' = [at EXCEPT ![a] = "mfa"] /\ token' = [token EXCEPT ![a] = pending]
          /\ pending # 0 /\ UNCHANGED <<cred, solved, issued>>
      BY <1>5 DEF HandleMFA, Go
    <2>3. \A b \in Actors : at[b] \notin {"mfa", "code"} /\ ~Accepted(b)
      BY <1>a, <2>1 DEF Accepted, SigningIn
    <2>4. pending \notin solved /\ issued[pending] = cred
      BY <2>1, <2>2, <2>3 DEF SignInInv
    <2> QED
      BY <2>2, <2>3, <2>4 DEF CodeIsAccepted
  <1>6. ASSUME NEW a \in Actors, Send(a) PROVE CodeIsAccepted'
    <2>1. /\ UNCHANGED <<cred, solved, issued, token>> /\ ~astray
          /\ with' = [with EXCEPT ![a] = cred]
          /\ at' = [at EXCEPT ![a] = IF at[a] = "login" THEN "password" ELSE "code"]
          /\ at[a] \in {"login", "mfa"}
      BY <1>6 DEF Send, Go
    <2> QED
      BY <2>1 DEF CodeIsAccepted
  <1>7. ASSUME NEW a \in Actors, CloudGrants(a) \/ CloudChallenges(a) PROVE CodeIsAccepted'
    <2>1. at[a] \in {"password", "code"} /\ ~astray
      BY <1>7 DEF CloudGrants, CloudChallenges
    <2>2. \E w \in {"signedIn", "challenged"} : at' = [at EXCEPT ![a] = w]
      BY <1>7 DEF CloudGrants, CloudChallenges, Go
    <2>3. \A b \in Actors : at'[b] \notin {"mfa", "code"}
      BY <1>a, <1>b, <2>1, <2>2
    <2> QED
      BY <2>3 DEF CodeIsAccepted
  <1>8. ASSUME NEW a \in Actors, Challenged(a) PROVE CodeIsAccepted'
    <2>1. UNCHANGED <<cred, solved, issued, with>> /\ ~astray /\ at[a] = "challenged"
      BY <1>8 DEF Challenged
    <2>2. \/ at' = [at EXCEPT ![a] = "idle"] /\ token' = [token EXCEPT ![a] = 0]
          \/ at' = [at EXCEPT ![a] = "mfa"] /\ token' = token
      BY <1>8 DEF Challenged, Go
    <2>3. token[a] \notin solved /\ issued[token[a]] = cred
      BY <2>1 DEF SignInInv
    <2> QED
      BY <2>1, <2>2, <2>3 DEF CodeIsAccepted
  <1>9. CASE Crash
    <2>1. \A b \in Actors : at'[b] \notin {"mfa", "code"}
      BY <1>9 DEF Crash, Booting
    <2> QED
      BY <2>1 DEF CodeIsAccepted
  <1>10. CASE Expire \/ UNCHANGED vars
    BY <1>10 DEF Expire, vars, CodeIsAccepted
  <1> QED
    BY <1>2, <1>3, <1>4, <1>5, <1>6, <1>7, <1>8, <1>9, <1>10 DEF Next, Step

\* LoginWithMFA reads challenge and credentials without a lock (nanit_auth.go:106-147,
\* auth.go:157-180); what it sends is nevertheless a challenge that was issued for the
\* credentials it sends and that nobody has solved, if sign-ins do not overlap.
THEOREM CodesAreAccepted == Spec => []CodeIsAccepted
  <1>1. Init => CodeIsAccepted
    <2> SUFFICES ASSUME Init PROVE CodeIsAccepted
      OBVIOUS
    <2>1. \A a \in Actors : at[a] \notin {"mfa", "code"}
      BY DEF Init, Booting
    <2> QED
      BY <2>1 DEF CodeIsAccepted
  <1>2. IInv /\ CodeIsAccepted /\ [Next]_vars => CodeIsAccepted'
    BY CodeStep
  <1> QED
    BY <1>1, <1>2, Invariance, PTL DEF Spec
=============================================================================
