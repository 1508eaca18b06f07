---------------------------- MODULE TokenManager ----------------------------
(***************************************************************************)
(* The session with the Nanit cloud, src/internal/nanit/auth.go: its       *)
(* access and refresh token in memory and in a file, GetAccessToken with   *)
(* its refresh, FetchBabies, Login and LoginWithMFA; the sign-in on the    *)
(* dashboard in one or two requests, src/internal/api/nanit_auth.go; and   *)
(* ensureAuth of main after a start or a crash.                            *)
(*                                                                         *)
(* An actor is a goroutine: main, or one that needs a token, fetches the   *)
(* babies or handles a request of the dashboard.  Sections under tm.mu in  *)
(* which nothing blocks are a step; refresh holds tm.mu over its request.  *)
(* A session file is truncated, then written.  Tokens are numbered as the  *)
(* cloud grants them, 0 is none; a grant has an access token and, unless   *)
(* the cloud keeps the old one, a refresh token of the same number.        *)
(***************************************************************************)
EXTENDS Naturals, FiniteSets

CONSTANTS
    Callers,        \* goroutines of the manager and of the dashboard
    Main,           \* main
    Accounts,       \* credentials somebody may sign in with
    Configured,     \* those of the environment, or None
    MaxGrants,      \* bound: grants of the cloud
    MaxChallenges,  \* bound: MFA challenges of the cloud
    MaxCrashes,     \* bound: crashes
    MaxActive,      \* bound: actors at work at a time
    None            \* nobody; no credentials; a file that cannot be parsed

Actors == Callers \cup {Main}

Grants == 0..MaxGrants
Challenges == 0..MaxChallenges
Sessions == [access : Grants, refresh : Grants, listed : BOOLEAN]
Empty == [access |-> 0, refresh |-> 0, listed |-> FALSE]
Nothing == [access |-> 0, refresh |-> 0]

ASSUME NoneAssumption == None \notin Actors \cup Accounts \cup Sessions
ASSUME MainAssumption == Main \notin Callers
ASSUME ConfiguredAssumption == Configured \in Accounts \cup {None}
ASSUME BoundAssumption ==
    MaxGrants \in Nat /\ MaxChallenges \in Nat /\ MaxCrashes \in Nat /\ MaxActive \in Nat

VARIABLES
    session,     \* tm.session: access and refresh token, babies fetched
    cred,        \* tm.session.Email and tm.password
    lock,        \* the holder of tm.mu for writing
    at,          \* where an actor is
    job,         \* what it does
    answer,      \* the tokens of an answer on its way to it
    copy,        \* the session it is about to write to the file
    token,       \* the challenge in its hands, in an answer or a local variable
    with,        \* the credentials in its request
    pending,     \* pendingMFATo: the challenge the dashboard may answer
    file,        \* the session file
    expired,     \* access tokens up to this one have expired, or will in 5 minutes
    granted,     \* cloud: the number of grants
    retired,     \* cloud: refresh tokens that were exchanged for another
    issued,      \* cloud: whom a challenge was issued for
    solved,      \* cloud: challenges that were solved
    crashes,     \* the number of crashes
    lost,        \* history: the tokens of an answer never got into the memory
    behind,      \* history: a save failed or overlapped with a change
    astray       \* history: sign-ins overlapped, or the answer to one got lost

memory == <<session, cred, lock>>
requests == <<answer, copy, token, with>>
actor == <<at, job, requests>>
cloud == <<granted, retired, issued, solved>>
outside == <<expired, cloud, crashes>>
history == <<lost, behind, astray>>
vars == <<memory, actor, pending, file, outside, history>>

Jobs == {"get", "fetch", "login", "mfa", "boot"}
Places == {"idle", "check", "lock", "refreshing", "renewed", "open", "write",
           "fetching", "record", "copy", "login", "mfa", "password", "code",
           "challenged", "signedIn", "clear"}

TypeOK ==
    /\ session \in Sessions
    /\ cred \in Accounts \cup {None}
    /\ lock \in Actors \cup {None}
    /\ at \in [Actors -> Places] /\ job \in [Actors -> Jobs]
    /\ answer \in [Actors -> [access : Grants, refresh : Grants]]
    /\ copy \in [Actors -> Sessions]
    /\ with \in [Actors -> Accounts \cup {None}]
    /\ token \in [Actors -> Challenges] /\ pending \in Challenges
    /\ file \in Sessions \cup {None}
    /\ expired \in Grants /\ granted \in Grants /\ retired \subseteq Grants
    /\ issued \in [Challenges -> Accounts \cup {None}] /\ solved \subseteq Challenges
    /\ crashes \in 0..MaxCrashes
    /\ lost \in BOOLEAN /\ behind \in BOOLEAN /\ astray \in BOOLEAN

Booting == [a \in Actors |-> IF a = Main THEN "check" ELSE "idle"]

Init ==
    /\ session = Empty /\ cred = Configured /\ lock = None
    /\ at = Booting
    /\ job = [a \in Actors |-> IF a = Main THEN "boot" ELSE "get"]
    /\ answer = [a \in Actors |-> Nothing]
    /\ copy = [a \in Actors |-> Empty]
    /\ token = [a \in Actors |-> 0]
    /\ with = [a \in Actors |-> None]
    /\ pending = 0
    /\ file = Empty
    /\ expired = 0 /\ granted = 0 /\ retired = {}
    /\ issued = [m \in Challenges |-> None] /\ solved = {}
    /\ crashes = 0
    /\ lost = FALSE /\ behind = FALSE /\ astray = FALSE
-----------------------------------------------------------------------------
(* A definition that nothing uses is a mutant of the one that follows it.  *)

Go(a, place) == at' = [at EXCEPT ![a] = place]

\* A goroutine of the manager or of the dashboard may start something.
Ready(a) ==
    /\ a \in Callers /\ at[a] = "idle"
    /\ Cardinality({b \in Actors : at[b] # "idle"}) < MaxActive

\* The test of GetAccessToken, without the lock and again with it.
Fresh == session.access > expired

NoSecondLook == FALSE

\* refresh finds that another caller has renewed the token meanwhile.
RenewedMeanwhile == Fresh

Forgotten(t) == t.refresh

\* parseAuthResponseLocked: an answer without refresh token keeps the old one.
Refresh(t) == IF t.refresh # 0 THEN t.refresh ELSE session.refresh

Updated(t) == [access |-> t.access, refresh |-> Refresh(t), listed |-> session.listed]

OldSession(t) == session

\* What saveLocked writes.
ToSave(t) == Updated(t)

\* Somebody has a copy of the session to write.
Saving(a) == at[a] \in {"open", "write"}
OthersSaving(a) == \E b \in Actors \ {a} : Saving(b)

SigningIn(a) == job[a] \in {"login", "mfa", "boot"} /\ at[a] # "idle"

KeptPending == pending

\* The pending challenge when a sign-in begins.
PendingAfterLogin == 0

\* The pending challenge when the code was accepted.
PendingAfterMFA == 0

\* Every return of refresh unlocks tm.mu.
Unlocked(a) == IF lock = a THEN None ELSE lock

\* Where an actor that has a token goes on.
WithToken(a) == CASE job[a] = "get" -> "idle"
                  [] job[a] = "fetch" -> "fetching"
                  [] job[a] = "mfa" -> "clear"
                  [] OTHER -> "check"

\* main and a sign-in that succeeded start the manager, which fetches the babies.
Onward(a) ==
    /\ Go(a, WithToken(a))
    /\ job' = [job EXCEPT ![a] = IF @ \in {"boot", "login"} THEN "fetch" ELSE @]
-----------------------------------------------------------------------------
(* GetAccessToken                                                          *)

Begin(a) ==
    /\ Ready(a)
    /\ \E what \in {"get", "fetch"} : job' = [job EXCEPT ![a] = what]
    /\ Go(a, "check")
    /\ UNCHANGED <<memory, requests, pending, file, outside, history>>

Check(a) ==
    /\ at[a] = "check" /\ lock = None
    /\ IF Fresh THEN Onward(a) ELSE Go(a, "lock") /\ UNCHANGED job
    /\ UNCHANGED <<memory, requests, pending, file, outside, history>>

\* A caller without token gives up; main signs in with the credentials of the
\* environment, or with those it asks for at a terminal, if there is one.
WithoutToken(a) ==
    \/ job[a] # "boot" /\ Go(a, "idle") /\ UNCHANGED cred
    \/ /\ job[a] = "boot"
       /\ \/ Go(a, "login") /\ cred' \in IF Configured = None THEN Accounts ELSE {cred}
          \/ Configured = None /\ Go(a, "idle") /\ UNCHANGED cred

\* refresh locks tm.mu and looks again.
Lock(a) ==
    /\ at[a] = "lock" /\ lock = None
    /\ \/ RenewedMeanwhile /\ Onward(a) /\ UNCHANGED memory
       \/ /\ ~RenewedMeanwhile /\ session.refresh = 0
          /\ WithoutToken(a)
          /\ UNCHANGED <<session, lock, job>>
       \/ /\ ~RenewedMeanwhile /\ session.refresh # 0
          /\ lock' = a /\ Go(a, "refreshing")
          /\ UNCHANGED <<session, cred, job>>
    /\ UNCHANGED <<requests, pending, file, outside, history>>

Granting == granted < MaxGrants /\ granted' = granted + 1

\* The cloud exchanges a refresh token it still knows, with or without a new one.
CloudRenews(a) ==
    /\ at[a] = "refreshing"
    /\ session.refresh \notin retired
    /\ Granting
    /\ \/ /\ answer' = [answer EXCEPT ![a] = [access |-> granted', refresh |-> granted']]
          /\ retired' = retired \cup {session.refresh}
       \/ /\ answer' = [answer EXCEPT ![a] = [access |-> granted', refresh |-> 0]]
          /\ UNCHANGED retired
    /\ Go(a, "renewed")
    /\ UNCHANGED <<memory, job, copy, token, with, pending, file, expired, issued,
                   solved, crashes, history>>

\* No answer within 15 seconds, a refusal, or an answer that does not parse.
RefreshFails(a) ==
    /\ at[a] \in {"refreshing", "renewed"}
    /\ lost' = (lost \/ at[a] = "renewed")
    /\ answer' = [answer EXCEPT ![a] = Nothing]
    /\ lock' = Unlocked(a)
    /\ WithoutToken(a)
    /\ UNCHANGED <<session, job, copy, token, with, pending, file, outside, behind,
                   astray>>
-----------------------------------------------------------------------------
(* parseAuthResponse, and the writing of the file                          *)

\* The tokens of an answer get into the memory; the lock is held until the
\* file is written.  A save that has copied the session already is overtaken.
Store(a) ==
    /\ \/ at[a] = "renewed"
       \/ at[a] = "signedIn" /\ lock = None
    /\ lock' = a
    /\ session' = Updated(answer[a])
    /\ copy' = [copy EXCEPT ![a] = ToSave(answer[a])]
    /\ answer' = [answer EXCEPT ![a] = Nothing]
    /\ Go(a, "open")
    /\ lost' = FALSE
    /\ behind' = (behind \/ OthersSaving(a))
    /\ UNCHANGED <<cred, job, token, with, pending, file, outside, astray>>

\* saveLocked returns to its caller with the lock, which unlocks; save has none.
Saved(a) ==
    /\ copy' = [copy EXCEPT ![a] = Empty]
    /\ lock' = Unlocked(a)
    /\ IF lock = a THEN Onward(a) ELSE Go(a, "idle") /\ UNCHANGED job

\* os.WriteFile opens and truncates ...
Open(a) ==
    /\ at[a] = "open"
    /\ \/ /\ file' = None
          /\ Go(a, "write")
          /\ UNCHANGED <<lock, job, copy, behind>>
       \/ /\ behind' = TRUE
          /\ Saved(a)
          /\ UNCHANGED file
    /\ UNCHANGED <<session, cred, answer, token, with, pending, outside, lost, astray>>

\* ... and writes from the start: over what another writer wrote since, the end
\* of which may remain.  An error is logged and ignored.
Write(a) ==
    /\ at[a] = "write"
    /\ \/ /\ file' \in {copy[a]} \cup IF file \in {None, copy[a]} THEN {} ELSE {None}
          /\ behind' = (behind /\ ~(lock = a /\ file' = copy[a] /\ ~OthersSaving(a)))
       \/ file' = None /\ behind' = TRUE
    /\ Saved(a)
    /\ UNCHANGED <<session, cred, answer, token, with, pending, outside, lost, astray>>
-----------------------------------------------------------------------------
(* FetchBabies                                                             *)

Fetch(a) ==
    /\ at[a] = "fetching"
    /\ \E place \in {"record", "idle"} : Go(a, place)
    /\ UNCHANGED <<memory, job, requests, pending, file, outside, history>>

RecordBabies(a) ==
    /\ at[a] = "record" /\ lock = None
    /\ Go(a, "copy")
    /\ session' = [session EXCEPT !.listed = TRUE]
    /\ behind' = (behind \/ OthersSaving(a))
    /\ UNCHANGED <<cred, lock, job, requests, pending, file, outside, lost, astray>>

\* save copies the session with the lock and writes it without.
CopySession(a) ==
    /\ at[a] = "copy" /\ lock = None
    /\ Go(a, "open")
    /\ copy' = [copy EXCEPT ![a] = session]
    /\ UNCHANGED <<memory, job, answer, token, with, pending, file, outside, history>>
-----------------------------------------------------------------------------
(* The sign-in                                                             *)

\* handleLogin: SetCredentials, no challenge pending.
HandleLogin(a) ==
    /\ Ready(a) /\ lock = None
    /\ cred' \in Accounts
    /\ pending' = PendingAfterLogin
    /\ job' = [job EXCEPT ![a] = "login"]
    /\ Go(a, "login")
    /\ astray' = \E b \in Actors : SigningIn(b)
    /\ UNCHANGED <<session, lock, requests, file, outside, lost, behind>>

\* handleMFA reads the challenge, if there is one.
HandleMFA(a) ==
    /\ Ready(a)
    /\ pending # 0
    /\ token' = [token EXCEPT ![a] = pending]
    /\ job' = [job EXCEPT ![a] = "mfa"]
    /\ Go(a, "mfa")
    /\ astray' = (astray \/ \E b \in Actors : SigningIn(b))
    /\ UNCHANGED <<memory, answer, copy, with, pending, file, outside, lost, behind>>

\* Login and LoginWithMFA read the credentials, without the lock.
Send(a) ==
    /\ at[a] \in {"login", "mfa"}
    /\ with' = [with EXCEPT ![a] = cred]
    /\ Go(a, IF at[a] = "login" THEN "password" ELSE "code")
    /\ UNCHANGED <<memory, job, answer, copy, token, pending, file, outside, history>>

\* The cloud accepts the password, or the code: for a challenge it issued to
\* this account and that was not solved before ...
CloudGrants(a) ==
    /\ \/ at[a] = "password" /\ UNCHANGED solved
       \/ /\ at[a] = "code" /\ token[a] \notin solved /\ issued[token[a]] = with[a]
          /\ solved' = solved \cup {token[a]}
    /\ Granting
    /\ answer' = [answer EXCEPT ![a] = [access |-> granted', refresh |-> granted']]
    /\ token' = [token EXCEPT ![a] = 0]
    /\ with' = [with EXCEPT ![a] = None]
    /\ Go(a, "signedIn")
    /\ UNCHANGED <<memory, job, copy, pending, file, expired, retired, issued,
                   crashes, history>>

\* ... or wants a code first.
CloudChallenges(a) ==
    /\ at[a] = "password"
    /\ \E m \in Challenges \ {0} :
          /\ issued[m] = None /\ \A n \in 1..(m - 1) : issued[n] # None
          /\ issued' = [issued EXCEPT ![m] = with[a]]
          /\ token' = [token EXCEPT ![a] = m]
    /\ with' = [with EXCEPT ![a] = None]
    /\ Go(a, "challenged")
    /\ UNCHANGED <<memory, job, answer, copy, pending, file, expired, granted,
                   retired, solved, crashes, history>>

\* The dashboard asks for the code in another request; main asks at the
\* terminal, if there is one.
Challenged(a) ==
    /\ at[a] = "challenged"
    /\ \/ /\ pending' = token[a]
          /\ token' = [token EXCEPT ![a] = 0]
          /\ Go(a, "idle")
       \/ job[a] = "boot" /\ Go(a, "mfa") /\ UNCHANGED <<pending, token>>
    /\ UNCHANGED <<memory, job, answer, copy, with, file, outside, history>>

\* Refused, no answer, or an answer that got lost.
SignInFails(a) ==
    /\ at[a] \in {"password", "code", "challenged", "signedIn"}
    /\ Go(a, "idle")
    /\ answer' = [answer EXCEPT ![a] = Nothing]
    /\ token' = [token EXCEPT ![a] = 0]
    /\ with' = [with EXCEPT ![a] = None]
    /\ astray' = (astray \/ at[a] = "signedIn")
    /\ UNCHANGED <<memory, job, copy, pending, file, outside, lost, behind>>

\* handleMFA after the code was accepted; the manager is started next.
ClearPending(a) ==
    /\ at[a] = "clear"
    /\ pending' = PendingAfterMFA
    /\ job' = [job EXCEPT ![a] = "fetch"]
    /\ Go(a, "check")
    /\ UNCHANGED <<memory, requests, file, outside, history>>
-----------------------------------------------------------------------------
(* The environment                                                         *)

Expire ==
    /\ expired < granted
    /\ expired' \in (expired + 1)..granted
    /\ UNCHANGED <<memory, actor, pending, file, cloud, crashes, history>>

Loaded == IF file = None THEN Empty ELSE file

\* The process dies and is started again: NewTokenManager and LoadSession, which
\* leaves the session empty when the file does not parse.
Crash ==
    /\ crashes < MaxCrashes
    /\ crashes' = crashes + 1
    /\ session' = Loaded /\ cred' = Configured /\ lock' = None
    /\ at' = Booting
    /\ job' = [a \in Actors |-> IF a = Main THEN "boot" ELSE "get"]
    /\ answer' = [a \in Actors |-> Nothing]
    /\ copy' = [a \in Actors |-> Empty]
    /\ token' = [a \in Actors |-> 0]
    /\ with' = [a \in Actors |-> None]
    /\ pending' = 0
    /\ lost' = (lost \/ behind \/ \E a \in Actors : Saving(a) \/ at[a] = "renewed")
    /\ behind' = (file = None)
    /\ astray' = FALSE
    /\ UNCHANGED <<file, expired, cloud>>
-----------------------------------------------------------------------------
Step(a) ==
    \/ Check(a) \/ Lock(a) \/ CloudRenews(a) \/ RefreshFails(a)
    \/ Store(a) \/ Open(a) \/ Write(a)
    \/ Fetch(a) \/ RecordBabies(a) \/ CopySession(a)
    \/ Send(a) \/ CloudGrants(a) \/ CloudChallenges(a) \/ Challenged(a) \/ SignInFails(a)
    \/ ClearPending(a)

Next ==
    \/ \E a \in Actors : Begin(a) \/ HandleLogin(a) \/ HandleMFA(a) \/ Step(a)
    \/ Expire \/ Crash

Spec == Init /\ [][Next]_vars
-----------------------------------------------------------------------------
(* Properties                                                              *)

Refreshing(a) == at[a] = "refreshing"

\* However many callers find the token expired at once, and whoever signs in
\* meanwhile: one request for a new one is under way, and only while there is none.
RefreshIsNeeded ==
    \A a \in Actors : Refreshing(a) =>
        ~Fresh /\ \A b \in Actors \ {a} : at[b] \notin {"refreshing", "renewed"}

\* A session that was signed in can be renewed without the password, also after a
\* crash: its refresh token is one the cloud has not exchanged, unless the one it
\* was exchanged for is on its way or got lost.
SessionIsRenewable ==
    ~lost /\ session.access # 0 /\ (\A a \in Actors : at[a] # "renewed") =>
        session.refresh \notin retired \cup {0}

\* When nobody is saving, the file has the session of the memory, unless the last
\* save failed or overlapped with a change of the session.
FileIsCurrent ==
    ~behind /\ (\A a \in Actors : ~Saving(a) /\ at[a] # "copy") => file = session

\* Between sign-ins that did not overlap, the code the dashboard asks for is one
\* the cloud will accept with the credentials of the moment.
PendingCanBeSolved ==
    ~astray /\ pending # 0 /\ (\A a \in Actors : ~SigningIn(a)) =>
        pending \notin solved /\ issued[pending] = cred
=============================================================================
