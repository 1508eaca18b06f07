---------------------------- MODULE MirroredState ----------------------------
(***************************************************************************)
(* What a subscriber of the broker may rely on: PublishState of            *)
(* src/internal/mqtt/publisher.go brings the topics of a baby one by one   *)
(* to the values of one snapshot, and is over only when all of them have   *)
(* arrived; then what is shown was the state at one moment.  Whatever the  *)
(* alerts and timers of the state do in between, no value of another       *)
(* snapshot and none of an older one is mixed in.  StateMirror implements  *)
(* it for as long as publications do not overlap and no message is lost.   *)
(***************************************************************************)
CONSTANTS
    TopicSet,   \* the topics of a baby
    Contents    \* what they may show

VARIABLES
    value,      \* the state
    taken,      \* the snapshot being published, or published last
    shown,      \* what the broker retains
    busy        \* a publication is under way

vars == <<value, taken, shown, busy>>

Init ==
    /\ value \in Contents
    /\ shown \in Contents
    /\ taken = shown
    /\ busy = FALSE

\* Somebody changes the state, or a look at it ends an alert.
Change ==
    /\ value' \in Contents
    /\ UNCHANGED <<taken, shown, busy>>

\* The snapshot, which is the state from then on.
Take ==
    /\ ~busy
    /\ busy' = TRUE
    /\ value' \in Contents
    /\ taken' = value'
    /\ UNCHANGED shown

\* One topic reaches the broker.
Show(t) ==
    /\ busy
    /\ shown' = [shown EXCEPT ![t] = taken[t]]
    /\ UNCHANGED <<value, taken, busy>>

\* All have.
Done ==
    /\ busy
    /\ shown = taken
    /\ busy' = FALSE
    /\ UNCHANGED <<value, taken, shown>>

Next == Change \/ Take \/ (\E t \in TopicSet : Show(t)) \/ Done

Spec == Init /\ [][Next]_vars
=============================================================================
