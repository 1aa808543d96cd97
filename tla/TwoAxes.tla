------------------------------- MODULE TwoAxes -------------------------------
(***************************************************************************)
(* What GET promises about a release over time (ADR-0009,                  *)
(* lifecycle-states.md, "Two axes"): its last operation on one axis, the   *)
(* intent its network function is held to on the other.  Operations follow *)
(* one another; one that fails, or is never heard of again, changes        *)
(* nothing on the other axis; and a release whose deletion has begun does  *)
(* nothing but vanish.  How helm records this as revisions, and how many   *)
(* requests are at work, is Lifecycle, which implements this.              *)
(***************************************************************************)

CONSTANTS
    Replicas    \* replica counts an intent may ask for

VARIABLES
    operation,  \* last_operation: UNKNOWN when there is no release
    deleting,   \* whether that operation is the release's deletion
    asked,      \* the replicas the last operation was to bring into effect
    effect      \* desired_replicas: what is in effect, 0 for nothing

vars == <<operation, deleting, asked, effect>>

Nothing ==
    <<operation, deleting, asked, effect>> = <<"UNKNOWN", FALSE, 0, 0>>

Init == Nothing

Begin(n) ==
    /\ operation # "PROCESSING"
    /\ operation' = "PROCESSING"
    /\ asked' = n
    /\ UNCHANGED <<deleting, effect>>

Complete ==
    /\ operation = "PROCESSING" /\ ~deleting
    /\ operation' = "COMPLETED"
    /\ effect' = asked
    /\ UNCHANGED <<deleting, asked>>

Fail ==
    /\ operation = "PROCESSING" /\ ~deleting
    /\ operation' = "FAILED"
    /\ UNCHANGED <<deleting, asked, effect>>

\* Deleting takes the newest revision's status, and with it, if that was the one
\* in effect, the intent.
Delete ==
    /\ operation # "UNKNOWN"
    /\ operation' = "PROCESSING"
    /\ deleting' = TRUE
    /\ effect' \in {effect, 0}
    /\ UNCHANGED asked

Vanish == deleting /\ Nothing'

Next ==
    \/ \E n \in Replicas : Begin(n)
    \/ Complete \/ Fail
    \/ Delete \/ Vanish

Spec == Init /\ [][Next]_vars
=============================================================================
