---------------------------- MODULE CallContract ----------------------------
(***************************************************************************)
(* What a caller of run_helm or run_kubectl may conclude from how its call *)
(* ended (ADR-0016, ADR-0017).  A call that went silent is called          *)
(* unreachable only when the cluster served none of us for longer than the *)
(* window, and busy only when it served one of us lately or when, inside   *)
(* the window, a failed command was mistaken for an answer: one that ended *)
(* as HostExhausted, HostMisconfigured or DeployError.  How the            *)
(* orchestrator finds out (probes, a cache, a lock, timestamps) is Calls,  *)
(* which implements this.                                                  *)
(***************************************************************************)
EXTENDS Naturals

CONSTANTS
    Callers,    \* the threads that make calls
    Window,     \* RECENT_SUCCESS: how long what was noted counts as evidence
    Lately,     \* how long service counts, cached answers included; at least Window
    Verdicts    \* everything a call can come to

VARIABLES
    phase,      \* what each caller's call is doing
    verdict,    \* what each caller's last call came to
    served,     \* time since the cluster served one of us; Lately + 1: longer
    noted       \* time since we last took something for an answer; Window + 1: longer

vars == <<phase, verdict, served, noted>>

Init ==
    /\ phase = [c \in Callers |-> "idle"]
    /\ verdict = [c \in Callers |-> "none"]
    /\ served = Lately + 1
    /\ noted = Window + 1

Serve   == served' = 0 /\ noted' = 0
Mistake == noted' = 0 /\ UNCHANGED served

Begin(c) ==
    /\ phase[c] = "idle"
    /\ phase' = [phase EXCEPT ![c] = "running"]
    /\ verdict' = [verdict EXCEPT ![c] = "none"]
    /\ UNCHANGED <<served, noted>>

\* The call ended in its own words, or could not begin: what is said of the
\* cluster's answer was said by the cluster, and what is said to be silence was not.
End(c, v) ==
    /\ phase[c] \in {"idle", "running"}
    /\ phase' = [phase EXCEPT ![c] = "idle"]
    /\ verdict' = [verdict EXCEPT ![c] = v]
    /\ \/ v \notin {"ok", "ClusterBusy", "ClusterConflict"} /\ UNCHANGED <<served, noted>>
       \/ v # "ClusterUnreachable" /\ Serve
       \/ v \in {"HostExhausted", "HostMisconfigured", "DeployError"} /\ Mistake

GoSilent(c) ==
    /\ phase[c] = "running"
    /\ phase' = [phase EXCEPT ![c] = "silent"]
    /\ UNCHANGED <<verdict, served, noted>>

\* A silent call is judged by what was heard from the cluster.
Judge(c, v) ==
    /\ phase[c] = "silent"
    /\ phase' = [phase EXCEPT ![c] = "idle"]
    /\ verdict' = [verdict EXCEPT ![c] = v]
    /\ v = "ClusterUnreachable" => served > Window
    /\ v = "ClusterBusy" => served <= Lately \/ noted <= Window
    /\ v \notin {"ok", "ClusterConflict", "DeployError"}
    /\ UNCHANGED <<served, noted>>

\* The cluster served a probe, of whichever thread.
Hear == Serve /\ UNCHANGED <<phase, verdict>>

Older(age, limit) == IF age > limit THEN age ELSE age + 1
TimePasses ==
    /\ served' = Older(served, Lately)
    /\ noted' = Older(noted, Window)
    /\ UNCHANGED <<phase, verdict>>

Next ==
    \/ \E c \in Callers :
          \/ Begin(c)
          \/ GoSilent(c)
          \/ \E v \in Verdicts : End(c, v) \/ Judge(c, v)
    \/ Hear
    \/ TimePasses

Spec == Init /\ [][Next]_vars
=============================================================================
