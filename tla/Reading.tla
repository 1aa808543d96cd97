------------------------------ MODULE Reading ------------------------------
(***************************************************************************)
(* What reconciler.py reads off a release's history and its pods.          *)
(*                                                                         *)
(* A history is a sequence of revisions [status, replicas], oldest first,  *)
(* the revision number being the index.  A pod is one of the classes below, *)
(* each standing for every combination of phase, waiting reason, readiness *)
(* and deletionTimestamp that the code does not tell apart.                *)
(***************************************************************************)
EXTENDS Naturals, Sequences, FiniteSets

Statuses == {"deployed", "uninstalled", "superseded", "failed", "pending-install",
             "pending-upgrade", "pending-rollback", "uninstalling"}

States == {"NOT_INSTANTIATED", "INSTANTIATING", "INSTANTIATED", "FAILED"}

\* absent   no pod under this name;          leaving  deletionTimestamp is set
\* ready    live, every container ready;     waiting  live, not ready
\* broken   live, a reason in FAILED_POD_REASONS
\* dead     phase Succeeded or Failed
PodClasses == {"absent", "leaving", "ready", "waiting", "broken", "dead"}

Revisions(history, statuses) ==
    {r \in DOMAIN history : history[r].status \in statuses}

Latest(revisions) == CHOOSE r \in revisions : \A s \in revisions : s <= r

\* deployed_revision: the highest revision that reached `deployed`; 0 is None.
DeployedRevision(history) ==
    LET deployed == Revisions(history, {"deployed"})
    IN  IF deployed = {} THEN 0 ELSE Latest(deployed)

\* A table that names only how operations end.
OnlyEndings(status) ==
    CASE status \in {"deployed", "superseded", "uninstalled"} -> "COMPLETED"
      [] status = "failed" -> "FAILED"
      [] OTHER -> "UNKNOWN"

\* OPERATION_STATUS and last_operation.
OperationOf(status) ==
    CASE status \in {"deployed", "superseded", "uninstalled"} -> "COMPLETED"
      [] status = "failed" -> "FAILED"
      [] status \in {"pending-install", "pending-upgrade", "pending-rollback",
                     "uninstalling"} -> "PROCESSING"
      [] OTHER -> "UNKNOWN"

LastOperation(history) ==
    IF history = <<>> THEN "UNKNOWN" ELSE OperationOf(history[Len(history)].status)

PodsIn(pods, classes) == {n \in DOMAIN pods : pods[n] \in classes}

LivePods(pods) == PodsIn(pods, {"ready", "waiting", "broken"})

Satisfies(pods, desired) ==
    /\ desired > 0
    /\ Cardinality(LivePods(pods)) = desired
    /\ LivePods(pods) = PodsIn(pods, {"ready"})

\* derive_state for a release that exists, as the code asks its questions.
ExistingState(pods, desired, operation, everDeployed) ==
    IF PodsIn(pods, {"broken"}) # {} THEN "FAILED"
    ELSE IF Satisfies(pods, desired) THEN "INSTANTIATED"
    ELSE IF PodsIn(pods, {"dead"}) # {} THEN "FAILED"
    ELSE IF ~everDeployed /\ operation = "FAILED" THEN "FAILED"
    ELSE "INSTANTIATING"

\* The mapping ADR-0009 did away with: a failed release is a failed NF.
StateByStatus(pods, desired, operation, everDeployed) ==
    IF operation = "FAILED" THEN "FAILED"
    ELSE ExistingState(pods, desired, operation, everDeployed)

\* One axis for both: what is going on instead of what is there.
StateByOperation(pods, desired, operation, everDeployed) ==
    IF operation = "PROCESSING" THEN "PROCESSING"
    ELSE ExistingState(pods, desired, operation, everDeployed)

DeriveState(pods, desired, operation, everDeployed) ==
    ExistingState(pods, desired, operation, everDeployed)

\* desired_replicas: the intent of the last deployed revision; 0 when none is.
DesiredReplicas(history) ==
    LET revision == DeployedRevision(history)
    IN  IF revision = 0 THEN 0 ELSE history[revision].replicas

\* reconcile, when everything it reads belongs to one instant.
StateAt(history, pods) ==
    IF history = <<>> THEN "NOT_INSTANTIATED"
    ELSE DeriveState(pods, DesiredReplicas(history), LastOperation(history),
                     DeployedRevision(history) # 0)
=============================================================================
