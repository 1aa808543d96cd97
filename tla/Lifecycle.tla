------------------------------ MODULE Lifecycle ------------------------------
(***************************************************************************)
(* One release and the requests that work on it: POST and repair (deploy), *)
(* DELETE (teardown) and GET (reconcile), each of which runs several helm  *)
(* or kubectl processes with other requests, the cluster and people with   *)
(* kubectl in between.  Nothing in the orchestrator serialises requests.   *)
(*                                                                         *)
(* External, modelled from what the code and its drills rely on: helm's    *)
(* revision records, server-side apply and field ownership of              *)
(* spec.replicas, and the Deployment's pods.                               *)
(*                                                                         *)
(* Bounds: MaxRevisions revisions are recorded per installation, and the   *)
(* Deployment's pods come from PodNames.                                   *)
(***************************************************************************)
EXTENDS Reading

CONSTANTS
    Writers,        \* threads that serve POST /deployments and repair
    Deleters,       \* threads that serve DELETE
    Readers,        \* threads that serve GET
    Replicas,       \* replica counts an intent may ask for
    PodNames,       \* names for the release's pods
    MaxRevisions,   \* bound on helm's history
    BesideDelete,   \* threads whose requests may run beside a DELETE
    MayKill,        \* whether a helm process may be killed at its bound
    MayDrift        \* whether someone else may scale the Deployment

Threads == Writers \cup Deleters \cup Readers

ASSUME ReplicasAssumption == Replicas \subseteq Nat \ {0}
ASSUME MaxRevisionsAssumption == MaxRevisions \in Nat \ {0}
ASSUME RolesAssumption ==
    /\ Writers \cap Deleters = {}
    /\ Writers \cap Readers = {}
    /\ Deleters \cap Readers = {}
    /\ BesideDelete \subseteq Writers \cup Readers
ASSUME FlagsAssumption == MayKill \in BOOLEAN /\ MayDrift \in BOOLEAN

VARIABLES
    history,    \* helm's revisions of the release, <<>> when it has none
    applied,    \* the Deployment's spec.replicas, 0 when there is none
    manager,    \* the field manager that owns spec.replicas
    pods,       \* class of every pod name
    pc,         \* what each request is doing
    intent,     \* replicas a writer asks for
    route,      \* the route it serves: "deploy" (POST) or "repair"
    mine,       \* the revision a writer's helm recorded
    seen,       \* the history a reader got
    desired,    \* the replica count it got
    answer      \* the answer given last, under the thread it was given to

world    == <<history, applied, manager, pods>>
requests == <<pc, intent, route, mine, seen, desired, answer>>
vars     == <<world, requests>>

Steps == {"idle", "recording", "applying", "marking",
          "checking", "uninstalling", "removing", "purging",
          "history", "values", "pods"}

Answers == States \cup
    {"none", "success", "conflict", "refused", "silent", "nothing", "torn down"}

NoAnswer == [t \in Threads |-> "none"]

Init ==
    /\ history = <<>>
    /\ applied = 0
    /\ manager = "helm"
    /\ pods = [n \in PodNames |-> "absent"]
    /\ pc = [t \in Threads |-> "idle"]
    /\ intent = [t \in Writers |-> 0]
    /\ route = [t \in Writers |-> "deploy"]
    /\ mine = [t \in Writers |-> 0]
    /\ seen = [t \in Readers |-> <<>>]
    /\ desired = [t \in Readers |-> 0]
    /\ answer = NoAnswer

-----------------------------------------------------------------------------
(* Steps shared by the actions.                                            *)

Goto(t, step) == pc' = [pc EXCEPT ![t] = step]

Answer(t, a) ==
    /\ Goto(t, "idle")
    /\ answer' = [NoAnswer EXCEPT ![t] = a]

\* Nothing in the orchestrator keeps requests apart, but a client may: a thread
\* outside BesideDelete serves no request while the release is being deleted.
MayStart(t) == t \in BesideDelete \/ \A d \in Deleters : pc[d] = "idle"

Newest == Len(history)

Pending == {"pending-install", "pending-upgrade", "pending-rollback"}

\* helm refuses to start an operation on a release that has one under way, or
\* that is half uninstalled.
HelmIsBusy ==
    Newest > 0 /\ history[Newest].status \in Pending \cup {"uninstalling"}

KeepHistory(h, r, status) == [h EXCEPT ![r].status = "uninstalled"]
SetStatus(h, r, status)   == [h EXCEPT ![r].status = status]

\* A helm process writes its revision's record back whole, if there still is
\* one under that number: whose it is by now, helm does not ask.
Recorded(t) == mine[t] <= Newest

Failed(t) ==
    IF Recorded(t)
    THEN [history EXCEPT ![mine[t]] = [status |-> "failed", replicas |-> intent[t]]]
    ELSE history

\* A request's locals end with it.
EndDeploy(t, a) ==
    /\ Answer(t, a)
    /\ intent' = [intent EXCEPT ![t] = 0]
    /\ route' = [route EXCEPT ![t] = "deploy"]
    /\ mine' = [mine EXCEPT ![t] = 0]
    /\ UNCHANGED <<seen, desired>>

EndDelete(t, a) ==
    /\ Answer(t, a)
    /\ UNCHANGED <<intent, route, mine, seen, desired>>

EndGet(t, a) ==
    /\ Answer(t, a)
    /\ seen' = [seen EXCEPT ![t] = <<>>]
    /\ desired' = [desired EXCEPT ![t] = 0]
    /\ UNCHANGED <<intent, route, mine>>

-----------------------------------------------------------------------------
(* deploy: one `helm upgrade --install`.                                   *)

\* POST /deployments never sets force_conflicts; repair always does.
Always(t) == TRUE
Forces(t) == route[t] = "repair"

Submit(t, n, r) ==
    /\ pc[t] = "idle"
    /\ MayStart(t)
    /\ Goto(t, "recording")
    /\ intent' = [intent EXCEPT ![t] = n]
    /\ route' = [route EXCEPT ![t] = r]
    /\ answer' = NoAnswer
    /\ UNCHANGED <<world, mine, seen, desired>>

Record(t) ==
    /\ pc[t] = "recording"
    /\ ~HelmIsBusy
    /\ Newest < MaxRevisions
    /\ history' = Append(history,
          [status   |-> IF history = <<>> THEN "pending-install" ELSE "pending-upgrade",
           replicas |-> intent[t]])
    /\ mine' = [mine EXCEPT ![t] = Newest + 1]
    /\ Goto(t, "applying")
    /\ UNCHANGED <<applied, manager, pods, intent, route, seen, desired, answer>>

\* helm says no before it records anything, or require_tools did.
RefuseToRecord(t) ==
    /\ pc[t] = "recording"
    /\ EndDeploy(t, "refused")
    /\ UNCHANGED world

\* Server-side apply refuses a field that another manager owns and this apply
\* would change.
Contested(t) ==
    /\ applied > 0
    /\ manager = "other"
    /\ applied # intent[t]
    /\ ~Forces(t)

Conflict(t) ==
    /\ pc[t] = "applying"
    /\ Contested(t)
    /\ history' = Failed(t)
    /\ EndDeploy(t, "conflict")
    /\ UNCHANGED <<applied, manager, pods>>

Apply(t) ==
    /\ pc[t] = "applying"
    /\ ~Contested(t)
    /\ applied' = intent[t]
    /\ manager' = IF Forces(t) \/ applied = 0 THEN "helm" ELSE manager
    /\ Goto(t, "marking")
    /\ UNCHANGED <<history, pods, intent, route, mine, seen, desired, answer>>

\* The cluster rejects the manifest: nothing of it is applied.
Reject(t) ==
    /\ pc[t] = "applying"
    /\ history' = Failed(t)
    /\ EndDeploy(t, "refused")
    /\ UNCHANGED <<applied, manager, pods>>

Superseding(revision) ==
    IF revision.status = "deployed" THEN [revision EXCEPT !.status = "superseded"]
    ELSE revision

Mark(t) ==
    /\ pc[t] = "marking"
    /\ Recorded(t)
    /\ history' = [r \in DOMAIN history |->
          IF r = mine[t] THEN [status |-> "deployed", replicas |-> intent[t]]
          ELSE Superseding(history[r])]
    /\ EndDeploy(t, "success")
    /\ UNCHANGED <<applied, manager, pods>>

\* The release was uninstalled under the upgrade: there is nothing to mark.
LoseRecord(t) ==
    /\ pc[t] = "marking"
    /\ ~Recorded(t)
    /\ EndDeploy(t, "refused")
    /\ UNCHANGED world

-----------------------------------------------------------------------------
(* teardown: `helm status`, then `helm uninstall`.                         *)

Delete(t) ==
    /\ pc[t] = "idle"
    /\ \A u \in (Writers \cup Readers) \ BesideDelete : pc[u] = "idle"
    /\ Goto(t, "checking")
    /\ answer' = NoAnswer
    /\ UNCHANGED <<world, intent, route, mine, seen, desired>>

NoRelease == history = <<>>

CheckRelease(t) ==
    /\ pc[t] = "checking"
    /\ IF NoRelease THEN EndDelete(t, "nothing")
       ELSE /\ Goto(t, "uninstalling")
            /\ UNCHANGED <<intent, route, mine, seen, desired, answer>>
    /\ UNCHANGED world

StartUninstall(t) ==
    /\ pc[t] = "uninstalling"
    /\ history # <<>>
    /\ history' = SetStatus(history, Newest, "uninstalling")
    /\ Goto(t, "removing")
    /\ UNCHANGED <<applied, manager, pods, intent, route, mine, seen, desired, answer>>

Remove(t) ==
    /\ pc[t] = "removing"
    /\ applied' = 0
    /\ manager' = "helm"
    /\ Goto(t, "purging")
    /\ UNCHANGED <<history, pods, intent, route, mine, seen, desired, answer>>

Purge(t) ==
    /\ pc[t] = "purging"
    /\ history # <<>>
    /\ history' = <<>>
    /\ EndDelete(t, "torn down")
    /\ UNCHANGED <<applied, manager, pods>>

\* `release: not found` from uninstall is an error like any other: 502.
UninstallNothing(t) ==
    /\ pc[t] \in {"uninstalling", "purging"}
    /\ history = <<>>
    /\ EndDelete(t, "refused")
    /\ UNCHANGED world

-----------------------------------------------------------------------------
(* reconcile: history, then the deployed revision's values, then the pods.  *)

Get(t) ==
    /\ pc[t] = "idle"
    /\ MayStart(t)
    /\ Goto(t, "history")
    /\ answer' = NoAnswer
    /\ UNCHANGED <<world, intent, route, mine, seen, desired>>

ReadHistory(t) ==
    /\ pc[t] = "history"
    /\ IF history = <<>> THEN EndGet(t, "NOT_INSTANTIATED")
       ELSE /\ seen' = [seen EXCEPT ![t] = history]
            /\ desired' = [desired EXCEPT ![t] = 0]
            /\ Goto(t, IF DeployedRevision(history) = 0 THEN "pods" ELSE "values")
            /\ UNCHANGED <<intent, route, mine, answer>>
    /\ UNCHANGED world

LatestValues(t)  == Newest
ValuesToRead(t)  == DeployedRevision(seen[t])

ReadValues(t) ==
    /\ pc[t] = "values"
    /\ ValuesToRead(t) \in DOMAIN history
    /\ desired' = [desired EXCEPT ![t] = history[ValuesToRead(t)].replicas]
    /\ Goto(t, "pods")
    /\ UNCHANGED <<world, intent, route, mine, seen, answer>>

\* `get values` of a revision that is gone: not ClusterUnreachable, so 502.
ValuesGone(t) ==
    /\ pc[t] = "values"
    /\ ValuesToRead(t) \notin DOMAIN history
    /\ EndGet(t, "refused")
    /\ UNCHANGED world

ReadPods(t) ==
    /\ pc[t] = "pods"
    /\ EndGet(t, DeriveState(pods, desired[t], LastOperation(seen[t]),
                             DeployedRevision(seen[t]) # 0))
    /\ UNCHANGED world

-----------------------------------------------------------------------------
(* A process that says nothing is killed at its bound and its request is   *)
(* answered with an error (see Calls).  What a killed helm had done stays.  *)

StateOnSilence(step) == "NOT_INSTANTIATED"
OnSilence(step)      == "silent"

SilentRead(t) ==
    /\ pc[t] \in {"history", "values", "pods"}
    /\ EndGet(t, OnSilence(pc[t]))
    /\ UNCHANGED world

SilentCheck(t) ==
    /\ pc[t] = "checking"
    /\ EndDelete(t, OnSilence(pc[t]))
    /\ UNCHANGED world

KillUpgrade(t) ==
    /\ MayKill
    /\ pc[t] \in {"recording", "applying", "marking"}
    /\ EndDeploy(t, "silent")
    /\ UNCHANGED world

KillUninstall(t) ==
    /\ MayKill
    /\ pc[t] \in {"uninstalling", "removing", "purging"}
    /\ EndDelete(t, "silent")
    /\ UNCHANGED world

-----------------------------------------------------------------------------
(* The cluster, and people with kubectl.                                   *)

PodMoves == {<<"waiting", "ready">>, <<"ready", "waiting">>,
             <<"waiting", "broken">>, <<"broken", "waiting">>,
             <<"ready", "dead">>, <<"leaving", "absent">>, <<"dead", "absent">>}

\* The controller adds a pod, or takes one away; otherwise a pod just changes.
MovePod(n, to) ==
    /\ \/ <<pods[n], to>> \in PodMoves
       \/ pods[n] = "absent" /\ to = "waiting"
          /\ Cardinality(LivePods(pods)) < applied
       \/ n \in LivePods(pods) /\ to = "leaving"
          /\ Cardinality(LivePods(pods)) > applied
    /\ pods' = [pods EXCEPT ![n] = to]
    /\ UNCHANGED <<history, applied, manager, requests>>

\* `kubectl scale`, or an autoscaler.
Scale(n) ==
    /\ MayDrift
    /\ applied > 0
    /\ n # applied
    /\ applied' = n
    /\ manager' = "other"
    /\ UNCHANGED <<history, pods, requests>>

-----------------------------------------------------------------------------

Deploy(t) ==
    \/ \E n \in Replicas, r \in {"deploy", "repair"} : Submit(t, n, r)
    \/ Record(t) \/ RefuseToRecord(t)
    \/ Conflict(t) \/ Apply(t) \/ Reject(t) \/ LoseRecord(t)
    \/ Mark(t)
    \/ KillUpgrade(t)

Teardown(t) ==
    \/ Delete(t) \/ CheckRelease(t)
    \/ StartUninstall(t) \/ Remove(t) \/ Purge(t) \/ UninstallNothing(t)
    \/ SilentCheck(t) \/ KillUninstall(t)

Reconcile(t) ==
    \/ Get(t) \/ ReadHistory(t) \/ ReadValues(t) \/ ValuesGone(t) \/ ReadPods(t)
    \/ SilentRead(t)

Next ==
    \/ \E t \in Writers : Deploy(t)
    \/ \E t \in Deleters : Teardown(t)
    \/ \E t \in Readers : Reconcile(t)
    \/ \E n \in PodNames, to \in PodClasses : MovePod(n, to)
    \/ \E n \in Replicas : Scale(n)

Spec == Init /\ [][Next]_vars

-----------------------------------------------------------------------------
(* Properties.                                                             *)

Revision == [status : Statuses, replicas : Replicas]

\* Every variable keeps its shape; in particular nothing ever writes a revision
\* status the reconciler is not told apart by.
TypeOK ==
    /\ history \in Seq(Revision) /\ Newest <= MaxRevisions
    /\ applied \in Replicas \cup {0}
    /\ manager \in {"helm", "other"}
    /\ pods \in [PodNames -> PodClasses]
    /\ pc \in [Threads -> Steps]
    /\ intent \in [Writers -> Replicas \cup {0}]
    /\ route \in [Writers -> {"deploy", "repair"}]
    /\ mine \in [Writers -> 0..MaxRevisions]
    /\ seen \in [Readers -> Seq(Revision)]
    /\ desired \in [Readers -> Replicas \cup {0}]
    /\ answer \in [Threads -> Answers]

Quiet == \A t \in Writers \cup Deleters : pc[t] = "idle"

\* `desired_replicas` is "from the last revision actually in effect, not the
\* last one submitted" (api.md:64): with no request under way and no one else
\* owning the field, it is what the Deployment is held to.
DesiredIsInEffect ==
    Quiet /\ manager = "helm" => DesiredReplicas(history) = applied

\* That holds though helm processes are killed anywhere, as long as the last
\* operation does not read PROCESSING: a release that a killed helm left in an
\* unknown condition says so, and stays so until it is deleted.
SettledIntentIsInEffect ==
    manager = "helm" /\ LastOperation(history) # "PROCESSING"
    => DesiredReplicas(history) = applied

\* What someone else set stays set, through any number of deploys that share it,
\* meet it or are killed over it, until a repair overrides it, the release is
\* uninstalled, or it is set anew: POST never undoes it (ADR-0008).
DriftSurvivesDeploys ==
    [][manager = "other" /\ (applied' # applied \/ manager' # manager)
       => \/ \E t \in Writers : Apply(t) /\ route[t] = "repair"
          \/ \E t \in Deleters : Remove(t)
          \/ \E n \in Replicas : Scale(n)]_vars

\* A failed operation is not a failed NF (ADR-0009): once something was
\* deployed, a deploy that starts, is refused, rejected or meets a conflict
\* leaves the reported state where it was.
FailedOperationChangesNoState ==
    [][\A t \in Writers :
          /\ Record(t) \/ RefuseToRecord(t) \/ Conflict(t) \/ Reject(t)
          /\ DeployedRevision(history) # 0
          => StateAt(history, pods)' = StateAt(history, pods)]_vars

\* "NOT_INSTANTIATED means exactly one thing: no release exists"
\* (lifecycle-states.md:75), for GET as for both answers of DELETE; silence is
\* never reported as an absence (drill 2).
NotInstantiatedMeansAbsent ==
    [][\A t \in Threads :
          pc[t] # "idle" /\ pc'[t] = "idle" =>
             /\ answer'[t] \in {"NOT_INSTANTIATED", "nothing"} => history = <<>>
             /\ answer'[t] = "torn down" => history' = <<>>]_vars

\* A GET reads history, values and pods by three processes, and deploys go on
\* between them: it still never mixes two intents, but judges the pods it ends
\* with by the history it began with (and so is right when that did not change).
AnswersFollowOneHistory ==
    [][\A t \in Readers \ BesideDelete :
          ReadPods(t) => answer'[t] = StateAt(seen[t], pods)]_vars

\* DELETE is "Idempotent" (api.md:72): nothing to uninstall is no error.
DeleteIsIdempotent == \A t \in Deleters : answer[t] # "refused"

\* The two axes of the release: what GET says of its last operation, and the
\* intent it holds the network function to.
Asked    == IF history = <<>> THEN 0 ELSE history[Newest].replicas
Deleting == history # <<>> /\ history[Newest].status = "uninstalling"

Axes ==
    INSTANCE TwoAxes WITH
        operation <- LastOperation(history),
        deleting  <- Deleting,
        asked     <- Asked,
        effect    <- DesiredReplicas(history)

\* Operations on a release follow one another as TwoAxes says, whoever runs
\* them: only one that completes changes the intent in effect.
ImplementsTwoAxes == Axes!Spec
=============================================================================
