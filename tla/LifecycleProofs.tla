--------------------------- MODULE LifecycleProofs ---------------------------
(***************************************************************************)
(* Theorems about Lifecycle, for every set of requests, replica counts and *)
(* pods, and every bound on the history.                                   *)
(***************************************************************************)
EXTENDS Lifecycle, SequenceTheorems, TLAPS

-----------------------------------------------------------------------------
(* Type correctness.  A writer that has been submitted asks for replicas.   *)

IntentGiven ==
    \A t \in Writers :
        pc[t] \in {"recording", "applying", "marking"} => intent[t] \in Replicas

WellFormed == TypeOK /\ IntentGiven

\* A request that is answered leaves the requests well formed, and the others'
\* alone.
LEMMA AnswerType ==
    ASSUME TypeOK, NEW t \in Threads, NEW a \in Answers, Answer(t, a)
    PROVE  /\ pc' \in [Threads -> Steps]
           /\ answer' \in [Threads -> Answers]
           /\ pc' = [pc EXCEPT ![t] = "idle"]
<1>1. NoAnswer \in [Threads -> Answers]
  BY DEF NoAnswer, Answers
<1>2. QED
  BY <1>1 DEF TypeOK, Answer, Goto, Steps

LEMMA EndDeployType ==
    ASSUME TypeOK, NEW t \in Writers, NEW a \in Answers, EndDeploy(t, a)
    PROVE  /\ pc' \in [Threads -> Steps]
           /\ answer' \in [Threads -> Answers]
           /\ pc' = [pc EXCEPT ![t] = "idle"]
           /\ intent' \in [Writers -> Replicas \cup {0}]
           /\ route' \in [Writers -> {"deploy", "repair"}]
           /\ mine' \in [Writers -> 0..MaxRevisions]
           /\ UNCHANGED <<seen, desired>>
           /\ \A u \in Writers \ {t} : /\ pc'[u] = pc[u]
                                     /\ intent'[u] = intent[u]
                                     /\ mine'[u] = mine[u]
           /\ pc'[t] = "idle"
<1>1. t \in Threads
  BY DEF Threads
<1>2. 0 \in 0..MaxRevisions
  BY MaxRevisionsAssumption
<1>3. Answer(t, a)
  BY DEF EndDeploy
<1>4. QED
  BY <1>1, <1>2, <1>3, AnswerType DEF EndDeploy, TypeOK, Threads

LEMMA EndDeleteType ==
    ASSUME TypeOK, NEW t \in Deleters, NEW a \in Answers, EndDelete(t, a)
    PROVE  /\ pc' \in [Threads -> Steps]
           /\ answer' \in [Threads -> Answers]
           /\ pc' = [pc EXCEPT ![t] = "idle"]
           /\ UNCHANGED <<intent, route, mine, seen, desired>>
BY AnswerType DEF EndDelete, Threads

LEMMA EndGetType ==
    ASSUME TypeOK, NEW t \in Readers, NEW a \in Answers, EndGet(t, a)
    PROVE  /\ pc' \in [Threads -> Steps]
           /\ answer' \in [Threads -> Answers]
           /\ pc' = [pc EXCEPT ![t] = "idle"]
           /\ UNCHANGED <<intent, route, mine>>
           /\ seen' \in [Readers -> Seq(Revision)]
           /\ desired' \in [Readers -> Replicas \cup {0}]
           /\ \A u \in Readers \ {t} : seen'[u] = seen[u] /\ desired'[u] = desired[u]
<1>1. Answer(t, a) /\ t \in Threads
  BY DEF EndGet, Threads
<1>2. <<>> \in Seq(Revision)
  BY EmptySeq
<1>3. QED
  BY <1>1, <1>2, AnswerType DEF EndGet, TypeOK

\* derive_state answers one of the four states.
LEMMA StateType ==
    ASSUME NEW p, NEW d, NEW o, NEW e PROVE DeriveState(p, d, o, e) \in States
BY DEF DeriveState, ExistingState, States

\* The history stays a history when helm records a failure,
LEMMA FailedType ==
    ASSUME TypeOK, NEW t \in Writers, intent[t] \in Replicas
    PROVE  Failed(t) \in Seq(Revision) /\ Len(Failed(t)) = Len(history)
<1> DEFINE e == [status |-> "failed", replicas |-> intent[t]]
<1>1. e \in Revision
  BY DEF Revision, Statuses
<1>2. history \in Seq(Revision) /\ Len(history) \in Nat /\ mine[t] \in 0..MaxRevisions
  BY LenProperties DEF TypeOK
<1>3. CASE mine[t] \in 1..Len(history)
  <2>1. /\ [history EXCEPT ![mine[t]] = e] \in Seq(Revision)
        /\ Len([history EXCEPT ![mine[t]] = e]) = Len(history)
    BY <1>1, <1>2, <1>3, ExceptSeq
  <2>2. QED
    BY <1>2, <2>1 DEF Failed
<1>4. CASE mine[t] = 0
  <2>1. DOMAIN history = 1..Len(history) /\ history \in [1..Len(history) -> Revision]
    BY <1>2, LenProperties
  <2>2. [history EXCEPT ![mine[t]] = e] = history
    BY <1>4, <2>1
  <2>3. QED
    BY <1>2, <2>2 DEF Failed
<1>5. CASE mine[t] > Len(history)
  BY <1>2, <1>5, MaxRevisionsAssumption DEF Failed, Recorded, Newest
<1>6. QED
  BY <1>2, <1>3, <1>4, <1>5, MaxRevisionsAssumption

\* and when it marks its revision deployed.
LEMMA MarkedType ==
    ASSUME TypeOK, NEW t \in Writers, intent[t] \in Replicas,
           NEW marked,
           marked = [r \in DOMAIN history |->
               IF r = mine[t] THEN [status |-> "deployed", replicas |-> intent[t]]
               ELSE Superseding(history[r])]
    PROVE  marked \in Seq(Revision) /\ Len(marked) = Len(history)
<1>1. /\ history \in Seq(Revision) /\ Len(history) \in Nat
      /\ DOMAIN history = 1..Len(history)
      /\ \A r \in 1..Len(history) : history[r] \in Revision
  BY LenProperties DEF TypeOK
<1>2. \A r \in 1..Len(history) : Superseding(history[r]) \in Revision
  BY <1>1 DEF Superseding, Revision, Statuses
<1>3. marked \in [1..Len(history) -> Revision]
  BY <1>1, <1>2 DEF Revision, Statuses
<1>4. marked \in Seq(Revision)
  BY <1>1, <1>3, SeqDef
<1>5. QED
  BY <1>1, <1>3, <1>4, LenProperties

\* The initial states are well formed.
LEMMA WellFormedInit == Init => WellFormed
<1> SUFFICES ASSUME Init PROVE WellFormed
  OBVIOUS
<1>1. history \in Seq(Revision) /\ Newest <= MaxRevisions
  <2>1. <<>> \in Seq(Revision) /\ Len(<<>>) = 0
    BY EmptySeq
  <2>2. 0 <= MaxRevisions
    BY MaxRevisionsAssumption
  <2>3. QED
    BY <2>1, <2>2 DEF Init, Newest
<1>2. seen \in [Readers -> Seq(Revision)]
  BY EmptySeq DEF Init
<1>3. QED
  BY <1>1, <1>2, MaxRevisionsAssumption
     DEF Init, WellFormed, TypeOK, IntentGiven, PodClasses, Steps, Answers, Threads, NoAnswer

\* The step of one writer's helm process.
LEMMA DeployType ==
    ASSUME WellFormed, NEW t \in Writers, Deploy(t) PROVE WellFormed'
<1> USE DEF WellFormed
<1>0. /\ t \in Threads /\ Writers \subseteq Threads
      /\ history \in Seq(Revision) /\ Newest \in Nat /\ Newest <= MaxRevisions
      /\ pc \in [Threads -> Steps] /\ answer \in [Threads -> Answers]
      /\ intent \in [Writers -> Replicas \cup {0}]
  BY LenProperties DEF Threads, TypeOK, Newest
<1>1. ASSUME NEW n \in Replicas, NEW r \in {"deploy", "repair"}, Submit(t, n, r)
      PROVE WellFormed'
  BY <1>0, <1>1 DEF Submit, Goto, world, TypeOK, IntentGiven, Steps, Answers, NoAnswer, Newest
<1>2. CASE Record(t)
  <2> DEFINE e == [status   |-> IF history = <<>> THEN "pending-install" ELSE "pending-upgrade",
                   replicas |-> intent[t]]
  <2>1. e \in Revision
    BY <1>2 DEF Record, IntentGiven, Revision, Statuses
  <2>2. Append(history, e) \in Seq(Revision) /\ Len(Append(history, e)) = Newest + 1
    BY <1>0, <2>1 DEF Newest
  <2>3. QED
    BY <1>0, <1>2, <2>2, MaxRevisionsAssumption
       DEF Record, Goto, TypeOK, IntentGiven, Steps, Newest
<1>3. CASE RefuseToRecord(t)
  BY <1>0, <1>3, EndDeployType
     DEF RefuseToRecord, world, TypeOK, IntentGiven, Answers, Newest
<1>4. CASE Conflict(t)
  BY <1>0, <1>4, EndDeployType, FailedType
     DEF Conflict, TypeOK, IntentGiven, Answers, Newest
<1>5. CASE Apply(t)
  BY <1>0, <1>5 DEF Apply, Goto, TypeOK, IntentGiven, Steps, Newest
<1>6. CASE Reject(t)
  BY <1>0, <1>6, EndDeployType, FailedType
     DEF Reject, TypeOK, IntentGiven, Answers, Newest
<1>7. CASE Mark(t)
  <2>1. history' \in Seq(Revision) /\ Len(history') = Len(history)
    BY <1>0, <1>7, MarkedType DEF Mark, IntentGiven
  <2>2. QED
    BY <1>0, <1>7, <2>1, EndDeployType DEF Mark, TypeOK, IntentGiven, Answers, Newest
<1>8. CASE LoseRecord(t)
  BY <1>0, <1>8, EndDeployType
     DEF LoseRecord, world, TypeOK, IntentGiven, Answers, Newest
<1>9. CASE KillUpgrade(t)
  BY <1>0, <1>9, EndDeployType
     DEF KillUpgrade, world, TypeOK, IntentGiven, Answers, Newest
<1>10. QED
  BY <1>1, <1>2, <1>3, <1>4, <1>5, <1>6, <1>7, <1>8, <1>9 DEF Deploy

\* The step of a DELETE.
LEMMA TeardownType ==
    ASSUME WellFormed, NEW t \in Deleters, Teardown(t) PROVE WellFormed'
<1> USE DEF WellFormed
<1>0. /\ t \in Threads /\ Writers \subseteq Threads
      /\ history \in Seq(Revision) /\ Newest \in Nat /\ Newest <= MaxRevisions
      /\ pc \in [Threads -> Steps] /\ answer \in [Threads -> Answers]
  BY LenProperties DEF Threads, TypeOK, Newest
<1>1. CASE Delete(t)
  BY <1>0, <1>1 DEF Delete, Goto, world, TypeOK, IntentGiven, Steps, Answers, NoAnswer, Newest
<1>2. CASE CheckRelease(t)
  <2>1. CASE NoRelease
    BY <1>0, <1>2, <2>1, EndDeleteType
       DEF CheckRelease, world, TypeOK, IntentGiven, Answers, Newest
  <2>2. CASE ~NoRelease
    BY <1>0, <1>2, <2>2 DEF CheckRelease, Goto, world, TypeOK, IntentGiven, Steps, Newest
  <2>3. QED
    BY <2>1, <2>2
<1>3. CASE StartUninstall(t)
  <2> DEFINE e == [history[Newest] EXCEPT !.status = "uninstalling"]
  <2>1. Newest \in 1..Len(history) /\ history[Newest] \in Revision
    BY <1>0, <1>3, EmptySeq, LenProperties DEF StartUninstall, Newest
  <2>2. e \in Revision
    BY <2>1 DEF Revision, Statuses
  <2>3. history' = [history EXCEPT ![Newest] = e]
    BY <1>3 DEF StartUninstall, SetStatus
  <2>4. history' \in Seq(Revision) /\ Len(history') = Len(history)
    BY <1>0, <2>1, <2>2, <2>3, ExceptSeq
  <2>5. QED
    BY <1>0, <1>3, <2>4 DEF StartUninstall, Goto, TypeOK, IntentGiven, Steps, Newest
<1>4. CASE Remove(t)
  BY <1>0, <1>4 DEF Remove, Goto, TypeOK, IntentGiven, Steps, Newest
<1>5. CASE Purge(t)
  <2>1. history' \in Seq(Revision) /\ Len(history') <= MaxRevisions
    <3>1. <<>> \in Seq(Revision) /\ Len(<<>>) = 0
      BY EmptySeq
    <3>2. history' = <<>>
      BY <1>5 DEF Purge
    <3>3. 0 <= MaxRevisions
      BY MaxRevisionsAssumption
    <3>4. QED
      BY <3>1, <3>2, <3>3
  <2>2. QED
    BY <1>0, <1>5, <2>1, EndDeleteType DEF Purge, TypeOK, IntentGiven, Answers, Newest
<1>6. CASE UninstallNothing(t)
  BY <1>0, <1>6, EndDeleteType
     DEF UninstallNothing, world, TypeOK, IntentGiven, Answers, Newest
<1>7. CASE SilentCheck(t)
  BY <1>0, <1>7, EndDeleteType
     DEF SilentCheck, OnSilence, world, TypeOK, IntentGiven, Answers, Newest
<1>8. CASE KillUninstall(t)
  BY <1>0, <1>8, EndDeleteType
     DEF KillUninstall, world, TypeOK, IntentGiven, Answers, Newest
<1>9. QED
  BY <1>1, <1>2, <1>3, <1>4, <1>5, <1>6, <1>7, <1>8 DEF Teardown

\* The step of a GET.
LEMMA ReconcileType ==
    ASSUME WellFormed, NEW t \in Readers, Reconcile(t) PROVE WellFormed'
<1> USE DEF WellFormed
<1>0. /\ t \in Threads /\ Writers \subseteq Threads
      /\ history \in Seq(Revision) /\ Newest \in Nat /\ Newest <= MaxRevisions
      /\ pc \in [Threads -> Steps] /\ answer \in [Threads -> Answers]
  BY LenProperties DEF Threads, TypeOK, Newest
<1>1. CASE Get(t)
  BY <1>0, <1>1 DEF Get, Goto, world, TypeOK, IntentGiven, Steps, Answers, NoAnswer, Newest
<1>2. CASE ReadHistory(t)
  <2>1. CASE history = <<>>
    BY <1>0, <1>2, <2>1, EndGetType
       DEF ReadHistory, world, TypeOK, IntentGiven, Answers, States, Newest
  <2>2. CASE history # <<>>
    BY <1>0, <1>2, <2>2 DEF ReadHistory, Goto, world, TypeOK, IntentGiven, Steps, Newest
  <2>3. QED
    BY <2>1, <2>2
<1>3. CASE ReadValues(t)
  <2>1. history[ValuesToRead(t)] \in Revision
    BY <1>0, <1>3, LenProperties DEF ReadValues
  <2>2. history[ValuesToRead(t)].replicas \in Replicas
    BY <2>1 DEF Revision
  <2>3. QED
    BY <1>0, <1>3, <2>2 DEF ReadValues, Goto, world, TypeOK, IntentGiven, Steps, Newest
<1>4. CASE ValuesGone(t)
  BY <1>0, <1>4, EndGetType DEF ValuesGone, world, TypeOK, IntentGiven, Answers, Newest
<1>5. CASE ReadPods(t)
  BY <1>0, <1>5, EndGetType, StateType
     DEF ReadPods, world, TypeOK, IntentGiven, Answers, Newest
<1>6. CASE SilentRead(t)
  BY <1>0, <1>6, EndGetType
     DEF SilentRead, OnSilence, world, TypeOK, IntentGiven, Answers, Newest
<1>7. QED
  BY <1>1, <1>2, <1>3, <1>4, <1>5, <1>6 DEF Reconcile

\* Every step keeps the state well formed.
LEMMA WellFormedStep == WellFormed /\ [Next]_vars => WellFormed'
<1> SUFFICES ASSUME WellFormed, [Next]_vars PROVE WellFormed'
  OBVIOUS
<1>1. ASSUME NEW n \in PodNames, NEW to \in PodClasses, MovePod(n, to)
      PROVE WellFormed'
  BY <1>1 DEF MovePod, requests, WellFormed, TypeOK, IntentGiven, Newest
<1>2. ASSUME NEW n \in Replicas, Scale(n) PROVE WellFormed'
  BY <1>2 DEF Scale, requests, WellFormed, TypeOK, IntentGiven, Newest
<1>3. CASE UNCHANGED vars
  BY <1>3 DEF vars, world, requests, WellFormed, TypeOK, IntentGiven, Newest
<1>4. QED
  BY <1>1, <1>2, <1>3, DeployType, TeardownType, ReconcileType DEF Next

\* Every reachable state is well formed, whatever is killed, deleted or scaled.
THEOREM LifecycleTypeCorrect == Spec => []TypeOK
<1>1. WellFormed => TypeOK
  BY DEF WellFormed
<1>2. QED
  BY <1>1, WellFormedInit, WellFormedStep, PTL DEF Spec

-----------------------------------------------------------------------------
(* Requests that are kept apart.  The orchestrator serialises nothing, so    *)
(* only its clients can keep a request away from a DELETE: those of threads  *)
(* outside BesideDelete do.                                                *)

Guarded == (Writers \cup Readers) \ BesideDelete

Apart == \A t \in Guarded, d \in Deleters : pc[t] = "idle" \/ pc[d] = "idle"

\* A request that takes a step changes its own place only, and may have to wait
\* before it starts.
LEMMA WriterSteps ==
    ASSUME NEW t \in Writers, Deploy(t)
    PROVE  /\ \E s \in Steps : pc' = [pc EXCEPT ![t] = s]
           /\ pc[t] = "idle" => MayStart(t)
<1>1. \E s \in Steps : pc' = [pc EXCEPT ![t] = s]
  BY DEF Deploy, Submit, Record, RefuseToRecord, Conflict, Apply, Reject, LoseRecord,
         Mark, KillUpgrade, EndDeploy, Answer, Goto, Steps
<1>2. pc[t] = "idle" => MayStart(t)
  BY DEF Deploy, Submit, Record, RefuseToRecord, Conflict, Apply, Reject, LoseRecord,
         Mark, KillUpgrade
<1>3. QED
  BY <1>1, <1>2

LEMMA ReaderSteps ==
    ASSUME NEW t \in Readers, Reconcile(t)
    PROVE  /\ \E s \in Steps : pc' = [pc EXCEPT ![t] = s]
           /\ pc[t] = "idle" => MayStart(t)
           /\ UNCHANGED <<world, intent, route, mine>>
<1>1. \E s \in Steps : pc' = [pc EXCEPT ![t] = s]
  <2>1. CASE ReadHistory(t)
    BY <2>1 DEF ReadHistory, EndGet, Answer, Goto, Steps
  <2>2. CASE ~ReadHistory(t)
    BY <2>2 DEF Reconcile, Get, ReadValues, ValuesGone, ReadPods, SilentRead,
                EndGet, Answer, Goto, Steps
  <2>3. QED
    BY <2>1, <2>2
<1>2. pc[t] = "idle" => MayStart(t)
  BY DEF Reconcile, Get, ReadHistory, ReadValues, ValuesGone, ReadPods, SilentRead
<1>3. UNCHANGED <<world, intent, route, mine>>
  <2>1. CASE ReadHistory(t)
    BY <2>1 DEF ReadHistory, EndGet
  <2>2. CASE ~ReadHistory(t)
    BY <2>2 DEF Reconcile, Get, ReadValues, ValuesGone, ReadPods, SilentRead, EndGet
  <2>3. QED
    BY <2>1, <2>2
<1>4. QED
  BY <1>1, <1>2, <1>3

LEMMA DeleterSteps ==
    ASSUME NEW t \in Deleters, Teardown(t)
    PROVE  /\ \E s \in Steps : pc' = [pc EXCEPT ![t] = s]
           /\ pc[t] = "idle" => \A u \in Guarded : pc[u] = "idle"
           /\ UNCHANGED <<pods, intent, route, mine, seen, desired>>
<1>1. \E s \in Steps : pc' = [pc EXCEPT ![t] = s]
  <2>1. CASE CheckRelease(t)
    BY <2>1 DEF CheckRelease, EndDelete, Answer, Goto, Steps
  <2>2. CASE ~CheckRelease(t)
    BY <2>2 DEF Teardown, Delete, StartUninstall, Remove, Purge, UninstallNothing,
                SilentCheck, KillUninstall, EndDelete, Answer, Goto, Steps
  <2>3. QED
    BY <2>1, <2>2
<1>2. pc[t] = "idle" => \A u \in Guarded : pc[u] = "idle"
  BY DEF Teardown, Delete, CheckRelease, StartUninstall, Remove, Purge,
         UninstallNothing, SilentCheck, KillUninstall, Guarded
<1>3. UNCHANGED <<pods, intent, route, mine, seen, desired>>
  <2>1. CASE CheckRelease(t)
    BY <2>1 DEF CheckRelease, EndDelete, world
  <2>2. CASE ~CheckRelease(t)
    BY <2>2 DEF Teardown, Delete, StartUninstall, Remove, Purge, UninstallNothing,
                SilentCheck, KillUninstall, EndDelete, world
  <2>3. QED
    BY <2>1, <2>2
<1>4. QED
  BY <1>1, <1>2, <1>3

\* At the start every request is idle.
LEMMA ApartInit == Init => Apart
BY DEF Init, Apart, Guarded, Threads

\* Who waits for the other at the start stays apart from it.
LEMMA ApartStep ==
    ASSUME TypeOK, Apart, [Next]_vars PROVE Apart'
<1>0. /\ pc \in [Threads -> Steps] /\ Guarded \subseteq Threads
      /\ Deleters \subseteq Threads /\ Guarded \cap Deleters = {}
  BY RolesAssumption DEF TypeOK, Threads, Guarded
<1>1. ASSUME NEW t \in Threads, NEW s \in Steps, t \notin Deleters,
             pc' = [pc EXCEPT ![t] = s], pc[t] = "idle" => MayStart(t)
      PROVE  Apart'
  <2>1. t \in Guarded /\ pc[t] = "idle" => \A d \in Deleters : pc[d] = "idle"
    BY <1>1 DEF MayStart, Guarded
  <2>2. \A d \in Deleters : pc'[d] = pc[d]
    BY <1>0, <1>1
  <2>3. \A u \in Guarded : u # t => pc'[u] = pc[u]
    BY <1>0, <1>1
  <2>4. QED
    BY <2>1, <2>2, <2>3 DEF Apart
<1>2. ASSUME NEW t \in Deleters, Teardown(t) PROVE Apart'
  <2>1. \A u \in Guarded : pc[u] = "idle" \/ pc[t] # "idle"
    BY <1>2, DeleterSteps
  <2>2. \A u \in Guarded : pc[u] = "idle"
    BY <2>1 DEF Apart
  <2>3. \A u \in Guarded : pc'[u] = pc[u]
    BY <1>0, <1>2, DeleterSteps
  <2>4. QED
    BY <2>2, <2>3 DEF Apart
<1>3. ASSUME NEW t \in Writers, Deploy(t) PROVE Apart'
  <2>1. t \in Threads /\ t \notin Deleters
    BY RolesAssumption DEF Threads
  <2>2. QED
    BY <1>1, <1>3, <2>1, WriterSteps
<1>4. ASSUME NEW t \in Readers, Reconcile(t) PROVE Apart'
  <2>1. t \in Threads /\ t \notin Deleters
    BY RolesAssumption DEF Threads
  <2>2. QED
    BY <1>1, <1>4, <2>1, ReaderSteps
<1>5. CASE UNCHANGED pc
  BY <1>5 DEF Apart
<1>6. QED
  BY <1>2, <1>3, <1>4, <1>5 DEF Next, MovePod, Scale, vars, requests

\* While a DELETE is served, or at its start, no request kept apart from it is.
LEMMA DeletesAreAlone ==
    ASSUME Apart, NEW d \in Deleters, Teardown(d), NEW t \in Guarded
    PROVE  pc[t] = "idle"
BY DeleterSteps DEF Apart

-----------------------------------------------------------------------------
(* Releases whose deploys are kept apart from their DELETEs.  One helm       *)
(* process at a time works on them, their histories grow until they are     *)
(* deleted, and at most one revision is deployed: the last part is what     *)
(* makes "the last revision actually in effect" one revision, and the       *)
(* others are why a GET may read it in three steps.                        *)

Active(t) == pc[t] \in {"applying", "marking"}

\* The revision an active helm recorded is still the newest, still pending and
\* still its own.
Owned ==
    \A t \in Writers : Active(t) =>
        /\ mine[t] = Newest /\ Newest > 0
        /\ history[Newest].status \in Pending
        /\ history[Newest].replicas = intent[t]

OneActive == \A t, u \in Writers : Active(t) /\ Active(u) => t = u

OneDeployed(h) == \A r, s \in Revisions(h, {"deployed"}) : r = s

HistoryInv == Owned /\ OneActive /\ OneDeployed(history)

\* What a GET has read so far is still so: its history is a part of the history,
\* but for the statuses, and the count it read is the intent of that history.
Tracks ==
    \A t \in Readers \ BesideDelete : pc[t] \in {"values", "pods"} =>
        /\ seen[t] # <<>>
        /\ OneDeployed(seen[t])
        /\ \A r \in DOMAIN seen[t] :
              r \in DOMAIN history /\ history[r].replicas = seen[t][r].replicas
        /\ pc[t] = "values" => DeployedRevision(seen[t]) # 0
        /\ pc[t] = "pods" => desired[t] = DesiredReplicas(seen[t])

Deployed(h) == Revisions(h, {"deployed"})

\* With one deployed revision, deployed_revision names it.
LEMMA DeployedIsLatest ==
    ASSUME NEW h \in Seq(Revision), OneDeployed(h)
    PROVE  /\ DeployedRevision(h) \in Nat
           /\ \A r \in Deployed(h) : DeployedRevision(h) = r
           /\ DeployedRevision(h) # 0 => DeployedRevision(h) \in Deployed(h)
<1>0. DOMAIN h = 1..Len(h) /\ Len(h) \in Nat
  BY LenProperties
<1>1. CASE Deployed(h) = {}
  BY <1>1 DEF DeployedRevision, Deployed
<1>2. ASSUME NEW r \in Deployed(h)
      PROVE  DeployedRevision(h) = r /\ r \in Nat
  <2>1. r \in Nat
    BY <1>0, <1>2 DEF Deployed, Revisions
  <2>2. Deployed(h) = {r}
    BY <1>2 DEF OneDeployed, Deployed
  <2>3. Latest({r}) = r
    BY <2>1 DEF Latest
  <2>4. QED
    BY <1>2, <2>1, <2>2, <2>3 DEF DeployedRevision, Deployed
<1>3. QED
  BY <1>1, <1>2

\* A history that keeps its deployed revisions and their counts keeps its intent.
LEMMA SameIntent ==
    ASSUME NEW h \in Seq(Revision), NEW g \in Seq(Revision),
           OneDeployed(h), Deployed(g) = Deployed(h),
           \A r \in Deployed(h) : g[r].replicas = h[r].replicas
    PROVE  OneDeployed(g) /\ DesiredReplicas(g) = DesiredReplicas(h)
<1>1. OneDeployed(g)
  BY DEF OneDeployed, Deployed
<1>2. DeployedRevision(g) = DeployedRevision(h)
  BY DEF DeployedRevision, Deployed
<1>3. DeployedRevision(h) # 0 => g[DeployedRevision(h)].replicas = h[DeployedRevision(h)].replicas
  BY DeployedIsLatest
<1>4. QED
  BY <1>1, <1>2, <1>3 DEF DesiredReplicas

\* What each kind of write leaves of the history before it.
KeepsCounts(h, g) ==
    \A r \in DOMAIN h : r \in DOMAIN g /\ g[r].replicas = h[r].replicas

\* A revision that helm has just recorded is not in effect.
LEMMA RecordKeeps ==
    ASSUME NEW h \in Seq(Revision), NEW e \in Revision, e.status # "deployed"
    PROVE  /\ Append(h, e) \in Seq(Revision)
           /\ Len(Append(h, e)) = Len(h) + 1
           /\ Append(h, e)[Len(h) + 1] = e
           /\ KeepsCounts(h, Append(h, e))
           /\ Deployed(Append(h, e)) = Deployed(h)
<1>1. /\ Append(h, e) \in Seq(Revision)
      /\ Len(h) \in Nat /\ Len(Append(h, e)) = Len(h) + 1
      /\ Append(h, e)[Len(h) + 1] = e
      /\ \A r \in 1..Len(h) : Append(h, e)[r] = h[r]
  BY LenProperties
<1>2. DOMAIN h = 1..Len(h) /\ DOMAIN Append(h, e) = 1..(Len(h) + 1)
  BY <1>1, LenProperties
<1>3. QED
  BY <1>1, <1>2 DEF KeepsCounts, Deployed, Revisions

\* An active helm that fails leaves the intent in effect alone.
LEMMA FailureKeeps ==
    ASSUME WellFormed, HistoryInv, NEW t \in Writers, Active(t)
    PROVE  /\ Failed(t) \in Seq(Revision) /\ Len(Failed(t)) = Newest
           /\ KeepsCounts(history, Failed(t))
           /\ Deployed(Failed(t)) = Deployed(history)
<1> DEFINE e == [status |-> "failed", replicas |-> intent[t]]
<1>1. e \in Revision
  BY DEF WellFormed, IntentGiven, Active, Revision, Statuses
<1>2. /\ history \in Seq(Revision) /\ Newest \in Nat /\ Newest = Len(history)
      /\ DOMAIN history = 1..Newest
  BY LenProperties DEF WellFormed, TypeOK, Newest
<1>3. /\ mine[t] = Newest /\ Newest \in 1..Newest
      /\ history[Newest].status \in Pending
      /\ history[Newest].replicas = intent[t]
  BY <1>2 DEF HistoryInv, Owned
<1>4. Failed(t) = [history EXCEPT ![Newest] = e]
  BY <1>3 DEF Failed, Recorded
<1>5. /\ Failed(t) \in Seq(Revision) /\ Len(Failed(t)) = Newest
      /\ \A r \in 1..Newest : Failed(t)[r] = IF r = Newest THEN e ELSE history[r]
  BY <1>1, <1>2, <1>3, <1>4, ExceptSeq
<1>6. DOMAIN Failed(t) = 1..Newest
  BY <1>5, LenProperties
<1>7. QED
  BY <1>2, <1>3, <1>5, <1>6 DEF KeepsCounts, Deployed, Revisions, Pending

\* An active helm that succeeds makes its own revision the one in effect.
LEMMA MarkKeeps ==
    ASSUME WellFormed, HistoryInv, NEW t \in Writers, Active(t),
           NEW marked,
           marked = [r \in DOMAIN history |->
               IF r = mine[t] THEN [status |-> "deployed", replicas |-> intent[t]]
               ELSE Superseding(history[r])]
    PROVE  /\ marked \in Seq(Revision) /\ Len(marked) = Newest
           /\ KeepsCounts(history, marked)
           /\ Deployed(marked) = {mine[t]}
           /\ marked[mine[t]].replicas = intent[t]
<1>1. /\ history \in Seq(Revision) /\ Newest \in Nat /\ Newest = Len(history)
      /\ DOMAIN history = 1..Newest
      /\ \A r \in 1..Newest : history[r] \in Revision
  BY LenProperties DEF WellFormed, TypeOK, Newest
<1>2. /\ mine[t] = Newest /\ Newest \in 1..Newest
      /\ history[Newest].replicas = intent[t]
  BY <1>1 DEF HistoryInv, Owned
<1>3. marked \in Seq(Revision) /\ Len(marked) = Newest
  BY <1>1, MarkedType DEF WellFormed, IntentGiven, Active
<1>4. \A r \in 1..Newest : /\ Superseding(history[r]).status # "deployed"
                           /\ Superseding(history[r]).replicas = history[r].replicas
  BY <1>1 DEF Superseding, Revision
<1>5. \A r \in 1..Newest :
        marked[r] = IF r = mine[t] THEN [status |-> "deployed", replicas |-> intent[t]]
                    ELSE Superseding(history[r])
  BY <1>1
<1>6. DOMAIN marked = 1..Newest
  BY <1>1
<1>7. QED
  BY <1>1, <1>2, <1>3, <1>4, <1>5, <1>6 DEF KeepsCounts, Deployed, Revisions

\* At the start there is no history and no helm.
LEMMA HistoryInit == Init => HistoryInv
<1> SUFFICES ASSUME Init PROVE HistoryInv
  OBVIOUS
<1>1. DOMAIN history = {}
  BY EmptySeq, LenProperties DEF Init
<1>2. \A t \in Writers : ~Active(t)
  BY DEF Init, Active, Threads
<1>3. QED
  BY <1>1, <1>2 DEF HistoryInv, Owned, OneActive, OneDeployed, Revisions

\* A step that leaves the history alone and activates no helm.
LEMMA HistoryUntouched ==
    ASSUME HistoryInv, UNCHANGED history,
           \A t \in Writers : Active(t)' =>
               Active(t) /\ intent'[t] = intent[t] /\ mine'[t] = mine[t]
    PROVE  HistoryInv' /\ KeepsCounts(history, history')
<1>1. Owned'
  BY DEF HistoryInv, Owned, Newest
<1>2. OneActive'
  BY DEF HistoryInv, OneActive
<1>3. OneDeployed(history)' /\ KeepsCounts(history, history')
  BY DEF HistoryInv, OneDeployed, KeepsCounts
<1>4. QED
  BY <1>1, <1>2, <1>3 DEF HistoryInv

\* A step of the active helm that ends its work.
LEMMA HistoryEnded ==
    ASSUME WellFormed, HistoryInv, NEW t \in Writers, Active(t),
           pc' = [pc EXCEPT ![t] = "idle"], OneDeployed(history')
    PROVE  HistoryInv'
<1>1. \A u \in Writers : ~Active(u)'
  BY DEF WellFormed, TypeOK, HistoryInv, OneActive, Active, Threads
<1>2. QED
  BY <1>1 DEF HistoryInv, Owned, OneActive

\* Every step of a writer's helm keeps the history in hand.
LEMMA DeployHistory ==
    ASSUME WellFormed, HistoryInv, NEW t \in Writers, Deploy(t)
    PROVE  HistoryInv' /\ KeepsCounts(history, history')
<1>0. /\ t \in Threads /\ Writers \subseteq Threads
      /\ history \in Seq(Revision) /\ Newest \in Nat /\ Newest = Len(history)
      /\ pc \in [Threads -> Steps]
      /\ intent \in [Writers -> Replicas \cup {0}]
      /\ mine \in [Writers -> 0..MaxRevisions]
  BY LenProperties DEF Threads, WellFormed, TypeOK, Newest
<1>1. ASSUME NEW n \in Replicas, NEW r \in {"deploy", "repair"}, Submit(t, n, r)
      PROVE HistoryInv' /\ KeepsCounts(history, history')
  <2>1. \A u \in Writers : Active(u)' =>
          Active(u) /\ intent'[u] = intent[u] /\ mine'[u] = mine[u]
    BY <1>0, <1>1 DEF Submit, Goto, Active
  <2>2. QED
    BY <1>1, <2>1, HistoryUntouched DEF Submit, world
<1>2. CASE Record(t)
  <2> DEFINE e == [status   |-> IF history = <<>> THEN "pending-install" ELSE "pending-upgrade",
                   replicas |-> intent[t]]
  <2>1. e \in Revision /\ e.status \in Pending /\ e.status # "deployed"
    BY <1>2 DEF Record, WellFormed, IntentGiven, Revision, Statuses, Pending
  <2>2. /\ history' = Append(history, e) /\ Newest' = Newest + 1
        /\ history'[Newest + 1] = e
        /\ KeepsCounts(history, history')
        /\ Deployed(history') = Deployed(history)
    <3>1. history' = Append(history, e)
      BY <1>2 DEF Record
    <3>2. QED
      BY <1>0, <2>1, <3>1, RecordKeeps DEF Newest
  <2>3. \A u \in Writers : ~Active(u)
    BY <1>2 DEF HistoryInv, Owned, Record, HelmIsBusy
  <2>4. \A u \in Writers : Active(u)' => u = t
    BY <1>0, <1>2, <2>3 DEF Record, Goto, Active
  <2>5. Owned'
    BY <1>0, <1>2, <2>1, <2>2, <2>4 DEF Owned, Record
  <2>6. OneActive' /\ OneDeployed(history)'
    BY <2>2, <2>4 DEF HistoryInv, OneActive, OneDeployed, Deployed
  <2>7. QED
    BY <2>2, <2>5, <2>6 DEF HistoryInv
<1>3. CASE Conflict(t) \/ Reject(t)
  <2>1. Active(t) /\ history' = Failed(t) /\ pc' = [pc EXCEPT ![t] = "idle"]
    BY <1>3 DEF Conflict, Reject, EndDeploy, Answer, Goto, Active
  <2>2. KeepsCounts(history, history') /\ OneDeployed(history')
    BY <2>1, FailureKeeps DEF HistoryInv, OneDeployed, Deployed
  <2>3. QED
    BY <2>1, <2>2, HistoryEnded
<1>4. CASE Mark(t)
  <2>1. Active(t) /\ pc' = [pc EXCEPT ![t] = "idle"]
    BY <1>4 DEF Mark, EndDeploy, Answer, Goto, Active
  <2>2. KeepsCounts(history, history') /\ Deployed(history') = {mine[t]}
    BY <1>4, <2>1, MarkKeeps DEF Mark
  <2>3. OneDeployed(history')
    BY <2>2 DEF OneDeployed, Deployed
  <2>4. QED
    BY <2>1, <2>2, <2>3, HistoryEnded
<1>5. CASE Apply(t)
  <2>1. \A u \in Writers : Active(u)' =>
          Active(u) /\ intent'[u] = intent[u] /\ mine'[u] = mine[u]
    BY <1>0, <1>5 DEF Apply, Goto, Active
  <2>2. QED
    BY <1>5, <2>1, HistoryUntouched DEF Apply
<1>6. CASE RefuseToRecord(t) \/ LoseRecord(t) \/ KillUpgrade(t)
  <2>1. /\ UNCHANGED history /\ pc' = [pc EXCEPT ![t] = "idle"]
        /\ intent' = [intent EXCEPT ![t] = 0] /\ mine' = [mine EXCEPT ![t] = 0]
    BY <1>6 DEF RefuseToRecord, LoseRecord, KillUpgrade, EndDeploy, Answer, Goto, world
  <2>2. \A u \in Writers : Active(u)' =>
          Active(u) /\ intent'[u] = intent[u] /\ mine'[u] = mine[u]
    BY <1>0, <2>1 DEF Active
  <2>3. QED
    BY <2>1, <2>2, HistoryUntouched
<1>7. QED
  BY <1>1, <1>2, <1>3, <1>4, <1>5, <1>6 DEF Deploy

\* The helm of a DELETE writes the history when nobody else's does.
LEMMA TeardownHistory ==
    ASSUME WellFormed, HistoryInv, Apart, Writers \cap BesideDelete = {},
           NEW d \in Deleters, Teardown(d)
    PROVE  /\ HistoryInv'
           /\ \A t \in Writers : pc[t] = "idle" /\ pc'[t] = "idle"
<1>0. /\ pc \in [Threads -> Steps] /\ Writers \subseteq Threads /\ d \in Threads
      /\ history \in Seq(Revision) /\ Newest \in Nat /\ Newest = Len(history)
      /\ DOMAIN history = 1..Newest
  BY LenProperties DEF WellFormed, TypeOK, Threads, Newest
<1>1. \A t \in Writers : pc[t] = "idle"
  BY DeletesAreAlone DEF Guarded
<1>2. \A t \in Writers : pc'[t] = "idle"
  BY <1>0, <1>1, DeleterSteps, RolesAssumption
<1>3. OneDeployed(history')
  <2>1. CASE StartUninstall(d)
    <3>1. Newest \in 1..Len(history) /\ history[Newest] \in Revision
      BY <1>0, <2>1, EmptySeq DEF StartUninstall
    <3>2. /\ DOMAIN history' = DOMAIN history
          /\ \A r \in DOMAIN history : r # Newest => history'[r] = history[r]
          /\ history'[Newest].status = "uninstalling"
      BY <1>0, <2>1, <3>1 DEF StartUninstall, SetStatus, Revision
    <3>3. QED
      BY <3>2 DEF HistoryInv, OneDeployed, Revisions
  <2>2. CASE Purge(d)
    <3>1. DOMAIN history' = {}
      BY <2>2, EmptySeq, LenProperties DEF Purge
    <3>2. QED
      BY <3>1 DEF OneDeployed, Revisions
  <2>3. CASE UNCHANGED history
    BY <2>3 DEF HistoryInv
  <2>4. QED
    BY <2>1, <2>2, <2>3 DEF Teardown, Delete, CheckRelease, Remove, UninstallNothing,
                            SilentCheck, KillUninstall, world
<1>4. QED
  BY <1>1, <1>2, <1>3 DEF HistoryInv, Owned, OneActive, Active

\* Whoever serves neither a deploy nor a DELETE does not write the history, and
\* leaves a writer alone.
LEMMA OthersKeepOut ==
    ASSUME WellFormed, [Next]_vars,
           ~\E t \in Writers : Deploy(t), ~\E d \in Deleters : Teardown(d)
    PROVE  /\ UNCHANGED <<history, mine, intent>>
           /\ \A t \in Writers \cup Deleters : pc'[t] = pc[t]
<1>1. ASSUME NEW t \in Readers, Reconcile(t)
      PROVE  /\ UNCHANGED <<history, mine, intent>>
             /\ \A u \in Writers \cup Deleters : pc'[u] = pc[u]
  <2>1. UNCHANGED <<history, mine, intent>>
    BY <1>1, ReaderSteps DEF world
  <2>2. \A u \in Writers \cup Deleters : u # t
    BY RolesAssumption
  <2>3. QED
    BY <1>1, <2>1, <2>2, ReaderSteps DEF WellFormed, TypeOK, Threads
<1>2. CASE UNCHANGED requests /\ UNCHANGED history
  BY <1>2 DEF requests
<1>3. QED
  BY <1>1, <1>2 DEF Next, MovePod, Scale, vars, world

\* So does every step; and only a DELETE takes a revision away.
LEMMA HistoryStep ==
    ASSUME WellFormed, HistoryInv, Apart, Writers \cap BesideDelete = {}, [Next]_vars
    PROVE  /\ HistoryInv'
           /\ (~\E d \in Deleters : Teardown(d)) => KeepsCounts(history, history')
<1>1. CASE \E t \in Writers : Deploy(t)
  BY <1>1, DeployHistory
<1>2. CASE \E d \in Deleters : Teardown(d)
  BY <1>2, TeardownHistory
<1>3. CASE ~(\E t \in Writers : Deploy(t)) /\ ~(\E d \in Deleters : Teardown(d))
  <2>1. \A t \in Writers : Active(t)' =>
          Active(t) /\ intent'[t] = intent[t] /\ mine'[t] = mine[t]
    BY <1>3, OthersKeepOut DEF Active
  <2>2. QED
    BY <1>3, <2>1, OthersKeepOut, HistoryUntouched
<1>4. QED
  BY <1>1, <1>2, <1>3

-----------------------------------------------------------------------------
(* A GET reads the history, one revision's values and the pods.             *)

\* At the start no GET has read anything.
LEMMA TracksInit == Init => Tracks
BY DEF Init, Tracks, Threads

\* What a GET reads next fits what it has read.
LEMMA ReconcileTracks ==
    ASSUME WellFormed, HistoryInv, Tracks, NEW t \in Readers, Reconcile(t)
    PROVE  Tracks'
<1>0. /\ t \in Threads /\ Readers \subseteq Threads
      /\ history \in Seq(Revision)
      /\ pc \in [Threads -> Steps]
      /\ seen \in [Readers -> Seq(Revision)]
      /\ desired \in [Readers -> Replicas \cup {0}]
  BY DEF Threads, WellFormed, TypeOK
<1>1. CASE Get(t)
  BY <1>0, <1>1 DEF Get, Goto, world, Tracks
<1>2. CASE ReadHistory(t)
  <2>1. CASE history = <<>>
    BY <1>0, <1>2, <2>1 DEF ReadHistory, EndGet, Answer, Goto, world, Tracks
  <2>2. CASE history # <<>>
    <3>1. /\ UNCHANGED history /\ seen' = [seen EXCEPT ![t] = history]
          /\ desired' = [desired EXCEPT ![t] = 0]
          /\ pc' = [pc EXCEPT ![t] =
                IF DeployedRevision(history) = 0 THEN "pods" ELSE "values"]
      BY <1>2, <2>2 DEF ReadHistory, Goto, world
    <3>2. DeployedRevision(history) = 0 => DesiredReplicas(history) = 0
      BY DEF DesiredReplicas
    <3>3. OneDeployed(history)
      BY DEF HistoryInv
    <3>4. QED
      BY <1>0, <2>2, <3>1, <3>2, <3>3 DEF Tracks
  <2>3. QED
    BY <2>1, <2>2
<1>3. CASE ReadValues(t)
  <2> DEFINE d == DeployedRevision(seen[t])
  <2>1. /\ UNCHANGED <<history, seen>>
        /\ desired' = [desired EXCEPT ![t] = history[d].replicas]
        /\ pc' = [pc EXCEPT ![t] = "pods"]
        /\ pc[t] = "values"
    BY <1>3 DEF ReadValues, ValuesToRead, Goto, world
  <2>2. CASE t \in BesideDelete
    BY <1>0, <2>1, <2>2 DEF Tracks
  <2>3. CASE t \notin BesideDelete
    <3>1. seen[t] \in Seq(Revision) /\ OneDeployed(seen[t]) /\ d # 0
      BY <1>0, <2>1, <2>3 DEF Tracks
    <3>2. d \in DOMAIN seen[t]
      BY <3>1, DeployedIsLatest DEF Deployed, Revisions
    <3>3. history[d].replicas = seen[t][d].replicas
      BY <2>1, <2>3, <3>2 DEF Tracks
    <3>4. history[d].replicas = DesiredReplicas(seen[t])
      BY <3>1, <3>3 DEF DesiredReplicas
    <3> HIDE DEF d
    <3>5. QED
      BY <1>0, <2>1, <3>4 DEF Tracks
  <2>4. QED
    BY <2>2, <2>3
<1>4. CASE ValuesGone(t) \/ ReadPods(t) \/ SilentRead(t)
  <2>1. /\ UNCHANGED history /\ pc' = [pc EXCEPT ![t] = "idle"]
        /\ seen' = [seen EXCEPT ![t] = <<>>] /\ desired' = [desired EXCEPT ![t] = 0]
    BY <1>4 DEF ValuesGone, ReadPods, SilentRead, EndGet, Answer, Goto, world
  <2>2. QED
    BY <1>0, <2>1 DEF Tracks
<1>5. QED
  BY <1>1, <1>2, <1>3, <1>4 DEF Reconcile

\* What a GET has read stays so, whatever the others do.
LEMMA TracksStep ==
    ASSUME WellFormed, HistoryInv, Apart, Tracks, Writers \cap BesideDelete = {},
           [Next]_vars
    PROVE  Tracks'
<1>1. CASE \E t \in Readers : Reconcile(t)
  BY <1>1, ReconcileTracks
<1>2. ASSUME NEW d \in Deleters, Teardown(d) PROVE Tracks'
  <2>1. \A t \in Readers \ BesideDelete : pc[t] = "idle"
    BY <1>2, DeletesAreAlone DEF Guarded
  <2>2. \A t \in Readers \ BesideDelete : pc'[t] = "idle"
    BY <1>2, <2>1, DeleterSteps, RolesAssumption DEF WellFormed, TypeOK, Threads
  <2>3. QED
    BY <2>2 DEF Tracks
<1>3. CASE ~(\E t \in Readers : Reconcile(t)) /\ ~(\E d \in Deleters : Teardown(d))
  <2>1. ASSUME NEW t \in Writers, Deploy(t)
        PROVE  UNCHANGED <<seen, desired>> /\ \A u \in Readers : pc'[u] = pc[u]
    <3>1. UNCHANGED <<seen, desired>>
      BY <2>1 DEF Deploy, Submit, Record, RefuseToRecord, Conflict, Apply, Reject,
                  LoseRecord, Mark, KillUpgrade, EndDeploy, world
    <3>2. \A u \in Readers : u # t
      BY RolesAssumption
    <3>3. QED
      BY <2>1, <3>1, <3>2, WriterSteps DEF WellFormed, TypeOK, Threads
  <2>2. UNCHANGED <<seen, desired>> /\ \A u \in Readers : pc'[u] = pc[u]
    BY <1>3, <2>1 DEF Next, MovePod, Scale, vars, requests
  <2>3. KeepsCounts(history, history')
    BY <1>3, HistoryStep
  <2>4. QED
    BY <2>2, <2>3 DEF Tracks, KeepsCounts
<1>4. QED
  BY <1>1, <1>2, <1>3

\* The answer is the state of a release with the history read first and the pods
\* read last.
LEMMA TrackedAnswer ==
    ASSUME WellFormed, Tracks, NEW t \in Readers \ BesideDelete, ReadPods(t)
    PROVE  answer'[t] = StateAt(seen[t], pods)
<1>1. seen[t] # <<>> /\ desired[t] = DesiredReplicas(seen[t])
  BY DEF ReadPods, Tracks
<1>2. answer'[t] = DeriveState(pods, desired[t], LastOperation(seen[t]),
                               DeployedRevision(seen[t]) # 0)
  BY DEF ReadPods, EndGet, Answer, NoAnswer, WellFormed, TypeOK, Threads
<1>3. QED
  BY <1>1, <1>2 DEF StateAt

\* A GET that is kept apart from DELETEs never mixes two intents, however many
\* deploys it overlaps and wherever their helm processes were killed: it judges
\* the pods it ends with by the history it began with.
THEOREM AnswersAreConsistent ==
    ASSUME Writers \cap BesideDelete = {} PROVE Spec => AnswersFollowOneHistory
<1> DEFINE Inv == WellFormed /\ Apart /\ HistoryInv /\ Tracks
<1>1. Init => Inv
  BY WellFormedInit, ApartInit, HistoryInit, TracksInit
<1>2. Inv /\ [Next]_vars => Inv'
  <2>1. WellFormed => TypeOK
    BY DEF WellFormed
  <2>2. QED
    BY <2>1, WellFormedStep, ApartStep, HistoryStep, TracksStep
<1>3. Inv /\ [Next]_vars =>
        [\A t \in Readers \ BesideDelete :
            ReadPods(t) => answer'[t] = StateAt(seen[t], pods)]_vars
  BY TrackedAnswer
<1>4. QED
  BY <1>1, <1>2, <1>3, PTL DEF Spec, AnswersFollowOneHistory

-----------------------------------------------------------------------------
(* The intent in effect.                                                   *)

\* A DELETE whose helm is at work works on a release marked for deletion, if it
\* is still there, and has removed the Deployment before it forgets the release.
Uninstalls ==
    \A d \in Deleters :
        /\ pc[d] \in {"removing", "purging"} => history = <<>> \/ Deleting
        /\ pc[d] = "purging" => applied = 0

\* While helm owns the field, the Deployment is held to the deployed revision,
\* up to the moment an upgrade changes it, and then to that one.  Nothing is said
\* of a release that a killed helm left PROCESSING.
InStep ==
    manager = "helm" =>
        /\ LastOperation(history) # "PROCESSING" => applied = DesiredReplicas(history)
        /\ \A t \in Writers :
              /\ pc[t] = "applying" => applied = DesiredReplicas(history)
              /\ pc[t] = "marking" => applied = intent[t]

EffectInv == Uninstalls /\ InStep

\* A release that does not exist is held to nothing, and has no operation.
LEMMA NoHistory ==
    /\ DeployedRevision(<<>>) = 0 /\ DesiredReplicas(<<>>) = 0
    /\ LastOperation(<<>>) = "UNKNOWN"
<1>1. DOMAIN <<>> = {}
  BY EmptySeq, LenProperties
<1>2. DeployedRevision(<<>>) = 0
  BY <1>1 DEF DeployedRevision, Revisions
<1>3. QED
  BY <1>2 DEF DesiredReplicas, LastOperation

\* PROCESSING is what the reconciler calls a release that helm calls busy.
LEMMA BusyIsProcessing ==
    ASSUME TypeOK
    PROVE  /\ Newest > 0 <=> history # <<>>
           /\ HelmIsBusy <=> LastOperation(history) = "PROCESSING"
           /\ history # <<>> => LastOperation(history) # "UNKNOWN"
<1>1. /\ history \in Seq(Revision) /\ Newest = Len(history) /\ Newest \in Nat
      /\ DOMAIN history = 1..Newest
      /\ \A r \in 1..Newest : history[r] \in Revision
  BY LenProperties DEF TypeOK, Newest
<1>2. Newest > 0 <=> history # <<>>
  BY <1>1, EmptySeq
<1>3. CASE history = <<>>
  BY <1>2, <1>3 DEF HelmIsBusy, LastOperation
<1>4. CASE history # <<>>
  <2>1. Newest \in DOMAIN history /\ history[Newest].status \in Statuses
    BY <1>1, <1>2, <1>4 DEF Revision
  <2>2. LastOperation(history) = OperationOf(history[Newest].status)
    BY <1>1, <1>4 DEF LastOperation
  <2>3. \A status \in Statuses :
          /\ OperationOf(status) # "UNKNOWN"
          /\ OperationOf(status) = "PROCESSING"
             <=> status \in Pending \cup {"uninstalling"}
    BY DEF OperationOf, Statuses, Pending
  <2>4. QED
    BY <1>2, <1>4, <2>1, <2>2, <2>3 DEF HelmIsBusy
<1>5. QED
  BY <1>2, <1>3, <1>4

\* While a writer's helm is active, its operation is the release's, and is no
\* deletion.
LEMMA ActiveIsProcessing ==
    ASSUME TypeOK, HistoryInv, NEW t \in Writers, Active(t)
    PROVE  LastOperation(history) = "PROCESSING" /\ history # <<>> /\ ~Deleting
<1>1. /\ Newest > 0 /\ history[Newest].status \in Pending
  BY DEF HistoryInv, Owned
<1>2. HelmIsBusy /\ history[Newest].status # "uninstalling"
  BY <1>1 DEF HelmIsBusy, Pending
<1>3. QED
  BY <1>1, <1>2, BusyIsProcessing DEF Deleting

\* What a deploy writes before it succeeds leaves the intent in effect alone.
LEMMA RecordIntent ==
    ASSUME WellFormed, HistoryInv, NEW t \in Writers, Record(t)
    PROVE  /\ DesiredReplicas(history') = DesiredReplicas(history)
           /\ LastOperation(history') = "PROCESSING"
           /\ LastOperation(history) # "PROCESSING"
           /\ Newest' = Newest + 1 /\ history' # <<>>
           /\ history'[Newest'].replicas = intent[t]
           /\ history'[Newest'].status \in Pending
<1> DEFINE e == [status   |-> IF history = <<>> THEN "pending-install" ELSE "pending-upgrade",
                 replicas |-> intent[t]]
<1>1. /\ e \in Revision /\ e.status # "deployed" /\ e.status \in Pending
      /\ e.replicas = intent[t]
  BY DEF Record, WellFormed, IntentGiven, Revision, Statuses, Pending
<1>2. history' = Append(history, e)
  BY DEF Record
<1>3. history \in Seq(Revision) /\ OneDeployed(history) /\ Len(history) \in Nat
  BY LenProperties DEF WellFormed, TypeOK, HistoryInv
<1> HIDE DEF e
<1>4. /\ history' \in Seq(Revision) /\ KeepsCounts(history, history')
      /\ Deployed(history') = Deployed(history)
      /\ Len(history') = Len(history) + 1 /\ history'[Len(history) + 1] = e
  BY <1>1, <1>2, <1>3, RecordKeeps
<1>5. \A r \in Deployed(history) : history'[r].replicas = history[r].replicas
  BY <1>4 DEF KeepsCounts, Deployed, Revisions
<1>6. DesiredReplicas(history') = DesiredReplicas(history)
  BY <1>3, <1>4, <1>5, SameIntent
<1>7. Newest' = Newest + 1 /\ history'[Newest'] = e
  BY <1>4 DEF Newest
<1>8. history' # <<>>
  BY <1>3, <1>4, EmptySeq
<1>9. LastOperation(history') = "PROCESSING"
  BY <1>1, <1>7, <1>8 DEF LastOperation, Newest, OperationOf, Pending
<1>10. LastOperation(history) # "PROCESSING"
  BY BusyIsProcessing DEF Record, WellFormed
<1>11. QED
  BY <1>1, <1>6, <1>7, <1>8, <1>9, <1>10

LEMMA FailureIntent ==
    ASSUME WellFormed, HistoryInv, NEW t \in Writers, Active(t), history' = Failed(t)
    PROVE  /\ DesiredReplicas(history') = DesiredReplicas(history)
           /\ LastOperation(history') = "FAILED"
           /\ Newest' = Newest /\ history' # <<>>
           /\ history'[Newest].replicas = history[Newest].replicas
           /\ history'[Newest].status = "failed"
<1>1. /\ history \in Seq(Revision) /\ OneDeployed(history) /\ Newest \in Nat
      /\ DOMAIN history = 1..Newest
  BY LenProperties DEF WellFormed, TypeOK, HistoryInv, Newest
<1>2. /\ history' \in Seq(Revision) /\ KeepsCounts(history, history')
      /\ Deployed(history') = Deployed(history) /\ Len(history') = Newest
  BY FailureKeeps
<1>3. \A r \in Deployed(history) : history'[r].replicas = history[r].replicas
  BY <1>2 DEF KeepsCounts, Deployed, Revisions
<1>4. DesiredReplicas(history') = DesiredReplicas(history)
  BY <1>1, <1>2, <1>3, SameIntent
<1>5. Newest' = Newest /\ Newest > 0 /\ mine[t] = Newest
  BY <1>2 DEF Newest, HistoryInv, Owned
<1>6. history' # <<>>
  BY <1>1, <1>2, <1>5, EmptySeq
<1>7. history'[Newest].replicas = history[Newest].replicas
  BY <1>1, <1>2, <1>5 DEF KeepsCounts
<1>8. history' = [history EXCEPT ![Newest] = [status |-> "failed", replicas |-> intent[t]]]
  BY <1>1, <1>5 DEF Failed, Recorded
<1>9. history'[Newest].status = "failed"
  BY <1>1, <1>5, <1>8
<1>10. LastOperation(history') = "FAILED"
  BY <1>5, <1>6, <1>9 DEF LastOperation, Newest, OperationOf
<1>11. QED
  BY <1>4, <1>5, <1>6, <1>7, <1>9, <1>10

\* A deploy that succeeds brings its own count into effect.
LEMMA MarkIntent ==
    ASSUME WellFormed, HistoryInv, NEW t \in Writers, Mark(t)
    PROVE  /\ DesiredReplicas(history') = intent[t]
           /\ LastOperation(history') = "COMPLETED"
           /\ Newest' = Newest /\ history' # <<>>
           /\ history[Newest].replicas = intent[t]
           /\ history'[Newest].replicas = intent[t]
           /\ history'[Newest].status = "deployed"
<1>1. Active(t) /\ history \in Seq(Revision) /\ Newest \in Nat
  BY LenProperties DEF Mark, Active, WellFormed, TypeOK, Newest
<1>2. /\ history' \in Seq(Revision) /\ Deployed(history') = {mine[t]}
      /\ Len(history') = Newest /\ history'[mine[t]].replicas = intent[t]
  BY <1>1, MarkKeeps DEF Mark
<1>3. /\ mine[t] = Newest /\ Newest > 0 /\ Newest' = Newest
      /\ history[Newest].replicas = intent[t]
  BY <1>1, <1>2 DEF HistoryInv, Owned, Newest
<1>4. OneDeployed(history') /\ Newest \in Deployed(history')
  BY <1>2, <1>3 DEF OneDeployed, Deployed
<1>5. DeployedRevision(history') = Newest
  BY <1>2, <1>4, DeployedIsLatest
<1>6. DesiredReplicas(history') = intent[t]
  BY <1>2, <1>3, <1>5 DEF DesiredReplicas
<1>7. history' # <<>>
  BY <1>1, <1>2, <1>3, EmptySeq
<1>8. history'[Newest].status = "deployed"
  BY <1>4 DEF Deployed, Revisions
<1>9. LastOperation(history') = "COMPLETED"
  BY <1>3, <1>7, <1>8 DEF LastOperation, Newest, OperationOf
<1>10. QED
  BY <1>2, <1>3, <1>6, <1>7, <1>8, <1>9

\* Marked for deletion, a release keeps its intent or loses it; and its operation
\* is its deletion.
LEMMA UninstallIntent ==
    ASSUME WellFormed, HistoryInv, NEW d \in Deleters, StartUninstall(d)
    PROVE  /\ DesiredReplicas(history') \in {DesiredReplicas(history), 0}
           /\ LastOperation(history') = "PROCESSING"
           /\ Newest' = Newest /\ Deleting'
           /\ history'[Newest].replicas = history[Newest].replicas
<1>1. /\ history \in Seq(Revision) /\ OneDeployed(history) /\ Newest \in Nat
      /\ DOMAIN history = 1..Newest /\ Newest = Len(history)
  BY LenProperties DEF WellFormed, TypeOK, HistoryInv, Newest
<1>2. Newest \in 1..Newest /\ Newest > 0 /\ history[Newest] \in Revision
  BY <1>1, EmptySeq DEF StartUninstall
<1> DEFINE e == [history[Newest] EXCEPT !.status = "uninstalling"]
<1>3. e \in Revision /\ e.status = "uninstalling" /\ e.replicas = history[Newest].replicas
  BY <1>2 DEF Revision, Statuses
<1>4. history' = [history EXCEPT ![Newest] = e]
  BY DEF StartUninstall, SetStatus
<1> HIDE DEF e
<1>5. /\ history' \in Seq(Revision) /\ Len(history') = Newest
      /\ DOMAIN history' = 1..Newest /\ history'[Newest] = e
      /\ \A r \in 1..Newest : r # Newest => history'[r] = history[r]
  BY <1>1, <1>2, <1>3, <1>4, ExceptSeq, LenProperties
<1>6. Newest' = Newest
  BY <1>5 DEF Newest
<1>7. history' # <<>>
  BY <1>2, <1>5, EmptySeq
<1>8. Deleting' /\ LastOperation(history') = "PROCESSING"
  BY <1>3, <1>5, <1>6, <1>7 DEF Deleting, LastOperation, Newest, OperationOf
<1>9. CASE Newest \in Deployed(history)
  <2>1. Deployed(history') = {}
    BY <1>1, <1>3, <1>5, <1>9 DEF Deployed, Revisions, OneDeployed
  <2>2. DesiredReplicas(history') = 0
    BY <2>1 DEF Deployed, DeployedRevision, DesiredReplicas
  <2>3. QED
    BY <1>3, <1>5, <1>6, <1>8, <2>2
<1>10. CASE Newest \notin Deployed(history)
  <2>1. /\ Deployed(history') = Deployed(history)
        /\ \A r \in Deployed(history) : history'[r].replicas = history[r].replicas
    BY <1>1, <1>3, <1>5, <1>10 DEF Deployed, Revisions
  <2>2. DesiredReplicas(history') = DesiredReplicas(history)
    BY <1>1, <1>5, <2>1, SameIntent
  <2>3. QED
    BY <1>3, <1>5, <1>6, <1>8, <2>2
<1>11. QED
  BY <1>9, <1>10

\* At the start nothing is in effect and nothing is applied.
LEMMA EffectInit == Init => EffectInv
BY NoHistory DEF Init, EffectInv, Uninstalls, InStep, Threads

\* A step that keeps history, Deployment and field keeps the invariant, unless a
\* request comes to a place that the invariant speaks of.
LEMMA EffectUntouched ==
    ASSUME EffectInv, UNCHANGED <<history, applied, manager>>,
           \A t \in Writers : Active(t)' => pc'[t] = pc[t] /\ intent'[t] = intent[t],
           \A d \in Deleters : pc'[d] \in {"removing", "purging"} => pc'[d] = pc[d]
    PROVE  EffectInv'
<1>1. Uninstalls'
  BY DEF EffectInv, Uninstalls, Deleting, Newest
<1>2. InStep'
  BY DEF EffectInv, InStep, Active
<1>3. QED
  BY <1>1, <1>2 DEF EffectInv

\* While a writer's helm is active no DELETE is served.
LEMMA DeploysAreAlone ==
    ASSUME TypeOK, Apart, Writers \cap BesideDelete = {}, NEW t \in Writers, Deploy(t)
    PROVE  \A d \in Deleters : pc[d] = "idle" /\ pc'[d] = "idle"
<1>1. t \in Guarded /\ t \notin BesideDelete
  BY DEF Guarded
<1>2. \A d \in Deleters : pc[d] = "idle"
  BY <1>1, WriterSteps DEF Apart, MayStart
<1>3. \A d \in Deleters : d # t /\ d \in Threads
  BY RolesAssumption DEF Threads
<1>4. QED
  BY <1>2, <1>3, WriterSteps DEF TypeOK, Threads

\* A helm applies what it recorded and marks what it applied.
LEMMA DeployEffect ==
    ASSUME WellFormed, HistoryInv, Apart, EffectInv, Writers \cap BesideDelete = {},
           NEW t \in Writers, Deploy(t)
    PROVE  EffectInv'
<1>0. /\ TypeOK /\ t \in Threads /\ Writers \subseteq Threads
      /\ pc \in [Threads -> Steps]
      /\ intent \in [Writers -> Replicas \cup {0}]
  BY DEF Threads, WellFormed, TypeOK
<1>1. Uninstalls'
  BY <1>0, DeploysAreAlone DEF Uninstalls
<1>2. \A u \in Writers : Active(t) /\ u # t => ~Active(u)
  BY DEF HistoryInv, OneActive
<1>3. ASSUME NEW n \in Replicas, NEW r \in {"deploy", "repair"}, Submit(t, n, r)
      PROVE InStep'
  <2>1. /\ UNCHANGED <<history, applied, manager>>
        /\ pc' = [pc EXCEPT ![t] = "recording"]
        /\ intent' = [intent EXCEPT ![t] = n]
    BY <1>3 DEF Submit, Goto, world
  <2>2. QED
    BY <1>0, <2>1 DEF EffectInv, InStep
<1>4. CASE Record(t)
  <2>1. /\ DesiredReplicas(history') = DesiredReplicas(history)
        /\ LastOperation(history') = "PROCESSING"
        /\ LastOperation(history) # "PROCESSING"
    BY <1>4, RecordIntent
  <2>2. UNCHANGED <<applied, manager, intent>> /\ pc' = [pc EXCEPT ![t] = "applying"]
    BY <1>4 DEF Record, Goto
  <2>3. QED
    BY <1>0, <1>1, <2>1, <2>2 DEF EffectInv, InStep
<1>5. CASE Conflict(t) \/ Reject(t)
  <2>1. /\ pc[t] = "applying" /\ Active(t) /\ history' = Failed(t)
        /\ UNCHANGED <<applied, manager>> /\ intent' = [intent EXCEPT ![t] = 0]
        /\ pc' = [pc EXCEPT ![t] = "idle"]
    BY <1>5 DEF Conflict, Reject, EndDeploy, Answer, Goto, Active
  <2>2. DesiredReplicas(history') = DesiredReplicas(history)
    BY <2>1, FailureIntent
  <2>3. QED
    BY <1>0, <1>1, <2>1, <2>2 DEF EffectInv, InStep
<1>6. CASE Apply(t)
  <2>1. /\ Active(t) /\ UNCHANGED <<history, intent>> /\ applied' = intent[t]
        /\ pc' = [pc EXCEPT ![t] = "marking"]
    BY <1>6 DEF Apply, Goto, Active
  <2>2. \A u \in Writers : Active(u)' => u = t
    BY <1>0, <1>2, <2>1 DEF Active
  <2>3. LastOperation(history') = "PROCESSING"
    BY <1>0, <2>1, ActiveIsProcessing
  <2>4. pc'[t] = "marking"
    BY <1>0, <2>1
  <2>5. QED
    BY <1>1, <2>1, <2>2, <2>3, <2>4 DEF EffectInv, InStep, Active
<1>7. CASE Mark(t)
  <2>1. /\ pc[t] = "marking" /\ Active(t) /\ UNCHANGED <<applied, manager>>
        /\ pc' = [pc EXCEPT ![t] = "idle"]
    BY <1>7 DEF Mark, EndDeploy, Answer, Goto, Active
  <2>2. DesiredReplicas(history') = intent[t]
    BY <1>7, MarkIntent
  <2>3. manager = "helm" => applied = intent[t]
    BY <2>1 DEF EffectInv, InStep
  <2>4. \A u \in Writers : ~Active(u)'
    BY <1>0, <1>2, <2>1 DEF Active
  <2>5. QED
    BY <1>1, <2>1, <2>2, <2>3, <2>4 DEF EffectInv, InStep, Active
<1>8. CASE RefuseToRecord(t) \/ LoseRecord(t) \/ KillUpgrade(t)
  <2>1. /\ UNCHANGED <<history, applied, manager>> /\ intent' = [intent EXCEPT ![t] = 0]
        /\ pc' = [pc EXCEPT ![t] = "idle"]
    BY <1>8 DEF RefuseToRecord, LoseRecord, KillUpgrade, EndDeploy, Answer, Goto, world
  <2>2. QED
    BY <1>0, <1>1, <2>1 DEF EffectInv, InStep
<1>9. QED
  BY <1>1, <1>3, <1>4, <1>5, <1>6, <1>7, <1>8 DEF Deploy, EffectInv

\* A DELETE leaves nothing applied before it leaves nothing recorded.
LEMMA TeardownEffect ==
    ASSUME WellFormed, HistoryInv, Apart, EffectInv, Writers \cap BesideDelete = {},
           NEW d \in Deleters, Teardown(d)
    PROVE  EffectInv'
<1>0. /\ TypeOK /\ d \in Threads /\ Deleters \subseteq Threads
      /\ pc \in [Threads -> Steps]
  BY DEF Threads, WellFormed, TypeOK
<1>1. \A t \in Writers : ~Active(t)'
  BY TeardownHistory DEF Active
<1>2. CASE StartUninstall(d)
  <2>1. Deleting' /\ LastOperation(history') = "PROCESSING" /\ UNCHANGED <<applied, manager>>
    BY <1>2, UninstallIntent DEF StartUninstall
  <2>2. pc' = [pc EXCEPT ![d] = "removing"]
    BY <1>2 DEF StartUninstall, Goto
  <2>3. Uninstalls'
    BY <1>0, <2>1, <2>2 DEF EffectInv, Uninstalls
  <2>4. InStep'
    BY <1>1, <2>1 DEF InStep, Active
  <2>5. QED
    BY <2>3, <2>4 DEF EffectInv
<1>3. CASE Remove(d)
  <2>1. /\ pc[d] = "removing" /\ pc' = [pc EXCEPT ![d] = "purging"]
        /\ UNCHANGED history /\ applied' = 0
    BY <1>3 DEF Remove, Goto
  <2>2. history = <<>> \/ Deleting
    BY <2>1 DEF EffectInv, Uninstalls
  <2>3. Uninstalls'
    BY <1>0, <2>1, <2>2 DEF EffectInv, Uninstalls, Deleting, Newest
  <2>4. LastOperation(history') # "PROCESSING" => DesiredReplicas(history') = 0
    <3>1. CASE history = <<>>
      BY <2>1, <3>1, NoHistory
    <3>2. CASE Deleting
      BY <2>1, <3>2 DEF Deleting, LastOperation, OperationOf, Newest
    <3>3. QED
      BY <2>2, <3>1, <3>2
  <2>5. InStep'
    BY <1>1, <2>1, <2>4 DEF InStep, Active
  <2>6. QED
    BY <2>3, <2>5 DEF EffectInv
<1>4. CASE Purge(d)
  <2>1. /\ pc[d] = "purging" /\ pc' = [pc EXCEPT ![d] = "idle"]
        /\ history' = <<>> /\ UNCHANGED applied
    BY <1>4 DEF Purge, EndDelete, Answer, Goto
  <2>2. applied = 0
    BY <2>1 DEF EffectInv, Uninstalls
  <2>3. Uninstalls'
    BY <1>0, <2>1 DEF EffectInv, Uninstalls
  <2>4. InStep'
    BY <1>1, <2>1, <2>2, NoHistory DEF InStep, Active
  <2>5. QED
    BY <2>3, <2>4 DEF EffectInv
<1>5. CASE \/ Delete(d) \/ CheckRelease(d) \/ UninstallNothing(d) \/ SilentCheck(d)
           \/ KillUninstall(d)
  <2>1. /\ UNCHANGED <<history, applied, manager>>
        /\ \E s \in {"checking", "uninstalling", "idle"} : pc' = [pc EXCEPT ![d] = s]
    <3>1. CASE CheckRelease(d)
      BY <3>1 DEF CheckRelease, EndDelete, Answer, Goto, world
    <3>2. CASE ~CheckRelease(d)
      BY <1>5, <3>2 DEF Delete, UninstallNothing, SilentCheck, KillUninstall,
                     EndDelete, Answer, Goto, world
    <3>3. QED
      BY <3>1, <3>2
  <2>2. \A e \in Deleters : pc'[e] \in {"removing", "purging"} => pc'[e] = pc[e]
    BY <1>0, <2>1
  <2>3. QED
    BY <1>1, <2>1, <2>2, EffectUntouched
<1>6. QED
  BY <1>2, <1>3, <1>4, <1>5 DEF Teardown

\* Nobody else changes the intent or the Deployment, unless by taking the field.
LEMMA EffectStep ==
    ASSUME WellFormed, HistoryInv, Apart, EffectInv, Writers \cap BesideDelete = {},
           [Next]_vars
    PROVE  EffectInv'
<1>1. CASE \E t \in Writers : Deploy(t)
  BY <1>1, DeployEffect
<1>2. CASE \E d \in Deleters : Teardown(d)
  BY <1>2, TeardownEffect
<1>3. ASSUME NEW n \in Replicas, Scale(n) PROVE EffectInv'
  <2>1. /\ UNCHANGED <<history, pc>> /\ manager' = "other"
        /\ applied > 0
    BY <1>3 DEF Scale, requests
  <2>2. \A d \in Deleters : pc[d] # "purging"
    BY <2>1 DEF EffectInv, Uninstalls
  <2>3. QED
    BY <2>1, <2>2 DEF EffectInv, Uninstalls, InStep, Deleting, Newest
<1>4. CASE /\ ~(\E t \in Writers : Deploy(t)) /\ ~(\E d \in Deleters : Teardown(d))
           /\ ~(\E n \in Replicas : Scale(n))
  <2>1. UNCHANGED <<history, intent>> /\ \A t \in Writers \cup Deleters : pc'[t] = pc[t]
    BY <1>4, OthersKeepOut
  <2>2. UNCHANGED <<applied, manager>>
    BY <1>4, ReaderSteps DEF Next, MovePod, vars, world
  <2>3. QED
    BY <2>1, <2>2, EffectUntouched
<1>5. QED
  BY <1>1, <1>2, <1>3, <1>4

\* While deploys are kept apart from DELETEs, a release whose last operation does
\* not read PROCESSING is held to the replica count the reconciler judges by,
\* unless someone else took the field: though any helm process, a DELETE's too,
\* may have been killed anywhere.
THEOREM SettledInEffect ==
    ASSUME Writers \cap BesideDelete = {} PROVE Spec => []SettledIntentIsInEffect
<1> DEFINE Inv == WellFormed /\ Apart /\ HistoryInv /\ EffectInv
<1>1. Init => Inv
  BY WellFormedInit, ApartInit, HistoryInit, EffectInit
<1>2. Inv /\ [Next]_vars => Inv'
  <2>1. WellFormed => TypeOK
    BY DEF WellFormed
  <2>2. QED
    BY <2>1, WellFormedStep, ApartStep, HistoryStep, EffectStep
<1>3. Inv => SettledIntentIsInEffect
  BY DEF EffectInv, InStep, SettledIntentIsInEffect
<1>4. QED
  BY <1>1, <1>2, <1>3, PTL DEF Spec

-----------------------------------------------------------------------------
(* The intent in effect, when every helm process runs to its end.           *)

\* A release that is busy is being worked on.
AtWork ==
    LastOperation(history) = "PROCESSING" =>
        \/ \E t \in Writers : Active(t)
        \/ \E d \in Deleters : pc[d] \in {"removing", "purging"}

\* At the start no release is busy.
LEMMA AtWorkInit == Init => AtWork
BY NoHistory DEF Init, AtWork

\* A helm that is not killed leaves no release busy.
LEMMA AtWorkStep ==
    ASSUME WellFormed, HistoryInv, Apart, AtWork, Writers \cap BesideDelete = {},
           ~MayKill, [Next]_vars
    PROVE  AtWork'
<1>0. /\ TypeOK /\ pc \in [Threads -> Steps]
      /\ Writers \subseteq Threads /\ Deleters \subseteq Threads
  BY DEF WellFormed, TypeOK, Threads
<1>1. ASSUME NEW t \in Writers, Deploy(t) PROVE AtWork'
  <2>1. CASE Record(t) \/ Apply(t)
    <3>1. Active(t)'
      BY <1>0, <2>1 DEF Record, Apply, Goto, Active
    <3>2. QED
      BY <3>1 DEF AtWork
  <2>2. CASE Conflict(t) \/ Reject(t)
    <3>1. LastOperation(history') = "FAILED"
      BY <2>2, FailureIntent DEF Conflict, Reject, Active
    <3>2. QED
      BY <3>1 DEF AtWork
  <2>3. CASE Mark(t)
    <3>1. LastOperation(history') = "COMPLETED"
      BY <2>3, MarkIntent
    <3>2. QED
      BY <3>1 DEF AtWork
  <2>4. CASE RefuseToRecord(t) \/ \E n \in Replicas, r \in {"deploy", "repair"} : Submit(t, n, r)
    <3>1. /\ UNCHANGED history /\ ~Active(t)
          /\ \E s \in Steps : pc' = [pc EXCEPT ![t] = s]
      BY <1>1, <2>4, WriterSteps DEF RefuseToRecord, Submit, Active, world
    <3>2. \A u \in Writers : Active(u) => Active(u)'
      BY <1>0, <3>1 DEF Active
    <3>3. \A d \in Deleters : pc'[d] = pc[d]
      BY <1>0, <1>1, DeploysAreAlone
    <3>4. QED
      BY <3>1, <3>2, <3>3 DEF AtWork
  <2>5. ~LoseRecord(t)
    <3>1. ASSUME LoseRecord(t) PROVE FALSE
      <4>1. mine[t] = Newest /\ Newest \in Nat
        BY <1>0, <3>1, LenProperties DEF TypeOK, LoseRecord, HistoryInv, Owned, Active, Newest
      <4>2. QED
        BY <3>1, <4>1 DEF LoseRecord, Recorded
    <3>2. QED
      BY <3>1
  <2>6. ~KillUpgrade(t)
    BY DEF KillUpgrade
  <2>7. QED
    BY <1>1, <2>1, <2>2, <2>3, <2>4, <2>5, <2>6 DEF Deploy
<1>2. ASSUME NEW d \in Deleters, Teardown(d) PROVE AtWork'
  <2>1. CASE StartUninstall(d) \/ Remove(d)
    <3>1. pc'[d] \in {"removing", "purging"}
      BY <1>0, <2>1 DEF StartUninstall, Remove, Goto
    <3>2. QED
      BY <3>1 DEF AtWork
  <2>2. CASE Purge(d) \/ UninstallNothing(d)
    BY <2>2, NoHistory DEF Purge, UninstallNothing, AtWork, world
  <2>3. CASE Delete(d) \/ CheckRelease(d) \/ SilentCheck(d)
    <3>1. /\ UNCHANGED history /\ pc[d] \notin {"removing", "purging"}
          /\ \E s \in Steps : pc' = [pc EXCEPT ![d] = s]
      BY <1>2, <2>3, DeleterSteps DEF Delete, CheckRelease, SilentCheck, world
    <3>2. \A e \in Deleters : pc[e] \in {"removing", "purging"} => pc'[e] = pc[e]
      BY <1>0, <3>1
    <3>3. \A t \in Writers : ~Active(t)
      BY <1>2, TeardownHistory DEF Active
    <3>4. QED
      BY <3>1, <3>2, <3>3 DEF AtWork
  <2>4. ~KillUninstall(d)
    BY DEF KillUninstall
  <2>5. QED
    BY <1>2, <2>1, <2>2, <2>3, <2>4 DEF Teardown
<1>3. CASE ~(\E t \in Writers : Deploy(t)) /\ ~(\E d \in Deleters : Teardown(d))
  BY <1>3, OthersKeepOut DEF AtWork, Active
<1>4. QED
  BY <1>1, <1>2, <1>3

\* With deploys kept apart from DELETEs and no helm process killed, the replica
\* count the reconciler judges by is the one the Deployment is held to, once every
\* request has ended and unless someone else took the field.
THEOREM DesiredInEffect ==
    ASSUME Writers \cap BesideDelete = {}, ~MayKill
    PROVE  Spec => []DesiredIsInEffect
<1> DEFINE Inv == WellFormed /\ Apart /\ HistoryInv /\ EffectInv /\ AtWork
<1>1. Init => Inv
  BY WellFormedInit, ApartInit, HistoryInit, EffectInit, AtWorkInit
<1>2. Inv /\ [Next]_vars => Inv'
  <2>1. WellFormed => TypeOK
    BY DEF WellFormed
  <2>2. QED
    BY <2>1, WellFormedStep, ApartStep, HistoryStep, EffectStep, AtWorkStep
<1>3. Inv => DesiredIsInEffect
  BY DEF EffectInv, InStep, AtWork, Active, DesiredIsInEffect, Quiet
<1>4. QED
  BY <1>1, <1>2, <1>3, PTL DEF Spec

-----------------------------------------------------------------------------
(* Drift.                                                                  *)

\* Only a Deployment that exists can be someone else's.
DriftedIsThere == manager = "other" => applied > 0

\* At the start the field is helm's.
LEMMA DriftInit == Init => DriftedIsThere
BY DEF Init, DriftedIsThere

\* Who else writes the Deployment: everybody but a deploy's helm that applies, a
\* DELETE's that removes, and who scales leaves Deployment and field alone.
LEMMA WhoApplies ==
    ASSUME [Next]_vars, applied' # applied \/ manager' # manager
    PROVE  \/ \E t \in Writers : Apply(t)
           \/ \E t \in Deleters : Remove(t)
           \/ \E n \in Replicas : Scale(n)
<1>1. ASSUME NEW t \in Writers, Deploy(t) PROVE Apply(t)
  BY <1>1 DEF Deploy, Submit, Record, RefuseToRecord, Conflict, Reject, LoseRecord,
              Mark, KillUpgrade, world
<1>2. ASSUME NEW t \in Deleters, Teardown(t) PROVE Remove(t)
  BY <1>2 DEF Teardown, Delete, CheckRelease, StartUninstall, Purge,
              UninstallNothing, SilentCheck, KillUninstall, world
<1>3. ASSUME NEW t \in Readers, Reconcile(t) PROVE FALSE
  BY <1>3, ReaderSteps DEF world
<1>4. ASSUME NEW n \in PodNames, NEW to \in PodClasses, MovePod(n, to) PROVE FALSE
  BY <1>4 DEF MovePod
<1>5. ~UNCHANGED vars
  BY DEF vars, world
<1>6. QED
  BY <1>1, <1>2, <1>3, <1>4, <1>5 DEF Next

\* What is applied under someone else's field is never nothing.
LEMMA DriftStep ==
    ASSUME WellFormed, DriftedIsThere, [Next]_vars PROVE DriftedIsThere'
<1>0. \A n \in Replicas : n > 0
  <2>1. \A n \in Nat \ {0} : n > 0
    OBVIOUS
  <2>2. QED
    BY <2>1, ReplicasAssumption
<1>1. ASSUME NEW t \in Writers, Apply(t) PROVE DriftedIsThere'
  <2>1. intent[t] > 0
    <3>1. intent[t] \in Replicas
      BY <1>1 DEF Apply, WellFormed, IntentGiven
    <3>2. QED
      BY <1>0, <3>1
  <2>2. applied' = intent[t]
    BY <1>1 DEF Apply
  <2>3. applied' > 0
    BY <2>1, <2>2
  <2>4. QED
    BY <2>3 DEF DriftedIsThere
<1>2. ASSUME NEW t \in Deleters, Remove(t) PROVE DriftedIsThere'
  BY <1>2 DEF Remove, DriftedIsThere
<1>3. ASSUME NEW n \in Replicas, Scale(n) PROVE DriftedIsThere'
  BY <1>0, <1>3 DEF Scale, DriftedIsThere
<1>4. CASE UNCHANGED <<applied, manager>>
  BY <1>4 DEF DriftedIsThere
<1>5. QED
  BY <1>1, <1>2, <1>3, <1>4, WhoApplies

\* A POST that gets to apply over someone else's field asks for what is applied.
LEMMA DriftStays ==
    ASSUME WellFormed, DriftedIsThere, [Next]_vars, manager = "other",
           applied' # applied \/ manager' # manager
    PROVE  \/ \E t \in Writers : Apply(t) /\ route[t] = "repair"
           \/ \E t \in Deleters : Remove(t)
           \/ \E n \in Replicas : Scale(n)
<1>1. ASSUME NEW t \in Writers, Apply(t), route[t] # "repair" PROVE FALSE
  <2>1. applied > 0 /\ ~Forces(t)
    BY <1>1 DEF DriftedIsThere, Forces
  <2>2. applied = intent[t]
    BY <1>1, <2>1 DEF Apply, Contested
  <2>3. applied' = applied
    BY <1>1, <2>2 DEF Apply
  <2>4. applied # 0 /\ manager' = manager
    BY <1>1, <2>1, ReplicasAssumption DEF Apply, WellFormed, TypeOK
  <2>5. QED
    BY <2>3, <2>4
<1>2. QED
  BY <1>1, WhoApplies

\* What someone else set stays set through every deploy that is not a repair:
\* without any condition on who runs beside whom, or on what is killed.
THEOREM DriftSurvives == Spec => DriftSurvivesDeploys
<1>1. Init => WellFormed /\ DriftedIsThere
  BY WellFormedInit, DriftInit
<1>2. WellFormed /\ DriftedIsThere /\ [Next]_vars => (WellFormed /\ DriftedIsThere)'
  BY WellFormedStep, DriftStep
<1>3. WellFormed /\ DriftedIsThere /\ [Next]_vars =>
        [manager = "other" /\ (applied' # applied \/ manager' # manager)
         => \/ \E t \in Writers : Apply(t) /\ route[t] = "repair"
            \/ \E t \in Deleters : Remove(t)
            \/ \E n \in Replicas : Scale(n)]_vars
  BY DriftStays
<1>4. QED
  BY <1>1, <1>2, <1>3, PTL DEF Spec, DriftSurvivesDeploys

-----------------------------------------------------------------------------
(* The two axes of a release (TwoAxes).                                    *)

\* A release that does not exist is at the start of both axes.
LEMMA AxesInit == Init => Axes!Init
<1> SUFFICES ASSUME Init PROVE Axes!Init
  OBVIOUS
<1>1. history = <<>>
  BY DEF Init
<1>2. Asked = 0 /\ ~Deleting
  BY <1>1 DEF Asked, Deleting
<1>3. QED
  BY <1>1, <1>2, NoHistory DEF Axes!Init, Axes!Nothing, Deleting

\* Both axes are read off the history.
LEMMA AxesUntouched == ASSUME UNCHANGED history PROVE UNCHANGED Axes!vars
BY DEF Axes!vars, Asked, Deleting, Newest

\* Every write of a deploy's helm begins, completes or fails an operation.
LEMMA DeployAxes ==
    ASSUME WellFormed, HistoryInv, NEW t \in Writers, Deploy(t)
    PROVE  Axes!Next \/ UNCHANGED Axes!vars
<1>0. TypeOK /\ Newest \in Nat
  BY LenProperties DEF WellFormed, TypeOK, Newest
<1>1. CASE Record(t)
  <2>1. /\ DesiredReplicas(history') = DesiredReplicas(history)
        /\ LastOperation(history') = "PROCESSING"
        /\ LastOperation(history) # "PROCESSING"
        /\ history' # <<>> /\ Asked' = intent[t] /\ ~Deleting'
    BY <1>1, RecordIntent DEF Asked, Deleting, Pending
  <2>2. ~Deleting
    BY <1>0, <1>1, BusyIsProcessing DEF Record, HelmIsBusy, Deleting
  <2>3. intent[t] \in Replicas
    BY <1>1 DEF Record, WellFormed, IntentGiven
  <2>4. Axes!Begin(intent[t])
    BY <2>1, <2>2 DEF Axes!Begin, Deleting
  <2>5. QED
    BY <2>3, <2>4 DEF Axes!Next
<1>2. CASE Conflict(t) \/ Reject(t)
  <2>1. Active(t) /\ history' = Failed(t)
    BY <1>2 DEF Conflict, Reject, Active
  <2>2. /\ DesiredReplicas(history') = DesiredReplicas(history)
        /\ LastOperation(history') = "FAILED"
        /\ Newest' = Newest /\ history' # <<>>
        /\ history'[Newest].replicas = history[Newest].replicas
        /\ history'[Newest].status = "failed"
    BY <2>1, FailureIntent
  <2>3. LastOperation(history) = "PROCESSING" /\ history # <<>> /\ ~Deleting
    BY <1>0, <2>1, ActiveIsProcessing
  <2>4. Asked' = Asked /\ ~Deleting'
    BY <2>2, <2>3 DEF Asked, Deleting
  <2>5. Axes!Fail
    BY <2>2, <2>3, <2>4 DEF Axes!Fail, Deleting
  <2>6. QED
    BY <2>5 DEF Axes!Next
<1>3. CASE Mark(t)
  <2>1. /\ DesiredReplicas(history') = intent[t]
        /\ LastOperation(history') = "COMPLETED"
        /\ Newest' = Newest /\ history' # <<>>
        /\ history[Newest].replicas = intent[t]
        /\ history'[Newest].replicas = intent[t]
        /\ history'[Newest].status = "deployed"
    BY <1>3, MarkIntent
  <2>2. Active(t)
    BY <1>3 DEF Mark, Active
  <2>3. LastOperation(history) = "PROCESSING" /\ history # <<>> /\ ~Deleting
    BY <1>0, <2>2, ActiveIsProcessing
  <2>4. Asked = intent[t] /\ Asked' = Asked /\ ~Deleting'
    BY <2>1, <2>3 DEF Asked, Deleting
  <2>5. Axes!Complete
    BY <2>1, <2>3, <2>4 DEF Axes!Complete, Deleting
  <2>6. QED
    BY <2>5 DEF Axes!Next
<1>4. CASE UNCHANGED history
  BY <1>4, AxesUntouched
<1>5. QED
  BY <1>1, <1>2, <1>3, <1>4 DEF Deploy, Submit, RefuseToRecord, Apply, LoseRecord,
                               KillUpgrade, world

\* Every write of a DELETE's helm begins the deletion or ends the release.
LEMMA TeardownAxes ==
    ASSUME WellFormed, HistoryInv, Uninstalls, NEW d \in Deleters, Teardown(d)
    PROVE  Axes!Next \/ UNCHANGED Axes!vars
<1>0. TypeOK
  BY DEF WellFormed
<1>1. CASE StartUninstall(d)
  <2>1. /\ DesiredReplicas(history') \in {DesiredReplicas(history), 0}
        /\ LastOperation(history') = "PROCESSING"
        /\ Newest' = Newest /\ Deleting'
        /\ history'[Newest].replicas = history[Newest].replicas
    BY <1>1, UninstallIntent
  <2>2. LastOperation(history) # "UNKNOWN" /\ history # <<>>
    BY <1>0, <1>1, BusyIsProcessing DEF StartUninstall
  <2>3. history' # <<>>
    BY <2>1 DEF Deleting
  <2>4. Asked' = Asked
    BY <2>1, <2>2, <2>3 DEF Asked
  <2>5. Axes!Delete
    BY <2>1, <2>2, <2>4 DEF Axes!Delete, Deleting
  <2>6. QED
    BY <2>5 DEF Axes!Next
<1>2. CASE Purge(d)
  <2>1. Deleting /\ history' = <<>>
    BY <1>2 DEF Purge, Uninstalls
  <2>2. Asked' = 0 /\ Deleting' = FALSE
    BY <2>1 DEF Asked, Deleting
  <2>3. Axes!Vanish
    BY <2>1, <2>2, NoHistory DEF Axes!Vanish, Axes!Nothing
  <2>4. QED
    BY <2>3 DEF Axes!Next
<1>3. CASE UNCHANGED history
  BY <1>3, AxesUntouched
<1>4. QED
  BY <1>1, <1>2, <1>3 DEF Teardown, Delete, CheckRelease, Remove, UninstallNothing,
                          SilentCheck, KillUninstall, world

\* While deploys are kept apart from DELETEs, Lifecycle implements TwoAxes: only
\* an operation that completes changes the intent in effect, and one that begins
\* does so when the last has ended, however many writers and deleters there are
\* and wherever their helm processes are killed.
THEOREM KeepsTwoAxes ==
    ASSUME Writers \cap BesideDelete = {} PROVE Spec => ImplementsTwoAxes
<1> DEFINE Inv == WellFormed /\ Apart /\ HistoryInv /\ EffectInv
<1>1. Init => Inv /\ Axes!Init
  BY WellFormedInit, ApartInit, HistoryInit, EffectInit, AxesInit
<1>2. Inv /\ [Next]_vars => Inv'
  <2>1. WellFormed => TypeOK
    BY DEF WellFormed
  <2>2. QED
    BY <2>1, WellFormedStep, ApartStep, HistoryStep, EffectStep
<1>3. Inv /\ [Next]_vars => [Axes!Next]_(Axes!vars)
  <2> SUFFICES ASSUME Inv, [Next]_vars PROVE Axes!Next \/ UNCHANGED Axes!vars
    OBVIOUS
  <2>1. CASE \E t \in Writers : Deploy(t)
    BY <2>1, DeployAxes
  <2>2. CASE \E d \in Deleters : Teardown(d)
    BY <2>2, TeardownAxes DEF EffectInv
  <2>3. CASE ~(\E t \in Writers : Deploy(t)) /\ ~(\E d \in Deleters : Teardown(d))
    BY <2>3, OthersKeepOut, AxesUntouched
  <2>4. QED
    BY <2>1, <2>2, <2>3
<1>4. QED
  BY <1>1, <1>2, <1>3, PTL DEF Spec, ImplementsTwoAxes, Axes!Spec

-----------------------------------------------------------------------------
(* Failed operations.                                                      *)

\* Once something is deployed, the state depends on the history only through the
\* intent in effect.
LEMMA StateByIntent ==
    ASSUME NEW h \in Seq(Revision), NEW g \in Seq(Revision), NEW p,
           OneDeployed(h), DeployedRevision(h) # 0,
           Deployed(g) = Deployed(h), KeepsCounts(h, g)
    PROVE  StateAt(g, p) = StateAt(h, p)
<1>1. \A r \in Deployed(h) : r \in DOMAIN h /\ g[r].replicas = h[r].replicas
  BY DEF Deployed, Revisions, KeepsCounts
<1>2. /\ DesiredReplicas(g) = DesiredReplicas(h)
      /\ DeployedRevision(g) = DeployedRevision(h)
  BY <1>1, SameIntent DEF DeployedRevision, Deployed
<1>3. DeployedRevision(h) \in DOMAIN h /\ DeployedRevision(h) \in DOMAIN g
  BY DeployedIsLatest DEF Deployed, Revisions
<1>4. h # <<>> /\ g # <<>>
  BY <1>3, EmptySeq, LenProperties
<1>5. QED
  BY <1>2, <1>4 DEF StateAt, DeriveState, ExistingState

\* What a deploy writes until it succeeds leaves the intent in effect alone.
LEMMA FailureKeepsState ==
    ASSUME WellFormed, HistoryInv, NEW t \in Writers, DeployedRevision(history) # 0,
           Record(t) \/ RefuseToRecord(t) \/ Conflict(t) \/ Reject(t)
    PROVE  StateAt(history, pods)' = StateAt(history, pods)
<1>0. history \in Seq(Revision) /\ OneDeployed(history)
  BY DEF WellFormed, TypeOK, HistoryInv
<1>1. CASE Record(t)
  <2> DEFINE e == [status   |-> IF history = <<>> THEN "pending-install" ELSE "pending-upgrade",
                   replicas |-> intent[t]]
  <2>1. e \in Revision /\ e.status # "deployed"
    BY <1>1 DEF Record, WellFormed, IntentGiven, Revision, Statuses
  <2>2. history' = Append(history, e) /\ pods' = pods
    BY <1>1 DEF Record
  <2>3. /\ Append(history, e) \in Seq(Revision)
        /\ Deployed(Append(history, e)) = Deployed(history)
        /\ KeepsCounts(history, Append(history, e))
    BY <1>0, <2>1, RecordKeeps
  <2> HIDE DEF e
  <2>4. QED
    BY <1>0, <2>2, <2>3, StateByIntent
<1>2. CASE RefuseToRecord(t)
  BY <1>2 DEF RefuseToRecord, world
<1>3. CASE Conflict(t) \/ Reject(t)
  <2>1. Active(t) /\ history' = Failed(t) /\ pods' = pods
    BY <1>3 DEF Conflict, Reject, Active
  <2>2. /\ Failed(t) \in Seq(Revision)
        /\ Deployed(Failed(t)) = Deployed(history)
        /\ KeepsCounts(history, Failed(t))
    BY <2>1, FailureKeeps
  <2>3. QED
    BY <1>0, <2>1, <2>2, StateByIntent
<1>4. QED
  BY <1>1, <1>2, <1>3

\* While deploys are kept apart from DELETEs, one that starts, is refused,
\* rejected or meets a conflict leaves the state of a release that was deployed
\* before where it was, though others' helm processes were killed in the middle
\* of theirs.
THEOREM FailuresChangeNoState ==
    ASSUME Writers \cap BesideDelete = {} PROVE Spec => FailedOperationChangesNoState
<1> DEFINE Inv == WellFormed /\ Apart /\ HistoryInv
<1>1. Init => Inv
  BY WellFormedInit, ApartInit, HistoryInit
<1>2. Inv /\ [Next]_vars => Inv'
  <2>1. WellFormed => TypeOK
    BY DEF WellFormed
  <2>2. QED
    BY <2>1, WellFormedStep, ApartStep, HistoryStep
<1>3. Inv /\ [Next]_vars =>
        [\A t \in Writers :
            /\ Record(t) \/ RefuseToRecord(t) \/ Conflict(t) \/ Reject(t)
            /\ DeployedRevision(history) # 0
            => StateAt(history, pods)' = StateAt(history, pods)]_vars
  BY FailureKeepsState
<1>4. QED
  BY <1>1, <1>2, <1>3, PTL DEF Spec, FailedOperationChangesNoState

-----------------------------------------------------------------------------
(* Absence.                                                                *)

\* Whoever answers, answers what it found: each step that ends a request, and
\* what may be concluded from its answer.
Truthful(t) ==
    /\ answer'[t] \in {"NOT_INSTANTIATED", "nothing"} => history = <<>>
    /\ answer'[t] = "torn down" => history' = <<>>

\* derive_state itself never says that a release does not exist.
LEMMA ExistingStates ==
    ASSUME NEW p, NEW d, NEW o, NEW e
    PROVE  DeriveState(p, d, o, e) \in {"INSTANTIATING", "INSTANTIATED", "FAILED"}
BY DEF DeriveState, ExistingState

\* An answer that claims no absence.
LEMMA HarmlessAnswer ==
    ASSUME TypeOK, NEW t \in Threads, NEW a, Answer(t, a),
           a \notin {"NOT_INSTANTIATED", "nothing", "torn down"}
    PROVE  Truthful(t)
BY DEF TypeOK, Answer, NoAnswer, Truthful

\* Only the request that takes a step may end by it.
LEMMA OnlyTheStepping ==
    ASSUME TypeOK, NEW t \in Threads, NEW u \in Threads, t # u,
           \/ t \in Writers /\ Deploy(t)
           \/ t \in Deleters /\ Teardown(t)
           \/ t \in Readers /\ Reconcile(t)
    PROVE  pc'[u] = pc[u]
BY DEF TypeOK, Deploy, Teardown, Reconcile, Submit, Record, RefuseToRecord, Conflict,
       Apply, Reject, Mark, LoseRecord, KillUpgrade, KillUninstall, Delete,
       CheckRelease, StartUninstall,
       Remove, Purge, UninstallNothing, Get, ReadHistory, ReadValues, ValuesGone,
       ReadPods, SilentRead, SilentCheck, EndDeploy, EndDelete, EndGet, Answer,
       Goto

LEMMA DeployIsTruthful ==
    ASSUME WellFormed, NEW t \in Writers, Deploy(t), pc[t] # "idle", pc'[t] = "idle"
    PROVE  Truthful(t)
<1>1. TypeOK /\ t \in Threads
  BY DEF WellFormed, Threads
<1>2. CASE Record(t) \/ Apply(t) \/ \E n \in Replicas, r \in {"deploy", "repair"} : Submit(t, n, r)
  BY <1>1, <1>2 DEF Record, Apply, Submit, Goto, TypeOK
<1>3. CASE Mark(t)
  BY <1>1, <1>3, HarmlessAnswer DEF EndDeploy, Mark
<1>4. CASE RefuseToRecord(t) \/ Conflict(t) \/ Reject(t) \/ LoseRecord(t)
  BY <1>1, <1>4, HarmlessAnswer
     DEF EndDeploy, RefuseToRecord, Conflict, Reject, LoseRecord
<1>5. CASE KillUpgrade(t)
  BY <1>1, <1>5, HarmlessAnswer DEF EndDeploy, KillUpgrade
<1>6. QED
  BY <1>2, <1>3, <1>4, <1>5 DEF Deploy

LEMMA TeardownIsTruthful ==
    ASSUME WellFormed, NEW t \in Deleters, Teardown(t), pc[t] # "idle", pc'[t] = "idle"
    PROVE  Truthful(t)
<1>1. TypeOK /\ t \in Threads
  BY DEF WellFormed, Threads
<1>2. CASE Delete(t) \/ StartUninstall(t) \/ Remove(t)
  BY <1>1, <1>2 DEF Delete, StartUninstall, Remove, Goto, TypeOK
<1>3. CASE CheckRelease(t)
  <2>1. CASE NoRelease
    BY <1>1, <1>3, <2>1 DEF CheckRelease, NoRelease, EndDelete, Answer, NoAnswer,
                                TypeOK, Truthful
  <2>2. CASE ~NoRelease
    BY <1>1, <1>3, <2>2 DEF CheckRelease, Goto, TypeOK
  <2>3. QED
    BY <2>1, <2>2
<1>4. CASE Purge(t)
  BY <1>1, <1>4 DEF Purge, EndDelete, Answer, NoAnswer, TypeOK, Truthful
<1>5. CASE UninstallNothing(t) \/ KillUninstall(t)
  BY <1>1, <1>5, HarmlessAnswer DEF EndDelete, UninstallNothing, KillUninstall
<1>6. CASE SilentCheck(t)
  BY <1>1, <1>6, HarmlessAnswer DEF EndDelete, SilentCheck, OnSilence
<1>7. QED
  BY <1>2, <1>3, <1>4, <1>5, <1>6 DEF Teardown

LEMMA ReconcileIsTruthful ==
    ASSUME WellFormed, NEW t \in Readers, Reconcile(t), pc[t] # "idle", pc'[t] = "idle"
    PROVE  Truthful(t)
<1>1. TypeOK /\ t \in Threads
  BY DEF WellFormed, Threads
<1>2. CASE Get(t) \/ ReadValues(t)
  BY <1>1, <1>2 DEF Get, ReadValues, Goto, TypeOK
<1>3. CASE ReadHistory(t)
  <2>1. CASE history = <<>>
    BY <1>1, <1>3, <2>1 DEF ReadHistory, EndGet, Answer, NoAnswer, TypeOK, Truthful
  <2>2. CASE history # <<>>
    BY <1>1, <1>3, <2>2 DEF ReadHistory, Goto, TypeOK
  <2>3. QED
    BY <2>1, <2>2
<1>4. CASE ValuesGone(t)
  BY <1>1, <1>4, HarmlessAnswer DEF EndGet, ValuesGone
<1>5. CASE ReadPods(t)
  <2> DEFINE a == DeriveState(pods, desired[t], LastOperation(seen[t]),
                              DeployedRevision(seen[t]) # 0)
  <2>1. Answer(t, a)
    BY <1>5 DEF ReadPods, EndGet
  <2>2. a \notin {"NOT_INSTANTIATED", "nothing", "torn down"}
    BY ExistingStates
  <2> HIDE DEF a
  <2>3. QED
    BY <1>1, <2>1, <2>2, HarmlessAnswer
<1>6. CASE SilentRead(t)
  BY <1>1, <1>6, HarmlessAnswer DEF EndGet, SilentRead, OnSilence
<1>7. QED
  BY <1>2, <1>3, <1>4, <1>5, <1>6 DEF Reconcile

LEMMA AnswersAreTruthful ==
    ASSUME WellFormed, [Next]_vars, NEW u \in Threads, pc[u] # "idle", pc'[u] = "idle"
    PROVE  Truthful(u)
<1>1. ASSUME NEW t \in Threads,
             \/ t \in Writers /\ Deploy(t)
             \/ t \in Deleters /\ Teardown(t)
             \/ t \in Readers /\ Reconcile(t)
      PROVE  Truthful(u)
  <2>1. t = u
    BY <1>1, OnlyTheStepping DEF WellFormed
  <2>2. QED
    BY <1>1, <2>1, DeployIsTruthful, TeardownIsTruthful, ReconcileIsTruthful
<1>2. ASSUME NEW n \in PodNames, NEW to \in PodClasses, MovePod(n, to)
      PROVE  FALSE
  BY <1>2 DEF MovePod, requests
<1>3. ASSUME NEW n \in Replicas, Scale(n) PROVE FALSE
  BY <1>3 DEF Scale, requests
<1>4. CASE UNCHANGED vars
  BY <1>4 DEF vars, requests
<1>5. QED
  BY <1>1, <1>2, <1>3, <1>4 DEF Next, Threads

\* An answer that says there is no release, or that it is gone, was true when it
\* was given: no silence, killed helm or half-done uninstall of another request
\* reads as an absence.
THEOREM AbsenceIsReal == Spec => NotInstantiatedMeansAbsent
<1>1. WellFormed /\ [Next]_vars =>
        [\A t \in Threads :
            pc[t] # "idle" /\ pc'[t] = "idle" =>
               /\ answer'[t] \in {"NOT_INSTANTIATED", "nothing"} => history = <<>>
               /\ answer'[t] = "torn down" => history' = <<>>]_vars
  BY AnswersAreTruthful DEF Truthful
<1>2. QED
  BY <1>1, WellFormedInit, WellFormedStep, PTL DEF Spec, NotInstantiatedMeansAbsent
=============================================================================
