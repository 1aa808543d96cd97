----------------------------- MODULE CallsProofs -----------------------------
(***************************************************************************)
(* Theorems about Calls, for every set of threads and every value of the   *)
(* timeouts, windows and suspensions.                                      *)
(***************************************************************************)
EXTENDS Calls, FiniteSetTheorems, TLAPS

-----------------------------------------------------------------------------
(* classify_error, and what a class says of who spoke.                     *)

\* A text with a marker is read by the first family that is asked about.
LEMMA FirstFamily ==
    ASSUME NEW text \in Texts, text # {}
    PROVE  \E m \in text : /\ \A n \in text : MarkerRank[m] <= MarkerRank[n]
                           /\ Classify(text) = MarkerClass[m]
<1>1. \E m \in text : \A n \in text : MarkerRank[m] <= MarkerRank[n]
  <2>1. CASE "exhaustion" \in text
    BY <2>1 DEF Texts, Markers, MarkerRank
  <2>2. CASE "exhaustion" \notin text /\ "rejected" \in text
    BY <2>2 DEF Texts, Markers, MarkerRank
  <2>3. CASE {"exhaustion", "rejected"} \cap text = {} /\ "busy" \in text
    BY <2>3 DEF Texts, Markers, MarkerRank
  <2>4. CASE {"exhaustion", "rejected", "busy"} \cap text = {} /\ "unreachable" \in text
    BY <2>4 DEF Texts, Markers, MarkerRank
  <2>5. CASE text = {"conflict"}
    BY <2>5 DEF MarkerRank
  <2>6. QED
    BY <2>1, <2>2, <2>3, <2>4, <2>5 DEF Texts, Markers
<1>2. QED
  BY <1>1 DEF Classify

\* classify_error answers every text with one of the error classes.
LEMMA ClassifyType ==
    ASSUME NEW text \in Texts PROVE Classify(text) \in DeployErrors
<1>1. \A m \in Markers : MarkerClass[m] \in DeployErrors
  BY DEF Markers, MarkerClass, DeployErrors, HostClasses, ClusterClasses
<1>2. CASE text = {}
  BY <1>2 DEF Classify, DeployErrors
<1>3. CASE text # {}
  BY <1>1, <1>3, FirstFamily DEF Texts
<1>4. QED
  BY <1>2, <1>3

\* Only what a probe cost says that this host is overloaded, never a text.
LEMMA ClassifyNeverOverloaded ==
    ASSUME NEW text \in Texts PROVE Classify(text) # "HostOverloaded"
<1>1. \A m \in Markers : MarkerClass[m] # "HostOverloaded"
  BY DEF Markers, MarkerClass
<1>2. CASE text = {}
  BY <1>2 DEF Classify
<1>3. CASE text # {}
  BY <1>1, <1>3, FirstFamily DEF Texts
<1>4. QED
  BY <1>2, <1>3

\* What the cluster served is never read as its absence; and only a tool that the
\* cluster spoke to writes what is read as throttling or as a conflict.
LEMMA ClassTellsWhoSpoke ==
    ASSUME NEW exit \in CommandExits
    PROVE  /\ exit.text \in Texts
           /\ Serves(exit) => CountsAsHeard(exit.text)
           /\ Classify(exit.text) \in {"ClusterBusy", "ClusterConflict"} => Serves(exit)
           /\ Classify(exit.text) = "DeployError" => exit.text = {}
<1>1. exit.text \in Texts /\ exit.said \in BOOLEAN /\ Worded(exit)
  BY ExitsAssumption
<1>2. CASE exit.text = {}
  BY <1>1, <1>2 DEF Classify, CountsAsHeard
<1>3. CASE exit.text # {}
  <2>1. PICK m \in exit.text :
            /\ \A n \in exit.text : MarkerRank[m] <= MarkerRank[n]
            /\ Classify(exit.text) = MarkerClass[m]
    BY <1>1, <1>3, FirstFamily
  <2>2. m \in Markers
    BY <1>1 DEF Texts
  <2>3. Classify(exit.text) # "DeployError"
    BY <2>1, <2>2 DEF Markers, MarkerClass
  <2>4. ASSUME Serves(exit) PROVE m # "unreachable"
    BY <2>1, <2>4 DEF Serves, MarkerRank
  <2>5. CASE m = "busy"
    BY <1>1, <2>1, <2>5 DEF Worded, Serves, MarkerClass, CountsAsHeard
  <2>6. CASE m = "conflict"
    <3>1. "unreachable" \notin exit.text
      BY <2>1, <2>6 DEF MarkerRank
    <3>2. QED
      BY <1>1, <2>1, <2>6, <3>1 DEF Worded, Serves, MarkerClass, CountsAsHeard
  <2>7. CASE m \in {"exhaustion", "rejected", "unreachable"}
    BY <1>1, <2>1, <2>3, <2>4, <2>7 DEF MarkerClass, CountsAsHeard
  <2>8. QED
    BY <2>2, <2>5, <2>6, <2>7 DEF Markers
<1>4. QED
  BY <1>2, <1>3

\* A probe that found this host unable to run kubectl carries an error class.
LEMMA SpawnFailureType ==
    ASSUME NEW errno PROVE SpawnFailure(errno) \in SpawnFailures
BY DEF SpawnFailure, SpawnFailures, NoFailure

\* check_cluster ends with a verdict, whatever its probe looks like.
LEMMA CheckVerdictType ==
    ASSUME NEW p \in ProbeViews PROVE CheckVerdict(p) \in Verdicts
<1>1. p.spawnFailure \in SpawnFailures /\ p.error \in Texts \cup {None}
  BY DEF ProbeViews
<1>2. p.error # None => Classify(p.error) \in DeployErrors
  BY <1>1, ClassifyType
<1>3. p.spawnFailure # NoFailure => p.spawnFailure \in DeployErrors
  BY <1>1 DEF SpawnFailures, DeployErrors, HostClasses
<1>4. QED
  BY <1>2, <1>3 DEF CheckVerdict, Verdicts, DeployErrors, HostClasses, ClusterClasses

-----------------------------------------------------------------------------
(* The thread-local helpers keep the threads' records in shape.            *)

\* A call that ends leaves the records of the threads well formed.
LEMMA EndType ==
    ASSUME ThreadsOK, NEW t \in Threads, NEW v \in Verdicts, End(t, v)
    PROVE  ThreadsOK' /\ pc' = [pc EXCEPT ![t] = "idle"]
BY DEF ThreadsOK, End, Stages, Requests

\* So does one that asks for a probe,
LEMMA RequestType ==
    ASSUME ThreadsOK, NEW t \in Threads, NEW s \in Stages, NEW r \in Requests,
           Request(t, s, r), escalations' \in [Threads -> Nat]
    PROVE  ThreadsOK' /\ pc' = [pc EXCEPT ![t] = "waiting"]
BY DEF ThreadsOK, Request

\* and one that goes on to its next stage with the cached probe.
LEMMA ProceedType ==
    ASSUME ThreadsOK, NEW t \in Threads, NEW s \in Stages, Proceed(t, s)
    PROVE  ThreadsOK' /\ pc' = [pc EXCEPT ![t] = "waiting"]
<1>1. escalations' \in [Threads -> Nat] /\ "cached" \in Requests
  BY DEF ThreadsOK, Proceed, Requests
<1>2. QED
  BY <1>1, RequestType DEF Proceed

\* A thread that got its probe is back, or waits for another one.
LEMMA DeliverType ==
    ASSUME ThreadsOK, NEW t \in Threads, NEW p \in ProbeViews, Deliver(t, p)
    PROVE  /\ ThreadsOK'
           /\ \/ pc' = [pc EXCEPT ![t] = "idle"]
              \/ pc' = [pc EXCEPT ![t] = "waiting"]
<1>1. p.spawnFailure \in SpawnFailures
  BY DEF ProbeViews
<1>2. CASE Escalate(t, p)
  <2>1. stage[t] \in Stages /\ "escalated" \in Requests
    BY DEF ThreadsOK, Requests
  <2>2. escalations' \in [Threads -> Nat]
    BY <1>2 DEF Escalate, ThreadsOK
  <2>3. QED
    BY <1>2, <2>1, <2>2, RequestType DEF Escalate
<1>3. CASE AskFailure(t, p)
  <2>1. SaysWhy(p) => p.spawnFailure \in Verdicts
    BY <1>1 DEF SaysWhy, SpawnFailures, NoFailure, Verdicts, DeployErrors, HostClasses
  <2>2. "local" \in Stages
    BY DEF Stages
  <2>3. QED
    BY <1>3, <2>1, <2>2, EndType, ProceedType DEF AskFailure
<1>4. CASE AskLocalDelay(t, p)
  <2>1. "evidence" \in Stages /\ HostVerdict(p) \in Verdicts
    BY DEF Stages, HostVerdict, Verdicts, DeployErrors, HostClasses
  <2>2. QED
    BY <1>4, <2>1, EndType, ProceedType DEF AskLocalDelay
<1>5. CASE AskEvidence(t, p)
  <2>1. {"ClusterBusy", "ClusterUnreachable"} \subseteq Verdicts
    BY DEF Verdicts, DeployErrors, ClusterClasses
  <2>2. QED
    BY <1>5, <2>1, EndType DEF AskEvidence
<1>6. CASE AskReadiness(t, p)
  BY <1>6, CheckVerdictType, EndType DEF AskReadiness
<1>7. QED
  BY <1>2, <1>3, <1>4, <1>5, <1>6 DEF Deliver

\* An age moves by at most one and stays within one past its bound.
LEMMA OlderType ==
    ASSUME NEW limit \in Nat, NEW age \in 0..(limit + 1)
    PROVE  Older(age, limit) \in 0..(limit + 1)
BY DEF Older

\* Service counts as late at least as long as a success, and as an answer that
\* was stored as late as a thread may store one.
LEMMA LatelyType ==
    /\ Lately \in Nat /\ RecentSuccess \in Nat /\ ProbeTTL \in Nat /\ MaxPause \in Nat
    /\ RecentSuccess <= Lately
    /\ ProbeTTL + MaxPause <= Lately
BY WindowsAssumption DEF Lately

-----------------------------------------------------------------------------
(* Type correctness, and one probe at a time.  Each needs the other: while  *)
(* one thread may have a record to store, there is one record to keep.      *)

\* The initial states are well formed.
LEMMA TypeInit == Init => TypeOK
BY ThreadsAssumption, LatelyType
   DEF Init, TypeOK, ThreadsOK, SharedOK, Stages, Requests

\* At the start nobody probes.
LEMMA LockInit == Init => OneProbeAtATime
BY ThreadsAssumption DEF Init, OneProbeAtATime

\* Whoever comes from elsewhere and goes elsewhere leaves the record to its owner.
LEMMA RecordStays ==
    ASSUME ThreadsOK, SharedOK, NEW t \in Threads, pc[t] # "stamping",
           NEW where \in {"idle", "running", "waiting", "probing"},
           pc' = [pc EXCEPT ![t] = where], measured' = measured,
           probeLock' \in Threads \cup {NoThread},
           probe' \in ProbeViews \cup {None}, probeAge' \in 0..(ProbeTTL + 1),
           lastSuccess' \in 0..(RecentSuccess + 1), served' \in 0..(Lately + 1)
    PROVE  SharedOK'
<1>1. (\E u \in Threads : pc'[u] = "stamping") <=> (\E u \in Threads : pc[u] = "stamping")
  BY DEF ThreadsOK
<1>2. QED
  BY <1>1 DEF SharedOK

\* Every step keeps the state well formed.
LEMMA TypeStep == TypeOK /\ OneProbeAtATime /\ [Next]_vars => TypeOK'
<1> SUFFICES ASSUME TypeOK, OneProbeAtATime, [Next]_vars PROVE TypeOK'
  OBVIOUS
<1>0. /\ ThreadsOK /\ SharedOK
      /\ Callers \subseteq Threads /\ Checkers \subseteq Threads
      /\ probeLock \in Threads \cup {NoThread} /\ probe \in ProbeViews \cup {None}
      /\ probeAge \in 0..(ProbeTTL + 1)
      /\ lastSuccess \in 0..(RecentSuccess + 1) /\ served \in 0..(Lately + 1)
      /\ 0 \in 0..(ProbeTTL + 1) /\ 0 \in 0..(RecentSuccess + 1) /\ 0 \in 0..(Lately + 1)
  BY LatelyType DEF TypeOK, SharedOK, Threads
<1> USE DEF TypeOK
<1>1. ASSUME NEW t \in Callers, Spawn(t) PROVE TypeOK'
  <2>1. ThreadsOK' /\ pc' = [pc EXCEPT ![t] = "running"] /\ pc[t] # "stamping"
    BY <1>0, <1>1 DEF Spawn, ThreadsOK
  <2>2. QED
    BY <1>0, <1>1, <2>1, RecordStays DEF Spawn, sharedVars
<1>2. ASSUME NEW t \in Callers, NEW errno \in SpawnErrors, SpawnFails(t, errno)
      PROVE TypeOK'
  <2>1. (IF SpawnFailure(errno) = NoFailure THEN "OSError"
                                           ELSE SpawnFailure(errno)) \in Verdicts
    BY SpawnFailureType DEF SpawnFailures, NoFailure, Verdicts, DeployErrors, HostClasses
  <2>2. ThreadsOK' /\ pc' = [pc EXCEPT ![t] = "idle"] /\ pc[t] # "stamping"
    BY <1>0, <1>2, <2>1, EndType DEF SpawnFails
  <2>3. QED
    BY <1>0, <1>2, <2>2, RecordStays DEF SpawnFails, sharedVars
<1>3. ASSUME NEW t \in Callers, Succeed(t) PROVE TypeOK'
  <2>1. "ok" \in Verdicts
    BY DEF Verdicts
  <2>2. ThreadsOK' /\ pc' = [pc EXCEPT ![t] = "idle"] /\ pc[t] # "stamping"
    BY <1>0, <1>3, <2>1, EndType DEF Succeed
  <2>3. QED
    BY <1>0, <1>3, <2>2, RecordStays DEF Succeed
<1>4. ASSUME NEW t \in Callers, NEW exit \in CommandExits, Fail(t, exit)
      PROVE TypeOK'
  <2>1. Classify(exit.text) \in Verdicts
    BY ClassTellsWhoSpoke, ClassifyType DEF Verdicts
  <2>2. ThreadsOK' /\ pc' = [pc EXCEPT ![t] = "idle"] /\ pc[t] # "stamping"
    BY <1>0, <1>4, <2>1, EndType DEF Fail
  <2>3. lastSuccess' \in {0, lastSuccess} /\ served' \in {0, served}
    BY <1>4 DEF Fail
  <2>4. QED
    BY <1>0, <1>4, <2>2, <2>3, RecordStays DEF Fail
<1>5. ASSUME NEW t \in Callers, TimeOut(t) PROVE TypeOK'
  <2>1. "failure" \in Stages
    BY DEF Stages
  <2>2. ThreadsOK' /\ pc' = [pc EXCEPT ![t] = "waiting"] /\ pc[t] # "stamping"
    BY <1>0, <1>5, <2>1, ProceedType DEF TimeOut
  <2>3. QED
    BY <1>0, <1>5, <2>2, RecordStays DEF TimeOut, sharedVars
<1>6. ASSUME NEW t \in Checkers, Check(t) PROVE TypeOK'
  <2>1. ThreadsOK' /\ pc' = [pc EXCEPT ![t] = "waiting"] /\ pc[t] # "stamping"
    BY <1>0, <1>6 DEF Check, ThreadsOK, Stages, Requests
  <2>2. QED
    BY <1>0, <1>6, <2>1, RecordStays DEF Check, sharedVars
<1>7. ASSUME NEW t \in Checkers, ToolsMissing(t) PROVE TypeOK'
  <2>1. "HostMisconfigured" \in Verdicts
    BY DEF Verdicts, DeployErrors, HostClasses
  <2>2. ThreadsOK' /\ pc' = [pc EXCEPT ![t] = "idle"] /\ pc[t] # "stamping"
    BY <1>0, <1>7, <2>1, EndType DEF ToolsMissing
  <2>3. QED
    BY <1>0, <1>7, <2>2, RecordStays DEF ToolsMissing, sharedVars
<1>8. ASSUME NEW t \in Threads, UseCached(t) PROVE TypeOK'
  <2>1. probe \in ProbeViews /\ Deliver(t, probe) /\ pc[t] # "stamping"
    BY <1>8 DEF UseCached, Reusable, Fresh, SharedOK
  <2>2. /\ ThreadsOK'
        /\ \/ pc' = [pc EXCEPT ![t] = "idle"]
           \/ pc' = [pc EXCEPT ![t] = "waiting"]
    BY <1>0, <2>1, DeliverType
  <2>3. QED
    BY <1>0, <1>8, <2>1, <2>2, RecordStays DEF UseCached, sharedVars
<1>9. ASSUME NEW t \in Threads, StartProbe(t) PROVE TypeOK'
  <2>1. ThreadsOK' /\ pc' = [pc EXCEPT ![t] = "probing"] /\ pc[t] # "stamping"
    BY <1>0, <1>9 DEF StartProbe, ThreadsOK
  <2>2. QED
    BY <1>0, <1>9, <2>1, RecordStays DEF StartProbe
<1>10. ASSUME NEW t \in Threads, NEW p \in ProbeResults, ProbeEnds(t, p)
       PROVE TypeOK'
  <2>1. p \in ProbeViews
    BY ProbeResultsAssumption
  <2>2. ThreadsOK' /\ pc'[t] = "stamping"
    BY <1>0, <1>10 DEF ProbeEnds, ThreadsOK
  <2>3. lastSuccess' \in {0, lastSuccess} /\ served' \in {0, served}
    BY <1>10 DEF ProbeEnds
  <2>4. SharedOK'
    BY <1>0, <1>10, <2>1, <2>2, <2>3 DEF ProbeEnds, SharedOK
  <2>5. QED
    BY <2>2, <2>4
<1>11. ASSUME NEW t \in Threads, Stamp(t) PROVE TypeOK'
  <2>1. measured \in ProbeViews /\ Deliver(t, measured)
    BY <1>11 DEF Stamp, SharedOK
  <2>2. /\ ThreadsOK'
        /\ \/ pc' = [pc EXCEPT ![t] = "idle"]
           \/ pc' = [pc EXCEPT ![t] = "waiting"]
    BY <1>0, <2>1, DeliverType
  <2>3. \A u \in Threads \ {t} : pc[u] # "stamping"
    BY <1>11 DEF Stamp, OneProbeAtATime
  <2>4. \A u \in Threads : pc'[u] # "stamping"
    BY <1>0, <2>2, <2>3 DEF ThreadsOK
  <2>5. SharedOK'
    BY <1>0, <1>11, <2>1, <2>4 DEF Stamp, LockAfter, SharedOK
  <2>6. QED
    BY <2>2, <2>5
<1>12. ASSUME Tick PROVE TypeOK'
  <2>1. ThreadsOK'
    BY <1>12 DEF Tick, ThreadsOK
  <2>2. /\ probeAge' \in 0..(ProbeTTL + 1)
        /\ lastSuccess' \in 0..(RecentSuccess + 1)
        /\ served' \in 0..(Lately + 1)
    BY <1>0, <1>12, OlderType, LatelyType DEF Tick
  <2>3. QED
    BY <1>0, <1>12, <2>1, <2>2 DEF Tick, SharedOK
<1>13. CASE UNCHANGED vars
  BY <1>13 DEF vars, threadVars, sharedVars, ThreadsOK, SharedOK
<1>14. QED
  BY <1>1, <1>2, <1>3, <1>4, <1>5, <1>6, <1>7, <1>8, <1>9, <1>10, <1>11, <1>12, <1>13
     DEF Next, Command, Readiness, AskProbe

\* Only the thread that takes a free lock starts to probe, and only the thread
\* that probes gives the lock back.
LEMMA LockStep == TypeOK /\ OneProbeAtATime /\ [Next]_vars => OneProbeAtATime'
<1> SUFFICES ASSUME TypeOK, OneProbeAtATime, [Next]_vars PROVE OneProbeAtATime'
  OBVIOUS
<1> USE DEF OneProbeAtATime
<1>0. pc \in [Threads -> {"idle", "running", "waiting", "probing", "stamping"}]
  BY DEF TypeOK, ThreadsOK
<1>1. ASSUME NEW t \in Callers, Spawn(t) PROVE OneProbeAtATime'
  BY <1>0, <1>1 DEF Spawn, sharedVars
<1>2. ASSUME NEW t \in Callers, NEW errno \in SpawnErrors, SpawnFails(t, errno)
      PROVE OneProbeAtATime'
  BY <1>0, <1>2 DEF SpawnFails, End, sharedVars
<1>3. ASSUME NEW t \in Callers, Succeed(t) PROVE OneProbeAtATime'
  BY <1>0, <1>3 DEF Succeed, End
<1>4. ASSUME NEW t \in Callers, NEW exit \in CommandExits, Fail(t, exit)
      PROVE OneProbeAtATime'
  BY <1>0, <1>4 DEF Fail, End
<1>5. ASSUME NEW t \in Callers, TimeOut(t) PROVE OneProbeAtATime'
  BY <1>0, <1>5 DEF TimeOut, Proceed, Request, sharedVars
<1>6. ASSUME NEW t \in Checkers, Check(t) PROVE OneProbeAtATime'
  BY <1>0, <1>6 DEF Check, sharedVars
<1>7. ASSUME NEW t \in Checkers, ToolsMissing(t) PROVE OneProbeAtATime'
  BY <1>0, <1>7 DEF ToolsMissing, End, sharedVars
<1>8. ASSUME NEW t \in Threads, UseCached(t) PROVE OneProbeAtATime'
  <2>1. probe \in ProbeViews
    BY <1>8 DEF UseCached, Reusable, Fresh, TypeOK, SharedOK
  <2>2. \/ pc' = [pc EXCEPT ![t] = "idle"]
        \/ pc' = [pc EXCEPT ![t] = "waiting"]
    BY <1>8, <2>1, DeliverType DEF UseCached, TypeOK
  <2>3. QED
    BY <1>0, <1>8, <2>2 DEF UseCached, sharedVars
<1>9. ASSUME NEW t \in Threads, StartProbe(t) PROVE OneProbeAtATime'
  BY <1>0, <1>9, ThreadsAssumption DEF StartProbe, LockFree
<1>10. ASSUME NEW t \in Threads, NEW p \in ProbeResults, ProbeEnds(t, p)
       PROVE OneProbeAtATime'
  BY <1>0, <1>10 DEF ProbeEnds
<1>11. ASSUME NEW t \in Threads, Stamp(t) PROVE OneProbeAtATime'
  <2>1. measured \in ProbeViews /\ Deliver(t, measured)
    BY <1>11 DEF Stamp, TypeOK, SharedOK
  <2>2. \/ pc' = [pc EXCEPT ![t] = "idle"]
        \/ pc' = [pc EXCEPT ![t] = "waiting"]
    BY <2>1, DeliverType DEF TypeOK
  <2>3. QED
    BY <1>0, <1>11, <2>2, ThreadsAssumption DEF Stamp, LockAfter
<1>12. ASSUME Tick PROVE OneProbeAtATime'
  BY <1>12 DEF Tick
<1>13. CASE UNCHANGED vars
  BY <1>13 DEF vars, threadVars, sharedVars
<1>14. QED
  BY <1>1, <1>2, <1>3, <1>4, <1>5, <1>6, <1>7, <1>8, <1>9, <1>10, <1>11, <1>12, <1>13
     DEF Next, Command, Readiness, AskProbe

\* The two together are inductive.
LEMMA SoundInit == Init => TypeOK /\ OneProbeAtATime
BY TypeInit, LockInit

LEMMA SoundStep == TypeOK /\ OneProbeAtATime /\ [Next]_vars => (TypeOK /\ OneProbeAtATime)'
BY TypeStep, LockStep

\* Every reachable state is well formed, whatever the bounds are.
THEOREM TypeCorrect == Spec => []TypeOK
BY SoundInit, SoundStep, PTL DEF Spec

\* The lock does what its docstring says: one kubectl /readyz at a time, and the
\* thread that runs it, or has still to store what it said, holds the lock.
THEOREM MutualExclusion == Spec => []OneProbeAtATime
BY SoundInit, SoundStep, PTL DEF Spec

-----------------------------------------------------------------------------
(* The price of a call: how often it asks a probe again.                   *)

\* How many escalations a thread may have asked for when it asks this: one for
\* each stage it has left behind, and one more if this is an escalated probe.
Behind(s)  == CASE s = "local" -> 1 [] s = "evidence" -> 2 [] OTHER -> 0
Paid(s, r) == IF s = "check" \/ r = "cached" THEN Behind(s) ELSE Behind(s) + 1

Frugal ==
    \A t \in Threads :
        /\ escalations[t] <= Paid(stage[t], request[t])
        /\ stage[t] = "check" => request[t] = "now"
        /\ pc[t] \in {"idle", "running"} => stage[t] = "failure" /\ request[t] = "cached"

\* A call that ends has nothing on its account.
LEMMA FrugalEnd ==
    ASSUME ThreadsOK, Frugal, NEW t \in Threads, NEW v, End(t, v)
    PROVE  Frugal'
<1>1. /\ stage'[t] = "failure" /\ request'[t] = "cached" /\ escalations'[t] = 0
      /\ \A u \in Threads \ {t} :
            /\ pc'[u] = pc[u] /\ stage'[u] = stage[u] /\ request'[u] = request[u]
            /\ escalations'[u] = escalations[u]
  BY DEF End, ThreadsOK
<1>2. QED
  BY <1>1 DEF Frugal, Paid, Behind

\* A thread that asks for a probe pays no more than Paid allows it to.
LEMMA FrugalRequest ==
    ASSUME ThreadsOK, Frugal, NEW t \in Threads, NEW s \in Stages, NEW r \in Requests,
           Request(t, s, r), s # "check",
           NEW k \in Nat, escalations' = [escalations EXCEPT ![t] = k],
           k <= Paid(s, r)
    PROVE  Frugal'
<1>1. /\ pc'[t] = "waiting" /\ stage'[t] = s /\ request'[t] = r /\ escalations'[t] = k
      /\ \A u \in Threads \ {t} :
            /\ pc'[u] = pc[u] /\ stage'[u] = stage[u] /\ request'[u] = request[u]
            /\ escalations'[u] = escalations[u]
  BY DEF Request, ThreadsOK
<1>2. QED
  BY <1>1 DEF Frugal

\* settled_probe asks once more only for a cached probe, and each stage is left
\* for the next with a cached one.
LEMMA FrugalDelivery ==
    ASSUME ThreadsOK, Frugal, NEW t \in Threads, NEW p, Deliver(t, p)
    PROVE  Frugal'
<1>0. /\ escalations[t] \in Nat /\ escalations[t] <= Paid(stage[t], request[t])
      /\ stage[t] = "check" => request[t] = "now"
      /\ {"failure", "local", "evidence"} \subseteq Stages
      /\ {"cached", "escalated"} \subseteq Requests
      /\ escalations = [escalations EXCEPT ![t] = escalations[t]]
  BY DEF ThreadsOK, Frugal, Stages, Requests
<1>1. CASE Escalate(t, p)
  <2>1. /\ request[t] = "cached" /\ stage[t] \in Stages /\ stage[t] # "check"
        /\ Request(t, stage[t], "escalated")
        /\ escalations' = [escalations EXCEPT ![t] = escalations[t] + 1]
        /\ escalations[t] + 1 \in Nat
    BY <1>0, <1>1 DEF Escalate, AskAgain, ThreadsOK
  <2>2. escalations[t] + 1 <= Paid(stage[t], "escalated")
    BY <1>0, <2>1 DEF Paid, Behind
  <2>3. QED
    BY <1>0, <2>1, <2>2, FrugalRequest
<1>2. CASE AskFailure(t, p) /\ ~SaysWhy(p)
  <2>1. Request(t, "local", "cached") /\ escalations' = escalations /\ escalations[t] <= 1
    BY <1>0, <1>2 DEF AskFailure, Proceed, Paid, Behind
  <2>2. QED
    BY <1>0, <2>1, FrugalRequest DEF Paid, Behind
<1>3. CASE AskLocalDelay(t, p) /\ ~HostIsAtFault(p)
  <2>1. Request(t, "evidence", "cached") /\ escalations' = escalations /\ escalations[t] <= 2
    BY <1>0, <1>3 DEF AskLocalDelay, Proceed, Paid, Behind
  <2>2. QED
    BY <1>0, <2>1, FrugalRequest DEF Paid, Behind
<1>4. CASE \E v : End(t, v)
  BY <1>4, FrugalEnd
<1>5. QED
  BY <1>1, <1>2, <1>3, <1>4
     DEF Deliver, AskFailure, AskLocalDelay, AskEvidence, AskReadiness

\* Escalations are asked for only when a probe is delivered.
LEMMA FrugalStep == TypeOK /\ Frugal /\ [Next]_vars => Frugal'
<1> SUFFICES ASSUME TypeOK, Frugal, [Next]_vars PROVE Frugal'
  OBVIOUS
<1>0. ThreadsOK /\ Callers \subseteq Threads /\ Checkers \subseteq Threads
  BY DEF TypeOK, Threads
<1>1. ASSUME NEW t \in Threads,
             Spawn(t) \/ StartProbe(t) \/ \E p \in ProbeResults : ProbeEnds(t, p)
      PROVE Frugal'
  <2>1. /\ \A u \in Threads : pc'[u] \in {"idle", "running"} => pc[u] \in {"idle", "running"}
        /\ stage' = stage /\ request' = request /\ escalations' = escalations
    BY <1>0, <1>1 DEF Spawn, StartProbe, ProbeEnds, ThreadsOK
  <2>2. QED
    BY <2>1 DEF Frugal
<1>2. ASSUME NEW t \in Callers, TimeOut(t) PROVE Frugal'
  <2>1. /\ Request(t, "failure", "cached")
        /\ escalations' = [escalations EXCEPT ![t] = escalations[t]]
        /\ escalations[t] \in Nat /\ escalations[t] <= 0
    BY <1>0, <1>2 DEF TimeOut, Proceed, Frugal, Paid, Behind, ThreadsOK
  <2>2. "failure" \in Stages /\ "cached" \in Requests
    BY DEF Stages, Requests
  <2>3. QED
    BY <1>0, <2>1, <2>2, FrugalRequest DEF Paid, Behind
<1>3. ASSUME NEW t \in Checkers, Check(t) PROVE Frugal'
  <2>1. /\ stage'[t] = "check" /\ request'[t] = "now" /\ pc'[t] = "waiting"
        /\ escalations' = escalations
        /\ \A u \in Threads \ {t} :
              pc'[u] = pc[u] /\ stage'[u] = stage[u] /\ request'[u] = request[u]
    BY <1>0, <1>3 DEF Check, ThreadsOK
  <2>2. escalations[t] <= 0
    BY <1>0, <1>3 DEF Check, Frugal, Paid, Behind
  <2>3. QED
    BY <2>1, <2>2 DEF Frugal, Paid, Behind
<1>4. CASE Tick \/ UNCHANGED vars
  BY <1>4 DEF Tick, vars, threadVars, Frugal
<1>5. QED
  <2>1. ASSUME NEW t \in Callers, Command(t) PROVE Frugal'
    BY <1>0, <1>1, <1>2, <2>1, FrugalEnd DEF Command, SpawnFails, Succeed, Fail
  <2>2. ASSUME NEW t \in Checkers, Readiness(t) PROVE Frugal'
    BY <1>0, <1>3, <2>2, FrugalEnd DEF Readiness, ToolsMissing
  <2>3. ASSUME NEW t \in Threads, AskProbe(t) PROVE Frugal'
    BY <1>0, <1>1, <2>3, FrugalDelivery DEF AskProbe, UseCached, Stamp
  <2>4. QED
    BY <1>4, <2>1, <2>2, <2>3 DEF Next

\* However many threads and probes there are, one call asks for at most three
\* escalated probes, one for each of the stages that judge it.
THEOREM EscalationsBounded == Spec => []EscalationsAreBounded
<1>1. Cardinality(Stages) = 4
  <2>1. /\ Cardinality({"failure"}) = 1
        /\ Cardinality({"failure"} \cup {"local"}) = 2
        /\ Cardinality({"failure", "local"} \cup {"evidence"}) = 3
        /\ Cardinality({"failure", "local", "evidence"} \cup {"check"}) = 4
    <3>1. IsFiniteSet({}) /\ Cardinality({}) = 0
      BY FS_EmptySet
    <3>2. IsFiniteSet({} \cup {"failure"}) /\ Cardinality({} \cup {"failure"}) = 1
      BY <3>1, FS_AddElement
    <3>3. IsFiniteSet({"failure"} \cup {"local"}) /\ Cardinality({"failure"} \cup {"local"}) = 2
      BY <3>2, FS_AddElement
    <3>4. /\ IsFiniteSet({"failure", "local"} \cup {"evidence"})
          /\ Cardinality({"failure", "local"} \cup {"evidence"}) = 3
      BY <3>3, FS_AddElement
    <3>5. Cardinality({"failure", "local", "evidence"} \cup {"check"}) = 4
      BY <3>4, FS_AddElement
    <3>6. QED
      BY <3>2, <3>3, <3>4, <3>5
  <2>2. QED
    BY <2>1 DEF Stages
<1>2. Init => TypeOK /\ OneProbeAtATime /\ Frugal
  BY SoundInit DEF Init, Frugal, Paid, Behind
<1>3. TypeOK /\ OneProbeAtATime /\ Frugal /\ [Next]_vars
      => (TypeOK /\ OneProbeAtATime /\ Frugal)'
  BY SoundStep, FrugalStep
<1>4. TypeOK /\ Frugal => EscalationsAreBounded
  <2>1. SUFFICES ASSUME TypeOK, Frugal, NEW t \in Threads PROVE escalations[t] <= 3
    BY <1>1 DEF EscalationsAreBounded
  <2>2. Paid(stage[t], request[t]) \in 0..3 /\ escalations[t] \in Nat
    BY <2>1 DEF Paid, Behind, TypeOK, ThreadsOK
  <2>3. QED
    BY <2>1, <2>2 DEF Frugal
<1>5. QED
  BY <1>2, <1>3, <1>4, PTL DEF Spec

-----------------------------------------------------------------------------
(* Refusals.                                                               *)

\* A command whose text gives a reason is answered 409 or 502, "the cluster
\* answered and refused", only when the cluster had said so to its tool, in
\* whatever company the markers come (deploy.py:286): "unreachable" is asked
\* about before a conflict, and no other family means a refusal.
THEOREM RefusalsAreReplies == Spec => RefusalNeedsAReply
<1>1. ASSUME TypeOK, NEW t \in Callers, NEW exit \in CommandExits, Fail(t, exit),
             exit.text # {}, HttpStatus(verdict'[t]) \in {409, 502}
      PROVE  served' = 0
  <2>1. verdict'[t] = Classify(exit.text)
    BY <1>1 DEF TypeOK, ThreadsOK, Threads, Fail, End
  <2>2. verdict'[t] \in DeployErrors
    BY <2>1, ClassTellsWhoSpoke, ClassifyType
  <2>3. verdict'[t] \in {"ClusterConflict", "DeployError"}
    BY <1>1, <2>2 DEF DeployErrors, HostClasses, ClusterClasses, HttpStatus, IsA
  <2>4. Serves(exit)
    BY <1>1, <2>1, <2>3, ClassTellsWhoSpoke
  <2>5. QED
    BY <1>1, <2>4 DEF Fail
<1>2. TypeOK => [\A t \in Callers, exit \in CommandExits :
                    /\ Fail(t, exit)
                    /\ exit.text # {}
                    /\ HttpStatus(verdict'[t]) \in {409, 502}
                    => served' = 0]_vars
  BY <1>1
<1>3. QED
  BY <1>2, TypeCorrect, PTL DEF RefusalNeedsAReply

-----------------------------------------------------------------------------
(* The evidence a silent call is judged by.                                *)

\* What was served has been noted.  A cached answer is no older than the pause
\* before it was stored lets it be: the success is noted before the record is
\* stamped (deploy.py:449, 414), so an answer is as old as its stamp says and the
\* pause.  Only a readiness check is at stage "check".
Evidence ==
    /\ lastSuccess <= served
    /\ Fresh /\ probe.answered => served <= probeAge + MaxPause
    /\ \A t \in Threads :
          pc[t] = "stamping" =>
              spent[t] <= MaxPause /\ (measured.answered => served <= spent[t])
    /\ \A c \in Callers : stage[c] # "check"

\* At the start nothing was served and nothing is cached.
LEMMA EvidenceInit == Init => Evidence
BY LatelyType DEF Init, Evidence, Fresh, Threads

\* How a silent call of a caller goes on: with another probe, or to a verdict
\* that IsThere decides.
GoesOn(t) ==
    /\ pc' = [pc EXCEPT ![t] = "waiting"]
    /\ verdict' = verdict

ComesTo(t, p, v) ==
    /\ v \in Verdicts \ {"ok", "ClusterConflict", "DeployError"}
    /\ pc' = [pc EXCEPT ![t] = "idle"]
    /\ verdict' = [verdict EXCEPT ![t] = v]
    /\ v = "ClusterUnreachable" => ~IsThere(p)
    /\ v = "ClusterBusy" => IsThere(p)

\* A caller that is given a probe concludes from it only what was heard.
LEMMA DeliverJudges ==
    ASSUME ThreadsOK, NEW t \in Callers, stage[t] # "check",
           NEW p \in ProbeViews, Deliver(t, p)
    PROVE  /\ GoesOn(t) \/ \E v \in Verdicts : ComesTo(t, p, v)
           /\ \E s \in Stages \ {"check"} : stage' = [stage EXCEPT ![t] = s]
<1> USE DEF GoesOn
<1>0. p.spawnFailure \in SpawnFailures /\ t \in Threads /\ stage[t] \in Stages
  BY DEF ProbeViews, Threads, ThreadsOK
<1>1. CASE Escalate(t, p)
  BY <1>0, <1>1 DEF Escalate, Request
<1>2. CASE AskFailure(t, p)
  <2>1. CASE SaysWhy(p)
    <3>1. /\ p.spawnFailure \in Verdicts \ {"ok", "ClusterConflict", "DeployError"}
          /\ p.spawnFailure \notin {"ClusterUnreachable", "ClusterBusy"}
      BY <1>0, <2>1 DEF SaysWhy, SpawnFailures, NoFailure, Verdicts, DeployErrors,
                        HostClasses
    <3>2. ComesTo(t, p, p.spawnFailure)
      BY <1>2, <2>1, <3>1 DEF AskFailure, End, ComesTo
    <3>3. stage' = [stage EXCEPT ![t] = "failure"]
      BY <1>2, <2>1 DEF AskFailure, End
    <3>4. QED
      BY <3>1, <3>2, <3>3 DEF Stages
  <2>2. CASE ~SaysWhy(p)
    BY <1>2, <2>2 DEF AskFailure, Proceed, Request, Stages
  <2>3. QED
    BY <2>1, <2>2
<1>3. CASE AskLocalDelay(t, p)
  <2>1. CASE HostIsAtFault(p)
    <3>1. ComesTo(t, p, HostVerdict(p))
      BY <1>3, <2>1
         DEF AskLocalDelay, End, ComesTo, HostVerdict, Verdicts, DeployErrors, HostClasses
    <3>2. stage' = [stage EXCEPT ![t] = "failure"] /\ HostVerdict(p) \in Verdicts
      BY <1>3, <2>1 DEF AskLocalDelay, End, HostVerdict, Verdicts, DeployErrors, HostClasses
    <3>3. QED
      BY <3>1, <3>2 DEF Stages
  <2>2. CASE ~HostIsAtFault(p)
    BY <1>3, <2>2 DEF AskLocalDelay, Proceed, Request, Stages
  <2>3. QED
    BY <2>1, <2>2
<1>4. CASE AskEvidence(t, p)
  <2> DEFINE v == IF IsThere(p) THEN "ClusterBusy" ELSE "ClusterUnreachable"
  <2>1. v \in Verdicts
    BY DEF Verdicts, DeployErrors, ClusterClasses
  <2>2. ComesTo(t, p, v)
    BY <1>4, <2>1 DEF AskEvidence, End, ComesTo
  <2>3. stage' = [stage EXCEPT ![t] = "failure"]
    BY <1>4 DEF AskEvidence, End
  <2>4. QED
    BY <2>1, <2>2, <2>3 DEF Stages
<1>5. CASE AskReadiness(t, p)
  BY <1>5 DEF AskReadiness
<1>6. QED
  BY <1>1, <1>2, <1>3, <1>4, <1>5 DEF Deliver

\* Another thread's stage is nobody's business but its own.
LEMMA DeliverStage ==
    ASSUME ThreadsOK, NEW t \in Threads, NEW p \in ProbeViews, Deliver(t, p)
    PROVE  \E s \in Stages : stage' = [stage EXCEPT ![t] = s]
<1>1. stage[t] \in Stages
  BY DEF ThreadsOK
<1>2. QED
  BY <1>1 DEF Deliver, Escalate, AskFailure, AskLocalDelay, AskEvidence, AskReadiness,
              End, Proceed, Request, Stages

\* A step of a thread that has nothing to store, nor will have, in which nothing is
\* noted without a service being noted, or time being stopped, keeps the evidence.
LEMMA EvidenceStays ==
    ASSUME ThreadsOK, Evidence, NEW t \in Threads, pc[t] # "stamping", pc'[t] # "stamping",
           \A u \in Threads \ {t} : pc'[u] = pc[u] /\ spent'[u] = spent[u],
           UNCHANGED <<probe, probeAge, measured>>,
           served \in Nat, probeAge \in Nat, lastSuccess \in Nat,
           \A u \in Threads : spent[u] \in Nat,
           \/ UNCHANGED <<lastSuccess, served>>
           \/ lastSuccess' = 0 /\ served' \in {0, served},
           \A c \in Callers : stage'[c] # "check"
    PROVE  Evidence'
<1>0. MaxPause \in Nat
  BY LatelyType
<1>1. lastSuccess' <= served' /\ served' \in Nat /\ served' <= served
  BY DEF Evidence
<1>2. Fresh' /\ probe'.answered => served' <= probeAge' + MaxPause
  BY <1>0, <1>1 DEF Evidence, Fresh
<1>3. ASSUME NEW u \in Threads, pc'[u] = "stamping"
      PROVE  spent'[u] <= MaxPause /\ (measured'.answered => served' <= spent'[u])
  <2>1. u # t /\ pc[u] = "stamping" /\ spent'[u] = spent[u]
    BY <1>3
  <2>2. QED
    BY <1>1, <2>1 DEF Evidence
<1>4. QED
  BY <1>1, <1>2, <1>3 DEF Evidence

\* Every step keeps the evidence.
LEMMA EvidenceStep == TypeOK /\ OneProbeAtATime /\ Evidence /\ [Next]_vars => Evidence'
<1> SUFFICES ASSUME TypeOK, OneProbeAtATime, Evidence, [Next]_vars PROVE Evidence'
  OBVIOUS
<1>0. /\ ThreadsOK /\ Callers \subseteq Threads /\ Checkers \subseteq Threads
      /\ Callers \cap Checkers = {}
      /\ pc \in [Threads -> {"idle", "running", "waiting", "probing", "stamping"}]
      /\ stage \in [Threads -> Stages] /\ spent \in [Threads -> Nat]
      /\ \A c \in Callers : stage[c] # "check"
      /\ probeAge \in Nat /\ lastSuccess \in Nat /\ served \in Nat
      /\ served <= Lately + 1 /\ lastSuccess <= RecentSuccess + 1
  BY ThreadsAssumption, LatelyType DEF Threads, TypeOK, ThreadsOK, SharedOK, Evidence
<1>1. ASSUME NEW t \in Callers, Spawn(t) PROVE Evidence'
  <2>1. /\ pc[t] # "stamping" /\ pc'[t] # "stamping"
        /\ \A u \in Threads \ {t} : pc'[u] = pc[u] /\ spent'[u] = spent[u]
    BY <1>0, <1>1 DEF Spawn
  <2>2. QED
    BY <1>0, <1>1, <2>1, EvidenceStays DEF Spawn, sharedVars
<1>2. ASSUME NEW t \in Threads, NEW v, End(t, v), pc[t] # "stamping",
             UNCHANGED <<probe, probeAge, measured>>,
             \/ UNCHANGED <<lastSuccess, served>>
             \/ lastSuccess' = 0 /\ served' \in {0, served}
      PROVE Evidence'
  <2>1. /\ pc'[t] # "stamping"
        /\ \A u \in Threads \ {t} : pc'[u] = pc[u] /\ spent'[u] = spent[u]
        /\ \A c \in Callers : stage'[c] # "check"
    BY <1>0, <1>2 DEF End
  <2>2. QED
    BY <1>0, <1>2, <2>1, EvidenceStays
<1>3. ASSUME NEW t \in Callers, NEW exit \in CommandExits, Fail(t, exit) PROVE Evidence'
  <2>1. Serves(exit) => CountsAsHeard(exit.text)
    BY ClassTellsWhoSpoke
  <2>2. \/ UNCHANGED <<lastSuccess, served>>
        \/ lastSuccess' = 0 /\ served' \in {0, served}
    BY <1>3, <2>1 DEF Fail
  <2>3. QED
    BY <1>0, <1>2, <1>3, <2>2 DEF Fail
<1>4. ASSUME NEW t \in Callers, TimeOut(t) PROVE Evidence'
  <2>1. /\ pc[t] # "stamping" /\ pc'[t] # "stamping"
        /\ \A u \in Threads \ {t} : pc'[u] = pc[u] /\ spent'[u] = spent[u]
        /\ \A c \in Callers : stage'[c] # "check"
    BY <1>0, <1>4 DEF TimeOut, Proceed, Request
  <2>2. QED
    BY <1>0, <1>4, <2>1, EvidenceStays DEF TimeOut, sharedVars
<1>5. ASSUME NEW t \in Checkers, Check(t) PROVE Evidence'
  <2>1. /\ pc[t] # "stamping" /\ pc'[t] # "stamping"
        /\ \A u \in Threads \ {t} : pc'[u] = pc[u] /\ spent'[u] = spent[u]
        /\ \A c \in Callers : stage'[c] # "check"
    BY <1>0, <1>5 DEF Check
  <2>2. QED
    BY <1>0, <1>5, <2>1, EvidenceStays DEF Check, sharedVars
<1>6. ASSUME NEW t \in Threads, NEW p \in ProbeViews, Deliver(t, p)
      PROVE  /\ pc'[t] # "stamping"
             /\ \A u \in Threads \ {t} : pc'[u] = pc[u] /\ spent'[u] = spent[u]
             /\ \A c \in Callers : stage'[c] # "check"
  <2>1. /\ pc'[t] # "stamping"
        /\ \A u \in Threads \ {t} : pc'[u] = pc[u] /\ spent'[u] = spent[u]
    BY <1>0, <1>6 DEF Deliver, Escalate, AskFailure, AskLocalDelay, AskEvidence,
                      AskReadiness, End, Proceed, Request
  <2>2. CASE t \in Callers
    BY <1>0, <1>6, <2>1, <2>2, DeliverJudges
  <2>3. CASE t \notin Callers
    BY <1>0, <1>6, <2>1, <2>3, DeliverStage
  <2>4. QED
    BY <2>1, <2>2, <2>3
<1>7. ASSUME NEW t \in Threads, UseCached(t) PROVE Evidence'
  <2>1. probe \in ProbeViews /\ Deliver(t, probe) /\ pc[t] # "stamping"
    BY <1>7 DEF UseCached, Reusable, Fresh, TypeOK, SharedOK
  <2>2. QED
    BY <1>0, <1>6, <1>7, <2>1, EvidenceStays DEF UseCached, sharedVars
<1>8. ASSUME NEW t \in Threads, StartProbe(t) PROVE Evidence'
  <2>1. /\ pc[t] # "stamping" /\ pc'[t] # "stamping"
        /\ \A u \in Threads \ {t} : pc'[u] = pc[u] /\ spent'[u] = spent[u]
    BY <1>0, <1>8 DEF StartProbe
  <2>2. QED
    BY <1>0, <1>8, <2>1, EvidenceStays DEF StartProbe
<1>9. ASSUME NEW t \in Threads, NEW p \in ProbeResults, ProbeEnds(t, p) PROVE Evidence'
  <2>1. /\ measured' = p /\ spent'[t] = 0 /\ probe' = probe /\ probeAge' = probeAge
        /\ stage' = stage
        /\ IF p.answered THEN lastSuccess' = 0 /\ served' = 0
                         ELSE lastSuccess' = lastSuccess /\ served' = served
    BY <1>0, <1>9 DEF ProbeEnds, NotesSuccess
  <2>2. lastSuccess' <= served' /\ served' \in Nat /\ served' <= served
    BY <1>0, <2>1 DEF Evidence
  <2>3. Fresh' /\ probe'.answered => served' <= probeAge' + MaxPause
    BY <1>0, <2>1, <2>2, LatelyType DEF Evidence, Fresh
  <2>4. \A u \in Threads \ {t} : pc'[u] # "stamping"
    BY <1>0, <1>9 DEF ProbeEnds, OneProbeAtATime
  <2>5. spent'[t] <= MaxPause /\ (measured'.answered => served' <= spent'[t])
    BY <2>1, LatelyType
  <2>6. QED
    BY <1>0, <2>1, <2>2, <2>3, <2>4, <2>5 DEF Evidence
<1>10. ASSUME NEW t \in Threads, Stamp(t) PROVE Evidence'
  <2>1. /\ measured \in ProbeViews /\ Deliver(t, measured)
        /\ probe' = measured /\ probeAge' = 0 /\ lastSuccess' = lastSuccess /\ served' = served
        /\ spent[t] <= MaxPause /\ (measured.answered => served <= spent[t])
    BY <1>10 DEF Stamp, Evidence, TypeOK, SharedOK
  <2>2. Fresh' /\ probe'.answered => served' <= probeAge' + MaxPause
    BY <1>0, <2>1, LatelyType
  <2>3. \A u \in Threads : pc'[u] # "stamping"
    BY <1>0, <1>6, <1>10, <2>1 DEF Stamp, OneProbeAtATime
  <2>4. QED
    BY <1>6, <2>1, <2>2, <2>3 DEF Evidence
<1>11. ASSUME Tick PROVE Evidence'
  <2>1. /\ served' = Older(served, Lately) /\ lastSuccess' = Older(lastSuccess, RecentSuccess)
        /\ probeAge' = Older(probeAge, ProbeTTL)
        /\ pc' = pc /\ stage' = stage /\ probe' = probe /\ measured' = measured
    BY <1>11 DEF Tick
  <2>2. lastSuccess' <= served'
    BY <1>0, <2>1, LatelyType DEF Older, Evidence
  <2>3. Fresh' /\ probe'.answered => served' <= probeAge' + MaxPause
    <3>1. Fresh' => Fresh /\ probeAge' = probeAge + 1
      BY <1>0, <2>1, LatelyType DEF Fresh, Older
    <3>2. served' <= served + 1
      BY <1>0, <2>1 DEF Older
    <3>3. QED
      BY <1>0, <2>1, <3>1, <3>2, LatelyType DEF Evidence, Older
  <2>4. ASSUME NEW t \in Threads, pc[t] = "stamping"
        PROVE  spent'[t] <= MaxPause /\ (measured'.answered => served' <= spent'[t])
    <3>1. spent[t] < MaxPause /\ spent'[t] = spent[t] + 1
      BY <1>11, <2>4 DEF Tick, HasTime, Metered
    <3>2. served' <= served + 1
      BY <1>0, <2>1 DEF Older
    <3>3. served' \in Nat /\ spent[t] \in Nat
      BY <1>0, <2>1 DEF Older
    <3>4. QED
      BY <1>0, <2>1, <2>4, <3>1, <3>2, <3>3, LatelyType DEF Evidence
  <2>5. QED
    BY <1>0, <2>1, <2>2, <2>3, <2>4 DEF Evidence
<1>12. CASE UNCHANGED vars
  BY <1>12 DEF vars, threadVars, sharedVars, Evidence, Fresh
<1>13. QED
  <2>1. ASSUME NEW t \in Callers, Command(t) PROVE Evidence'
    BY <1>0, <1>1, <1>2, <1>3, <1>4, <2>1
       DEF Command, SpawnFails, Succeed, sharedVars
  <2>2. ASSUME NEW t \in Checkers, Readiness(t) PROVE Evidence'
    BY <1>0, <1>2, <1>5, <2>2 DEF Readiness, ToolsMissing, sharedVars
  <2>3. QED
    BY <1>7, <1>8, <1>9, <1>10, <1>11, <1>12, <2>1, <2>2 DEF Next, AskProbe

-----------------------------------------------------------------------------
(* Calls implements CallContract.                                          *)

Silent(c) == pc[c] \notin {"idle", "running"}

\* The initial states of Calls are initial states of CallContract.
LEMMA ContractInit == Init => Contract!Init
BY DEF Init, Contract!Init, CallPhase, CallVerdict, Threads

\* A verdict reached from a probe is one the contract allows.
LEMMA JudgeStep ==
    ASSUME TypeOK, Evidence, NEW t \in Callers, Silent(t),
           NEW p \in ProbeViews, Deliver(t, p),
           UNCHANGED <<lastSuccess, served>>,
           p.answered => served <= Lately
    PROVE  Contract!Next \/ UNCHANGED Contract!vars
<1>1. /\ t \in Threads /\ stage[t] # "check" /\ Callers \subseteq Threads
      /\ pc \in [Threads -> {"idle", "running", "waiting", "probing", "stamping"}]
      /\ verdict \in [Threads -> Verdicts \cup {"none"}]
      /\ served \in Nat /\ lastSuccess \in Nat /\ RecentSuccess \in Nat
      /\ lastSuccess <= served
  BY LatelyType DEF Threads, TypeOK, ThreadsOK, SharedOK, Evidence
<1>2. CASE GoesOn(t)
  <2>1. CallPhase' = CallPhase /\ CallVerdict' = CallVerdict
    BY <1>1, <1>2 DEF GoesOn, CallPhase, CallVerdict, Silent
  <2>2. QED
    BY <2>1 DEF Contract!vars
<1>3. ASSUME NEW v \in Verdicts, ComesTo(t, p, v) PROVE Contract!Next
  <2>1. CallPhase[t] = "silent" /\ CallPhase' = [CallPhase EXCEPT ![t] = "idle"]
    BY <1>1, <1>3 DEF ComesTo, CallPhase, Silent
  <2>2. CallVerdict' = [CallVerdict EXCEPT ![t] = v]
    BY <1>1, <1>3 DEF ComesTo, CallVerdict
  <2>3. v = "ClusterUnreachable" => served > RecentSuccess
    BY <1>1, <1>3 DEF ComesTo, IsThere, AnsweredRecently
  <2>4. v = "ClusterBusy" => served <= Lately \/ lastSuccess <= RecentSuccess
    BY <1>1, <1>3 DEF ComesTo, IsThere, AnsweredRecently
  <2>5. v \notin {"ok", "ClusterConflict", "DeployError"}
    BY <1>3 DEF ComesTo
  <2>6. Contract!Judge(t, v)
    BY <2>1, <2>2, <2>3, <2>4, <2>5 DEF Contract!Judge
  <2>7. QED
    BY <2>6 DEF Contract!Next
<1>4. QED
  BY <1>1, <1>2, <1>3, DeliverJudges DEF TypeOK

\* A readiness check is none of the callers' calls.
LEMMA CheckerStep ==
    ASSUME ThreadsOK, NEW t \in Threads \ Callers, NEW p \in ProbeViews, Deliver(t, p)
    PROVE  UNCHANGED <<CallPhase, CallVerdict>>
<1>1. \A c \in Callers : pc'[c] = pc[c]
  BY DeliverType DEF ThreadsOK, Threads
<1>2. \A c \in Callers : verdict'[c] = verdict[c]
  BY DEF ThreadsOK, Threads, Deliver, Escalate, AskFailure, AskLocalDelay,
         AskEvidence, AskReadiness, End, Proceed, Request
<1>3. QED
  BY <1>1, <1>2 DEF CallPhase, CallVerdict

\* A call that ends in its own words ends as the contract allows.
LEMMA EndStep ==
    ASSUME TypeOK, NEW t \in Callers, NEW v \in Verdicts, End(t, v),
           pc[t] \in {"idle", "running"},
           \/ v \notin {"ok", "ClusterBusy", "ClusterConflict"} /\ UNCHANGED <<lastSuccess, served>>
           \/ v # "ClusterUnreachable" /\ lastSuccess' = 0 /\ served' = 0
           \/ /\ v \in {"HostExhausted", "HostMisconfigured", "DeployError"}
              /\ lastSuccess' = 0 /\ served' = served
    PROVE  Contract!Next
<1>0. /\ Callers \subseteq Threads
      /\ pc \in [Threads -> {"idle", "running", "waiting", "probing", "stamping"}]
      /\ verdict \in [Threads -> Verdicts \cup {"none"}]
  BY DEF Threads, TypeOK, ThreadsOK
<1>1. CallPhase[t] \in {"idle", "running"}
  BY DEF CallPhase
<1>2. CallPhase' = [CallPhase EXCEPT ![t] = "idle"]
  BY <1>0 DEF CallPhase, End
<1>3. CallVerdict' = [CallVerdict EXCEPT ![t] = v]
  BY <1>0 DEF CallVerdict, End
<1>4. Contract!End(t, v)
  BY <1>1, <1>2, <1>3 DEF Contract!End, Contract!Serve, Contract!Mistake
<1>5. QED
  BY <1>4 DEF Contract!Next

\* Every step of Calls is a step of CallContract, or none.
LEMMA ContractStep ==
    TypeOK /\ OneProbeAtATime /\ Evidence /\ [Next]_vars => [Contract!Next]_(Contract!vars)
<1> SUFFICES ASSUME TypeOK, OneProbeAtATime, Evidence, [Next]_vars
             PROVE  Contract!Next \/ UNCHANGED Contract!vars
  BY DEF Contract!vars
<1>0. /\ Callers \subseteq Threads /\ Callers \cap Checkers = {}
      /\ pc \in [Threads -> {"idle", "running", "waiting", "probing", "stamping"}]
      /\ verdict \in [Threads -> Verdicts \cup {"none"}]
      /\ served \in Nat /\ lastSuccess \in Nat
  BY ThreadsAssumption, LatelyType DEF Threads, TypeOK, ThreadsOK, SharedOK
<1>1. ASSUME NEW t \in Callers, Spawn(t) PROVE Contract!Next
  <2>1. CallPhase[t] = "idle" /\ CallPhase' = [CallPhase EXCEPT ![t] = "running"]
    BY <1>0, <1>1 DEF Spawn, CallPhase
  <2>2. /\ CallVerdict' = [CallVerdict EXCEPT ![t] = "none"]
        /\ served' = served /\ lastSuccess' = lastSuccess
    BY <1>0, <1>1 DEF Spawn, CallVerdict, sharedVars
  <2>3. Contract!Begin(t)
    BY <2>1, <2>2 DEF Contract!Begin
  <2>4. QED
    BY <2>3 DEF Contract!Next
<1>2. ASSUME NEW t \in Callers, NEW errno \in SpawnErrors, SpawnFails(t, errno)
      PROVE Contract!Next
  <2> DEFINE v == IF SpawnFailure(errno) = NoFailure THEN "OSError" ELSE SpawnFailure(errno)
  <2>1. v \in Verdicts /\ v \notin {"ok", "ClusterBusy", "ClusterConflict"}
    BY SpawnFailureType DEF SpawnFailures, NoFailure, Verdicts, DeployErrors, HostClasses
  <2>2. End(t, v) /\ pc[t] = "idle" /\ UNCHANGED <<lastSuccess, served>>
    BY <1>2 DEF SpawnFails, sharedVars
  <2>3. QED
    BY <2>1, <2>2, EndStep
<1>3. ASSUME NEW t \in Callers, Succeed(t) PROVE Contract!Next
  <2>1. "ok" \in Verdicts
    BY DEF Verdicts
  <2>2. QED
    BY <1>3, <2>1, EndStep DEF Succeed
<1>4. ASSUME NEW t \in Callers, NEW exit \in CommandExits, Fail(t, exit)
      PROVE Contract!Next
  <2> DEFINE v == Classify(exit.text)
  <2>1. v \in DeployErrors /\ v \in Verdicts
    BY ClassTellsWhoSpoke, ClassifyType DEF Verdicts
  <2>2. End(t, v) /\ pc[t] \in {"idle", "running"}
    BY <1>4 DEF Fail
  <2>3. CASE Serves(exit)
    <3>1. lastSuccess' = 0 /\ served' = 0 /\ v # "ClusterUnreachable"
      BY <1>4, <2>3, ClassTellsWhoSpoke DEF Fail, CountsAsHeard
    <3>2. QED
      BY <2>1, <2>2, <3>1, EndStep
  <2>4. CASE ~Serves(exit) /\ CountsAsHeard(exit.text)
    <3>1. lastSuccess' = 0 /\ served' = served
      BY <1>4, <2>4 DEF Fail
    <3>2. v \in {"HostExhausted", "HostMisconfigured", "HostOverloaded", "DeployError"}
      BY <2>1, <2>4, ClassTellsWhoSpoke
         DEF CountsAsHeard, DeployErrors, HostClasses, ClusterClasses
    <3>3. v # "HostOverloaded"
      BY ClassTellsWhoSpoke, ClassifyNeverOverloaded
    <3>4. QED
      BY <2>1, <2>2, <3>1, <3>2, <3>3, EndStep
  <2>5. CASE ~Serves(exit) /\ ~CountsAsHeard(exit.text)
    <3>1. UNCHANGED <<lastSuccess, served>> /\ v = "ClusterUnreachable"
      BY <1>4, <2>5 DEF Fail, CountsAsHeard
    <3>2. QED
      BY <2>1, <2>2, <3>1, EndStep
  <2>6. QED
    BY <2>3, <2>4, <2>5
<1>5. ASSUME NEW t \in Callers, TimeOut(t) PROVE Contract!Next
  <2>1. CallPhase[t] = "running" /\ CallPhase' = [CallPhase EXCEPT ![t] = "silent"]
    BY <1>0, <1>5 DEF TimeOut, Proceed, Request, CallPhase
  <2>2. CallVerdict' = CallVerdict /\ served' = served /\ lastSuccess' = lastSuccess
    BY <1>0, <1>5 DEF TimeOut, Proceed, Request, CallVerdict, sharedVars
  <2>3. Contract!GoSilent(t)
    BY <2>1, <2>2 DEF Contract!GoSilent
  <2>4. QED
    BY <2>3 DEF Contract!Next
<1>6. ASSUME NEW t \in Checkers, Check(t) PROVE UNCHANGED Contract!vars
  BY <1>0, <1>6 DEF Check, CallPhase, CallVerdict, Contract!vars, sharedVars
<1>7. ASSUME NEW t \in Checkers, ToolsMissing(t) PROVE UNCHANGED Contract!vars
  BY <1>0, <1>7 DEF ToolsMissing, End, CallPhase, CallVerdict, Contract!vars, sharedVars
<1>8. ASSUME NEW t \in Threads, NEW p \in ProbeViews, Deliver(t, p), Silent(t),
             UNCHANGED <<lastSuccess, served>>, p.answered => served <= Lately
      PROVE Contract!Next \/ UNCHANGED Contract!vars
  <2>1. CASE t \in Callers
    BY <1>8, <2>1, JudgeStep
  <2>2. CASE t \notin Callers
    BY <1>8, <2>2, CheckerStep DEF TypeOK, Contract!vars
  <2>3. QED
    BY <2>1, <2>2
<1>9. ASSUME NEW t \in Threads, UseCached(t)
      PROVE Contract!Next \/ UNCHANGED Contract!vars
  <2>1. /\ probe \in ProbeViews /\ Deliver(t, probe) /\ Silent(t)
        /\ UNCHANGED <<lastSuccess, served>> /\ Fresh
    BY <1>9 DEF UseCached, Reusable, Fresh, TypeOK, SharedOK, sharedVars, Silent
  <2>2. probe.answered => served <= Lately
    <3>1. probeAge \in Nat /\ probeAge <= ProbeTTL
      BY <2>1 DEF Fresh, TypeOK, SharedOK
    <3>2. QED
      BY <1>0, <2>1, <3>1, LatelyType DEF Evidence
  <2>3. QED
    BY <1>8, <2>1, <2>2
<1>10. ASSUME NEW t \in Threads, StartProbe(t) PROVE UNCHANGED Contract!vars
  BY <1>0, <1>10 DEF StartProbe, CallPhase, CallVerdict, Contract!vars
<1>11. ASSUME NEW t \in Threads, NEW p \in ProbeResults, ProbeEnds(t, p)
       PROVE Contract!Next \/ UNCHANGED Contract!vars
  <2>1. UNCHANGED <<CallPhase, CallVerdict>>
    BY <1>0, <1>11 DEF ProbeEnds, CallPhase, CallVerdict
  <2>2. \/ lastSuccess' = 0 /\ served' = 0
        \/ UNCHANGED <<lastSuccess, served>>
    BY <1>11 DEF ProbeEnds, NotesSuccess
  <2>3. QED
    BY <2>1, <2>2 DEF Contract!Next, Contract!Hear, Contract!Serve, Contract!vars
<1>12. ASSUME NEW t \in Threads, Stamp(t)
       PROVE Contract!Next \/ UNCHANGED Contract!vars
  <2>1. /\ measured \in ProbeViews /\ Deliver(t, measured) /\ Silent(t)
        /\ UNCHANGED <<lastSuccess, served>>
        /\ spent[t] \in Nat /\ spent[t] <= MaxPause
        /\ measured.answered => served <= spent[t]
    BY <1>12 DEF Stamp, Evidence, TypeOK, ThreadsOK, SharedOK, Silent
  <2>2. measured.answered => served <= Lately
    BY <1>0, <2>1, LatelyType
  <2>3. QED
    BY <1>8, <2>1, <2>2
<1>13. ASSUME Tick PROVE Contract!Next
  <2>1. CallPhase' = CallPhase /\ CallVerdict' = CallVerdict
    BY <1>13 DEF Tick, CallPhase, CallVerdict
  <2>2. served' = Older(served, Lately) /\ lastSuccess' = Older(lastSuccess, RecentSuccess)
    BY <1>13 DEF Tick
  <2>3. QED
    BY <2>1, <2>2 DEF Older, Contract!Older, Contract!Next, Contract!TimePasses
<1>14. CASE UNCHANGED vars
  BY <1>14 DEF vars, threadVars, sharedVars, CallPhase, CallVerdict, Contract!vars
<1>15. QED
  BY <1>1, <1>2, <1>3, <1>4, <1>5, <1>6, <1>7, <1>9, <1>10, <1>11, <1>12, <1>13, <1>14
     DEF Next, Command, Readiness, AskProbe

\* A silent call is called unreachable only when the cluster served nobody for
\* longer than RECENT_SUCCESS, and busy only when it served somebody lately or a
\* failed command was taken for an answer: with any exits, probes, timeouts and
\* suspensions, whatever the other threads do to the shared probe meanwhile.
THEOREM CallsKeepTheContract == Spec => ImplementsContract
<1>1. Init => Contract!Init /\ TypeOK /\ OneProbeAtATime /\ Evidence
  BY ContractInit, SoundInit, EvidenceInit
<1>2. TypeOK /\ OneProbeAtATime /\ Evidence /\ [Next]_vars
      => (TypeOK /\ OneProbeAtATime /\ Evidence)' /\ [Contract!Next]_(Contract!vars)
  BY SoundStep, EvidenceStep, ContractStep
<1>3. QED
  BY <1>1, <1>2, PTL DEF Spec, ImplementsContract, Contract!Spec

-----------------------------------------------------------------------------
(* One thread by itself, which does not dawdle, and a cache that is on.      *)

Alone == Prompt /\ ProbeTTL > 0 /\ \A t, u \in Threads : t = u

\* Who has come to the last stage finds there the probe that let it pass the
\* second, still fresh: no other thread replaces it, and no time has passed.
Steady ==
    \A t \in Threads :
        /\ t \in Callers => stage[t] # "check"
        /\ stage[t] = "evidence" =>
              pc[t] = "waiting" /\ request[t] = "cached" /\ Fresh /\ ~HostIsAtFault(probe)

\* What is left of the stages when a caller gets a probe.
LEMMA SteadyDelivery ==
    ASSUME TypeOK, Alone, Steady, NEW t \in Threads, NEW p \in ProbeViews,
           Deliver(t, p), probe' = p, probeAge' <= ProbeTTL,
           stage[t] = "evidence" => ~HostIsAtFault(p)
    PROVE  Steady'
<1>1. /\ stage \in [Threads -> Stages] /\ request \in [Threads -> Requests]
      /\ pc \in [Threads -> {"idle", "running", "waiting", "probing", "stamping"}]
      /\ \A u \in Threads : u = t
  BY DEF TypeOK, ThreadsOK, Alone
<1>2. probe' # None
  BY NoneIsNoProbe
<1>3. CASE Escalate(t, p)
  BY <1>1, <1>3 DEF Steady, Escalate, Request, AskAgain, HostIsAtFault
<1>4. CASE AskFailure(t, p)
  BY <1>1, <1>4 DEF Steady, AskFailure, End, Proceed, Request
<1>5. CASE AskLocalDelay(t, p)
  <2>1. CASE HostIsAtFault(p)
    BY <1>1, <1>5, <2>1 DEF Steady, AskLocalDelay, End
  <2>2. CASE ~HostIsAtFault(p)
    BY <1>1, <1>2, <1>5, <2>2
       DEF Steady, AskLocalDelay, Proceed, Request, Fresh, HostIsAtFault
  <2>3. QED
    BY <2>1, <2>2
<1>6. CASE AskEvidence(t, p) \/ AskReadiness(t, p)
  BY <1>1, <1>6 DEF Steady, AskEvidence, AskReadiness, End
<1>7. QED
  BY <1>3, <1>4, <1>5, <1>6 DEF Deliver

LEMMA SteadyStep ==
    ASSUME TypeOK, OneProbeAtATime, Alone, Steady, [Next]_vars PROVE Steady'
<1>0. /\ stage \in [Threads -> Stages] /\ request \in [Threads -> Requests]
      /\ pc \in [Threads -> {"idle", "running", "waiting", "probing", "stamping"}]
      /\ probeAge \in Nat /\ ProbeTTL \in Nat
      /\ \A t, u \in Threads : t = u
  BY WindowsAssumption DEF TypeOK, ThreadsOK, SharedOK, Alone
<1>1. ASSUME NEW t \in Callers, Command(t) PROVE Steady'
  BY <1>0, <1>1 DEF Command, Spawn, SpawnFails, Succeed, Fail, TimeOut, End, Proceed,
                    Request, Steady, Threads
<1>2. ASSUME NEW t \in Checkers, Readiness(t) PROVE Steady'
  BY <1>0, <1>2, ThreadsAssumption DEF Readiness, Check, ToolsMissing, End, Steady, Threads
<1>3. ASSUME NEW t \in Threads, AskProbe(t) PROVE Steady'
  <2>1. CASE UseCached(t)
    <3>1. /\ probe \in ProbeViews /\ probe' = probe /\ probeAge' <= ProbeTTL
          /\ Deliver(t, probe)
      BY <2>1 DEF UseCached, Reusable, Fresh, sharedVars, TypeOK, SharedOK
    <3>2. QED
      BY <3>1, SteadyDelivery DEF Steady
  <2>2. CASE StartProbe(t)
    BY <1>0, <2>2 DEF StartProbe, Reusable, Steady, Alone, Fresh
  <2>3. ASSUME NEW p \in ProbeResults, ProbeEnds(t, p) PROVE Steady'
    BY <1>0, <2>3 DEF ProbeEnds, Steady, Alone
  <2>4. CASE Stamp(t)
    <3>1. /\ measured \in ProbeViews /\ probe' = measured /\ probeAge' <= ProbeTTL
          /\ Deliver(t, measured) /\ pc[t] = "stamping"
      BY <1>0, <2>4 DEF Stamp, TypeOK, SharedOK
    <3>2. QED
      BY <3>1, SteadyDelivery DEF Steady
  <2>5. QED
    BY <1>3, <2>1, <2>2, <2>3, <2>4 DEF AskProbe
<1>4. CASE Tick
  <2>1. \A t \in Threads : pc[t] = "waiting" => LockFree
    BY <1>0 DEF OneProbeAtATime, TypeOK, SharedOK, LockFree
  <2>2. \A t \in Threads : pc[t] # "waiting"
    BY <1>4, <2>1 DEF Tick, Dawdles, Alone
  <2>3. QED
    BY <1>4, <2>2 DEF Tick, Steady
<1>5. CASE UNCHANGED vars
  BY <1>5 DEF vars, threadVars, sharedVars, Steady, Fresh
<1>6. QED
  BY <1>1, <1>2, <1>3, <1>4, <1>5 DEF Next

\* A call is settled at one of its stages, on the probe that is then the cached one.
LEMMA SettledOn ==
    ASSUME TypeOK, Alone, Steady, [Next]_vars, NEW t \in Threads, Settles(t)
    PROVE  \E p \in ProbeViews :
              /\ probe' = p
              /\ \/ AskFailure(t, p)
                 \/ AskLocalDelay(t, p)
                 \/ AskEvidence(t, p) /\ ~HostIsAtFault(p)
<1>0. /\ pc \in [Threads -> {"idle", "running", "waiting", "probing", "stamping"}]
      /\ \A u \in Threads : u = t
      /\ t \in Callers /\ stage[t] # "check"
  BY DEF TypeOK, ThreadsOK, Alone, Steady, Settles
<1>1. AskProbe(t)
  <2>1. ASSUME NEW u \in Callers, Command(u) PROVE FALSE
    BY <1>0, <2>1 DEF Settles, Command, Spawn, SpawnFails, Succeed, Fail, TimeOut, End,
                      Proceed, Request, Threads
  <2>2. ASSUME NEW u \in Checkers PROVE FALSE
    BY <1>0, <2>2, ThreadsAssumption DEF Threads
  <2>3. ~Tick /\ ~UNCHANGED vars
    BY DEF Settles, Tick, vars, threadVars
  <2>4. QED
    BY <1>0, <2>1, <2>2, <2>3 DEF Next
<1>2. ASSUME NEW p \in ProbeViews, Deliver(t, p),
             stage[t] = "evidence" => ~HostIsAtFault(p)
      PROVE  \/ AskFailure(t, p)
             \/ AskLocalDelay(t, p)
             \/ AskEvidence(t, p) /\ ~HostIsAtFault(p)
  <2>1. ~Escalate(t, p)
    BY <1>0 DEF Settles, Escalate, Request
  <2>2. QED
    BY <1>0, <1>2, <2>1 DEF Deliver, AskReadiness, AskEvidence
<1>3. CASE UseCached(t)
  <2>1. probe \in ProbeViews /\ probe' = probe /\ Deliver(t, probe)
    BY <1>3 DEF UseCached, Reusable, Fresh, sharedVars, TypeOK, SharedOK
  <2>2. QED
    BY <1>2, <2>1 DEF Steady
<1>4. CASE StartProbe(t)
  BY <1>0, <1>4 DEF StartProbe, Settles
<1>5. ASSUME NEW p \in ProbeResults, ProbeEnds(t, p) PROVE FALSE
  BY <1>0, <1>5 DEF ProbeEnds, Settles
<1>6. CASE Stamp(t)
  <2>1. /\ measured \in ProbeViews /\ probe' = measured /\ Deliver(t, measured)
        /\ stage[t] # "evidence"
    BY <1>6 DEF Stamp, Steady, TypeOK, SharedOK
  <2>2. QED
    BY <1>2, <2>1
<1>7. QED
  BY <1>1, <1>3, <1>4, <1>5, <1>6 DEF AskProbe

LEMMA SteadyInit == Init => Steady
BY DEF Init, Steady

\* Without other threads and without delay, the probe that a silent call's verdict
\* rests on had started; calls_unstarted shows what a second thread changes.
THEOREM UnstartedAloneBlamesNobody ==
    ASSUME Alone PROVE Spec => UnstartedProbeBlamesNobody
<1> DEFINE Inv == TypeOK /\ OneProbeAtATime /\ Steady
<1>1. Init => Inv
  BY SoundInit, SteadyInit
<1>2. Inv /\ [Next]_vars => Inv'
  BY SoundStep, SteadyStep
<1>3. ASSUME Inv, [Next]_vars, NEW t \in Threads, Settles(t), BlamesCluster(verdict'[t])
      PROVE  probe'.started
  <2>1. PICK p \in ProbeViews :
            /\ probe' = p
            /\ \/ AskFailure(t, p)
               \/ AskLocalDelay(t, p)
               \/ AskEvidence(t, p) /\ ~HostIsAtFault(p)
    BY <1>3, SettledOn
  <2>2. /\ pc \in [Threads -> {"idle", "running", "waiting", "probing", "stamping"}]
        /\ verdict \in [Threads -> Verdicts \cup {"none"}]
        /\ p.spawnFailure \in SpawnFailures
    BY <1>3 DEF TypeOK, ThreadsOK, ProbeViews
  <2>3. ~AskFailure(t, p)
    BY <1>3, <2>2 DEF AskFailure, SaysWhy, End, Proceed, Request, Settles, BlamesCluster,
                      SpawnFailures, NoFailure
  <2>4. ~AskLocalDelay(t, p)
    BY <1>3, <2>2 DEF AskLocalDelay, HostVerdict, End, Proceed, Request, Settles, BlamesCluster
  <2>5. QED
    BY <2>1, <2>3, <2>4 DEF HostIsAtFault
<1>4. Inv /\ [Next]_vars =>
        [\A t \in Threads :
            Settles(t) /\ BlamesCluster(verdict'[t]) => probe'.started]_vars
  BY <1>3
<1>5. QED
  BY <1>1, <1>2, <1>4, PTL DEF Spec, UnstartedProbeBlamesNobody
=============================================================================
