------------------------------- MODULE Scrape -------------------------------
(***************************************************************************)
(* LifecycleCollector.collect (metrics.py): a scrape lists the releases    *)
(* and the pods, reconciles the releases in waves on a pool of threads     *)
(* until its budget is spent, waits for the probe that ran beside, and     *)
(* answers with one of five sets of series.  Reconciles that were running  *)
(* at the deadline run on and compete with the next scrape.                *)
(*                                                                         *)
(* The collector's own steps take no time: time passes while it waits for  *)
(* a process, a wave or the probe.  now counts from the scrape's begin.    *)
(* The cluster serves the reads of running reconciles in any order and at  *)
(* any rate.  What one call comes to is judged in Calls; what one          *)
(* reconcile derives from its reads is in Lifecycle.                       *)
(***************************************************************************)
EXTENDS Listing

CONSTANTS
    Budget,         \* SCRAPE_BUDGET
    Grace,          \* how much longer the probe's thread is waited for
    Workers,        \* SCRAPE_WORKERS
    CallBound,      \* the longest one call of helm or kubectl takes
    Reads,          \* helm calls of one reconcile: history and values
    CallFailures,   \* the errors a listing may end in
    ReadFailures,   \* the errors a reconcile may end in
    ProbeViews,     \* what the scrape's probe may turn out to be
    MaxAbandoned    \* bound of the model: reads left over when a scrape begins

HostClasses == {"HostMisconfigured", "HostOverloaded", "HostExhausted"}
Errors      == HostClasses \cup {"ClusterBusy", "Unavailable"}

ASSUME TimesAssumption ==
    /\ {Budget, Grace, MaxAbandoned} \subseteq Nat
    /\ CallBound \in Nat \ {0}
ASSUME WorkAssumption == {Workers, Reads} \subseteq Nat \ {0}
ASSUME ErrorsAssumption == CallFailures \cup ReadFailures \subseteq Errors
ASSUME ProbeAssumption ==
    ProbeViews \subseteq [slow : BOOLEAN, exhausted : BOOLEAN, noTool : BOOLEAN]

VARIABLES
    pc,             \* where collect is
    now,            \* time since the scrape began
    spent,          \* time its running call has had
    raised,         \* what list_releases raised, "nothing" if it did not
    podsRaised,     \* what the pod listing raised
    badTools,       \* what tool_problems said
    prober,         \* the thread of the scrape's probe
    measured,       \* the probe, once there is one
    queue,          \* listed releases that no wave has admitted
    wave,           \* how many the next wave admits
    cost,           \* previous_cost
    waveStart,      \* when the last wave was admitted
    left,           \* reads the running reconcile of a release has still to make
    outcome,        \* what each release's future came to, once it is done
    account,        \* how the answer accounts for each listed release
    joinEnd,        \* how long record_probe waits
    abandoned,      \* reads left to reconciles of earlier scrapes
    debt,           \* reads the cluster owes before the first wave must be through
    readyAt,        \* when the listings were through
    answer          \* the last scrape's series

callVars  == <<spent, raised, podsRaised, badTools>>
probeVars == <<prober, measured>>
waveVars  == <<queue, wave, cost, waveStart>>
workVars  == <<left, outcome, abandoned, debt>>
endVars   == <<account, joinEnd, readyAt, answer>>
vars == <<listingVars, pc, now, callVars, probeVars, waveVars, workVars, endVars>>

-----------------------------------------------------------------------------
(* Values.                                                                 *)

Least(a, b)    == IF a <= b THEN a ELSE b
Greatest(a, b) == IF a >= b THEN a ELSE b

\* What reading a release comes to, and the reason an unreported one is counted
\* under: snapshot, and the labels of nf_releases_unreported.
Outcomes == Errors \cup {"reported"}
Reasons == {"deadline", "error", "busy", "host"}
AnyDelay(o) ==
    CASE o = "unread"                              -> "deadline"
      [] o \in HostClasses \cup {"ClusterBusy"}    -> "busy"
      [] o = "Unavailable"                         -> "error"
      [] OTHER                                     -> "reported"
Reason(o) ==
    CASE o = "unread"         -> "deadline"
      [] o \in HostClasses    -> "host"
      [] o = "ClusterBusy"    -> "busy"
      [] o = "Unavailable"    -> "error"
      [] OTHER                -> "reported"

Silent  == [s \in {"reachable", "busy", "exhausted", "misconfigured"} |-> "absent"]
Gauge(b) == IF b THEN "1" ELSE "0"

Unread  == [n \in Releases |-> "unread"]
NoReads == [n \in Releases |-> 0]

FirstWave == Least(2, Workers)
Running   == {n \in Releases : left[n] > 0}
Settled   == {n \in Releases : outcome[n] # "unread"}

\* The reads that running reconciles have still to make.
ReadsLeft == Cardinality({r \in Releases \X (1..(Reads + 1)) : r[2] <= left[r[1]]})

\* With no pod listing to share, a reconcile lists its own pods as well.
StatusToo == IF podsRaised = "nothing" THEN Reads ELSE Reads + 2
ReadsEach == IF podsRaised = "nothing" THEN Reads ELSE Reads + 1

Init ==
    /\ ListingInit
    /\ pc = "idle" /\ now = 0 /\ spent = 0
    /\ raised = "nothing" /\ podsRaised = "nothing" /\ badTools = FALSE
    /\ prober = "none" /\ measured = {}
    /\ queue = {} /\ wave = FirstWave /\ cost = 0 /\ waveStart = 0
    /\ left = NoReads /\ outcome = Unread /\ abandoned = 0 /\ debt = 0
    /\ account = Unread /\ joinEnd = 0 /\ readyAt = 0 /\ answer = Silent

-----------------------------------------------------------------------------
(* collect, up to the waves.                                               *)

Begin ==
    /\ pc = "idle"
    /\ abandoned <= MaxAbandoned
    /\ pc' = "tools"
    /\ answer' = Silent
    /\ UNCHANGED <<listingVars, now, callVars, probeVars, waveVars, workVars,
                   account, joinEnd, readyAt>>

NextCall(to) == pc' = to /\ spent' = 0

\* tool_problems, which may run helm; then the prober, if there is a thread for it.
AskTools ==
    /\ pc = "tools"
    /\ NextCall("listing")
    /\ StartListing
    /\ badTools' \in BOOLEAN
    /\ prober' \in {"measuring", "none"}
    /\ UNCHANGED <<now, raised, podsRaised, measured, waveVars, workVars, endVars>>

ReadPage ==
    /\ pc = "listing"
    /\ FullPage
    /\ NextCall("listing")
    /\ UNCHANGED <<now, raised, podsRaised, badTools, probeVars, waveVars, workVars, endVars>>

ListReleases ==
    /\ pc = "listing"
    /\ ShortPage
    /\ NextCall("pods")
    /\ UNCHANGED <<now, raised, podsRaised, badTools, probeVars, waveVars, workVars, endVars>>

\* record_probe waits to the deadline or, past it, not at all, and a grace.
AfreshFrom == now + Budget
JoinUntil  == Greatest(Budget, now) + Grace

\* Whatever list_releases raises, only the probe is waited for.
ListingFails(e) ==
    /\ pc = "listing"
    /\ GiveUpListing
    /\ raised' = e
    /\ NextCall("joining")
    /\ readyAt' = now
    /\ joinEnd' = JoinUntil
    /\ UNCHANGED <<now, podsRaised, badTools, probeVars, waveVars, workVars, account, answer>>

\* release_pods, and the head of reconcile_within.
ListPods(e) ==
    /\ pc = "pods"
    /\ podsRaised' = e
    /\ NextCall("deciding")
    /\ readyAt' = now
    /\ queue' = names
    /\ debt' = abandoned + Least(FirstWave, Cardinality(names)) * ReadsEach'
    /\ UNCHANGED <<listingVars, now, raised, badTools, probeVars, wave, cost, waveStart,
                   left, outcome, abandoned, account, joinEnd, answer>>

-----------------------------------------------------------------------------
(* reconcile_within.                                                       *)

\* Do not start work that the last wave's evidence says cannot finish.
MayAdmit ==
    /\ queue # {}
    /\ now < Budget
    /\ cost = 0 \/ cost <= Budget - now

Everything == queue
Batch      == Slice(queue, 0, wave)

\* The releases in refused get no thread: their future is settled at once.
Admit(refused) ==
    /\ pc = "deciding"
    /\ MayAdmit
    /\ pc' = "waiting"
    /\ waveStart' = now
    /\ queue' = queue \ Batch
    /\ left' = [n \in Releases |-> IF n \in Batch \ refused THEN ReadsEach ELSE left[n]]
    /\ outcome' = [n \in Releases |-> IF n \in Batch \cap refused THEN "HostExhausted"
                                                              ELSE outcome[n]]
    /\ UNCHANGED <<listingVars, now, callVars, probeVars, wave, cost, abandoned, debt, endVars>>

\* One read of a running reconcile is answered, perhaps the last it needs.
Serve(n) ==
    /\ left[n] > 0
    /\ left' \in {[left EXCEPT ![n] = k] : k \in {0, left[n] - 1}}
    /\ outcome' = [outcome EXCEPT ![n] = IF left'[n] = 0 THEN "reported" ELSE @]
    /\ debt' = IF debt = 0 THEN 0 ELSE debt - 1
    /\ UNCHANGED <<listingVars, pc, now, callVars, probeVars, waveVars, abandoned, endVars>>

Fail(n, e) ==
    /\ left[n] > 0
    /\ left' = [left EXCEPT ![n] = 0]
    /\ outcome' = [outcome EXCEPT ![n] = e]
    /\ UNCHANGED <<listingVars, pc, now, callVars, probeVars, waveVars, abandoned, debt, endVars>>

\* A read of a reconcile that an earlier scrape gave up on is answered, or fails
\* and the reconcile's other reads are not made.
EndAbandoned ==
    /\ abandoned > 0
    /\ abandoned' \in 0..(abandoned - 1)
    /\ debt' = IF debt = 0 THEN 0 ELSE debt - 1
    /\ UNCHANGED <<listingVars, pc, now, callVars, probeVars, waveVars, left, outcome, endVars>>

AnyDone   == Settled # {}
AllDone   == Running = {}
OutOfTime == now >= Budget

\* The wave completed: the next may be twice as large.
WaveDone ==
    /\ pc = "waiting"
    /\ AllDone
    /\ pc' = "deciding"
    /\ cost' = now - waveStart
    /\ wave' = Least(2 * wave, Workers)
    /\ waveStart' = 0
    /\ UNCHANGED <<listingVars, now, callVars, probeVars, queue, workVars, endVars>>

NoneLeft     == {}
NeverStarted == queue

\* No more waves: what is done is counted, what is not is late, and what runs
\* is left to run.
Account ==
    /\ \/ pc = "deciding" /\ ~MayAdmit
       \/ pc = "waiting" /\ ~AllDone /\ OutOfTime
    /\ pc' = "joining"
    /\ joinEnd' = JoinUntil
    /\ account' = [n \in Releases |-> IF n \in (names \ queue) \cup NeverStarted
                                      THEN Reason(outcome[n]) ELSE "unread"]
    /\ abandoned' = abandoned + ReadsLeft
    /\ left' = NoReads
    /\ queue' = {} /\ wave' = FirstWave /\ cost' = 0 /\ waveStart' = 0 /\ debt' = 0
    /\ UNCHANGED <<listingVars, now, callVars, probeVars, outcome, readyAt, answer>>

-----------------------------------------------------------------------------
(* The probe, and the answer.                                              *)

\* The prober has waited for the lock and measured.
ProbeDone(p) ==
    /\ prober = "measuring"
    /\ prober' = "done"
    /\ measured' = {p}
    /\ UNCHANGED <<listingVars, pc, now, callVars, waveVars, workVars, endVars>>

Slow == \E p \in measured : p.slow
Exhausted ==
    \/ prober = "none"
    \/ "HostExhausted" \in {raised, podsRaised}
    \/ \E n \in Releases : outcome[n] = "HostExhausted"
    \/ \E p \in measured : p.exhausted
Misconfigured ==
    \/ badTools
    \/ podsRaised = "HostMisconfigured"
    \/ \E n \in Releases : outcome[n] = "HostMisconfigured"
    \/ \E p \in measured : p.noTool
Busy ==
    \/ podsRaised = "ClusterBusy"
    \/ \E n \in Releases : account[n] = "busy"
    \/ Slow

\* The five returns of collect: the gauges that each of them emits.
GaugesSaid ==
    CASE raised = "HostMisconfigured" -> [Silent EXCEPT !.misconfigured = "1"]
      [] raised \in HostClasses \ {"HostMisconfigured"} ->
             [Silent EXCEPT !.exhausted = Gauge(Exhausted)]
      [] raised = "ClusterBusy" -> [Silent EXCEPT !.reachable = "1", !.busy = "1"]
      [] raised = "Unavailable" -> [Silent EXCEPT !.reachable = "0"]
      [] OTHER -> [reachable |-> "1", busy |-> Gauge(Busy), exhausted |-> Gauge(Exhausted),
                   misconfigured |-> Gauge(Misconfigured)]

NoTimeout == prober # "measuring"
JoinOver  == prober # "measuring" \/ now >= joinEnd

\* The locals of collect are gone; reconciles that still run, and the answer, remain.
Answer ==
    /\ pc = "joining"
    /\ JoinOver
    /\ answer' = GaugesSaid
    /\ pc' = "idle" /\ now' = 0 /\ spent' = 0
    /\ raised' = "nothing" /\ podsRaised' = "nothing" /\ badTools' = FALSE
    /\ prober' = "none" /\ measured' = {}
    /\ outcome' = Unread
    /\ account' = Unread /\ joinEnd' = 0 /\ readyAt' = 0
    /\ names' = {}
    /\ UNCHANGED <<installed, offset, standing, removals, waveVars, left, abandoned, debt>>

-----------------------------------------------------------------------------

InCall == pc \in {"tools", "listing", "pods"}

Waits ==
    CASE InCall           -> spent < CallBound
      [] pc = "waiting"  -> ~AllDone /\ ~OutOfTime
      [] pc = "joining"  -> prober = "measuring" /\ now < joinEnd
      [] OTHER           -> FALSE

Tick ==
    /\ Waits
    /\ now' = now + 1
    /\ spent' = IF InCall THEN spent + 1 ELSE 0
    /\ UNCHANGED <<listingVars, pc, raised, podsRaised, badTools, probeVars, waveVars, workVars,
                   endVars>>

Changes ==
    /\ pc = "listing"
    /\ \E n \in Releases : Install(n) \/ Remove(n)
    /\ UNCHANGED <<pc, now, callVars, probeVars, waveVars, workVars, endVars>>

List ==
    \/ AskTools \/ ReadPage \/ ListReleases
    \/ \E e \in CallFailures : ListingFails(e)
    \/ \E e \in CallFailures \cup {"nothing"} : ListPods(e)

Reconcile(n) == Serve(n) \/ \E e \in ReadFailures : Fail(n, e)

Waves == (\E refused \in SUBSET Batch : Admit(refused)) \/ WaveDone \/ Account

Next ==
    \/ Begin \/ List \/ Waves \/ Answer
    \/ \E n \in Releases : Reconcile(n)
    \/ EndAbandoned
    \/ \E p \in ProbeViews : ProbeDone(p)
    \/ Changes
    \/ Tick

Spec == Init /\ [][Next]_vars

\* Time passes, a call of helm or kubectl is over by its bound (Calls), and the
\* collector's own thread runs.  Nothing is asked of the cluster, of the prober
\* or of the reconciles: the scrape answers without them.
Fairness == WF_vars(Tick) /\ WF_vars(List) /\ WF_vars(Waves) /\ WF_vars(Answer)

FairSpec == Spec /\ Fairness

-----------------------------------------------------------------------------
(* Properties.                                                             *)

Kinds == [Releases -> Outcomes \cup {"unread"}]

TypeOK ==
    /\ ListingOK
    /\ pc \in {"idle", "tools", "listing", "pods", "deciding", "waiting", "joining"}
    /\ {now, spent, wave, cost, waveStart, joinEnd, abandoned, debt, readyAt} \subseteq Nat
    /\ {raised, podsRaised} \subseteq Errors \cup {"nothing"}
    /\ badTools \in BOOLEAN
    /\ prober \in {"none", "measuring", "done"}
    /\ measured \subseteq ProbeViews
    /\ queue \subseteq names
    /\ left \in [Releases -> 0..(Reads + 1)]
    /\ outcome \in Kinds
    /\ account \in [Releases -> Reasons \cup {"reported", "unread"}]
    /\ \A s \in DOMAIN Silent : answer[s] \in {"absent", "0", "1"}

\* "Start small, double while a wave completes" (metrics.py:128): the cluster is
\* given at most twice the work it has already got through in this scrape, and
\* never more than the pool holds.
LoadIsEarned ==
    /\ Cardinality(Running) <= Workers
    /\ Cardinality(Running) <= Greatest(FirstWave, 2 * Cardinality(Settled))

\* Drill 8: sixteen workers left every release half read.  Once the cluster has
\* served as many reads as the first wave and the leftovers of earlier scrapes
\* need, in whatever order, the first wave is through.
FirstWaveIsNotStarved ==
    pc = "waiting" /\ debt = 0 =>
       \A n \in names : Rank(names, n) <= FirstWave => outcome[n] # "unread"

\* The waves and the probe keep the deadline: whatever the cluster, the prober
\* and the pool do, only the listings can make an answer late (metrics.py:27).
AnsweredOnTime ==
    /\ pc \in {"deciding", "waiting"} => now <= Greatest(Budget, readyAt)
    /\ pc = "joining" => now <= Greatest(Budget, readyAt) + Grace

\* A release that goes between two pages pulls the next page forward by one, so
\* it can hide one other, which the answer then does not name at all; installs
\* hide none (deploy.py:668).
RemovalsHideOneEach ==
    [][pc = "listing" /\ pc' = "pods" => Cardinality(standing \ names') <= removals]_vars

\* What the listings and the reconciles of this scrape met is this host's trouble
\* at worst.
OnlyHostTrouble ==
    {raised, podsRaised} \cup {outcome[n] : n \in Releases}
        \subseteq HostClasses \cup {"nothing", "reported", "unread"}

\* Drills 11 to 15: whatever this host refuses, while listing, spawning threads or
\* reading, the answer never calls the cluster unreachable for it, and calls it
\* busy on the word of a slow probe alone.
OnlyASlowProbeAccuses ==
    [][pc = "joining" /\ pc' = "idle" /\ OnlyHostTrouble
       => answer'.reachable # "0" /\ (answer'.busy = "1" => Slow)]_vars

\* "A crash for want of threads is HostExhausted", which means "no claim about the
\* cluster" (ADR-0021:27): when the probe, too, was slow only in that this host had
\* no process or no threads for it, the cluster is neither unreachable nor busy.
HostTroubleIsNotTheClusters ==
    [][/\ pc = "joining" /\ pc' = "idle" /\ OnlyHostTrouble
       /\ \A p \in measured : p.slow => p.exhausted
       => answer'.reachable # "0" /\ answer'.busy # "1"]_vars

Covered ==
    INSTANCE Coverage WITH
        Unread <- "unread", Late <- "deadline", Reported <- "reported",
        Reasons <- Reasons,
        listed <- IF pc = "listing" THEN {} ELSE names

\* Every listed release is accounted for as Coverage promises.
ImplementsCoverage == Covered!Spec

\* Every scrape answers, though no reconcile ends and the probe never returns.
EveryScrapeAnswers == pc # "idle" ~> pc = "idle"

\* The budget runs "from the moment it starts, including the helm list"
\* (ADR-0014:28).
KeepsItsBudget == pc # "idle" => now <= Budget + Grace
=============================================================================
