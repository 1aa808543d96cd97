-------------------------------- MODULE Calls --------------------------------
(***************************************************************************)
(* Threads that call helm and kubectl through run_bounded, and threads     *)
(* that serve /readyz through check_cluster (deploy.py).  They share three *)
(* module globals: the lock, the cached probe and the time of the last     *)
(* success.  A call killed for silence is judged in three stages, each of  *)
(* which fetches its own probe through settled_probe; the scrape's own     *)
(* probe (metrics.record_probe) enters as a Checker too, for it makes the  *)
(* same measure-now request.                                               *)
(*                                                                         *)
(* Times are ages, advanced together by Tick and saturated one past the    *)
(* bound they are compared with.  A process never outlives its bound.  A   *)
(* thread that has noted a probe's success may be suspended, for at most   *)
(* MaxPause, before it stores the probe.  Prompt says that no thread       *)
(* dawdles: time passes only while every thread is idle, waits for a       *)
(* process, or waits for the lock.                                         *)
(*                                                                         *)
(* A failed command exits with a text, and what its tool went through is   *)
(* kept beside it: `said` is whether the cluster had said anything to it.  *)
(***************************************************************************)
EXTENDS Failures

CONSTANTS
    Callers,            \* threads that run helm or kubectl commands
    Checkers,           \* threads that measure a probe now
    NoThread,           \* the lock is free
    CommandTimeout,     \* READ_TIMEOUT or WRITE_TIMEOUT, per caller
    ReadTimeout,        \* the bound check_cluster gives its probe
    ProbeTimeout,       \* PROBE_TIMEOUT
    EscalatedTimeout,   \* ESCALATED_PROBE_TIMEOUT
    ProbeTTL,           \* PROBE_TTL
    RecentSuccess,      \* RECENT_SUCCESS
    MaxPause,           \* how long a thread is suspended before it stores a probe
    CommandExits,       \* how a command may fail: its text, and who spoke
    ProbeResults,       \* what a measured probe may turn out to be
    Prompt              \* whether threads act without delay

Threads == Callers \cup Checkers

Requests == {"cached", "escalated", "now"}

\* What a probe is to the threads that read it: see Failures.ProbeView.
ProbeViews ==
    [answered : BOOLEAN, started : BOOLEAN, hostWasSlow : BOOLEAN,
     timed : BOOLEAN, error : Texts \cup {None}, spawnFailure : SpawnFailures]

\* What the markers say of who spoke: "too many requests" and an apply conflict
\* are words of an API server.  Of a text without either nothing is known, and a
\* webhook's "connection refused" beside a conflict is as good as anyone's.
Worded(exit) ==
    \/ "busy" \in exit.text
    \/ "conflict" \in exit.text /\ "unreachable" \notin exit.text
    => exit.said

ASSUME ThreadsAssumption ==
    /\ Callers \cap Checkers = {}
    /\ NoThread \notin Threads
ASSUME TimeoutsAssumption ==
    /\ CommandTimeout \in [Callers -> Nat \ {0}]
    /\ {ReadTimeout, ProbeTimeout, EscalatedTimeout} \subseteq Nat \ {0}
ASSUME WindowsAssumption ==
    ProbeTTL \in Nat /\ RecentSuccess \in Nat /\ MaxPause \in Nat
ASSUME ExitsAssumption ==
    CommandExits \subseteq {e \in [text : Texts, said : BOOLEAN] : Worded(e)}
ASSUME ProbeResultsAssumption == ProbeResults \subseteq ProbeViews
ASSUME NoneIsNoProbe == None \notin ProbeViews
ASSUME PromptAssumption == Prompt \in BOOLEAN

VARIABLES
    pc,             \* what each thread is doing
    stage,          \* which question a waiting or probing thread asks
    request,        \* the api_server_probe call it makes to find out
    spent,          \* time its running process has had
    escalations,    \* escalated probes its call has asked for
    verdict,        \* what its last call came to
    probeLock,      \* _probe_lock: its holder
    probe,          \* _probe: the cached probe, None before the first
    probeAge,       \* and its age
    measured,       \* the record the lock's holder made and has not stored yet
    lastSuccess,    \* age of _last_success
    served          \* age of the last time the cluster served one of us

threadVars  == <<pc, stage, request, spent, escalations, verdict>>
sharedVars  == <<probeLock, probe, probeAge, measured, lastSuccess>>
vars        == <<threadVars, sharedVars, served>>

Stages   == {"failure", "local", "evidence", "check"}
Verdicts == {"ok", "OSError", "AssertionError"} \cup DeployErrors

\* The oldest service that a fresh answer or a recent success can stand for.
Lately == IF RecentSuccess >= ProbeTTL + MaxPause THEN RecentSuccess
                                                  ELSE ProbeTTL + MaxPause

Init ==
    /\ pc = [t \in Threads |-> "idle"]
    /\ stage = [t \in Threads |-> "failure"]
    /\ request = [t \in Threads |-> "cached"]
    /\ spent = [t \in Threads |-> 0]
    /\ escalations = [t \in Threads |-> 0]
    /\ verdict = [t \in Threads |-> "none"]
    /\ probeLock = NoThread
    /\ probe = None
    /\ probeAge = ProbeTTL + 1
    /\ measured = None
    /\ lastSuccess = RecentSuccess + 1
    /\ served = Lately + 1

-----------------------------------------------------------------------------
(* Steps shared by the actions.                                            *)

\* A failed command was served if the cluster said something to its tool, and
\* not just that some server could not be reached.
Serves(exit) ==
    /\ exit.said
    /\ "busy" \in exit.text \/ "unreachable" \notin exit.text

AnsweredRecently == lastSuccess <= RecentSuccess

\* The call is over: the thread comes back with a verdict.
End(t, v) ==
    /\ pc' = [pc EXCEPT ![t] = "idle"]
    /\ stage' = [stage EXCEPT ![t] = "failure"]
    /\ request' = [request EXCEPT ![t] = "cached"]
    /\ spent' = [spent EXCEPT ![t] = 0]
    /\ escalations' = [escalations EXCEPT ![t] = 0]
    /\ verdict' = [verdict EXCEPT ![t] = v]

\* The thread calls api_server_probe and waits for the lock.
Request(t, s, r) ==
    /\ pc' = [pc EXCEPT ![t] = "waiting"]
    /\ stage' = [stage EXCEPT ![t] = s]
    /\ request' = [request EXCEPT ![t] = r]
    /\ spent' = [spent EXCEPT ![t] = 0]
    /\ UNCHANGED verdict

-----------------------------------------------------------------------------
(* What a thread does with the probe it got.                               *)

\* settled_probe: a cached probe that never started is asked again, with more
\* time; what the second one says is final.
AskAlways(t, p) == ~p.started
AskAgain(t, p)  == request[t] = "cached" /\ ~p.started

Escalate(t, p) ==
    /\ AskAgain(t, p)
    /\ Request(t, stage[t], "escalated")
    /\ escalations' = [escalations EXCEPT ![t] = @ + 1]

Proceed(t, s) == Request(t, s, "cached") /\ UNCHANGED escalations

Whatever(p) == TRUE
SaysWhy(p)  == p.spawnFailure # NoFailure

AskFailure(t, p) ==
    /\ stage[t] = "failure"
    /\ IF SaysWhy(p) THEN End(t, p.spawnFailure)
                     ELSE Proceed(t, "local")

HostIsAtFault(p)   == ~p.started \/ p.hostWasSlow

\* The message quotes the round trip, and asserts that there is one.
HostVerdict(p) == IF p.started /\ ~p.timed THEN "AssertionError" ELSE "HostOverloaded"

AskLocalDelay(t, p) ==
    /\ stage[t] = "local"
    /\ IF HostIsAtFault(p) THEN End(t, HostVerdict(p))
                           ELSE Proceed(t, "evidence")

OnlyItsProbe(p) == p.answered
IsThere(p)      == p.answered \/ AnsweredRecently

AskEvidence(t, p) ==
    /\ stage[t] = "evidence"
    /\ End(t, IF IsThere(p) THEN "ClusterBusy" ELSE "ClusterUnreachable")

CheckVerdict(p) ==
    CASE p.answered                  -> "ok"
      [] p.spawnFailure # NoFailure  -> p.spawnFailure
      [] p.error # None              -> Classify(p.error)
      [] ~p.started                  -> "HostOverloaded"
      [] OTHER                       -> "ClusterUnreachable"

AskReadiness(t, p) == stage[t] = "check" /\ End(t, CheckVerdict(p))

Deliver(t, p) ==
    \/ Escalate(t, p)
    \/ /\ ~AskAgain(t, p)
       /\ \/ AskFailure(t, p)
          \/ AskLocalDelay(t, p)
          \/ AskEvidence(t, p)
          \/ AskReadiness(t, p)

-----------------------------------------------------------------------------
(* run_bounded: the command itself.                                        *)

Spawn(t) ==
    /\ pc[t] = "idle"
    /\ pc' = [pc EXCEPT ![t] = "running"]
    /\ verdict' = [verdict EXCEPT ![t] = "none"]
    /\ UNCHANGED <<stage, request, spent, escalations, sharedVars, served>>

\* An OSError that says nothing known is raised as it is.
SpawnFails(t, errno) ==
    /\ pc[t] = "idle"
    /\ End(t, IF SpawnFailure(errno) = NoFailure THEN "OSError"
                                                 ELSE SpawnFailure(errno))
    /\ UNCHANGED <<sharedVars, served>>

Succeed(t) ==
    /\ pc[t] = "running"
    /\ End(t, "ok")
    /\ lastSuccess' = 0
    /\ served' = 0
    /\ UNCHANGED <<probeLock, probe, probeAge, measured>>

\* Any class but ClusterUnreachable counts as having heard from the cluster.
CountsAsHeard(text) == Classify(text) # "ClusterUnreachable"

Fail(t, exit) ==
    /\ pc[t] = "running"
    /\ End(t, Classify(exit.text))
    /\ lastSuccess' = IF CountsAsHeard(exit.text) THEN 0 ELSE lastSuccess
    /\ served' = IF Serves(exit) THEN 0 ELSE served
    /\ UNCHANGED <<probeLock, probe, probeAge, measured>>

TimeOut(t) ==
    /\ pc[t] = "running"
    /\ spent[t] = CommandTimeout[t]
    /\ Proceed(t, "failure")
    /\ UNCHANGED <<sharedVars, served>>

-----------------------------------------------------------------------------
(* check_cluster and the scrape's probe: measure now.                      *)

Check(t) ==
    /\ pc[t] = "idle"
    /\ pc' = [pc EXCEPT ![t] = "waiting"]
    /\ stage' = [stage EXCEPT ![t] = "check"]
    /\ request' = [request EXCEPT ![t] = "now"]
    /\ verdict' = [verdict EXCEPT ![t] = "none"]
    /\ UNCHANGED <<spent, escalations, sharedVars, served>>

\* require_tools found helm or kubectl missing, or the wrong helm.
ToolsMissing(t) ==
    /\ pc[t] = "idle"
    /\ End(t, "HostMisconfigured")
    /\ UNCHANGED <<sharedVars, served>>

-----------------------------------------------------------------------------
(* api_server_probe: one lock around the cache and the measurement.        *)

NoLock   == TRUE
LockFree == probeLock = NoThread

Fresh    == probe # None /\ probeAge <= ProbeTTL
Reusable(t) == request[t] = "cached" /\ ProbeTTL > 0 /\ Fresh

UseCached(t) ==
    /\ pc[t] = "waiting"
    /\ LockFree
    /\ Reusable(t)
    /\ Deliver(t, probe)
    /\ UNCHANGED <<sharedVars, served>>

StartProbe(t) ==
    /\ pc[t] = "waiting"
    /\ LockFree
    /\ ~Reusable(t)
    /\ pc' = [pc EXCEPT ![t] = "probing"]
    /\ probeLock' = t
    /\ UNCHANGED <<stage, request, spent, escalations, verdict,
                   probe, probeAge, measured, lastSuccess, served>>

ProbeBound(t) ==
    CASE request[t] = "cached"    -> ProbeTimeout
      [] request[t] = "escalated" -> EscalatedTimeout
      [] request[t] = "now"       -> ReadTimeout

NotesSuccess(p)    == p.answered
HeldOnFailure(t, p) == IF p.answered THEN NoThread ELSE t
LockAfter(t, p)    == NoThread

\* kubectl answered, failed or was killed, or could not be spawned at all, and
\* _measure_probe notes a success before it makes its record of the probe.
ProbeEnds(t, p) ==
    /\ pc[t] = "probing"
    /\ pc' = [pc EXCEPT ![t] = "stamping"]
    /\ spent' = [spent EXCEPT ![t] = 0]
    /\ measured' = p
    /\ lastSuccess' = IF NotesSuccess(p) THEN 0 ELSE lastSuccess
    /\ served' = IF p.answered THEN 0 ELSE served
    /\ UNCHANGED <<stage, request, escalations, verdict, probeLock, probe, probeAge>>

\* api_server_probe stamps the record only now, and lets go of the lock.
Stamp(t) ==
    /\ pc[t] = "stamping"
    /\ probe' = measured
    /\ probeAge' = 0
    /\ measured' = None
    /\ probeLock' = LockAfter(t, measured)
    /\ Deliver(t, measured)
    /\ UNCHANGED <<lastSuccess, served>>

-----------------------------------------------------------------------------
(* Time.                                                                   *)

Older(age, limit) == IF age > limit THEN age ELSE age + 1

\* What is limited in time: a process, and the suspension after a probe.
Metered(t) == pc[t] \in {"running", "probing", "stamping"}

HasTime(t) ==
    /\ pc[t] = "running" => spent[t] < CommandTimeout[t]
    /\ pc[t] = "probing" => spent[t] < ProbeBound(t)
    /\ pc[t] = "stamping" => spent[t] < MaxPause

Dawdles(t) ==
    \/ pc[t] = "stamping"
    \/ pc[t] = "waiting" /\ LockFree

Tick ==
    /\ \A t \in Threads : HasTime(t)
    /\ Prompt => \A t \in Threads : ~Dawdles(t)
    /\ spent' = [t \in Threads |-> IF Metered(t) THEN spent[t] + 1 ELSE 0]
    /\ probeAge' = Older(probeAge, ProbeTTL)
    /\ lastSuccess' = Older(lastSuccess, RecentSuccess)
    /\ served' = Older(served, Lately)
    /\ UNCHANGED <<pc, stage, request, escalations, verdict, probeLock, probe,
                   measured>>

-----------------------------------------------------------------------------

Command(t) ==
    \/ Spawn(t)
    \/ \E errno \in SpawnErrors : SpawnFails(t, errno)
    \/ Succeed(t)
    \/ \E exit \in CommandExits : Fail(t, exit)
    \/ TimeOut(t)

Readiness(t) == Check(t) \/ ToolsMissing(t)

AskProbe(t) ==
    \/ UseCached(t)
    \/ StartProbe(t)
    \/ \E p \in ProbeResults : ProbeEnds(t, p)
    \/ Stamp(t)

Next ==
    \/ \E t \in Callers : Command(t)
    \/ \E t \in Checkers : Readiness(t)
    \/ \E t \in Threads : AskProbe(t)
    \/ Tick

Spec == Init /\ [][Next]_vars

\* The code's scheduling: the operating system runs every thread, a process is
\* over by its bound, and a thread that waits for a lock that keeps coming free
\* gets it in the end.  Nothing makes a thread start a call.
Fairness ==
    /\ WF_vars(Tick)
    /\ \A t \in Threads :
          /\ WF_vars(pc[t] = "running" /\ TimeOut(t))
          /\ WF_vars(\E p \in ProbeResults : ProbeEnds(t, p))
          /\ WF_vars(Stamp(t))
          /\ SF_vars(UseCached(t) \/ StartProbe(t))

FairSpec == Spec /\ Fairness

-----------------------------------------------------------------------------
(* Safety.                                                                 *)

ThreadsOK ==
    /\ pc \in [Threads -> {"idle", "running", "waiting", "probing", "stamping"}]
    /\ stage \in [Threads -> Stages]
    /\ request \in [Threads -> Requests]
    /\ spent \in [Threads -> Nat]
    /\ escalations \in [Threads -> Nat]
    /\ verdict \in [Threads -> Verdicts \cup {"none"}]

SharedOK ==
    /\ probeLock \in Threads \cup {NoThread}
    /\ probe \in ProbeViews \cup {None}
    /\ probeAge \in 0..(ProbeTTL + 1)
    /\ IF \E t \in Threads : pc[t] = "stamping" THEN measured \in ProbeViews
                                                 ELSE measured = None
    /\ lastSuccess \in 0..(RecentSuccess + 1)
    /\ served \in 0..(Lately + 1)

\* The threads' records and the module globals keep their shape, every verdict is
\* an exception there is, and a record waits to be stored exactly while some
\* thread is about to.
TypeOK == ThreadsOK /\ SharedOK

\* api_server_probe runs one kubectl at a time, whoever asks and however many
\* calls time out together: whoever measures, or has still to store what it
\* measured, holds the lock (deploy.py:402).
OneProbeAtATime ==
    \A t \in Threads : pc[t] \in {"probing", "stamping"} <=> probeLock = t

\* settled_probe is called in three stages, so that is as often as a call can
\* escalate, and the price of a call on a host that starts nothing is bounded.
EscalationsAreBounded == \A t \in Threads : escalations[t] <= Cardinality(Stages) - 1

-----------------------------------------------------------------------------
(* Steps.                                                                  *)

\* t's silent call is settled by this step.
Settles(t) == t \in Callers /\ pc[t] \in {"waiting", "stamping"} /\ pc'[t] = "idle"

BlamesCluster(v) == v \in {"ClusterBusy", "ClusterUnreachable"}

\* A probe that never started says nothing about the cluster, "which is exactly
\* why it must not be called busy or unreachable" (deploy.py:565): the probe a
\* silent call's verdict rests on, cached or measured, had started.
UnstartedProbeBlamesNobody ==
    [][\A t \in Threads :
          Settles(t) /\ BlamesCluster(verdict'[t]) => probe'.started]_vars

\* "The cluster answered another call moments ago" (deploy.py:555): a silent call
\* is called busy only when the cluster did serve one of us lately, be it the
\* probe the verdict rests on.
BusyMeansServed ==
    [][\A t \in Threads :
          Settles(t) /\ verdict'[t] = "ClusterBusy" => served' <= Lately]_vars

\* "The cluster answered and refused": a command whose text names a reason is
\* answered 409 or 502 only when the cluster had said so to its tool, in whatever
\* company the markers come.  A text without a marker is taken for a refusal too,
\* whoever wrote it (deploy.py:300).
RefusalNeedsAReply ==
    [][\A t \in Callers, exit \in CommandExits :
          /\ Fail(t, exit)
          /\ exit.text # {}
          /\ HttpStatus(verdict'[t]) \in {409, 502}
          => served' = 0]_vars

-----------------------------------------------------------------------------
(* Refinement and liveness.                                                *)

\* A call is silent from the moment its process was killed until its verdict.
CallPhase == [c \in Callers |-> IF pc[c] \in {"idle", "running"} THEN pc[c]
                                                               ELSE "silent"]
CallVerdict == [c \in Callers |-> verdict[c]]

Contract ==
    INSTANCE CallContract WITH
        Window  <- RecentSuccess,
        phase   <- CallPhase,
        verdict <- CallVerdict,
        noted   <- lastSuccess

\* Every call is judged as CallContract promises.
ImplementsContract == Contract!Spec

\* Every call and every readiness check comes to a verdict.
EveryCallSettles ==
    \A t \in Threads : pc[t] # "idle" ~> pc[t] = "idle"
=============================================================================
