# Formal models of nf-orchestrator

TLA+ modules for the orchestrator under `orchestrator/`, TLC configurations that
model-check them on small instances, and theorems that TLAPS proves for every
value of the constants. Source references are to the repository
(`deploy.py`, `reconciler.py`, `metrics.py` and `__init__.py` are in
`src/orchestrator/`, documents in `src/docs/`).

    tlc -workers 2 -config calls_judged.cfg MCCalls      # one run
    tlapm LifecycleProofs.tla                            # the proofs of one module

## 1. The system

nf-orchestrator is an HTTP application (FastAPI) that keeps no store of its own. It
turns an intent into one `helm upgrade --install`, and derives the lifecycle state
of each release by reading helm and kubectl again on every request. Every
outside effect is a child process with a bound, and much of the code is about
telling, from a process that failed or said nothing, whether the cluster or this
host is to blame. Requests are served by a pool of threads; nothing serialises
them except one lock around the readiness probe.

| Component | State | Operations | What makes it hard |
|---|---|---|---|
| failure classification (`deploy.py:33-201, 284-371`, `__init__.py:48-80`) | none | `classify_error`, `spawn_failure`, `Probe.slow`, `local_seconds`, `startup_delay`, `http_error` | texts with several markers, a missing round trip, midnight |
| probe measurement (`deploy.py:418-492`) | one kubectl process and its log | `_measure_probe` | a process killed anywhere; a record built from a partial log |
| bounded calls and the shared probe (`deploy.py:374-415, 495-653`) | `_probe_lock`, `_probe`, `_last_success` | `run_bounded`, `settled_probe`, `local_delay`, `reachability_evidence`, `api_server_probe`, `note_success`, `check_cluster` | threads that share the cache and the lock; two windows of time; one call judged on several probes |
| tool gate (`deploy.py:203-271`) | `_versions`, 60 s | `missing_tools`, `version_problems`, `require_tools` | a stale cache, an unreadable version |
| deploy engine (`deploy.py:696-728`) | none; helm's revisions | `deploy`, forced by repair only | field ownership; helm killed in the middle; other writers |
| reconciler (`reconciler.py`) | none | `derive_state`, `desired_replicas`, `deployed_revision`, `reconcile`, `teardown` | one answer read by three processes; check-then-act in `teardown` |
| release listing (`deploy.py:656-693`) | an offset | `list_releases` | the list changes between two pages |
| lifecycle collector (`metrics.py`) | a pool of workers, one prober thread | `collect`, `reconcile_within`, `record_probe` | one budget for everything; work abandoned at the deadline; five different returns |
| alert rules (`src/monitoring`) | Prometheus' history | expressions over the series | absent series, shares over flapping scrapes |
| intent model, translator (`intent.py`, `translate.py`, `llm.py`) | none | validation, matching | the translator's output is untrusted and is validated, never deployed |
| HTTP application (`__init__.py`) | counters | routes, error answers | statuses; otherwise the framework's |
| chart, cluster config, scripts | none | | |

Interactions: routes call `deploy`, `reconcile` and `teardown`; these call
`run_helm`/`run_kubectl`, which is `run_bounded`; a silent `run_bounded` asks
`settled_probe`, which asks `api_server_probe`, where all threads meet; `/readyz`
(`check_cluster`) and the scrape's prober replace the cached probe; two requests for
one release meet only in helm's revisions and in the Deployment, where an autoscaler
or a person with `kubectl scale` meets them too.

What makes each correct, in the documents' own terms: a silent cluster is never
reported as a state or an absence (ADR-0006); busy is not unreachable and neither is
said without evidence (ADR-0016, 0017); the host takes the blame only for its own
share (ADR-0018, 0020, 0021); a failed operation is not a failed network function
(ADR-0009); POST never takes a contested field (ADR-0008); `desired_replicas` is the
intent in effect (api.md:64); DELETE is idempotent (api.md:72); a scrape has one budget and
accounts for every release it listed (ADR-0014), and a cluster that shares itself among its
readers is given no more of them than it has shown it can serve (drill 8).

## 2. The modules

| Module | Models | Extends |
|---|---|---|
| `Failures` | classification and the readings of a Probe, as operators | |
| `ProbeProcess` | one `kubectl get --raw=/readyz -v=6`, from the thread's first stamp to the record | `Failures` |
| `CallContract` | what a caller is promised about a silent call (abstract) | |
| `Calls` | threads, lock, cache, timestamps, and what each tool went through; implements `CallContract` | `Failures` |
| `Reading` | `derive_state`, `desired_replicas`, `last_operation`, as operators | |
| `TwoAxes` | what GET promises of a release over time: an operation, and an intent in effect (abstract) | |
| `Lifecycle` | POST, repair, DELETE and GET of one release as the steps of their processes; implements `TwoAxes` | `Reading` |
| `Listing` | `list_releases` page by page, over a list that changes | |
| `Coverage` | what a scrape promises about the releases it listed (abstract) | |
| `Scrape` | `LifecycleCollector.collect` with its waves, deadline, probe and five returns; implements `Coverage` | `Listing` |
| `MCProbeProcess`, `MCCalls`, `MCLifecycle`, `MCScrape` | values of the constants for TLC | |
| `ProbeProofs`, `CallsProofs`, `LifecycleProofs`, `ListingProofs`, `ScrapeProofs` | theorems and proofs | |

Some modules hold operators such as `NoLock`, `LatestValues`, `ByOne` or `Everything` that
nothing uses: each is a plausible error in the definition that follows it
(a lock that does not exclude, a history read at its newest revision), kept to show
that the properties would notice.

### Failures and ProbeProcess

A text is the set of marker families it contains (`EXHAUSTION_MARKERS`, ...), which is
all `classify_error` asks of it; `Classify` takes the family that is asked about first.
A `Probe` is the record of `deploy.py:314-330` in whole time units.

`ProbeProcess` has the process's real history (`asked`, `replied`, `over`, `text`) beside the record
that `_measure_probe` builds from the log, so what the record *says* about host and
server is compared with what *happened*. `readable` says whether this kubectl's
response line is in the form `_round_trip` understands; both kinds of kubectl are initial
states. `Kill` is `TimeoutExpired`, at any phase, and `Crash` is the Go runtime that gets no thread.

There are two clocks, as in the code. The wall clock is stamped first (`spawned`, deploy.py:419)
and the monotonic one after it (`began`, 420); the thread may be suspended between the two and again
before it reads the monotonic clock at the end, and the wall clock may be stepped before kubectl
logs its first line (`shifted`). `startup` is a difference of the first clock, `seconds` of the
second, so either may exceed the other. Wall-clock stamps are seconds of a day of `Day` seconds, and
`SpawnTimes` puts the start before, at and across midnight.

### Calls and CallContract

One state machine per thread, shared globals as in the module:

| Model | Code |
|---|---|
| `Spawn`, `SpawnFails`, `Succeed`, `Fail`, `TimeOut` | the outcomes of `subprocess.run` in `run_bounded` |
| `stage` = failure, local, evidence | the three places where a silent call calls `settled_probe` |
| `stage` = check | `check_cluster`; the scrape's prober makes the same request and enters as a `Checker` |
| `UseCached`, `StartProbe`, `ProbeEnds` | `api_server_probe` inside `_probe_lock`, up to the end of kubectl and `note_success` (449) |
| `Stamp` | the rest of it: the record is stored and dated (414), the lock released, the caller's stage goes on |
| `Escalate` | `settled_probe`'s second question (`max_age=0`, 3 s) |
| `HostVerdict` | `local_delay`'s two answers, the `assert` of 576 between them |
| `probeAge`, `lastSuccess` | `time.monotonic()` differences, saturated one past their window |

Between `ProbeEnds` and `Stamp` the thread holds the lock and may be suspended, so a cached answer may be
older than its date says, by as much as the suspension. Between two probes of one call the lock is
free, so another thread may replace the cached probe: that is what the code does, and where the
divergence of `calls_unstarted` comes from.

A failed command is a text *and* whether the cluster had said anything to its tool (`CommandExits`,
`said`). The pairs are free but for `Worded`: only an API server says "too many requests" or names a conflict
(unless "connection refused", which a webhook's caller prints too, stands beside it). `served` is the
model's own: the age of the last time the cluster served one of us (`Serves`), and `CountsAsHeard` is
the code's belief about the same thing. What is abstracted: a process's output beyond its text, the
detail strings of the verdicts, and every field of a Probe that its readers do not ask for (`ProbeView`).

`CallContract` keeps only what a caller sees, `served` and `noted`. A silent call may be judged
unreachable only when the cluster served nobody inside the window; busy only when it served one of us
lately (`Lately`: the window, or the life of a cached answer with the suspension before it) or when,
inside the window, a failed command was mistaken for an answer (`Mistake`: one that ended as
HostExhausted, HostMisconfigured or DeployError). The second half of "busy" is what the code
does and not what its documents say: `calls_crashed` is the run that asks for the first half alone.
`Calls` maps onto it with `phase` = silent from the kill to the verdict.

### Reading and Lifecycle

A history is a sequence of revisions `[status, replicas]`; a pod is one of six classes that
`derive_state` tells apart. A request is a thread whose steps are the *processes* it runs,
and a helm process is split where another party can see the difference: `Record` (the
pending revision), `Apply` or `Conflict` or `Reject` (the cluster), `Mark` (deployed,
others superseded). Helm, server-side apply, field ownership and the Deployment
controller are external, modelled from what the code and its drills rely on. `KillUpgrade` and
`KillUninstall` end a process at its bound and leave what it had done; `SilentRead` and `SilentCheck` are a read that
said nothing; a request's locals end with it (`EndDeploy`, `EndDelete`, `EndGet`), and `answer` holds the
answer given last, under its thread. `Scale` is someone else's hand on `spec.replicas`; `MovePod` is the cluster.
`RefuseToRecord` stands for every refusal before a revision exists, `require_tools` included.

Repeated writes of a running helm process go to its own revision *number*: when the
release was deleted meanwhile (`Recorded` false) there is nothing to write back.

Nothing in the orchestrator keeps requests for one release apart. `BesideDelete` is the set of
threads whose requests may run while a DELETE is served; a thread outside it waits, which is
what a careful client does, not something the code sees to (`MayStart` is external, as is the condition on
the others in `Delete`). Deletes
are never kept from each other. In `lifecycle_two_deletes` everyone is beside everyone, in
`lifecycle_reads` all but one reader; elsewhere the set is empty, because a DELETE between the two halves of a POST does
break what is stated there (see the divergences below).

`TwoAxes` is lifecycle-states.md's section of that name as a state machine: `operation` is what
`last_operation` says, `effect` what `desired_replicas` says. An operation begins only when none is
under way; completing it brings what it `asked` for into effect; failing changes nothing; one that
is never heard of again stays PROCESSING and can only be deleted; a deletion that has begun only
ends with the release gone. There are no requests, revisions or helm in it. `Lifecycle` maps onto it
with the two readings of its history, the intent of the newest revision (`Asked`) and whether that
revision is `uninstalling` (`Deleting`).

### Listing, Scrape and Coverage

`Listing` numbers the releases in helm's alphabetical order. A page is the slice of what is
installed at the moment it is read (`Page`); between two pages others install and remove.
`standing` and `removals` are the model's own: what has been there throughout, and how much has
gone. What is installed is followed only while it is listed.

`Scrape` is the collector's thread, the work it starts and the time it has:

| Model | Code |
|---|---|
| `AskTools` | `tool_problems`, and the start of the prober (which may find no thread) |
| `ReadPage`, `ListReleases`, `ListingFails` | `list_releases`; each page is a call with a bound of its own |
| `ListPods` | `release_pods`, which may fail and is then replaced by one call per release (`ReadsEach`) |
| `Admit`, `WaveDone`, `MayAdmit`, `Batch` | the loop of `reconcile_within`; the releases in `refused` get no thread (`submit`) |
| `Serve`, `Fail` | one call of a running reconcile, answered or failed (`snapshot`); `k = 0` is a reconcile that needs fewer calls |
| `Account` | the end of the waves, `cancel_futures`, `_never_started` and the loop over the futures, as `Reason` |
| `EndAbandoned` | reconciles that were running at an earlier deadline and run on |
| `ProbeDone`, `JoinOver` | `record_probe`: the prober may finish at any time or never |
| `GaugesSaid`, `Answer` | the five returns |

`left` is the work still to do for each release, `outcome` what its future holds, `account` what
the answer says of it. `abandoned` is the reads left over from earlier scrapes; `debt` and
`readyAt` are the model's own, for `FirstWaveIsNotStarved` and `AnsweredOnTime`. The collector's own
steps take no time: time passes while it waits for a call, a wave or the probe. A probe is what
`collect` asks of it: slow, exhausted, without its tool; a kubectl that crashed on its way is slow *and*
exhausted (deploy.py:347, 354, 450). The cluster
serves the reads of all running reconciles in any order and at any rate, which is what a
throttled API server does with them. What one call comes to is decided in `Calls`, what a
reconcile derives in `Lifecycle`; here they are any outcome.

`Coverage` knows only what was listed, what was read and the account: each listed release is
read at most once, before the account is given, and is in it as reported exactly when it was
read to the end, as late exactly when it was not read, and under a reason otherwise. `Scrape`
maps onto it with its own `outcome` and `account`, and with `names` once the listing is complete.

## 3. The runs

Bounds are small, and each is chosen so that the case the property is about happens:
time units are about a second, `PROBE_TTL` is 1 unit, a success counts for 2, one
escalated probe is longer than a plain one, and every `MaxRevisions` allows at least one
upgrade after the install where upgrades matter.

Passing:

| Run | Instance | Shows |
|---|---|---|
| `probe_record` | bound 4, SLOW_PROBE 2, suspensions up to 2, clock steps of -2, 0, 2, start at 0, 5, 16, 17 of a day of 18 | the record is well formed (`TypeOK`); when the host is blamed with a round trip quoted, the server did answer fast and the rest was long, whatever the clocks did (`HostBlameIsDeserved`); the `assert` of deploy.py:576 can fail only with an unreadable log and a gap between the clocks (`AssertionNeedsAGap`); "slow" means the server had the request that long (`SlowMeansTheServerWasSlow`); midnight does not break the start-up share (`StartupSurvivesMidnight`) |
| `calls_judged` | one caller, one readiness check, every kind of probe (error replies of `/readyz` and crashed kubectls included), every text from every tool that may have written it, suspensions up to 2, `FairSpec` | `TypeOK`, `OneProbeAtATime`, `EscalationsAreBounded` (at most one per stage), `RefusalNeedsAReply` (409 and 502 for a stated reason only when the cluster gave one), `ImplementsContract` (the refinement), and `EveryCallSettles` |
| `lifecycle_deploys` | two writers (POST and repair) and two deleters whose helm may be killed at any step, drift, two replica counts, two pods, three revisions | `SettledIntentIsInEffect` (the intent reported is the one in effect, for every release that does not read PROCESSING), `ImplementsTwoAxes` (the refinement), `DriftSurvivesDeploys` (only repair, uninstalling or another hand takes a field that someone else set), `FailedOperationChangesNoState` |
| `lifecycle_reads` | a writer, a deleter and two readers, one of which keeps out of the deleter's way; helm may be killed and reads may be silent; two replica counts, one pod, two revisions | `TypeOK`, `AnswersFollowOneHistory` (a GET never mixes two intents, whatever deploys it overlaps), `NotInstantiatedMeansAbsent` (silence about a release, or another's half-done uninstall, is never reported as an absence) |
| `scrape_collect` | three releases in pages of two, one removal, waves of up to three, a budget of 3 and calls of up to 2, every failure of a listing, a probe that may be slow, crashed, refused or toolless or may not return, one read left over from the scrape before, `FairSpec` | `TypeOK`; `RemovalsHideOneEach` (what a listing misses is bounded by what went); `LoadIsEarned`; `FirstWaveIsNotStarved`; `AnsweredOnTime`; `OnlyASlowProbeAccuses` (host trouble never makes the cluster unreachable, and busy only on the word of a slow probe); `ImplementsCoverage` (the refinement); `EveryScrapeAnswers` |

Their sizes, in distinct states: `probe_record` 53,904, `calls_judged` 230,924, `lifecycle_deploys` 583,759,
`lifecycle_reads` 6,626,441, `scrape_collect` 1,427,821. `ProbeProcess` ends, so its runs do not check
deadlock; the others do.

The bounds of `probe_record`: a suspension and a clock step are as long as SLOW_PROBE, the least that can
carry a record over the limit, and the day is a little longer than twice the longest delay, so that
the starts at 16 and 17 meet midnight, and the one at 0 does when the clock is set back. `calls_judged` has suspensions longer than
`PROBE_TTL` and as long as `RECENT_SUCCESS`, so that a cached answer can be older than the window. The violated
runs of `Calls` are *prompt*: time passes only while all threads are idle, in a process, or waiting for one
that holds the lock, which leaves out the (real) case of a suspended thread; what they find without it is the
stronger for it. Three revisions are an install and two upgrades, the least in which a failed upgrade
can lie between two deployed ones; a GET beside deploys needs two. Pods are interchangeable, and so are
writers and deleters where `BesideDelete` has none of them, so the Lifecycle runs may use symmetry; no run with a
liveness property does.

The bounds of `scrape_collect`: a unit is somewhat over a second, so that the budget is a call and
a half and the listings may use it up, or leave enough for one wave or two. `FirstWave` is 2 of
3 `Workers`, so the second wave is what is left; that a wave doubles and is capped by the pool is
seen only in the proof of `WavesAreEarned`. Three releases in pages of two make a listing
of two pages, whose second page one removal can shift. `ReadFailures` is one class, because only
its reason matters to a release, and the classes of this host enter through `refused` and
`CallFailures`. One read may be left over when a scrape begins (`MaxAbandoned`), which is where
the next first wave begins to share. All bounds but `MaxRemovals` and `MaxAbandoned` stand for
settings of the code.

Violated, each a promise of a document that the code does not keep:

| Run | Promise | What happens |
|---|---|---|
| `probe_paused` | deploy.py:576, the `assert` that a probe which blames the host has a round trip | the thread loses SLOW_PROBE between the two stamps of 419-420 and kubectl's response line is not understood: the request ends in an AssertionError instead of HostOverloaded |
| `calls_unstarted` | deploy.py:564, an unstarted probe must not be called busy or unreachable | a readiness check replaces the cached probe after the stage that looks at `started` |
| `calls_crashed` | deploy.py:555, busy means that the cluster answered another call moments ago | a tool that crashed for want of threads, or whose arguments helm rejected, is noted as a success (534), and the next silent call is called busy |
| `lifecycle_killed` | api.md:64, the revision actually in effect | helm killed between applying and marking: the old count is reported, the new one is in effect |
| `lifecycle_two_deletes` | api.md:72, DELETE is idempotent | the second DELETE finds the release at `status` and not at `uninstall`, and gets 502 |
| `scrape_crashed` | ADR-0021:27-30, a crash for want of threads makes no claim about the cluster | a probe whose kubectl crashed counts as started and without an answer, so it is slow too, and `nf_cluster_busy` is set (metrics.py:432) |
| `scrape_overruns` | ADR-0014:28, the budget runs from the start, `helm list` included | the listings have bounds of their own, one after another, and are not given the deadline: two that succeed at their bound make an answer that Prometheus no longer waits for |

Divergences that were met in the model and have no run of their own:

- `settled_probe` may escalate once *per stage*, three times per call; ADR-0020:28 and
  architecture.md:75 say once. `EscalationsAreBounded` states what does hold.
- An escalation passes `max_age=0`, so calls that time out together on a slow host each
  measure; deploy.py:402-403 says the first probes and the rest wait for its answer.
- An error reply of `/readyz` (a 500 while a check fails) is a reply, but
  `reachability_evidence` looks only at `answered`, and nothing notes it (447-455); architecture.md:89 says
  unreachable means "nothing answered". `CallContract` therefore speaks of a cluster that *served* us.
- A kubectl that cannot be spawned is told apart by its reason at the first stage only; when that happens
  first on a later stage's probe, or on an escalation of it, the call is HostOverloaded, even for one thread.
- A text without any marker reads as a refusal by the cluster, 502, whoever wrote it: a local error of helm
  that no family covers is one (deploy.py:300). `RefusalNeedsAReply` speaks of texts with a reason.
- A webhook's "connection refused", which the API server relays, is read as the cluster's own silence.
- A DST change or a step of the wall clock while a probe starts shifts the start-up share by as much
  (deploy.py:419); `StartupSurvivesMidnight` states what is left: never negative, never a day off.
- A kubectl probe that was spawned and then crashed for want of threads counts as started, and
  its text is not looked at when a silent call is judged (deploy.py:450): the call may be answered
  ClusterUnreachable, where ADR-0021:29-32 wants no claim about the cluster.
- GET reads history, values and pods with three processes, so a deploy in between can give
  an answer true at no instant (reconciler.py:75). `AnswersFollowOneHistory` states what holds: the
  pods are judged by the history the GET began with, so the answer is right if that is still the
  history.
- A DELETE between a GET's history and its values makes the GET a 502, not
  `NOT_INSTANTIATED` (api.md:67): only the first read turns `not found` into an answer.
- A DELETE that runs between a POST's `Record` and `Apply` leaves a Deployment no release owns.
- With a DELETE and a reinstall inside one GET, the numbers of the revisions repeat, and the
  values a GET reads are not of the history it read: `AnswersFollowOneHistory` is therefore
  stated for readers that are kept apart from DELETEs.
- The early returns of `collect` leave out gauges that the run to the end has: a missing tool is
  not said when the listing then fails as overloaded, busy or unreachable, nor exhaustion on the
  last two; ADR-0021:37 promises it for any scrape that hit the limit.
- A reconcile abandoned at the deadline runs for what is left of its *several* calls, each with
  its bound; ADR-0014:67 counts one read timeout.
- `tool_problems` may run `helm version` before the listing, outside the budget too.
- A version that could not be read, a `helm version` that timed out included, is cached for a
  minute as no problem (deploy.py:230-250), so on a slow host a wrong helm may go unseen for longer
  than the minute of deploy.py:215.

### Fairness

`Calls!Fairness`: time passes (`WF(Tick)`, the clock); a process is over at its bound
(`subprocess.run(timeout=...)` kills it: `WF` of `TimeOut` and `ProbeEnds`); a thread that has its probe's
record goes on to store it (`WF(Stamp)`); a thread that waits
for `_probe_lock` gets it if it keeps coming free (`SF`). The last is more than weak
fairness because the lock may be taken by others in between; `threading.Lock` promises no
order, and what is assumed is only that the system does not pass over one waiter for ever.
Nothing makes a thread *start* a call. Nothing of `Lifecycle` needs fairness. `Scrape!Fairness`: time passes,
a call of helm or kubectl is over at its bound (`WF` of `List`), and the collector's own thread runs
(`Waves`, `Answer`). Nothing is asked of the cluster, of the reconciles, of the prober or of the
abandoned work, so `EveryScrapeAnswers` holds though none of them ever ends.

## 4. What is proved

The theorems hold for every number of threads, every timeout, window, set of texts and of
probes, every replica set, pod set and bound on the history, every finite set of releases, page
size, pool, budget and grace. The first column names the module.

| | Theorem | States | Under |
|---|---|---|---|
| `ProbeProofs` | `RecordsAreProbes` | `ProbeProcess!TypeOK` | |
| | `BlamedHostsDeserveIt` | `HostBlameIsDeserved` | |
| | `AssertionFailsOnlyOnAGap` | `AssertionNeedsAGap` | |
| | `MidnightChangesNothing` | `StartupSurvivesMidnight` | |
| | `SlowIsTheServers` | `SlowMeansTheServerWasSlow` | |
| `CallsProofs` | `TypeCorrect` | `Calls!TypeOK` | |
| | `MutualExclusion` | `OneProbeAtATime` | |
| | `EscalationsBounded` | `EscalationsAreBounded` | |
| | `RefusalsAreReplies` | `RefusalNeedsAReply` | |
| | `CallsKeepTheContract` | `ImplementsContract` | |
| | `UnstartedAloneBlamesNobody` | `UnstartedProbeBlamesNobody` | `Alone` |
| `LifecycleProofs` | `LifecycleTypeCorrect` | `Lifecycle!TypeOK` | |
| | `AbsenceIsReal` | `NotInstantiatedMeansAbsent` | |
| | `DriftSurvives` | `DriftSurvivesDeploys` | |
| | `AnswersAreConsistent` | `AnswersFollowOneHistory` | deploys kept apart from DELETEs |
| | `FailuresChangeNoState` | `FailedOperationChangesNoState` | deploys kept apart from DELETEs |
| | `SettledInEffect` | `SettledIntentIsInEffect` | deploys kept apart from DELETEs |
| | `KeepsTwoAxes` | `ImplementsTwoAxes` | deploys kept apart from DELETEs |
| | `DesiredInEffect` | `DesiredIsInEffect` | deploys kept apart from DELETEs, no killed helm |
| `ScrapeProofs` | `ScrapeTypeCorrect` | `Scrape!TypeOK` | |
| | `ListingMisses` | `RemovalsHideOneEach` | |
| | `DeadlineKept` | `AnsweredOnTime` | |
| | `HostIsNotTheCluster` | `OnlyASlowProbeAccuses` | |
| | `ScrapeCovers` | `ImplementsCoverage` | |
| | `WavesAreEarned` | `LoadIsEarned` | |
| | `FirstWaveGetsThrough` | `FirstWaveIsNotStarved` | |

The assumptions are not conveniences: `lifecycle_killed` violates the conclusion of `DesiredInEffect`
without its hypothesis, and `calls_unstarted` that of `UnstartedAloneBlamesNobody`. What those two theorems
state is checked by no passing run, being false of the code at large. Deploys kept apart from DELETEs means
`Writers \cap BesideDelete = {}`: DELETEs are served, several at once and killed anywhere, but no
deploy is under way beside them. Without it TLC finds a POST that marks its revision `deployed` over an uninstall that has
removed the Deployment, and one that applies after the history is gone. `Alone` says that there is one thread, that it
does not dawdle, and that the cache is on (`PROBE_TTL > 0`). `CallsKeepTheContract` has no hypothesis: the
exits, the probes and the suspensions are any.

`ProbeProofs`. `DelayIsRecovered` is the arithmetic of two stamps without a date: a delay shorter
than half a day is found again. `Happened` orders what the process did (a reply follows a
question; an exit without a text had a reply) and `Kept` says what of it the record holds; both
are needed because the properties compare the two. `StartupIsWallTime` says what the start-up share is by the
wall clock: no more than `seconds` when the monotonic stamp followed at once and no clock was
stepped, which is all that `AssertionFailsOnlyOnAGap` needs.

`CallsProofs`. `TypeOK` and `OneProbeAtATime` are inductive together (`SoundStep`): that a record waits to be
stored exactly while some thread is about to store it needs the lock. `Frugal` counts the
escalations a thread may have asked for by the stages behind it. `FirstFamily` names the family a text is
classified by, and `ClassTellsWhoSpoke` draws from it, and from the order of the markers, what a class says of
who spoke: only busy and conflict always mean the cluster, and a text that gives a reason and is answered
409 or 502 was the cluster's.

For the refinement, `Evidence` says that whatever was served has been noted (so a success noted longer ago
than the window means that nothing was served in it), that a cached answer is no older than its date and
the suspension before it, and that only a readiness check is at stage "check". The converse, that
what is noted was served, is false, which is why the contract has `Mistake`. With `Evidence` a verdict
"there" or "not there" that the code takes from its two witnesses is one the contract allows
(`DeliverJudges`), and each step of `Calls` is a step of the contract or a stutter, by action. `Steady` says
that whoever reaches the last stage alone finds there the probe it passed the second with, still fresh.

`LifecycleProofs`. A writer or reader outside `BesideDelete` and a deleter are never both at work
(`Apart`), so that for them a history only grows between the first and the last step of a request. On
this rest:

- `HistoryInv`: an active helm's revision is the newest, pending and its own; at most
  one helm is active (helm refuses a release with a pending newest revision, and only the
  active one can end it); at most one revision is `deployed`.
- `Tracks`: what a GET has read so far keeps its replica counts and its one deployed revision,
  and the count it read is the intent of the history it began with. A status may change under it,
  which is why the property speaks of that history and not of the present one.
- `EffectInv`: while helm owns the field, the Deployment is held to the deployed revision as long as
  the release does not read PROCESSING, and while a deploy's helm is at work to that revision or,
  once it has applied, to that helm's intent (`InStep`); a DELETE that has gone on to remove finds
  the newest revision `uninstalling` or no history (`Uninstalls`). `SettledIntentIsInEffect` alone is
  not inductive: it says nothing of a release under an operation, which the next step may end.
  Nothing is said of a release that a killed helm left PROCESSING, and nothing need be: helm refuses
  to upgrade it.
- `AtWork`: if no helm is killed, a release that reads PROCESSING has a request at work on it. It
  turns `SettledIntentIsInEffect` into `DesiredIsInEffect`.
- `DriftedIsThere`: a field that someone else owns is a field of a Deployment that exists, so an
  `Apply` that is not forced either meets `Contested` or changes neither count nor manager. This is all that
  `DriftSurvives` needs, and it holds whoever runs beside whom.

The refinement `KeepsTwoAxes` needs `HistoryInv` and `EffectInv`: a helm that marks or fails a revision has
the newest, so these steps are `Complete` and `Fail`; `Record` is `Begin` because helm asked
`HelmIsBusy`, which is the same as reading PROCESSING (`BusyIsProcessing`); `StartUninstall` is
`Delete`, `Purge` is `Vanish`, and every other step is a stutter.

All of these are shown by one case per action, with lemmas for what each kind of write
keeps of the history (`RecordKeeps`, `FailureKeeps`, `MarkKeeps`, `SameIntent`).
`FailuresChangeNoState` follows from them with `StateByIntent`: once something is deployed, the state
depends on the history only through the intent in effect. `AbsenceIsReal` needs no invariant but
type correctness, and holds with deleters too: it goes through every way a request can end.

`ListingProofs` has the facts about ranks and slices that a page and a wave rest on: a
slice is no longer than asked (`SliceBound`) and full when there is more (`SliceFull`), and the rank of an element
drops by at most one when another is removed and never when one is added (`RankWithout`,
`RankWith`). From these, `HiddenByRemovals`: the standing releases before the offset that no page
has named are at most as many as have gone. `RemovalsHideOneEach` speaks of the end of the listing only and is not
inductive.

`ScrapeProofs`:

- `Shape`: a release is queued, running or settled, and nothing is queued, running or accounted
  for outside its phase. It carries the refinement: each step is a `List`, `Read`, `Account` or
  `Forget` of `Coverage`, or a stutter.
- `Timely` fixes where time may stand in each phase, up to the join.
- `BusyIsEarned`: a release counted as busy was read as busy. So when nothing that was read said busy, the
  gauge can only come from the probe (`HostIsNotTheCluster`).
- `EarnedInv`: the coming wave is at most twice the last, and the last was full as long as releases
  were queued, so what is admitted is at most twice what has settled; nothing runs between waves.
- `FirstWavePaid`: until the first wave is through it is all that runs, and the reads it still
  needs, with those left over, are at most `debt`. So when the debt is paid, it is through.

Out of the prover's reach, and model-checked only: the two liveness properties
(`EveryCallSettles`, `EveryScrapeAnswers`). There is no recursive operator in any
module. Every other property of a passing run is stated by a theorem.

## 5. What is not modelled

- The tool gate (`version_problems` and its minute). `Calls`, `Lifecycle` and `Scrape` take its outcome
  as any. The stamp of the cached answer is taken before `helm version` is run, so the answer is never
  older than its stamp says; what else it can do wrong is in the divergences above.
- The alert rules: expressions over minutes of scrapes, whose subject is Prometheus' evaluation.
- The translator and the intent model: matching and validation of one text, with no state, no
  interleaving and no step that could fail half way.
- The chart, the scripts and `llm.py` (one optional call of a service): no behaviour of this system.
- Of the scrape: the values of the release series (`Lifecycle` derives them), the gauges in
  seconds, two scrapes at once (each has a pool of its own), the item that a refused `submit` has
  already queued, and exceptions that `snapshot` does not name.
- Of the listing: output that does not parse.
- The wording of errors, log lines and metric names. `not found` is looked for anywhere in
  helm's text (reconciler.py:157); the model takes it to mean the release.

## 6. Plan

What would come next, in order of weight:

1. Proofs of what carries the liveness properties and is safety itself: that in every state some process,
   clock or thread of `Fairness` can take a step (no thread waits for a lock whose holder runs nothing).
2. What is left of `TwoAxes` when a DELETE runs beside deploys, as an abstract specification with one more
   value for an intent nobody can tell.
3. `ToolGate`: threads that share `_versions` without a lock, a helm that is replaced under them, and
   the promise that a swap is seen within a minute if the version could be read.
4. `Alerts`: the rules of `nf-lifecycle.rules.yml` over the answers of `Scrape`, with the drills of ADR-0019.
5. Two collectors on one cluster, for the load that two pools put on it.
6. `Translate`: matching as operators.
