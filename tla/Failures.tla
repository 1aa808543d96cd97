------------------------------ MODULE Failures ------------------------------
(***************************************************************************)
(* How one failed helm or kubectl process is read (deploy.py): which error *)
(* class its text means, what a failure to start it says about this host,  *)
(* what a readiness probe says about the host and the cluster, and which   *)
(* HTTP answer an error class becomes (__init__.py).                       *)
(*                                                                         *)
(* A text is the set of marker families that occur in it.  Durations are   *)
(* natural numbers of an arbitrary unit; None stands for Python's None.    *)
(***************************************************************************)
EXTENDS Integers, FiniteSets

CONSTANTS
    SlowProbe,      \* SLOW_PROBE: this long, or longer, is slow
    None            \* a duration that was not measured

ASSUME SlowProbeAssumption == SlowProbe \in Nat \ {0}
ASSUME NoneAssumption == None \notin Nat

-----------------------------------------------------------------------------
(* Error classes.                                                          *)

HostClasses    == {"HostMisconfigured", "HostOverloaded", "HostExhausted"}
ClusterClasses == {"ClusterBusy", "ClusterUnreachable", "ClusterConflict"}
DeployErrors   == HostClasses \cup ClusterClasses \cup {"DeployError"}

\* The base-class arrows of the exceptions: HostExhausted is a HostOverloaded.
IsA(class, base) ==
    \/ class = base
    \/ class = "HostExhausted" /\ base = "HostOverloaded"
    \/ class \in DeployErrors /\ base = "DeployError"

Markers == {"exhaustion", "rejected", "busy", "unreachable", "conflict"}
Texts   == SUBSET Markers

ASSUME NoTextAssumption == \A t \in Texts : t # None

\* The order in which classify_error asks, and the class each answer means.
MarkerRank  == [exhaustion |-> 1, rejected |-> 2, busy |-> 3,
                unreachable |-> 4, conflict |-> 5]
MarkerClass == [exhaustion  |-> "HostExhausted",
                rejected    |-> "HostMisconfigured",
                busy        |-> "ClusterBusy",
                unreachable |-> "ClusterUnreachable",
                conflict    |-> "ClusterConflict"]

OnlyBusy(text) == IF "busy" \in text THEN "ClusterBusy" ELSE "DeployError"
Classify(text) ==
    IF text = {} THEN "DeployError"
    ELSE MarkerClass[CHOOSE m \in text :
                        \A n \in text : MarkerRank[m] <= MarkerRank[n]]

\* Why the operating system would not start a process, and what that says.
SpawnErrors == {"missing", "forbidden", "again", "nomem", "other"}

SpawnFailure(errno) ==
    CASE errno \in {"missing", "forbidden"} -> "HostMisconfigured"
      [] errno \in {"again", "nomem"}       -> "HostExhausted"
      [] OTHER                              -> "nothing"

-----------------------------------------------------------------------------
(* Probes: what asking for /readyz cost, and whether it answered.          *)

NoFailure     == "nothing"
SpawnFailures == {"HostMisconfigured", "HostExhausted", NoFailure}

\* error is None when the probe carries no text: it answered, was killed, or
\* kubectl printed nothing but its own log lines.
Probe(longest) ==
    [answered : BOOLEAN, started : BOOLEAN, seconds : 0..longest,
     roundTrip : 0..longest \cup {None}, startup : 0..longest \cup {None},
     error : Texts \cup {None}, spawnFailure : SpawnFailures]

WallTime(p) == ~p.answered \/ p.seconds >= SlowProbe
Slow(p) ==
    \/ p.roundTrip # None /\ p.roundTrip >= SlowProbe
    \/ /\ p.roundTrip = None
       /\ p.started
       /\ ~p.answered \/ p.seconds >= SlowProbe

\* kubectl could not be started, or could not start its threads.
Exhausted(p) ==
    \/ p.spawnFailure = "HostExhausted"
    \/ p.error # None /\ "exhaustion" \in p.error

LocalSeconds(p) ==
    CASE p.roundTrip # None ->
             IF p.seconds > p.roundTrip THEN p.seconds - p.roundTrip ELSE 0
      [] p.roundTrip = None /\ ~p.started -> p.seconds
      [] OTHER -> p.startup

\* The second half of local_delay: the server answered promptly while this
\* host took long over the probe.  (The first half is ~p.started.)
TookLong(p)    == p.answered /\ LocalSeconds(p) # None /\ LocalSeconds(p) >= SlowProbe
HostWasSlow(p) ==
    /\ p.answered
    /\ ~Slow(p)
    /\ LocalSeconds(p) # None
    /\ LocalSeconds(p) >= SlowProbe

\* What the callers of a probe go on to ask of it.
ProbeView(p) ==
    [answered |-> p.answered, started |-> p.started,
     hostWasSlow |-> HostWasSlow(p), timed |-> p.roundTrip # None,
     error |-> p.error, spawnFailure |-> p.spawnFailure]

-----------------------------------------------------------------------------
(* startup_delay: both stamps are seconds of the local day.                *)

Unfolded(delay, day) == delay
Folded(delay, day) ==
    CASE 2 * delay < -day -> delay + day
      [] 2 * delay > day  -> delay - day
      [] OTHER            -> delay

Apart(first, spawned, day) == IF first > spawned THEN first - spawned ELSE spawned - first
StartupDelay(first, spawned, day) ==
    LET delay == Folded(first - spawned, day)
    IN  IF delay > 0 THEN delay ELSE 0

-----------------------------------------------------------------------------
(* http_error: the answer a route gives for each class.                    *)

HttpStatus(class) ==
    CASE class = "HostMisconfigured"           -> 500
      [] IsA(class, "HostOverloaded")          -> 503
      [] class \in {"ClusterBusy", "ClusterUnreachable"} -> 503
      [] class = "ClusterConflict"             -> 409
      [] OTHER                                 -> 502
=============================================================================
