---------------------------- MODULE ProbeProcess ----------------------------
(***************************************************************************)
(* One `kubectl --raw=/readyz -v=6` as _measure_probe runs and reads it:   *)
(* the thread stamps the wall clock, stamps the monotonic clock and spawns *)
(* the process; the process logs its first line, asks, logs the response   *)
(* it got, and exits or is killed at the bound; the thread reads the       *)
(* monotonic clock again and makes the record.  The thread may be          *)
(* suspended between the stamps and after the process, and the wall clock  *)
(* may be stepped before the first line is logged.  The model keeps what   *)
(* really happened beside the Probe record the code builds from the log,   *)
(* so that what the record says can be held against what happened.         *)
(*                                                                         *)
(* Bounds: a process lives at most Timeout units, a suspension lasts at    *)
(* most MaxPause, a step of the wall clock is at most MaxStep either way.  *)
(***************************************************************************)
EXTENDS Failures

CONSTANTS
    Timeout,        \* the bound given to subprocess.run
    MaxPause,       \* the longest the thread is suspended
    MaxStep,        \* the largest step of the wall clock
    Day,            \* seconds of a local day
    SpawnTimes,     \* seconds of the local day at which the wall clock is stamped
    Steps           \* by how much the wall clock may be stepped

ASSUME TimeoutAssumption == Timeout \in Nat \ {0}
ASSUME MaxPauseAssumption == MaxPause \in Nat
ASSUME MaxStepAssumption == MaxStep \in Nat
ASSUME DayAssumption == Day \in Nat /\ Day > 2 * (MaxPause + Timeout + MaxStep)
ASSUME SpawnTimesAssumption == SpawnTimes \subseteq 0..(Day - 1)
ASSUME StepsAssumption == Steps \subseteq -MaxStep..MaxStep

VARIABLES
    clock,      \* units of real time since the wall clock was stamped
    phase,      \* where the process is
    readable,   \* whether this kubectl's response line can be parsed
    spawned,    \* the wall clock's stamp, seconds of the local day
    began,      \* when the monotonic clock was stamped and kubectl spawned
    shifted,    \* by how much the wall clock was stepped before the first line
    asked,      \* when kubectl logged its first line and sent the request
    replied,    \* when the server's response arrived
    over,       \* when the process ended
    text,       \* the error text kubectl exits with, None for exit code 0
    probe       \* the record _measure_probe returned

vars == <<clock, phase, readable, spawned, began, shifted, asked, replied, over,
          text, probe>>

Phases == {"stamped", "starting", "asking", "exiting", "measured"}

Init ==
    /\ clock = 0
    /\ phase = "stamped"
    /\ readable \in BOOLEAN
    /\ spawned \in SpawnTimes
    /\ began = None
    /\ shifted = 0
    /\ asked = None
    /\ replied = None
    /\ over = None
    /\ text = None
    /\ probe = None

-----------------------------------------------------------------------------
(* What the log says.                                                      *)

LoggedRoundTrip ==
    IF readable /\ replied # None THEN replied - asked ELSE None

LoggedStartup ==
    IF asked = None THEN None
    ELSE StartupDelay((spawned + asked + shifted) % Day, spawned, Day)

-----------------------------------------------------------------------------
(* The process, and the thread that waits for it.                          *)

\* The monotonic stamp, and the spawn right after it.
Begin ==
    /\ phase = "stamped"
    /\ phase' = "starting"
    /\ began' = clock
    /\ UNCHANGED <<clock, readable, spawned, shifted, asked, replied, over, text,
                   probe>>

\* The process is over; the thread gets to read the clock `pause` later.
Record(pause, answered, started, error, failure) ==
    /\ phase' = "measured"
    /\ over' = clock
    /\ clock' = clock + pause
    /\ probe' = [answered |-> answered, started |-> started,
                 seconds |-> clock + pause - began,
                 roundTrip |-> LoggedRoundTrip, startup |-> LoggedStartup,
                 error |-> error, spawnFailure |-> failure]
    /\ UNCHANGED <<readable, spawned, began, shifted, asked, replied, text>>

\* The operating system refuses the process: nothing runs.
SpawnRefused(errno, pause) ==
    /\ phase = "starting"
    /\ clock = began
    /\ Record(pause, FALSE, FALSE, None, SpawnFailure(errno))

\* The Go runtime gets no thread and dies, before or after kubectl's first line.
Crash ==
    /\ phase \in {"starting", "asking"}
    /\ phase' = "exiting"
    /\ text' = {"exhaustion"}
    /\ UNCHANGED <<clock, readable, spawned, began, shifted, asked, replied, over,
                   probe>>

Ask(step) ==
    /\ phase = "starting"
    /\ phase' = "asking"
    /\ asked' = clock
    /\ shifted' = step
    /\ UNCHANGED <<clock, readable, spawned, began, replied, over, text, probe>>

\* The server answers: `ok`, or an error that kubectl prints and exits with.
Reply(reply) ==
    /\ phase = "asking"
    /\ phase' = "exiting"
    /\ replied' = clock
    /\ text' = reply
    /\ UNCHANGED <<clock, readable, spawned, began, shifted, asked, over, probe>>

\* No server: the connection is refused or cannot be made.
NoConnection ==
    /\ phase = "asking"
    /\ phase' = "exiting"
    /\ text' = {"unreachable"}
    /\ UNCHANGED <<clock, readable, spawned, began, shifted, asked, replied, over,
                   probe>>

Exit(pause) ==
    /\ phase = "exiting"
    /\ Record(pause, text = None, TRUE, text, NoFailure)

\* TimeoutExpired: the partial log is all there is to go by.
Kill(pause) ==
    /\ phase \in {"starting", "asking", "exiting"}
    /\ clock = began + Timeout
    /\ Record(pause, FALSE, asked # None \/ text # None, None, NoFailure)

Tick ==
    /\ \/ phase = "stamped" /\ clock < MaxPause
       \/ phase \in {"starting", "asking", "exiting"} /\ clock < began + Timeout
    /\ clock' = clock + 1
    /\ UNCHANGED <<phase, readable, spawned, began, shifted, asked, replied, over,
                   text, probe>>

Replies == {None, {}, {"busy"}}

Next ==
    \/ Begin
    \/ \E errno \in SpawnErrors, pause \in 0..MaxPause : SpawnRefused(errno, pause)
    \/ Crash
    \/ \E step \in Steps : Ask(step)
    \/ \E reply \in Replies : Reply(reply)
    \/ NoConnection
    \/ \E pause \in 0..MaxPause : Exit(pause)
    \/ \E pause \in 0..MaxPause : Kill(pause)
    \/ Tick

Spec == Init /\ [][Next]_vars

-----------------------------------------------------------------------------
(* What happened, as opposed to what was logged.                           *)

\* How long the server had the request, answered or not.
ServerHeldIt == (IF replied = None THEN over ELSE replied) - asked

Measured == phase = "measured"

\* The longest duration a record can hold.
Longest == MaxPause + Timeout + MaxStep

\* Every record the code builds is a Probe, and is there exactly when the
\* process is over.
TypeOK ==
    /\ clock \in 0..(2 * MaxPause + Timeout)
    /\ phase \in Phases
    /\ readable \in BOOLEAN
    /\ spawned \in SpawnTimes
    /\ began \in 0..MaxPause \cup {None}
    /\ shifted \in Steps \cup {0}
    /\ asked \in 0..(MaxPause + Timeout) \cup {None}
    /\ replied \in 0..(MaxPause + Timeout) \cup {None}
    /\ over \in 0..(MaxPause + Timeout) \cup {None}
    /\ text \in Texts \cup {None}
    /\ IF Measured THEN probe \in Probe(Longest) ELSE probe = None

\* When local_delay tells a caller how quickly the server answered and how long
\* this host took (deploy.py:578), both are so: the server did answer, in less
\* than SLOW_PROBE, and at least SLOW_PROBE went by outside it, whatever the
\* clocks did.
HostBlameIsDeserved ==
    Measured /\ HostWasSlow(probe) /\ probe.roundTrip # None =>
        /\ replied # None
        /\ ServerHeldIt < SlowProbe
        /\ clock - ServerHeldIt >= SlowProbe

\* The assertion in local_delay (deploy.py:576): whoever reaches the message
\* that quotes the round trip has one, even when kubectl's log has changed and
\* `slow` falls back to wall time (readable is FALSE).
LocalDelayHasRoundTrip ==
    Measured /\ HostWasSlow(probe) => probe.roundTrip # None

\* What it takes for that assertion to fail: kubectl's response line cannot be
\* read, and the wall clock ran ahead of the monotonic one, because the thread
\* lost time between their stamps (deploy.py:419-420) or the clock was stepped.
\* Otherwise a start-up of SLOW_PROBE is a part of `seconds`, and `slow` says so.
AssertionNeedsAGap ==
    Measured /\ HostWasSlow(probe) /\ probe.roundTrip = None =>
        /\ ~readable
        /\ began + shifted > 0

\* With midnight between the stamp and the first line, the start-up share is the
\* time that passed by the wall clock, as with no midnight there, so the host's
\* series survives a server that never answers.  A clock set back further than
\* kubectl took to start leaves nothing of it, and not a day less a little.
StartupSurvivesMidnight ==
    Measured /\ asked # None =>
        probe.startup = IF asked + shifted > 0 THEN asked + shifted ELSE 0

\* "Whether the cluster, rather than this host, was slow" (Probe.slow): a probe
\* that came to no error and that this host got going with SLOW_PROBE of its
\* bound to spare is called slow only if the server had the request that long.
\* Without the spare time, or without a round trip to read, the host's own delay
\* reads as the server's: that degradation is the docstring's choice.  A crashed
\* kubectl is slow as well as exhausted; what becomes of it is Scrape's question.
SlowMeansTheServerWasSlow ==
    /\ Measured
    /\ readable
    /\ Slow(probe)
    /\ probe.error = None
    /\ asked # None
    /\ asked + SlowProbe <= began + Timeout
    => ServerHeldIt >= SlowProbe
=============================================================================
