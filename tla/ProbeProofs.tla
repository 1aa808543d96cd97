----------------------------- MODULE ProbeProofs -----------------------------
(***************************************************************************)
(* What the Probe record says of host and server is so, for every bound,   *)
(* every SLOW_PROBE, every length of day and every time of it, and however *)
(* long the thread is suspended or far the wall clock is stepped.          *)
(***************************************************************************)
EXTENDS ProbeProcess, TLAPS

-----------------------------------------------------------------------------
(* The arithmetic of stamps without a date.                                *)

\* The constants as numbers.
LEMMA Numbers ==
    /\ SlowProbe \in Nat \ {0} /\ Timeout \in Nat \ {0} /\ MaxPause \in Nat
    /\ MaxStep \in Nat /\ Day \in Nat /\ Day > 2 * Longest
    /\ Longest = MaxPause + Timeout + MaxStep /\ Longest \in Nat
    /\ None \notin Nat /\ None \notin Texts
BY SlowProbeAssumption, TimeoutAssumption, MaxPauseAssumption, MaxStepAssumption,
   DayAssumption, NoneAssumption, NoTextAssumption DEF Longest

\* A time of the day before, of the day, or of the day after, as a time of the day.
LEMMA Wraps ==
    \A day \in Nat \ {0}, a \in Int :
        -day <= a /\ a < 2 * day =>
            a % day = IF a < 0 THEN a + day ELSE IF a < day THEN a ELSE a - day
OBVIOUS

\* A delay of less than half a day is found again in two seconds of the day, and
\* a negative one is none.
LEMMA DelayIsRecovered ==
    ASSUME NEW s \in 0..(Day - 1), NEW d \in -Longest..Longest
    PROVE  StartupDelay((s + d) % Day, s, Day) = IF d > 0 THEN d ELSE 0
<1>1. /\ Day \in Nat \ {0} /\ Longest \in Nat /\ Day > 2 * Longest
      /\ s \in Nat /\ s < Day /\ d \in Int /\ d <= Longest /\ -Longest <= d
  BY Numbers
<1>2. (s + d) % Day = IF s + d < 0 THEN s + d + Day
                      ELSE IF s + d < Day THEN s + d ELSE s + d - Day
  <2>1. s + d \in Int /\ -Day <= s + d /\ s + d < 2 * Day
    BY <1>1
  <2>2. PICK a \in Int : a = s + d
    BY <2>1
  <2>3. a % Day = IF a < 0 THEN a + Day ELSE IF a < Day THEN a ELSE a - Day
    BY <1>1, <2>1, <2>2, Wraps
  <2>4. QED
    BY <1>1, <2>2, <2>3
<1>3. CASE s + d < 0
  <2>1. ((s + d) % Day) - s = d + Day
    BY <1>1, <1>2, <1>3
  <2>2. QED
    BY <1>1, <2>1 DEF StartupDelay, Folded
<1>4. CASE s + d >= 0 /\ s + d < Day
  <2>1. ((s + d) % Day) - s = d
    BY <1>1, <1>2, <1>4
  <2>2. QED
    BY <1>1, <2>1 DEF StartupDelay, Folded
<1>5. CASE s + d >= Day
  <2>1. ((s + d) % Day) - s = d - Day
    BY <1>1, <1>2, <1>5
  <2>2. QED
    BY <1>1, <2>1 DEF StartupDelay, Folded
<1>6. QED
  BY <1>1, <1>3, <1>4, <1>5

-----------------------------------------------------------------------------
(* The process: what it has done by each phase, and what the record kept.  *)

\* The clocks are stamped before the process lives, a reply follows a question,
\* both lie in the process's life, and a process that ends without an error text
\* had a reply.
Happened ==
    /\ phase = "stamped" <=> began = None
    /\ phase = "stamped" => clock <= MaxPause
    /\ ~Measured /\ began # None => began <= clock /\ clock <= began + Timeout
    /\ asked # None => began # None /\ began <= asked
    /\ asked # None => asked <= (IF Measured THEN over ELSE clock)
    /\ replied # None => asked # None /\ asked <= replied
    /\ replied # None => replied <= (IF Measured THEN over ELSE clock)
    /\ phase \in {"stamped", "starting"} => asked = None /\ replied = None /\ text = None
    /\ phase = "asking" => asked # None /\ replied = None /\ text = None
    /\ phase = "exiting" /\ text = None => replied # None
    /\ Measured => over # None /\ began <= over /\ over <= clock

\* The record is the log's; who answered had a reply, whoever has a round trip
\* got going, and without an answer or a text the bound was used up.
Kept ==
    Measured =>
        /\ probe.seconds = clock - began
        /\ probe.roundTrip = LoggedRoundTrip
        /\ probe.startup = LoggedStartup
        /\ probe.answered => replied # None /\ probe.started
        /\ asked # None => probe.started
        /\ ~probe.answered /\ probe.error = None /\ asked # None =>
               over = began + Timeout

WellMade == TypeOK /\ Happened /\ Kept

\* The start-up share is the wall clock's time from its stamp to the first line.
LEMMA StartupIsWallTime ==
    ASSUME TypeOK, asked # None
    PROVE  LoggedStartup = IF asked + shifted > 0 THEN asked + shifted ELSE 0
<1>1. /\ spawned \in 0..(Day - 1) /\ asked \in 0..(MaxPause + Timeout)
      /\ shifted \in -MaxStep..MaxStep
  BY SpawnTimesAssumption, StepsAssumption, Numbers DEF TypeOK
<1>2. asked + shifted \in -Longest..Longest
  BY <1>1, Numbers
<1>3. PICK d \in -Longest..Longest : d = asked + shifted
  BY <1>2
<1>4. StartupDelay((spawned + d) % Day, spawned, Day) = IF d > 0 THEN d ELSE 0
  BY <1>1, DelayIsRecovered
<1>5. spawned + d = spawned + asked + shifted
  BY <1>1, <1>3, Numbers
<1>6. QED
  BY <1>3, <1>4, <1>5 DEF LoggedStartup

\* What the log says is of the length a record may hold.
LEMMA LogType ==
    ASSUME TypeOK, Happened
    PROVE  /\ LoggedRoundTrip \in 0..Longest \cup {None}
           /\ LoggedStartup \in 0..Longest \cup {None}
<1>1. /\ asked \in 0..(MaxPause + Timeout) \cup {None}
      /\ replied \in 0..(MaxPause + Timeout) \cup {None}
      /\ shifted \in -MaxStep..MaxStep
  BY StepsAssumption, Numbers DEF TypeOK
<1>2. LoggedRoundTrip \in 0..Longest \cup {None}
  BY <1>1, Numbers DEF LoggedRoundTrip, Happened
<1>3. CASE asked = None
  BY <1>2, <1>3 DEF LoggedStartup
<1>4. CASE asked # None
  BY <1>1, <1>2, <1>4, StartupIsWallTime, Numbers
<1>5. QED
  BY <1>3, <1>4

LEMMA WellMadeInit == Init => WellMade
BY Numbers DEF Init, WellMade, TypeOK, Happened, Kept, Measured, Phases

\* What every way to end has in common.
Ended(pause) ==
    /\ phase' = "measured"
    /\ over' = clock
    /\ clock' = clock + pause
    /\ probe' \in [answered : BOOLEAN, started : BOOLEAN,
                   seconds : {clock + pause - began},
                   roundTrip : {LoggedRoundTrip}, startup : {LoggedStartup},
                   error : Texts \cup {None}, spawnFailure : SpawnFailures]
    /\ UNCHANGED <<readable, spawned, began, shifted, asked, replied, text>>

\* Whatever ends the process, the record made of it fits what happened.
LEMMA RecordIsWellMade ==
    ASSUME WellMade, phase \in {"starting", "asking", "exiting"},
           NEW pause \in 0..MaxPause, Ended(pause),
           probe'.answered => replied # None /\ probe'.started,
           asked # None => probe'.started,
           ~probe'.answered /\ probe'.error = None /\ asked # None =>
               clock = began + Timeout
    PROVE  WellMade'
<1>1. /\ clock \in Nat /\ began \in 0..MaxPause /\ began <= clock
      /\ clock <= began + Timeout /\ pause \in Nat /\ pause <= MaxPause
  BY Numbers DEF WellMade, TypeOK, Happened, Measured
<1>2. /\ clock \in 0..(MaxPause + Timeout)
      /\ clock + pause \in 0..(2 * MaxPause + Timeout)
      /\ clock + pause - began \in 0..Longest
  BY <1>1, Numbers
<1>3. /\ LoggedRoundTrip \in 0..Longest \cup {None}
      /\ LoggedStartup \in 0..Longest \cup {None}
  BY LogType DEF WellMade
<1>4. LoggedRoundTrip' = LoggedRoundTrip /\ LoggedStartup' = LoggedStartup
  BY DEF Ended, LoggedRoundTrip, LoggedStartup
<1>5. probe' \in Probe(Longest)
  BY <1>2, <1>3 DEF Ended, Probe
<1>6. TypeOK'
  BY <1>2, <1>5 DEF Ended, WellMade, TypeOK, Measured, Phases
<1>7. Happened'
  BY <1>1, Numbers DEF Ended, WellMade, TypeOK, Happened, Measured
<1>8. Kept'
  <2>1. /\ probe'.seconds = clock' - began'
        /\ probe'.roundTrip = LoggedRoundTrip' /\ probe'.startup = LoggedStartup'
    <3>1. /\ probe'.seconds \in {clock + pause - began}
          /\ probe'.roundTrip \in {LoggedRoundTrip}
          /\ probe'.startup \in {LoggedStartup}
      BY DEF Ended
    <3>2. clock' = clock + pause /\ began' = began
      BY DEF Ended
    <3>3. QED
      BY <1>1, <1>4, <3>1, <3>2
  <2>2. replied' = replied /\ asked' = asked /\ began' = began /\ over' = clock
    BY DEF Ended
  <2>3. /\ probe'.answered => replied' # None /\ probe'.started
        /\ asked' # None => probe'.started
    BY <2>2
  <2>4. ~probe'.answered /\ probe'.error = None /\ asked' # None =>
            over' = began' + Timeout
    BY <2>2
  <2>5. QED
    BY <2>1, <2>3, <2>4, Zenon DEF Kept
<1>9. QED
  BY <1>6, <1>7, <1>8 DEF WellMade

\* A process that is over stays as it was recorded; before that, each of its
\* steps keeps the order of things and each way to end makes a fitting record.
LEMMA WellMadeStep == WellMade /\ [Next]_vars => WellMade'
<1> SUFFICES ASSUME WellMade, [Next]_vars PROVE WellMade'
  OBVIOUS
<1>0. /\ Timeout \in Nat /\ MaxPause \in Nat /\ None \notin Nat /\ None \notin Texts
      /\ clock \in Nat /\ began \in 0..MaxPause \cup {None}
  BY Numbers DEF WellMade, TypeOK
<1>1. CASE Begin
  BY <1>0, <1>1 DEF Begin, WellMade, TypeOK, Happened, Kept, Measured, Phases
<1>2. ASSUME NEW errno \in SpawnErrors, NEW pause \in 0..MaxPause,
             SpawnRefused(errno, pause)
      PROVE  WellMade'
  <2>1. SpawnFailure(errno) \in SpawnFailures
    BY DEF SpawnErrors, SpawnFailure, SpawnFailures, NoFailure
  <2>2. phase = "starting" /\ asked = None
    BY <1>2 DEF SpawnRefused, WellMade, Happened
  <2>3. Ended(pause) /\ ~probe'.answered
    BY <1>2, <2>1 DEF SpawnRefused, Record, Ended
  <2>4. QED
    BY <2>2, <2>3, RecordIsWellMade
<1>3. CASE Crash
  <2>1. {"exhaustion"} \in Texts
    BY DEF Texts, Markers
  <2>2. QED
    BY <1>0, <1>3, <2>1
       DEF Crash, WellMade, TypeOK, Happened, Kept, Measured, Phases
<1>4. ASSUME NEW step \in Steps, Ask(step) PROVE WellMade'
  <2>1. /\ began \in 0..MaxPause /\ began <= clock /\ clock <= began + Timeout
    BY <1>0, <1>4 DEF Ask, WellMade, Happened, Measured
  <2>2. clock \in 0..(MaxPause + Timeout)
    BY <1>0, <2>1
  <2>3. QED
    BY <1>0, <1>4, <2>1, <2>2
       DEF Ask, WellMade, TypeOK, Happened, Kept, Measured, Phases
<1>5. ASSUME NEW reply \in Replies, Reply(reply) PROVE WellMade'
  <2>1. reply \in Texts \cup {None}
    BY DEF Replies, Texts, Markers
  <2>2. /\ began \in 0..MaxPause /\ began <= clock /\ clock <= began + Timeout
    BY <1>0, <1>5 DEF Reply, WellMade, Happened, Measured
  <2>3. clock \in 0..(MaxPause + Timeout)
    BY <1>0, <2>2
  <2>4. QED
    BY <1>0, <1>5, <2>1, <2>2, <2>3
       DEF Reply, WellMade, TypeOK, Happened, Kept, Measured, Phases
<1>6. CASE NoConnection
  <2>1. {"unreachable"} \in Texts
    BY DEF Texts, Markers
  <2>2. QED
    BY <1>0, <1>6, <2>1
       DEF NoConnection, WellMade, TypeOK, Happened, Kept, Measured, Phases
<1>7. ASSUME NEW pause \in 0..MaxPause, Exit(pause) PROVE WellMade'
  <2>1. text \in Texts \cup {None} /\ NoFailure \in SpawnFailures
        /\ phase = "exiting" /\ (text = None => replied # None)
    BY <1>7 DEF Exit, WellMade, TypeOK, Happened, SpawnFailures
  <2>2. Ended(pause) /\ probe'.started /\ probe'.error = text
    BY <1>7, <2>1 DEF Exit, Record, Ended
  <2>3. probe'.answered <=> text = None
    BY <1>7 DEF Exit, Record
  <2>4. QED
    BY <2>1, <2>2, <2>3, RecordIsWellMade
<1>8. ASSUME NEW pause \in 0..MaxPause, Kill(pause) PROVE WellMade'
  <2>1. NoFailure \in SpawnFailures
    BY DEF SpawnFailures
  <2>2. Ended(pause) /\ ~probe'.answered
    BY <1>8, <2>1 DEF Kill, Record, Ended
  <2>3. asked # None => probe'.started
    BY <1>8 DEF Kill, Record
  <2>4. phase \in {"starting", "asking", "exiting"} /\ clock = began + Timeout
    BY <1>8 DEF Kill
  <2>5. QED
    BY <2>2, <2>3, <2>4, RecordIsWellMade
<1>9. CASE Tick
  <2>1. CASE phase = "stamped" /\ clock < MaxPause
    BY <1>0, <1>9, <2>1 DEF Tick, WellMade, TypeOK, Happened, Kept, Measured
  <2>2. CASE phase \in {"starting", "asking", "exiting"} /\ clock < began + Timeout
    BY <1>0, <1>9, <2>2 DEF Tick, WellMade, TypeOK, Happened, Kept, Measured
  <2>3. QED
    BY <1>9, <2>1, <2>2 DEF Tick
<1>10. CASE UNCHANGED vars
  BY <1>10 DEF vars, WellMade, TypeOK, Happened, Kept, Measured, LoggedRoundTrip,
               LoggedStartup
<1>11. QED
  BY <1>1, <1>2, <1>3, <1>4, <1>5, <1>6, <1>7, <1>8, <1>9, <1>10 DEF Next

\* Every record _measure_probe builds is a Probe, for every bound and day.
THEOREM RecordsAreProbes == Spec => []TypeOK
<1>1. WellMade => TypeOK
  BY DEF WellMade
<1>2. QED
  BY <1>1, WellMadeInit, WellMadeStep, PTL DEF Spec

-----------------------------------------------------------------------------
(* What may be read off the record.                                        *)

LEMMA AlwaysWellMade == Spec => []WellMade
BY WellMadeInit, WellMadeStep, PTL DEF Spec

\* The stamps of a process that was answered, as numbers in their order.
LEMMA AnsweredInOrder ==
    ASSUME WellMade, Measured, probe.answered
    PROVE  /\ began \in Nat /\ asked \in Nat /\ replied \in Nat /\ over \in Nat
           /\ clock \in Nat /\ shifted \in Int
           /\ began <= asked /\ asked <= replied /\ replied <= over /\ over <= clock
           /\ probe.started /\ probe.seconds = clock - began
           /\ probe.roundTrip = (IF readable THEN replied - asked ELSE None)
           /\ probe.startup = IF asked + shifted > 0 THEN asked + shifted ELSE 0
<1>1. replied # None /\ asked # None /\ began # None /\ over # None
  BY DEF WellMade, Happened, Kept
<1>2. /\ began \in Nat /\ asked \in Nat /\ replied \in Nat /\ over \in Nat
      /\ clock \in Nat /\ shifted \in Int
  BY <1>1, StepsAssumption, Numbers DEF WellMade, TypeOK
<1>3. probe.startup = IF asked + shifted > 0 THEN asked + shifted ELSE 0
  BY <1>1, StartupIsWallTime DEF WellMade, Kept
<1>4. QED
  BY <1>1, <1>2, <1>3 DEF WellMade, Happened, Kept, LoggedRoundTrip

\* local_delay blames this host in so many words only when the server answered
\* inside SLOW_PROBE and as much went by outside it (deploy.py:575).
THEOREM BlamedHostsDeserveIt == Spec => []HostBlameIsDeserved
<1>1. WellMade => HostBlameIsDeserved
  <2> SUFFICES ASSUME WellMade, Measured, HostWasSlow(probe), probe.roundTrip # None
               PROVE  /\ replied # None
                      /\ ServerHeldIt < SlowProbe
                      /\ clock - ServerHeldIt >= SlowProbe
    BY DEF HostBlameIsDeserved
  <2>1. probe.answered
    BY DEF HostWasSlow
  <2>2. readable /\ probe.roundTrip = replied - asked /\ ServerHeldIt = replied - asked
        /\ replied # None
    BY <2>1, AnsweredInOrder, Numbers DEF ServerHeldIt
  <2>3. replied - asked < SlowProbe
    BY <2>1, <2>2, AnsweredInOrder, Numbers DEF HostWasSlow, Slow
  <2>4. clock - began > replied - asked /\ clock - began - (replied - asked) >= SlowProbe
    BY <2>1, <2>2, AnsweredInOrder, Numbers DEF HostWasSlow, LocalSeconds
  <2>5. QED
    BY <2>1, <2>2, <2>3, <2>4, AnsweredInOrder, Numbers
<1>2. QED
  BY <1>1, AlwaysWellMade, PTL

\* The assertion of deploy.py:576 fails only on a log that cannot be read, and
\* only when the wall clock ran ahead of the monotonic one.
THEOREM AssertionFailsOnlyOnAGap == Spec => []AssertionNeedsAGap
<1>1. WellMade => AssertionNeedsAGap
  <2> SUFFICES ASSUME WellMade, Measured, HostWasSlow(probe), probe.roundTrip = None
               PROVE  ~readable /\ began + shifted > 0
    BY DEF AssertionNeedsAGap
  <2>1. probe.answered
    BY DEF HostWasSlow
  <2>2. ~readable
    BY <2>1, AnsweredInOrder, Numbers
  <2>3. clock - began < SlowProbe
    BY <2>1, AnsweredInOrder, Numbers DEF HostWasSlow, Slow
  <2>4. asked + shifted >= SlowProbe
    BY <2>1, AnsweredInOrder, Numbers DEF HostWasSlow, LocalSeconds
  <2>5. QED
    BY <2>1, <2>2, <2>3, <2>4, AnsweredInOrder, Numbers
<1>2. QED
  BY <1>1, AlwaysWellMade, PTL

\* The start-up share is the wall clock's time from stamp to first line, at any
\* time of any day longer than twice what can pass (deploy.py:483).
THEOREM MidnightChangesNothing == Spec => []StartupSurvivesMidnight
<1>1. WellMade => StartupSurvivesMidnight
  BY StartupIsWallTime DEF WellMade, Kept, StartupSurvivesMidnight
<1>2. QED
  BY <1>1, AlwaysWellMade, PTL

\* A probe that got going in time and met no error is called slow only when the
\* server had the request for SLOW_PROBE, answered or not (deploy.py:343).
THEOREM SlowIsTheServers == Spec => []SlowMeansTheServerWasSlow
<1>1. WellMade => SlowMeansTheServerWasSlow
  <2> SUFFICES ASSUME WellMade, Measured, readable, Slow(probe), probe.error = None,
                      asked # None, asked + SlowProbe <= began + Timeout
               PROVE  ServerHeldIt >= SlowProbe
    BY DEF SlowMeansTheServerWasSlow
  <2>1. /\ asked \in Nat /\ began \in Nat
    BY Numbers DEF WellMade, TypeOK, Happened
  <2>2. CASE replied # None
    <3>1. /\ probe.roundTrip = replied - asked
          /\ replied \in Nat /\ asked <= replied
      BY <2>2, Numbers DEF WellMade, TypeOK, Happened, Kept, LoggedRoundTrip
    <3>2. replied - asked >= SlowProbe
      BY <2>1, <3>1, Numbers DEF Slow
    <3>3. QED
      BY <2>2, <3>2 DEF ServerHeldIt
  <2>3. CASE replied = None
    <3>1. over = began + Timeout
      BY <2>3 DEF WellMade, Kept
    <3>2. QED
      BY <2>1, <2>3, <3>1, Numbers DEF ServerHeldIt
  <2>4. QED
    BY <2>2, <2>3
<1>2. QED
  BY <1>1, AlwaysWellMade, PTL
=============================================================================
