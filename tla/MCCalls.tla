------------------------------- MODULE MCCalls -------------------------------
(* Small values for Calls.  A unit of time is about a second: probes are    *)
(* bound to one, escalated probes and reads to two, the cached answer lives *)
(* one and a success counts for two; a suspension lasts up to two, so that  *)
(* a cached answer can be older than the window.                            *)
EXTENDS Calls

View(answered, started, hostWasSlow, timed, error, failure) ==
    [answered |-> answered, started |-> started, hostWasSlow |-> hostWasSlow,
     timed |-> timed, error |-> error, spawnFailure |-> failure]

Answer       == View(TRUE,  TRUE,  FALSE, TRUE,  None, NoFailure)
SlowHost     == View(TRUE,  TRUE,  TRUE,  TRUE,  None, NoFailure)
SlowUntimed  == View(TRUE,  TRUE,  TRUE,  FALSE, None, NoFailure)
Silence      == View(FALSE, TRUE,  FALSE, FALSE, None, NoFailure)
NeverBegan   == View(FALSE, FALSE, FALSE, FALSE, None, NoFailure)
NoProcess    == View(FALSE, FALSE, FALSE, FALSE, None, "HostExhausted")
NoTool       == View(FALSE, FALSE, FALSE, FALSE, None, "HostMisconfigured")
Refused      == View(FALSE, TRUE,  FALSE, FALSE, {"unreachable"}, NoFailure)
Crashed      == View(FALSE, TRUE,  FALSE, FALSE, {"exhaustion"}, NoFailure)
NotReady     == View(FALSE, TRUE,  FALSE, TRUE,  {}, NoFailure)
Throttled    == View(FALSE, TRUE,  FALSE, TRUE,  {"busy"}, NoFailure)

AllProbes == {Answer, SlowHost, SlowUntimed, Silence, NeverBegan, NoProcess, NoTool,
              Refused, Crashed, NotReady, Throttled}
FewProbes == {Answer, Silence, NeverBegan}

\* Every text there is, from every tool that may have written it.
AllExits == {exit \in [text : Texts, said : BOOLEAN] : Worded(exit)}
FewExits == {[text |-> {"unreachable"}, said |-> FALSE]}
CrashExits == {[text |-> {"exhaustion"}, said |-> FALSE]}

Reads == [t \in Callers |-> 2]
=============================================================================
