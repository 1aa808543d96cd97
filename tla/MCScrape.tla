------------------------------ MODULE MCScrape ------------------------------
(* Small values for Scrape: a unit is somewhat over a second, so that a     *)
(* budget of three is two calls at their bound and a half.                  *)
EXTENDS Scrape

View(slow, exhausted, noTool) == [slow |-> slow, exhausted |-> exhausted, noTool |-> noTool]

\* A slow answer, no process, no kubectl, and a kubectl that crashed on its way.
Late    == View(TRUE, FALSE, FALSE)
Refused == View(FALSE, TRUE, FALSE)
Missing == View(FALSE, FALSE, TRUE)
Crashed == View(TRUE, TRUE, FALSE)

Views      == {Late, Refused, Missing, Crashed}
CrashViews == {Crashed}
=============================================================================
