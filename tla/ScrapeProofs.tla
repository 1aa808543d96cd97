---------------------------- MODULE ScrapeProofs ----------------------------
(***************************************************************************)
(* Theorems about Scrape, for every set of releases, page size, budget,    *)
(* number of workers and bound on a call.                                  *)
(***************************************************************************)
EXTENDS Scrape, ListingProofs

-----------------------------------------------------------------------------
(* Type correctness, and what each variable holds outside its phase.       *)

InWaves == pc \in {"deciding", "waiting"}

\* A release is read once: it is queued, or runs, or has come to something.
Shape ==
    /\ pc \in {"idle", "tools"} => names = {}
    /\ pc \in {"idle", "tools", "listing", "pods"} => outcome = Unread
    /\ pc # "joining" => account = Unread
    /\ ~InWaves => queue = {} /\ left = NoReads /\ wave = FirstWave /\ waveStart = 0
    /\ waveStart <= now
    /\ \A n \in Releases :
          /\ outcome[n] # "unread" => n \in names \ queue
          /\ left[n] > 0 => outcome[n] = "unread" /\ n \in names \ queue

WellFormed == TypeOK /\ Shape

Words == Reasons \cup {"reported", "unread"}

\* Every outcome is reported or counted under a reason.
LEMMA ReasonType ==
    ASSUME NEW o \in Outcomes \cup {"unread"} PROVE Reason(o) \in Words \ {"unread"}
BY DEF Reason, Outcomes, Errors, HostClasses, Words, Reasons

\* Each gauge is absent, or set or not.
LEMMA GaugesType ==
    \A s \in DOMAIN Silent : Silent[s] = "absent" /\ GaugesSaid[s] \in {"absent", "0", "1"}
<1>1. \A b : Gauge(b) \in {"0", "1"}
  BY DEF Gauge
<1>2. /\ DOMAIN Silent = {"reachable", "busy", "exhausted", "misconfigured"}
      /\ \A s \in DOMAIN Silent : Silent[s] = "absent"
      /\ \A v : \A s \in DOMAIN Silent : [Silent EXCEPT ![s] = v] \in [DOMAIN Silent -> {"absent", v}]
  BY DEF Silent
<1>3. CASE raised = "HostMisconfigured"
  BY <1>2, <1>3 DEF GaugesSaid
<1>4. CASE raised \in HostClasses \ {"HostMisconfigured"}
  BY <1>1, <1>2, <1>4 DEF GaugesSaid
<1>5. CASE raised = "ClusterBusy"
  <2>1. GaugesSaid = [Silent EXCEPT !.reachable = "1", !.busy = "1"]
    BY <1>5 DEF GaugesSaid, HostClasses
  <2>2. QED
    BY <1>2, <2>1 DEF Silent
<1>6. CASE raised = "Unavailable"
  <2>1. GaugesSaid = [Silent EXCEPT !.reachable = "0"]
    BY <1>6 DEF GaugesSaid, HostClasses
  <2>2. QED
    BY <1>2, <2>1 DEF Silent
<1>7. CASE raised \notin HostClasses \cup {"ClusterBusy", "Unavailable"}
  <2>1. GaugesSaid = [reachable |-> "1", busy |-> Gauge(Busy), exhausted |-> Gauge(Exhausted),
                      misconfigured |-> Gauge(Misconfigured)]
    BY <1>7 DEF GaugesSaid, HostClasses
  <2>2. QED
    BY <1>1, <1>2, <2>1
<1>8. QED
  BY <1>3, <1>4, <1>5, <1>6, <1>7 DEF HostClasses

\* The numbers the collector computes are numbers.
LEMMA CountsType ==
    ASSUME TypeOK
    PROVE  /\ FirstWave \in Nat \ {0} /\ FirstWave <= Workers /\ FirstWave <= 2
           /\ ReadsEach \in 1..(Reads + 1)
           /\ IsFiniteSet(names) /\ Cardinality(names) \in Nat
           /\ ReadsLeft \in Nat
           /\ Ordered(queue) /\ Batch \in SUBSET queue
<1>1. Reads \in Nat \ {0} /\ Workers \in Nat \ {0} /\ FirstWave \in Nat \ {0}
      /\ FirstWave <= Workers /\ FirstWave <= 2
  BY WorkAssumption DEF FirstWave, Least
<1>2. ReadsEach \in 1..(Reads + 1)
  BY <1>1 DEF ReadsEach
<1>3. names \in SUBSET Releases /\ queue \in SUBSET names /\ wave \in Nat
  BY DEF TypeOK, ListingOK
<1>4. IsFiniteSet(names) /\ Cardinality(names) \in Nat
  BY <1>3, ReleasesAssumption, FS_Subset, FS_CardinalityType
<1>5. Ordered(queue)
  BY <1>3, <1>4, ReleasesAssumption, FS_Subset DEF Ordered
<1>6. Batch \in SUBSET queue
  BY DEF Batch, Slice
<1>7. ReadsLeft \in Nat
  <2>1. IsFiniteSet(Releases) /\ IsFiniteSet(1..(Reads + 1))
    BY <1>1, ReleasesAssumption, FS_Interval
  <2>2. IsFiniteSet(Releases \X (1..(Reads + 1)))
    BY <2>1, FS_Product
  <2>3. {r \in Releases \X (1..(Reads + 1)) : r[2] <= left[r[1]]}
        \in SUBSET (Releases \X (1..(Reads + 1)))
    OBVIOUS
  <2>4. QED
    BY <2>2, <2>3, FS_Subset, FS_CardinalityType DEF ReadsLeft
<1>8. QED
  BY <1>1, <1>2, <1>4, <1>5, <1>6, <1>7

\* The initial states are well formed.
LEMMA WellFormedInit == Init => WellFormed
<1> SUFFICES ASSUME Init PROVE WellFormed
  OBVIOUS
<1>1. FirstWave \in Nat /\ Reads \in Nat
  BY WorkAssumption DEF FirstWave, Least
<1>2. Unread \in Kinds /\ Unread \in [Releases -> Words]
  BY DEF Unread, Kinds, Words
<1>3. NoReads \in [Releases -> 0..(Reads + 1)]
  BY <1>1 DEF NoReads
<1>4. TypeOK
  <2>1. \A s \in DOMAIN Silent : answer[s] \in {"absent", "0", "1"}
    BY GaugesType DEF Init
  <2>2. ListingOK
    BY DEF Init, ListingInit, ListingOK
  <2>3. outcome \in Kinds /\ account \in [Releases -> Words] /\ left \in [Releases -> 0..(Reads + 1)]
    BY <1>2, <1>3 DEF Init
  <2>4. {now, spent, wave, cost, waveStart, joinEnd, abandoned, debt, readyAt} \subseteq Nat
    BY <1>1 DEF Init
  <2>5. /\ pc \in {"idle", "tools", "listing", "pods", "deciding", "waiting", "joining"}
        /\ {raised, podsRaised} \subseteq Errors \cup {"nothing"}
        /\ badTools \in BOOLEAN
        /\ prober \in {"none", "measuring", "done"}
        /\ measured \subseteq ProbeViews
        /\ queue \subseteq names
    BY DEF Init, ListingInit
  <2>6. QED
    BY <2>1, <2>2, <2>3, <2>4, <2>5 DEF TypeOK, Words
<1>5. Shape
  BY DEF Init, ListingInit, Shape, Unread, NoReads, InWaves
<1>6. QED
  BY <1>4, <1>5 DEF WellFormed

CountsOK == {now, spent, wave, cost, waveStart, joinEnd, abandoned, debt, readyAt} \subseteq Nat
WordsOK ==
    /\ pc \in {"idle", "tools", "listing", "pods", "deciding", "waiting", "joining"}
    /\ {raised, podsRaised} \subseteq Errors \cup {"nothing"}
    /\ badTools \in BOOLEAN
    /\ prober \in {"none", "measuring", "done"}
    /\ measured \subseteq ProbeViews
WorkOK ==
    /\ queue \subseteq names
    /\ left \in [Releases -> 0..(Reads + 1)]
    /\ outcome \in Kinds
    /\ account \in [Releases -> Words]
SaidOK == \A s \in DOMAIN Silent : answer[s] \in {"absent", "0", "1"}

\* Type correctness is proved a few variables at a time.
LEMMA Parts == TypeOK <=> ListingOK /\ CountsOK /\ WordsOK /\ WorkOK /\ SaidOK
BY DEF TypeOK, CountsOK, WordsOK, WorkOK, SaidOK, Words

\* So it is after a step.
LEMMA PartsPrimed ==
    ListingOK' /\ CountsOK' /\ WordsOK' /\ WorkOK' /\ SaidOK' => TypeOK'
BY DEF TypeOK, CountsOK, WordsOK, WorkOK, SaidOK, Words

\* Every step keeps the state well formed.
LEMMA WellFormedStep == WellFormed /\ [Next]_vars => WellFormed'
<1> SUFFICES ASSUME WellFormed, [Next]_vars PROVE WellFormed'
  OBVIOUS
<1>0. ListingOK /\ CountsOK /\ WordsOK /\ WorkOK /\ SaidOK /\ Shape
  BY Parts DEF WellFormed
<1>a. /\ FirstWave \in Nat \ {0} /\ ReadsEach \in 1..(Reads + 1)
      /\ Cardinality(names) \in Nat /\ ReadsLeft \in Nat
      /\ Batch \in SUBSET queue
  BY CountsType DEF WellFormed
<1>b. Unread \in Kinds /\ Unread \in [Releases -> Words] /\ NoReads \in [Releases -> 0..(Reads + 1)]
  BY WorkAssumption DEF Unread, NoReads, Kinds, Words
<1>1. ASSUME Begin PROVE WellFormed'
  <2>1. ListingOK'
    BY <1>0, <1>1
       DEF Begin, listingVars, callVars, probeVars, waveVars, workVars, endVars,
           ListingOK
  <2>2. CountsOK'
    BY <1>0, <1>1
       DEF Begin, listingVars, callVars, probeVars, waveVars, workVars, endVars,
           CountsOK
  <2>3. WordsOK'
    BY <1>0, <1>1
       DEF Begin, listingVars, callVars, probeVars, waveVars, workVars, endVars,
           WordsOK
  <2>4. WorkOK'
    BY <1>0, <1>1
       DEF Begin, listingVars, callVars, probeVars, waveVars, workVars, endVars,
           WorkOK
  <2>5. SaidOK'
    BY <1>0, <1>1, GaugesType
       DEF Begin, listingVars, callVars, probeVars, waveVars, workVars, endVars,
           SaidOK
  <2>6. Shape'
    BY <1>0, <1>1
       DEF Begin, listingVars, callVars, probeVars, waveVars, workVars, endVars,
           Shape, InWaves
  <2>7. QED
    BY <2>1, <2>2, <2>3, <2>4, <2>5, <2>6, PartsPrimed DEF WellFormed
<1>2. ASSUME AskTools PROVE WellFormed'
  <2>1. ListingOK'
    BY <1>0, <1>2
       DEF AskTools, StartListing, NextCall, listingVars, callVars, probeVars,
           waveVars, workVars, endVars, ListingOK
  <2>2. CountsOK'
    BY <1>0, <1>2
       DEF AskTools, StartListing, NextCall, listingVars, callVars, probeVars,
           waveVars, workVars, endVars, CountsOK
  <2>3. WordsOK'
    BY <1>0, <1>2
       DEF AskTools, StartListing, NextCall, listingVars, callVars, probeVars,
           waveVars, workVars, endVars, WordsOK
  <2>4. WorkOK'
    BY <1>0, <1>2
       DEF AskTools, StartListing, NextCall, listingVars, callVars, probeVars,
           waveVars, workVars, endVars, WorkOK, Shape, InWaves
  <2>5. SaidOK'
    BY <1>0, <1>2
       DEF AskTools, StartListing, NextCall, listingVars, callVars, probeVars,
           waveVars, workVars, endVars, SaidOK
  <2>6. Shape'
    BY <1>0, <1>2
       DEF AskTools, StartListing, NextCall, listingVars, callVars, probeVars,
           waveVars, workVars, endVars, Shape, InWaves
  <2>7. QED
    BY <2>1, <2>2, <2>3, <2>4, <2>5, <2>6, PartsPrimed DEF WellFormed
<1>3. ASSUME ReadPage PROVE WellFormed'
  <2>1. ListingOK'
    BY <1>0, <1>3, PageAssumption
       DEF ReadPage, FullPage, NextPage, NextCall, Page, Slice, listingVars,
           callVars, probeVars, waveVars, workVars, endVars, ListingOK
  <2>2. CountsOK'
    BY <1>0, <1>3
       DEF ReadPage, FullPage, NextPage, NextCall, Page, Slice, listingVars,
           callVars, probeVars, waveVars, workVars, endVars, CountsOK
  <2>3. WordsOK'
    BY <1>0, <1>3
       DEF ReadPage, FullPage, NextPage, NextCall, Page, Slice, listingVars,
           callVars, probeVars, waveVars, workVars, endVars, WordsOK
  <2>4. WorkOK'
    BY <1>0, <1>3
       DEF ReadPage, FullPage, NextPage, NextCall, Page, Slice, listingVars,
           callVars, probeVars, waveVars, workVars, endVars, WorkOK
  <2>5. SaidOK'
    BY <1>0, <1>3
       DEF ReadPage, FullPage, NextPage, NextCall, Page, Slice, listingVars,
           callVars, probeVars, waveVars, workVars, endVars, SaidOK
  <2>6. Shape'
    BY <1>0, <1>3
       DEF ReadPage, FullPage, NextPage, NextCall, Page, Slice, listingVars,
           callVars, probeVars, waveVars, workVars, endVars, Shape, InWaves
  <2>7. QED
    BY <2>1, <2>2, <2>3, <2>4, <2>5, <2>6, PartsPrimed DEF WellFormed
<1>4. ASSUME ListReleases PROVE WellFormed'
  <2>1. ListingOK'
    BY <1>0, <1>4
       DEF ListReleases, ShortPage, NextCall, Page, Slice, listingVars, callVars,
           probeVars, waveVars, workVars, endVars, ListingOK
  <2>2. CountsOK'
    BY <1>0, <1>4
       DEF ListReleases, ShortPage, NextCall, Page, Slice, listingVars, callVars,
           probeVars, waveVars, workVars, endVars, CountsOK
  <2>3. WordsOK'
    BY <1>0, <1>4
       DEF ListReleases, ShortPage, NextCall, Page, Slice, listingVars, callVars,
           probeVars, waveVars, workVars, endVars, WordsOK
  <2>4. WorkOK'
    BY <1>0, <1>4
       DEF ListReleases, ShortPage, NextCall, Page, Slice, listingVars, callVars,
           probeVars, waveVars, workVars, endVars, WorkOK
  <2>5. SaidOK'
    BY <1>0, <1>4
       DEF ListReleases, ShortPage, NextCall, Page, Slice, listingVars, callVars,
           probeVars, waveVars, workVars, endVars, SaidOK
  <2>6. Shape'
    BY <1>0, <1>4
       DEF ListReleases, ShortPage, NextCall, Page, Slice, listingVars, callVars,
           probeVars, waveVars, workVars, endVars, Shape, InWaves
  <2>7. QED
    BY <2>1, <2>2, <2>3, <2>4, <2>5, <2>6, PartsPrimed DEF WellFormed
<1>5. ASSUME NEW e \in CallFailures, ListingFails(e) PROVE WellFormed'
  <2>1. ListingOK'
    BY <1>0, <1>5
       DEF ListingFails, GiveUpListing, NextCall, listingVars, callVars, probeVars,
           waveVars, workVars, endVars, ListingOK
  <2>2. CountsOK'
    BY <1>0, <1>5, TimesAssumption
       DEF ListingFails, GiveUpListing, NextCall, listingVars, callVars, probeVars,
           waveVars, workVars, endVars, CountsOK, JoinUntil, Greatest
  <2>3. WordsOK'
    BY <1>0, <1>5, ErrorsAssumption
       DEF ListingFails, GiveUpListing, NextCall, listingVars, callVars, probeVars,
           waveVars, workVars, endVars, WordsOK
  <2>4. WorkOK'
    BY <1>0, <1>5
       DEF ListingFails, GiveUpListing, NextCall, listingVars, callVars, probeVars,
           waveVars, workVars, endVars, WorkOK, Shape, InWaves
  <2>5. SaidOK'
    BY <1>0, <1>5
       DEF ListingFails, GiveUpListing, NextCall, listingVars, callVars, probeVars,
           waveVars, workVars, endVars, SaidOK
  <2>6. Shape'
    BY <1>0, <1>5
       DEF ListingFails, GiveUpListing, NextCall, listingVars, callVars, probeVars,
           waveVars, workVars, endVars, Shape, InWaves, Unread, NoReads
  <2>7. QED
    BY <2>1, <2>2, <2>3, <2>4, <2>5, <2>6, PartsPrimed DEF WellFormed
<1>6. ASSUME NEW e \in CallFailures \cup {"nothing"}, ListPods(e) PROVE WellFormed'
  <2>1. ListingOK'
    BY <1>0, <1>6
       DEF ListPods, NextCall, listingVars, callVars, probeVars, waveVars, workVars,
           endVars, ListingOK
  <2>2. CountsOK'
    <3>1. ReadsEach' \in Nat
      BY WorkAssumption DEF ReadsEach
    <3>2. Least(FirstWave, Cardinality(names)) \in Nat
      BY <1>a DEF Least
    <3>3. Least(FirstWave, Cardinality(names)) * ReadsEach' \in Nat
      BY <3>1, <3>2
    <3>4. QED
      BY <1>0, <1>6, <3>3 DEF ListPods, NextCall, CountsOK, waveVars
  <2>3. WordsOK'
    BY <1>0, <1>6, ErrorsAssumption
       DEF ListPods, NextCall, listingVars, callVars, probeVars, waveVars, workVars,
           endVars, WordsOK
  <2>4. WorkOK'
    BY <1>0, <1>6
       DEF ListPods, NextCall, listingVars, callVars, probeVars, waveVars, workVars,
           endVars, WorkOK
  <2>5. SaidOK'
    BY <1>0, <1>6
       DEF ListPods, NextCall, listingVars, callVars, probeVars, waveVars, workVars,
           endVars, SaidOK
  <2>6. Shape'
    BY <1>0, <1>6
       DEF ListPods, NextCall, listingVars, callVars, probeVars, waveVars, workVars,
           endVars, Shape, InWaves, CountsOK, Unread, NoReads
  <2>7. QED
    BY <2>1, <2>2, <2>3, <2>4, <2>5, <2>6, PartsPrimed DEF WellFormed
<1>7. ASSUME NEW refused \in SUBSET Batch, Admit(refused) PROVE WellFormed'
  <2>1. ListingOK'
    BY <1>0, <1>7
       DEF Admit, listingVars, callVars, probeVars, waveVars, workVars, endVars,
           ListingOK
  <2>2. CountsOK'
    BY <1>0, <1>7
       DEF Admit, listingVars, callVars, probeVars, waveVars, workVars, endVars,
           CountsOK
  <2>3. WordsOK'
    BY <1>0, <1>7
       DEF Admit, listingVars, callVars, probeVars, waveVars, workVars, endVars,
           WordsOK
  <2>4. WorkOK'
    BY <1>0, <1>7, <1>a
       DEF Admit, listingVars, callVars, probeVars, waveVars, workVars, endVars,
           WorkOK, Kinds, Outcomes, Errors, HostClasses
  <2>5. SaidOK'
    BY <1>0, <1>7
       DEF Admit, listingVars, callVars, probeVars, waveVars, workVars, endVars,
           SaidOK
  <2>6. Shape'
    BY <1>0, <1>7, <1>a
       DEF Admit, listingVars, callVars, probeVars, waveVars, workVars, endVars,
           Shape, InWaves, CountsOK, WorkOK, NoReads, Unread
  <2>7. QED
    BY <2>1, <2>2, <2>3, <2>4, <2>5, <2>6, PartsPrimed DEF WellFormed
<1>8. ASSUME WaveDone PROVE WellFormed'
  <2>1. ListingOK'
    BY <1>0, <1>8
       DEF WaveDone, listingVars, callVars, probeVars, waveVars, workVars, endVars,
           ListingOK
  <2>2. CountsOK'
    BY <1>0, <1>8, WorkAssumption
       DEF WaveDone, listingVars, callVars, probeVars, waveVars, workVars, endVars,
           CountsOK, Least, Shape
  <2>3. WordsOK'
    BY <1>0, <1>8
       DEF WaveDone, listingVars, callVars, probeVars, waveVars, workVars, endVars,
           WordsOK
  <2>4. WorkOK'
    BY <1>0, <1>8
       DEF WaveDone, listingVars, callVars, probeVars, waveVars, workVars, endVars,
           WorkOK
  <2>5. SaidOK'
    BY <1>0, <1>8
       DEF WaveDone, listingVars, callVars, probeVars, waveVars, workVars, endVars,
           SaidOK
  <2>6. Shape'
    BY <1>0, <1>8
       DEF WaveDone, listingVars, callVars, probeVars, waveVars, workVars, endVars,
           Shape, InWaves, CountsOK
  <2>7. QED
    BY <2>1, <2>2, <2>3, <2>4, <2>5, <2>6, PartsPrimed DEF WellFormed
<1>9. ASSUME Account PROVE WellFormed'
  <2>1. ListingOK'
    BY <1>0, <1>9
       DEF Account, listingVars, callVars, probeVars, waveVars, workVars, endVars,
           ListingOK
  <2>2. CountsOK'
    BY <1>0, <1>9, <1>a, TimesAssumption
       DEF Account, listingVars, callVars, probeVars, waveVars, workVars, endVars,
           CountsOK, JoinUntil, Greatest
  <2>3. WordsOK'
    BY <1>0, <1>9
       DEF Account, listingVars, callVars, probeVars, waveVars, workVars, endVars,
           WordsOK
  <2>4. WorkOK'
    <3>1. \A n \in Releases : outcome[n] \in Outcomes \cup {"unread"}
      BY <1>0 DEF WorkOK, Kinds
    <3>2. \A n \in Releases : Reason(outcome[n]) \in Words /\ "unread" \in Words
      BY <3>1, ReasonType DEF Words
    <3>3. account' \in [Releases -> Words]
      BY <1>9, <3>2 DEF Account
    <3>4. QED
      BY <1>0, <1>9, <1>b, <3>3 DEF Account, WorkOK, listingVars
  <2>5. SaidOK'
    BY <1>0, <1>9
       DEF Account, listingVars, callVars, probeVars, waveVars, workVars, endVars,
           SaidOK
  <2>6. Shape'
    BY <1>0, <1>9, <1>b
       DEF Account, listingVars, callVars, probeVars, waveVars, workVars, endVars,
           Shape, InWaves, CountsOK, NoReads, WorkOK
  <2>7. QED
    BY <2>1, <2>2, <2>3, <2>4, <2>5, <2>6, PartsPrimed DEF WellFormed
<1>10. ASSUME Answer PROVE WellFormed'
  <2>1. ListingOK'
    BY <1>0, <1>10
       DEF Answer, listingVars, callVars, probeVars, waveVars, workVars, endVars,
           ListingOK
  <2>2. CountsOK'
    BY <1>0, <1>10
       DEF Answer, listingVars, callVars, probeVars, waveVars, workVars, endVars,
           CountsOK
  <2>3. WordsOK'
    BY <1>0, <1>10
       DEF Answer, listingVars, callVars, probeVars, waveVars, workVars, endVars,
           WordsOK
  <2>4. WorkOK'
    BY <1>0, <1>10, <1>b
       DEF Answer, listingVars, callVars, probeVars, waveVars, workVars, endVars,
           WorkOK, Shape, InWaves
  <2>5. SaidOK'
    BY <1>0, <1>10, GaugesType
       DEF Answer, listingVars, callVars, probeVars, waveVars, workVars, endVars,
           SaidOK
  <2>6. Shape'
    BY <1>0, <1>10, <1>b
       DEF Answer, listingVars, callVars, probeVars, waveVars, workVars, endVars,
           Shape, InWaves, Unread, NoReads
  <2>7. QED
    BY <2>1, <2>2, <2>3, <2>4, <2>5, <2>6, PartsPrimed DEF WellFormed
<1>11. ASSUME NEW n \in Releases, Serve(n) PROVE WellFormed'
  <2>1. ListingOK'
    BY <1>0, <1>11
       DEF Serve, listingVars, callVars, probeVars, waveVars, workVars, endVars,
           ListingOK
  <2>2. CountsOK'
    BY <1>0, <1>11
       DEF Serve, listingVars, callVars, probeVars, waveVars, workVars, endVars,
           CountsOK
  <2>3. WordsOK'
    BY <1>0, <1>11
       DEF Serve, listingVars, callVars, probeVars, waveVars, workVars, endVars,
           WordsOK
  <2>4. WorkOK'
    <3>1. left[n] \in 1..(Reads + 1) /\ Reads \in Nat
      BY <1>0, <1>11, WorkAssumption DEF Serve, WorkOK
    <3>2. {0, left[n] - 1} \subseteq 0..(Reads + 1)
      BY <3>1
    <3>3. left' \in [Releases -> 0..(Reads + 1)]
      BY <1>0, <1>11, <3>2 DEF Serve, WorkOK
    <3>4. outcome' \in Kinds
      BY <1>0, <1>11 DEF Serve, WorkOK, Kinds, Outcomes
    <3>5. QED
      BY <1>0, <1>11, <3>3, <3>4 DEF Serve, WorkOK, listingVars, waveVars, endVars
  <2>5. SaidOK'
    BY <1>0, <1>11
       DEF Serve, listingVars, callVars, probeVars, waveVars, workVars, endVars,
           SaidOK
  <2>6. Shape'
    BY <1>0, <1>11
       DEF Serve, listingVars, callVars, probeVars, waveVars, workVars, endVars,
           Shape, InWaves, WorkOK, NoReads, Kinds, Unread
  <2>7. QED
    BY <2>1, <2>2, <2>3, <2>4, <2>5, <2>6, PartsPrimed DEF WellFormed
<1>12. ASSUME NEW n \in Releases, NEW e \in ReadFailures, Fail(n, e) PROVE WellFormed'
  <2>1. ListingOK'
    BY <1>0, <1>12
       DEF Fail, listingVars, callVars, probeVars, waveVars, workVars, endVars,
           ListingOK
  <2>2. CountsOK'
    BY <1>0, <1>12
       DEF Fail, listingVars, callVars, probeVars, waveVars, workVars, endVars,
           CountsOK
  <2>3. WordsOK'
    BY <1>0, <1>12
       DEF Fail, listingVars, callVars, probeVars, waveVars, workVars, endVars,
           WordsOK
  <2>4. WorkOK'
    <3>1. left' \in [Releases -> 0..(Reads + 1)]
      BY <1>0, <1>12, WorkAssumption DEF Fail, WorkOK
    <3>2. outcome' \in Kinds
      BY <1>0, <1>12, ErrorsAssumption DEF Fail, WorkOK, Kinds, Outcomes
    <3>3. QED
      BY <1>0, <1>12, <3>1, <3>2 DEF Fail, WorkOK, listingVars, waveVars, endVars
  <2>5. SaidOK'
    BY <1>0, <1>12
       DEF Fail, listingVars, callVars, probeVars, waveVars, workVars, endVars,
           SaidOK
  <2>6. Shape'
    BY <1>0, <1>12, ErrorsAssumption
       DEF Fail, listingVars, callVars, probeVars, waveVars, workVars, endVars,
           Shape, InWaves, WorkOK, NoReads, Kinds, Unread, Errors, HostClasses
  <2>7. QED
    BY <2>1, <2>2, <2>3, <2>4, <2>5, <2>6, PartsPrimed DEF WellFormed
<1>13. ASSUME EndAbandoned PROVE WellFormed'
  <2>1. ListingOK'
    BY <1>0, <1>13
       DEF EndAbandoned, listingVars, callVars, probeVars, waveVars, workVars,
           endVars, ListingOK
  <2>2. CountsOK'
    BY <1>0, <1>13
       DEF EndAbandoned, listingVars, callVars, probeVars, waveVars, workVars,
           endVars, CountsOK
  <2>3. WordsOK'
    BY <1>0, <1>13
       DEF EndAbandoned, listingVars, callVars, probeVars, waveVars, workVars,
           endVars, WordsOK
  <2>4. WorkOK'
    BY <1>0, <1>13
       DEF EndAbandoned, listingVars, callVars, probeVars, waveVars, workVars,
           endVars, WorkOK
  <2>5. SaidOK'
    BY <1>0, <1>13
       DEF EndAbandoned, listingVars, callVars, probeVars, waveVars, workVars,
           endVars, SaidOK
  <2>6. Shape'
    BY <1>0, <1>13
       DEF EndAbandoned, listingVars, callVars, probeVars, waveVars, workVars,
           endVars, Shape, InWaves
  <2>7. QED
    BY <2>1, <2>2, <2>3, <2>4, <2>5, <2>6, PartsPrimed DEF WellFormed
<1>14. ASSUME NEW p \in ProbeViews, ProbeDone(p) PROVE WellFormed'
  <2>1. ListingOK'
    BY <1>0, <1>14
       DEF ProbeDone, listingVars, callVars, probeVars, waveVars, workVars, endVars,
           ListingOK
  <2>2. CountsOK'
    BY <1>0, <1>14
       DEF ProbeDone, listingVars, callVars, probeVars, waveVars, workVars, endVars,
           CountsOK
  <2>3. WordsOK'
    BY <1>0, <1>14
       DEF ProbeDone, listingVars, callVars, probeVars, waveVars, workVars, endVars,
           WordsOK
  <2>4. WorkOK'
    BY <1>0, <1>14
       DEF ProbeDone, listingVars, callVars, probeVars, waveVars, workVars, endVars,
           WorkOK
  <2>5. SaidOK'
    BY <1>0, <1>14
       DEF ProbeDone, listingVars, callVars, probeVars, waveVars, workVars, endVars,
           SaidOK
  <2>6. Shape'
    BY <1>0, <1>14
       DEF ProbeDone, listingVars, callVars, probeVars, waveVars, workVars, endVars,
           Shape, InWaves
  <2>7. QED
    BY <2>1, <2>2, <2>3, <2>4, <2>5, <2>6, PartsPrimed DEF WellFormed
<1>15. ASSUME Changes PROVE WellFormed'
  <2>1. ListingOK'
    BY <1>0, <1>15
       DEF Changes, Install, Remove, listingVars, callVars, probeVars, waveVars,
           workVars, endVars, ListingOK
  <2>2. CountsOK'
    BY <1>0, <1>15
       DEF Changes, Install, Remove, listingVars, callVars, probeVars, waveVars,
           workVars, endVars, CountsOK
  <2>3. WordsOK'
    BY <1>0, <1>15
       DEF Changes, Install, Remove, listingVars, callVars, probeVars, waveVars,
           workVars, endVars, WordsOK
  <2>4. WorkOK'
    BY <1>0, <1>15
       DEF Changes, Install, Remove, listingVars, callVars, probeVars, waveVars,
           workVars, endVars, WorkOK
  <2>5. SaidOK'
    BY <1>0, <1>15
       DEF Changes, Install, Remove, listingVars, callVars, probeVars, waveVars,
           workVars, endVars, SaidOK
  <2>6. Shape'
    BY <1>0, <1>15
       DEF Changes, Install, Remove, listingVars, callVars, probeVars, waveVars,
           workVars, endVars, Shape, InWaves
  <2>7. QED
    BY <2>1, <2>2, <2>3, <2>4, <2>5, <2>6, PartsPrimed DEF WellFormed
<1>16. ASSUME Tick PROVE WellFormed'
  <2>1. ListingOK'
    BY <1>0, <1>16
       DEF Tick, listingVars, callVars, probeVars, waveVars, workVars, endVars,
           ListingOK
  <2>2. CountsOK'
    BY <1>0, <1>16
       DEF Tick, listingVars, callVars, probeVars, waveVars, workVars, endVars,
           CountsOK
  <2>3. WordsOK'
    BY <1>0, <1>16
       DEF Tick, listingVars, callVars, probeVars, waveVars, workVars, endVars,
           WordsOK
  <2>4. WorkOK'
    BY <1>0, <1>16
       DEF Tick, listingVars, callVars, probeVars, waveVars, workVars, endVars,
           WorkOK
  <2>5. SaidOK'
    BY <1>0, <1>16
       DEF Tick, listingVars, callVars, probeVars, waveVars, workVars, endVars,
           SaidOK
  <2>6. Shape'
    BY <1>0, <1>16
       DEF Tick, listingVars, callVars, probeVars, waveVars, workVars, endVars,
           Shape, InWaves, CountsOK
  <2>7. QED
    BY <2>1, <2>2, <2>3, <2>4, <2>5, <2>6, PartsPrimed DEF WellFormed
<1>17. ASSUME UNCHANGED vars PROVE WellFormed'
  <2>1. ListingOK'
    BY <1>0, <1>17
       DEF vars, listingVars, callVars, probeVars, waveVars, workVars, endVars,
           ListingOK
  <2>2. CountsOK'
    BY <1>0, <1>17
       DEF vars, listingVars, callVars, probeVars, waveVars, workVars, endVars,
           CountsOK
  <2>3. WordsOK'
    BY <1>0, <1>17
       DEF vars, listingVars, callVars, probeVars, waveVars, workVars, endVars,
           WordsOK
  <2>4. WorkOK'
    BY <1>0, <1>17
       DEF vars, listingVars, callVars, probeVars, waveVars, workVars, endVars,
           WorkOK
  <2>5. SaidOK'
    BY <1>0, <1>17
       DEF vars, listingVars, callVars, probeVars, waveVars, workVars, endVars,
           SaidOK
  <2>6. Shape'
    BY <1>0, <1>17
       DEF vars, listingVars, callVars, probeVars, waveVars, workVars, endVars,
           Shape, InWaves
  <2>7. QED
    BY <2>1, <2>2, <2>3, <2>4, <2>5, <2>6, PartsPrimed DEF WellFormed
<1>18. QED
  BY <1>1, <1>2, <1>3, <1>4, <1>5, <1>6, <1>7, <1>8, <1>9, <1>10, <1>11, <1>12, <1>13, <1>14,
     <1>15, <1>16, <1>17 DEF Next, List, Waves, Reconcile

\* Every reachable state is well formed, however many releases and workers.
THEOREM ScrapeTypeCorrect == Spec => []TypeOK
<1>1. WellFormed => TypeOK
  BY DEF WellFormed
<1>2. QED
  BY <1>1, WellFormedInit, WellFormedStep, PTL DEF Spec

-----------------------------------------------------------------------------
(* The listing.                                                            *)

\* What is there is followed only while it is listed.
ListingInv == HiddenByRemovals /\ (pc # "listing" => standing = {})

\* Only the listing's own steps, and what others install and remove, move what
\* ListingInv speaks of.
LEMMA ListingStep ==
    WellFormed /\ ListingInv /\ [Next]_vars
    => /\ ListingInv'
       /\ pc = "listing" /\ pc' = "pods" => Cardinality(standing \ names') <= removals
<1> SUFFICES ASSUME WellFormed, ListingInv, [Next]_vars
             PROVE  /\ ListingInv'
                    /\ pc = "listing" /\ pc' = "pods"
                       => Cardinality(standing \ names') <= removals
  OBVIOUS
<1>0. ListingOK /\ HiddenByRemovals
  BY DEF WellFormed, TypeOK, ListingInv
<1>1. CASE AskTools
  BY <1>1, StartHides DEF AskTools, NextCall, ListingInv
<1>2. CASE ReadPage
  BY <1>0, <1>2, PageHides DEF ReadPage, NextCall, ListingInv
<1>3. CASE ListReleases
  <2>1. ListingInv'
    BY <1>3, GiveUpHides DEF ListReleases, ShortPage, ListingInv
  <2>2. Cardinality(standing \ names') <= removals
    BY <1>0, <1>3, LastPageHides DEF ListReleases
  <2>3. QED
    BY <2>1, <2>2
<1>4. ASSUME NEW e \in CallFailures, ListingFails(e) PROVE ListingInv' /\ pc' # "pods"
  BY <1>4, GiveUpHides DEF ListingFails, GiveUpListing, NextCall, ListingInv
<1>5. CASE Changes
  BY <1>0, <1>5, InstallHides, RemoveHides DEF Changes, ListingInv
<1>6. CASE Answer
  <2>1. pc' = "idle" /\ standing = {} /\ standing' = standing /\ removals' = removals
    BY <1>6 DEF Answer, ListingInv
  <2>2. Hidden' = {} /\ Cardinality({}) = 0
    BY <2>1, FS_EmptySet DEF Hidden
  <2>3. QED
    BY <1>0, <1>6, <2>1, <2>2 DEF Answer, ListingInv, HiddenByRemovals, ListingOK
<1>7. CASE UNCHANGED listingVars /\ pc # "listing" /\ pc' # "listing"
  BY <1>7 DEF listingVars, ListingInv, HiddenByRemovals, Hidden, Rank
<1>8. CASE UNCHANGED <<listingVars, pc>>
  BY <1>8 DEF listingVars, ListingInv, HiddenByRemovals, Hidden, Rank
<1>9. QED
  BY <1>1, <1>2, <1>3, <1>4, <1>5, <1>6, <1>7, <1>8
     DEF Next, List, Waves, Reconcile, Begin, ListPods, Admit, WaveDone, Account, Serve, Fail,
         EndAbandoned, ProbeDone, Tick, vars, NextCall

\* However many releases there are and however small the pages, the listing
\* misses no more of those that stayed than the number that went meanwhile.
THEOREM ListingMisses == Spec => RemovalsHideOneEach
<1>1. Init => WellFormed /\ ListingInv
  <2>1. ASSUME Init PROVE Hidden = {} /\ removals = 0 /\ standing = {} /\ pc = "idle"
    BY <2>1 DEF Init, ListingInit, Hidden
  <2>2. QED
    BY <2>1, WellFormedInit, FS_EmptySet DEF ListingInv, HiddenByRemovals
<1>2. WellFormed /\ ListingInv /\ [Next]_vars
      => /\ (WellFormed /\ ListingInv)'
         /\ [pc = "listing" /\ pc' = "pods"
             => Cardinality(standing \ names') <= removals]_vars
  BY WellFormedStep, ListingStep
<1>3. QED
  BY <1>1, <1>2, PTL DEF Spec, RemovalsHideOneEach

-----------------------------------------------------------------------------
(* The deadline.                                                           *)

\* The waves end at the deadline or with the listings, and the join a grace
\* after that.
Timely ==
    /\ pc \in {"deciding", "waiting"} => now <= Greatest(Budget, readyAt)
    /\ pc = "joining" => now <= joinEnd /\ joinEnd <= Greatest(Budget, readyAt) + Grace

\* Time passes in the waves before the deadline, and in the join before its end.
LEMMA TimelyStep == WellFormed /\ Timely /\ [Next]_vars => Timely'
<1> SUFFICES ASSUME WellFormed, Timely, [Next]_vars PROVE Timely'
  OBVIOUS
<1>0. {now, joinEnd, readyAt, Budget, Grace} \subseteq Nat
  BY TimesAssumption DEF WellFormed, TypeOK
<1>1. CASE \E e \in CallFailures : ListingFails(e)
  BY <1>0, <1>1 DEF ListingFails, NextCall, JoinUntil, Greatest, Timely
<1>2. CASE \E e \in CallFailures \cup {"nothing"} : ListPods(e)
  BY <1>0, <1>2 DEF ListPods, NextCall, Greatest, Timely
<1>3. CASE Account
  <2>1. now <= Greatest(Budget, readyAt)
    BY <1>3 DEF Account, Timely
  <2>2. QED
    BY <1>0, <1>3, <2>1 DEF Account, JoinUntil, Greatest, Timely, endVars
<1>4. CASE Tick
  BY <1>0, <1>4 DEF Tick, Waits, InCall, OutOfTime, Greatest, Timely, endVars
<1>5. CASE Answer
  BY <1>5 DEF Answer, Timely
<1>6. CASE (\E refused \in SUBSET Batch : Admit(refused)) \/ WaveDone
  BY <1>6 DEF Admit, WaveDone, Timely, endVars
<1>7. CASE AskTools \/ ReadPage \/ ListReleases \/ Begin
  BY <1>7 DEF AskTools, ReadPage, ListReleases, Begin, NextCall, Timely
<1>8. CASE UNCHANGED <<pc, now, joinEnd, readyAt>>
  BY <1>8 DEF Timely
<1>9. QED
  BY <1>1, <1>2, <1>3, <1>4, <1>5, <1>6, <1>7, <1>8
     DEF Next, List, Waves, Reconcile, Serve, Fail, EndAbandoned, ProbeDone, Changes, vars, endVars

\* Whatever the budget, the cluster, the pool and the prober, an answer is late
\* only by what the listings took.
THEOREM DeadlineKept == Spec => []AnsweredOnTime
<1>1. Init => WellFormed /\ Timely
  BY WellFormedInit DEF Init, Timely
<1>2. WellFormed /\ Timely /\ [Next]_vars => (WellFormed /\ Timely)'
  BY WellFormedStep, TimelyStep
<1>3. WellFormed /\ Timely => AnsweredOnTime
  <2>1. SUFFICES ASSUME WellFormed, Timely PROVE AnsweredOnTime
    OBVIOUS
  <2>2. {now, joinEnd, readyAt, Budget, Grace} \subseteq Nat
    BY <2>1, TimesAssumption DEF WellFormed, TypeOK
  <2>3. QED
    BY <2>1, <2>2 DEF Timely, AnsweredOnTime, Greatest
<1>4. QED
  BY <1>1, <1>2, <1>3, PTL DEF Spec

-----------------------------------------------------------------------------
(* Blame.                                                                  *)

\* "busy" in the answer is said of a release whose own reading said so.
BusyIsEarned ==
    \A n \in Releases : account[n] = "busy" => outcome[n] = "ClusterBusy"

\* The account is made from the outcomes, and no release is read after it.
LEMMA BusyStep == WellFormed /\ BusyIsEarned /\ [Next]_vars => BusyIsEarned'
<1> SUFFICES ASSUME WellFormed, BusyIsEarned, [Next]_vars PROVE BusyIsEarned'
  OBVIOUS
<1>0. pc # "joining" => \A n \in Releases : account[n] # "busy"
  BY DEF WellFormed, Shape, Unread
<1>1. CASE Account
  <2>1. \A n \in Releases : outcome[n] \in Outcomes \cup {"unread"}
    BY DEF WellFormed, TypeOK, Kinds
  <2>2. \A o \in Outcomes \cup {"unread"} : Reason(o) = "busy" => o = "ClusterBusy"
    BY DEF Reason, Outcomes, Errors, HostClasses
  <2>3. QED
    BY <1>1, <2>1, <2>2 DEF Account, BusyIsEarned
<1>2. CASE Answer
  BY <1>2 DEF Answer, Unread, BusyIsEarned
<1>3. CASE account' = account /\ pc # "joining"
  BY <1>0, <1>3 DEF BusyIsEarned
<1>4. CASE account' = account /\ outcome' = outcome
  BY <1>4 DEF BusyIsEarned
<1>5. ASSUME NEW n \in Releases, Reconcile(n) PROVE pc # "joining"
  <2>1. left[n] > 0
    BY <1>5 DEF Reconcile, Serve, Fail
  <2>2. QED
    BY <2>1 DEF WellFormed, Shape, InWaves, NoReads
<1>6. QED
  BY <1>1, <1>2, <1>3, <1>4, <1>5
     DEF Next, List, Waves, Reconcile, Begin, AskTools, ReadPage, ListReleases, ListingFails,
         ListPods, Admit, WaveDone, Serve, Fail, EndAbandoned, ProbeDone, Changes, Tick, vars,
         workVars, endVars

\* Whatever combination of its own failures a host meets in one scrape, in its
\* listings, its threads and its reads, the answer does not call the cluster
\* unreachable for them, and calls it busy on the word of a slow probe alone.
THEOREM HostIsNotTheCluster == Spec => OnlyASlowProbeAccuses
<1> DEFINE Clean(a) == a.reachable # "0" /\ (a.busy = "1" => Slow)
<1>1. ASSUME BusyIsEarned, OnlyHostTrouble PROVE Clean(GaugesSaid)
  <2>1. /\ raised \notin {"ClusterBusy", "Unavailable"} /\ podsRaised # "ClusterBusy"
        /\ \A n \in Releases : outcome[n] # "ClusterBusy"
    BY <1>1 DEF OnlyHostTrouble, HostClasses
  <2>2. Busy => Slow
    BY <1>1, <2>1 DEF Busy, BusyIsEarned
  <2>3. CASE raised = "HostMisconfigured"
    BY <2>3 DEF GaugesSaid, Silent
  <2>4. CASE raised \in HostClasses \ {"HostMisconfigured"}
    <3>1. GaugesSaid = [Silent EXCEPT !.exhausted = Gauge(Exhausted)]
      BY <2>4 DEF GaugesSaid, HostClasses
    <3>2. QED
      BY <3>1 DEF Silent
  <2>5. CASE raised \notin HostClasses
    <3>1. GaugesSaid.reachable = "1" /\ GaugesSaid.busy = Gauge(Busy)
      BY <2>1, <2>5 DEF GaugesSaid, HostClasses
    <3>2. QED
      BY <2>2, <3>1 DEF Gauge
  <2>6. QED
    BY <2>3, <2>4, <2>5
<1>2. ASSUME BusyIsEarned, [Next]_vars, pc = "joining", pc' = "idle", OnlyHostTrouble
      PROVE  Clean(answer')
  <2>1. Answer
    BY <1>2
       DEF Next, List, Waves, Reconcile, Begin, AskTools, ReadPage, ListReleases,
         ListingFails, ListPods, Admit, WaveDone, Account, Serve, Fail, EndAbandoned, ProbeDone,
         Changes, Tick, vars
  <2>2. QED
    BY <1>1, <1>2, <2>1 DEF Answer
<1>3. Init => WellFormed /\ BusyIsEarned
  BY WellFormedInit DEF Init, Unread, BusyIsEarned
<1>4. WellFormed /\ BusyIsEarned /\ [Next]_vars
      => /\ (WellFormed /\ BusyIsEarned)'
         /\ [pc = "joining" /\ pc' = "idle" /\ OnlyHostTrouble => Clean(answer')]_vars
  BY <1>2, WellFormedStep, BusyStep
<1>5. QED
  BY <1>3, <1>4, PTL DEF Spec, OnlyASlowProbeAccuses

-----------------------------------------------------------------------------
(* Scrape implements Coverage.                                             *)

\* What Coverage calls listed.
Listed == IF pc = "listing" THEN {} ELSE names

\* The promise in terms of this module.
LEMMA CoverageTerms ==
    /\ Covered!Nothing = Unread
    /\ Covered!vars = <<Listed, outcome, account>>
BY DEF Covered!Nothing, Covered!vars, Unread, Listed

\* A scrape starts as one that knows nothing.
LEMMA CoverageInit == Init => Covered!Init
BY CoverageTerms DEF Init, ListingInit, Covered!Init

\* Every step lists, reads, accounts or forgets as promised, or does nothing
\* that the promise speaks of.
LEMMA CoverageStep == WellFormed /\ [Next]_vars => [Covered!Next]_(Covered!vars)
<1> SUFFICES ASSUME WellFormed, [Next]_vars
             PROVE  Covered!Next \/ UNCHANGED <<Listed, outcome, account>>
  BY DEF Covered!vars, Listed
<1>0. /\ outcome \in [Releases -> Outcomes \cup {"unread"}]
      /\ queue \subseteq names /\ names \in SUBSET Releases /\ left \in [Releases -> 0..(Reads + 1)]
      /\ Batch \in SUBSET queue
      /\ "HostExhausted" \in Outcomes /\ "reported" \in Outcomes /\ ReadFailures \subseteq Outcomes
  BY CountsType, ErrorsAssumption
     DEF WellFormed, TypeOK, ListingOK, Kinds, Outcomes, Errors, HostClasses
<1>r. ASSUME pc \in {"deciding", "waiting"}, account' = account, Listed' = Listed,
             outcome' \in [Releases -> Outcomes \cup {"unread"}],
             \A n \in Releases :
                outcome'[n] # outcome[n] => n \in names /\ outcome[n] = "unread"
      PROVE  Covered!Read
  <2>1. Listed = names /\ account = Unread
    BY <1>r DEF Listed, WellFormed, Shape
  <2>2. QED
    BY <1>r, <2>1, CoverageTerms DEF Covered!Read, Listed
<1>1. CASE Begin
  BY <1>1 DEF Begin, listingVars, workVars, Listed
<1>2. CASE AskTools
  BY <1>2
     DEF AskTools, NextCall, StartListing, waveVars, workVars, endVars, Listed,
         WellFormed, Shape
<1>3. CASE ReadPage
  BY <1>3 DEF ReadPage, NextCall, workVars, endVars, Listed
<1>4. CASE ListReleases
  <2>1. outcome = Unread /\ account = Unread /\ outcome' = outcome /\ account' = account
    BY <1>4 DEF ListReleases, workVars, endVars, WellFormed, Shape
  <2>2. Listed' = names' /\ names' \in SUBSET Releases
    BY <1>0, <1>4
       DEF ListReleases, ShortPage, NextCall, Listed, Page, Slice, WellFormed,
           TypeOK,
                      ListingOK
  <2>3. Covered!List
    BY <2>1, <2>2, CoverageTerms DEF Covered!List, Listed
  <2>4. QED
    BY <2>3 DEF Covered!Next
<1>5. ASSUME NEW e \in CallFailures, ListingFails(e) PROVE UNCHANGED <<Listed, outcome, account>>
  BY <1>5 DEF ListingFails, GiveUpListing, NextCall, workVars, Listed
<1>6. ASSUME NEW e, ListPods(e) PROVE UNCHANGED <<Listed, outcome, account>>
  BY <1>6 DEF ListPods, NextCall, listingVars, Listed
<1>7. ASSUME NEW refused \in SUBSET Batch, Admit(refused) PROVE Covered!Read
  <2>1. \A n \in Batch : n \in names /\ outcome[n] = "unread"
    BY <1>0 DEF WellFormed, Shape
  <2>2. /\ \A n \in Releases : outcome'[n] # outcome[n] => n \in names /\ outcome[n] = "unread"
        /\ outcome' \in [Releases -> Outcomes \cup {"unread"}]
    BY <1>0, <1>7, <2>1 DEF Admit
  <2>3. pc = "deciding" /\ account' = account /\ Listed' = Listed
    BY <1>7 DEF Admit, listingVars, endVars, Listed
  <2>4. QED
    BY <1>r, <2>2, <2>3
<1>8. ASSUME NEW n \in Releases, Reconcile(n) PROVE Covered!Read
  <2>1. left[n] > 0 /\ pc' = pc /\ account' = account /\ Listed' = Listed
    BY <1>8 DEF Reconcile, Serve, Fail, listingVars, endVars, Listed
  <2>2. pc \in {"deciding", "waiting"} /\ outcome[n] = "unread" /\ n \in names
    BY <2>1 DEF WellFormed, Shape, InWaves, NoReads
  <2>3. \E o \in Outcomes \cup {"unread"} : outcome' = [outcome EXCEPT ![n] = o]
    BY <1>0, <1>8, <2>2 DEF Reconcile, Serve, Fail
  <2>4. /\ \A m \in Releases : outcome'[m] # outcome[m] => m \in names /\ outcome[m] = "unread"
        /\ outcome' \in [Releases -> Outcomes \cup {"unread"}]
    BY <1>0, <2>2, <2>3
  <2>5. QED
    BY <1>r, <2>1, <2>2, <2>4
<1>9. CASE WaveDone
  BY <1>9 DEF WaveDone, listingVars, workVars, endVars, Listed
<1>10. CASE Account
  <2>1. pc \in {"deciding", "waiting"} /\ pc' = "joining" /\ names' = names /\ outcome' = outcome
    BY <1>10 DEF Account, listingVars
  <2>2. account = Unread /\ Listed = names
    BY <2>1 DEF WellFormed, Shape, Listed
  <2>3. account' = [n \in Releases |-> IF n \in names THEN Reason(outcome[n]) ELSE "unread"]
    BY <1>0, <1>10 DEF Account, NeverStarted
  <2>4. \A o \in Outcomes \cup {"unread"} :
           /\ Reason(o) \in Reasons \cup {"reported"}
           /\ Reason(o) = "reported" <=> o = "reported"
           /\ Reason(o) = "deadline" <=> o = "unread"
    BY DEF Reason, Reasons, Outcomes, Errors, HostClasses
  <2>5. \A n \in Releases : Reason(outcome[n]) \in Reasons \cup {"reported"}
    BY <1>0, <2>4
  <2>6. account' \in [Releases -> Reasons \cup {"reported", "unread"}]
    BY <2>3, <2>5
  <2>7. \A n \in Releases : IF n \in Listed THEN Covered!Fits(account'[n], outcome[n])
                                            ELSE account'[n] = "unread"
    BY <1>0, <2>2, <2>3, <2>4 DEF Covered!Fits
  <2>8. Covered!Account
    BY <2>1, <2>2, <2>6, <2>7, CoverageTerms DEF Covered!Account, Listed
  <2>9. QED
    BY <2>8 DEF Covered!Next
<1>11. CASE Answer
  <2>1. Covered!Forget
    BY <1>11, CoverageTerms DEF Answer, Covered!Forget, Listed
  <2>2. QED
    BY <2>1 DEF Covered!Next
<1>12. CASE EndAbandoned \/ (\E p \in ProbeViews : ProbeDone(p)) \/ Tick
  BY <1>12 DEF EndAbandoned, ProbeDone, Tick, listingVars, workVars, endVars, Listed
<1>13. CASE Changes
  BY <1>13 DEF Changes, workVars, endVars, Listed
<1>14. CASE UNCHANGED vars
  BY <1>14 DEF vars, listingVars, workVars, endVars, Listed
<1>15. QED
  BY <1>1, <1>2, <1>3, <1>4, <1>5, <1>6, <1>7, <1>8, <1>9, <1>10, <1>11, <1>12, <1>13, <1>14
     DEF Next, List, Waves, Covered!Next

\* Every listed release is accounted for, reported when it was read in this
\* scrape, late when it was not, and otherwise with the reason it failed, for
\* every pool, budget, failure and order of the reads.
THEOREM ScrapeCovers == Spec => ImplementsCoverage
<1>1. Init => WellFormed /\ Covered!Init
  BY WellFormedInit, CoverageInit
<1>2. WellFormed /\ [Next]_vars => WellFormed' /\ [Covered!Next]_(Covered!vars)
  BY WellFormedStep, CoverageStep
<1>3. QED
  BY <1>1, <1>2, PTL DEF Spec, ImplementsCoverage, Covered!Spec

-----------------------------------------------------------------------------
(* The load on the cluster.                                                *)

Earned == Greatest(FirstWave, 2 * Cardinality(Settled))

\* A wave that is still to come is paid for by the one before it, which was
\* full as long as releases were left over; nothing runs between two waves.
EarnedInv ==
    /\ FirstWave <= wave /\ wave <= Workers
    /\ pc = "deciding" =>
          /\ Running = {}
          /\ queue # {} => wave <= Earned
    /\ pc = "waiting" =>
          /\ Cardinality(Running) <= wave
          /\ Cardinality(Running) <= Earned
          /\ queue # {} => wave <= Cardinality(names \ queue)
    /\ InWaves => \A n \in names \ queue : left[n] > 0 \/ outcome[n] # "unread"

\* What runs and what is settled can be counted.
LEMMA EarnedType ==
    ASSUME TypeOK
    PROVE  /\ IsFiniteSet(Running) /\ Cardinality(Running) \in Nat
           /\ IsFiniteSet(Settled) /\ Cardinality(Settled) \in Nat
           /\ IsFiniteSet(names \ queue) /\ Cardinality(names \ queue) \in Nat
           /\ Earned \in Nat
<1>1. Running \in SUBSET Releases /\ Settled \in SUBSET Releases
      /\ (names \ queue) \in SUBSET Releases
  BY DEF Running, Settled, TypeOK, ListingOK
<1>2. IsFiniteSet(Running) /\ IsFiniteSet(Settled) /\ IsFiniteSet(names \ queue)
  BY <1>1, ReleasesAssumption, FS_Subset
<1>3. /\ Cardinality(Running) \in Nat /\ Cardinality(Settled) \in Nat
      /\ Cardinality(names \ queue) \in Nat
  BY <1>2, FS_CardinalityType
<1>4. QED
  BY <1>2, <1>3, CountsType DEF Earned, Greatest

\* So it can after a step.
LEMMA EarnedTypeThen ==
    /\ IsFiniteSet(Settled') /\ Cardinality(Settled') \in Nat
    /\ Earned' = Greatest(FirstWave, 2 * Cardinality(Settled')) /\ Earned' \in Nat
<1>1. Settled' \in SUBSET Releases /\ IsFiniteSet(Releases)
  BY ReleasesAssumption DEF Settled
<1>2. IsFiniteSet(Settled')
  BY <1>1, FS_Subset
<1>3. Cardinality(Settled') \in Nat /\ FirstWave \in Nat
  BY <1>2, FS_CardinalityType, WorkAssumption DEF FirstWave, Least
<1>4. Earned' = Greatest(FirstWave, 2 * Cardinality(Settled'))
  BY DEF Earned, Greatest, FirstWave, Least
<1>5. QED
  BY <1>2, <1>3, <1>4 DEF Greatest

\* The cluster is never thought to have done less than before.
LEMMA EarnedGrows ==
    ASSUME TypeOK, Settled \subseteq Settled' PROVE Earned <= Earned'
<1>1. /\ Cardinality(Settled) \in Nat /\ Cardinality(Settled') \in Nat /\ FirstWave \in Nat
  BY EarnedType, EarnedTypeThen, CountsType
<1>2. Cardinality(Settled) <= Cardinality(Settled')
  BY EarnedTypeThen, FS_Subset
<1>3. QED
  BY <1>1, <1>2, EarnedTypeThen DEF Earned, Greatest

\* A wave that leaves releases behind is full.
LEMMA BatchFull ==
    ASSUME TypeOK
    PROVE  /\ Batch \in SUBSET queue /\ IsFiniteSet(Batch) /\ Cardinality(Batch) \in Nat
           /\ Cardinality(Batch) <= wave
           /\ queue \ Batch # {} => wave <= Cardinality(Batch)
<1>1. Ordered(queue) /\ wave \in Nat /\ 0 \in Nat
  BY CountsType DEF TypeOK
<1>2. /\ Slice(queue, 0, wave) \in SUBSET queue
      /\ Ordered(Slice(queue, 0, wave)) /\ Cardinality(Slice(queue, 0, wave)) \in 0..wave
  BY <1>1, SliceBound
<1>3. ASSUME NEW q \in queue \ Batch PROVE wave <= Cardinality(Batch)
  <2>1. Rank(queue, q) \in Nat \ {0}
    BY <1>1, RankType
  <2>2. Rank(queue, q) > 0 + wave
    BY <1>1, <1>3, <2>1 DEF Batch, Slice
  <2>3. QED
    BY <1>1, <2>2, SliceFull DEF Batch
<1>4. Cardinality(Batch) \in Nat /\ Cardinality(Batch) <= wave
  BY <1>1, <1>2 DEF Batch
<1>5. Batch \in SUBSET queue /\ IsFiniteSet(Batch)
  BY <1>2 DEF Batch, Ordered
<1>6. QED
  BY <1>3, <1>4, <1>5

\* Admission: what runs is the batch.
LEMMA EarnedAdmit ==
    ASSUME WellFormed, WellFormed', EarnedInv, NEW refused \in SUBSET Batch, Admit(refused)
    PROVE  EarnedInv'
<1>0. TypeOK /\ TypeOK' /\ Shape
  BY DEF WellFormed
<1>a. /\ left \in [Releases -> 0..(Reads + 1)] /\ outcome \in [Releases -> Outcomes \cup {"unread"}]
      /\ names \in SUBSET Releases /\ queue \subseteq names
      /\ ReadsEach \in Nat \ {0} /\ Reads \in Nat
  BY <1>0, CountsType, WorkAssumption DEF TypeOK, ListingOK, Kinds
<1>1. Batch \in SUBSET queue /\ Batch \subseteq Releases
  BY <1>0, <1>a, BatchFull
<1>2. /\ pc' = "waiting" /\ queue' = queue \ Batch /\ names' = names /\ wave' = wave
      /\ \A n \in Releases : /\ left[n] = 0
                             /\ left'[n] = IF n \in Batch \ refused THEN ReadsEach ELSE left[n]
                             /\ outcome'[n] = IF n \in Batch \cap refused THEN "HostExhausted"
                                                                         ELSE outcome[n]
      /\ wave <= Earned
  BY <1>a DEF Admit, MayAdmit, EarnedInv, listingVars, Running
<1>3. Running' \in SUBSET Batch /\ Settled \subseteq Settled'
  BY <1>2 DEF Running, Settled
<1>4. Cardinality(Running') <= Cardinality(Batch) /\ Cardinality(Running') \in Nat
  BY <1>0, <1>3, BatchFull, FS_Subset, FS_CardinalityType
<1>5. Earned <= Earned' /\ Earned \in Nat /\ wave \in Nat
  BY <1>0, <1>3, EarnedGrows, EarnedType DEF TypeOK
<1>6. Earned' \in Nat
  BY EarnedTypeThen
<1>7. Cardinality(Running') <= wave' /\ Cardinality(Running') <= Earned'
  BY <1>0, <1>2, <1>4, <1>5, <1>6, BatchFull
<1>8. queue' # {} => wave' <= Cardinality((names \ queue)')
  <2>1. Batch \in SUBSET (names' \ queue')
    BY <1>1, <1>2, <1>a
  <2>2. IsFiniteSet(names' \ queue') /\ Cardinality(names' \ queue') \in Nat
    <3>1. (names' \ queue') \in SUBSET Releases
      BY <1>2, <1>a
    <3>2. QED
      BY <3>1, ReleasesAssumption, FS_Subset, FS_CardinalityType
  <2>3. Cardinality(Batch) <= Cardinality(names' \ queue')
    BY <2>1, <2>2, FS_Subset
  <2>4. QED
    BY <1>0, <1>2, <1>5, <2>2, <2>3, BatchFull
<1>9. \A n \in names' \ queue' : left'[n] > 0 \/ outcome'[n] # "unread"
  <2>1. ASSUME NEW n \in names' \ queue' PROVE left'[n] > 0 \/ outcome'[n] # "unread"
    <3>1. CASE n \in Batch
      BY <1>1, <1>2, <1>a, <3>1
    <3>2. CASE n \notin Batch
      <4>1. n \in names \ queue /\ n \in Releases
        BY <1>2, <1>a, <2>1, <3>2
      <4>2. left[n] > 0 \/ outcome[n] # "unread"
        BY <4>1 DEF EarnedInv, InWaves, Admit
      <4>3. QED
        BY <1>2, <3>2, <4>1, <4>2
    <3>3. QED
      BY <3>1, <3>2
  <2>2. QED
    BY <2>1
<1>10. QED
  BY <1>2, <1>7, <1>8, <1>9 DEF EarnedInv, FirstWave

\* A wave that is through has earned twice as much.
LEMMA EarnedWaveDone ==
    ASSUME WellFormed, EarnedInv, WaveDone PROVE EarnedInv'
<1>0. TypeOK /\ Workers \in Nat /\ wave \in Nat /\ FirstWave \in Nat /\ FirstWave <= Workers
  BY CountsType, WorkAssumption DEF WellFormed, TypeOK
<1>1. (names \ queue) \in SUBSET Settled
  BY <1>0
     DEF WaveDone, AllDone, Running, Settled, EarnedInv, InWaves, TypeOK, ListingOK
<1>2. Cardinality(names \ queue) <= Cardinality(Settled)
  BY <1>0, <1>1, EarnedType, FS_Subset
<1>3. queue # {} => wave <= Cardinality(Settled)
  BY <1>0, <1>2, EarnedType DEF EarnedInv, WaveDone
<1>4. /\ FirstWave <= wave' /\ wave' <= Workers /\ wave' <= 2 * wave
  BY <1>0 DEF WaveDone, EarnedInv, Least
<1>5. queue # {} => wave' <= Earned
  BY <1>0, <1>3, <1>4, EarnedType DEF Earned, Greatest, WaveDone, Least
<1>6. Running' = {} /\ Earned' = Earned
  BY DEF WaveDone, AllDone, Running, Earned, Settled, workVars, FirstWave
<1>7. QED
  BY <1>4, <1>5, <1>6
     DEF EarnedInv, WaveDone, InWaves, FirstWave, workVars, listingVars

\* A read that is answered takes nothing back.
LEMMA EarnedReconcile ==
    ASSUME WellFormed, WellFormed', EarnedInv, NEW n \in Releases, Reconcile(n)
    PROVE  EarnedInv'
<1>0. /\ TypeOK /\ TypeOK' /\ left \in [Releases -> 0..(Reads + 1)] /\ Reads \in Nat
      /\ outcome \in [Releases -> Outcomes \cup {"unread"}]
  BY WorkAssumption DEF WellFormed, TypeOK, Kinds
<1>1. /\ left[n] > 0 /\ outcome[n] = "unread" /\ n \in names
      /\ pc' = pc /\ wave' = wave /\ queue' = queue /\ names' = names
  BY DEF Reconcile, Serve, Fail, waveVars, listingVars, WellFormed, Shape
<1>2. pc = "waiting"
  BY <1>1 DEF EarnedInv, Running, WellFormed, Shape, InWaves, NoReads
<1>3. \E k \in Nat : k < left[n] /\ left' = [left EXCEPT ![n] = k]
                     /\ (k = 0 => outcome'[n] # "unread")
  <2>1. "unread" \notin ReadFailures
    BY ErrorsAssumption DEF Errors, HostClasses
  <2>2. CASE Serve(n)
    <3>1. PICK k \in {0, left[n] - 1} : left' = [left EXCEPT ![n] = k]
      BY <2>2 DEF Serve
    <3>2. k \in Nat /\ k < left[n] /\ left'[n] = k
      BY <1>0, <1>1, <3>1
    <3>3. k = 0 => outcome'[n] = "reported"
      BY <1>0, <2>2, <3>2 DEF Serve
    <3>4. QED
      BY <3>1, <3>2, <3>3
  <2>3. ASSUME NEW e \in ReadFailures, Fail(n, e) PROVE <1>3!:
    BY <1>0, <1>1, <2>1, <2>3 DEF Fail
  <2>4. QED
    BY <2>2, <2>3 DEF Reconcile
<1>4. \A m \in Releases : m # n => outcome'[m] = outcome[m] /\ left'[m] = left[m]
  BY <1>0, <1>3 DEF Reconcile, Serve, Fail
<1>5. Running' \in SUBSET Running
  BY <1>1, <1>4 DEF Running
<1>6. Settled \subseteq Settled'
  BY <1>1, <1>4 DEF Settled
<1>7. Cardinality(Running') <= Cardinality(Running) /\ Cardinality(Running') \in Nat
  BY <1>0, <1>5, EarnedType, FS_Subset, FS_CardinalityType
<1>8. Earned <= Earned' /\ Earned \in Nat /\ wave \in Nat
  BY <1>0, <1>6, EarnedGrows, EarnedType DEF TypeOK
<1>9. Earned' \in Nat
  BY EarnedTypeThen
<1>10. Cardinality(Running') <= wave' /\ Cardinality(Running') <= Earned'
  BY <1>0, <1>1, <1>2, <1>7, <1>8, <1>9, EarnedType DEF EarnedInv
<1>11. \A m \in names \ queue : left'[m] > 0 \/ outcome'[m] # "unread"
  <2>1. ASSUME NEW m \in names \ queue PROVE left'[m] > 0 \/ outcome'[m] # "unread"
    <3>1. CASE m = n
      BY <1>0, <1>3, <3>1
    <3>2. CASE m # n
      BY <1>0, <1>2, <1>4, <3>2 DEF EarnedInv, InWaves, TypeOK, ListingOK
    <3>3. QED
      BY <3>1, <3>2
  <2>2. QED
    BY <2>1
<1>12. QED
  BY <1>1, <1>2, <1>10, <1>11 DEF EarnedInv, InWaves, FirstWave

\* The other steps neither run nor settle anything, and only list_pods brings
\* the collector to its waves.
LEMMA EarnedStep == WellFormed /\ EarnedInv /\ [Next]_vars => EarnedInv'
<1> SUFFICES ASSUME WellFormed, EarnedInv, [Next]_vars PROVE EarnedInv'
  OBVIOUS
<1>0. WellFormed' /\ FirstWave \in Nat /\ FirstWave <= Workers
  BY WellFormedStep, CountsType DEF WellFormed
<1>1. CASE \E refused \in SUBSET Batch : Admit(refused)
  BY <1>0, <1>1, EarnedAdmit
<1>2. CASE WaveDone
  BY <1>2, EarnedWaveDone
<1>3. CASE \E n \in Releases : Reconcile(n)
  BY <1>0, <1>3, EarnedReconcile
<1>4. ASSUME NEW e, ListPods(e) PROVE EarnedInv'
  <2>1. wave' = FirstWave /\ left' = NoReads /\ pc' = "deciding" /\ names' = names /\ queue' = names
    BY <1>4 DEF ListPods, NextCall, listingVars, WellFormed, Shape, InWaves
  <2>2. Running' = {} /\ FirstWave' = FirstWave
    BY <2>1 DEF Running, NoReads, FirstWave
  <2>3. FirstWave <= Earned'
    BY <1>0, EarnedTypeThen DEF Greatest
  <2>4. QED
    BY <1>0, <2>1, <2>2, <2>3 DEF EarnedInv
<1>5. CASE Account
  BY <1>0, <1>5 DEF Account, EarnedInv, InWaves, FirstWave
<1>6. CASE pc' \notin {"deciding", "waiting"} /\ wave' = wave
  BY <1>6 DEF EarnedInv, InWaves, FirstWave
<1>7. CASE UNCHANGED <<pc, wave, queue, names, left, outcome>>
  BY <1>7 DEF EarnedInv, InWaves, FirstWave, Running, Settled, Earned
<1>8. QED
  BY <1>1, <1>2, <1>3, <1>4, <1>5, <1>6, <1>7
     DEF Next, List, Waves, Begin, AskTools, ReadPage, ListReleases, ListingFails, Answer,
         EndAbandoned, ProbeDone, Changes, Tick, NextCall, vars, listingVars, waveVars, workVars

\* The waves never ask more of the cluster than twice what it has already served
\* in this scrape, nor than the pool holds, whatever the cluster's order and rate.
THEOREM WavesAreEarned == Spec => []LoadIsEarned
<1>1. Init => WellFormed /\ EarnedInv
  <2>1. ASSUME Init PROVE EarnedInv
    <3>1. wave = FirstWave /\ FirstWave <= FirstWave /\ FirstWave <= Workers /\ pc = "idle"
      BY <2>1, WellFormedInit, CountsType DEF WellFormed, Init
    <3>2. QED
      BY <3>1 DEF EarnedInv, InWaves
  <2>2. QED
    BY <2>1, WellFormedInit
<1>2. WellFormed /\ EarnedInv /\ [Next]_vars => (WellFormed /\ EarnedInv)'
  BY WellFormedStep, EarnedStep
<1>3. WellFormed /\ EarnedInv => LoadIsEarned
  <2>1. SUFFICES ASSUME WellFormed, EarnedInv PROVE LoadIsEarned
    OBVIOUS
  <2>2. /\ TypeOK /\ Cardinality(Running) \in Nat /\ Earned \in Nat /\ Workers \in Nat
        /\ wave \in Nat /\ wave <= Workers
    BY <2>1, EarnedType, WorkAssumption DEF WellFormed, TypeOK, EarnedInv
  <2>3. CASE pc = "waiting"
    BY <2>1, <2>2, <2>3 DEF EarnedInv, LoadIsEarned, Earned
  <2>4. CASE pc # "waiting"
    <3>1. Running = {}
      BY <2>1, <2>2, <2>4
         DEF WellFormed, Shape, InWaves, NoReads, Running, EarnedInv
    <3>2. Cardinality(Running) = 0
      BY <3>1, FS_EmptySet
    <3>3. QED
      BY <2>2, <3>2 DEF LoadIsEarned, Earned
  <2>5. QED
    BY <2>3, <2>4
<1>4. QED
  BY <1>1, <1>2, <1>3, PTL DEF Spec

-----------------------------------------------------------------------------
(* The first wave.                                                         *)

First    == Slice(names, 0, FirstWave)
ReadsDue == {r \in Releases \X (1..(Reads + 1)) : r[2] <= left[r[1]]}

\* The first wave is not admitted yet, or is all that runs, and what it still
\* needs was counted together with the leftovers; or it is through.
FirstWavePaid ==
    InWaves =>
        \/ /\ pc = "deciding" /\ queue = names /\ wave = FirstWave
           /\ abandoned + Least(FirstWave, Cardinality(names)) * ReadsEach <= debt
        \/ /\ pc = "waiting" /\ names \ queue = First
           /\ abandoned + ReadsLeft <= debt
        \/ \A n \in First : outcome[n] # "unread"

\* The reads that are due are finitely many.
LEMMA ReadsDueType ==
    ASSUME NEW f PROVE
       LET S == {r \in Releases \X (1..(Reads + 1)) : r[2] <= f[r[1]]}
       IN  IsFiniteSet(S) /\ Cardinality(S) \in Nat
<1>1. IsFiniteSet(Releases) /\ IsFiniteSet(1..(Reads + 1))
  BY ReleasesAssumption, WorkAssumption, FS_Interval
<1>2. IsFiniteSet(Releases \X (1..(Reads + 1)))
  BY <1>1, FS_Product
<1>3. {r \in Releases \X (1..(Reads + 1)) : r[2] <= f[r[1]]}
      \in SUBSET (Releases \X (1..(Reads + 1)))
  OBVIOUS
<1>4. QED
  BY <1>2, <1>3, FS_Subset, FS_CardinalityType

\* A reconcile that is served or fails has a read less to make.
LEMMA ReadsDueFall ==
    ASSUME TypeOK, NEW n \in Releases, NEW k \in Nat, k < left[n],
           left' = [left EXCEPT ![n] = k]
    PROVE  ReadsLeft' + 1 <= ReadsLeft /\ ReadsLeft \in Nat /\ ReadsLeft' \in Nat
<1> DEFINE D == {r \in Releases \X (1..(Reads + 1)) : r[2] <= left'[r[1]]}
<1>0. left \in [Releases -> 0..(Reads + 1)] /\ Reads \in Nat
  BY WorkAssumption DEF TypeOK
<1>1. IsFiniteSet(ReadsDue) /\ Cardinality(ReadsDue) \in Nat
  BY ReadsDueType DEF ReadsDue
<1>2. IsFiniteSet(D) /\ Cardinality(D) \in Nat
  BY ReadsDueType
<1>3. <<n, left[n]>> \in ReadsDue /\ <<n, left[n]>> \notin D
  BY <1>0 DEF ReadsDue
<1>4. D \in SUBSET (ReadsDue \ {<<n, left[n]>>})
  <2>1. ASSUME NEW m \in Releases, NEW i \in 1..(Reads + 1), i <= left'[m]
        PROVE  i <= left[m]
    <3>1. CASE m = n
      BY <1>0, <2>1, <3>1
    <3>2. CASE m # n
      BY <1>0, <2>1, <3>2
    <3>3. QED
      BY <3>1, <3>2
  <2>2. \A r \in D : r \in ReadsDue
    BY <2>1 DEF ReadsDue
  <2>3. QED
    BY <1>3, <2>2
<1>5. /\ IsFiniteSet(ReadsDue \ {<<n, left[n]>>})
      /\ Cardinality(ReadsDue \ {<<n, left[n]>>}) = Cardinality(ReadsDue) - 1
  BY <1>1, <1>3, FS_RemoveElement
<1>6. Cardinality(D) <= Cardinality(ReadsDue \ {<<n, left[n]>>})
  BY <1>4, <1>5, FS_Subset
<1>7. ReadsLeft = Cardinality(ReadsDue) /\ ReadsLeft' = Cardinality(D)
  BY DEF ReadsLeft, ReadsDue
<1>8. QED
  BY <1>1, <1>2, <1>5, <1>6, <1>7

\* The first wave needs no more reads than were counted for it.
LEMMA FirstWaveAdmit ==
    ASSUME WellFormed, WellFormed', EarnedInv, FirstWavePaid,
           NEW refused \in SUBSET Batch, Admit(refused)
    PROVE  FirstWavePaid'
<1> DEFINE D == {r \in Releases \X (1..(Reads + 1)) : r[2] <= left'[r[1]]}
           k == Least(FirstWave, Cardinality(names))
<1>0. /\ TypeOK /\ left \in [Releases -> 0..(Reads + 1)] /\ Reads \in Nat
      /\ names \in SUBSET Releases /\ queue \subseteq names /\ wave \in Nat
      /\ FirstWave \in Nat /\ ReadsEach \in 1..(Reads + 1)
      /\ IsFiniteSet(names) /\ Cardinality(names) \in Nat
      /\ outcome \in [Releases -> Outcomes \cup {"unread"}]
      /\ abandoned \in Nat
  BY CountsType, WorkAssumption DEF WellFormed, TypeOK, ListingOK, Kinds
<1>1. /\ pc = "deciding" /\ pc' = "waiting" /\ names' = names /\ queue' = queue \ Batch
      /\ abandoned' = abandoned /\ debt' = debt
      /\ First' = First /\ FirstWave' = FirstWave
      /\ \A n \in Releases : /\ left[n] = 0
                             /\ left'[n] = IF n \in Batch \ refused THEN ReadsEach ELSE 0
                             /\ outcome[n] # "unread" => outcome'[n] # "unread"
  BY <1>0 DEF Admit, EarnedInv, Running, listingVars, First, Slice, Rank, FirstWave
<1>2. CASE queue = names /\ wave = FirstWave /\ abandoned + k * ReadsEach <= debt
  <2>1. Batch = First /\ First \in SUBSET names
    BY <1>2 DEF Batch, First, Slice
  <2>2. names' \ queue' = First'
    BY <1>1, <1>2, <2>1
  <2>3. /\ IsFiniteSet(Batch) /\ Cardinality(Batch) \in Nat /\ Cardinality(Batch) <= k /\ k \in Nat
    <3>1. Cardinality(Batch) <= Cardinality(names)
      BY <1>0, <2>1, FS_Subset
    <3>2. IsFiniteSet(Batch) /\ Cardinality(Batch) \in Nat /\ Cardinality(Batch) <= wave
      BY <1>0, BatchFull
    <3>3. QED
      BY <1>0, <1>2, <3>1, <3>2 DEF Least
  <2>4. D \in SUBSET (Batch \X (1..ReadsEach))
    <3>1. \A m \in Releases, i \in 1..(Reads + 1) :
             i <= left'[m] => m \in Batch /\ i \in 1..ReadsEach
      BY <1>0, <1>1
    <3>2. QED
      BY <3>1
  <2>5. /\ IsFiniteSet(Batch \X (1..ReadsEach))
        /\ Cardinality(Batch \X (1..ReadsEach)) = Cardinality(Batch) * ReadsEach
    <3>1. IsFiniteSet(1..ReadsEach) /\ Cardinality(1..ReadsEach) = ReadsEach
      BY <1>0, FS_Interval
    <3>2. QED
      BY <2>3, <3>1, FS_Product
  <2>6. Cardinality(D) <= Cardinality(Batch) * ReadsEach
    BY <2>4, <2>5, FS_Subset
  <2>7. Cardinality(Batch) * ReadsEach <= k * ReadsEach
    <3>1. \A a, b, c \in Nat : a <= b => a * c <= b * c
      OBVIOUS
    <3>2. QED
      BY <1>0, <2>3, <3>1
  <2>8. Cardinality(D) \in Nat /\ ReadsLeft' = Cardinality(D)
    BY ReadsDueType DEF ReadsLeft
  <2>9. Cardinality(Batch) * ReadsEach \in Nat /\ k * ReadsEach \in Nat /\ debt \in Nat
    BY <1>0, <2>3 DEF TypeOK
  <2>10. abandoned' + ReadsLeft' <= debt'
    BY <1>0, <1>1, <1>2, <2>6, <2>7, <2>8, <2>9
  <2>11. QED
    BY <1>1, <2>2, <2>10 DEF FirstWavePaid
<1>3. CASE \A n \in First : outcome[n] # "unread"
  <2>1. First \in SUBSET Releases
    BY <1>0 DEF First, Slice
  <2>2. QED
    BY <1>1, <1>3, <2>1 DEF FirstWavePaid
<1>4. QED
  BY <1>1, <1>2, <1>3 DEF FirstWavePaid, InWaves

\* Reads are answered at the expense of what is due.
LEMMA FirstWaveServed ==
    ASSUME WellFormed, WellFormed', EarnedInv, FirstWavePaid, NEW n \in Releases, Reconcile(n)
    PROVE  FirstWavePaid'
<1>0. /\ TypeOK /\ left \in [Releases -> 0..(Reads + 1)] /\ Reads \in Nat
      /\ names \in SUBSET Releases /\ outcome \in [Releases -> Outcomes \cup {"unread"}]
      /\ abandoned \in Nat /\ debt \in Nat
  BY WorkAssumption DEF WellFormed, TypeOK, ListingOK, Kinds
<1>1. /\ left[n] > 0 /\ outcome[n] = "unread"
      /\ pc' = pc /\ names' = names /\ queue' = queue /\ abandoned' = abandoned
      /\ First' = First /\ (debt > 0 => debt' \in {debt, debt - 1})
  BY <1>0 DEF Reconcile, Serve, Fail, waveVars, listingVars, WellFormed, Shape,
              First, Slice, Rank, FirstWave
<1>2. pc = "waiting"
  BY <1>1 DEF EarnedInv, Running, WellFormed, Shape, InWaves, NoReads
<1>3. \E k \in Nat : k < left[n] /\ left' = [left EXCEPT ![n] = k]
  <2>1. CASE Serve(n)
    <3>1. PICK k \in {0, left[n] - 1} : left' = [left EXCEPT ![n] = k]
      BY <2>1 DEF Serve
    <3>2. k \in Nat /\ k < left[n]
      BY <1>0, <1>1, <3>1
    <3>3. QED
      BY <3>1, <3>2
  <2>2. CASE \E e \in ReadFailures : Fail(n, e)
    BY <1>0, <1>1, <2>2 DEF Fail
  <2>3. QED
    BY <2>1, <2>2 DEF Reconcile
<1>4. CASE names \ queue = First /\ abandoned + ReadsLeft <= debt
  <2>1. ReadsLeft' + 1 <= ReadsLeft /\ ReadsLeft \in Nat /\ ReadsLeft' \in Nat
    BY <1>0, <1>3, ReadsDueFall
  <2>2. abandoned' + ReadsLeft' <= debt'
    <3>1. \A a, d, due, due2 \in Nat :
             a + due <= d /\ due2 + 1 <= due => d > 0 /\ a + due2 <= d /\ a + due2 <= d - 1
      OBVIOUS
    <3>2. debt > 0 /\ abandoned + ReadsLeft' <= debt /\ abandoned + ReadsLeft' <= debt - 1
      BY <1>0, <1>4, <2>1, <3>1
    <3>3. debt' \in {debt, debt - 1} /\ abandoned' = abandoned
      BY <1>1, <3>2
    <3>4. QED
      BY <3>2, <3>3
  <2>3. QED
    BY <1>1, <1>2, <1>4, <2>2 DEF FirstWavePaid
<1>5. CASE \A m \in First : outcome[m] # "unread"
  <2>1. \A m \in Releases : outcome[m] # "unread" => outcome'[m] # "unread"
    BY <1>0, <1>1 DEF Reconcile, Serve, Fail
  <2>2. First \in SUBSET Releases
    BY <1>0 DEF First, Slice
  <2>3. QED
    BY <1>1, <1>5, <2>1, <2>2 DEF FirstWavePaid
<1>6. QED
  BY <1>2, <1>4, <1>5 DEF FirstWavePaid, InWaves

\* The other steps leave what is due alone, or lower both sides of it.
LEMMA FirstWaveStep ==
    WellFormed /\ EarnedInv /\ FirstWavePaid /\ [Next]_vars => FirstWavePaid'
<1> SUFFICES ASSUME WellFormed, EarnedInv, FirstWavePaid, [Next]_vars PROVE FirstWavePaid'
  OBVIOUS
<1>0. WellFormed'
  BY WellFormedStep
<1>1. CASE \E refused \in SUBSET Batch : Admit(refused)
  BY <1>0, <1>1, FirstWaveAdmit
<1>2. CASE \E n \in Releases : Reconcile(n)
  BY <1>0, <1>2, FirstWaveServed
<1>3. ASSUME NEW e, ListPods(e) PROVE FirstWavePaid'
  <2>1. /\ wave' = wave /\ wave = FirstWave /\ FirstWave' = FirstWave /\ pc' = "deciding"
        /\ names' = names /\ queue' = names /\ abandoned' = abandoned
        /\ debt' = abandoned + Least(FirstWave, Cardinality(names)) * ReadsEach'
    BY <1>3
       DEF ListPods, NextCall, listingVars, WellFormed, Shape, InWaves, FirstWave
  <2>2. debt' \in Nat
    BY <1>0 DEF WellFormed, TypeOK
  <2>3. debt' <= debt'
    BY <2>2
  <2>4. QED
    BY <2>1, <2>3 DEF FirstWavePaid, Least
<1>4. CASE WaveDone
  <2>1. \A n \in names \ queue : outcome[n] # "unread"
    BY <1>4
       DEF WaveDone, AllDone, Running, EarnedInv, InWaves, WellFormed, TypeOK,
           ListingOK
  <2>2. \A n \in First : outcome[n] # "unread"
    BY <1>4, <2>1 DEF WaveDone, FirstWavePaid, InWaves
  <2>3. First' = First /\ outcome' = outcome
    BY <1>4 DEF WaveDone, listingVars, workVars, First, Slice, Rank, FirstWave
  <2>4. QED
    BY <2>2, <2>3 DEF FirstWavePaid
<1>5. CASE EndAbandoned
  <2>1. /\ {abandoned, debt, abandoned', debt', ReadsLeft} \subseteq Nat
        /\ abandoned' + 1 <= abandoned
        /\ debt > 0 => debt' = debt - 1
    BY <1>5, CountsType DEF EndAbandoned, WellFormed, TypeOK
  <2>2. Least(FirstWave, Cardinality(names)) * ReadsEach \in Nat
    BY CountsType DEF Least, WellFormed
  <2>3. UNCHANGED <<pc, wave, queue, names, outcome, left, podsRaised>>
    BY <1>5 DEF EndAbandoned, listingVars, callVars, waveVars
  <2>4. /\ First' = First /\ ReadsLeft' = ReadsLeft /\ ReadsEach' = ReadsEach
        /\ FirstWave' = FirstWave /\ Cardinality(names)' = Cardinality(names)
    BY <2>3 DEF First, Slice, Rank, FirstWave, ReadsLeft, ReadsEach
  <2>5. CASE pc = "deciding" /\ queue = names /\ wave = FirstWave
             /\ abandoned + Least(FirstWave, Cardinality(names)) * ReadsEach <= debt
    <3>1. abandoned' + Least(FirstWave, Cardinality(names)) * ReadsEach <= debt'
      BY <2>1, <2>2, <2>5
    <3>2. QED
      BY <2>3, <2>4, <2>5, <3>1 DEF FirstWavePaid, Least
  <2>6. CASE pc = "waiting" /\ names \ queue = First /\ abandoned + ReadsLeft <= debt
    <3>1. abandoned' + ReadsLeft <= debt'
      BY <2>1, <2>6
    <3>2. QED
      BY <2>3, <2>4, <2>6, <3>1 DEF FirstWavePaid
  <2>7. CASE ~InWaves \/ \A n \in First : outcome[n] # "unread"
    BY <2>3, <2>4, <2>7 DEF FirstWavePaid, InWaves
  <2>8. QED
    BY <2>5, <2>6, <2>7 DEF FirstWavePaid
<1>6. CASE pc' \notin {"deciding", "waiting"}
  BY <1>6 DEF FirstWavePaid, InWaves
<1>7. CASE UNCHANGED <<pc, wave, queue, names, outcome, left, podsRaised, abandoned, debt>>
  BY <1>7
     DEF FirstWavePaid, InWaves, First, Slice, Rank, FirstWave, ReadsLeft,
         ReadsEach, Least
<1>8. QED
  BY <1>1, <1>2, <1>3, <1>4, <1>5, <1>6, <1>7
     DEF Next, List, Waves, Begin, AskTools, ReadPage, ListReleases, ListingFails, Account, Answer,
         ProbeDone, Changes, Tick, NextCall, vars, listingVars, callVars, waveVars, workVars

\* Once the cluster has served what the first wave and all leftovers need, in
\* whatever order, the first wave is through: no number of releases, workers or
\* abandoned reconciles starves a scrape of its first results.
THEOREM FirstWaveGetsThrough == Spec => []FirstWaveIsNotStarved
<1>1. Init => WellFormed /\ EarnedInv /\ FirstWavePaid
  <2>1. ASSUME Init PROVE EarnedInv /\ FirstWavePaid
    <3>1. wave = FirstWave /\ FirstWave <= FirstWave /\ FirstWave <= Workers /\ pc = "idle"
      BY <2>1, WellFormedInit, CountsType DEF WellFormed, Init
    <3>2. QED
      BY <3>1 DEF EarnedInv, FirstWavePaid, InWaves
  <2>2. QED
    BY <2>1, WellFormedInit
<1>2. WellFormed /\ EarnedInv /\ FirstWavePaid /\ [Next]_vars
      => (WellFormed /\ EarnedInv /\ FirstWavePaid)'
  BY WellFormedStep, EarnedStep, FirstWaveStep
<1>3. WellFormed /\ EarnedInv /\ FirstWavePaid => FirstWaveIsNotStarved
  <2>1. SUFFICES ASSUME WellFormed, EarnedInv, FirstWavePaid, pc = "waiting", debt = 0,
                        NEW n \in names, Rank(names, n) <= FirstWave
                 PROVE  outcome[n] # "unread"
    BY DEF FirstWaveIsNotStarved
  <2>2. n \in First
    <3>1. Ordered(names)
      BY <2>1, ReleasesAssumption, FS_Subset
         DEF WellFormed, TypeOK, ListingOK, Ordered
    <3>2. Rank(names, n) \in Nat \ {0}
      BY <3>1, RankType
    <3>3. QED
      BY <2>1, <3>2, CountsType DEF First, Slice, WellFormed
  <2>3. CASE \A m \in First : outcome[m] # "unread"
    BY <2>2, <2>3
  <2>4. CASE names \ queue = First /\ abandoned + ReadsLeft <= debt
    <3>1. ReadsLeft = 0
      BY <2>1, <2>4, CountsType DEF WellFormed, TypeOK
    <3>2. ReadsDue = {}
      BY <3>1, ReadsDueType, FS_EmptySet DEF ReadsLeft, ReadsDue
    <3>3. n \in Releases /\ left[n] \in 0..(Reads + 1) /\ Reads \in Nat
      BY <2>1, WorkAssumption DEF WellFormed, TypeOK, ListingOK
    <3>4. left[n] = 0
      <4>1. left[n] # 0 => <<n, left[n]>> \in ReadsDue
        BY <3>3 DEF ReadsDue
      <4>2. QED
        BY <3>2, <4>1
    <3>5. QED
      BY <2>1, <2>2, <2>4, <3>4 DEF EarnedInv, InWaves
  <2>5. QED
    BY <2>1, <2>3, <2>4 DEF FirstWavePaid, InWaves
<1>4. QED
  BY <1>1, <1>2, <1>3, PTL DEF Spec
=============================================================================
