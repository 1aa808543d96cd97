------------------------------ MODULE Coverage ------------------------------
(***************************************************************************)
(* What one scrape promises about the releases it listed (ADR-0014): each  *)
(* of them is accounted for, as reported when it was read during this very *)
(* scrape, as late when it was not, or with the reason its reading failed. *)
(* A scrape that could not list the releases says nothing about any.  How  *)
(* the reading is scheduled is Scrape, which implements this.              *)
(***************************************************************************)
CONSTANTS
    Releases,   \* the names a release may have
    Outcomes,   \* what reading a release can come to, Reported among them
    Reasons,    \* why a release can be unreported, Late among them
    Unread,     \* it has not been read yet
    Late,       \* the reason of a release that was not read in time
    Reported    \* it was read to the end, and its series were emitted

VARIABLES
    listed,     \* the releases this scrape listed
    outcome,    \* what this scrape has read of each
    account     \* what the scrape says of each

vars == <<listed, outcome, account>>

Nothing == [n \in Releases |-> Unread]

Init == listed = {} /\ outcome = Nothing /\ account = Nothing

\* A scrape lists the releases before it reads any.
List ==
    /\ outcome = Nothing /\ account = Nothing
    /\ listed' \in SUBSET Releases
    /\ UNCHANGED <<outcome, account>>

\* Listed releases are read, each once and before the account is given.
Read ==
    /\ account = Nothing
    /\ outcome' \in [Releases -> Outcomes \cup {Unread}]
    /\ \A n \in Releases :
          outcome'[n] # outcome[n] => n \in listed /\ outcome[n] = Unread
    /\ UNCHANGED <<listed, account>>

\* What the answer may say of a listed release that came to o.
Fits(word, o) ==
    /\ word = Reported <=> o = Reported
    /\ word = Late <=> o = Unread
    /\ word \in Reasons \cup {Reported}

Account ==
    /\ account = Nothing
    /\ account' \in [Releases -> Reasons \cup {Reported, Unread}]
    /\ \A n \in Releases :
          IF n \in listed THEN Fits(account'[n], outcome[n]) ELSE account'[n] = Unread
    /\ UNCHANGED <<listed, outcome>>

\* The next scrape knows nothing of this one.
Forget == listed' = {} /\ outcome' = Nothing /\ account' = Nothing

Next == List \/ Read \/ Account \/ Forget

Spec == Init /\ [][Next]_vars
=============================================================================
