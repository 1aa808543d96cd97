------------------------------ MODULE Listing ------------------------------
(***************************************************************************)
(* list_releases (deploy.py): every release name of the context, read in   *)
(* pages by offset over helm's alphabetical order, while releases come and *)
(* go between two pages.  Releases are numbered in that order.             *)
(***************************************************************************)
EXTENDS Naturals, FiniteSets

CONSTANTS
    Releases,       \* the names a release may have
    PageSize,       \* LIST_PAGE
    MaxRemovals     \* bound of the model: releases that go during one listing

ASSUME ReleasesAssumption == Releases \subseteq Nat /\ IsFiniteSet(Releases)
ASSUME PageAssumption == PageSize \in Nat \ {0} /\ MaxRemovals \in Nat

VARIABLES
    installed,      \* the releases of the context, followed only while they are listed
    names,          \* what the pages read so far have named
    offset,         \* where the next page starts
    standing,       \* releases that have been there since the listing began
    removals        \* how many releases have gone since

listingVars == <<installed, names, offset, standing, removals>>

-----------------------------------------------------------------------------

Rank(S, n) == Cardinality({m \in S : m <= n})

\* The elements of S at positions from + 1 to from + size.
Slice(S, from, size) == {n \in S : from < Rank(S, n) /\ Rank(S, n) <= from + size}

Page == Slice(installed, offset, PageSize)

ListingInit ==
    /\ installed = {} /\ names = {} /\ standing = {}
    /\ offset = 0 /\ removals = 0

StartListing ==
    /\ installed' \in SUBSET Releases
    /\ standing' = installed'
    /\ names' = {}
    /\ offset' = 0
    /\ removals' = 0

ByOne(from)    == from + PageSize + 1
NextPage(from) == from + PageSize

FullPage ==
    /\ Cardinality(Page) >= PageSize
    /\ names' = names \cup Page
    /\ offset' = NextPage(offset)
    /\ UNCHANGED <<installed, standing, removals>>

\* What is there is not looked at again until the next listing.
ShortPage ==
    /\ Cardinality(Page) < PageSize
    /\ names' = names \cup Page
    /\ offset' = 0
    /\ installed' = {}
    /\ standing' = {}
    /\ removals' = 0

GiveUpListing ==
    /\ names' = {}
    /\ offset' = 0
    /\ installed' = {}
    /\ standing' = {}
    /\ removals' = 0

\* Someone else's helm install or uninstall, between two pages.
Install(n) ==
    /\ n \notin installed
    /\ installed' = installed \cup {n}
    /\ UNCHANGED <<names, offset, standing, removals>>

Remove(n) ==
    /\ n \in installed
    /\ removals < MaxRemovals
    /\ installed' = installed \ {n}
    /\ standing' = standing \ {n}
    /\ removals' = removals + 1
    /\ UNCHANGED <<names, offset>>

ListingOK ==
    /\ installed \in SUBSET Releases
    /\ names \in SUBSET Releases
    /\ standing \in SUBSET Releases
    /\ offset \in Nat
    /\ removals \in Nat
=============================================================================
