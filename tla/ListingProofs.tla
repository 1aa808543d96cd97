---------------------------- MODULE ListingProofs ----------------------------
(***************************************************************************)
(* What a slice of a finite set of numbers has, which is what a page of    *)
(* helm list and a wave of reconciles are.                                 *)
(***************************************************************************)
EXTENDS Listing, FiniteSetTheorems, WellFoundedInduction, TLAPS

\* Every inhabited set of numbers has a least element.
LEMMA LeastElement ==
    ASSUME NEW S \in SUBSET Nat, S # {}
    PROVE  \E m \in S : \A n \in S : m <= n
<1>1. \E m \in S : \A n \in S : ~ (<<n, m>> \in OpToRel(<, Nat))
  BY NatLessThanWellFounded, WFMin
<1>2. PICK m \in S : \A n \in S : ~ (<<n, m>> \in OpToRel(<, Nat))
  BY <1>1
<1>3. ASSUME NEW n \in S PROVE m <= n
  <2>1. ~ (n < m)
    BY <1>2 DEF OpToRel
  <2>2. QED
    BY <2>1
<1>4. QED
  BY <1>3

\* A set of numbers that is followed in its order.
Ordered(S) == S \in SUBSET Nat /\ IsFiniteSet(S)

\* The elements up to one of them are finitely many, and it is among them.
LEMMA RankType ==
    ASSUME NEW S, Ordered(S), NEW n \in S
    PROVE  /\ IsFiniteSet({m \in S : m <= n})
           /\ Rank(S, n) \in Nat \ {0}
<1>1. {m \in S : m <= n} \in SUBSET S /\ n \in {m \in S : m <= n}
  BY DEF Ordered
<1>2. IsFiniteSet({m \in S : m <= n}) /\ {m \in S : m <= n} # {}
  BY <1>1, FS_Subset DEF Ordered
<1>3. QED
  BY <1>2, FS_CardinalityType, FS_EmptySet DEF Rank

\* Later elements have higher ranks.
LEMMA RankGrows ==
    ASSUME NEW S, Ordered(S), NEW m \in S, NEW n \in S, m < n
    PROVE  Rank(S, m) < Rank(S, n)
<1>1. {k \in S : k <= m} \in SUBSET {k \in S : k <= n} /\ {k \in S : k <= m} # {k \in S : k <= n}
  <2>1. \A k \in S : k <= m => k <= n
    BY DEF Ordered
  <2>2. n \in {k \in S : k <= n} /\ n \notin {k \in S : k <= m}
    BY DEF Ordered
  <2>3. QED
    BY <2>1, <2>2
<1>2. IsFiniteSet({k \in S : k <= n})
  BY RankType
<1>3. /\ Cardinality({k \in S : k <= m}) <= Cardinality({k \in S : k <= n})
      /\ Cardinality({k \in S : k <= m}) # Cardinality({k \in S : k <= n})
  BY <1>1, <1>2, FS_Subset
<1>4. QED
  BY <1>3, RankType DEF Rank

\* A slice has no more elements than positions,
LEMMA SliceBound ==
    ASSUME NEW S, Ordered(S), NEW from \in Nat, NEW size \in Nat
    PROVE  /\ Slice(S, from, size) \in SUBSET S
           /\ Ordered(Slice(S, from, size))
           /\ Cardinality(Slice(S, from, size)) \in 0..size
<1> DEFINE T == Slice(S, from, size)
           f == [n \in T |-> Rank(S, n) - from]
<1>1. T \in SUBSET S /\ Ordered(T)
  BY FS_Subset DEF Slice, Ordered
<1>0. \A n \in S : Rank(S, n) \in Nat \ {0}
  BY RankType
<1>2. f \in [T -> 1..size]
  BY <1>0 DEF Slice
<1>3. ASSUME NEW m \in T, NEW n \in T, m # n PROVE f[m] # f[n]
  <2>1. m \in S /\ n \in S /\ (m < n \/ n < m)
    BY <1>1, <1>3 DEF Ordered
  <2>2. Rank(S, m) < Rank(S, n) \/ Rank(S, n) < Rank(S, m)
    BY <2>1, RankGrows
  <2>3. Rank(S, m) \in Nat /\ Rank(S, n) \in Nat
    BY <1>0, <2>1
  <2>4. QED
    BY <2>2, <2>3
<1>4. f \in Injection(T, 1..size)
  BY <1>2, <1>3 DEF Injection, IsInjective
<1>5. IsFiniteSet(1..size) /\ Cardinality(1..size) = size
  BY FS_Interval
<1>6. Cardinality(T) <= size
  BY <1>4, <1>5, FS_Injection
<1>7. QED
  BY <1>1, <1>6, FS_CardinalityType DEF Ordered

\* and one that does not reach the end of the set is full.
LEMMA SliceFull ==
    ASSUME NEW S, Ordered(S), NEW from \in Nat, NEW size \in Nat,
           NEW n \in S, Rank(S, n) > from + size
    PROVE  size <= Cardinality(Slice(S, from, size))
<1> DEFINE Beyond == {k \in S : Rank(S, k) > from + size}
           Before == Slice(S, 0, from)
           T      == Slice(S, from, size)
<1>0. \A j \in S : Rank(S, j) \in Nat \ {0}
  BY RankType
<1>1. PICK k \in Beyond : \A j \in Beyond : k <= j
  <2>1. Beyond \in SUBSET Nat /\ n \in Beyond
    BY DEF Ordered
  <2>2. QED
    BY <2>1, LeastElement
<1>2. {j \in S : j <= k} \in SUBSET (Before \cup T \cup {k})
  <2>1. ASSUME NEW j \in S, j <= k, j # k PROVE j \in Before \cup T
    <3>1. j \notin Beyond
      BY <1>1, <2>1 DEF Ordered
    <3>2. QED
      BY <1>0, <3>1 DEF Slice
  <2>2. QED
    BY <2>1
<1>3. /\ IsFiniteSet(Before) /\ Cardinality(Before) \in 0..from
      /\ IsFiniteSet(T) /\ Cardinality(T) \in Nat
  BY SliceBound, FS_CardinalityType DEF Ordered
<1>4. /\ IsFiniteSet(Before \cup T)
      /\ Cardinality(Before \cup T) \in Nat
      /\ Cardinality(Before \cup T) <= Cardinality(Before) + Cardinality(T)
  <2>1. Cardinality(Before \cap T) \in Nat
    BY <1>3, FS_Intersection, FS_CardinalityType
  <2>2. /\ IsFiniteSet(Before \cup T)
        /\ Cardinality(Before \cup T) =
              Cardinality(Before) + Cardinality(T) - Cardinality(Before \cap T)
    BY <1>3, FS_Union
  <2>3. Cardinality(Before \cup T) \in Nat
    BY <2>2, FS_CardinalityType
  <2>4. QED
    BY <1>3, <2>1, <2>2, <2>3
<1>5. /\ IsFiniteSet(Before \cup T \cup {k})
      /\ Cardinality(Before \cup T \cup {k}) \in Nat
      /\ Cardinality(Before \cup T \cup {k}) <= Cardinality(Before \cup T) + 1
  <2>1. /\ IsFiniteSet(Before \cup T \cup {k})
        /\ Cardinality(Before \cup T \cup {k}) =
              IF k \in Before \cup T THEN Cardinality(Before \cup T)
                                     ELSE Cardinality(Before \cup T) + 1
    BY <1>4, FS_AddElement
  <2>2. QED
    BY <1>4, <2>1
<1>6. Rank(S, k) <= Cardinality(Before \cup T \cup {k})
  BY <1>2, <1>5, FS_Subset DEF Rank
<1>7. Rank(S, k) > from + size /\ Rank(S, k) \in Nat
  BY <1>0, <1>1
<1>8. QED
  BY <1>3, <1>4, <1>5, <1>6, <1>7

\* Without an element, those after it move up by one and no other moves,
LEMMA RankWithout ==
    ASSUME NEW S, Ordered(S), NEW x \in S, NEW n \in S \ {x}
    PROVE  Rank(S \ {x}, n) = IF x < n THEN Rank(S, n) - 1 ELSE Rank(S, n)
<1>1. {m \in S \ {x} : m <= n} = {m \in S : m <= n} \ {x}
  OBVIOUS
<1>2. IsFiniteSet({m \in S : m <= n})
  BY RankType
<1>3. x \in {m \in S : m <= n} <=> x < n
  BY DEF Ordered
<1>4. QED
  BY <1>1, <1>2, <1>3, FS_RemoveElement DEF Rank

\* and with one more, none moves up.
LEMMA RankWith ==
    ASSUME NEW S, Ordered(S), NEW x \in Nat, NEW n \in S
    PROVE  Rank(S, n) <= Rank(S \cup {x}, n)
<1>1. {m \in S : m <= n} \in SUBSET {m \in S \cup {x} : m <= n}
  OBVIOUS
<1>2. Ordered(S \cup {x})
  BY FS_AddElement DEF Ordered
<1>3. IsFiniteSet({m \in S \cup {x} : m <= n})
  BY <1>2, RankType
<1>4. QED
  BY <1>1, <1>3, FS_Subset DEF Rank

-----------------------------------------------------------------------------
(* What the pages miss.                                                    *)

\* Releases that were there all the time, and that the next page is past,
\* though no page has named them.
Hidden == {n \in standing \ names : Rank(installed, n) <= offset}

\* A release is hidden only by one that went.
HiddenByRemovals == standing \subseteq installed /\ Cardinality(Hidden) <= removals

\* What is installed can be ranked, and what is hidden counted.
LEMMA HiddenType ==
    ASSUME ListingOK
    PROVE  /\ Ordered(installed)
           /\ IsFiniteSet(Hidden) /\ Cardinality(Hidden) \in Nat
           /\ \A S \in SUBSET Hidden : Cardinality(S) \in Nat /\ Cardinality(S) <= Cardinality(Hidden)
<1>1. Ordered(installed)
  BY ReleasesAssumption, FS_Subset DEF Ordered, ListingOK
<1>2. Hidden \in SUBSET Releases
  BY DEF Hidden, ListingOK
<1>3. IsFiniteSet(Hidden)
  BY <1>2, ReleasesAssumption, FS_Subset
<1>4. QED
  BY <1>1, <1>3, FS_Subset, FS_CardinalityType

\* The first page begins at the front, so it is past nothing.
LEMMA StartHides == ASSUME StartListing PROVE HiddenByRemovals'
<1>1. Ordered(installed')
  BY ReleasesAssumption, FS_Subset DEF StartListing, Ordered
<1>2. Hidden' = {}
  <2>1. \A n \in installed' : Rank(installed', n) \in Nat \ {0}
    BY <1>1, RankType
  <2>2. \A n \in installed' : Rank(installed, n)' = Rank(installed', n)
    BY DEF Rank
  <2>3. QED
    BY <2>1, <2>2 DEF StartListing, Hidden
<1>3. QED
  BY <1>2, FS_EmptySet DEF StartListing, HiddenByRemovals

\* When nothing is listed, nothing is hidden.
LEMMA GiveUpHides ==
    ASSUME standing' = {}, installed' = {}, removals' = 0
    PROVE  HiddenByRemovals'
<1>1. Hidden' = {}
  BY DEF Hidden
<1>2. QED
  BY <1>1, FS_EmptySet DEF HiddenByRemovals

\* A page names everything between its ends.
LEMMA PageHides ==
    ASSUME ListingOK, HiddenByRemovals, FullPage PROVE HiddenByRemovals'
<1>0. \A n \in installed : Rank(installed, n) \in Nat
  BY HiddenType, RankType
<1>1. ASSUME NEW n \in Hidden' PROVE n \in Hidden
  <2>1. /\ n \in standing \ names /\ n \notin Page /\ n \in installed
        /\ Rank(installed, n)' = Rank(installed, n)
        /\ Rank(installed, n)' <= offset + PageSize
    BY <1>1 DEF Hidden, HiddenByRemovals, FullPage, NextPage, Rank
  <2>2. Rank(installed, n) <= offset
    BY <1>0, <2>1, PageAssumption DEF Page, Slice, ListingOK
  <2>3. QED
    BY <2>1, <2>2 DEF Hidden
<1>2. Cardinality(Hidden') <= Cardinality(Hidden) /\ Cardinality(Hidden') \in Nat
  BY <1>1, HiddenType
<1>3. QED
  BY <1>2, HiddenType DEF HiddenByRemovals, FullPage, ListingOK

\* A page that is not full is the last: what it does not name, nothing names.
LEMMA LastPageHides ==
    ASSUME ListingOK, HiddenByRemovals, ShortPage
    PROVE  Cardinality(standing \ names') <= removals
<1>1. \A n \in installed : Rank(installed, n) <= offset + PageSize
  <2>1. SUFFICES ASSUME NEW n \in installed, Rank(installed, n) > offset + PageSize
                 PROVE  FALSE
    <3>1. \A n \in installed : Rank(installed, n) \in Nat
      BY HiddenType, RankType
    <3>2. QED
      BY <3>1, PageAssumption DEF ListingOK
  <2>2. PageSize <= Cardinality(Page)
    BY <2>1, HiddenType, PageAssumption, SliceFull DEF ListingOK, Page
  <2>3. Cardinality(Page) \in Nat
    <3>1. Ordered(installed) /\ offset \in Nat /\ PageSize \in Nat
      BY HiddenType, PageAssumption DEF ListingOK
    <3>2. Cardinality(Slice(installed, offset, PageSize)) \in 0..PageSize
      BY <3>1, SliceBound
    <3>3. QED
      BY <3>1, <3>2 DEF Page
  <2>4. QED
    BY <2>2, <2>3, PageAssumption DEF ShortPage
<1>2. standing \ names' \in SUBSET Hidden
  <2>1. ASSUME NEW n \in standing, n \notin names' PROVE n \in Hidden
    <3>1. n \in installed /\ n \notin Page /\ n \notin names
      BY <2>1 DEF ShortPage, HiddenByRemovals
    <3>2. Rank(installed, n) \in Nat
      BY <3>1, HiddenType, RankType
    <3>3. Rank(installed, n) <= offset
      BY <1>1, <3>1, <3>2 DEF Page, Slice, ListingOK
    <3>4. QED
      BY <3>1, <3>3 DEF Hidden
  <2>2. QED
    BY <2>1
<1>3. QED
  BY <1>2, HiddenType DEF HiddenByRemovals, ListingOK

\* An install pushes the others back: the next page meets them again.
LEMMA InstallHides ==
    ASSUME ListingOK, HiddenByRemovals, NEW x \in Releases, Install(x)
    PROVE  HiddenByRemovals'
<1>1. ASSUME NEW n \in Hidden' PROVE n \in Hidden
  <2>1. n \in standing \ names /\ Rank(installed \cup {x}, n) <= offset
    BY <1>1 DEF Hidden, Install
  <2>2. Ordered(installed) /\ Ordered(installed \cup {x}) /\ x \in Nat /\ n \in installed
    BY <2>1, HiddenType, ReleasesAssumption, FS_AddElement
       DEF Ordered, HiddenByRemovals
  <2>3. Rank(installed, n) \in Nat /\ Rank(installed \cup {x}, n) \in Nat
    BY <2>2, RankType
  <2>4. Rank(installed, n) <= Rank(installed \cup {x}, n)
    BY <2>2, RankWith
  <2>5. QED
    BY <2>1, <2>3, <2>4 DEF Hidden, ListingOK
<1>2. Cardinality(Hidden') \in Nat /\ Cardinality(Hidden') <= Cardinality(Hidden)
  BY <1>1, HiddenType
<1>3. QED
  BY <1>2, HiddenType DEF HiddenByRemovals, Install, ListingOK

\* A removal pulls one release at most past the start of the next page.
LEMMA RemoveHides ==
    ASSUME ListingOK, HiddenByRemovals, NEW x \in Releases, Remove(x)
    PROVE  HiddenByRemovals'
<1> DEFINE Pulled == {n \in installed : Rank(installed, n) = offset + 1}
<1>0. Ordered(installed) /\ \A n \in installed : Rank(installed, n) \in Nat
  BY HiddenType, RankType
<1>1. ASSUME NEW m \in Pulled, NEW n \in Pulled PROVE m = n
  <2>0. m \in installed /\ n \in installed /\ Rank(installed, m) = Rank(installed, n)
    OBVIOUS
  <2>1. m \in Nat /\ n \in Nat /\ ~(m < n) /\ ~(n < m)
    <3>1. m < n => Rank(installed, m) < Rank(installed, n)
      BY <1>0, <2>0, RankGrows
    <3>2. n < m => Rank(installed, n) < Rank(installed, m)
      BY <1>0, <2>0, RankGrows
    <3>3. m \in Nat /\ n \in Nat
      BY <1>0, <2>0 DEF Ordered
    <3>4. QED
      BY <1>0, <2>0, <3>1, <3>2, <3>3
  <2>2. QED
    BY <2>1
<1>2. ASSUME NEW n \in Hidden' PROVE n \in Hidden \/ n \in Pulled
  <2>1. /\ n \in standing \ names /\ n \in installed \ {x} /\ x \in installed
        /\ Rank(installed \ {x}, n) <= offset
    BY <1>2 DEF Hidden, HiddenByRemovals, Remove
  <2>2. Rank(installed \ {x}, n) = IF x < n THEN Rank(installed, n) - 1 ELSE Rank(installed, n)
    BY <1>0, <2>1, RankWithout
  <2>3. Rank(installed, n) <= offset \/ Rank(installed, n) = offset + 1
    BY <1>0, <2>1, <2>2 DEF ListingOK
  <2>4. QED
    BY <2>1, <2>3 DEF Hidden
<1>3. Cardinality(Hidden') \in Nat /\ Cardinality(Hidden') <= Cardinality(Hidden) + 1
  <2>1. CASE Pulled = {}
    BY <1>2, <2>1, HiddenType
  <2>2. ASSUME NEW m \in Pulled PROVE <1>3!:
    <3>1. Hidden' \in SUBSET (Hidden \cup {m})
      BY <1>1, <1>2, <2>2
    <3>2. /\ IsFiniteSet(Hidden \cup {m}) /\ Cardinality(Hidden \cup {m}) \in Nat
          /\ Cardinality(Hidden \cup {m}) <= Cardinality(Hidden) + 1
      <4>1. /\ IsFiniteSet(Hidden \cup {m})
            /\ Cardinality(Hidden \cup {m}) = IF m \in Hidden THEN Cardinality(Hidden)
                                                             ELSE Cardinality(Hidden) + 1
        BY HiddenType, FS_AddElement
      <4>2. QED
        BY <4>1, HiddenType
    <3>3. IsFiniteSet(Hidden') /\ Cardinality(Hidden') <= Cardinality(Hidden \cup {m})
      BY <3>1, <3>2, FS_Subset
    <3>4. Cardinality(Hidden') \in Nat
      BY <3>3, FS_CardinalityType
    <3>5. QED
      BY <3>2, <3>3, <3>4, HiddenType
  <2>3. QED
    BY <2>1, <2>2
<1>4. standing' \subseteq installed' /\ removals' = removals + 1 /\ removals \in Nat
  BY DEF Remove, HiddenByRemovals, ListingOK
<1>5. QED
  BY <1>3, <1>4, HiddenType DEF HiddenByRemovals
=============================================================================
