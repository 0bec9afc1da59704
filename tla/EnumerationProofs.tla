------------------------- MODULE EnumerationProofs -------------------------
(* What the walk over the pages finds, for fleets and pages of any size.     *)
EXTENDS Enumeration, TLAPS

-----------------------------------------------------------------------------
(* Sequences.                                                                *)

(* What is inserted is at its place, what was behind it has moved by one.    *)
LEMMA Insertion ==
    ASSUME NEW S, NEW s \in Seq(S), NEW e \in S, NEW i \in 1..(Len(s) + 1)
    PROVE  /\ InsertAt(s, i, e) \in Seq(S)
           /\ Len(InsertAt(s, i, e)) = Len(s) + 1
           /\ \A j \in 1..(Len(s) + 1) :
                  InsertAt(s, i, e)[j] =
                      IF j < i THEN s[j] ELSE IF j = i THEN e ELSE s[j - 1]
<1> DEFINE before == SubSeq(s, 1, i - 1)
           after == SubSeq(s, i, Len(s))
<1>1. /\ before \in Seq(S) /\ Len(before) = i - 1
      /\ \A j \in 1..(i - 1) : before[j] = s[j]
  OBVIOUS
<1>2. /\ after \in Seq(S) /\ Len(after) = Len(s) - i + 1
      /\ \A j \in 1..(Len(s) - i + 1) : after[j] = s[i + j - 1]
  OBVIOUS
<1>3. <<e>> \in Seq(S) /\ Len(<<e>>) = 1 /\ <<e>>[1] = e
  OBVIOUS
<1> DEFINE front == before \o <<e>>
<1>4. /\ front \in Seq(S) /\ Len(front) = i
      /\ \A j \in 1..i : front[j] = IF j < i THEN s[j] ELSE e
  <2> HIDE DEF before
  <2> QED BY <1>1, <1>3
<1>5. InsertAt(s, i, e) = front \o after
  BY DEF InsertAt
<1> HIDE DEF front, after
<1>6. front \o after \in Seq(S) /\ Len(front \o after) = Len(s) + 1
  BY <1>2, <1>4
<1>7. ASSUME NEW j \in 1..(Len(s) + 1)
      PROVE  (front \o after)[j] = IF j < i THEN s[j] ELSE IF j = i THEN e ELSE s[j - 1]
  <2>0. j <= i \/ j > i
    OBVIOUS
  <2>1. CASE j <= i
    <3>1. (front \o after)[j] = front[j]
      BY <1>2, <1>4, <2>1
    <3> QED BY <1>4, <2>1, <3>1
  <2>2. CASE j > i
    <3>1. (front \o after)[j] = after[j - i]
      BY <1>2, <1>4, <2>2
    <3>2. PICK k \in 1..(Len(s) - i + 1) : k = j - i
      BY <2>2
    <3>3. i + k - 1 = j - 1 /\ ~(j < i) /\ j # i
      BY <2>2, <3>2
    <3>4. after[k] = s[i + k - 1]
      BY <1>2
    <3> QED BY <3>1, <3>2, <3>3, <3>4
  <2> QED BY <2>0, <2>1, <2>2
<1> QED BY <1>5, <1>6, <1>7

(* What is left when one is removed is a sequence over the same set.         *)
LEMMA Removal ==
    ASSUME NEW S, NEW s \in Seq(S), NEW i \in 1..Len(s)
    PROVE  RemoveAt(s, i) \in Seq(S)
<1>1. SubSeq(s, 1, i - 1) \in Seq(S)
  OBVIOUS
<1>2. SubSeq(s, i + 1, Len(s)) \in Seq(S)
  OBVIOUS
<1> QED BY <1>1, <1>2 DEF RemoveAt

-----------------------------------------------------------------------------
(* The walk.                                                                 *)

(* While nothing was deleted, what the forge has shown since the walk began  *)
(* is still there, and its part in front of the next page has been seen.     *)
Covered ==
    walk = "page" /\ ~disturbed =>
        /\ steady \subseteq ToSet(fleet)
        /\ \A i \in 1..Len(fleet) :
               i <= (page - 1) * PageSize /\ fleet[i] \in steady => fleet[i] \in seen

(* An answer that shows too little ends the walk.                            *)
Truthful == walk = "page" => ~lied

WalkInv == WalkTypeOK /\ Covered /\ Truthful /\ Complete

LEMMA FleetsTyped == ASSUME NEW s \in Fleets PROVE s \in Seq(Repos)
<1>1. PICK n \in 0..Cardinality(Repos) : s \in [1..n -> Repos]
  BY DEF Fleets
<1>2. n \in Nat
  OBVIOUS
<1> QED BY <1>1, <1>2

(* The pages cover the listing without a gap.                                *)
LEMMA BatchIs ==
    ASSUME WalkTypeOK, NEW i \in 1..Len(fleet),
           (page - 1) * PageSize < i, i <= (page - 1) * PageSize + PageSize
    PROVE  fleet[i] \in ToSet(Batch)
<1> DEFINE first == (page - 1) * PageSize
           last == IF first + PageSize <= Len(fleet) THEN first + PageSize ELSE Len(fleet)
<1>1. /\ first \in Nat /\ last \in Nat /\ PageSize \in Nat
      /\ Len(fleet) \in Nat /\ first < i /\ i <= last /\ last <= Len(fleet)
  BY PageAssumption DEF WalkTypeOK
<1>2. Batch = SubSeq(fleet, first + 1, last)
  BY DEF Batch
<1> HIDE DEF first, last
<1>3. PICK k \in 1..(last - first) : first + k = i
  BY <1>1
<1>4. Len(Batch) = last - first /\ Batch[k] = fleet[first + 1 + k - 1]
  BY <1>1, <1>2, <1>3 DEF WalkTypeOK
<1>5. Batch \in Seq(Repos)
  BY <1>1, <1>2 DEF WalkTypeOK
<1>6. k \in DOMAIN Batch /\ Batch[k] = fleet[i]
  BY <1>1, <1>3, <1>4, <1>5
<1> QED BY <1>6 DEF ToSet

(* The part of the listing in front of the next page grows by a page.        *)
LEMMA NextBound ==
    ASSUME WalkTypeOK, page' = page + 1
    PROVE  (page' - 1) * PageSize = (page - 1) * PageSize + PageSize
<1>1. page \in Nat /\ PageSize \in Nat
  BY PageAssumption DEF WalkTypeOK
<1> QED BY <1>1

LEMMA BatchTyped == WalkTypeOK => Batch \in Seq(Repos) /\ ToSet(Batch) \subseteq Repos
<1> SUFFICES ASSUME WalkTypeOK PROVE Batch \in Seq(Repos) /\ ToSet(Batch) \subseteq Repos
  OBVIOUS
<1> DEFINE first == (page - 1) * PageSize
           last == IF first + PageSize <= Len(fleet) THEN first + PageSize ELSE Len(fleet)
<1>1. first \in Nat /\ last \in Nat /\ last <= Len(fleet)
  BY PageAssumption DEF WalkTypeOK
<1>2. Batch = SubSeq(fleet, first + 1, last)
  BY DEF Batch
<1> HIDE DEF first, last
<1>3. Batch \in Seq(Repos)
  BY <1>1, <1>2 DEF WalkTypeOK
<1> QED BY <1>3 DEF ToSet

(* A page that is not full reaches the end of the listing.                   *)
LEMMA ShortPage ==
    ASSUME WalkTypeOK, Ends(Batch)
    PROVE  Len(fleet) <= (page - 1) * PageSize + PageSize
<1> DEFINE first == (page - 1) * PageSize
<1>1. first \in Nat /\ PageSize \in Nat \ {0} /\ Len(fleet) \in Nat /\ fleet \in Seq(Repos)
  BY PageAssumption DEF WalkTypeOK
<1> SUFFICES ASSUME ~(Len(fleet) <= first + PageSize) PROVE FALSE
  OBVIOUS
<1>2. Batch = SubSeq(fleet, first + 1, first + PageSize)
  BY <1>1 DEF Batch
<1> HIDE DEF first
<1>3. Len(Batch) = PageSize
  BY <1>1, <1>2
<1> QED BY <1>1, <1>3 DEF Ends

-----------------------------------------------------------------------------
(* One lemma per kind of step.                                               *)

LEMMA WalkStarts == WalkInit => WalkInv
<1> SUFFICES ASSUME WalkInit PROVE WalkInv
  OBVIOUS
<1>1. WalkTypeOK
  <2>1. disturbed \in BOOLEAN /\ lied \in BOOLEAN
    BY Zenon DEF WalkInit
  <2> QED BY <2>1, FleetsTyped, ChangesAssumption DEF WalkInit, WalkTypeOK
<1>2. Covered /\ Truthful /\ Complete
  BY DEF WalkInit, Covered, Truthful, Complete
<1> QED BY <1>1, <1>2 DEF WalkInv

(* What is created moves the listing, but shows nothing that was there       *)
(* already behind the next page.                                             *)
LEMMA CreationKeeps ==
    ASSUME WalkInv, NEW r \in Repos, NEW i \in 1..(Len(fleet) + 1), Created(r, i)
    PROVE  WalkInv'
<1> USE DEF Created
<1>1. /\ fleet \in Seq(Repos) /\ Len(fleet) \in Nat
      /\ WalkTypeOK
  BY DEF WalkInv, WalkTypeOK
<1>2. /\ fleet' \in Seq(Repos) /\ Len(fleet') = Len(fleet) + 1
      /\ \A j \in 1..(Len(fleet) + 1) :
             fleet'[j] = IF j < i THEN fleet[j] ELSE IF j = i THEN r ELSE fleet[j - 1]
  BY <1>1, Insertion
<1>3. WalkTypeOK'
  BY <1>1, <1>2, ChangesAssumption DEF WalkTypeOK
<1>4. Covered'
  <2> SUFFICES ASSUME walk = "page", ~disturbed
               PROVE  /\ steady \subseteq ToSet(fleet')
                      /\ \A j \in 1..Len(fleet') :
                             j <= (page - 1) * PageSize /\ fleet'[j] \in steady => fleet'[j] \in seen
    BY DEF Covered
  <2>1. /\ steady \subseteq ToSet(fleet)
        /\ \A j \in 1..Len(fleet) :
               j <= (page - 1) * PageSize /\ fleet[j] \in steady => fleet[j] \in seen
    BY DEF WalkInv, Covered
  <2>2. ASSUME NEW x \in steady PROVE x \in ToSet(fleet')
    <3>1. PICK k \in 1..Len(fleet) : fleet[k] = x
      BY <1>1, <2>1 DEF ToSet
    <3>2. CASE k < i
      <4>1. k \in 1..(Len(fleet) + 1) /\ fleet'[k] = x
        BY <1>1, <1>2, <3>1, <3>2
      <4> QED BY <1>1, <1>2, <4>1 DEF ToSet
    <3>3. CASE ~(k < i)
      <4>1. /\ k + 1 \in 1..(Len(fleet) + 1)
            /\ ~(k + 1 < i) /\ k + 1 # i /\ (k + 1) - 1 = k
        BY <1>1, <3>3
      <4>2. fleet'[k + 1] = x
        BY <1>2, <3>1, <4>1
      <4> QED BY <1>1, <1>2, <4>1, <4>2 DEF ToSet
    <3> QED BY <3>2, <3>3
  <2>3. ASSUME NEW j \in 1..Len(fleet'),
               j <= (page - 1) * PageSize, fleet'[j] \in steady
        PROVE  fleet'[j] \in seen
    <3>0. /\ (page - 1) * PageSize \in Nat /\ j \in 1..(Len(fleet) + 1)
      BY <1>1, <1>2, PageAssumption DEF WalkTypeOK
    <3>1. CASE j < i
      <4>1. j \in 1..Len(fleet) /\ fleet'[j] = fleet[j]
        BY <1>1, <1>2, <3>0, <3>1
      <4> QED BY <2>1, <2>3, <4>1
    <3>2. CASE j = i
      <4>1. fleet'[j] = r
        BY <1>2, <3>0, <3>2
      <4> QED BY <2>1, <2>3, <4>1
    <3>3. CASE j > i
      <4>1. j - 1 \in 1..Len(fleet) /\ j - 1 <= (page - 1) * PageSize
        BY <1>1, <2>3, <3>0, <3>3
      <4>2. fleet'[j] = fleet[j - 1]
        BY <1>1, <1>2, <3>0, <3>3
      <4> QED BY <2>1, <2>3, <4>1, <4>2
    <3> QED BY <1>1, <3>0, <3>1, <3>2, <3>3
  <2> QED BY <2>2, <2>3
<1>5. Truthful' /\ Complete'
  BY DEF WalkInv, Truthful, Complete
<1> QED BY <1>3, <1>4, <1>5 DEF WalkInv

LEMMA DeletionKeeps ==
    ASSUME WalkInv, NEW i \in 1..Len(fleet), Deleted(i)
    PROVE  WalkInv'
<1> USE DEF Deleted
<1>1. fleet' \in Seq(Repos)
  BY Removal DEF WalkInv, WalkTypeOK
<1>2. WalkTypeOK'
  BY <1>1, ChangesAssumption DEF WalkInv, WalkTypeOK
<1>3. Covered'
  BY DEF WalkInv, WalkTypeOK, Covered
<1>4. Truthful' /\ Complete'
  BY DEF WalkInv, WalkTypeOK, Truthful, Complete
<1> QED BY <1>2, <1>3, <1>4 DEF WalkInv

LEMMA BeginKeeps == WalkInv /\ BeginWalk => WalkInv'
<1> SUFFICES ASSUME WalkInv, BeginWalk PROVE WalkInv'
  OBVIOUS
<1> USE DEF BeginWalk, forgeVars
<1>1. fleet \in Seq(Repos) /\ ToSet(fleet) \subseteq Repos
  BY DEF WalkInv, WalkTypeOK, ToSet
<1>2. WalkTypeOK'
  <2>1. disturbed' \in BOOLEAN /\ lied' \in BOOLEAN
    BY Zenon
  <2> QED BY <1>1, <2>1 DEF WalkInv, WalkTypeOK
<1>3. Covered'
  <2>1. (page' - 1) * PageSize = 0
    BY PageAssumption
  <2>2. \A i \in 1..Len(fleet) : ~(i <= 0)
    BY <1>1
  <2> QED BY <2>1, <2>2 DEF Covered
<1>4. Truthful' /\ Complete'
  BY DEF WalkInv, Truthful, Complete
<1> QED BY <1>2, <1>3, <1>4 DEF WalkInv

(* The page is behind what has been seen, and in front of the next one.      *)
LEMMA PageKeeps == WalkInv /\ FullPage => WalkInv'
<1> SUFFICES ASSUME WalkInv, FullPage PROVE WalkInv'
  OBVIOUS
<1> USE DEF FullPage, forgeVars
<1>1. WalkTypeOK
  BY DEF WalkInv
<1>2. WalkTypeOK'
  BY <1>1, BatchTyped DEF WalkTypeOK
<1>3. Covered'
  <2> SUFFICES ASSUME ~disturbed, NEW i \in 1..Len(fleet),
                      i <= (page' - 1) * PageSize, fleet[i] \in steady
               PROVE  fleet[i] \in seen'
    BY DEF WalkInv, Covered
  <2>1. i <= (page - 1) * PageSize + PageSize
    BY <1>1, NextBound
  <2>2. CASE i <= (page - 1) * PageSize
    BY <2>2 DEF WalkInv, Covered
  <2>3. CASE (page - 1) * PageSize < i
    BY <1>1, <2>1, <2>3, BatchIs
  <2>4. (page - 1) * PageSize \in Int
    BY <1>1, PageAssumption DEF WalkTypeOK
  <2> QED BY <2>2, <2>3, <2>4
<1>4. Truthful' /\ Complete'
  BY DEF WalkInv, Truthful, Complete
<1> QED BY <1>2, <1>3, <1>4 DEF WalkInv

(* A short page ends the listing, so nothing is behind it.                   *)
LEMMA LastPageKeeps == WalkInv /\ LastPage => WalkInv'
<1> SUFFICES ASSUME WalkInv, LastPage PROVE WalkInv'
  OBVIOUS
<1> USE DEF LastPage, forgeVars
<1>1. WalkTypeOK
  BY DEF WalkInv
<1>2. WalkTypeOK'
  BY <1>1, BatchTyped DEF WalkTypeOK
<1>3. Covered'
  BY DEF Covered
<1>4. Truthful'
  BY DEF Truthful
<1>5. Complete'
  <2> SUFFICES ASSUME ~disturbed, NEW x \in steady PROVE x \in seen \cup ToSet(Batch)
    BY DEF Complete
  <2>1. PICK i \in 1..Len(fleet) : fleet[i] = x
    BY <1>1 DEF WalkInv, Covered, WalkTypeOK, ToSet
  <2>2. CASE i <= (page - 1) * PageSize
    BY <2>1, <2>2 DEF WalkInv, Covered
  <2>3. CASE (page - 1) * PageSize < i
    <3>1. (page - 1) * PageSize + PageSize \in Int /\ Len(fleet) \in Nat
      BY <1>1, PageAssumption DEF WalkTypeOK
    <3>2. i <= (page - 1) * PageSize + PageSize
      BY <1>1, <3>1, ShortPage
    <3> QED BY <1>1, <2>1, <2>3, <3>2, BatchIs
  <2>4. (page - 1) * PageSize \in Int
    BY <1>1, PageAssumption DEF WalkTypeOK
  <2> QED BY <2>2, <2>3, <2>4
<1> QED BY <1>2, <1>3, <1>4, <1>5 DEF WalkInv

(* A page that falsely ends the listing shows repositories all the same.     *)
LEMMA FaultKeeps == WalkInv /\ ListingFault => WalkInv'
<1> SUFFICES ASSUME WalkInv, ListingFault PROVE WalkInv'
  OBVIOUS
<1>1. PICK k \in 0..(Len(Batch) - 1) :
          live' = (seen \cup ToSet(SubSeq(Batch, 1, k))) \ Hidden
  BY DEF ListingFault
<1>2. Batch \in Seq(Repos)
  BY BatchTyped DEF WalkInv
<1>3. ToSet(SubSeq(Batch, 1, k)) \subseteq Repos
  <2> DEFINE batch == Batch
  <2>1. batch \in Seq(Repos) /\ k \in Nat /\ k <= Len(batch)
    BY <1>2
  <2> HIDE DEF batch
  <2>2. SubSeq(batch, 1, k) \in Seq(Repos)
    BY <2>1
  <2>3. ToSet(SubSeq(batch, 1, k)) \subseteq Repos
    BY <2>2 DEF ToSet
  <2> QED BY <2>3 DEF batch
<1>4. live' \subseteq Repos
  BY <1>1, <1>3 DEF WalkInv, WalkTypeOK
<1>5. lied'
  BY DEF ListingFault
<1>6. lied' \in BOOLEAN
  BY Zenon DEF ListingFault
<1>7. /\ walk' = "listed"
      /\ UNCHANGED <<fleet, changes, page, seen, steady, disturbed>>
  BY DEF ListingFault, forgeVars
<1>8. WalkTypeOK'
  BY <1>4, <1>6, <1>7 DEF WalkInv, WalkTypeOK
<1>9. Covered' /\ Truthful' /\ Complete'
  BY <1>5, <1>7 DEF Covered, Truthful, Complete
<1> QED BY <1>8, <1>9 DEF WalkInv

LEMMA OtherwiseKeeps == WalkInv /\ (WalkOver \/ UNCHANGED walkVars) => WalkInv'
<1>1. ASSUME WalkInv, WalkOver PROVE WalkInv'
  <2>1. disturbed' \in BOOLEAN /\ lied' \in BOOLEAN
    BY <1>1, Zenon DEF WalkOver
  <2> QED BY <1>1, <2>1 DEF WalkOver, forgeVars, WalkInv, WalkTypeOK, Covered,
             Truthful, Complete
<1>2. ASSUME WalkInv, UNCHANGED walkVars PROVE WalkInv'
  BY <1>2 DEF walkVars, WalkInv, WalkTypeOK, Covered, Truthful, Complete
<1> QED BY <1>1, <1>2

LEMMA WalkKeeps == WalkInv /\ [WalkNext]_walkVars => WalkInv'
<1> SUFFICES ASSUME WalkInv, [WalkNext]_walkVars PROVE WalkInv'
  OBVIOUS
<1>1. CASE ForgeChanges
  BY <1>1, CreationKeeps, DeletionKeeps DEF ForgeChanges
<1> QED BY <1>1, BeginKeeps, PageKeeps, LastPageKeeps, FaultKeeps,
           OtherwiseKeeps
           DEF WalkNext
=============================================================================
