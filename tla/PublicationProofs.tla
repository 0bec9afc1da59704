------------------------- MODULE PublicationProofs -------------------------
(***************************************************************************)
(* Theorems about the publication protocol for any set of payload names and *)
(* of cycle IDs, any retention, and any number of cycles and of faults.     *)
(***************************************************************************)
EXTENDS Publication, TLAPS

(* What the program writes is one of the objects TypeOK allows. *)
LEMMA BodyTyped ==
    ASSUME TypeOK
    PROVE  Body \in Bodies /\ Body \in Objects
BY DEF TypeOK, Body, Objects, Bodies

(* An empty set of keys is a dataset, all of whose objects are absent. *)
LEMMA NothingTyped == Nothing \in Datasets
BY DEF Nothing, Datasets, Objects

(* So are the fixed keys and cycles that the first start may find. *)
LEMMA LegacyTyped == Legacy \in Objects /\ EarlierBody \in Objects
BY CycleIdsAssumption, NumbersAssumption
   DEF Legacy, EarlierBody, Objects, Bodies

(* What a GET returns, a payload or nothing, may be written elsewhere. *)
LEMMA ObjectsTyped ==
    ASSUME NEW f \in Datasets, NEW n \in Names
    PROVE  f[n] \in Objects
BY DEF Datasets

(* One PUT or DELETE of a fixed key leaves a dataset. *)
LEMMA PutTyped ==
    ASSUME NEW f \in Datasets, NEW n, NEW b \in Objects
    PROVE  [f EXCEPT ![n] = b] \in Datasets
BY DEF Datasets

(* One PUT or DELETE below cycles/ leaves a dataset under every ID. *)
LEMMA StagePutTyped ==
    ASSUME NEW s \in [CycleIds -> Datasets], NEW c, NEW n, NEW b \in Objects
    PROVE  [s EXCEPT ![c][n] = b] \in [CycleIds -> Datasets]
BY PutTyped

(* A deletion leaves what TypeOK allows under a key. *)
LEMMA NoneTyped == None \in Objects
BY DEF Objects

(* A failed call or a crash is counted within its bound. *)
LEMMA FaultTyped ==
    ASSUME TypeOK, Fault
    PROVE  faults' \in 0 .. MaxFaults
BY NumbersAssumption DEF TypeOK, Fault

(* Both counts start within their bounds. *)
LEMMA ZeroTyped == 0 \in 0 .. MaxRuns /\ 0 \in 0 .. MaxFaults
BY NumbersAssumption

(* Whatever the exporter finds on its first start is well typed. *)
LEMMA TypeInit == Init => TypeOK
<1> SUFFICES ASSUME Init PROVE TypeOK
  OBVIOUS
<1>1. NoCycles \in [CycleIds -> Datasets]
  BY NothingTyped DEF NoCycles
<1>2. CASE StartWithout
  <2>1. fixed \in Datasets
    BY <1>2, NothingTyped, LegacyTyped DEF StartWithout, Datasets
  <2> QED
    BY <1>1, <1>2, <2>1, NothingTyped, ZeroTyped
       DEF StartWithout, Init, TypeOK, Steps, Callers, Outcomes
<1>3. CASE StartWith
  <2>1. fixed \in Datasets
    BY <1>3, LegacyTyped DEF StartWith, Datasets
  <2>2. PICK cycle \in [Names -> {EarlierBody, None}]
                       \cup {[[n \in Names |-> EarlierBody] EXCEPT ![Meta] = Legacy]} :
          staged = [NoCycles EXCEPT ![Earlier] = cycle]
    BY <1>3 DEF StartWith
  <2>3. cycle \in Datasets
    BY LegacyTyped DEF Datasets, Objects
  <2>4. staged \in [CycleIds -> Datasets]
    BY <1>1, <2>2, <2>3
  <2> QED
    BY <1>3, <2>1, <2>4, NothingTyped, ZeroTyped, CycleIdsAssumption
       DEF StartWith, Init, TypeOK, Steps, Callers, Outcomes
<1> QED
  BY <1>2, <1>3 DEF Init

(* Every step of the protocol keeps the types; a repair does because its   *)
(* pointer is usable, a part of ProtocolInv.                                *)
LEMMA TypeStep ==
    ASSUME TypeOK, ProtocolInv, [Next]_vars
    PROVE  TypeOK'
<1> USE NumbersAssumption DEF Steps, Callers, Outcomes, bucket
<1>1. CASE BeginCycle
  BY <1>1 DEF BeginCycle, TypeOK
<1>2. CASE RecoverReads
  BY <1>2 DEF RecoverReads, Resume, PointerUsable, Whole, TypeOK
<1>3. CASE RecoverRepairs
  BY <1>3 DEF RecoverRepairs, attempt, TypeOK
<1>4. CASE RecoverFails
  <2>1. faults' \in 0 .. MaxFaults
    BY <1>4, FaultTyped DEF RecoverFails
  <2>2. fixed' \in Datasets
    <3>1. CASE fixed' = fixed
      BY <3>1 DEF TypeOK
    <3>2. ASSUME NEW n \in MetaLast(todo), fixed' = [fixed EXCEPT ![n] = staged[pointer][n]], pc = "repair"
          PROVE  fixed' \in Datasets
      BY <3>2, ObjectsTyped, PutTyped
         DEF MetaLast, ProtocolInv, PointerUsable, TypeOK
    <3> QED
      BY <1>4, <3>1, <3>2 DEF RecoverFails
  <2> QED
    BY <1>4, <2>1, <2>2 DEF RecoverFails, attempt, TypeOK
<1>5. ASSUME NEW n \in Names, RepairPut(n) PROVE TypeOK'
  BY <1>5, ObjectsTyped, PutTyped
     DEF RepairPut, LoopOver, Resume, MetaLast, ProtocolInv, PointerUsable,
         TypeOK
<1>6. ASSUME NEW how \in {"failed", "withheld"}, CollectEnds(how) PROVE TypeOK'
  BY <1>6 DEF CollectEnds, attempt, TypeOK
<1>7. ASSUME NEW id \in CycleIds, Mint(id) PROVE TypeOK'
  BY <1>7 DEF Mint, TypeOK
<1>8. CASE TakeSnapshot
  BY <1>8 DEF TakeSnapshot, TypeOK
<1>9. CASE CollisionCheck
  BY <1>9 DEF CollisionCheck, attempt, Collision, Payloads, TypeOK
<1>10. ASSUME NEW n \in Names, StagePut(n) PROVE TypeOK'
  BY <1>10, BodyTyped, StagePutTyped
     DEF StagePut, LoopOver, attempt, Body, TypeOK
<1>11. ASSUME NEW n \in Names, MirrorPut(n) PROVE TypeOK'
  BY <1>11, BodyTyped, PutTyped
     DEF MirrorPut, LoopOver, attempt, MetaLast, Body, TypeOK
<1>12. CASE CommitPut
  BY <1>12 DEF CommitPut, AfterCommit, attempt, TypeOK
<1>13. CASE BeforeMirrorFails
  <2>1. faults' \in 0 .. MaxFaults
    BY <1>13, FaultTyped DEF BeforeMirrorFails
  <2>2. staged' \in [CycleIds -> Datasets]
    <3>1. CASE staged' = staged
      BY <3>1 DEF TypeOK
    <3>2. ASSUME NEW n \in todo, staged' = [staged EXCEPT ![cur][n] = Body]
          PROVE  staged' \in [CycleIds -> Datasets]
      BY <3>2, BodyTyped, StagePutTyped DEF TypeOK
    <3> QED
      BY <1>13, <3>1, <3>2 DEF BeforeMirrorFails
  <2> QED
    BY <1>13, <2>1, <2>2 DEF BeforeMirrorFails, attempt, TypeOK
<1>14. CASE MirrorFails
  <2>1. faults' \in 0 .. MaxFaults
    BY <1>14, FaultTyped DEF MirrorFails
  <2>2. fixed' \in Datasets
    <3>1. CASE fixed' = fixed
      BY <3>1 DEF TypeOK
    <3>2. ASSUME NEW n \in MetaLast(todo), fixed' = [fixed EXCEPT ![n] = Body]
          PROVE  fixed' \in Datasets
      BY <3>2, BodyTyped, PutTyped DEF TypeOK
    <3> QED
      BY <1>14, <3>1, <3>2 DEF MirrorFails
  <2> QED
    BY <1>14, <2>1, <2>2 DEF MirrorFails, attempt, RollBack, TypeOK
<1>15. CASE CommitFails
  <2>1. faults' \in 0 .. MaxFaults
    BY <1>15, FaultTyped DEF CommitFails
  <2> QED
    BY <1>15, <2>1 DEF CommitFails, attempt, TypeOK
<1>16. CASE Resolve
  BY <1>16 DEF Resolve, attempt, CommitLanded, AfterCommit, RollBack, TypeOK
<1>17. CASE ResolveFails
  <2>1. faults' \in 0 .. MaxFaults
    BY <1>17, FaultTyped DEF ResolveFails
  <2> QED
    BY <1>17, <2>1 DEF ResolveFails, RollBack, attempt, TypeOK
<1>18. ASSUME NEW n \in Names, RestoreKey(n) PROVE TypeOK'
  BY <1>18, ObjectsTyped, PutTyped
     DEF RestoreKey, LoopOver, NextToRestore, Saved, MetaLast, TypeOK
<1>19. CASE RestoreFails
  <2>1. faults' \in 0 .. MaxFaults
    BY <1>19, FaultTyped DEF RestoreFails
  <2>2. fixed' \in Datasets
    <3>1. CASE fixed' = fixed
      BY <3>1 DEF TypeOK
    <3>2. ASSUME NEW n \in NextToRestore, fixed' = [fixed EXCEPT ![n] = snapshot[n]]
          PROVE  fixed' \in Datasets
      BY <3>2, ObjectsTyped, PutTyped DEF NextToRestore, Saved, MetaLast, TypeOK
    <3> QED
      BY <1>19, <3>1, <3>2 DEF RestoreFails
  <2> QED
    BY <1>19, <2>1, <2>2 DEF RestoreFails, attempt, TypeOK
<1>20. CASE Raise
  BY <1>20 DEF Raise, attempt, TypeOK
<1>21. CASE PruneList
  BY <1>21 DEF PruneList, Surplus, Others, TypeOK
<1>22. CASE PruneListFails
  <2>1. faults' \in 0 .. MaxFaults
    BY <1>22, FaultTyped DEF PruneListFails
  <2> QED
    BY <1>22, <2>1 DEF PruneListFails, TypeOK
<1>23. CASE PruneEnds
  BY <1>23 DEF PruneEnds, attempt, TypeOK
<1>24. ASSUME NEW c \in CycleIds, NEW n \in Names, PruneDelete(c, n)
       PROVE  TypeOK'
  BY <1>24, NoneTyped, StagePutTyped
     DEF PruneDelete, Deleting, attempt, Only, TypeOK
<1>25. ASSUME NEW c \in CycleIds, NEW n \in Names, PruneDeleteFails(c, n)
       PROVE  TypeOK'
  <2>1. faults' \in 0 .. MaxFaults
    BY <1>25, FaultTyped DEF PruneDeleteFails
  <2>2. [staged EXCEPT ![c][n] = None] \in [CycleIds -> Datasets]
    BY NoneTyped, StagePutTyped DEF TypeOK
  <2> QED
    BY <1>25, <2>1, <2>2 DEF PruneDeleteFails, Deleting, TypeOK
<1>26. CASE Crash
  <2>1. faults' \in 0 .. MaxFaults
    BY <1>26, FaultTyped DEF Crash
  <2> QED
    BY <1>26, <2>1, NothingTyped DEF Crash, TypeOK
<1>27. CASE UNCHANGED vars
  BY <1>27 DEF vars, bucket, attempt, TypeOK
<1> QED
  BY <1>1, <1>2, <1>3, <1>4, <1>5, <1>6, <1>7, <1>8, <1>9, <1>10, <1>11, <1>12,
     <1>13, <1>14, <1>15, <1>16, <1>17, <1>18, <1>19, <1>20, <1>21, <1>22,
     <1>23, <1>24, <1>25, <1>26, <1>27
     DEF Next, Recovery, Collection, Publishing, Failing, Pruning

(* A cycle staged and mirrored to the last name is fit to be pointed to. *)
LEMMA ReadyToCommit ==
    ASSUME TypeOK, cur \in CycleIds,
           \A n \in Names : staged[cur][n] = Body,
           \A n \in Names : fixed[n] = Body
    PROVE  /\ Whole(cur)
           /\ staged[cur][Meta].id = cur
           /\ fixed = staged[cur]
<1>1. Whole(cur)
  BY BodyTyped, MarkersAssumption DEF Whole
<1>2. staged[cur][Meta].id = cur
  BY DEF Names, Body
<1>3. fixed = staged[cur]
  BY DEF TypeOK, Datasets
<1> QED
  BY <1>1, <1>2, <1>3

(* Every step hands on what the next one relies on: above all, a commit     *)
(* comes only after every name is staged and mirrored.                      *)
LEMMA ProtocolStep ==
    ASSUME TypeOK, ProtocolInv, [Next]_vars
    PROVE  ProtocolInv'
<1> USE DEF Minted, AllStaged, AllMirrored, PublishedMeansMirrored,
            PointerUsable, Whole, Body, bucket, attempt, TypeOK, Datasets
<1>1. CASE BeginCycle
  BY <1>1 DEF BeginCycle, ProtocolInv
<1>2. CASE RecoverReads
  BY <1>2 DEF RecoverReads, Resume, Callers, ProtocolInv
<1>3. CASE RecoverRepairs
  BY <1>3 DEF RecoverRepairs, attempt, ProtocolInv
<1>4. CASE RecoverFails
  BY <1>4 DEF RecoverFails, attempt, MetaLast, ProtocolInv
<1>5. ASSUME NEW n \in Names, RepairPut(n) PROVE ProtocolInv'
  BY <1>5 DEF RepairPut, LoopOver, Resume, Callers, ProtocolInv
<1>6. ASSUME NEW how \in {"failed", "withheld"}, CollectEnds(how)
      PROVE  ProtocolInv'
  BY <1>6 DEF CollectEnds, attempt, ProtocolInv
<1>7. ASSUME NEW id \in CycleIds, Mint(id) PROVE ProtocolInv'
  BY <1>7 DEF Mint, ProtocolInv
<1>8. CASE TakeSnapshot
  BY <1>8 DEF TakeSnapshot, ProtocolInv
<1>9. CASE CollisionCheck
  BY <1>9 DEF CollisionCheck, attempt, Collision, Payloads, ProtocolInv
<1>10. ASSUME NEW n \in Names, StagePut(n) PROVE ProtocolInv'
  BY <1>10 DEF StagePut, LoopOver, attempt, Body, ProtocolInv
<1>11. ASSUME NEW n \in Names, MirrorPut(n) PROVE ProtocolInv'
  BY <1>11 DEF MirrorPut, LoopOver, attempt, MetaLast, Body, ProtocolInv
<1>12. CASE CommitPut
  <2>1. /\ Whole(cur) /\ staged[cur][Meta].id = cur /\ fixed = staged[cur]
    BY <1>12, ReadyToCommit DEF CommitPut, ProtocolInv
  <2> QED
    BY <1>12, <2>1 DEF CommitPut, AfterCommit, ProtocolInv
<1>13. CASE BeforeMirrorFails
  BY <1>13 DEF BeforeMirrorFails, attempt, Body, ProtocolInv
<1>14. CASE MirrorFails
  BY <1>14 DEF MirrorFails, attempt, RollBack, MetaLast, Body, ProtocolInv
<1>15. CASE CommitFails
  BY <1>15 DEF CommitFails, attempt, ProtocolInv
<1>16. CASE Resolve
  <2>1. /\ Whole(cur) /\ staged[cur][Meta].id = cur /\ fixed = staged[cur]
    BY <1>16, ReadyToCommit DEF Resolve, ProtocolInv
  <2> QED
    BY <1>16, <2>1 DEF Resolve, CommitLanded, AfterCommit, RollBack, ProtocolInv
<1>17. CASE ResolveFails
  BY <1>17 DEF ResolveFails, RollBack, attempt, ProtocolInv
<1>18. ASSUME NEW n \in Names, RestoreKey(n) PROVE ProtocolInv'
  BY <1>18 DEF RestoreKey, LoopOver, NextToRestore, Saved, MetaLast, ProtocolInv
<1>19. CASE RestoreFails
  BY <1>19
     DEF RestoreFails, attempt, NextToRestore, Saved, MetaLast, ProtocolInv
<1>20. CASE Raise
  BY <1>20 DEF Raise, attempt, ProtocolInv
<1>21. CASE PruneList
  BY <1>21 DEF PruneList, Surplus, Others, ProtocolInv
<1>22. CASE PruneListFails
  <2>1. /\ Whole(cur) /\ staged[cur][Meta].id = cur /\ fixed = staged[cur]
    BY <1>22, ReadyToCommit DEF PruneListFails, ProtocolInv
  <2> QED
    BY <1>22, <2>1 DEF PruneListFails, ProtocolInv
<1>23. CASE PruneEnds
  <2>1. /\ Whole(cur) /\ staged[cur][Meta].id = cur /\ fixed = staged[cur]
    BY <1>23, ReadyToCommit DEF PruneEnds, ProtocolInv
  <2> QED
    BY <1>23, <2>1 DEF PruneEnds, ProtocolInv
<1>24. ASSUME NEW c \in CycleIds, NEW n \in Names, PruneDelete(c, n)
       PROVE  ProtocolInv'
  BY <1>24 DEF PruneDelete, Deleting, attempt, Only, ProtocolInv
<1>25. ASSUME NEW c \in CycleIds, NEW n \in Names, PruneDeleteFails(c, n)
       PROVE  ProtocolInv'
  BY <1>25 DEF PruneDeleteFails, Deleting, ProtocolInv
<1>26. CASE Crash
  BY <1>26 DEF Crash, ProtocolInv
<1>27. CASE UNCHANGED vars
  BY <1>27 DEF vars, bucket, attempt, ProtocolInv
<1> QED
  BY <1>1, <1>2, <1>3, <1>4, <1>5, <1>6, <1>7, <1>8, <1>9, <1>10, <1>11, <1>12,
     <1>13, <1>14, <1>15, <1>16, <1>17, <1>18, <1>19, <1>20, <1>21, <1>22,
     <1>23, <1>24, <1>25, <1>26, <1>27
     DEF Next, Recovery, Collection, Publishing, Failing, Pruning

(* The invariant TLC checks on small instances holds of every instance: it  *)
(* is inductive together with the types.                                    *)
THEOREM Invariance == Spec => [](TypeOK /\ ProtocolInv)
<1>1. Init => TypeOK /\ ProtocolInv
  BY TypeInit DEF Init, ProtocolInv, Minted, AllStaged, AllMirrored,
                  PublishedMeansMirrored
<1>2. TypeOK /\ ProtocolInv /\ [Next]_vars => (TypeOK /\ ProtocolInv)'
  BY TypeStep, ProtocolStep
<1> QED
  BY <1>1, <1>2, PTL DEF Spec

(* Every variable keeps its type: no cap is overrun, and no step of the     *)
(* protocol leaves anything under a key but a payload or nothing.           *)
THEOREM TypeCorrect == Spec => []TypeOK
BY Invariance, PTL

(* A cycle main records as published is the one current.json names, whole,  *)
(* and the one the fixed keys hold.                                         *)
THEOREM PublishedIsMirrored == Spec => []PublishedMeansMirrored
<1>1. ProtocolInv => PublishedMeansMirrored
  BY DEF ProtocolInv
<1> QED
  BY <1>1, Invariance, PTL

(* A usable pointer stays usable over every step: what a commit replaces it *)
(* by is complete, and neither staging nor pruning touches what it names.   *)
LEMMA AuthorityStep ==
    ASSUME TypeOK, ProtocolInv, [Next]_vars, PointerUsable
    PROVE  PointerUsable'
<1> USE DEF PointerUsable, Whole, bucket, TypeOK, Datasets
<1>1. CASE BeginCycle
  BY <1>1 DEF BeginCycle
<1>2. CASE RecoverReads
  BY <1>2 DEF RecoverReads
<1>3. CASE RecoverRepairs
  BY <1>3 DEF RecoverRepairs
<1>4. CASE RecoverFails
  BY <1>4 DEF RecoverFails
<1>5. ASSUME NEW n \in Names, RepairPut(n) PROVE PointerUsable'
  BY <1>5 DEF RepairPut
<1>6. ASSUME NEW how \in {"failed", "withheld"}, CollectEnds(how)
      PROVE  PointerUsable'
  BY <1>6 DEF CollectEnds
<1>7. ASSUME NEW id \in CycleIds, Mint(id) PROVE PointerUsable'
  BY <1>7 DEF Mint
<1>8. CASE TakeSnapshot
  BY <1>8 DEF TakeSnapshot
<1>9. CASE CollisionCheck
  BY <1>9 DEF CollisionCheck
<1>10. ASSUME NEW n \in Names, StagePut(n) PROVE PointerUsable'
  BY <1>10 DEF StagePut, Body
<1>11. ASSUME NEW n \in Names, MirrorPut(n) PROVE PointerUsable'
  BY <1>11 DEF MirrorPut
<1>12. CASE CommitPut
  <2>1. cur \in CycleIds /\ Whole(cur) /\ staged[cur][Meta].id = cur
    BY <1>12, ReadyToCommit
       DEF CommitPut, ProtocolInv, Minted, AllStaged, AllMirrored
  <2> QED
    BY <1>12, <2>1 DEF CommitPut
<1>13. CASE BeforeMirrorFails
  BY <1>13 DEF BeforeMirrorFails, Body
<1>14. CASE MirrorFails
  BY <1>14 DEF MirrorFails
<1>15. CASE CommitFails
  <2>1. cur \in CycleIds /\ Whole(cur) /\ staged[cur][Meta].id = cur
    BY <1>15, ReadyToCommit
       DEF CommitFails, ProtocolInv, Minted, AllStaged, AllMirrored
  <2> QED
    BY <1>15, <2>1 DEF CommitFails
<1>16. CASE Resolve
  BY <1>16 DEF Resolve
<1>17. CASE ResolveFails
  BY <1>17 DEF ResolveFails
<1>18. ASSUME NEW n \in Names, RestoreKey(n) PROVE PointerUsable'
  BY <1>18 DEF RestoreKey
<1>19. CASE RestoreFails
  BY <1>19 DEF RestoreFails
<1>20. CASE Raise
  BY <1>20 DEF Raise
<1>21. CASE PruneList
  BY <1>21 DEF PruneList
<1>22. CASE PruneListFails
  BY <1>22 DEF PruneListFails
<1>23. CASE PruneEnds
  BY <1>23 DEF PruneEnds
<1>24. ASSUME NEW c \in CycleIds, NEW n \in Names, PruneDelete(c, n)
       PROVE  PointerUsable'
  <2>1. c # pointer
    BY <1>24 DEF PruneDelete, Deleting, ProtocolInv
  <2> QED
    BY <1>24, <2>1 DEF PruneDelete
<1>25. ASSUME NEW c \in CycleIds, NEW n \in Names, PruneDeleteFails(c, n)
       PROVE  PointerUsable'
  <2>1. c # pointer
    BY <1>25 DEF PruneDeleteFails, Deleting, ProtocolInv
  <2> QED
    BY <1>25, <2>1 DEF PruneDeleteFails
<1>26. CASE Crash
  BY <1>26 DEF Crash
<1>27. CASE UNCHANGED vars
  BY <1>27 DEF vars
<1> QED
  BY <1>1, <1>2, <1>3, <1>4, <1>5, <1>6, <1>7, <1>8, <1>9, <1>10, <1>11, <1>12,
     <1>13, <1>14, <1>15, <1>16, <1>17, <1>18, <1>19, <1>20, <1>21, <1>22,
     <1>23, <1>24, <1>25, <1>26, <1>27
     DEF Next, Recovery, Collection, Publishing, Failing, Pruning

(* Once there is a complete cycle for a pointer-first consumer to read,     *)
(* there is one for ever, over failures, crashes, clock steps and prunes.   *)
THEOREM AuthorityIsKept == Spec => AuthorityKept
<1>1. TypeOK /\ ProtocolInv /\ [Next]_vars => (PointerUsable => PointerUsable')
  BY AuthorityStep
<1> QED
  BY <1>1, Invariance, PTL DEF Spec, AuthorityKept
=============================================================================
