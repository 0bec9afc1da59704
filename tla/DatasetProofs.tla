-------------------------- MODULE DatasetProofs --------------------------
(***************************************************************************)
(* The bucket seen through the pointer is one atomic dataset, a rollback    *)
(* restores what it found, the marker follows the data, and the prune       *)
(* deletes the surplus, all of it and nothing else: for any names, IDs,     *)
(* retention, number of cycles and of faults.                               *)
(***************************************************************************)
EXTENDS PublicationProofs, FiniteSetTheorems, WellFoundedInduction

(* A trusted pointer is usable, and stays so; only such a one is rolled     *)
(* back to and repaired from.                                               *)
TrustInv ==
    /\ trusted => PointerUsable
    /\ pc = "repair" => trusted
    /\ pc = "recover" /\ ctx = "rollback" => trusted

(* A loop that writes the fixed keys has already made those it has done     *)
(* what they should be.                                                     *)
RollbackInv ==
    /\ restored => pc \in {"raise", "idle"}
    /\ pc = "repair" => \A n \in Names \ todo : fixed[n] = staged[pointer][n]
    /\ pc = "restore" => ~ trusted /\ \A n \in Names \ todo : fixed[n] = snapshot[n]
    /\ RollbackRestores

(* A publication is on its way and has not been committed.                  *)
Attempting ==
    \/ pc \in {"snapshot", "collision", "stage", "mirror", "commit"}
    \/ pc \in {"recover", "repair"} /\ ctx = "publish"

(* What lies under an ID comes from one run, if it is announced at all.     *)
Uniform(c) ==
    staged[c][Meta] # None /\ staged[c][Meta].id = c =>
        \A n \in Names : staged[c][n] \in {None, staged[c][Meta]}

(* What is in the bucket comes from runs that have been, and all but what   *)
(* this attempt has staged from earlier ones.                               *)
CycleInv ==
    /\ \A c \in CycleIds : Uniform(c)
    /\ pc = "stage" => \A n \in todo : staged[cur][n] = None
    /\ \A c \in CycleIds, n \in Names :
           staged[c][n] # None => staged[c][n].run <= run
    /\ Attempting => run # 0
    /\ Attempting =>
           \A c \in CycleIds, n \in Names :
               staged[c][n] # None /\ (c = cur => pc \notin {"stage", "mirror", "commit"})
                   => staged[c][n].run < run

DatasetInv == TypeOK /\ ProtocolInv /\ TrustInv /\ RollbackInv /\ CycleInv

-----------------------------------------------------------------------------
(* Trust is won from a usable pointer, and lost only with the process.      *)
LEMMA TrustStep ==
    ASSUME TypeOK, ProtocolInv, TrustInv, [Next]_vars
    PROVE  TrustInv'
<1>1. CASE BeginCycle
  BY <1>1, AuthorityStep DEF BeginCycle, TrustInv
<1>2. CASE RecoverReads
  BY <1>2, AuthorityStep DEF RecoverReads, TrustInv, Resume, TypeOK, Callers
<1>3. CASE RecoverRepairs
  BY <1>3, AuthorityStep DEF RecoverRepairs, TrustInv
<1>4. CASE RecoverFails
  BY <1>4, AuthorityStep DEF RecoverFails, TrustInv
<1>5. ASSUME NEW n \in Names, RepairPut(n)
      PROVE  TrustInv'
  BY <1>5, AuthorityStep DEF RepairPut, TrustInv, LoopOver, Resume, ProtocolInv
<1>6. ASSUME NEW how \in {"failed", "withheld"}, CollectEnds(how)
      PROVE  TrustInv'
  BY <1>6, AuthorityStep DEF CollectEnds, TrustInv
<1>7. ASSUME NEW id \in CycleIds, Mint(id)
      PROVE  TrustInv'
  BY <1>7, AuthorityStep DEF Mint, TrustInv
<1>8. CASE TakeSnapshot
  BY <1>8, AuthorityStep DEF TakeSnapshot, TrustInv
<1>9. CASE CollisionCheck
  BY <1>9, AuthorityStep DEF CollisionCheck, TrustInv
<1>10. ASSUME NEW n \in Names, StagePut(n)
      PROVE  TrustInv'
  BY <1>10, AuthorityStep DEF StagePut, TrustInv, LoopOver
<1>11. ASSUME NEW n \in Names, MirrorPut(n)
      PROVE  TrustInv'
  BY <1>11, AuthorityStep DEF MirrorPut, TrustInv, LoopOver
<1>12. CASE CommitPut
  BY <1>12, AuthorityStep DEF CommitPut, TrustInv, AfterCommit
<1>13. CASE BeforeMirrorFails
  BY <1>13, AuthorityStep DEF BeforeMirrorFails, TrustInv
<1>14. CASE MirrorFails
  BY <1>14, AuthorityStep DEF MirrorFails, TrustInv, RollBack
<1>15. CASE CommitFails
  BY <1>15, AuthorityStep DEF CommitFails, TrustInv
<1>16. CASE Resolve
  BY <1>16, AuthorityStep DEF Resolve, TrustInv, RollBack, AfterCommit
<1>17. CASE ResolveFails
  BY <1>17, AuthorityStep DEF ResolveFails, TrustInv, RollBack
<1>18. ASSUME NEW n \in Names, RestoreKey(n)
      PROVE  TrustInv'
  BY <1>18, AuthorityStep DEF RestoreKey, TrustInv, LoopOver
<1>19. CASE RestoreFails
  BY <1>19, AuthorityStep DEF RestoreFails, TrustInv
<1>20. CASE Raise
  BY <1>20, AuthorityStep DEF Raise, TrustInv
<1>21. CASE PruneList
  BY <1>21, AuthorityStep DEF PruneList, TrustInv
<1>22. CASE PruneListFails
  BY <1>22, AuthorityStep DEF PruneListFails, TrustInv
<1>23. CASE PruneEnds
  BY <1>23, AuthorityStep DEF PruneEnds, TrustInv
<1>24. ASSUME NEW c \in CycleIds, NEW n \in Names, PruneDelete(c, n)
      PROVE  TrustInv'
  BY <1>24, AuthorityStep DEF PruneDelete, TrustInv
<1>25. ASSUME NEW c \in CycleIds, NEW n \in Names, PruneDeleteFails(c, n)
      PROVE  TrustInv'
  BY <1>25, AuthorityStep DEF PruneDeleteFails, TrustInv
<1>26. CASE Crash
  BY <1>26, AuthorityStep DEF Crash, TrustInv
<1>27. CASE UNCHANGED vars
  BY <1>27 DEF vars, bucket, TrustInv, PointerUsable, Whole
<1> QED
  BY <1>1, <1>2, <1>3, <1>4, <1>5, <1>6, <1>7, <1>8, <1>9, <1>10, <1>11, <1>12,
     <1>13, <1>14, <1>15, <1>16, <1>17, <1>18, <1>19, <1>20, <1>21, <1>22,
     <1>23, <1>24, <1>25, <1>26, <1>27
     DEF Next, Recovery, Collection, Publishing, Failing, Pruning

(* The prefixes change in three ways: a payload of the attempt is staged,   *)
(* an object is pruned, or not at all.                                      *)
Stages(n) ==
    /\ pc = "stage" /\ n \in todo /\ cur \in CycleIds
    /\ staged' = [staged EXCEPT ![cur][n] = Body]
    /\ UNCHANGED <<pointer, run, cur>>
    /\ pc' \in {"stage", "mirror", "raise"}
    /\ pc' = "stage" => todo' = todo \ {n}

Prunes(c, n) ==
    /\ pc = "prune" /\ c \in doomed
    /\ staged' = [staged EXCEPT ![c][n] = None]
    /\ UNCHANGED <<pc, pointer, run>>

StagedChange ==
    \/ UNCHANGED staged
    \/ \E n \in Names : Stages(n)
    \/ \E c \in CycleIds, n \in Names : Prunes(c, n)

LEMMA StagedStep ==
    ASSUME TypeOK, ProtocolInv, [Next]_vars
    PROVE  StagedChange
<1> USE DEF StagedChange
<1>1. CASE BeginCycle
  BY <1>1 DEF BeginCycle, bucket
<1>2. CASE RecoverReads
  BY <1>2 DEF RecoverReads, bucket
<1>3. CASE RecoverRepairs
  BY <1>3 DEF RecoverRepairs, bucket
<1>4. CASE RecoverFails
  BY <1>4 DEF RecoverFails, bucket
<1>5. ASSUME NEW n \in Names, RepairPut(n)
      PROVE  StagedChange
  BY <1>5 DEF RepairPut, bucket
<1>6. ASSUME NEW how \in {"failed", "withheld"}, CollectEnds(how)
      PROVE  StagedChange
  BY <1>6 DEF CollectEnds, bucket
<1>7. ASSUME NEW id \in CycleIds, Mint(id)
      PROVE  StagedChange
  BY <1>7 DEF Mint, bucket
<1>8. CASE TakeSnapshot
  BY <1>8 DEF TakeSnapshot, bucket
<1>9. CASE CollisionCheck
  BY <1>9 DEF CollisionCheck, bucket
<1>10. ASSUME NEW n \in Names, StagePut(n)
      PROVE  StagedChange
  BY <1>10
     DEF StagePut, bucket, Stages, LoopOver, attempt, TypeOK, ProtocolInv,
        Minted
<1>11. ASSUME NEW n \in Names, MirrorPut(n)
      PROVE  StagedChange
  BY <1>11 DEF MirrorPut, bucket
<1>12. CASE CommitPut
  BY <1>12 DEF CommitPut, bucket
<1>13. CASE BeforeMirrorFails
  BY <1>13
     DEF BeforeMirrorFails, bucket, Stages, attempt, TypeOK, ProtocolInv,
        Minted
<1>14. CASE MirrorFails
  BY <1>14 DEF MirrorFails, bucket
<1>15. CASE CommitFails
  BY <1>15 DEF CommitFails, bucket
<1>16. CASE Resolve
  BY <1>16 DEF Resolve, bucket
<1>17. CASE ResolveFails
  BY <1>17 DEF ResolveFails, bucket
<1>18. ASSUME NEW n \in Names, RestoreKey(n)
      PROVE  StagedChange
  BY <1>18 DEF RestoreKey, bucket
<1>19. CASE RestoreFails
  BY <1>19 DEF RestoreFails, bucket
<1>20. CASE Raise
  BY <1>20 DEF Raise, bucket
<1>21. CASE PruneList
  BY <1>21 DEF PruneList, bucket
<1>22. CASE PruneListFails
  BY <1>22 DEF PruneListFails, bucket
<1>23. CASE PruneEnds
  BY <1>23 DEF PruneEnds, bucket
<1>24. ASSUME NEW c \in CycleIds, NEW n \in Names, PruneDelete(c, n)
      PROVE  StagedChange
  BY <1>24 DEF PruneDelete, bucket, Prunes, Deleting, attempt
<1>25. ASSUME NEW c \in CycleIds, NEW n \in Names, PruneDeleteFails(c, n)
      PROVE  StagedChange
  BY <1>25 DEF PruneDeleteFails, bucket, Prunes, Deleting
<1>26. CASE Crash
  BY <1>26 DEF Crash, bucket
<1>27. CASE UNCHANGED vars
  BY <1>27 DEF vars, bucket
<1> QED
  BY <1>1, <1>2, <1>3, <1>4, <1>5, <1>6, <1>7, <1>8, <1>9, <1>10, <1>11, <1>12,
     <1>13, <1>14, <1>15, <1>16, <1>17, <1>18, <1>19, <1>20, <1>21, <1>22,
     <1>23, <1>24, <1>25, <1>26, <1>27
     DEF Next, Recovery, Collection, Publishing, Failing, Pruning

(* A publication begins with a new run, whose number nothing carries yet,   *)
(* and stages only under a prefix that was empty.                           *)
Writing == {"stage", "mirror", "commit"}

Advances ==
    /\ run <= run' /\ run' \in 0..MaxRuns
    /\ Attempting' =>
          \/ Attempting /\ UNCHANGED <<run, cur>> /\ (pc \in Writing => pc' \in Writing)
          \/ run' = run + 1 /\ pc' = "recover" /\ UNCHANGED staged
    /\ pc' \in Writing => pc \in Writing \/ (~ HasObjects(cur) /\ UNCHANGED <<staged, cur>>)
    /\ pc' = "stage" /\ pc \in Writing =>
           pc = "stage" /\ todo' \subseteq todo /\ UNCHANGED cur

LEMMA AttemptStep ==
    ASSUME TypeOK, ProtocolInv, [Next]_vars
    PROVE  Advances
<1> USE NumbersAssumption DEF Advances, Attempting, Writing, TypeOK
<1>1. CASE BeginCycle
  BY <1>1 DEF BeginCycle, bucket, attempt
<1>2. CASE RecoverReads
  BY <1>2 DEF RecoverReads, bucket, attempt, Resume, Callers
<1>3. CASE RecoverRepairs
  BY <1>3 DEF RecoverRepairs, bucket, attempt
<1>4. CASE RecoverFails
  BY <1>4 DEF RecoverFails, bucket, attempt
<1>5. ASSUME NEW n \in Names, RepairPut(n)
      PROVE  Advances
  BY <1>5 DEF RepairPut, bucket, attempt, LoopOver, Resume, Callers
<1>6. ASSUME NEW how \in {"failed", "withheld"}, CollectEnds(how)
      PROVE  Advances
  BY <1>6 DEF CollectEnds, bucket, attempt
<1>7. ASSUME NEW id \in CycleIds, Mint(id)
      PROVE  Advances
  BY <1>7 DEF Mint, bucket, attempt
<1>8. CASE TakeSnapshot
  BY <1>8 DEF TakeSnapshot, bucket, attempt
<1>9. CASE CollisionCheck
  BY <1>9 DEF CollisionCheck, bucket, attempt, Collision
<1>10. ASSUME NEW n \in Names, StagePut(n)
      PROVE  Advances
  BY <1>10 DEF StagePut, bucket, attempt, LoopOver
<1>11. ASSUME NEW n \in Names, MirrorPut(n)
      PROVE  Advances
  BY <1>11 DEF MirrorPut, bucket, attempt, LoopOver
<1>12. CASE CommitPut
  BY <1>12 DEF CommitPut, bucket, attempt, AfterCommit
<1>13. CASE BeforeMirrorFails
  BY <1>13 DEF BeforeMirrorFails, bucket, attempt
<1>14. CASE MirrorFails
  BY <1>14 DEF MirrorFails, bucket, attempt, RollBack
<1>15. CASE CommitFails
  BY <1>15 DEF CommitFails, bucket, attempt
<1>16. CASE Resolve
  BY <1>16 DEF Resolve, bucket, attempt, RollBack, AfterCommit
<1>17. CASE ResolveFails
  BY <1>17 DEF ResolveFails, bucket, attempt, RollBack
<1>18. ASSUME NEW n \in Names, RestoreKey(n)
      PROVE  Advances
  BY <1>18 DEF RestoreKey, bucket, attempt, LoopOver
<1>19. CASE RestoreFails
  BY <1>19 DEF RestoreFails, bucket, attempt
<1>20. CASE Raise
  BY <1>20 DEF Raise, bucket, attempt
<1>21. CASE PruneList
  BY <1>21 DEF PruneList, bucket, attempt
<1>22. CASE PruneListFails
  BY <1>22 DEF PruneListFails, bucket, attempt
<1>23. CASE PruneEnds
  BY <1>23 DEF PruneEnds, bucket, attempt
<1>24. ASSUME NEW c \in CycleIds, NEW n \in Names, PruneDelete(c, n)
      PROVE  Advances
  BY <1>24 DEF PruneDelete, bucket, attempt
<1>25. ASSUME NEW c \in CycleIds, NEW n \in Names, PruneDeleteFails(c, n)
      PROVE  Advances
  BY <1>25 DEF PruneDeleteFails, bucket, attempt
<1>26. CASE Crash
  BY <1>26 DEF Crash, bucket, attempt
<1>27. CASE UNCHANGED vars
  BY <1>27 DEF vars, bucket, attempt
<1> QED
  BY <1>1, <1>2, <1>3, <1>4, <1>5, <1>6, <1>7, <1>8, <1>9, <1>10, <1>11, <1>12,
     <1>13, <1>14, <1>15, <1>16, <1>17, <1>18, <1>19, <1>20, <1>21, <1>22,
     <1>23, <1>24, <1>25, <1>26, <1>27
     DEF Next, Recovery, Collection, Publishing, Failing, Pruning

(* Staging adds payloads of one run to an empty prefix, and pruning only    *)
(* takes away.                                                              *)
LEMMA UniformStep ==
    ASSUME TypeOK, ProtocolInv, CycleInv, [Next]_vars
    PROVE  \A c \in CycleIds : Uniform(c)'
<1> SUFFICES ASSUME NEW c \in CycleIds PROVE Uniform(c)'
  OBVIOUS
<1>0. Uniform(c) /\ staged \in [CycleIds -> Datasets]
  BY DEF CycleInv, TypeOK
<1>1. CASE UNCHANGED staged
  BY <1>0, <1>1 DEF Uniform
<1>2. ASSUME NEW n \in Names, Stages(n) PROVE Uniform(c)'
  <2>1. CASE c # cur
    BY <1>0, <1>2, <2>1 DEF Stages, Uniform
  <2>2. CASE c = cur
    <3>1. \A m \in Names : staged[cur][m] \in {None, Body}
      BY <1>2 DEF Stages, ProtocolInv, CycleInv
    <3>2. \A m \in Names : staged'[cur][m] \in {None, Body}
      BY <1>0, <1>2, <2>2, <3>1 DEF Stages, Datasets
    <3> QED BY <2>2, <3>2 DEF Uniform, Names
  <2> QED BY <2>1, <2>2
<1>3. ASSUME NEW d \in CycleIds, NEW n \in Names, Prunes(d, n) PROVE Uniform(c)'
  <2>1. \A m \in Names : staged'[c][m] \in {None, staged[c][m]}
    BY <1>0, <1>3 DEF Prunes, Datasets
  <2> QED BY <1>0, <2>1 DEF Uniform, Names
<1> QED BY <1>1, <1>2, <1>3, StagedStep DEF StagedChange

(* A staging loop meets only empty keys.                                    *)
LEMMA EmptyStep ==
    ASSUME TypeOK, ProtocolInv, CycleInv, [Next]_vars, pc' = "stage"
    PROVE  \A n \in todo' : staged'[cur'][n] = None
<1>1. todo' \subseteq Names
  BY TypeStep DEF TypeOK
<1>2. CASE pc = "stage"
  <2>1. todo' \subseteq todo /\ cur' = cur /\ \A n \in todo : staged[cur][n] = None
    BY <1>2, AttemptStep DEF Advances, CycleInv, Writing
  <2>2. ASSUME NEW n \in Names, Stages(n)
        PROVE  \A m \in todo' : staged'[cur'][m] = None
    BY <2>1, <2>2 DEF Stages, TypeOK, Datasets
  <2> QED BY <1>2, <2>1, <2>2, StagedStep DEF StagedChange, Prunes
<1>3. CASE pc # "stage"
  <2>1. CASE ~ HasObjects(cur) /\ UNCHANGED <<staged, cur>>
    BY <1>1, <2>1 DEF HasObjects
  <2>2. CASE pc \in Writing
    BY <1>3, <2>2, AttemptStep DEF Advances
  <2> QED BY <2>1, <2>2, AttemptStep DEF Advances, Writing
<1> QED BY <1>2, <1>3

(* What lies under a key was there before, or is a payload of this attempt. *)
LEMMA Origin ==
    ASSUME TypeOK, ProtocolInv, [Next]_vars, NEW c \in CycleIds, NEW m \in Names
    PROVE  \/ staged'[c][m] \in {None, staged[c][m]}
           \/ staged'[c][m] = Body /\ pc = "stage" /\ c = cur /\ UNCHANGED <<run, cur>>
<1>0. staged \in [CycleIds -> Datasets]
  BY DEF TypeOK
<1>1. ASSUME NEW n \in Names, Stages(n)
      PROVE  \/ staged'[c][m] = staged[c][m]
             \/ /\ staged'[c][m] = Body /\ pc = "stage" /\ c = cur
                /\ UNCHANGED <<run, cur>>
  BY <1>0, <1>1 DEF Stages, Datasets
<1>2. ASSUME NEW d \in CycleIds, NEW n \in Names, Prunes(d, n)
      PROVE  staged'[c][m] \in {None, staged[c][m]}
  BY <1>0, <1>2 DEF Prunes, Datasets
<1> QED BY <1>1, <1>2, StagedStep DEF StagedChange

(* The payloads of an attempt carry a run that no other payload carries.    *)
LEMMA RunStep ==
    ASSUME TypeOK, ProtocolInv, CycleInv, [Next]_vars
    PROVE  CycleInv'
<1>1. run \in Nat /\ run' \in Nat /\ run <= run'
  BY AttemptStep, NumbersAssumption DEF Advances, TypeOK
<1>2. ASSUME NEW c \in CycleIds, NEW m \in Names
      PROVE  staged[c][m] # None => staged[c][m].run \in Nat
  BY MarkersAssumption DEF TypeOK, Datasets, Objects, Bodies
<1>3. ASSUME NEW c \in CycleIds, NEW m \in Names, staged'[c][m] # None
      PROVE  staged'[c][m].run <= run'
  BY <1>1, <1>2, <1>3, Origin DEF CycleInv, Body
<1>4. Attempting' => run' # 0
  BY <1>1, AttemptStep DEF Advances, CycleInv
<1>5. ASSUME Attempting', NEW c \in CycleIds, NEW m \in Names, staged'[c][m] # None,
             c = cur' => pc' \notin Writing
      PROVE  staged'[c][m].run < run'
  <2>1. CASE run' = run + 1 /\ UNCHANGED staged
    BY <1>1, <1>2, <1>5, <2>1 DEF CycleInv
  <2>2. CASE Attempting /\ UNCHANGED <<run, cur>> /\ (pc \in Writing => pc' \in Writing)
    <3>1. staged'[c][m] = staged[c][m]
      BY <1>5, <2>2, Origin DEF Writing
    <3> QED BY <1>5, <2>2, <3>1 DEF CycleInv, Writing
  <2> QED BY <1>5, <2>1, <2>2, AttemptStep DEF Advances
<1> QED BY <1>3, <1>4, <1>5, UniformStep, EmptyStep DEF CycleInv, Writing

-----------------------------------------------------------------------------
(* The loops over the fixed keys.                                           *)

LEMMA RollbackStep ==
    ASSUME TypeOK, ProtocolInv, TrustInv, RollbackInv, [Next]_vars
    PROVE  RollbackInv'
<1> USE DEF RollbackInv, RollbackRestores, bucket
<1>0. fixed \in Datasets /\ todo \subseteq Names
  BY DEF TypeOK
<1>1. CASE BeginCycle
  BY <1>1 DEF BeginCycle
<1>2. CASE RecoverReads
  <2>1. PointerUsable' <=> PointerUsable
    BY <1>2 DEF RecoverReads, PointerUsable, Whole
  <2> QED
    BY <1>2, <2>1
       DEF RecoverReads, Resume, Callers, TypeOK, TrustInv, InSync
<1>3. CASE RecoverRepairs
  BY <1>3 DEF RecoverRepairs, attempt
<1>4. CASE RecoverFails
  BY <1>4 DEF RecoverFails, attempt
<1>5. ASSUME NEW n \in Names, RepairPut(n)
      PROVE  RollbackInv'
  <2>1. /\ PointerUsable' /\ trusted /\ pointer \in CycleIds
        /\ staged[pointer] \in Datasets /\ ~ restored
    BY <1>5, AuthorityStep DEF RepairPut, TrustInv, PointerUsable, TypeOK
  <2>2. CASE todo = {n}
    <3>1. \A m \in Names : fixed'[m] = staged[pointer][m]
      BY <1>0, <1>5, <2>2 DEF RepairPut, Datasets
    <3>2. fixed' \in Datasets
      BY TypeStep DEF TypeOK
    <3>3. fixed' = staged[pointer]
      BY <2>1, <3>1, <3>2 DEF Datasets
    <3> QED
      BY <1>5, <2>1, <2>2, <3>1, <3>3
         DEF RepairPut, LoopOver, Resume, Callers, TypeOK
  <2>3. CASE todo # {n}
    BY <1>0, <1>5, <2>1, <2>3 DEF RepairPut, LoopOver, Datasets
  <2> QED BY <2>2, <2>3
<1>6. ASSUME NEW how \in {"failed", "withheld"}, CollectEnds(how)
      PROVE  RollbackInv'
  BY <1>6 DEF CollectEnds, attempt
<1>7. ASSUME NEW id \in CycleIds, Mint(id)
      PROVE  RollbackInv'
  BY <1>7 DEF Mint
<1>8. CASE TakeSnapshot
  BY <1>8 DEF TakeSnapshot
<1>9. CASE CollisionCheck
  BY <1>9 DEF CollisionCheck, attempt, Collision
<1>10. ASSUME NEW n \in Names, StagePut(n)
      PROVE  RollbackInv'
  BY <1>10 DEF StagePut, LoopOver, attempt
<1>11. ASSUME NEW n \in Names, MirrorPut(n)
      PROVE  RollbackInv'
  BY <1>11 DEF MirrorPut, LoopOver, attempt
<1>12. CASE CommitPut
  BY <1>12 DEF CommitPut, AfterCommit, attempt
<1>13. CASE BeforeMirrorFails
  BY <1>13 DEF BeforeMirrorFails, attempt
<1>14. CASE MirrorFails
  BY <1>14 DEF MirrorFails, RollBack, attempt
<1>15. CASE CommitFails
  BY <1>15 DEF CommitFails, attempt
<1>16. CASE Resolve
  BY <1>16 DEF Resolve, RollBack, AfterCommit, attempt
<1>17. CASE ResolveFails
  BY <1>17 DEF ResolveFails, RollBack, attempt
<1>18. ASSUME NEW n \in Names, RestoreKey(n)
      PROVE  RollbackInv'
  BY <1>18 DEF RestoreKey, LoopOver, attempt, TypeOK, Datasets
<1>19. CASE RestoreFails
  BY <1>19 DEF RestoreFails, attempt
<1>20. CASE Raise
  BY <1>20 DEF Raise, attempt
<1>21. CASE PruneList
  BY <1>21 DEF PruneList
<1>22. CASE PruneListFails
  BY <1>22 DEF PruneListFails
<1>23. CASE PruneEnds
  BY <1>23 DEF PruneEnds, attempt
<1>24. ASSUME NEW c \in CycleIds, NEW n \in Names, PruneDelete(c, n)
      PROVE  RollbackInv'
  BY <1>24 DEF PruneDelete, Deleting, attempt
<1>25. ASSUME NEW c \in CycleIds, NEW n \in Names, PruneDeleteFails(c, n)
      PROVE  RollbackInv'
  BY <1>25 DEF PruneDeleteFails, Deleting
<1>26. CASE Crash
  BY <1>26 DEF Crash
<1>27. CASE UNCHANGED vars
  BY <1>27 DEF vars, attempt, PointerUsable, Whole
<1> QED
  BY <1>1, <1>2, <1>3, <1>4, <1>5, <1>6, <1>7, <1>8, <1>9, <1>10, <1>11, <1>12,
     <1>13, <1>14, <1>15, <1>16, <1>17, <1>18, <1>19, <1>20, <1>21, <1>22,
     <1>23, <1>24, <1>25, <1>26, <1>27
     DEF Next, Recovery, Collection, Publishing, Failing, Pruning

-----------------------------------------------------------------------------
(* The invariant.                                                           *)

(* Whatever the exporter finds when it is first started satisfies it.       *)
LEMMA DatasetInit == Init => DatasetInv
<1> SUFFICES ASSUME Init PROVE DatasetInv
  OBVIOUS
<1>1. TypeOK /\ ProtocolInv
  BY TypeInit DEF Init, ProtocolInv, Minted, AllStaged, AllMirrored,
                  PublishedMeansMirrored
<1>2. TrustInv /\ RollbackInv
  BY DEF Init, TrustInv, RollbackInv, RollbackRestores
<1>3. ASSUME NEW c \in CycleIds, NEW n \in Names
      PROVE  Uniform(c) /\ (staged[c][n] # None => staged[c][n].run = 0)
  <2>1. CASE StartWithout
    BY <2>1 DEF StartWithout, NoCycles, Nothing, Uniform, Names
  <2>2. CASE StartWith
    <3>1. CASE c = Earlier
      <4>1. PICK cycle \in [Names -> {EarlierBody, None}]
                     \cup {[[m \in Names |-> EarlierBody] EXCEPT ![Meta] = Legacy]} :
                staged[c] = cycle
        BY <2>2, <3>1 DEF StartWith, NoCycles
      <4>2. \A m \in Names : cycle[m] \in {EarlierBody, None, Legacy}
        OBVIOUS
      <4>3. CASE cycle[Meta] = Legacy
        BY <4>1, <4>2, <4>3, MarkersAssumption
           DEF Uniform, Legacy, EarlierBody, Names
      <4>4. CASE cycle \in [Names -> {EarlierBody, None}]
        BY <4>1, <4>4 DEF Uniform, EarlierBody, Names
      <4> QED BY <4>1, <4>2, <4>3, <4>4 DEF Names
    <3>2. CASE c # Earlier
      BY <2>2, <3>2 DEF StartWith, NoCycles, Nothing, Uniform, Names
    <3> QED BY <3>1, <3>2
  <2> QED BY <2>1, <2>2 DEF Init
<1>4. CycleInv
  <2>1. pc = "idle" /\ run = 0
    BY DEF Init
  <2>2. \A c \in CycleIds, n \in Names :
            staged[c][n] # None => staged[c][n].run <= run
    BY <1>3, <2>1
  <2>3. \A c \in CycleIds : Uniform(c)
    BY <1>3 DEF Names
  <2> QED BY <2>1, <2>2, <2>3 DEF CycleInv, Attempting
<1> QED BY <1>1, <1>2, <1>4 DEF DatasetInv

(* Every reachable state satisfies the strengthened invariant.              *)
THEOREM DatasetInvariance == Spec => []DatasetInv
<1>1. DatasetInv /\ [Next]_vars => DatasetInv'
  BY TypeStep, ProtocolStep, TrustStep, RollbackStep, RunStep DEF DatasetInv
<1> QED BY <1>1, DatasetInit, PTL DEF Spec

(* A rollback that ran to its end leaves the fixed keys as the pointed-to   *)
(* cycle or as they were found, whatever failed before it.                  *)
THEOREM RollbackIsExact == Spec => []RollbackRestores
<1>1. DatasetInv => RollbackRestores
  BY DEF DatasetInv, RollbackInv
<1> QED BY <1>1, DatasetInvariance, PTL

-----------------------------------------------------------------------------
(* The marker.                                                              *)

(* The fixed meta.json changes only to what the other fixed keys hold.      *)
Announces ==
    (fixed'[Meta] # fixed[Meta] /\ pc # "restore") =>
        \A n \in Data : fixed'[n] = fixed'[Meta]

(* A loop that ends in meta.json writes it over what it has written.        *)
LEMMA MarkerIsLast ==
    ASSUME TypeOK, NEW n \in MetaLast(todo), NEW b,
           fixed' = [fixed EXCEPT ![n] = b], fixed'[Meta] # fixed[Meta]
    PROVE  /\ todo \subseteq {Meta} /\ fixed'[Meta] = b
           /\ \A m \in Data : m \in Names \ todo /\ fixed'[m] = fixed[m]
<1>1. n = Meta
  BY DEF TypeOK, Datasets, Names
<1> QED BY <1>1, NamesAssumption DEF TypeOK, Datasets, Names, MetaLast

LEMMA MarkerStep ==
    ASSUME DatasetInv, [Next]_vars
    PROVE  Announces
<1> USE DEF Announces, bucket
<1>0. TypeOK /\ (pc = "mirror" => \A n \in Names \ todo : fixed[n] = Body)
  BY DEF DatasetInv, ProtocolInv
<1>mirror. ASSUME NEW n \in MetaLast(todo), pc = "mirror",
              fixed' = [fixed EXCEPT ![n] = Body]
       PROVE  Announces
  BY <1>0, <1>mirror, MarkerIsLast
<1>repair. ASSUME NEW n \in MetaLast(todo), pc = "repair",
              fixed' = [fixed EXCEPT ![n] = staged[pointer][n]]
       PROVE  Announces
  <2> SUFFICES ASSUME fixed'[Meta] # fixed[Meta], NEW m \in Data
               PROVE  fixed'[m] = fixed'[Meta]
    OBVIOUS
  <2>1. /\ todo \subseteq {Meta} /\ fixed'[Meta] = staged[pointer][n]
        /\ m \in Names \ todo /\ fixed'[m] = fixed[m]
    BY <1>0, <1>repair, MarkerIsLast
  <2>2. n = Meta
    BY <2>1 DEF MetaLast
  <2>3. PointerUsable /\ Uniform(pointer) /\ fixed[m] = staged[pointer][m]
    BY <1>repair, <2>1
       DEF DatasetInv, ProtocolInv, RollbackInv, CycleInv, PointerUsable
  <2> QED BY <2>1, <2>2, <2>3 DEF Uniform, PointerUsable, Whole, Names
<1>1. CASE BeginCycle
  BY <1>1 DEF BeginCycle
<1>2. CASE RecoverReads
  BY <1>2 DEF RecoverReads
<1>3. CASE RecoverRepairs
  BY <1>3 DEF RecoverRepairs
<1>4. CASE RecoverFails
  BY <1>4, <1>repair DEF RecoverFails
<1>5. ASSUME NEW n \in Names, RepairPut(n)
      PROVE  Announces
  BY <1>5, <1>repair DEF RepairPut
<1>6. ASSUME NEW how \in {"failed", "withheld"}, CollectEnds(how)
      PROVE  Announces
  BY <1>6 DEF CollectEnds
<1>7. ASSUME NEW id \in CycleIds, Mint(id)
      PROVE  Announces
  BY <1>7 DEF Mint
<1>8. CASE TakeSnapshot
  BY <1>8 DEF TakeSnapshot
<1>9. CASE CollisionCheck
  BY <1>9 DEF CollisionCheck
<1>10. ASSUME NEW n \in Names, StagePut(n)
      PROVE  Announces
  BY <1>10 DEF StagePut
<1>11. ASSUME NEW n \in Names, MirrorPut(n)
      PROVE  Announces
  BY <1>11, <1>mirror DEF MirrorPut
<1>12. CASE CommitPut
  BY <1>12 DEF CommitPut
<1>13. CASE BeforeMirrorFails
  BY <1>13 DEF BeforeMirrorFails
<1>14. CASE MirrorFails
  BY <1>14, <1>mirror DEF MirrorFails
<1>15. CASE CommitFails
  BY <1>15 DEF CommitFails
<1>16. CASE Resolve
  BY <1>16 DEF Resolve
<1>17. CASE ResolveFails
  BY <1>17 DEF ResolveFails
<1>18. ASSUME NEW n \in Names, RestoreKey(n)
      PROVE  Announces
  BY <1>18 DEF RestoreKey
<1>19. CASE RestoreFails
  BY <1>19 DEF RestoreFails
<1>20. CASE Raise
  BY <1>20 DEF Raise
<1>21. CASE PruneList
  BY <1>21 DEF PruneList
<1>22. CASE PruneListFails
  BY <1>22 DEF PruneListFails
<1>23. CASE PruneEnds
  BY <1>23 DEF PruneEnds
<1>24. ASSUME NEW c \in CycleIds, NEW n \in Names, PruneDelete(c, n)
      PROVE  Announces
  BY <1>24 DEF PruneDelete
<1>25. ASSUME NEW c \in CycleIds, NEW n \in Names, PruneDeleteFails(c, n)
      PROVE  Announces
  BY <1>25 DEF PruneDeleteFails
<1>26. CASE Crash
  BY <1>26 DEF Crash
<1>27. CASE UNCHANGED vars
  BY <1>27 DEF vars
<1> QED
  BY <1>1, <1>2, <1>3, <1>4, <1>5, <1>6, <1>7, <1>8, <1>9, <1>10, <1>11, <1>12,
     <1>13, <1>14, <1>15, <1>16, <1>17, <1>18, <1>19, <1>20, <1>21, <1>22,
     <1>23, <1>24, <1>25, <1>26, <1>27
     DEF Next, Recovery, Collection, Publishing, Failing, Pruning

(* Outside the rollback of a bootstrap the marker never announces data that *)
(* is not there yet.                                                        *)
THEOREM MarkerIsFollowed == Spec => MarkerFollowsData
<1>1. DatasetInv /\ [Next]_vars => [Announces]_vars
  BY MarkerStep
<1> QED BY <1>1, DatasetInvariance, PTL DEF Spec, MarkerFollowsData, Announces

-----------------------------------------------------------------------------
(* The prune.                                                               *)

(* Every nonempty set of numbers has a least element, and a greatest one if *)
(* it is bounded.                                                           *)
LEMMA NatMin ==
    ASSUME NEW T, T \subseteq Nat, T # {}
    PROVE  \E m \in T : \A t \in T : m <= t
<1> DEFINE R == OpToRel(<, Nat)
<1>1. IsWellFoundedOn(R, Nat)
  BY NatLessThanWellFounded
<1>2. PICK m \in T : \A t \in T : ~ (<<t, m>> \in R)
  <2> HIDE DEF R
  <2> QED BY <1>1, WFMin
<1>3. ASSUME NEW t \in T PROVE m <= t
  <2>1. ~ (<<t, m>> \in {ss \in Nat \X Nat : ss[1] < ss[2]})
    BY <1>2 DEF OpToRel
  <2> QED BY <2>1
<1> QED BY <1>3

LEMMA NatMax ==
    ASSUME NEW T, T \subseteq Nat, T # {}, NEW b \in Nat, \A t \in T : t <= b
    PROVE  \E m \in T : \A t \in T : t <= m
<1> DEFINE bounds == {n \in Nat : \A t \in T : t <= n}
<1>1. PICK m \in bounds : \A n \in bounds : m <= n
  <2> HIDE DEF bounds
  <2>1. bounds \subseteq Nat /\ bounds # {} BY DEF bounds
  <2> QED BY <2>1, NatMin
<1>2. m \in T
  <2> SUFFICES ASSUME m \notin T PROVE FALSE OBVIOUS
  <2>1. m \in Nat /\ \A t \in T : t \in Nat /\ t <= m /\ t # m
    BY <1>1
  <2>2. \A t \in T : t <= m - 1
    <3> HIDE DEF bounds
    <3> QED BY <2>1
  <2>3. m - 1 \in Nat
    <3>1. PICK t \in T : TRUE
      OBVIOUS
    <3>2. t \in Nat /\ t <= m - 1
      BY <2>1, <2>2
    <3> QED BY <2>1, <3>2
  <2>4. m <= m - 1
    BY <1>1, <2>2, <2>3
  <2> QED BY <2>1, <2>4
<1> QED BY <1>1, <1>2

(* The clock has reached every ID there is, so that there are finitely many *)
(* cycles whatever IDs the clock may still give.                            *)
ReachedInv ==
    /\ clock \in Nat
    /\ cur \in CycleIds => cur <= clock
    /\ \A c \in CycleIds : HasObjects(c) => c <= clock

(* The other cycles that the running prune will leave.                      *)
Spare == Others \ doomed

(* A prune runs after a trusted start.  It spares the newest Retention - 1  *)
(* other cycles and no more, unless it failed to delete one.                *)
PruneInv ==
    /\ pc \in {"list", "prune"} => trusted
    /\ pc = "prune" => \A c \in doomed : Cardinality(Newer(c, Spare)) >= Retention - 1
    /\ pc = "prune" /\ swept => Cardinality(Spare) <= Retention - 1
    /\ PruneBounds

LEMMA ClockReaches ==
    ASSUME TypeOK, [Next]_vars, ReachedInv
    PROVE  /\ clock' \in Nat /\ clock <= clock'
           /\ cur' \in CycleIds => cur' <= clock'
<1> USE CycleIdsAssumption, MarkersAssumption DEF ReachedInv, bucket, attempt
<1>1. CASE BeginCycle
  BY <1>1 DEF BeginCycle
<1>2. CASE RecoverReads
  BY <1>2 DEF RecoverReads
<1>3. CASE RecoverRepairs
  BY <1>3 DEF RecoverRepairs
<1>4. CASE RecoverFails
  BY <1>4 DEF RecoverFails
<1>5. ASSUME NEW n \in Names, RepairPut(n)
      PROVE  /\ clock' \in Nat /\ clock <= clock'
             /\ cur' \in CycleIds => cur' <= clock'
  BY <1>5 DEF RepairPut
<1>6. ASSUME NEW how \in {"failed", "withheld"}, CollectEnds(how)
      PROVE  /\ clock' \in Nat /\ clock <= clock'
             /\ cur' \in CycleIds => cur' <= clock'
  BY <1>6 DEF CollectEnds
<1>7. ASSUME NEW id \in CycleIds, Mint(id)
      PROVE  /\ clock' \in Nat /\ clock <= clock'
             /\ cur' \in CycleIds => cur' <= clock'
  BY <1>7 DEF Mint
<1>8. CASE TakeSnapshot
  BY <1>8 DEF TakeSnapshot
<1>9. CASE CollisionCheck
  BY <1>9 DEF CollisionCheck
<1>10. ASSUME NEW n \in Names, StagePut(n)
      PROVE  /\ clock' \in Nat /\ clock <= clock'
             /\ cur' \in CycleIds => cur' <= clock'
  BY <1>10 DEF StagePut
<1>11. ASSUME NEW n \in Names, MirrorPut(n)
      PROVE  /\ clock' \in Nat /\ clock <= clock'
             /\ cur' \in CycleIds => cur' <= clock'
  BY <1>11 DEF MirrorPut
<1>12. CASE CommitPut
  BY <1>12 DEF CommitPut
<1>13. CASE BeforeMirrorFails
  BY <1>13 DEF BeforeMirrorFails
<1>14. CASE MirrorFails
  BY <1>14 DEF MirrorFails
<1>15. CASE CommitFails
  BY <1>15 DEF CommitFails
<1>16. CASE Resolve
  BY <1>16 DEF Resolve
<1>17. CASE ResolveFails
  BY <1>17 DEF ResolveFails
<1>18. ASSUME NEW n \in Names, RestoreKey(n)
      PROVE  /\ clock' \in Nat /\ clock <= clock'
             /\ cur' \in CycleIds => cur' <= clock'
  BY <1>18 DEF RestoreKey
<1>19. CASE RestoreFails
  BY <1>19 DEF RestoreFails
<1>20. CASE Raise
  BY <1>20 DEF Raise
<1>21. CASE PruneList
  BY <1>21 DEF PruneList
<1>22. CASE PruneListFails
  BY <1>22 DEF PruneListFails
<1>23. CASE PruneEnds
  BY <1>23 DEF PruneEnds
<1>24. ASSUME NEW c \in CycleIds, NEW n \in Names, PruneDelete(c, n)
      PROVE  /\ clock' \in Nat /\ clock <= clock'
             /\ cur' \in CycleIds => cur' <= clock'
  BY <1>24 DEF PruneDelete
<1>25. ASSUME NEW c \in CycleIds, NEW n \in Names, PruneDeleteFails(c, n)
      PROVE  /\ clock' \in Nat /\ clock <= clock'
             /\ cur' \in CycleIds => cur' <= clock'
  BY <1>25 DEF PruneDeleteFails
<1>26. CASE Crash
  BY <1>26 DEF Crash
<1>27. CASE UNCHANGED vars
  BY <1>27 DEF vars, attempt
<1> QED
  BY <1>1, <1>2, <1>3, <1>4, <1>5, <1>6, <1>7, <1>8, <1>9, <1>10, <1>11, <1>12,
     <1>13, <1>14, <1>15, <1>16, <1>17, <1>18, <1>19, <1>20, <1>21, <1>22,
     <1>23, <1>24, <1>25, <1>26, <1>27
     DEF Next, Recovery, Collection, Publishing, Failing, Pruning

LEMMA ReachedStep ==
    ASSUME TypeOK, ProtocolInv, ReachedInv, [Next]_vars
    PROVE  ReachedInv'
<1>1. ASSUME NEW c \in CycleIds, HasObjects(c)' PROVE c <= clock'
  <2>1. PICK n \in Names : staged'[c][n] # None
    BY <1>1 DEF HasObjects
  <2>2. HasObjects(c) \/ c = cur
    BY <2>1, Origin DEF HasObjects
  <2> QED BY <2>2, ClockReaches, CycleIdsAssumption DEF ReachedInv
<1> QED BY <1>1, ClockReaches DEF ReachedInv

(* Which cycles have objects, and which the prune spares, is a finite       *)
(* question.                                                                *)
LEMMA FinitelyMany ==
    ASSUME ReachedInv
    PROVE  /\ IsFiniteSet({c \in CycleIds : HasObjects(c)})
           /\ IsFiniteSet(Others) /\ IsFiniteSet(Spare)
           /\ Cardinality(Spare) \in Nat
           /\ Others \subseteq Nat
<1>1. IsFiniteSet({c \in CycleIds : HasObjects(c)})
  <2> DEFINE S == {c \in CycleIds : HasObjects(c)}
  <2>1. S \in SUBSET Nat /\ clock \in Nat /\ \A c \in S : c <= clock
    BY CycleIdsAssumption DEF ReachedInv
  <2> HIDE DEF S
  <2>2. IsFiniteSet(S)
    BY <2>1, FS_BoundedSetOfNaturals
  <2> QED BY <2>2 DEF S
<1>2. IsFiniteSet(Others)
  BY <1>1, FS_Difference DEF Others
<1>3. IsFiniteSet(Spare)
  BY <1>2, FS_Difference DEF Spare
<1> QED BY <1>1, <1>2, <1>3, FS_CardinalityType, CycleIdsAssumption DEF Others

(* What the listing leaves out of the surplus is newer than all of it, and  *)
(* there are enough of these but no more than Retention - 1.                *)
LEMMA SurplusIsOldest ==
    ASSUME ReachedInv, NEW c \in Surplus
    PROVE  Cardinality(Newer(c, Others \ Surplus)) >= Retention - 1
<1>0. Surplus \subseteq Others /\ Others \subseteq Nat
  BY FinitelyMany DEF Surplus
<1>1. PICK m \in Surplus : \A d \in Surplus : d <= m
  <2>1. \A d \in Surplus : d <= clock
    BY <1>0 DEF Others, ReachedInv
  <2> QED BY <1>0, <2>1, NatMax DEF ReachedInv
<1>2. Newer(m, Others) \subseteq Newer(c, Others \ Surplus)
  <2> SUFFICES ASSUME NEW d \in Others, d > m PROVE d > c /\ d \notin Surplus
    BY DEF Newer
  <2>1. c <= m /\ c \in Nat /\ m \in Nat /\ d \in Nat
    BY <1>0, <1>1
  <2>2. d \in Surplus => d <= m
    BY <1>1
  <2> QED BY <2>1, <2>2
<1>3. IsFiniteSet(Newer(c, Others \ Surplus))
  <2>1. Newer(c, Others \ Surplus) \subseteq Others
    BY DEF Newer
  <2> QED BY <2>1, FinitelyMany, FS_Subset
<1>4. Cardinality(Newer(m, Others)) <= Cardinality(Newer(c, Others \ Surplus))
  BY <1>2, <1>3, FS_Subset
<1>5. Cardinality(Newer(m, Others)) >= Retention - 1
  BY <1>1 DEF Surplus
<1>6. /\ Cardinality(Newer(m, Others)) \in Nat
      /\ Cardinality(Newer(c, Others \ Surplus)) \in Nat
  <2>1. IsFiniteSet(Newer(m, Others))
    BY <1>2, <1>3, FS_Subset
  <2> QED BY <1>3, <2>1, FS_CardinalityType
<1> QED BY <1>4, <1>5, <1>6, NumbersAssumption

LEMMA RestIsSmall ==
    ASSUME ReachedInv
    PROVE  Cardinality(Others \ Surplus) <= Retention - 1
<1> DEFINE rest == Others \ Surplus
<1>0. /\ IsFiniteSet(Others) /\ Others \subseteq Nat
      /\ Retention \in Nat \ {0}
  BY FinitelyMany, NumbersAssumption
<1>1. CASE rest = {}
  BY <1>0, <1>1, FS_EmptySet
<1>2. CASE rest # {}
  <2>1. PICK m \in rest : \A d \in rest : m <= d
    <3> HIDE DEF rest
    <3>1. rest \subseteq Nat BY <1>0 DEF rest
    <3> QED BY <1>2, <3>1, NatMin
  <2>2. IsFiniteSet(Newer(m, Others)) /\ Cardinality(Newer(m, Others)) \in Nat
    <3>1. Newer(m, Others) \subseteq Others
      BY DEF Newer
    <3> QED BY <1>0, <3>1, FS_Subset, FS_CardinalityType
  <2>3. Cardinality(Newer(m, Others)) < Retention - 1
    <3>1. m \in Others /\ ~ (Cardinality(Newer(m, Others)) >= Retention - 1)
      BY <2>1 DEF Surplus
    <3> QED BY <1>0, <2>2, <3>1
  <2>4. rest \subseteq Newer(m, Others) \cup {m}
    <3> SUFFICES ASSUME NEW d \in rest, d # m PROVE d \in Others /\ d > m
      BY DEF Newer
    <3>1. m <= d /\ m \in Nat /\ d \in Nat
      BY <1>0, <2>1
    <3> QED BY <3>1
  <2>5. /\ IsFiniteSet(Newer(m, Others) \cup {m})
        /\ Cardinality(Newer(m, Others) \cup {m}) <= Cardinality(Newer(m, Others)) + 1
    BY <2>2, FS_AddElement
  <2>6. IsFiniteSet(rest) /\ Cardinality(rest) <= Cardinality(Newer(m, Others) \cup {m})
    BY <2>4, <2>5, FS_Subset
  <2>7. Cardinality(rest) \in Nat /\ Cardinality(Newer(m, Others) \cup {m}) \in Nat
    BY <2>5, <2>6, FS_CardinalityType
  <2> QED BY <1>0, <2>2, <2>3, <2>5, <2>6, <2>7
<1> QED BY <1>1, <1>2

(* What a step does to a prune: list the surplus, delete an object of a     *)
(* doomed cycle and cross the cycle out when it was the last, or give up.   *)
Deletes(c, n) ==
    /\ pc = "prune" /\ c \in doomed /\ UNCHANGED cur
    /\ staged' = [staged EXCEPT ![c][n] = None]
    /\ doomed' = IF Only(c, n) THEN doomed \ {c} ELSE doomed
    /\ swept' = swept

GivesUp(c, n) ==
    /\ pc = "prune" /\ c \in doomed /\ UNCHANGED cur
    /\ staged' = staged \/ staged' = [staged EXCEPT ![c][n] = None]
    /\ doomed' = doomed \ {c} /\ swept' = FALSE

PruneChange ==
    /\ pc' \in {"list", "prune"} => trusted' = trusted /\ (pc \in {"list", "prune"} \/ trusted)
    /\ pc' = "prune" =>
          \/ pc = "list" /\ doomed' = Surplus /\ UNCHANGED <<staged, cur>>
          \/ pc = "prune" /\ UNCHANGED <<staged, doomed, cur, swept>>
          \/ \E c \in CycleIds, n \in Names : Deletes(c, n) \/ GivesUp(c, n)
    /\ pc' = "idle" /\ outcome' = "published" /\ trusted' /\ swept' =>
          \/ pc = "idle" /\ UNCHANGED <<staged, outcome, trusted, swept>>
          \/ pc = "prune" /\ doomed = {} /\ UNCHANGED <<staged, cur, swept>>

LEMMA PruneStep == ASSUME TypeOK, [Next]_vars PROVE PruneChange
<1> USE DEF PruneChange, bucket, attempt
<1>1. CASE BeginCycle
  BY <1>1 DEF BeginCycle
<1>2. CASE RecoverReads
  BY <1>2 DEF RecoverReads, Resume, TypeOK, Callers
<1>3. CASE RecoverRepairs
  BY <1>3 DEF RecoverRepairs
<1>4. CASE RecoverFails
  BY <1>4 DEF RecoverFails
<1>5. ASSUME NEW n \in Names, RepairPut(n)
      PROVE  PruneChange
  BY <1>5 DEF RepairPut, LoopOver, Resume, TypeOK, Callers
<1>6. ASSUME NEW how \in {"failed", "withheld"}, CollectEnds(how)
      PROVE  PruneChange
  BY <1>6 DEF CollectEnds
<1>7. ASSUME NEW id \in CycleIds, Mint(id)
      PROVE  PruneChange
  BY <1>7 DEF Mint
<1>8. CASE TakeSnapshot
  BY <1>8 DEF TakeSnapshot
<1>9. CASE CollisionCheck
  BY <1>9 DEF CollisionCheck
<1>10. ASSUME NEW n \in Names, StagePut(n)
      PROVE  PruneChange
  BY <1>10 DEF StagePut, LoopOver
<1>11. ASSUME NEW n \in Names, MirrorPut(n)
      PROVE  PruneChange
  BY <1>11 DEF MirrorPut, LoopOver
<1>12. CASE CommitPut
  BY <1>12 DEF CommitPut, AfterCommit
<1>13. CASE BeforeMirrorFails
  BY <1>13 DEF BeforeMirrorFails
<1>14. CASE MirrorFails
  BY <1>14 DEF MirrorFails, RollBack
<1>15. CASE CommitFails
  BY <1>15 DEF CommitFails
<1>16. CASE Resolve
  BY <1>16 DEF Resolve, AfterCommit, RollBack
<1>17. CASE ResolveFails
  BY <1>17 DEF ResolveFails, RollBack
<1>18. ASSUME NEW n \in Names, RestoreKey(n)
      PROVE  PruneChange
  BY <1>18 DEF RestoreKey, LoopOver
<1>19. CASE RestoreFails
  BY <1>19 DEF RestoreFails
<1>20. CASE Raise
  BY <1>20 DEF Raise
<1>21. CASE PruneList
  BY <1>21 DEF PruneList
<1>22. CASE PruneListFails
  BY <1>22 DEF PruneListFails
<1>23. CASE PruneEnds
  BY <1>23 DEF PruneEnds
<1>24. ASSUME NEW c \in CycleIds, NEW n \in Names, PruneDelete(c, n)
      PROVE  PruneChange
  BY <1>24 DEF PruneDelete, Deleting, Deletes
<1>25. ASSUME NEW c \in CycleIds, NEW n \in Names, PruneDeleteFails(c, n)
      PROVE  PruneChange
  BY <1>25 DEF PruneDeleteFails, Deleting, GivesUp
<1>26. CASE Crash
  BY <1>26 DEF Crash
<1>27. CASE UNCHANGED vars
  BY <1>27 DEF vars, attempt
<1> QED
  BY <1>1, <1>2, <1>3, <1>4, <1>5, <1>6, <1>7, <1>8, <1>9, <1>10, <1>11, <1>12,
     <1>13, <1>14, <1>15, <1>16, <1>17, <1>18, <1>19, <1>20, <1>21, <1>22,
     <1>23, <1>24, <1>25, <1>26, <1>27
     DEF Next, Recovery, Collection, Publishing, Failing, Pruning

(* While cycles are deleted the spared ones stay.                           *)
LEMMA SpareStays ==
    ASSUME TypeOK, NEW c \in CycleIds, NEW n \in Names, Deletes(c, n) \/ GivesUp(c, n)
    PROVE  /\ Spare \subseteq Spare'
           /\ doomed' \subseteq doomed
           /\ Deletes(c, n) => Spare' = Spare
<1>0. staged \in [CycleIds -> Datasets] /\ cur' = cur /\ c \in doomed
  BY DEF TypeOK, Deletes, GivesUp
<1>1. \A d \in CycleIds \ {c} : HasObjects(d)' <=> HasObjects(d)
  BY <1>0 DEF Deletes, GivesUp, HasObjects
<1>2. doomed' \subseteq doomed /\ doomed \ {c} \subseteq doomed'
  BY DEF Deletes, GivesUp
<1>3. Spare \subseteq Spare'
  BY <1>0, <1>1, <1>2 DEF Spare, Others
<1>4. ASSUME Deletes(c, n) PROVE Spare' \subseteq Spare
  <2>1. CASE Only(c, n)
    <3>1. ~ HasObjects(c)'
      BY <1>0, <1>4, <2>1 DEF Deletes, HasObjects, Only, Datasets
    <3> QED BY <1>0, <1>1, <1>4, <2>1, <3>1 DEF Deletes, Spare, Others
  <2>2. CASE ~ Only(c, n)
    BY <1>0, <1>1, <1>4, <2>2 DEF Deletes, Spare, Others
  <2> QED BY <2>1, <2>2
<1> QED BY <1>2, <1>3, <1>4

LEMMA PruneKept ==
    ASSUME TypeOK, ProtocolInv, ReachedInv, PruneInv, [Next]_vars
    PROVE  PruneInv'
<1>0. ReachedInv' /\ PruneChange
  BY ReachedStep, PruneStep
<1>1. pc' \in {"list", "prune"} => trusted'
  BY <1>0 DEF PruneChange, PruneInv
<1>2. ASSUME pc' = "prune"
      PROVE  /\ \A c \in doomed' : Cardinality(Newer(c, Spare')) >= Retention - 1
             /\ swept' => Cardinality(Spare') <= Retention - 1
  <2>1. CASE pc = "list" /\ doomed' = Surplus /\ UNCHANGED <<staged, cur>>
    <3>1. Spare' = Others \ Surplus
      BY <2>1 DEF Spare, Others, HasObjects
    <3> QED BY <2>1, <3>1, SurplusIsOldest, RestIsSmall
  <2>2. CASE pc = "prune" /\ UNCHANGED <<staged, doomed, cur, swept>>
    <3>1. Spare' = Spare
      BY <2>2 DEF Spare, Others, HasObjects
    <3> QED BY <2>2, <3>1 DEF PruneInv
  <2>3. ASSUME NEW d \in CycleIds, NEW n \in Names, Deletes(d, n) \/ GivesUp(d, n)
        PROVE  /\ \A c \in doomed' : Cardinality(Newer(c, Spare')) >= Retention - 1
               /\ swept' => Cardinality(Spare') <= Retention - 1
    <3>1. pc = "prune" /\ Spare \subseteq Spare' /\ doomed' \subseteq doomed
      BY <2>3, SpareStays DEF Deletes, GivesUp
    <3>2. ASSUME NEW c \in doomed' PROVE Cardinality(Newer(c, Spare')) >= Retention - 1
      <4>1. Newer(c, Spare) \subseteq Newer(c, Spare') /\ Newer(c, Spare') \subseteq Spare'
        BY <3>1 DEF Newer
      <4>2. IsFiniteSet(Spare')
        <5>1. /\ Spare' \in SUBSET Nat /\ clock' \in Nat
              /\ \A u \in Spare' : u <= clock'
          BY <1>0, CycleIdsAssumption DEF ReachedInv, Spare, Others
        <5> QED BY <5>1, FS_BoundedSetOfNaturals
      <4>3. IsFiniteSet(Newer(c, Spare')) /\ IsFiniteSet(Newer(c, Spare))
        BY <4>1, <4>2, FS_Subset
      <4>4. Cardinality(Newer(c, Spare)) <= Cardinality(Newer(c, Spare'))
        BY <4>1, <4>3, FS_Subset
      <4>5. Cardinality(Newer(c, Spare)) >= Retention - 1
        BY <3>1, <3>2 DEF PruneInv
      <4> QED BY <4>3, <4>4, <4>5, FS_CardinalityType, NumbersAssumption
    <3>3. swept' => Cardinality(Spare') <= Retention - 1
      BY <2>3, <3>1, SpareStays DEF Deletes, GivesUp, PruneInv
    <3> QED BY <3>2, <3>3
  <2> QED BY <1>0, <1>2, <2>1, <2>2, <2>3 DEF PruneChange
<1>3. PruneBounds'
  <2> SUFFICES ASSUME pc' = "idle", outcome' = "published", trusted', swept'
               PROVE  Cardinality({c \in CycleIds : HasObjects(c)}') <= Retention
    BY DEF PruneBounds
  <2>1. CASE pc = "idle" /\ UNCHANGED <<staged, outcome, trusted, swept>>
    <3>1. {c \in CycleIds : HasObjects(c)}' = {c \in CycleIds : HasObjects(c)}
      BY <2>1 DEF HasObjects
    <3> QED BY <2>1, <3>1 DEF PruneInv, PruneBounds
  <2>2. CASE pc = "prune" /\ doomed = {} /\ UNCHANGED <<staged, cur, swept>>
    <3> DEFINE all == {c \in CycleIds : HasObjects(c)}
    <3>1. all' = all /\ Spare = Others /\ all \subseteq Others \cup {cur}
      BY <2>2 DEF HasObjects, Spare, Others
    <3>2. Cardinality(Others) <= Retention - 1
      BY <2>2, <3>1 DEF PruneInv
    <3>3. IsFiniteSet(Others) /\ Cardinality(Others) \in Nat
      BY FinitelyMany, FS_CardinalityType
    <3>4. /\ IsFiniteSet(Others \cup {cur})
          /\ Cardinality(Others \cup {cur}) <= Cardinality(Others) + 1
      BY <3>3, FS_AddElement
    <3>5. Cardinality(all) <= Cardinality(Others \cup {cur})
      BY <3>1, <3>4, FS_Subset
    <3>6. Cardinality(all) \in Nat /\ Cardinality(Others \cup {cur}) \in Nat
      BY <3>1, <3>4, FS_CardinalityType, FS_Subset
    <3>7. Cardinality(all) <= Retention
      <4> HIDE DEF all
      <4> QED BY <3>2, <3>3, <3>4, <3>5, <3>6, NumbersAssumption
    <3> QED BY <3>1, <3>7
  <2> QED BY <1>0, <2>1, <2>2 DEF PruneChange
<1> QED BY <1>1, <1>2, <1>3 DEF PruneInv

LEMMA PruneInit == Init => ReachedInv /\ PruneInv
<1> SUFFICES ASSUME Init PROVE ReachedInv /\ PruneInv
  OBVIOUS
<1>1. PruneInv
  BY DEF Init, PruneInv, PruneBounds
<1>2. cur \notin CycleIds /\ \A c \in CycleIds, n \in Names : NoCycles[c][n] = None
  BY MarkersAssumption DEF Init, NoCycles, Nothing
<1>3. CASE StartWithout
  <2>1. clock = 0 /\ staged = NoCycles
    BY <1>3 DEF StartWithout
  <2> QED BY <1>1, <1>2, <2>1 DEF ReachedInv, HasObjects
<1>4. CASE StartWith
  <2>1. PICK cycle : staged = [NoCycles EXCEPT ![Earlier] = cycle]
    BY <1>4 DEF StartWith
  <2>2. \A c \in CycleIds : HasObjects(c) => c = Earlier
    BY <1>2, <2>1 DEF HasObjects, NoCycles
  <2>3. clock = Earlier /\ Earlier \in Nat
    BY <1>4, CycleIdsAssumption DEF StartWith
  <2> QED BY <1>1, <1>2, <2>2, <2>3, CycleIdsAssumption DEF ReachedInv
<1> QED BY <1>1, <1>3, <1>4 DEF Init

(* Every reachable state has a clock that has reached its cycles and a prune *)
(* that spares the newest.                                                  *)
THEOREM PruneInvariance == Spec => [](TypeOK /\ ProtocolInv /\ ReachedInv /\ PruneInv)
<1>1. ReachedInv /\ PruneInv /\ TypeOK /\ ProtocolInv /\ [Next]_vars => (ReachedInv /\ PruneInv)'
  BY ReachedStep, PruneKept
<1> QED BY <1>1, PruneInit, Invariance, PTL DEF Spec

(* After a prune that reported no failure at most Retention cycles are left *)
(* in the bucket, those staged and never committed included.                *)
THEOREM PruneIsBounded == Spec => []PruneBounds
<1>1. PruneInv => PruneBounds
  BY DEF PruneInv
<1> QED BY <1>1, PruneInvariance, PTL

(* Only objects of surplus cycles are ever deleted below cycles/.           *)
Deletion ==
    \A c \in CycleIds :
        (\E n \in Names : staged[c][n] # None /\ staged'[c][n] = None) =>
           /\ trusted /\ c # pointer
           /\ Cardinality({d \in CycleIds \ {pointer} : d > c /\ HasObjects(d)})
                >= Retention - 1

LEMMA DeletionStep ==
    ASSUME TypeOK, ProtocolInv, ReachedInv, PruneInv, [Next]_vars
    PROVE  Deletion
<1> SUFFICES ASSUME NEW c \in CycleIds, NEW n \in Names,
                    staged[c][n] # None, staged'[c][n] = None
             PROVE  /\ trusted /\ c # pointer
                    /\ Cardinality({d \in CycleIds \ {pointer} : d > c /\ HasObjects(d)})
                         >= Retention - 1
  BY DEF Deletion
<1>0. staged \in [CycleIds -> Datasets]
  BY DEF TypeOK
<1>1. pc = "prune" /\ c \in doomed
  <2>1. ASSUME NEW m \in Names, Stages(m) PROVE FALSE
    BY <1>0, <2>1, BodyTyped, MarkersAssumption DEF Stages, Datasets
  <2>2. ASSUME NEW d \in CycleIds, NEW m \in Names, Prunes(d, m)
        PROVE  pc = "prune" /\ c \in doomed
    BY <1>0, <2>2 DEF Prunes, Datasets
  <2> QED BY <2>1, <2>2, StagedStep DEF StagedChange
<1>2. trusted /\ pointer = cur /\ cur \notin doomed
  BY <1>1 DEF PruneInv, ProtocolInv
<1> DEFINE kept == {d \in CycleIds \ {pointer} : d > c /\ HasObjects(d)}
<1>3. Newer(c, Spare) \subseteq kept
  BY <1>2 DEF Newer, Spare, Others
<1>4. IsFiniteSet(kept)
  <2>1. kept \subseteq {d \in CycleIds : HasObjects(d)}
    OBVIOUS
  <2> QED BY <2>1, FinitelyMany, FS_Subset
<1>5. /\ Cardinality(Newer(c, Spare)) <= Cardinality(kept)
      /\ Cardinality(Newer(c, Spare)) \in Nat /\ Cardinality(kept) \in Nat
  <2> HIDE DEF kept
  <2> QED BY <1>3, <1>4, FS_Subset, FS_CardinalityType
<1>6. Cardinality(Newer(c, Spare)) >= Retention - 1
  BY <1>1 DEF PruneInv
<1>7. Cardinality(kept) >= Retention - 1
  <2> HIDE DEF kept
  <2> QED BY <1>5, <1>6, NumbersAssumption
<1> QED BY <1>1, <1>2, <1>7

(* A prune deletes from none but the cycles beyond the Retention - 1 newest *)
(* others, never from the one the pointer names, and never without trust.   *)
THEOREM OnlySurplusIsDeleted == Spec => OnlySurplusDeleted
<1>1. TypeOK /\ ProtocolInv /\ ReachedInv /\ PruneInv /\ [Next]_vars => [Deletion]_vars
  BY DeletionStep
<1> QED BY <1>1, PruneInvariance, PTL DEF Spec, OnlySurplusDeleted, Deletion

-----------------------------------------------------------------------------
(* The refinement.                                                          *)

(* What a consumer that follows the pointer gets.                           *)
Live == IF PointerUsable THEN staged[pointer] ELSE None

(* The pointer moves only from a commit, to the cycle of the attempt.       *)
PointerChange ==
    \/ UNCHANGED pointer
    \/ /\ pc = "commit" /\ pointer' = cur /\ UNCHANGED staged
       /\ pc' \in {"list", "idle", "resolve"}

LEMMA PointerStep == ASSUME [Next]_vars PROVE PointerChange
<1> USE DEF PointerChange, bucket
<1>1. CASE BeginCycle
  BY <1>1 DEF BeginCycle
<1>2. CASE RecoverReads
  BY <1>2 DEF RecoverReads
<1>3. CASE RecoverRepairs
  BY <1>3 DEF RecoverRepairs
<1>4. CASE RecoverFails
  BY <1>4 DEF RecoverFails
<1>5. ASSUME NEW n \in Names, RepairPut(n)
      PROVE  PointerChange
  BY <1>5 DEF RepairPut
<1>6. ASSUME NEW how \in {"failed", "withheld"}, CollectEnds(how)
      PROVE  PointerChange
  BY <1>6 DEF CollectEnds
<1>7. ASSUME NEW id \in CycleIds, Mint(id)
      PROVE  PointerChange
  BY <1>7 DEF Mint
<1>8. CASE TakeSnapshot
  BY <1>8 DEF TakeSnapshot
<1>9. CASE CollisionCheck
  BY <1>9 DEF CollisionCheck
<1>10. ASSUME NEW n \in Names, StagePut(n)
      PROVE  PointerChange
  BY <1>10 DEF StagePut
<1>11. ASSUME NEW n \in Names, MirrorPut(n)
      PROVE  PointerChange
  BY <1>11 DEF MirrorPut
<1>12. CASE CommitPut
  BY <1>12 DEF CommitPut, AfterCommit
<1>13. CASE BeforeMirrorFails
  BY <1>13 DEF BeforeMirrorFails
<1>14. CASE MirrorFails
  BY <1>14 DEF MirrorFails
<1>15. CASE CommitFails
  BY <1>15 DEF CommitFails
<1>16. CASE Resolve
  BY <1>16 DEF Resolve
<1>17. CASE ResolveFails
  BY <1>17 DEF ResolveFails
<1>18. ASSUME NEW n \in Names, RestoreKey(n)
      PROVE  PointerChange
  BY <1>18 DEF RestoreKey
<1>19. CASE RestoreFails
  BY <1>19 DEF RestoreFails
<1>20. CASE Raise
  BY <1>20 DEF Raise
<1>21. CASE PruneList
  BY <1>21 DEF PruneList
<1>22. CASE PruneListFails
  BY <1>22 DEF PruneListFails
<1>23. CASE PruneEnds
  BY <1>23 DEF PruneEnds
<1>24. ASSUME NEW c \in CycleIds, NEW n \in Names, PruneDelete(c, n)
      PROVE  PointerChange
  BY <1>24 DEF PruneDelete
<1>25. ASSUME NEW c \in CycleIds, NEW n \in Names, PruneDeleteFails(c, n)
      PROVE  PointerChange
  BY <1>25 DEF PruneDeleteFails
<1>26. CASE Crash
  BY <1>26 DEF Crash
<1>27. CASE UNCHANGED vars
  BY <1>27 DEF vars
<1> QED
  BY <1>1, <1>2, <1>3, <1>4, <1>5, <1>6, <1>7, <1>8, <1>9, <1>10, <1>11, <1>12,
     <1>13, <1>14, <1>15, <1>16, <1>17, <1>18, <1>19, <1>20, <1>21, <1>22,
     <1>23, <1>24, <1>25, <1>26, <1>27
     DEF Next, Recovery, Collection, Publishing, Failing, Pruning

(* A whole dataset of this run: what one commit, or the last payload under  *)
(* a pointer that already named it, makes live.                             *)
LEMMA AttemptIsDataset ==
    ASSUME NEW s \in Datasets, \A n \in Names : s[n] = Body
    PROVE  s = Atomic!Dataset(cur, run)
BY DEF Atomic!Dataset, Datasets, Body

(* While the pointer stands still, what is live changes only by becoming    *)
(* usable.                                                                  *)
LEMMA StandingStep ==
    ASSUME DatasetInv, [Next]_vars, UNCHANGED pointer
    PROVE  Live' = Live \/ (Live = None /\ pc = "stage" /\ cur \in CycleIds
                               /\ Live' = Atomic!Dataset(cur, run))
<1>0. TypeOK /\ ProtocolInv /\ CycleInv /\ staged \in [CycleIds -> Datasets]
  BY DEF DatasetInv, TypeOK
<1>1. CASE UNCHANGED staged
  BY <1>1 DEF Live, PointerUsable, Whole
<1>2. ASSUME NEW n \in Names, Stages(n), pointer # cur
      PROVE  Live' = Live
  BY <1>0, <1>2 DEF Stages, Live, PointerUsable, Whole
<1>3. ASSUME NEW n \in Names, Stages(n), pointer = cur
      PROVE  /\ Live = None
             /\ Live' = None \/ Live' = Atomic!Dataset(cur, run)
  <2>1. staged[cur][n] = None
    BY <1>0, <1>3 DEF Stages, CycleInv
  <2>2. Live = None
    BY <1>3, <2>1 DEF Live, PointerUsable, Whole
  <2>3. \A m \in Names : staged'[cur][m] \in {None, Body}
    BY <1>0, <1>3 DEF Stages, ProtocolInv, CycleInv, Datasets
  <2>4. ASSUME PointerUsable' PROVE Live' = Atomic!Dataset(cur, run)
    <3>1. \A m \in Names : staged'[cur][m] = Body
      BY <1>3, <2>3, <2>4 DEF PointerUsable, Whole
    <3>2. staged'[cur] \in Datasets
      BY <1>0, <1>3, TypeStep DEF Stages, TypeOK
    <3>3. staged'[cur] = Atomic!Dataset(cur, run)
      BY <3>1, <3>2, AttemptIsDataset
    <3> QED BY <1>3, <2>4, <3>3 DEF Live
  <2> QED BY <2>2, <2>4 DEF Live
<1>4. ASSUME NEW c \in CycleIds, NEW n \in Names, Prunes(c, n)
      PROVE  Live' = Live
  <2>1. CASE PointerUsable
    <3>1. PointerUsable'
      BY <1>0, <2>1, AuthorityStep
    <3>2. c # pointer
      BY <1>0, <1>4, <3>1 DEF Prunes, PointerUsable, Whole, Datasets
    <3> QED BY <1>0, <1>4, <2>1, <3>1, <3>2 DEF Prunes, Live
  <2>2. CASE ~ PointerUsable
    <3>1. ASSUME PointerUsable' PROVE FALSE
      <4>1. c # pointer
        BY <1>0, <1>4, <3>1 DEF Prunes, PointerUsable, Whole, Datasets
      <4> QED BY <1>0, <1>4, <2>2, <3>1, <4>1 DEF Prunes, PointerUsable, Whole
    <3> QED BY <2>2, <3>1 DEF Live
  <2> QED BY <2>1, <2>2
<1> QED BY <1>0, <1>1, <1>2, <1>3, <1>4, StagedStep DEF StagedChange, Stages

(* A commit replaces what is live by the dataset of a later run.            *)
LEMMA MovingStep ==
    ASSUME DatasetInv, [Next]_vars, pc = "commit", pointer' = cur,
           pointer # cur, UNCHANGED staged
    PROVE  /\ Live' = Atomic!Dataset(cur, run) /\ cur \in CycleIds
           /\ Live # None => \A n \in Names : Live[n].run < run
<1>0. /\ TypeOK /\ ProtocolInv /\ CycleInv /\ cur \in CycleIds
      /\ staged[cur] \in Datasets
      /\ \A n \in Names : staged[cur][n] = Body /\ fixed[n] = Body
  BY DEF DatasetInv, TypeOK, ProtocolInv, Minted, AllStaged, AllMirrored
<1>1. Whole(cur) /\ staged[cur][Meta].id = cur
  BY <1>0, ReadyToCommit
<1>2. Live' = staged[cur]
  BY <1>0, <1>1 DEF Live, PointerUsable, Whole
<1>3. staged[cur] = Atomic!Dataset(cur, run)
  BY <1>0, AttemptIsDataset
<1>4. ASSUME PointerUsable, NEW n \in Names PROVE staged[pointer][n].run < run
  BY <1>0, <1>4 DEF CycleInv, Attempting, PointerUsable, Whole
<1> QED BY <1>0, <1>2, <1>3, <1>4 DEF Live

(* Every step of the protocol is a step of the atomic dataset, or none.     *)
LEMMA AtomicStep ==
    ASSUME DatasetInv, [Next]_vars
    PROVE  Live' = Live \/ \E id \in CycleIds, r \in 1..MaxRuns :
               /\ Live # None => \A n \in Names : Live[n].run < r
               /\ Live' = Atomic!Dataset(id, r)
<1>1. pc \in {"stage", "commit"} => run \in 1..MaxRuns
  BY NumbersAssumption DEF DatasetInv, TypeOK, CycleInv, Attempting
<1>2. CASE UNCHANGED pointer
  BY <1>1, <1>2, StandingStep
<1>3. CASE pc = "commit" /\ pointer' = cur /\ pointer # cur /\ UNCHANGED staged
  BY <1>1, <1>3, MovingStep
<1> QED BY <1>2, <1>3, PointerStep DEF PointerChange

(* An earlier process left nothing, or the dataset of its run.              *)
LEMMA AtomicInit == Init => Live = None \/ \E id \in CycleIds : Live = Atomic!Dataset(id, 0)
<1> SUFFICES ASSUME Init, PointerUsable
             PROVE  \E id \in CycleIds : staged[pointer] = Atomic!Dataset(id, 0)
  BY DEF Live
<1>1. StartWith
  BY MarkersAssumption DEF Init, StartWithout, PointerUsable
<1>2. /\ pointer = Earlier /\ Earlier \in CycleIds /\ run = 0
      /\ staged[Earlier] \in Datasets
  BY <1>1, TypeInit, CycleIdsAssumption DEF StartWith, Init, TypeOK
<1>3. PICK cycle \in [Names -> {EarlierBody, None}]
                 \cup {[[m \in Names |-> EarlierBody] EXCEPT ![Meta] = Legacy]} :
          staged[Earlier] = cycle
  BY <1>1, <1>2 DEF StartWith, NoCycles
<1>4. cycle[Meta] # Legacy
  BY <1>2, <1>3, MarkersAssumption DEF PointerUsable, Legacy
<1>5. \A m \in Names : staged[Earlier][m] = EarlierBody
  BY <1>2, <1>3, <1>4 DEF PointerUsable, Whole, Names
<1> QED BY <1>2, <1>5 DEF Atomic!Dataset, Datasets, EarlierBody

(* A consumer that reads current.json first sees one whole dataset at a     *)
(* time, and only the dataset of a later run in its place.                  *)
THEOREM DatasetIsAtomic == Spec => ImplementsAtomicDataset
<1>1. Init => Atomic!Init
  BY AtomicInit DEF Atomic!Init, Live
<1>2. DatasetInv /\ [Next]_vars
          => [Atomic!Next]_(IF PointerUsable THEN staged[pointer] ELSE None)
  BY AtomicStep DEF Atomic!Next, Atomic!Install, Live
<1> QED
  BY <1>1, <1>2, DatasetInvariance, PTL
     DEF Spec, ImplementsAtomicDataset, Atomic!Spec
=============================================================================
