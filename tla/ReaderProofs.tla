---------------------------- MODULE ReaderProofs ----------------------------
(***************************************************************************)
(* What a consumer accepts is one dataset, and a slow one keeps its objects *)
(* for the grace: for any names, IDs, retention, number of cycles and of    *)
(* faults, whether the clock steps back or not.                             *)
(***************************************************************************)
EXTENDS PublicationReaders, DatasetProofs

(* Whatever is in the bucket lies under an ID that has begun, and the ID of *)
(* an attempt is not the one the pointer names.                             *)
BegunInv ==
    /\ IsFiniteSet(begun)
    /\ \A c \in CycleIds : HasObjects(c) => c \in begun
    /\ cur # None => cur \in begun
    /\ pointer \in CycleIds => pointer \in begun
    /\ Attempting => cur # pointer

(* The cycle a consumer has resolved has begun before any attempt under way *)
(* or to come.                                                              *)
SeenInv ==
    /\ step # "away" => seen # None
    /\ seen # None => seen \in begun /\ (Attempting => seen # cur)
    /\ behind <= run /\ (Attempting => behind < run)

(* What it has fetched, and what is left under the ID it has resolved, are  *)
(* payloads of one run ...                                                  *)
Source(b) ==
    /\ b.id = seen
    /\ \A n \in Names : staged[seen][n] \in {None, b}
    /\ path = "pointer" => \A n \in Names : got[n] \in {None, b}
    /\ path = "legacy" /\ step \in {"compare", "recheck", "accepted"} /\ agree =>
           \A n \in Names \ left : got[n] = b

(* ... or the marker is not of that cycle and the attempt must fail.        *)
Foreign ==
    /\ staged[seen][Meta] = None \/ staged[seen][Meta].id # seen
    /\ path = "pointer" => got[Meta] = None \/ got[Meta].id # seen
    /\ step \in {"compare", "recheck"} /\ agree => Meta \in left
    /\ step # "accepted"

GotInv ==
    /\ seen # None => Foreign \/ \E b \in Bodies : Source(b)
    /\ step \in {"compare", "recheck", "accepted"} => Complete
    /\ step \in {"compare", "recheck"} => path = "legacy"
    /\ step \in {"recheck", "accepted"} => left = {}
    /\ step = "accepted" /\ path = "legacy" => agree

(* A cycle under way is the one resolved or among its rivals, and the       *)
(* resolved one is doomed only when it has enough of them.                  *)
GraceInv ==
    /\ since \subseteq begun
    /\ pc # "idle" /\ cur # None /\ seen # None => cur = seen \/ cur \in since
    /\ pc = "prune" /\ seen # None /\ seen \in doomed => Cardinality(Rivals(seen)) >= Retention
    /\ GraceInAttempts

ReaderInv == DatasetInv /\ BegunInv /\ ReaderTypeOK /\ SeenInv /\ GotInv /\ GraceInv

-----------------------------------------------------------------------------
(* The IDs the publisher mints.                                             *)

(* Staged objects lie under an ID that was there or is the attempt's own.   *)
LEMMA ObjectsStep ==
    ASSUME TypeOK, ProtocolInv, [Next]_vars, NEW c \in CycleIds, HasObjects(c)'
    PROVE  HasObjects(c) \/ (c = cur /\ pc = "stage" /\ UNCHANGED <<run, cur>>)
<1>1. PICK n \in Names : staged'[c][n] # None
  BY DEF HasObjects
<1> QED BY <1>1, Origin DEF HasObjects

(* An attempt keeps its ID until the next one is minted.                    *)
MintChange ==
    \/ /\ UNCHANGED run /\ cur' \in {cur, None}
       /\ pc = "idle" /\ pc' # "idle" => cur' = None
    \/ run' = run + 1 /\ cur' \in CycleIds /\ UNCHANGED <<staged, pointer>>

LEMMA MintStep ==
    ASSUME TypeOK, [Next]_vars
    PROVE  MintChange
<1> USE DEF MintChange, bucket, attempt
<1>1. CASE BeginCycle
  BY <1>1 DEF BeginCycle
<1>2. CASE RecoverReads
  BY <1>2 DEF RecoverReads
<1>3. CASE RecoverRepairs
  BY <1>3 DEF RecoverRepairs
<1>4. CASE RecoverFails
  BY <1>4 DEF RecoverFails
<1>5. ASSUME NEW n \in Names, RepairPut(n)
      PROVE  MintChange
  BY <1>5 DEF RepairPut
<1>6. ASSUME NEW how \in {"failed", "withheld"}, CollectEnds(how)
      PROVE  MintChange
  BY <1>6 DEF CollectEnds
<1>7. ASSUME NEW id \in CycleIds, Mint(id)
      PROVE  MintChange
  BY <1>7 DEF Mint
<1>8. CASE TakeSnapshot
  BY <1>8 DEF TakeSnapshot
<1>9. CASE CollisionCheck
  BY <1>9 DEF CollisionCheck
<1>10. ASSUME NEW n \in Names, StagePut(n)
      PROVE  MintChange
  BY <1>10 DEF StagePut
<1>11. ASSUME NEW n \in Names, MirrorPut(n)
      PROVE  MintChange
  BY <1>11 DEF MirrorPut
<1>12. CASE CommitPut
  BY <1>12 DEF CommitPut
<1>13. CASE BeforeMirrorFails
  BY <1>13 DEF BeforeMirrorFails
<1>14. CASE MirrorFails
  BY <1>14 DEF MirrorFails
<1>15. CASE CommitFails
  BY <1>15 DEF CommitFails
<1>16. CASE Resolve
  BY <1>16 DEF Resolve
<1>17. CASE ResolveFails
  BY <1>17 DEF ResolveFails
<1>18. ASSUME NEW n \in Names, RestoreKey(n)
      PROVE  MintChange
  BY <1>18 DEF RestoreKey
<1>19. CASE RestoreFails
  BY <1>19 DEF RestoreFails
<1>20. CASE Raise
  BY <1>20 DEF Raise
<1>21. CASE PruneList
  BY <1>21 DEF PruneList
<1>22. CASE PruneListFails
  BY <1>22 DEF PruneListFails
<1>23. CASE PruneEnds
  BY <1>23 DEF PruneEnds
<1>24. ASSUME NEW c \in CycleIds, NEW n \in Names, PruneDelete(c, n)
      PROVE  MintChange
  BY <1>24 DEF PruneDelete, Deleting
<1>25. ASSUME NEW c \in CycleIds, NEW n \in Names, PruneDeleteFails(c, n)
      PROVE  MintChange
  BY <1>25 DEF PruneDeleteFails, Deleting
<1>26. CASE Crash
  BY <1>26 DEF Crash
<1>27. CASE UNCHANGED vars
  BY <1>27 DEF vars
<1> QED
  BY <1>1, <1>2, <1>3, <1>4, <1>5, <1>6, <1>7, <1>8, <1>9, <1>10, <1>11, <1>12,
     <1>13, <1>14, <1>15, <1>16, <1>17, <1>18, <1>19, <1>20, <1>21, <1>22,
     <1>23, <1>24, <1>25, <1>26, <1>27
     DEF Next, Recovery, Collection, Publishing, Failing, Pruning

(* An ID begins when it is minted, and none begins twice.                   *)
LEMMA BegunStep ==
    ASSUME TypeOK, Publisher
    PROVE  \/ /\ UNCHANGED <<run, begun, since>> /\ cur' \in {cur, None}
              /\ pc = "idle" /\ pc' # "idle" => cur' = None
           \/ /\ run' = run + 1 /\ cur' \in CycleIds /\ cur' \notin begun
              /\ begun' = begun \cup {cur'} /\ UNCHANGED <<staged, pointer>>
              /\ since' = IF seen # None THEN since \cup {cur'} ELSE since
<1>1. run \in Nat /\ [Next]_vars
  BY NumbersAssumption DEF TypeOK, Publisher
<1> QED BY <1>1, MintStep DEF MintChange, Publisher, NewId, Minting

LEMMA BegunGrows ==
    ASSUME TypeOK, BegunInv, Publisher
    PROVE  IsFiniteSet(begun') /\ begun \subseteq begun' /\ since \subseteq since'
<1>1. begun' = begun \cup {cur'} \/ begun' = begun
  BY BegunStep
<1>2. IsFiniteSet(begun')
  BY <1>1, FS_AddElement DEF BegunInv
<1> QED BY <1>1, <1>2, BegunStep

LEMMA BegunKept ==
    ASSUME TypeOK, ProtocolInv, BegunInv, Publisher
    PROVE  BegunInv'
<1>0. [Next]_vars /\ None \notin CycleIds /\ begun \subseteq begun'
  BY BegunGrows, MarkersAssumption DEF Publisher
<1>1. ASSUME NEW c \in CycleIds, HasObjects(c)' PROVE c \in begun'
  BY <1>0, <1>1, ObjectsStep DEF BegunInv
<1>2. cur' # None => cur' \in begun'
  BY <1>0, BegunStep DEF BegunInv
<1>3. pointer' \in CycleIds => pointer' \in begun'
  BY <1>0, PointerStep DEF PointerChange, BegunInv
<1>4. Attempting' => cur' # pointer'
  <2>1. ASSUME Attempting' PROVE pointer' = pointer
    BY <1>0, <2>1, PointerStep DEF PointerChange, Attempting
  <2>2. CASE run' = run + 1 /\ cur' \in CycleIds /\ cur' \notin begun
    BY <2>1, <2>2 DEF BegunInv
  <2>3. CASE UNCHANGED run
    <3>1. run \in Nat
      BY NumbersAssumption DEF TypeOK
    <3> QED BY <1>0, <2>1, <2>3, <3>1, AttemptStep DEF Advances, BegunInv
  <2> QED BY <2>2, <2>3, BegunStep
<1> QED BY <1>1, <1>2, <1>3, <1>4, BegunGrows DEF BegunInv

-----------------------------------------------------------------------------
(* The consumer's steps and the publisher's.                                *)

(* What the consumer does leaves the publisher alone.                       *)
LEMMA TwoSides ==
    ASSUME [ReaderNext]_readerVars
    PROVE  Publisher \/ Reader \/ UNCHANGED readerVars
BY DEF ReaderNext

LEMMA ReaderIsAside == Reader => UNCHANGED vars
BY DEF Reader, ResolvePointer, Fetch, Compare, Fetched, Recheck, Leave

(* A resolved cycle is never written to again; it can only be pruned.       *)
LEMMA Shrinks ==
    ASSUME TypeOK, ProtocolInv, SeenInv, seen \in CycleIds, [Next]_vars,
           NEW n \in Names
    PROVE  staged'[seen][n] \in {None, staged[seen][n]}
<1>1. ASSUME pc = "stage", seen = cur PROVE FALSE
  BY <1>1, MarkersAssumption DEF Attempting, SeenInv
<1> QED BY <1>1, Origin

(* The publisher's commits count the runs, one at most for each.            *)
LEMMA PublisherKeepsSeen ==
    ASSUME TypeOK, ProtocolInv, BegunInv, ReaderTypeOK, SeenInv, Publisher
    PROVE  ReaderTypeOK' /\ SeenInv'
<1>0. /\ [Next]_vars /\ run \in Nat /\ run' \in 0..MaxRuns /\ behind \in Nat
      /\ MaxRuns \in Nat
  BY NumbersAssumption, AttemptStep DEF TypeOK, ReaderTypeOK, Advances, Publisher
<1>1. Attempting' => (Attempting /\ UNCHANGED <<run, cur>>) \/ run' = run + 1
  BY <1>0, AttemptStep DEF Advances
<1>2. begun' \in SUBSET CycleIds /\ since' \in SUBSET CycleIds /\ begun \subseteq begun'
  BY BegunStep, BegunGrows DEF ReaderTypeOK
<1>3. seen' # None => seen' \in begun' /\ (Attempting' => seen' # cur')
  <2> SUFFICES ASSUME seen # None
               PROVE  seen \in begun /\ (Attempting' => seen # cur')
    BY <1>2 DEF Publisher, reader
  <2>1. CASE UNCHANGED run
    BY <1>0, <1>1, <2>1 DEF SeenInv
  <2>2. CASE cur' \notin begun
    BY <2>2 DEF SeenInv
  <2> QED BY <2>1, <2>2, BegunStep DEF SeenInv
<1>4. behind' <= run' /\ (Attempting' => behind' < run') /\ behind' \in Nat
  <2>1. UNCHANGED run \/ run' = run + 1
    BY BegunStep
  <2>2. CASE UNCHANGED pointer
    BY <1>0, <1>1, <2>1, <2>2 DEF SeenInv, Publisher
  <2>3. CASE pc = "commit" /\ pc' \in {"list", "idle", "resolve"}
    <3>1. Attempting /\ ~ Attempting'
      BY <2>3 DEF Attempting
    <3> QED BY <1>0, <2>1, <3>1 DEF SeenInv, Publisher
  <2> QED BY <1>0, <2>2, <2>3, PointerStep DEF PointerChange
<1>5. behind' \in 0..MaxRuns
  BY <1>0, <1>4
<1> QED
  BY <1>2, <1>3, <1>4, <1>5 DEF SeenInv, ReaderTypeOK, Publisher, reader

(* The publisher takes nothing away that a consumer has, and adds nothing   *)
(* under the ID it has resolved.                                            *)
LEMMA PublisherKeepsGot ==
    ASSUME TypeOK, ProtocolInv, ReaderTypeOK, SeenInv, GotInv, Publisher
    PROVE  GotInv'
<1> USE DEF Publisher, reader
<1>1. ASSUME seen # None
      PROVE  seen \in CycleIds /\ \A n \in Names : staged'[seen][n] \in {None, staged[seen][n]}
  BY <1>1, Shrinks DEF ReaderTypeOK
<1>2. ASSUME NEW b \in Bodies, seen # None, Source(b) PROVE Source(b)'
  BY <1>1, <1>2 DEF Source
<1>3. ASSUME seen # None, Foreign PROVE Foreign'
  BY <1>1, <1>3 DEF Foreign, Names
<1> QED BY <1>2, <1>3 DEF GotInv, Complete

(* The consumer's own steps keep the types, and what it has resolved.       *)
LEMMA ReaderKeepsSeen ==
    ASSUME TypeOK, BegunInv, CycleInv, ReaderTypeOK, SeenInv, Reader
    PROVE  ReaderTypeOK' /\ SeenInv'
<1> USE DEF history
<1>0. /\ UNCHANGED vars /\ Attempting' = Attempting /\ 0 \in 0..MaxRuns /\ run \in Nat
      /\ MaxRuns \in Nat /\ Nothing \in Datasets /\ None \notin CycleIds
  BY ReaderIsAside, NumbersAssumption, NothingTyped, MarkersAssumption
     DEF TypeOK, vars, Attempting, attempt
<1>ran. Attempting => 0 < run
  BY <1>0 DEF CycleInv
<1>1. ASSUME NEW how \in {"pointer", "legacy"}, ResolvePointer(how)
      PROVE  ReaderTypeOK' /\ SeenInv'
  <2>0. since' \in SUBSET CycleIds /\ intact' \in BOOLEAN
    BY <1>1 DEF ResolvePointer, UnderWay, TypeOK, PointerUsable
  <2>1. ReaderTypeOK'
    BY <1>0, <1>1, <2>0 DEF ResolvePointer, Readable, ReaderTypeOK
  <2> QED
    BY <1>0, <1>1, <2>1, <1>ran DEF ResolvePointer, Readable, SeenInv, BegunInv,
       vars, attempt
<1>2. ASSUME NEW n \in Names, Fetch(n) PROVE ReaderTypeOK' /\ SeenInv'
  <2>1. got' \in Datasets
    <3>1. CASE path = "pointer"
      BY <1>2, <3>1, PutTyped, ObjectsTyped DEF Fetch, AtNamedKey,
         ReaderTypeOK, SeenInv, TypeOK
    <3>2. CASE path = "legacy"
      BY <1>2, <3>2, PutTyped, ObjectsTyped DEF Fetch, ReaderTypeOK, TypeOK
    <3> QED BY <3>1, <3>2 DEF ReaderTypeOK
  <2> QED
    BY <1>0, <1>2, <2>1 DEF Fetch, ReaderTypeOK, SeenInv, vars, attempt
<1>3. ASSUME NEW n \in Names, Compare(n) PROVE ReaderTypeOK' /\ SeenInv'
  BY <1>0, <1>3 DEF Compare, ReaderTypeOK, SeenInv, vars, attempt
<1>4. CASE Fetched
  BY <1>0, <1>4 DEF Fetched, ReaderTypeOK, SeenInv, vars, attempt
<1>5. CASE Recheck
  BY <1>0, <1>5 DEF Recheck, ReaderTypeOK, SeenInv, vars, attempt
<1>6. CASE Leave
  <2>1. intact' \in BOOLEAN
    BY <1>6 DEF Leave
  <2>2. ReaderTypeOK'
    BY <1>0, <1>6, <2>1 DEF Leave, ReaderTypeOK
  <2> QED BY <1>0, <1>6, <1>ran, <2>2 DEF Leave, SeenInv, vars, attempt
<1> QED BY <1>1, <1>2, <1>3, <1>4, <1>5, <1>6 DEF Reader

(* Whatever it fetches and compares next is of the same run, or shows that  *)
(* the attempt must fail.                                                   *)
LEMMA ReaderKeepsGot ==
    ASSUME TypeOK, CycleInv, ReaderTypeOK, SeenInv, GotInv, Reader
    PROVE  GotInv'
<1> USE DEF history, Complete
<1>0. UNCHANGED staged /\ UNCHANGED pointer /\ Meta \in Names
  BY ReaderIsAside DEF vars, bucket, Names
<1>1. ASSUME NEW how \in {"pointer", "legacy"}, ResolvePointer(how) PROVE GotInv'
  <2>1. pointer \in CycleIds /\ Uniform(pointer) /\ seen' = pointer
    BY <1>1 DEF ResolvePointer, Readable, CycleInv
  <2>2. CASE staged[pointer][Meta] # None /\ staged[pointer][Meta].id = pointer
    <3>1. PICK b \in Bodies : b = staged[pointer][Meta]
      BY <1>0, <2>1, <2>2 DEF TypeOK, Datasets, Objects
    <3>2. \A n \in Names : staged'[seen'][n] \in {None, b} /\ got'[n] = None
      BY <1>0, <1>1, <2>1, <2>2, <3>1 DEF ResolvePointer, Uniform, Nothing
    <3>3. Source(b)'
      BY <1>1, <2>1, <2>2, <3>1, <3>2 DEF ResolvePointer, Source
    <3> QED BY <1>1, <3>3 DEF ResolvePointer, GotInv
  <2>3. CASE staged[pointer][Meta] = None \/ staged[pointer][Meta].id # pointer
    BY <1>0, <1>1, <2>1, <2>3 DEF ResolvePointer, Foreign, Nothing, GotInv
  <2> QED BY <2>2, <2>3
<1>2. ASSUME NEW n \in Names, Fetch(n) PROVE GotInv'
  <2>1. seen # None /\ seen' = seen /\ step = "fetch" /\ step' = "fetch" /\ path' = path
    BY <1>2 DEF Fetch, SeenInv
  <2>2. got \in Datasets
    BY DEF ReaderTypeOK
  <2>3. ASSUME NEW b \in Bodies, Source(b) PROVE Source(b)'
    BY <1>0, <1>2, <2>1, <2>2, <2>3 DEF Fetch, AtNamedKey, Source, Datasets
  <2>4. ASSUME Foreign PROVE Foreign'
    BY <1>0, <1>2, <2>1, <2>2, <2>4 DEF Fetch, AtNamedKey, Foreign, Datasets
  <2> QED BY <2>1, <2>3, <2>4 DEF GotInv
<1>3. CASE Fetched
  <2>1. seen # None /\ UNCHANGED <<seen, got, path, agree>> /\ step = "fetch"
    BY <1>3 DEF Fetched, SeenInv
  <2>2. ASSUME NEW b \in Bodies, Source(b) PROVE Source(b)'
    BY <1>0, <1>3, <2>1, <2>2 DEF Fetched, Source
  <2>3. ASSUME Foreign PROVE Foreign'
    BY <1>0, <1>3, <2>1, <2>3 DEF Fetched, Foreign, ReaderTypeOK
  <2>4. /\ step' \in {"compare", "recheck", "accepted"} => Complete'
        /\ step' \in {"compare", "recheck"} => path' = "legacy"
        /\ step' \in {"recheck", "accepted"} => left' = {}
        /\ step' = "accepted" /\ path' = "legacy" => agree'
    BY <1>3, <2>1 DEF Fetched, ReaderTypeOK
  <2> QED BY <2>1, <2>2, <2>3, <2>4 DEF GotInv
<1>4. ASSUME NEW n \in Names, Compare(n) PROVE GotInv'
  <2>1. /\ seen # None /\ UNCHANGED <<seen, got, path>> /\ step = "compare"
        /\ step' \in {"compare", "recheck"} /\ path = "legacy"
        /\ left' = left \ {n} /\ agree' = (agree /\ got[n] = staged[seen][n])
        /\ step' = "recheck" => left' = {}
        /\ Complete
    BY <1>4 DEF Compare, Matches, SeenInv, GotInv
  <2>2. ASSUME NEW b \in Bodies, Source(b) PROVE Source(b)'
    BY <1>0, <2>1, <2>2 DEF Source
  <2>3. ASSUME Foreign PROVE Foreign'
    <3>1. ASSUME agree' PROVE n # Meta /\ Meta \in left
      BY <1>0, <2>1, <2>3, <3>1 DEF Foreign
    <3> QED BY <1>0, <2>1, <2>3, <3>1 DEF Foreign
  <2> QED BY <2>1, <2>2, <2>3 DEF GotInv
<1>5. CASE Recheck
  <2>1. /\ seen # None /\ UNCHANGED <<seen, got, path, left, agree>> /\ step = "recheck"
        /\ step' \in {"accepted", "rejected"} /\ (step' = "accepted" => agree)
        /\ left = {} /\ Complete
    BY <1>5 DEF Recheck, SeenInv, GotInv
  <2>2. ASSUME NEW b \in Bodies, Source(b) PROVE Source(b)'
    BY <1>0, <2>1, <2>2 DEF Source
  <2>3. ASSUME Foreign PROVE Foreign'
    BY <1>0, <2>1, <2>3 DEF Foreign
  <2> QED BY <2>1, <2>2, <2>3 DEF GotInv
<1>6. CASE Leave
  BY <1>6 DEF Leave, GotInv
<1> QED BY <1>1, <1>2, <1>3, <1>4, <1>5, <1>6 DEF Reader

-----------------------------------------------------------------------------
(* The grace.                                                               *)

(* The surplus of a prune is counted once, and can only shrink.             *)
DoomedChange ==
    pc' = "prune" =>
        \/ pc = "prune" /\ doomed' \subseteq doomed
        \/ pc = "list" /\ doomed' = Surplus

LEMMA DoomedStep == ASSUME [Next]_vars, TypeOK PROVE DoomedChange
BY PruneStep DEF PruneChange, Deletes, GivesUp, DoomedChange

(* Retention - 1 newer cycles and the one just committed come before a      *)
(* resolved one that is surplus.                                            *)
LEMMA SurplusIsOld ==
    ASSUME TypeOK, ProtocolInv, BegunInv, GraceInv, pc = "list",
           seen \in CycleIds, seen \in Surplus
    PROVE  Cardinality(Rivals(seen)) >= Retention
<1> DEFINE newer == Newer(seen, Others)
<1>1. seen \in Others /\ Cardinality(newer) >= Retention - 1
  BY DEF Surplus
<1>2. newer \cup {cur} \subseteq Rivals(seen) /\ cur \notin newer
  <2>1. newer \subseteq Rivals(seen)
    BY DEF Newer, Others, BegunInv, Rivals
  <2>2. cur \in CycleIds /\ seen # cur /\ seen # None
    BY <1>1, MarkersAssumption DEF ProtocolInv, Minted, Others
  <2>3. cur \in since
    BY <2>2, MarkersAssumption DEF GraceInv
  <2> QED BY <2>1, <2>3 DEF Newer, Others, Rivals
<1>3. IsFiniteSet(Rivals(seen))
  BY FS_Subset DEF BegunInv, GraceInv, Rivals
<1>4. IsFiniteSet(newer) /\ Cardinality(newer \cup {cur}) <= Cardinality(Rivals(seen))
  BY <1>2, <1>3, FS_Subset
<1>5. Cardinality(newer \cup {cur}) = Cardinality(newer) + 1
  BY <1>2, <1>4, FS_AddElement
<1>6. Cardinality(newer) \in Nat /\ Cardinality(Rivals(seen)) \in Nat
  BY <1>3, <1>4, FS_CardinalityType
<1> QED BY <1>1, <1>4, <1>5, <1>6, NumbersAssumption

(* Rivals only gain in number while the consumer reads.                     *)
LEMMA RivalsGrow ==
    ASSUME TypeOK, BegunInv, GraceInv, Publisher
    PROVE  /\ since' \subseteq begun'
           /\ Cardinality(Rivals(seen)) \in Nat /\ Cardinality(Rivals(seen)') \in Nat
           /\ Cardinality(Rivals(seen)) <= Cardinality(Rivals(seen)')
<1>1. begun \subseteq begun' /\ since \subseteq since' /\ IsFiniteSet(begun')
  BY BegunGrows
<1>2. since' \subseteq begun'
  BY BegunStep DEF GraceInv
<1>3. Rivals(seen)' \subseteq begun' /\ Rivals(seen) \subseteq Rivals(seen)'
  BY <1>1, <1>2 DEF Rivals, Publisher, reader
<1>4. IsFiniteSet(Rivals(seen)')
  BY <1>1, <1>3, FS_Subset
<1> QED BY <1>2, <1>3, <1>4, FS_Subset, FS_CardinalityType

LEMMA PublisherKeepsGrace ==
    ASSUME DatasetInv, BegunInv, ReaderTypeOK, GraceInv, Publisher
    PROVE  GraceInv'
<1>0. TypeOK /\ ProtocolInv /\ [Next]_vars /\ UNCHANGED <<seen, intact>>
  BY DEF DatasetInv, Publisher, reader
<1>1. /\ Cardinality(Rivals(seen)) \in Nat /\ Cardinality(Rivals(seen)') \in Nat
      /\ Cardinality(Rivals(seen)) <= Cardinality(Rivals(seen)')
  BY <1>0, RivalsGrow
<1>2. pc' # "idle" /\ cur' # None /\ seen' # None => cur' = seen' \/ cur' \in since'
  BY <1>0, BegunStep DEF GraceInv
<1>3. ASSUME pc' = "prune", seen # None, seen \in doomed'
      PROVE  Cardinality(Rivals(seen)') >= Retention
  <2>1. Cardinality(Rivals(seen)) >= Retention
    <3>1. CASE pc = "prune" /\ doomed' \subseteq doomed
      BY <1>3, <3>1 DEF GraceInv
    <3>2. CASE pc = "list" /\ doomed' = Surplus
      <4>1. seen \in CycleIds
        BY <1>3 DEF ReaderTypeOK
      <4> QED BY <1>0, <1>3, <3>2, <4>1, SurplusIsOld
    <3> QED BY <1>0, <1>3, <3>1, <3>2, DoomedStep DEF DoomedChange
  <2> QED BY <1>1, <2>1, NumbersAssumption
<1>4. GraceInAttempts'
  <2> SUFFICES ASSUME seen # None, intact, Cardinality(Rivals(seen)') < Retention
               PROVE  Whole(seen)'
    BY <1>0 DEF GraceInAttempts
  <2>1. Cardinality(Rivals(seen)) < Retention /\ seen \in CycleIds
    BY <1>1, NumbersAssumption DEF ReaderTypeOK
  <2>2. Whole(seen) /\ staged \in [CycleIds -> Datasets]
    BY <1>0, <2>1 DEF GraceInv, GraceInAttempts, TypeOK
  <2>3. CASE UNCHANGED staged
    BY <1>0, <2>2, <2>3 DEF Whole
  <2>4. ASSUME NEW n \in Names, Stages(n) PROVE Whole(seen)'
    <3>1. Body # None
      BY <1>0, BodyTyped, MarkersAssumption
    <3> QED BY <1>0, <2>1, <2>2, <2>4, <3>1 DEF Stages, Whole, Datasets
  <2>5. ASSUME NEW c \in CycleIds, NEW n \in Names, Prunes(c, n) PROVE Whole(seen)'
    <3>1. c # seen
      BY <1>1, <2>1, <2>5, NumbersAssumption DEF Prunes, GraceInv
    <3> QED BY <1>0, <2>1, <2>2, <2>5, <3>1 DEF Prunes, Whole
  <2> QED BY <1>0, <2>3, <2>4, <2>5, StagedStep DEF StagedChange
<1>5. since' \subseteq begun'
  BY <1>0, RivalsGrow
<1>6. pc' = "prune" /\ seen' # None /\ seen' \in doomed' => Cardinality(Rivals(seen)') >= Retention
  BY <1>0, <1>3
<1> QED BY <1>2, <1>4, <1>5, <1>6 DEF GraceInv

(* The consumer's grace begins with a complete cycle, which is not doomed:  *)
(* it is the one a prune has just committed.                                *)
LEMMA ReaderKeepsGrace ==
    ASSUME ProtocolInv, BegunInv, GraceInv, Reader
    PROVE  GraceInv'
<1>0. UNCHANGED <<staged, pc, cur, doomed, begun, pointer>>
  BY ReaderIsAside
     DEF vars, bucket, attempt, Reader, ResolvePointer, Fetch, Compare, Fetched,
         Recheck, Leave, history
<1>1. ASSUME NEW how \in {"pointer", "legacy"}, ResolvePointer(how)
      PROVE  GraceInv'
  <2>1. since' \subseteq begun' /\ (pc # "idle" /\ cur # None => cur = pointer \/ cur \in since')
    BY <1>0, <1>1 DEF ResolvePointer, UnderWay, BegunInv
  <2>2. pc = "prune" => pointer \notin doomed
    BY DEF ProtocolInv
  <2>3. GraceInAttempts'
    BY <1>0, <1>1 DEF ResolvePointer, PointerUsable, Whole, GraceInAttempts
  <2>4. seen' = pointer
    BY <1>1 DEF ResolvePointer
  <2> QED BY <1>0, <2>1, <2>2, <2>3, <2>4 DEF GraceInv
<1>2. CASE Leave
  <2>1. seen' = None /\ since' = {} /\ GraceInAttempts'
    BY <1>2 DEF Leave, GraceInAttempts
  <2> QED BY <1>0, <2>1 DEF GraceInv
<1>3. CASE UNCHANGED <<seen, intact, since>>
  BY <1>0, <1>3 DEF GraceInv, GraceInAttempts, Whole, Rivals
<1> QED
  BY <1>1, <1>2, <1>3 DEF Reader, Fetch, Compare, Fetched, Recheck, history

-----------------------------------------------------------------------------
(* The theorems.                                                            *)

(* A consumer starts with nothing, beside whatever the publisher finds.     *)
LEMMA ReaderStarts == ReaderInit => ReaderInv
<1> SUFFICES ASSUME ReaderInit PROVE ReaderInv
  OBVIOUS
<1>1. DatasetInv
  BY DatasetInit DEF ReaderInit
<1>2. pc = "idle" /\ cur = None /\ run = 0 /\ clock \in Nat
  BY CycleIdsAssumption DEF ReaderInit, Init, StartWithout, StartWith
<1>3. begun \subseteq {Earlier}
  <2>1. ASSUME NEW c \in CycleIds, HasObjects(c) \/ pointer = c PROVE c = Earlier
    BY <2>1, MarkersAssumption
       DEF ReaderInit, Init, StartWithout, StartWith, NoCycles, Nothing, HasObjects
  <2> QED BY <2>1 DEF ReaderInit
<1>4. BegunInv
  <2>1. IsFiniteSet(begun)
    BY <1>3, FS_Singleton, FS_Subset
  <2> QED BY <1>2, <2>1 DEF ReaderInit, BegunInv, Attempting
<1>5. ReaderTypeOK
  BY NothingTyped, ZeroTyped DEF ReaderInit, ReaderTypeOK
<1>6. SeenInv /\ GotInv
  BY <1>2 DEF ReaderInit, SeenInv, GotInv, Attempting
<1>7. GraceInv
  BY <1>2 DEF ReaderInit, GraceInv, GraceInAttempts
<1> QED BY <1>1, <1>4, <1>5, <1>6, <1>7 DEF ReaderInv

(* Every step of either side keeps the invariant.                           *)
LEMMA ReaderStep ==
    ASSUME ReaderInv, [ReaderNext]_readerVars
    PROVE  ReaderInv'
<1>0. /\ DatasetInv /\ TypeOK /\ ProtocolInv /\ CycleInv
      /\ BegunInv /\ ReaderTypeOK /\ SeenInv /\ GotInv /\ GraceInv
  BY DEF ReaderInv, DatasetInv
<1>1. [Next]_vars
  BY TwoSides, ReaderIsAside DEF Publisher, readerVars
<1>2. DatasetInv'
  BY <1>0, <1>1, TypeStep, ProtocolStep, TrustStep, RollbackStep, RunStep
     DEF DatasetInv
<1>3. CASE Publisher
  <2>1. ReaderTypeOK' /\ SeenInv' /\ BegunInv'
    BY <1>0, <1>3, PublisherKeepsSeen, BegunKept
  <2>2. GotInv' /\ GraceInv'
    BY <1>0, <1>3, PublisherKeepsGot, PublisherKeepsGrace
  <2> QED BY <1>2, <2>1, <2>2 DEF ReaderInv
<1>4. CASE Reader
  <2>0. BegunInv'
    BY <1>0, <1>4, ReaderIsAside DEF BegunInv, Reader, ResolvePointer, Fetch, Compare,
       Fetched, Recheck, Leave, history, vars, bucket, attempt, HasObjects, Attempting
  <2>1. ReaderTypeOK' /\ SeenInv'
    BY <1>0, <1>4, ReaderKeepsSeen
  <2>2. GotInv' /\ GraceInv'
    BY <1>0, <1>4, ReaderKeepsGot, ReaderKeepsGrace
  <2> QED BY <1>2, <2>0, <2>1, <2>2 DEF ReaderInv
<1>5. CASE UNCHANGED readerVars
  <2> USE <1>5 DEF readerVars, reader, history, vars, bucket, attempt
  <2>1. ReaderTypeOK' /\ SeenInv' /\ BegunInv'
    BY <1>0 DEF ReaderTypeOK, SeenInv, BegunInv, Attempting, HasObjects
  <2>2. GotInv'
    BY <1>0 DEF GotInv, Source, Foreign, Complete
  <2>3. GraceInv'
    BY <1>0 DEF GraceInv, Rivals, GraceInAttempts, Whole
  <2> QED BY <1>2, <2>1, <2>2, <2>3 DEF ReaderInv
<1> QED BY <1>3, <1>4, <1>5, TwoSides

(* Every reachable state satisfies the strengthened invariant.              *)
THEOREM ReaderInvariance == ReaderSpec => []ReaderInv
<1>1. ReaderInv /\ [ReaderNext]_readerVars => ReaderInv'
  BY ReaderStep
<1> QED BY <1>1, ReaderStarts, PTL DEF ReaderSpec

(* Every variable of the consumer keeps its type; in particular the commits *)
(* since it resolved the pointer are no more than the runs.                 *)
THEOREM ReaderTypeCorrect == ReaderSpec => []ReaderTypeOK
<1>1. ReaderInv => ReaderTypeOK
  BY DEF ReaderInv
<1> QED BY <1>1, ReaderInvariance, PTL

(* What a consumer accepts, on either path, is the dataset of one run.      *)
THEOREM AcceptedIsOneDataset == ReaderSpec => []AcceptedIsWhole
<1>1. ReaderInv => AcceptedIsWhole
  <2> SUFFICES ASSUME ReaderInv, step = "accepted"
               PROVE  \E b \in Bodies : b.id = seen /\ \A n \in Names : got[n] = b
    BY DEF AcceptedIsWhole
  <2>1. /\ seen # None /\ left = {} /\ path \in {"pointer", "legacy"} /\ Complete
        /\ path = "legacy" => agree
    BY DEF ReaderInv, SeenInv, GotInv, ReaderTypeOK
  <2>2. PICK b \in Bodies : Source(b)
    BY <2>1 DEF ReaderInv, GotInv, Foreign
  <2> QED BY <2>1, <2>2 DEF Source, Complete
<1> QED BY <1>1, ReaderInvariance, PTL

(* A consumer that resolved a complete cycle finds all of it while fewer    *)
(* than Retention others can be ranked before it, under a clock that may    *)
(* step back.                                                               *)
THEOREM GraceIsGranted == ReaderSpec => []GraceInAttempts
<1>1. ReaderInv => GraceInAttempts
  BY DEF ReaderInv, GraceInv
<1> QED BY <1>1, ReaderInvariance, PTL
=============================================================================
