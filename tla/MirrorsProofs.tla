--------------------------- MODULE MirrorsProofs ---------------------------
(* Theorems about the collections and the mirrors for any set of             *)
(* repositories, page size, volume at the start and number of faults.        *)
EXTENDS Mirrors, EnumerationProofs, FiniteSetTheorems

(* Nothing is counted before the loop over the repositories, and nothing is  *)
(* left to do when the cycle is published.                                   *)
StatsInv ==
    /\ StatsPartition
    /\ pc \in {"idle", "walk", "prune"} =>
           scanned = {} /\ failed = {} /\ stale = {} /\ partial = {}
    /\ pc = "publish" => todo = {} /\ ~Degraded

(* A mirror is whole from a fetch or a clone to its scan.                    *)
WholeInv ==
    /\ RefreshedIsWhole
    /\ pc \in {"deepen", "deepening"} => Usable(disk[cur])
    /\ pc = "deepening" => DeepenMore

(* Only mirrors of what is not listed are doomed, and none without a listing.*)
SweepInv ==
    /\ pc # "prune" => doomed = {}
    /\ \A r \in Repos : <<r, "mirror">> \in doomed => r \notin live /\ live # {}

(* What the cycle owes was shown by the forge when the walk began, so it is  *)
(* listed when the walk ends; what is cloned anew is not owed.               *)
OwedInv ==
    ~disturbed /\ (lied => live = {}) =>
        /\ \A r \in owed : Usable(disk[r])
        /\ walk = "page" => owed \subseteq steady \ Hidden
        /\ walk = "listed" => live = {} \/ owed \subseteq live
        /\ pc \in {"discard", "clone", "cloning", "install", "rename"} => cur \notin owed

MirrorInv == TypeOK /\ WalkInv /\ StatsInv /\ WholeInv /\ SweepInv /\ OwedInv

-----------------------------------------------------------------------------
(* A cycle sees the forge only through the steps of the walk.                *)
LEMMA StepIsWalk ==
    ASSUME [Next]_vars
    PROVE  [WalkNext]_walkVars
<1>1. CASE ForgeChanges /\ UNCHANGED mirrorVars
  BY <1>1 DEF ForgeChanges, Created, Deleted, mirrorVars, loopVars, statsVars,
     WalkNext, forgeVars, walkVars
<1>2. CASE BeginCycle
  BY <1>2 DEF BeginCycle, BeginWalk, loopVars, statsVars, WalkNext, forgeVars,
     walkVars
<1>3. CASE Listing
  BY <1>3 DEF Listing, FullPage, LastPage, ListingFault, Fault, loopVars,
     statsVars, WalkNext, forgeVars, walkVars
<1>4. CASE ListingFails
  BY <1>4 DEF ListingFails, Fault, EndCycle, WalkOver, forgeVars, WalkNext,
     forgeVars, walkVars
<1>5. CASE BeginPrune
  BY <1>5 DEF BeginPrune, statsVars, walkVars, WalkNext, forgeVars, walkVars
<1>6. CASE EndPrune
  BY <1>6 DEF EndPrune, statsVars, walkVars, WalkNext, forgeVars, walkVars
<1>7. CASE \E r \in Repos : SweepLitter(r)
  BY <1>7 DEF SweepLitter, statsVars, walkVars, WalkNext, forgeVars, walkVars
<1>8. CASE \E r \in Repos : SweepMirror(r)
  BY <1>8 DEF SweepMirror, walkVars, WalkNext, forgeVars, walkVars
<1>9. CASE \E r \in Repos : NextRepo(r)
  BY <1>9 DEF NextRepo, statsVars, walkVars, WalkNext, forgeVars, walkVars
<1>10. CASE Fetch
  BY <1>10 DEF Fetch, Fetched, Goto, statsVars, walkVars, WalkNext, forgeVars,
     walkVars
<1>11. CASE TooShort
  BY <1>11 DEF TooShort, Fault, Goto, statsVars, walkVars, WalkNext, forgeVars,
     walkVars
<1>12. CASE Deepen
  BY <1>12 DEF Deepen, DeepenMore, Fetched, Goto, statsVars, walkVars,
     WalkNext, forgeVars, walkVars
<1>13. CASE Deepened
  BY <1>13 DEF Deepened, Goto, statsVars, walkVars, WalkNext, forgeVars,
     walkVars
<1>14. CASE FetchRejected
  BY <1>14 DEF FetchRejected, AtFetch, RepoFails, Fault, walkVars,
     WalkNext, forgeVars, walkVars
<1>15. CASE FetchTimesOut
  BY <1>15 DEF FetchTimesOut, AtFetch, AfterTimeout,
     StaleBeforeScan, Fault, walkVars, WalkNext, forgeVars, walkVars
<1>16. CASE FetchBroken
  BY <1>16 DEF FetchBroken, AtFetch, AfterBroken, Goto, Fault,
     statsVars, walkVars, WalkNext, forgeVars, walkVars
<1>17. CASE Discard
  BY <1>17 DEF Discard, Goto, statsVars, walkVars, WalkNext, forgeVars,
     walkVars
<1>18. CASE BeginClone
  BY <1>18 DEF BeginClone, Goto, statsVars, walkVars, WalkNext, forgeVars,
     walkVars
<1>19. CASE Cloned
  BY <1>19 DEF Cloned, Goto, statsVars, walkVars, WalkNext, forgeVars,
     walkVars
<1>20. CASE CloneFails
  BY <1>20 DEF CloneFails, Cleared, RepoFails, Fault, walkVars, WalkNext,
     forgeVars, walkVars
<1>21. CASE Install
  BY <1>21 DEF Install, Goto, statsVars, walkVars, WalkNext, forgeVars,
     walkVars
<1>22. CASE Rename
  BY <1>22 DEF Rename, Goto, statsVars, walkVars, WalkNext, forgeVars,
     walkVars
<1>23. CASE RenameFails
  BY <1>23 DEF RenameFails, RepoFails, Fault, walkVars, WalkNext, forgeVars,
     walkVars
<1>24. CASE Scan
  BY <1>24 DEF Scan, Fault, walkVars, WalkNext, forgeVars, walkVars
<1>25. CASE ScanFails
  BY <1>25 DEF ScanFails, RepoFails, Fault, walkVars, WalkNext, forgeVars,
     walkVars
<1>26. CASE VolumeFull
  BY <1>26 DEF VolumeFull, AtFetch, Cleared, Fault, EndCycle,
     WalkOver, forgeVars, WalkNext, forgeVars, walkVars
<1>27. CASE Withhold
  BY <1>27 DEF Withhold, Judged, EndCycle, WalkOver, forgeVars, WalkNext,
     forgeVars, walkVars
<1>28. CASE PassGuard
  BY <1>28 DEF PassGuard, Judged, loopVars, statsVars, walkVars, WalkNext,
     forgeVars, walkVars
<1>29. CASE Publish
  BY <1>29 DEF Publish, EndCycle, WalkOver, forgeVars, WalkNext, forgeVars,
     walkVars
<1>30. CASE CycleFails
  BY <1>30 DEF CycleFails, Fault, EndCycle, WalkOver, forgeVars, WalkNext,
     forgeVars, walkVars
<1>31. CASE Crash
  BY <1>31 DEF Crash, BeingRemoved, Fault, EndCycle, WalkOver, forgeVars,
     WalkNext, forgeVars, walkVars
<1>32. CASE UNCHANGED vars
  BY <1>32 DEF vars, mirrorVars, loopVars, statsVars, walkVars, WalkNext,
     forgeVars, walkVars
<1> QED BY <1>1, <1>2, <1>3, <1>4, <1>5, <1>6, <1>7, <1>8, <1>9, <1>10, <1>11,
           <1>12,
   <1>13, <1>14, <1>15, <1>16, <1>17, <1>18, <1>19, <1>20, <1>21, <1>22,
   <1>23, <1>24, <1>25, <1>26, <1>27, <1>28, <1>29, <1>30, <1>31, <1>32 DEF
   Next, Enumerating, Pruning, RefreshInPlace, Recloning, Scanning, Judging

-----------------------------------------------------------------------------
(* Types.                                                                    *)

(* What a crash or an interrupted removal leaves is a state of a mirror.     *)
LEMMA TornTyped == ASSUME NEW d \in DiskStates PROVE Torn(d) \subseteq DiskStates
BY DEF Torn, DiskStates

(* What rmtree leaves of a mirror, whole or interrupted, is one too.         *)
LEMMA RemovalTyped ==
    ASSUME disk \in [Repos -> DiskStates], faults \in 0..MaxFaults,
           NEW r \in Repos, RmTree(r)
    PROVE  /\ disk' \in [Repos -> DiskStates] /\ faults' \in 0..MaxFaults
           /\ \A x \in Repos \ {r} : disk'[x] = disk[x]
<1>1. CASE disk' = [disk EXCEPT ![r] = "none"] /\ UNCHANGED faults
  BY <1>1 DEF DiskStates
<1>2. CASE Fault /\ \E d \in Torn(disk[r]) : disk' = [disk EXCEPT ![r] = d]
  BY <1>2, TornTyped, MirrorAssumption DEF Fault
<1> QED BY <1>1, <1>2 DEF RmTree

(* The ways a cycle and a repository may fail share their effect.            *)
LEMMA EndCycleTyped ==
    ASSUME TypeOK, WalkInv', NEW result \in {"published", "withheld", "failed", "crashed"},
           EndCycle(result), disk' \in [Repos -> DiskStates], tmp' \subseteq Repos,
           faults' \in 0..MaxFaults
    PROVE  TypeOK'
<1> USE DEF EndCycle, WalkOver
<1>1. WalkTypeOK'
  BY DEF WalkInv
<1>2. refreshed' \in BOOLEAN
  BY Zenon
<1>3. /\ pc' \in Places /\ cur' \in Repos \cup {None}
      /\ (cur' = None) = (pc' \notin Refreshing \cup {"scan"})
      /\ (pc' = "idle") = (walk' = "off")
      /\ pc' \notin {"idle", "walk"} => walk' = "listed"
  BY DEF Places, Refreshing
<1>4. /\ todo' \subseteq Repos /\ doomed' \subseteq Entries
      /\ scanned' \subseteq Repos /\ failed' \subseteq Repos /\ stale' \subseteq Repos
      /\ partial' \subseteq Repos /\ pruned' \subseteq Repos /\ owed' \subseteq Repos
  OBVIOUS
<1>5. tries' \in 0..DeepenAttempts
  BY MirrorAssumption
<1>6. outcome' \in {"none", "published", "withheld", "failed", "crashed"}
  OBVIOUS
<1> QED BY <1>1, <1>2, <1>3, <1>4, <1>5, <1>6 DEF TypeOK

(* Recording a failed repository keeps the types of the statistics.          *)
LEMMA RepoFailsTyped ==
    ASSUME TypeOK, WalkInv', RepoFails, pc \in Refreshing \cup {"scan"},
           tmp' \subseteq Repos, faults' \in 0..MaxFaults
    PROVE  TypeOK'
<1> USE DEF RepoFails, walkVars
<1>1. WalkTypeOK'
  BY DEF WalkInv
<1>2. refreshed' \in BOOLEAN
  BY Zenon
<1>3. cur \in Repos
  BY DEF TypeOK
<1>4. /\ pc' \in Places /\ cur' \in Repos \cup {None}
      /\ (cur' = None) = (pc' \notin Refreshing \cup {"scan"})
      /\ (pc' = "idle") = (walk' = "off")
      /\ pc' \notin {"idle", "walk"} => walk' = "listed"
  BY DEF TypeOK, Places, Refreshing
<1>5. tries' \in 0..DeepenAttempts
  BY MirrorAssumption
<1> QED BY <1>1, <1>2, <1>3, <1>4, <1>5 DEF TypeOK

(* Every step keeps the types; those of the walk are kept by its own steps.  *)
LEMMA TypeStep ==
    ASSUME MirrorInv, WalkInv', [Next]_vars
    PROVE  TypeOK'
<1>1. CASE ForgeChanges /\ UNCHANGED mirrorVars
  BY <1>1, MirrorAssumption DEF ForgeChanges, Created, Deleted, mirrorVars,
     loopVars, statsVars, MirrorInv, TypeOK, Places, Refreshing, DiskStates,
     WalkInv
<1>2. CASE BeginCycle
  <2>1. owed' \subseteq Repos
    BY <1>2 DEF BeginCycle, MirrorInv, TypeOK, WalkTypeOK, ToSet
  <2> QED BY <1>2, <2>1, MirrorAssumption DEF BeginCycle, BeginWalk, loopVars,
             statsVars, MirrorInv, TypeOK, Places, Refreshing, WalkInv
<1>3. CASE Listing
  BY <1>3, MirrorAssumption DEF Listing, FullPage, LastPage, ListingFault,
     Fault, loopVars, statsVars, MirrorInv, TypeOK, Places, Refreshing,
     DiskStates, WalkInv
<1>4. CASE ListingFails
  <2>1. disk' \in [Repos -> DiskStates] /\ tmp' \subseteq Repos /\ faults' \in 0..MaxFaults
    BY <1>4, MirrorAssumption DEF ListingFails, Fault, EndCycle, WalkOver,
       forgeVars, MirrorInv, TypeOK
  <2> QED BY <1>4, <2>1, EndCycleTyped DEF ListingFails, MirrorInv
<1>5. CASE BeginPrune
  <2>1. doomed' \subseteq Entries
    BY <1>5 DEF BeginPrune, ToSweep, Litter, Orphans, Entries, MirrorInv,
       TypeOK
  <2> QED BY <1>5, <2>1, MirrorAssumption DEF BeginPrune, statsVars, walkVars,
             MirrorInv, TypeOK, Places, Refreshing, WalkInv
<1>6. CASE EndPrune
  <2>1. todo' \subseteq Repos
    BY <1>6 DEF EndPrune, MirrorInv, TypeOK, WalkTypeOK
  <2> QED BY <1>6, <2>1, MirrorAssumption DEF EndPrune, statsVars, walkVars,
             MirrorInv, TypeOK, Places, Refreshing, WalkInv
<1>7. CASE \E r \in Repos : SweepLitter(r)
  BY <1>7, MirrorAssumption DEF SweepLitter, statsVars, walkVars, MirrorInv,
     TypeOK, Places, Refreshing, DiskStates, WalkInv
<1>8. CASE \E r \in Repos : SweepMirror(r)
  BY <1>8, MirrorAssumption, RemovalTyped DEF SweepMirror, walkVars, MirrorInv,
     TypeOK, Places, Refreshing, WalkInv
<1>9. CASE \E r \in Repos : NextRepo(r)
  BY <1>9, MirrorAssumption DEF NextRepo, statsVars, walkVars, MirrorInv,
     TypeOK, Places, Refreshing, DiskStates, WalkInv
<1>10. CASE Fetch
  BY <1>10, MirrorAssumption DEF Fetch, Fetched, Goto, statsVars, walkVars,
     MirrorInv, TypeOK, Places, Refreshing, DiskStates, WalkInv
<1>11. CASE TooShort
  BY <1>11, MirrorAssumption DEF TooShort, Fault, Goto, statsVars, walkVars,
     MirrorInv, TypeOK, Places, Refreshing, DiskStates, WalkInv
<1>12. CASE Deepen
  BY <1>12, MirrorAssumption DEF Deepen, DeepenMore, Fetched, Goto, statsVars,
     walkVars, MirrorInv, TypeOK, Places, Refreshing, DiskStates, WalkInv, WholeInv
<1>13. CASE Deepened
  BY <1>13, MirrorAssumption DEF Deepened, Goto, statsVars, walkVars,
     MirrorInv, TypeOK, Places, Refreshing, DiskStates, WalkInv
<1>14. CASE FetchRejected
  <2>1. tmp' \subseteq Repos /\ faults' \in 0..MaxFaults
    BY <1>14, MirrorAssumption DEF FetchRejected, AtFetch,
       RepoFails, Fault, walkVars, MirrorInv, TypeOK
  <2>2. RepoFails /\ pc \in Refreshing \cup {"scan"}
    BY <1>14 DEF FetchRejected, AtFetch, Refreshing
  <2> QED BY <2>1, <2>2, RepoFailsTyped DEF MirrorInv
<1>15. CASE FetchTimesOut
  <2>1. refreshed' \in BOOLEAN
    BY <1>15, Zenon DEF FetchTimesOut
  <2> QED BY <1>15, <2>1, MirrorAssumption DEF FetchTimesOut, AtFetch,
             DeepenMore, AfterTimeout, StaleBeforeScan, Fault, walkVars,
             MirrorInv, TypeOK, Places, Refreshing, WalkInv
<1>16. CASE FetchBroken
  BY <1>16, MirrorAssumption DEF FetchBroken, AtFetch,
     AfterBroken, Goto, Fault, statsVars, walkVars, MirrorInv, TypeOK, Places,
     Refreshing, DiskStates, WalkInv
<1>17. CASE Discard
  BY <1>17, MirrorAssumption, RemovalTyped DEF Discard, Goto, statsVars,
     walkVars, MirrorInv, TypeOK, Places, Refreshing, WalkInv
<1>18. CASE BeginClone
  BY <1>18, MirrorAssumption DEF BeginClone, Goto, statsVars, walkVars,
     MirrorInv, TypeOK, Places, Refreshing, DiskStates, WalkInv
<1>19. CASE Cloned
  BY <1>19, MirrorAssumption DEF Cloned, Goto, statsVars, walkVars, MirrorInv,
     TypeOK, Places, Refreshing, DiskStates, WalkInv
<1>20. CASE CloneFails
  <2>1. tmp' \subseteq Repos /\ faults' \in 0..MaxFaults
    BY <1>20, MirrorAssumption DEF CloneFails, Cleared, RepoFails, Fault,
       walkVars, MirrorInv, TypeOK
  <2>2. RepoFails /\ pc \in Refreshing \cup {"scan"}
    BY <1>20 DEF CloneFails, AtFetch, Refreshing
  <2> QED BY <2>1, <2>2, RepoFailsTyped DEF MirrorInv
<1>21. CASE Install
  BY <1>21, MirrorAssumption, RemovalTyped DEF Install, Goto, statsVars,
     walkVars, MirrorInv, TypeOK, Places, Refreshing, WalkInv
<1>22. CASE Rename
  BY <1>22, MirrorAssumption DEF Rename, Goto, statsVars, walkVars, MirrorInv,
     TypeOK, Places, Refreshing, DiskStates, WalkInv
<1>23. CASE RenameFails
  <2>1. tmp' \subseteq Repos /\ faults' \in 0..MaxFaults
    BY <1>23, MirrorAssumption DEF RenameFails, RepoFails, Fault, walkVars,
       MirrorInv, TypeOK
  <2>2. RepoFails /\ pc \in Refreshing \cup {"scan"}
    BY <1>23 DEF RenameFails, AtFetch, Refreshing
  <2> QED BY <2>1, <2>2, RepoFailsTyped DEF MirrorInv
<1>24. CASE Scan
  <2>1. refreshed' \in BOOLEAN
    BY <1>24, Zenon DEF Scan
  <2>2. cur \in Repos
    BY <1>24 DEF Scan, MirrorInv, TypeOK
  <2>3. /\ scanned' \subseteq Repos /\ stale' \subseteq Repos /\ partial' \subseteq Repos
        /\ faults' \in 0..MaxFaults
    BY <1>24, <2>2, MirrorAssumption DEF Scan, Fault, MirrorInv, TypeOK
  <2>4. /\ pc' = "next" /\ cur' = None /\ tries' = 0
        /\ UNCHANGED <<walkVars, disk, tmp, todo, doomed, failed, pruned, outcome, owed>>
    BY <1>24 DEF Scan
  <2> QED BY <2>1, <2>3, <2>4, <1>24, MirrorAssumption DEF Scan, walkVars,
             MirrorInv, TypeOK, Places, Refreshing, WalkInv
<1>25. CASE ScanFails
  <2>1. tmp' \subseteq Repos /\ faults' \in 0..MaxFaults
    BY <1>25, MirrorAssumption DEF ScanFails, RepoFails, Fault, walkVars,
       MirrorInv, TypeOK
  <2>2. RepoFails /\ pc \in Refreshing \cup {"scan"}
    BY <1>25 DEF ScanFails, AtFetch, Refreshing
  <2> QED BY <2>1, <2>2, RepoFailsTyped DEF MirrorInv
<1>26. CASE VolumeFull
  <2>1. disk' \in [Repos -> DiskStates] /\ tmp' \subseteq Repos /\ faults' \in 0..MaxFaults
    BY <1>26, MirrorAssumption DEF VolumeFull, AtFetch, Cleared,
       Fault, EndCycle, WalkOver, forgeVars, MirrorInv, TypeOK
  <2> QED BY <1>26, <2>1, EndCycleTyped DEF VolumeFull, MirrorInv
<1>27. CASE Withhold
  <2>1. disk' \in [Repos -> DiskStates] /\ tmp' \subseteq Repos /\ faults' \in 0..MaxFaults
    BY <1>27, MirrorAssumption DEF Withhold, Judged, EndCycle, WalkOver,
       forgeVars, MirrorInv, TypeOK
  <2> QED BY <1>27, <2>1, EndCycleTyped DEF Withhold, MirrorInv
<1>28. CASE PassGuard
  BY <1>28, MirrorAssumption DEF PassGuard, Judged, loopVars, statsVars,
     walkVars, MirrorInv, TypeOK, Places, Refreshing, DiskStates, WalkInv
<1>29. CASE Publish
  <2>1. disk' \in [Repos -> DiskStates] /\ tmp' \subseteq Repos /\ faults' \in 0..MaxFaults
    BY <1>29, MirrorAssumption DEF Publish, EndCycle, WalkOver, forgeVars,
       MirrorInv, TypeOK
  <2> QED BY <1>29, <2>1, EndCycleTyped DEF Publish, MirrorInv
<1>30. CASE CycleFails
  <2>1. disk' \in [Repos -> DiskStates] /\ tmp' \subseteq Repos /\ faults' \in 0..MaxFaults
    BY <1>30, MirrorAssumption DEF CycleFails, Fault, EndCycle, WalkOver,
       forgeVars, MirrorInv, TypeOK
  <2> QED BY <1>30, <2>1, EndCycleTyped DEF CycleFails, MirrorInv
<1>31. CASE Crash
  <2>1. disk' \in [Repos -> DiskStates]
    <3>1. CASE UNCHANGED disk
      BY <3>1 DEF MirrorInv, TypeOK
    <3>2. CASE \E r \in BeingRemoved : \E d \in Torn(disk[r]) : disk' = [disk EXCEPT ![r] = d]
      <4>1. PICK r \in BeingRemoved : \E d \in Torn(disk[r]) : disk' = [disk EXCEPT ![r] = d]
        BY <3>2
      <4>2. r \in Repos
        BY DEF BeingRemoved, MirrorInv, TypeOK, Refreshing
      <4> QED BY <4>1, <4>2, TornTyped DEF MirrorInv, TypeOK
    <3> QED BY <1>31, <3>1, <3>2 DEF Crash
  <2>2. tmp' \subseteq Repos /\ faults' \in 0..MaxFaults
    BY <1>31, MirrorAssumption DEF Crash, Fault, MirrorInv, TypeOK
  <2> QED BY <1>31, <2>1, <2>2, EndCycleTyped DEF Crash, MirrorInv
<1>32. CASE UNCHANGED vars
  BY <1>32, MirrorAssumption DEF vars, mirrorVars, loopVars, statsVars,
     walkVars, MirrorInv, TypeOK, Places, Refreshing, DiskStates, WalkInv
<1> QED BY <1>1, <1>2, <1>3, <1>4, <1>5, <1>6, <1>7, <1>8, <1>9, <1>10, <1>11,
           <1>12,
   <1>13, <1>14, <1>15, <1>16, <1>17, <1>18, <1>19, <1>20, <1>21, <1>22,
   <1>23, <1>24, <1>25, <1>26, <1>27, <1>28, <1>29, <1>30, <1>31, <1>32 DEF
   Next, Enumerating, Pruning, RefreshInPlace, Recloning, Scanning, Judging

-----------------------------------------------------------------------------
(* Counting.                                                                 *)

(* The end of a cycle forgets its statistics and its listing.                *)
LEMMA EndCycleClears ==
    ASSUME NEW result, EndCycle(result), MirrorInv
    PROVE  StatsInv' /\ WholeInv' /\ SweepInv' /\ OwedInv'
<1> USE DEF EndCycle, WalkOver
<1>1. StatsInv'
  BY DEF StatsInv, StatsPartition
<1>2. WholeInv'
  BY DEF WholeInv, RefreshedIsWhole
<1>3. SweepInv'
  BY DEF SweepInv
<1>4. OwedInv'
  BY DEF OwedInv
<1> QED BY <1>1, <1>2, <1>3, <1>4

(* A repository that fails moves from being refreshed to the failed ones.    *)
LEMMA RepoFailsKeeps ==
    ASSUME MirrorInv, RepoFails, pc \in Refreshing \cup {"scan"}
    PROVE  StatsInv' /\ WholeInv' /\ SweepInv' /\ OwedInv'
<1> USE DEF RepoFails, walkVars, MirrorInv
<1>0. cur \in Repos /\ pc \notin {"idle", "walk", "prune"} /\ None \notin Repos
  BY MirrorAssumption DEF TypeOK, Refreshing
<1>1. StatsInv'
  <2>1. /\ live = scanned \cup failed \cup todo \cup {cur}
        /\ scanned \cap failed = {} /\ todo \cap (scanned \cup failed) = {}
        /\ cur \notin scanned \cup failed \cup todo
        /\ stale \cup partial \subseteq scanned
    BY <1>0 DEF StatsInv, StatsPartition
  <2>2. /\ live' = scanned' \cup failed' \cup todo' \cup ({cur'} \ {None})
        /\ scanned' \cap failed' = {} /\ todo' \cap (scanned' \cup failed') = {}
        /\ stale' \cup partial' \subseteq scanned'
    BY <2>1
  <2>3. cur' \notin scanned' \cup failed' \cup todo'
    BY <1>0 DEF TypeOK
  <2> QED BY <2>2, <2>3 DEF StatsInv, StatsPartition
<1>2. WholeInv'
  BY DEF WholeInv, RefreshedIsWhole
<1>3. SweepInv'
  BY <1>0 DEF SweepInv, Refreshing
<1>4. OwedInv'
  BY DEF OwedInv, Usable
<1> QED BY <1>1, <1>2, <1>3, <1>4

(* Every step keeps the partition, and the prune leaves the counts empty.    *)
LEMMA StatsStep ==
    ASSUME MirrorInv, WalkInv', [Next]_vars
    PROVE  StatsInv'
<1>1. CASE ForgeChanges /\ UNCHANGED mirrorVars
  BY <1>1, MirrorAssumption DEF ForgeChanges, Created, Deleted, mirrorVars,
     loopVars, statsVars, Degraded, MirrorInv, TypeOK, Refreshing, StatsInv,
     StatsPartition
<1>2. CASE BeginCycle
  BY <1>2, MirrorAssumption DEF BeginCycle, BeginWalk, loopVars, statsVars,
     Degraded, MirrorInv, TypeOK, Refreshing, StatsInv, StatsPartition
<1>3. CASE Listing
  BY <1>3, MirrorAssumption DEF Listing, FullPage, LastPage, ListingFault,
     Fault, loopVars, statsVars, Degraded, MirrorInv, TypeOK, Refreshing,
     StatsInv, StatsPartition
<1>4. CASE ListingFails
  BY <1>4, EndCycleClears DEF ListingFails
<1>5. CASE BeginPrune
  BY <1>5, MirrorAssumption DEF BeginPrune, statsVars, walkVars, Degraded,
     MirrorInv, TypeOK, Refreshing, StatsInv, StatsPartition
<1>6. CASE EndPrune
  <2>1. /\ scanned = {} /\ failed = {} /\ stale = {} /\ partial = {} /\ cur = None
        /\ live \subseteq Repos
    BY <1>6 DEF EndPrune, MirrorInv, TypeOK, WalkTypeOK, Refreshing, StatsInv
  <2>2. /\ scanned' = {} /\ failed' = {} /\ stale' = {} /\ partial' = {} /\ cur' = None
        /\ todo' = live' /\ live' \subseteq Repos /\ pc' = "next"
    BY <1>6, <2>1 DEF EndPrune, statsVars, walkVars
  <2>3. cur' \notin todo'
    BY <2>2, MirrorAssumption
  <2>4. live' = scanned' \cup failed' \cup todo' \cup ({cur'} \ {None})
    BY <2>2
  <2> QED BY <2>2, <2>3, <2>4 DEF StatsInv, StatsPartition
<1>7. CASE \E r \in Repos : SweepLitter(r)
  BY <1>7, MirrorAssumption DEF SweepLitter, statsVars, walkVars, Degraded,
     MirrorInv, TypeOK, Refreshing, StatsInv, StatsPartition
<1>8. CASE \E r \in Repos : SweepMirror(r)
  BY <1>8, MirrorAssumption DEF SweepMirror, walkVars, Degraded, MirrorInv,
     TypeOK, Refreshing, StatsInv, StatsPartition
<1>9. CASE \E r \in Repos : NextRepo(r)
  BY <1>9, MirrorAssumption DEF NextRepo, statsVars, walkVars, Degraded,
     MirrorInv, TypeOK, Refreshing, StatsInv, StatsPartition
<1>10. CASE Fetch
  BY <1>10, MirrorAssumption DEF Fetch, Fetched, Goto, statsVars, walkVars,
     Degraded, MirrorInv, TypeOK, Refreshing, StatsInv, StatsPartition
<1>11. CASE TooShort
  BY <1>11, MirrorAssumption DEF TooShort, Fault, Goto, statsVars, walkVars,
     Degraded, MirrorInv, TypeOK, Refreshing, StatsInv, StatsPartition
<1>12. CASE Deepen
  BY <1>12, MirrorAssumption DEF Deepen, DeepenMore, Fetched, Goto, statsVars,
     walkVars, Degraded, MirrorInv, TypeOK, Refreshing, StatsInv,
     StatsPartition
<1>13. CASE Deepened
  BY <1>13, MirrorAssumption DEF Deepened, Goto, statsVars, walkVars,
     Degraded, MirrorInv, TypeOK, Refreshing, StatsInv, StatsPartition
<1>14. CASE FetchRejected
  BY <1>14, RepoFailsKeeps DEF FetchRejected, AtFetch, Refreshing
<1>15. CASE FetchTimesOut
  BY <1>15, MirrorAssumption DEF FetchTimesOut, AtFetch,
     AfterTimeout, StaleBeforeScan, Fault, walkVars, Degraded, MirrorInv,
     TypeOK, Refreshing, StatsInv, StatsPartition
<1>16. CASE FetchBroken
  BY <1>16, MirrorAssumption DEF FetchBroken, AtFetch,
     AfterBroken, Goto, Fault, statsVars, walkVars, Degraded, MirrorInv,
     TypeOK, Refreshing, StatsInv, StatsPartition
<1>17. CASE Discard
  BY <1>17, MirrorAssumption DEF Discard, Goto, statsVars, walkVars, Degraded,
     MirrorInv, TypeOK, Refreshing, StatsInv, StatsPartition
<1>18. CASE BeginClone
  BY <1>18, MirrorAssumption DEF BeginClone, Goto, statsVars, walkVars,
     Degraded, MirrorInv, TypeOK, Refreshing, StatsInv, StatsPartition
<1>19. CASE Cloned
  BY <1>19, MirrorAssumption DEF Cloned, Goto, statsVars, walkVars, Degraded,
     MirrorInv, TypeOK, Refreshing, StatsInv, StatsPartition
<1>20. CASE CloneFails
  BY <1>20, RepoFailsKeeps DEF CloneFails, AtFetch, Refreshing
<1>21. CASE Install
  BY <1>21, MirrorAssumption DEF Install, Goto, statsVars, walkVars, Degraded,
     MirrorInv, TypeOK, Refreshing, StatsInv, StatsPartition
<1>22. CASE Rename
  BY <1>22, MirrorAssumption DEF Rename, Goto, statsVars, walkVars, Degraded,
     MirrorInv, TypeOK, Refreshing, StatsInv, StatsPartition
<1>23. CASE RenameFails
  BY <1>23, RepoFailsKeeps DEF RenameFails, AtFetch, Refreshing
<1>24. CASE Scan
  BY <1>24, MirrorAssumption DEF Scan, Fault, walkVars, Degraded, MirrorInv,
     TypeOK, Refreshing, StatsInv, StatsPartition
<1>25. CASE ScanFails
  BY <1>25, RepoFailsKeeps DEF ScanFails, AtFetch, Refreshing
<1>26. CASE VolumeFull
  BY <1>26, EndCycleClears DEF VolumeFull
<1>27. CASE Withhold
  BY <1>27, EndCycleClears DEF Withhold
<1>28. CASE PassGuard
  BY <1>28, MirrorAssumption DEF PassGuard, Judged, loopVars, statsVars,
     walkVars, Degraded, MirrorInv, TypeOK, Refreshing, StatsInv,
     StatsPartition
<1>29. CASE Publish
  BY <1>29, EndCycleClears DEF Publish
<1>30. CASE CycleFails
  BY <1>30, EndCycleClears DEF CycleFails
<1>31. CASE Crash
  BY <1>31, EndCycleClears DEF Crash
<1>32. CASE UNCHANGED vars
  BY <1>32, MirrorAssumption DEF vars, mirrorVars, loopVars, statsVars,
     walkVars, Degraded, MirrorInv, TypeOK, Refreshing, StatsInv,
     StatsPartition
<1> QED BY <1>1, <1>2, <1>3, <1>4, <1>5, <1>6, <1>7, <1>8, <1>9, <1>10, <1>11,
           <1>12,
   <1>13, <1>14, <1>15, <1>16, <1>17, <1>18, <1>19, <1>20, <1>21, <1>22,
   <1>23, <1>24, <1>25, <1>26, <1>27, <1>28, <1>29, <1>30, <1>31, <1>32 DEF
   Next, Enumerating, Pruning, RefreshInPlace, Recloning, Scanning, Judging

-----------------------------------------------------------------------------
(* Whole mirrors.                                                            *)

(* Between a fetch or a clone and its scan nothing touches the mirror.       *)
LEMMA WholeStep ==
    ASSUME MirrorInv, WalkInv', [Next]_vars
    PROVE  WholeInv'
<1>1. CASE ForgeChanges /\ UNCHANGED mirrorVars
  BY <1>1, MirrorAssumption DEF ForgeChanges, Created, Deleted, mirrorVars,
     loopVars, statsVars, MirrorInv, TypeOK, Refreshing, WholeInv,
     DeepenMore, RefreshedIsWhole, Usable
<1>2. CASE BeginCycle
  BY <1>2, MirrorAssumption DEF BeginCycle, BeginWalk, loopVars, statsVars,
     MirrorInv, TypeOK, Refreshing, WholeInv, RefreshedIsWhole, Usable
<1>3. CASE Listing
  BY <1>3, MirrorAssumption DEF Listing, FullPage, LastPage, ListingFault,
     Fault, loopVars, statsVars, MirrorInv, TypeOK, Refreshing, WholeInv,
     RefreshedIsWhole, Usable
<1>4. CASE ListingFails
  BY <1>4, EndCycleClears DEF ListingFails
<1>5. CASE BeginPrune
  BY <1>5, MirrorAssumption DEF BeginPrune, statsVars, walkVars, MirrorInv,
     TypeOK, Refreshing, WholeInv, RefreshedIsWhole, Usable
<1>6. CASE EndPrune
  BY <1>6, MirrorAssumption DEF EndPrune, statsVars, walkVars, MirrorInv,
     TypeOK, Refreshing, WholeInv, RefreshedIsWhole, Usable
<1>7. CASE \E r \in Repos : SweepLitter(r)
  BY <1>7, MirrorAssumption DEF SweepLitter, statsVars, walkVars, MirrorInv,
     TypeOK, Refreshing, WholeInv, RefreshedIsWhole, Usable
<1>8. CASE \E r \in Repos : SweepMirror(r)
  BY <1>8, MirrorAssumption DEF SweepMirror, walkVars, MirrorInv, TypeOK,
     Refreshing, WholeInv, RefreshedIsWhole, Usable
<1>9. CASE \E r \in Repos : NextRepo(r)
  BY <1>9, MirrorAssumption DEF NextRepo, statsVars, walkVars, MirrorInv,
     TypeOK, Refreshing, WholeInv, RefreshedIsWhole, Usable
<1>10. CASE Fetch
  BY <1>10, MirrorAssumption DEF Fetch, Fetched, Goto, statsVars, walkVars,
     MirrorInv, TypeOK, Refreshing, WholeInv, RefreshedIsWhole, Usable
<1>11. CASE TooShort
  BY <1>11, MirrorAssumption DEF TooShort, Fault, Goto, statsVars, walkVars,
     MirrorInv, TypeOK, Refreshing, WholeInv, DeepenMore, RefreshedIsWhole, Usable
<1>12. CASE Deepen
  BY <1>12, MirrorAssumption DEF Deepen, DeepenMore, Fetched, Goto, statsVars,
     walkVars, MirrorInv, TypeOK, Refreshing, WholeInv, RefreshedIsWhole,
     Usable
<1>13. CASE Deepened
  BY <1>13, MirrorAssumption DEF Deepened, Goto, statsVars, walkVars,
     MirrorInv, TypeOK, Refreshing, WholeInv, RefreshedIsWhole, Usable
<1>14. CASE FetchRejected
  BY <1>14, RepoFailsKeeps DEF FetchRejected, AtFetch, Refreshing
<1>15. CASE FetchTimesOut
  BY <1>15, MirrorAssumption DEF FetchTimesOut, AtFetch,
     AfterTimeout, StaleBeforeScan, Fault, walkVars, MirrorInv, TypeOK,
     Refreshing, WholeInv, RefreshedIsWhole, Usable
<1>16. CASE FetchBroken
  BY <1>16, MirrorAssumption DEF FetchBroken, AtFetch,
     AfterBroken, Goto, Fault, statsVars, walkVars, MirrorInv, TypeOK,
     Refreshing, WholeInv, RefreshedIsWhole, Usable
<1>17. CASE Discard
  BY <1>17, MirrorAssumption DEF Discard, Goto, statsVars, walkVars,
     MirrorInv, TypeOK, Refreshing, WholeInv, RefreshedIsWhole, Usable
<1>18. CASE BeginClone
  BY <1>18, MirrorAssumption DEF BeginClone, Goto, statsVars, walkVars,
     MirrorInv, TypeOK, Refreshing, WholeInv, RefreshedIsWhole, Usable
<1>19. CASE Cloned
  BY <1>19, MirrorAssumption DEF Cloned, Goto, statsVars, walkVars, MirrorInv,
     TypeOK, Refreshing, WholeInv, RefreshedIsWhole, Usable
<1>20. CASE CloneFails
  BY <1>20, RepoFailsKeeps DEF CloneFails, AtFetch, Refreshing
<1>21. CASE Install
  BY <1>21, MirrorAssumption DEF Install, Goto, statsVars, walkVars,
     MirrorInv, TypeOK, Refreshing, WholeInv, RefreshedIsWhole, Usable
<1>22. CASE Rename
  BY <1>22, MirrorAssumption DEF Rename, Goto, statsVars, walkVars, MirrorInv,
     TypeOK, Refreshing, WholeInv, RefreshedIsWhole, Usable
<1>23. CASE RenameFails
  BY <1>23, RepoFailsKeeps DEF RenameFails, AtFetch, Refreshing
<1>24. CASE Scan
  BY <1>24, MirrorAssumption DEF Scan, Fault, walkVars, MirrorInv, TypeOK,
     Refreshing, WholeInv, RefreshedIsWhole, Usable
<1>25. CASE ScanFails
  BY <1>25, RepoFailsKeeps DEF ScanFails, AtFetch, Refreshing
<1>26. CASE VolumeFull
  BY <1>26, EndCycleClears DEF VolumeFull
<1>27. CASE Withhold
  BY <1>27, EndCycleClears DEF Withhold
<1>28. CASE PassGuard
  BY <1>28, MirrorAssumption DEF PassGuard, Judged, loopVars, statsVars,
     walkVars, MirrorInv, TypeOK, Refreshing, WholeInv, RefreshedIsWhole,
     Usable
<1>29. CASE Publish
  BY <1>29, EndCycleClears DEF Publish
<1>30. CASE CycleFails
  BY <1>30, EndCycleClears DEF CycleFails
<1>31. CASE Crash
  BY <1>31, EndCycleClears DEF Crash
<1>32. CASE UNCHANGED vars
  BY <1>32, MirrorAssumption DEF vars, mirrorVars, loopVars, statsVars,
     walkVars, MirrorInv, TypeOK, Refreshing, WholeInv, DeepenMore, RefreshedIsWhole,
     Usable
<1> QED BY <1>1, <1>2, <1>3, <1>4, <1>5, <1>6, <1>7, <1>8, <1>9, <1>10, <1>11,
           <1>12,
   <1>13, <1>14, <1>15, <1>16, <1>17, <1>18, <1>19, <1>20, <1>21, <1>22,
   <1>23, <1>24, <1>25, <1>26, <1>27, <1>28, <1>29, <1>30, <1>31, <1>32 DEF
   Next, Enumerating, Pruning, RefreshInPlace, Recloning, Scanning, Judging

-----------------------------------------------------------------------------
(* The prune.                                                                *)

(* The listing does not change while the prune runs.                         *)
LEMMA SweepStep ==
    ASSUME MirrorInv, WalkInv', [Next]_vars
    PROVE  SweepInv'
<1>1. CASE ForgeChanges /\ UNCHANGED mirrorVars
  BY <1>1 DEF ForgeChanges, Created, Deleted, mirrorVars, loopVars, statsVars,
     MirrorInv, TypeOK, Refreshing, SweepInv
<1>2. CASE BeginCycle
  BY <1>2 DEF BeginCycle, BeginWalk, loopVars, statsVars, MirrorInv, TypeOK,
     Refreshing, SweepInv
<1>3. CASE Listing
  BY <1>3 DEF Listing, FullPage, LastPage, ListingFault, Fault, loopVars,
     statsVars, MirrorInv, TypeOK, Refreshing, SweepInv
<1>4. CASE ListingFails
  BY <1>4, EndCycleClears DEF ListingFails
<1>5. CASE BeginPrune
  BY <1>5 DEF BeginPrune, statsVars, walkVars, ToSweep, Litter, Orphans,
     SweepInv
<1>6. CASE EndPrune
  BY <1>6 DEF EndPrune, statsVars, walkVars, MirrorInv, TypeOK, Refreshing,
     SweepInv
<1>7. CASE \E r \in Repos : SweepLitter(r)
  BY <1>7 DEF SweepLitter, statsVars, walkVars, MirrorInv, TypeOK, Refreshing,
     SweepInv
<1>8. CASE \E r \in Repos : SweepMirror(r)
  BY <1>8 DEF SweepMirror, walkVars, MirrorInv, TypeOK, Refreshing, SweepInv
<1>9. CASE \E r \in Repos : NextRepo(r)
  BY <1>9 DEF NextRepo, statsVars, walkVars, MirrorInv, TypeOK, Refreshing,
     SweepInv
<1>10. CASE Fetch
  BY <1>10 DEF Fetch, Fetched, Goto, statsVars, walkVars, MirrorInv, TypeOK,
     Refreshing, SweepInv
<1>11. CASE TooShort
  BY <1>11 DEF TooShort, Fault, Goto, statsVars, walkVars, MirrorInv, TypeOK,
     Refreshing, SweepInv
<1>12. CASE Deepen
  BY <1>12 DEF Deepen, DeepenMore, Fetched, Goto, statsVars, walkVars,
     MirrorInv, TypeOK, Refreshing, SweepInv
<1>13. CASE Deepened
  BY <1>13 DEF Deepened, Goto, statsVars, walkVars, MirrorInv, TypeOK,
     Refreshing, SweepInv
<1>14. CASE FetchRejected
  BY <1>14, RepoFailsKeeps DEF FetchRejected, AtFetch, Refreshing
<1>15. CASE FetchTimesOut
  BY <1>15 DEF FetchTimesOut, AtFetch, AfterTimeout,
     StaleBeforeScan, Fault, walkVars, MirrorInv, TypeOK, Refreshing, SweepInv
<1>16. CASE FetchBroken
  BY <1>16 DEF FetchBroken, AtFetch, AfterBroken, Goto, Fault,
     statsVars, walkVars, MirrorInv, TypeOK, Refreshing, SweepInv
<1>17. CASE Discard
  BY <1>17 DEF Discard, Goto, statsVars, walkVars, MirrorInv, TypeOK,
     Refreshing, SweepInv
<1>18. CASE BeginClone
  BY <1>18 DEF BeginClone, Goto, statsVars, walkVars, MirrorInv, TypeOK,
     Refreshing, SweepInv
<1>19. CASE Cloned
  BY <1>19 DEF Cloned, Goto, statsVars, walkVars, MirrorInv, TypeOK,
     Refreshing, SweepInv
<1>20. CASE CloneFails
  BY <1>20, RepoFailsKeeps DEF CloneFails, AtFetch, Refreshing
<1>21. CASE Install
  BY <1>21 DEF Install, Goto, statsVars, walkVars, MirrorInv, TypeOK,
     Refreshing, SweepInv
<1>22. CASE Rename
  BY <1>22 DEF Rename, Goto, statsVars, walkVars, MirrorInv, TypeOK,
     Refreshing, SweepInv
<1>23. CASE RenameFails
  BY <1>23, RepoFailsKeeps DEF RenameFails, AtFetch, Refreshing
<1>24. CASE Scan
  BY <1>24 DEF Scan, Fault, walkVars, MirrorInv, TypeOK, Refreshing, SweepInv
<1>25. CASE ScanFails
  BY <1>25, RepoFailsKeeps DEF ScanFails, AtFetch, Refreshing
<1>26. CASE VolumeFull
  BY <1>26, EndCycleClears DEF VolumeFull
<1>27. CASE Withhold
  BY <1>27, EndCycleClears DEF Withhold
<1>28. CASE PassGuard
  BY <1>28 DEF PassGuard, Judged, loopVars, statsVars, walkVars, MirrorInv,
     TypeOK, Refreshing, SweepInv
<1>29. CASE Publish
  BY <1>29, EndCycleClears DEF Publish
<1>30. CASE CycleFails
  BY <1>30, EndCycleClears DEF CycleFails
<1>31. CASE Crash
  BY <1>31, EndCycleClears DEF Crash
<1>32. CASE UNCHANGED vars
  BY <1>32 DEF vars, mirrorVars, loopVars, statsVars, walkVars, MirrorInv,
     TypeOK, Refreshing, SweepInv
<1> QED BY <1>1, <1>2, <1>3, <1>4, <1>5, <1>6, <1>7, <1>8, <1>9, <1>10, <1>11,
           <1>12,
   <1>13, <1>14, <1>15, <1>16, <1>17, <1>18, <1>19, <1>20, <1>21, <1>22,
   <1>23, <1>24, <1>25, <1>26, <1>27, <1>28, <1>29, <1>30, <1>31, <1>32 DEF
   Next, Enumerating, Pruning, RefreshInPlace, Recloning, Scanning, Judging

-----------------------------------------------------------------------------
(* What the cycle owes.                                                      *)

(* A step that damages or removes a mirror is the prune of one that is not   *)
(* listed, or the re-clone of one whose fetch was broken.                    *)
LEMMA OwedStep ==
    ASSUME MirrorInv, WalkInv', [Next]_vars
    PROVE  OwedInv'
<1>1. CASE ForgeChanges /\ UNCHANGED mirrorVars
  BY <1>1, MirrorAssumption DEF ForgeChanges, Created, Deleted, mirrorVars,
     loopVars, statsVars, MirrorInv, TypeOK, WalkInv, Refreshing, Complete,
     SweepInv, OwedInv, Usable
<1>2. CASE BeginCycle
  BY <1>2, MirrorAssumption DEF BeginCycle, BeginWalk, loopVars, statsVars,
     MirrorInv, TypeOK, WalkInv, Refreshing, Complete, SweepInv, OwedInv,
     Usable
<1>3. CASE Listing
  BY <1>3, MirrorAssumption DEF Listing, FullPage, LastPage, ListingFault,
     Fault, loopVars, statsVars, MirrorInv, TypeOK, WalkInv, Refreshing,
     Complete, SweepInv, OwedInv, Truthful, Usable
<1>4. CASE ListingFails
  BY <1>4, EndCycleClears DEF ListingFails
<1>5. CASE BeginPrune
  BY <1>5, MirrorAssumption DEF BeginPrune, statsVars, walkVars, MirrorInv,
     TypeOK, WalkInv, Refreshing, Complete, SweepInv, OwedInv, Usable
<1>6. CASE EndPrune
  BY <1>6, MirrorAssumption DEF EndPrune, statsVars, walkVars, MirrorInv,
     TypeOK, WalkInv, Refreshing, Complete, SweepInv, OwedInv, Usable
<1>7. CASE \E r \in Repos : SweepLitter(r)
  BY <1>7, MirrorAssumption DEF SweepLitter, statsVars, walkVars, MirrorInv,
     TypeOK, WalkInv, Refreshing, Complete, SweepInv, OwedInv, Usable
<1>8. CASE \E r \in Repos : SweepMirror(r)
  BY <1>8, RemovalTyped DEF SweepMirror, walkVars, MirrorInv, TypeOK,
     Refreshing, SweepInv, OwedInv, Usable
<1>9. CASE \E r \in Repos : NextRepo(r)
  BY <1>9, MirrorAssumption DEF NextRepo, statsVars, walkVars, HasHead,
     MirrorInv, TypeOK, Refreshing, OwedInv, Usable
<1>10. CASE Fetch
  BY <1>10, MirrorAssumption DEF Fetch, Fetched, Goto, statsVars, walkVars,
     MirrorInv, TypeOK, WalkInv, Refreshing, Complete, SweepInv, OwedInv,
     Usable
<1>11. CASE TooShort
  BY <1>11, MirrorAssumption DEF TooShort, Fault, Goto, statsVars, walkVars,
     MirrorInv, TypeOK, WalkInv, Refreshing, Complete, SweepInv, OwedInv,
     Usable
<1>12. CASE Deepen
  BY <1>12, MirrorAssumption DEF Deepen, DeepenMore, Fetched, Goto, statsVars,
     walkVars, MirrorInv, TypeOK, WalkInv, Refreshing, Complete, SweepInv,
     OwedInv, Usable
<1>13. CASE Deepened
  BY <1>13, MirrorAssumption DEF Deepened, Goto, statsVars, walkVars,
     MirrorInv, TypeOK, WalkInv, Refreshing, Complete, SweepInv, OwedInv,
     Usable
<1>14. CASE FetchRejected
  BY <1>14, RepoFailsKeeps DEF FetchRejected, AtFetch, Refreshing
<1>15. CASE FetchTimesOut
  BY <1>15, MirrorAssumption DEF FetchTimesOut, AtFetch,
     AfterTimeout, StaleBeforeScan, Fault, walkVars, MirrorInv, TypeOK,
     WalkInv, Refreshing, Complete, SweepInv, OwedInv, Usable
<1>16. CASE FetchBroken
  BY <1>16, MirrorAssumption DEF FetchBroken, AtFetch,
     AfterBroken, Goto, Fault, statsVars, walkVars, MirrorInv, TypeOK,
     WalkInv, Refreshing, Complete, SweepInv, OwedInv, Usable
<1>17. CASE Discard
  BY <1>17, RemovalTyped DEF Discard, Goto, statsVars, walkVars, MirrorInv,
     TypeOK, Refreshing, SweepInv, OwedInv, Usable
<1>18. CASE BeginClone
  BY <1>18, MirrorAssumption DEF BeginClone, Goto, statsVars, walkVars,
     MirrorInv, TypeOK, WalkInv, Refreshing, Complete, SweepInv, OwedInv,
     Usable
<1>19. CASE Cloned
  BY <1>19, MirrorAssumption DEF Cloned, Goto, statsVars, walkVars, MirrorInv,
     TypeOK, WalkInv, Refreshing, Complete, SweepInv, OwedInv, Usable
<1>20. CASE CloneFails
  BY <1>20, RepoFailsKeeps DEF CloneFails, AtFetch, Refreshing
<1>21. CASE Install
  BY <1>21, RemovalTyped DEF Install, Goto, statsVars, walkVars, MirrorInv,
     TypeOK, Refreshing, SweepInv, OwedInv, Usable
<1>22. CASE Rename
  BY <1>22, MirrorAssumption DEF Rename, Goto, statsVars, walkVars, MirrorInv,
     TypeOK, WalkInv, Refreshing, Complete, SweepInv, OwedInv, Usable
<1>23. CASE RenameFails
  BY <1>23, RepoFailsKeeps DEF RenameFails, AtFetch, Refreshing
<1>24. CASE Scan
  BY <1>24, MirrorAssumption DEF Scan, Fault, walkVars, MirrorInv, TypeOK,
     WalkInv, Refreshing, Complete, SweepInv, OwedInv, Usable
<1>25. CASE ScanFails
  BY <1>25, RepoFailsKeeps DEF ScanFails, AtFetch, Refreshing
<1>26. CASE VolumeFull
  BY <1>26, EndCycleClears DEF VolumeFull
<1>27. CASE Withhold
  BY <1>27, EndCycleClears DEF Withhold
<1>28. CASE PassGuard
  BY <1>28, MirrorAssumption DEF PassGuard, Judged, loopVars, statsVars,
     walkVars, MirrorInv, TypeOK, WalkInv, Refreshing, Complete, SweepInv,
     OwedInv, Usable
<1>29. CASE Publish
  BY <1>29, EndCycleClears DEF Publish
<1>30. CASE CycleFails
  BY <1>30, EndCycleClears DEF CycleFails
<1>31. CASE Crash
  BY <1>31, EndCycleClears DEF Crash
<1>32. CASE UNCHANGED vars
  BY <1>32, MirrorAssumption DEF vars, mirrorVars, loopVars, statsVars,
     walkVars, MirrorInv, TypeOK, WalkInv, Refreshing, Complete, SweepInv,
     OwedInv, Usable
<1> QED BY <1>1, <1>2, <1>3, <1>4, <1>5, <1>6, <1>7, <1>8, <1>9, <1>10, <1>11,
           <1>12,
   <1>13, <1>14, <1>15, <1>16, <1>17, <1>18, <1>19, <1>20, <1>21, <1>22,
   <1>23, <1>24, <1>25, <1>26, <1>27, <1>28, <1>29, <1>30, <1>31, <1>32 DEF
   Next, Enumerating, Pruning, RefreshInPlace, Recloning, Scanning, Judging

-----------------------------------------------------------------------------
(* The theorems.                                                             *)

(* Any volume a cycle may start on satisfies the invariant.                  *)
LEMMA MirrorsInit == Init => MirrorInv
<1> SUFFICES ASSUME Init PROVE MirrorInv
  OBVIOUS
<1> USE DEF Init
<1>1. WalkInv
  BY WalkStarts
<1>2. TypeOK
  <2>1. refreshed \in BOOLEAN
    BY Zenon
  <2>2. disk \in [Repos -> DiskStates]
    BY BeforeAssumption
  <2>3. /\ pc \in Places /\ cur \in Repos \cup {None}
        /\ (cur = None) = (pc \notin Refreshing \cup {"scan"})
        /\ (pc = "idle") = (walk = "off")
        /\ pc \notin {"idle", "walk"} => walk = "listed"
    BY DEF Places, Refreshing, WalkInit
  <2> QED BY <1>1, <2>1, <2>2, <2>3, MirrorAssumption DEF WalkInv, TypeOK,
             NoStats
<1>3. StatsInv
  BY DEF StatsInv, StatsPartition, NoStats
<1>4. WholeInv /\ SweepInv
  BY DEF WholeInv, RefreshedIsWhole, SweepInv
<1>5. OwedInv
  BY DEF OwedInv
<1> QED BY <1>1, <1>2, <1>3, <1>4, <1>5 DEF MirrorInv

(* Every reachable state of the collection satisfies the strengthened        *)
(* invariant.                                                                *)
THEOREM MirrorInvariance == Spec => []MirrorInv
<1>1. Init => MirrorInv
  BY MirrorsInit
<1>2. MirrorInv /\ [Next]_vars => MirrorInv'
  <2> SUFFICES ASSUME MirrorInv, [Next]_vars PROVE MirrorInv'
    OBVIOUS
  <2>1. WalkInv'
    BY StepIsWalk, WalkKeeps DEF MirrorInv
  <2> QED BY <2>1, TypeStep, StatsStep, WholeStep, SweepStep, OwedStep
             DEF MirrorInv
<1> QED BY <1>1, <1>2, PTL DEF Spec

(* Every variable of the collection and the volume keeps its type.           *)
THEOREM MirrorsTypeCorrect == Spec => []TypeOK
<1>1. MirrorInv => TypeOK
  BY DEF MirrorInv
<1> QED BY <1>1, MirrorInvariance, PTL

(* list_repos finds whatever is there throughout its walk, for any page size *)
(* and any creations meanwhile, unless something is deleted.                 *)
THEOREM ListingIsComplete == Spec => []Complete
<1>1. MirrorInv => Complete
  BY DEF MirrorInv, WalkInv
<1> QED BY <1>1, MirrorInvariance, PTL

(* No failure but a broken fetch costs the usable mirror of a listed         *)
(* repository, wherever in the cycle it happens.                             *)
THEOREM OwedMirrorsAreKept == Spec => []OwedKept
<1>1. MirrorInv => OwedKept
  BY DEF MirrorInv, OwedInv, OwedKept
<1> QED BY <1>1, MirrorInvariance, PTL

(* Nothing is reported as refreshed that was scanned from a damaged mirror.  *)
THEOREM RefreshedMirrorsAreWhole == Spec => []RefreshedIsWhole
<1>1. MirrorInv => RefreshedIsWhole
  BY DEF MirrorInv, WholeInv
<1> QED BY <1>1, MirrorInvariance, PTL

(* The statistics of the cycle partition the listing at every moment.        *)
THEOREM StatsArePartitioned == Spec => []StatsPartition
<1>1. MirrorInv => StatsPartition
  BY DEF MirrorInv, StatsInv
<1> QED BY <1>1, MirrorInvariance, PTL

(* What a published cycle misses of its listing is what has failed; of the   *)
(* fleet it misses no more when the listing is complete.                     *)
LEMMA MissedHaveFailed ==
    ASSUME MirrorInv, pc = "publish"
    PROVE  /\ live \ scanned \subseteq failed
           /\ ~disturbed /\ ~lied => (steady \ Hidden) \ scanned \subseteq failed
<1>1. walk = "listed" /\ cur = None
  BY DEF MirrorInv, TypeOK, Refreshing
<1>2. ~disturbed /\ ~lied => steady \ Hidden \subseteq live
  BY <1>1 DEF MirrorInv, WalkInv, Complete
<1>3. live = scanned \cup failed
  BY <1>1 DEF MirrorInv, StatsInv, StatsPartition
<1> QED BY <1>2, <1>3

(* The guard has held the failed ones below the rate.                        *)
LEMMA FailedAreFew ==
    ASSUME MirrorInv, pc = "publish", NEW missing, missing \subseteq failed
    PROVE  Cardinality(missing) * RateDen <= RateNum * Cardinality(live)
<1>1. IsFiniteSet(failed) /\ IsFiniteSet(live)
  BY HiddenAssumption, FS_Subset DEF MirrorInv, TypeOK, WalkTypeOK
<1>2. Cardinality(missing) <= Cardinality(failed)
  BY <1>1, FS_Subset
<1>3. /\ Cardinality(missing) \in Nat /\ Cardinality(failed) \in Nat
      /\ Cardinality(live) \in Nat
  BY <1>1, FS_Subset, FS_CardinalityType
<1>4. ~(Cardinality(failed) * RateDen > RateNum * Cardinality(live))
  BY DEF MirrorInv, StatsInv, Degraded
<1>5. Cardinality(missing) * RateDen <= Cardinality(failed) * RateDen
  BY <1>2, <1>3, MirrorAssumption
<1>6. /\ Cardinality(missing) * RateDen \in Nat /\ Cardinality(failed) * RateDen \in Nat
      /\ RateNum * Cardinality(live) \in Nat
  BY <1>3, MirrorAssumption
<1> QED BY <1>4, <1>5, <1>6

(* A published cycle covers its listing, and, unless something was deleted   *)
(* from the pages or an answer showed less than there was, the whole fleet,  *)
(* up to the failure rate, for any fleet, rate and number of faults.         *)
THEOREM PublishedCyclesCover == Spec => []PublishedCovers
<1>1. MirrorInv => PublishedCovers
  <2> SUFFICES ASSUME MirrorInv, pc = "publish" PROVE PublishedCovers
    BY DEF PublishedCovers
  <2>1. MissesFew(live)
    BY MissedHaveFailed, FailedAreFew DEF MissesFew
  <2>2. ASSUME ~disturbed, ~lied PROVE MissesFew(steady \ Hidden)
    BY <2>2, MissedHaveFailed, FailedAreFew DEF MissesFew
  <2> QED BY <2>1, <2>2 DEF PublishedCovers
<1> QED BY <1>1, MirrorInvariance, PTL

=============================================================================
