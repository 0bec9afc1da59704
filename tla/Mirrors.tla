------------------------------ MODULE Mirrors ------------------------------
(* One collection after another (main._collect): enumerate, prune orphaned   *)
(* mirrors, refresh and scan each repository, judge the result, publish.     *)
(* The mirrors are directories that outlive the process.                     *)
EXTENDS Enumeration

CONSTANTS
    DeepenAttempts,     \* gitscan._DEEPEN_MAX_ATTEMPTS
    RateNum, RateDen,   \* cfg.max_failure_rate, as a fraction
    Before,             \* bound: what a directory may be like at the start
    MaxFaults,          \* bound: calls that fail, crashes, lying pages
    None

ASSUME MirrorAssumption ==
    /\ DeepenAttempts \in Nat /\ MaxFaults \in Nat
    /\ RateNum \in Nat /\ RateDen \in Nat \ {0} /\ RateNum <= RateDen
    /\ None \notin Repos

VARIABLES
    disk,         \* <repo>.git: whole ("full", "short" if the shallow boundary
                  \* is newer than the cutoff), "damaged", without HEAD, or none
    tmp,          \* the repositories with a <repo>.git.tmp
    pc, cur, todo,
    doomed,       \* what the running prune has left to remove
    tries,        \* deepening fetches made
    refreshed,    \* the second result of ensure_mirror
    scanned, failed, stale, partial, pruned,   \* the cycle's stats
    outcome,      \* how the last cycle ended
    owed,         \* history: the mirrors the cycle has no reason to lose
    faults

statsVars == <<scanned, failed, stale, partial, pruned>>
loopVars == <<cur, todo, doomed, tries, refreshed>>
mirrorVars == <<disk, tmp, pc, loopVars, statsVars, outcome, owed, faults>>
vars == <<walkVars, mirrorVars>>

DiskStates == {"none", "full", "short", "damaged", "headless"}
ASSUME BeforeAssumption == Before \subseteq DiskStates
HasHead(d) == d \in {"full", "short", "damaged"}
Usable(d) == d \in {"full", "short"}
Torn(d) == IF HasHead(d) THEN {"damaged", "headless"} ELSE {d}

Refreshing ==
    {"fetch", "deepen", "deepening", "discard", "clone", "cloning", "install", "rename"}
Places == {"idle", "walk", "prune", "next", "scan", "publish"} \cup Refreshing
Entries == Repos \X {"mirror", "tmp"}

TypeOK ==
    /\ WalkTypeOK
    /\ disk \in [Repos -> DiskStates] /\ tmp \subseteq Repos
    /\ pc \in Places /\ cur \in Repos \cup {None} /\ todo \subseteq Repos
    /\ (cur = None) = (pc \notin Refreshing \cup {"scan"})
    /\ (pc = "idle") = (walk = "off")
    /\ pc \notin {"idle", "walk"} => walk = "listed"
    /\ doomed \subseteq Entries
    /\ tries \in 0..DeepenAttempts /\ refreshed \in BOOLEAN
    /\ scanned \subseteq Repos /\ failed \subseteq Repos /\ stale \subseteq Repos
    /\ partial \subseteq Repos /\ pruned \subseteq Repos /\ owed \subseteq Repos
    /\ outcome \in {"none", "published", "withheld", "failed", "crashed"}
    /\ faults \in 0..MaxFaults

NoStats == scanned = {} /\ failed = {} /\ stale = {} /\ partial = {} /\ pruned = {}

(* Whatever earlier processes left on the volume.                            *)
Init ==
    /\ WalkInit
    /\ disk \in [Repos -> Before] /\ tmp \in {{}, Repos}
    /\ pc = "idle" /\ cur = None /\ todo = {} /\ doomed = {}
    /\ tries = 0 /\ refreshed = FALSE
    /\ NoStats /\ outcome = "none" /\ owed = {}
    /\ faults = 0

Fault == faults < MaxFaults /\ faults' = faults + 1

(* shutil.rmtree(..., ignore_errors=True).                                   *)
RmTree(r) ==
    \/ disk' = [disk EXCEPT ![r] = "none"] /\ UNCHANGED faults
    \/ Fault /\ disk[r] # "none" /\ \E d \in Torn(disk[r]) : disk' = [disk EXCEPT ![r] = d]

EndCycle(result) ==
    /\ WalkOver
    /\ pc' = "idle" /\ cur' = None /\ todo' = {} /\ doomed' = {}
    /\ tries' = 0 /\ refreshed' = FALSE /\ owed' = {}
    /\ scanned' = {} /\ failed' = {} /\ stale' = {} /\ partial' = {} /\ pruned' = {}
    /\ outcome' = result

-----------------------------------------------------------------------------
(* Enumeration.                                                              *)

BeginCycle ==
    /\ pc = "idle"
    /\ BeginWalk
    /\ pc' = "walk"
    /\ owed' = {r \in ToSet(fleet) \ Hidden : Usable(disk[r])}
    /\ UNCHANGED <<disk, tmp, loopVars, statsVars, outcome, faults>>

Listing ==
    /\ pc = "walk"
    /\ \/ FullPage /\ UNCHANGED faults
       \/ LastPage /\ UNCHANGED faults
       \/ ListingFault /\ Fault
    /\ UNCHANGED <<disk, tmp, pc, loopVars, statsVars, outcome, owed>>

ListingFails ==
    /\ pc = "walk" /\ walk = "page"
    /\ \/ ~Fresh(Batch) /\ UNCHANGED faults
       \/ Fault
    /\ EndCycle("failed")
    /\ UNCHANGED <<disk, tmp>>

-----------------------------------------------------------------------------
(* gitscan.prune_orphans.                                                    *)

(* EvenIfEmpty: a mutant, the prune without its refusal.                     *)
Litter == {<<r, "tmp">> : r \in tmp}
Orphans == {<<r, "mirror">> : r \in {x \in Repos \ live : HasHead(disk[x])}}
EvenIfEmpty == Litter \cup Orphans
ToSweep == IF live = {} THEN {} ELSE Litter \cup Orphans

BeginPrune ==
    /\ pc = "walk" /\ walk = "listed"
    /\ pc' = "prune" /\ doomed' = ToSweep
    /\ UNCHANGED <<walkVars, disk, tmp, cur, todo, tries, refreshed, statsVars, outcome, owed, faults>>

SweepLitter(r) ==
    /\ pc = "prune" /\ <<r, "tmp">> \in doomed
    /\ doomed' = doomed \ {<<r, "tmp">>}
    /\ tmp' = tmp \ {r}
    /\ UNCHANGED <<walkVars, disk, pc, cur, todo, tries, refreshed, statsVars, outcome, owed, faults>>

SweepMirror(r) ==
    /\ pc = "prune" /\ <<r, "mirror">> \in doomed
    /\ doomed' = doomed \ {<<r, "mirror">>}
    /\ RmTree(r)
    /\ pruned' = pruned \cup {r}
    /\ UNCHANGED <<walkVars, tmp, pc, cur, todo, tries, refreshed,
                   scanned, failed, stale, partial, outcome, owed>>

EndPrune ==
    /\ pc = "prune" /\ doomed = {}
    /\ pc' = "next" /\ todo' = live
    /\ UNCHANGED <<walkVars, disk, tmp, cur, doomed, tries, refreshed, statsVars, outcome, owed, faults>>

-----------------------------------------------------------------------------
(* gitscan.ensure_mirror, one repository at a time.                          *)

NextRepo(r) ==
    /\ pc = "next" /\ r \in todo
    /\ cur' = r /\ todo' = todo \ {r}
    /\ tries' = 0 /\ refreshed' = TRUE
    /\ pc' = IF HasHead(disk[r]) THEN "fetch" ELSE "clone"
    /\ UNCHANGED <<walkVars, disk, tmp, doomed, statsVars, outcome, owed, faults>>

Goto(place) ==
    /\ pc' = place
    /\ UNCHANGED <<walkVars, cur, todo, doomed, refreshed, statsVars, outcome>>

RepoFails ==
    /\ failed' = failed \cup {cur}
    /\ pc' = "next" /\ cur' = None /\ tries' = 0 /\ refreshed' = FALSE
    /\ UNCHANGED <<walkVars, disk, todo, doomed, scanned, stale, partial, pruned, outcome, owed>>

(* A fetch that git completes leaves a whole mirror.                         *)
Fetched ==
    /\ \E d \in (IF disk[cur] = "full" THEN {"full"} ELSE {"full", "short"}) :
           disk' = [disk EXCEPT ![cur] = d]
    /\ UNCHANGED <<tmp, owed, faults>>

Fetch ==
    /\ pc = "fetch"
    /\ Fetched
    /\ Goto("deepen") /\ UNCHANGED tries

(* DeepenAgain: a mutant, one attempt too many.                              *)
DeepenAgain == tries <= DeepenAttempts
DeepenMore == tries < DeepenAttempts

(* mirror_history_complete also answers no when it cannot read the boundary. *)
TooShort ==
    /\ pc = "deepen" /\ DeepenMore
    /\ \/ disk[cur] = "short" /\ UNCHANGED faults
       \/ Fault
    /\ Goto("deepening") /\ UNCHANGED <<disk, tmp, owed, tries>>

Deepen ==
    /\ pc = "deepening"
    /\ Fetched
    /\ Goto("deepen") /\ tries' = tries + 1

Deepened ==
    /\ pc = "deepen" /\ (DeepenMore => disk[cur] = "full")
    /\ Goto("scan") /\ UNCHANGED <<disk, tmp, owed, tries, faults>>

AtFetch == pc \in {"fetch", "deepening"}

(* The mirror is kept: a rejected credential fails the repository, a timeout *)
(* serves the mirror as it is (AfterTimeoutReclone: a mutant).               *)
FetchRejected ==
    /\ AtFetch /\ Fault
    /\ RepoFails /\ UNCHANGED tmp

AfterTimeoutReclone == "discard"
AfterTimeout == "scan"

(* A timeout is counted when the scan has succeeded (StaleAtOnce: a mutant). *)
StaleAtOnce == stale \cup {cur}
StaleBeforeScan == stale

FetchTimesOut ==
    /\ AtFetch /\ Fault
    /\ refreshed' = FALSE /\ pc' = AfterTimeout
    /\ stale' = StaleBeforeScan
    /\ UNCHANGED <<walkVars, disk, tmp, cur, todo, doomed, tries,
                   scanned, failed, partial, pruned, outcome, owed>>

(* Any other failure counts as corruption (AfterBrokenServe: a mutant, the   *)
(* mirror is served as after a timeout).                                     *)
AfterBrokenServe == "scan"
AfterBroken == "discard"

FetchBroken ==
    /\ AtFetch
    /\ \/ disk[cur] = "damaged" /\ UNCHANGED faults
       \/ Fault
    /\ owed' = owed \ {cur}
    /\ Goto(AfterBroken) /\ UNCHANGED <<disk, tmp, tries>>

Discard ==
    /\ pc = "discard"
    /\ RmTree(cur)
    /\ Goto("clone") /\ UNCHANGED <<tmp, owed, tries>>

(* The directory is there from the start of the clone.  The clone at depth 1 *)
(* of a dormant repository is the same step.                                 *)
BeginClone ==
    /\ pc = "clone"
    /\ tmp' = tmp \cup {cur}
    /\ Goto("cloning") /\ UNCHANGED <<disk, owed, tries, faults>>

Cloned ==
    /\ pc = "cloning"
    /\ Goto("install") /\ UNCHANGED <<disk, tmp, owed, tries, faults>>

Cleared == IF pc \in {"cloning", "rename"} THEN tmp \ {cur} ELSE tmp

CloneFails ==
    /\ pc \in {"clone", "cloning"} /\ Fault
    /\ tmp' = Cleared
    /\ RepoFails

Install ==
    /\ pc = "install"
    /\ RmTree(cur)
    /\ Goto("rename") /\ UNCHANGED <<tmp, owed, tries>>

(* The clone is bounded by a date, or by depth, and not deepened.            *)
Rename ==
    /\ pc = "rename" /\ disk[cur] = "none"
    /\ \E d \in {"full", "short"} : disk' = [disk EXCEPT ![cur] = d]
    /\ tmp' = tmp \ {cur}
    /\ Goto("scan") /\ UNCHANGED <<owed, tries, faults>>

(* os.rename does not replace a directory that is not empty.                 *)
RenameFails ==
    /\ pc = "rename"
    /\ \/ disk[cur] # "none" /\ UNCHANGED faults
       \/ Fault
    /\ tmp' = tmp \ {cur}
    /\ RepoFails

(* mirror_history_complete, scan_commits and read_events.                    *)
Scan ==
    /\ pc = "scan"
    /\ scanned' = scanned \cup {cur}
    /\ stale' = IF refreshed THEN stale ELSE stale \cup {cur}
    /\ \/ disk[cur] # "full" /\ partial' = partial \cup {cur} /\ UNCHANGED faults
       \/ disk[cur] # "short" /\ UNCHANGED <<partial, faults>>
       \/ partial' = partial \cup {cur} /\ Fault
    /\ pc' = "next" /\ cur' = None /\ tries' = 0 /\ refreshed' = FALSE
    /\ UNCHANGED <<walkVars, disk, tmp, todo, doomed, failed, pruned, outcome, owed>>

ScanFails ==
    /\ pc = "scan"
    /\ \/ disk[cur] = "damaged" /\ UNCHANGED faults
       \/ Fault
    /\ RepoFails /\ UNCHANGED tmp

(* StorageExhausted from any call of the refresh or the scan.                *)
VolumeFull ==
    /\ \/ AtFetch \/ pc \in {"clone", "cloning", "rename", "scan"}
       \/ pc = "deepen" /\ DeepenMore
    /\ Fault
    /\ tmp' = Cleared
    /\ EndCycle("failed")
    /\ UNCHANGED disk

-----------------------------------------------------------------------------
(* The publish guard and the publication, here one step.                     *)

Degraded == Cardinality(failed) * RateDen > RateNum * Cardinality(live)
Judged == pc = "next" /\ todo = {}

Withhold ==
    /\ Judged /\ Degraded
    /\ EndCycle("withheld")
    /\ UNCHANGED <<disk, tmp, faults>>

PassGuard ==
    /\ Judged /\ ~Degraded
    /\ pc' = "publish"
    /\ UNCHANGED <<walkVars, disk, tmp, loopVars, statsVars, outcome, owed, faults>>

Publish ==
    /\ pc = "publish"
    /\ EndCycle("published")
    /\ UNCHANGED <<disk, tmp, faults>>

(* The marker of the clone root is gone before the prune has begun, an entry *)
(* cannot be examined in it, a payload cannot be built, or the publication   *)
(* fails.                                                                    *)
CycleFails ==
    /\ pc \in {"walk", "prune", "publish"} /\ Fault
    /\ EndCycle("failed")
    /\ UNCHANGED <<disk, tmp>>

(* A crash may also cut short the rmtree that was running.                   *)
BeingRemoved ==
    IF pc \in {"discard", "install"} THEN {cur}
    ELSE {r \in Repos : <<r, "mirror">> \in doomed}

Crash ==
    /\ pc # "idle" /\ Fault
    /\ EndCycle("crashed")
    /\ \/ UNCHANGED disk
       \/ \E r \in BeingRemoved : \E d \in Torn(disk[r]) : disk' = [disk EXCEPT ![r] = d]
    /\ UNCHANGED tmp

-----------------------------------------------------------------------------

Enumerating == BeginCycle \/ Listing \/ ListingFails
Pruning == BeginPrune \/ EndPrune \/ \E r \in Repos : SweepLitter(r) \/ SweepMirror(r)
RefreshInPlace ==
    \/ \E r \in Repos : NextRepo(r)
    \/ Fetch \/ TooShort \/ Deepen \/ Deepened \/ FetchRejected \/ FetchTimesOut \/ FetchBroken
Recloning == Discard \/ BeginClone \/ Cloned \/ CloneFails \/ Install \/ Rename \/ RenameFails
Scanning == Scan \/ ScanFails \/ VolumeFull
Judging == Withhold \/ PassGuard \/ Publish \/ CycleFails

Next ==
    \/ ForgeChanges /\ UNCHANGED mirrorVars
    \/ Enumerating \/ Pruning \/ RefreshInPlace \/ Recloning \/ Scanning \/ Judging
    \/ Crash

Spec == Init /\ [][Next]_vars

(* The loop is sequential, every call returns, every wait between two cycles *)
(* ends; that calls succeed, or a fleet stands still, is only a bound.       *)
FairSpec == Spec /\ WF_vars(Next)

-----------------------------------------------------------------------------
(* Properties.                                                               *)

(* A usable mirror of a listed repository outlives the cycle, whatever fails *)
(* or times out in it, unless git calls its fetch broken: no prune, timeout, *)
(* rejected credential or full volume costs it, and a listing that falsely   *)
(* says nothing is there costs none (gitscan.ensure_mirror, prune_orphans);  *)
(* one that falsely leaves out some does.                                    *)
OwedKept ==
    ~disturbed /\ (lied => live = {}) => \A r \in owed : Usable(disk[r])

(* What is reported as refreshed was scanned from a whole mirror, although   *)
(* earlier crashes and removals leave damaged ones behind.                   *)
RefreshedIsWhole == pc = "scan" /\ refreshed => Usable(disk[cur])

(* Every listed repository is scanned or failed, once, or still to come; the *)
(* stale and the partial ones are among the scanned (meta.json's relations). *)
StatsPartition ==
    pc \notin {"idle", "walk", "prune"} =>
        /\ live = scanned \cup failed \cup todo \cup ({cur} \ {None})
        /\ scanned \cap failed = {} /\ todo \cap (scanned \cup failed) = {}
        /\ cur \notin scanned \cup failed \cup todo
        /\ stale \cup partial \subseteq scanned

(* A cycle that publishes covers what it listed up to the failure rate; and, *)
(* unless something was deleted from the pages or an answer showed less than *)
(* there was, what was on the forge throughout.  The guard has no other view *)
(* of the fleet than the listing, and none at all if that is empty: a cycle  *)
(* whose listing is falsely empty publishes nothing of the fleet.            *)
MissesFew(repos) == Cardinality(repos \ scanned) * RateDen <= RateNum * Cardinality(live)
PublishedCovers ==
    pc = "publish" =>
        /\ MissesFew(live)
        /\ ~disturbed /\ ~lied => MissesFew(steady \ Hidden)

Wanted == ToSet(fleet) \ Hidden

(* When calls stop failing and the fleet stands still, every repository gets *)
(* a usable mirror, and unless the fleet is empty orphans and the litter of  *)
(* killed clones go.                                                         *)
Settled ==
    /\ \A r \in Wanted : Usable(disk[r])
    /\ Wanted # {} => tmp = {} /\ \A r \in Repos \ Wanted : ~HasHead(disk[r])
Converges == <>[]Settled

(* ... and every cycle then publishes all of it, none of it stale.           *)
FullCoverage == []<>(pc = "publish" /\ scanned = Wanted /\ stale = {})

(* data-sources.md, "Orphaned mirrors are pruned every cycle": "Pruned repo  *)
(* names are recorded in mirrors_pruned so a deletion is auditable"; at the  *)
(* latest when the prune has ended and the cycle publishes nothing.          *)
PrunesAudited ==
    [][pruned # {} /\ pruned' = {} /\ pc # "prune"
           => outcome' \in {"published", "crashed"}]_vars

(* output-schema.md, mirrors_pruned: "Mirrors deleted this cycle because     *)
(* their repo was deleted, renamed, denylisted or emptied on the forge": not *)
(* one that was on the forge throughout, in full answers.                    *)
PrunedAreGone ==
    [][~lied => \A r \in pruned' \ pruned : r \notin steady \ Hidden]_vars
=============================================================================
