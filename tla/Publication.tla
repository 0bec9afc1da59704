---------------------------- MODULE Publication ----------------------------
(***************************************************************************)
(* The S3 publication protocol of the exporter (src/src/publish.py), driven *)
(* by the poll loop that calls it once per cycle (src/src/main.py).  One    *)
(* process owns the destination prefix.  It repairs the fixed keys from the *)
(* pointed-to cycle, stages a new cycle under its own prefix, mirrors it to *)
(* the fixed keys, commits it with one PUT of current.json, and prunes old  *)
(* prefixes.  Every S3 call may fail, a failed write may or may not have    *)
(* reached the bucket, and the process may die between any two calls.       *)
(*                                                                         *)
(* The grain of atomicity is one S3 request that writes.  Requests that     *)
(* only read are grouped with the decision taken on them: the process is    *)
(* the only writer of the prefix, so nothing can change between them.       *)
(***************************************************************************)
EXTENDS Integers, FiniteSets

CONSTANTS
    Data,            \* the Parquet payload names
    Meta,            \* "meta.json", the payload mirrored last
    CycleIds,        \* cycle IDs; their order is the order of the ID strings
    Earlier,         \* the ID of a cycle an earlier process published
    Retention,       \* RETAINED_CYCLES
    ClockStepsBack,  \* TRUE: a cycle may be stamped no later than the last
    MaxRuns,         \* bound: cycles that get as far as minting an ID
    MaxFaults,       \* bound: failed S3 calls and crashes in a behaviour
    None,            \* no object under a key
    Bad              \* a current.json that does not validate

ASSUME NamesAssumption == Meta \notin Data
ASSUME CycleIdsAssumption == CycleIds \subseteq Nat /\ Earlier \in CycleIds
ASSUME NumbersAssumption ==
    /\ Retention \in Nat \ {0} /\ MaxRuns \in Nat /\ MaxFaults \in Nat
    /\ ClockStepsBack \in BOOLEAN

Names == Data \cup {Meta}

(* A payload is told apart by the cycle ID its dataset carries and by the  *)
(* run of the exporter that generated it; two runs may mint one ID.        *)
Bodies == [id : CycleIds \cup {None}, run : 0 .. MaxRuns]
Objects == Bodies \cup {None}
Datasets == [Names -> Objects]

ASSUME MarkersAssumption ==
    /\ None \notin CycleIds /\ Bad \notin CycleIds /\ None # Bad
    /\ None \notin Bodies

VARIABLES
    (* the bucket *)
    pointer,   \* what current.json names
    staged,    \* the objects below cycles/<id>/
    fixed,     \* the objects at the root of the prefix
    (* the publisher; lost in a crash *)
    pc,        \* what the process does next
    ctx,       \* the caller of the running reconciliation
    cur,       \* the ID of the cycle being published
    todo,      \* the payload names a loop has left
    snapshot,  \* the fixed keys saved before a bootstrap
    trusted,   \* recovery.prune_allowed
    doomed,    \* the cycles a prune has left to delete
    outcome,   \* how the last cycle ended
    (* history and environment *)
    restored,  \* a rollback of this attempt ran to its end
    swept,     \* every deletion of the last prune succeeded
    run,       \* cycles that minted an ID so far
    clock,     \* the newest ID the wall clock has reached
    faults     \* failures and crashes so far

bucket == <<pointer, staged, fixed>>
attempt == <<cur, snapshot, restored, swept, run, clock>>
vars == <<bucket, pc, ctx, todo, trusted, doomed, outcome, attempt, faults>>

-----------------------------------------------------------------------------
Steps == {"idle", "recover", "repair", "collect", "snapshot", "collision",
          "stage", "mirror", "commit", "resolve", "restore", "raise",
          "list", "prune"}
Callers == {"start", "publish", "rollback"}
Outcomes == {"none", "published", "withheld", "failed", "publication_error"}

TypeOK ==
    /\ pointer \in CycleIds \cup {None, Bad}
    /\ staged \in [CycleIds -> Datasets]
    /\ fixed \in Datasets
    /\ pc \in Steps /\ ctx \in Callers
    /\ cur \in CycleIds \cup {None}
    /\ todo \in SUBSET Names
    /\ snapshot \in Datasets
    /\ trusted \in BOOLEAN
    /\ doomed \in SUBSET CycleIds
    /\ outcome \in Outcomes
    /\ restored \in BOOLEAN /\ swept \in BOOLEAN
    /\ run \in 0 .. MaxRuns
    /\ clock \in CycleIds \cup {0}
    /\ faults \in 0 .. MaxFaults

-----------------------------------------------------------------------------
(* _pointer_snapshot: a pointer is followed only when every object it names *)
(* is there and its meta.json carries the pointer's cycle ID.               *)
Whole(c) == \A n \in Names : staged[c][n] # None
PointerUsable ==
    /\ pointer \in CycleIds
    /\ Whole(pointer)
    /\ staged[pointer][Meta].id = pointer

(* Mutant: only the markers are compared. *)
InSyncByMarker == fixed[Meta] = staged[pointer][Meta]

(* The comparison of all fixed keys with all the objects of the cycle. *)
InSync == fixed = staged[pointer]

(* prefix_exists: some object lies below the cycle's prefix. *)
HasObjects(c) == \E n \in Names : staged[c][n] # None

(* Mutant: the names in any order. *)
AnyOrder(S) == S

(* _ordered_names, _meta_last: what a loop over S may write next. *)
MetaLast(S) == IF S \subseteq {Meta} THEN S ELSE S \ {Meta}

(* Mutant: the meta document is built from the live pointer. *)
BodyOfPointer == [id |-> pointer, run |-> run]

Body == [id |-> cur, run |-> run]
Nothing == [n \in Names |-> None]

(* One pass of a loop over names: move on after the last of them. *)
LoopOver(n, next, nextTodo) ==
    IF todo = {n}
    THEN pc' = next /\ todo' = nextTodo
    ELSE pc' = pc /\ todo' = todo \ {n}

Fault == faults < MaxFaults /\ faults' = faults + 1

-----------------------------------------------------------------------------
(* What the exporter may find when it is first started on a prefix: no      *)
(* pointer, or one it cannot read, above nothing or the fixed keys of a     *)
(* release that had no pointer; or a pointer to a cycle published earlier   *)
(* by a process that died, perhaps while it wrote the mirror or after the   *)
(* cycle's prefix was damaged.                                              *)
Legacy == [id |-> None, run |-> 0]
EarlierBody == [id |-> Earlier, run |-> 0]

NoCycles == [c \in CycleIds |-> Nothing]

StartWithout ==
    /\ pointer \in {None, Bad}
    /\ staged = NoCycles
    /\ fixed \in {Nothing, [n \in Names |-> Legacy]}
    /\ clock = 0

StartWith ==
    /\ pointer = Earlier
    /\ \E cycle \in [Names -> {EarlierBody, None}]
                       \cup {[[n \in Names |-> EarlierBody] EXCEPT ![Meta] = Legacy]} :
          staged = [NoCycles EXCEPT ![Earlier] = cycle]
    /\ fixed \in [Names -> {EarlierBody, Legacy}]
    /\ clock = Earlier

Init ==
    /\ StartWithout \/ StartWith
    /\ pc = "idle" /\ ctx = "start" /\ outcome = "none"
    /\ cur = None /\ todo = {} /\ snapshot = Nothing
    /\ trusted = FALSE /\ doomed = {} /\ restored = FALSE /\ swept = TRUE
    /\ run = 0 /\ faults = 0

-----------------------------------------------------------------------------
(* main polls, and _run_cycle begins by reconciling the fixed keys. *)
BeginCycle ==
    /\ pc = "idle"
    /\ pc' = "recover" /\ ctx' = "start"
    /\ cur' = None /\ restored' = FALSE
    /\ UNCHANGED <<bucket, todo, snapshot, trusted, doomed, outcome, swept,
                   run, clock, faults>>

(* Where the caller of the reconciliation goes on when it returns. *)
Resume == CASE ctx = "start"    -> "collect"
            [] ctx = "publish"  -> IF trusted' THEN "collision" ELSE "snapshot"
            [] ctx = "rollback" -> "raise"

(* _reconcile_publication with nothing to write: there is no pointer to     *)
(* trust, or the fixed keys already match the cycle it names.               *)
RecoverReads ==
    /\ pc = "recover"
    /\ PointerUsable => InSync
    /\ trusted' = PointerUsable
    /\ pc' = Resume
    /\ restored' = (ctx = "rollback")
    /\ UNCHANGED <<bucket, ctx, cur, todo, snapshot, doomed, outcome, swept,
                   run, clock, faults>>

(* _reconcile_publication finds the fixed keys to differ from the cycle. *)
RecoverRepairs ==
    /\ pc = "recover"
    /\ PointerUsable /\ ~ InSync
    /\ trusted' = TRUE
    /\ pc' = "repair" /\ todo' = Names
    /\ UNCHANGED <<bucket, ctx, doomed, outcome, attempt, faults>>

RepairPut(n) ==
    /\ pc = "repair" /\ n \in MetaLast(todo)
    /\ fixed' = [fixed EXCEPT ![n] = staged[pointer][n]]
    /\ LoopOver(n, Resume, {})
    /\ restored' = (ctx = "rollback" /\ todo = {n})
    /\ UNCHANGED <<pointer, staged, ctx, cur, snapshot, trusted, doomed,
                   outcome, swept, run, clock, faults>>

(* A read or a write of the reconciliation fails.  At the start of a cycle  *)
(* and before staging it ends the cycle; after a failed mirror or commit    *)
(* _recover_after_failure swallows it, for the first error is raised.       *)
RecoverFails ==
    /\ pc = "recover" \/ pc = "repair"
    /\ Fault
    /\ \/ fixed' = fixed
       \/ /\ pc = "repair"
          /\ \E n \in MetaLast(todo) :
                fixed' = [fixed EXCEPT ![n] = staged[pointer][n]]
    /\ pc' = "raise" /\ todo' = {}
    /\ UNCHANGED <<pointer, staged, ctx, trusted, doomed, outcome, attempt>>

-----------------------------------------------------------------------------
(* The collection fails, or the publish guard withholds its result. *)
CollectEnds(how) ==
    /\ pc = "collect"
    /\ pc' = "idle" /\ outcome' = how
    /\ UNCHANGED <<bucket, ctx, todo, trusted, doomed, attempt, faults>>

(* The payloads are generated under a new ID and publish_cycle is called:   *)
(* it reconciles once more before it writes.                                *)
Mint(id) ==
    /\ pc = "collect"
    /\ run < MaxRuns
    /\ id > clock \/ ClockStepsBack
    /\ run' = run + 1 /\ cur' = id
    /\ clock' = IF id > clock THEN id ELSE clock
    /\ pc' = "recover" /\ ctx' = "publish"
    /\ UNCHANGED <<bucket, todo, snapshot, trusted, doomed, outcome, restored,
                   swept, faults>>

(* _snapshot_fixed_keys, when there was no trusted pointer. *)
TakeSnapshot ==
    /\ pc = "snapshot"
    /\ snapshot' = fixed
    /\ pc' = "collision"
    /\ UNCHANGED <<bucket, ctx, cur, todo, trusted, doomed, outcome, restored,
                   swept, run, clock, faults>>

(* Mutants: all of cycles/ is listed; only the Parquet payloads are staged. *)
AnyCollision == \E c \in CycleIds : HasObjects(c)
DataOnly == Data

(* What must be empty before the first upload, and what is uploaded. *)
Collision == HasObjects(cur)
Payloads == Names

(* The prefix the cycle is staged under must be empty. *)
CollisionCheck ==
    /\ pc = "collision"
    /\ IF Collision
       THEN pc' = "raise" /\ todo' = {}
       ELSE pc' = "stage" /\ todo' = Payloads
    /\ UNCHANGED <<bucket, ctx, trusted, doomed, outcome, attempt, faults>>

(* upload_immutable_bytes of one payload; payloads come in the caller's     *)
(* order, and an object that is there is never replaced.                    *)
StagePut(n) ==
    /\ pc = "stage" /\ n \in todo
    /\ staged[cur][n] \in {None, Body}
    /\ staged' = [staged EXCEPT ![cur][n] = Body]
    /\ LoopOver(n, "mirror", Names)
    /\ UNCHANGED <<pointer, fixed, ctx, trusted, doomed, outcome, attempt, faults>>

(* upload_bytes of one payload to its fixed key. *)
MirrorPut(n) ==
    /\ pc = "mirror" /\ n \in MetaLast(todo)
    /\ fixed' = [fixed EXCEPT ![n] = Body]
    /\ LoopOver(n, "commit", {})
    /\ UNCHANGED <<pointer, staged, ctx, trusted, doomed, outcome, attempt, faults>>

(* Mutant: a bootstrap is followed by a prune as well. *)
AlwaysPrune == pc' = "list" /\ UNCHANGED outcome

(* The commit: one PUT of current.json.  Only a cycle that began from a     *)
(* trusted pointer is followed by a prune.                                  *)
AfterCommit ==
    /\ pc' = IF trusted THEN "list" ELSE "idle"
    /\ outcome' = IF trusted THEN outcome ELSE "published"

CommitPut ==
    /\ pc = "commit"
    /\ pointer' = cur
    /\ AfterCommit
    /\ UNCHANGED <<staged, fixed, ctx, todo, trusted, doomed, attempt, faults>>

-----------------------------------------------------------------------------
(* Mutant: the saved fixed keys are forgotten. *)
RollBackToPointer == pc' = "recover" /\ ctx' = "rollback" /\ todo' = {}

(* _recover_after_failure: from the saved fixed keys in a bootstrap, else   *)
(* from the pointer.                                                        *)
RollBack ==
    IF trusted
    THEN pc' = "recover" /\ ctx' = "rollback" /\ todo' = {}
    ELSE pc' = "restore" /\ todo' = Names /\ UNCHANGED ctx

(* The snapshot, the collision check or a staging write fails: nothing a    *)
(* reader sees has been touched, and nothing is rolled back.                *)
BeforeMirrorFails ==
    /\ pc \in {"snapshot", "collision", "stage"}
    /\ Fault
    /\ \/ staged' = staged
       \/ /\ pc = "stage"
          /\ \E n \in todo : /\ staged[cur][n] = None
                             /\ staged' = [staged EXCEPT ![cur][n] = Body]
    /\ pc' = "raise" /\ todo' = {}
    /\ UNCHANGED <<pointer, fixed, ctx, trusted, doomed, outcome, attempt>>

MirrorFails ==
    /\ pc = "mirror"
    /\ Fault
    /\ \/ fixed' = fixed
       \/ \E n \in MetaLast(todo) : fixed' = [fixed EXCEPT ![n] = Body]
    /\ RollBack
    /\ UNCHANGED <<pointer, staged, trusted, doomed, outcome, attempt>>

(* The PUT of the pointer is answered with an error, or with nothing. *)
CommitFails ==
    /\ pc = "commit"
    /\ Fault
    /\ pointer' \in {pointer, cur}
    /\ pc' = "resolve"
    /\ UNCHANGED <<staged, fixed, ctx, todo, trusted, doomed, outcome, attempt>>

(* Mutant: any pointer that can be read back will do. *)
AnswerReceived == TRUE

(* The pointer read back is, byte for byte, the one just written. *)
CommitLanded == pointer = cur

(* The answer decides whether the commit took place. *)
Resolve ==
    /\ pc = "resolve"
    /\ \/ CommitLanded /\ AfterCommit /\ UNCHANGED <<ctx, todo>>
       \/ ~ CommitLanded /\ RollBack /\ UNCHANGED outcome
    /\ UNCHANGED <<bucket, trusted, doomed, attempt, faults>>

ResolveFails ==
    /\ pc = "resolve"
    /\ Fault
    /\ RollBack
    /\ UNCHANGED <<bucket, trusted, doomed, outcome, attempt>>

(* _restore_fixed_snapshot: the keys that existed are written back, then    *)
(* the others are deleted, meta.json last in both.                          *)
Saved(S) == {n \in S : snapshot[n] # None}
NextToRestore == IF Saved(todo) # {} THEN MetaLast(Saved(todo)) ELSE MetaLast(todo)

RestoreKey(n) ==
    /\ pc = "restore" /\ n \in NextToRestore
    /\ fixed' = [fixed EXCEPT ![n] = snapshot[n]]
    /\ LoopOver(n, "raise", {})
    /\ restored' = (todo = {n})
    /\ UNCHANGED <<pointer, staged, ctx, cur, snapshot, trusted, doomed,
                   outcome, swept, run, clock, faults>>

RestoreFails ==
    /\ pc = "restore"
    /\ Fault
    /\ \/ fixed' = fixed
       \/ \E n \in NextToRestore : fixed' = [fixed EXCEPT ![n] = snapshot[n]]
    /\ pc' = "raise" /\ todo' = {}
    /\ UNCHANGED <<pointer, staged, ctx, trusted, doomed, outcome, attempt>>

(* publish_cycle raises PublicationError; main records it and polls again. *)
Raise ==
    /\ pc = "raise"
    /\ pc' = "idle" /\ outcome' = "publication_error"
    /\ UNCHANGED <<bucket, ctx, todo, trusted, doomed, attempt, faults>>

-----------------------------------------------------------------------------
(* _prune: the prefixes beyond the Retention - 1 newest others. *)
(* Mutants: the committed cycle is ranked with the others; it is counted    *)
(* twice against Retention, or not at all.                                  *)
AllCycles == {c \in CycleIds : HasObjects(c)}
Others == {c \in CycleIds : HasObjects(c)} \ {cur}
Newer(c, S) == {d \in S : d > c}
SurplusAndOne == {c \in Others : Cardinality(Newer(c, Others)) >= Retention - 2}
SurplusButOne == {c \in Others : Cardinality(Newer(c, Others)) >= Retention}
Surplus == {c \in Others : Cardinality(Newer(c, Others)) >= Retention - 1}

PruneList ==
    /\ pc = "list"
    /\ doomed' = Surplus
    /\ pc' = "prune" /\ swept' = TRUE
    /\ UNCHANGED <<bucket, ctx, cur, todo, snapshot, trusted, outcome, restored,
                   run, clock, faults>>

PruneListFails ==
    /\ pc = "list"
    /\ Fault
    /\ pc' = "idle" /\ outcome' = "published" /\ swept' = FALSE
    /\ UNCHANGED <<bucket, ctx, cur, todo, snapshot, trusted, doomed, restored,
                   run, clock>>

(* The newest doomed cycle goes first, its objects one at a time. *)
Deleting(c, n) ==
    /\ pc = "prune"
    /\ c \in doomed /\ Newer(c, doomed) = {}
    /\ staged[c][n] # None

Only(c, n) == \A m \in Names \ {n} : staged[c][m] = None

PruneDelete(c, n) ==
    /\ Deleting(c, n)
    /\ staged' = [staged EXCEPT ![c][n] = None]
    /\ doomed' = IF Only(c, n) THEN doomed \ {c} ELSE doomed
    /\ UNCHANGED <<pointer, fixed, pc, ctx, todo, trusted, outcome, attempt, faults>>

(* A failed listing or deletion gives the cycle up and goes to the next. *)
PruneDeleteFails(c, n) ==
    /\ Deleting(c, n)
    /\ Fault
    /\ staged' \in {staged, [staged EXCEPT ![c][n] = None]}
    /\ doomed' = doomed \ {c} /\ swept' = FALSE
    /\ UNCHANGED <<pointer, fixed, pc, ctx, cur, todo, snapshot, trusted,
                   outcome, restored, run, clock>>

(* publish_cycle returns and main records the publication. *)
PruneEnds ==
    /\ pc = "prune" /\ doomed = {}
    /\ pc' = "idle" /\ outcome' = "published"
    /\ UNCHANGED <<bucket, ctx, todo, trusted, doomed, attempt, faults>>

-----------------------------------------------------------------------------
(* The pod dies; its successor knows nothing but the bucket. *)
Crash ==
    /\ pc # "idle"
    /\ Fault
    /\ pc' = "idle" /\ ctx' = "start" /\ outcome' = "none"
    /\ cur' = None /\ todo' = {} /\ snapshot' = Nothing
    /\ trusted' = FALSE /\ doomed' = {} /\ restored' = FALSE /\ swept' = TRUE
    /\ UNCHANGED <<bucket, run, clock>>

Recovery ==
    \/ RecoverReads \/ RecoverRepairs \/ RecoverFails
    \/ \E n \in Names : RepairPut(n)

Collection ==
    \/ \E how \in {"failed", "withheld"} : CollectEnds(how)
    \/ \E id \in CycleIds : Mint(id)

Publishing ==
    \/ TakeSnapshot \/ CollisionCheck
    \/ \E n \in Names : StagePut(n) \/ MirrorPut(n)
    \/ CommitPut

Failing ==
    \/ BeforeMirrorFails \/ MirrorFails \/ CommitFails
    \/ Resolve \/ ResolveFails
    \/ \E n \in Names : RestoreKey(n)
    \/ RestoreFails \/ Raise

Pruning ==
    \/ PruneList \/ PruneListFails \/ PruneEnds
    \/ \E c \in CycleIds, n \in Names : PruneDelete(c, n) \/ PruneDeleteFails(c, n)

Next == BeginCycle \/ Recovery \/ Collection \/ Publishing \/ Failing \/ Pruning \/ Crash

Spec == Init /\ [][Next]_vars

(* The loop of main is sequential and polls for ever: while some step is    *)
(* enabled one is taken.                                                    *)
FairSpec == Spec /\ WF_vars(Next)
-----------------------------------------------------------------------------
(* Once the pointer names a usable cycle it always does: no failure, crash, *)
(* rollback, clock step or prune leaves a pointer-first consumer without a  *)
(* complete dataset.                                                        *)
AuthorityKept == [][PointerUsable => PointerUsable']_vars

(* A consumer that follows the pointer sees one dataset at a time, whole,   *)
(* and only ever the dataset of a later run in its place.                   *)
Atomic == INSTANCE AtomicDataset
             WITH Ids <- CycleIds, LastRun <- MaxRuns,
                  live <- IF PointerUsable THEN staged[pointer] ELSE None
ImplementsAtomicDataset == Atomic!Spec

(* A cycle reported as published is the one the pointer names, and the      *)
(* fixed keys hold it too, whatever was retried or resolved on the way.     *)
PublishedMeansMirrored ==
    (pc = "idle" /\ outcome = "published" /\ cur # None) =>
        pointer = cur /\ PointerUsable /\ fixed = staged[pointer]

(* Why these hold, step by step: what each stage of the protocol leaves     *)
(* behind for the next one.  The commit finds a cycle whose every object is *)
(* staged and mirrored, and the prune a pointer that names the cycle it     *)
(* keeps.                                                                   *)
Minted == {"snapshot", "collision", "stage", "mirror", "commit", "resolve",
           "list", "prune"}
AllStaged == {"mirror", "commit", "resolve", "list", "prune"}
AllMirrored == {"commit", "resolve", "list", "prune"}

ProtocolInv ==
    /\ (pc \in Minted \/ (pc \in {"recover", "repair"} /\ ctx = "publish"))
         => cur \in CycleIds
    /\ pc = "repair" => PointerUsable
    /\ pc = "stage" => \A n \in Names \ todo : staged[cur][n] = Body
    /\ pc \in AllStaged => \A n \in Names : staged[cur][n] = Body
    /\ pc = "mirror" => \A n \in Names \ todo : fixed[n] = Body
    /\ pc \in AllMirrored => \A n \in Names : fixed[n] = Body
    /\ pc \in {"list", "prune"} => pointer = cur
    /\ pc = "prune" => cur \notin doomed
    /\ PublishedMeansMirrored

(* A rollback that ran to its end leaves the fixed keys as the pointed-to   *)
(* cycle or, in a bootstrap, exactly as they were found, absences included. *)
RollbackRestores ==
    (pc = "raise" /\ restored) =>
        IF trusted THEN PointerUsable /\ fixed = staged[pointer]
                   ELSE fixed = snapshot

(* The marker is written last: outside the rollback of a bootstrap, the     *)
(* fixed meta.json changes only to that of the dataset all the other fixed  *)
(* keys already hold.                                                       *)
MarkerFollowsData ==
    [][(fixed'[Meta] # fixed[Meta] /\ pc # "restore") =>
          \A n \in Data : fixed'[n] = fixed'[Meta]]_vars

(* Nothing below cycles/ is deleted but by the prune of a cycle that began  *)
(* from a trusted pointer, and then only from a prefix that is not the      *)
(* pointed-to one and is older than Retention - 1 other prefixes.           *)
OnlySurplusDeleted ==
    [][\A c \in CycleIds :
          (\E n \in Names : staged[c][n] # None /\ staged'[c][n] = None) =>
             /\ trusted /\ c # pointer
             /\ Cardinality({d \in CycleIds \ {pointer} : d > c /\ HasObjects(d)})
                  >= Retention - 1]_vars

(* After a prune that reported no failure, at most Retention prefixes are   *)
(* left, counting those of cycles that were staged and never committed.     *)
PruneBounds ==
    (pc = "idle" /\ outcome = "published" /\ trusted /\ swept) =>
        Cardinality({c \in CycleIds : HasObjects(c)}) <= Retention

(* The fixed keys converge to a usable pointer's cycle: a mixture left by a *)
(* failed rollback or a crash is repaired by a later cycle, even when no    *)
(* later cycle publishes.                                                   *)
MirrorConverges == PointerUsable ~> (PointerUsable /\ fixed = staged[pointer])

(* Whatever earlier failures left in the bucket, once calls stop failing a  *)
(* cycle handed to publish_cycle under an unused ID becomes live.           *)
AttemptSucceeds ==
    \A id \in CycleIds :
        (faults = MaxFaults /\ pc = "recover" /\ ctx = "publish" /\ cur = id
           /\ ~ HasObjects(id))
        ~> (outcome = "published" /\ pointer = id)

(* publish.py says of PublicationError that the previous cycle remains      *)
(* live: the cycle that failed is not the one the pointer names.            *)
FailedCycleNotLive ==
    (pc = "idle" /\ outcome = "publication_error" /\ cur # None) => pointer # cur
=============================================================================
