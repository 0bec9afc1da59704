---------------------------- MODULE Enumeration ----------------------------
(* forge.list_repos: a walk over the pages of the forge's listing, which the *)
(* forge cuts anew from the fleet of the moment for every request.           *)
EXTENDS Naturals, FiniteSets, SequencesExt

CONSTANTS
    Repos,        \* every repository there may ever be
    Hidden,       \* those the cycle leaves out: denylisted, or empty
    PageSize,     \* forge.PAGE_SIZE
    MaxChanges    \* bound: repositories created or deleted

ASSUME HiddenAssumption == IsFiniteSet(Repos) /\ Hidden \subseteq Repos
ASSUME PageAssumption == PageSize \in Nat \ {0}
ASSUME ChangesAssumption == MaxChanges \in Nat

VARIABLES
    fleet,        \* the forge: its repositories in listing order
    walk,         \* "off", "page" while pages are requested, "listed" after
    page, seen,   \* the next page and the repositories of the pages so far
    live,         \* the result of list_repos
    steady,       \* history: the repositories on the forge since the walk began
    disturbed,    \* history: one was deleted meanwhile
    lied,         \* history: an answer showed less than there was
    changes       \* bound

forgeVars == <<fleet, changes>>
walkVars == <<fleet, walk, page, seen, live, steady, disturbed, lied, changes>>

Fleets == UNION {{s \in [1..n -> Repos] : IsInjective(s)} : n \in 0..Cardinality(Repos)}

WalkTypeOK ==
    /\ fleet \in Seq(Repos)
    /\ walk \in {"off", "page", "listed"}
    /\ page \in Nat \ {0}
    /\ seen \subseteq Repos /\ live \subseteq Repos /\ steady \subseteq Repos
    /\ disturbed \in BOOLEAN /\ lied \in BOOLEAN
    /\ changes \in 0..MaxChanges

WalkInit ==
    /\ fleet \in Fleets
    /\ walk = "off" /\ page = 1
    /\ seen = {} /\ live = {} /\ steady = {}
    /\ disturbed = FALSE /\ lied = FALSE
    /\ changes = 0

-----------------------------------------------------------------------------
(* The forge.  A rename is a deletion and a creation.                        *)

Created(r, i) ==
    /\ changes < MaxChanges
    /\ r \notin ToSet(fleet)
    /\ fleet' = InsertAt(fleet, i, r)
    /\ changes' = changes + 1
    /\ UNCHANGED <<walk, page, seen, live, steady, disturbed, lied>>

Deleted(i) ==
    /\ changes < MaxChanges
    /\ fleet' = RemoveAt(fleet, i)
    /\ changes' = changes + 1
    /\ disturbed' = (disturbed \/ walk = "page")
    /\ steady' = steady \ {fleet[i]}
    /\ UNCHANGED <<walk, page, seen, live, lied>>

-----------------------------------------------------------------------------
(* The walk.                                                                 *)

BeginWalk ==
    /\ walk = "off"
    /\ walk' = "page" /\ page' = 1
    /\ seen' = {} /\ live' = {}
    /\ steady' = ToSet(fleet) /\ disturbed' = FALSE /\ lied' = FALSE
    /\ UNCHANGED forgeVars

Batch ==
    LET first == (page - 1) * PageSize
        last == IF first + PageSize <= Len(fleet) THEN first + PageSize ELSE Len(fleet)
    IN  SubSeq(fleet, first + 1, last)

(* EndsFiltered: a mutant, the filters applied before a page is judged.      *)
ShownOnly(s) == SelectSeq(s, LAMBDA r : r \notin Hidden)
EndsFiltered(batch) == Len(ShownOnly(batch)) < PageSize
Ends(batch) == Len(batch) < PageSize

Fresh(batch) == ToSet(batch) \cap seen = {}

FullPage ==
    /\ walk = "page"
    /\ Fresh(Batch) /\ ~Ends(Batch)
    /\ seen' = seen \cup ToSet(Batch)
    /\ page' = page + 1
    /\ UNCHANGED <<walk, live, steady, disturbed, lied, forgeVars>>

(* The filters apply to the completed listing only.                          *)
LastPage ==
    /\ walk = "page"
    /\ Fresh(Batch) /\ Ends(Batch)
    /\ walk' = "listed"
    /\ live' = (seen \cup ToSet(Batch)) \ Hidden
    /\ UNCHANGED <<page, seen, steady, disturbed, lied, forgeVars>>

(* A valid answer that shows less of the page than there is, nothing at all  *)
(* for another owner or a changed API: a short page ends the walk, and what  *)
(* it has is the listing.                                                    *)
ListingFault ==
    /\ walk = "page"
    /\ \E k \in 0..(Len(Batch) - 1) :
           LET shown == SubSeq(Batch, 1, k) IN
           /\ Fresh(shown)
           /\ live' = (seen \cup ToSet(shown)) \ Hidden
    /\ walk' = "listed" /\ lied' = TRUE
    /\ UNCHANGED <<page, seen, steady, disturbed, forgeVars>>

(* The walk is over or given up: a request that failed for good, a page that *)
(* does not validate or that repeats a name, the end of the cycle, a crash.  *)
WalkOver ==
    /\ walk' = "off" /\ page' = 1
    /\ seen' = {} /\ live' = {} /\ steady' = {}
    /\ disturbed' = FALSE /\ lied' = FALSE
    /\ UNCHANGED forgeVars

ForgeChanges ==
    \/ \E r \in Repos, i \in 1..(Len(fleet) + 1) : Created(r, i)
    \/ \E i \in 1..Len(fleet) : Deleted(i)

WalkNext ==
    \/ ForgeChanges
    \/ BeginWalk \/ FullPage \/ LastPage \/ ListingFault \/ WalkOver

-----------------------------------------------------------------------------
(* A repository that is there from the first request to the last is listed,  *)
(* wherever the pages are cut and however many are created meanwhile, unless *)
(* one is deleted or an answer shows less than there is.  The prune deletes  *)
(* the mirror of all that is not listed.                                     *)
Complete ==
    walk = "listed" /\ ~disturbed /\ ~lied => steady \ Hidden \subseteq live
=============================================================================
