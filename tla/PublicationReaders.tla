------------------------- MODULE PublicationReaders -------------------------
(***************************************************************************)
(* A consumer of the bucket beside the publisher of module Publication.     *)
(* Each of its reads is a request of its own, so the publisher may mirror,  *)
(* commit, roll back, prune or crash between any two of them.               *)
(*                                                                         *)
(* On every attempt the consumer follows one of the two documented read     *)
(* paths, in the form tests/test_publish.py gives them:                     *)
(*   - "pointer": resolve current.json, then fetch every object it names;   *)
(*   - "legacy": fetch the fixed keys, and accept them only if they match   *)
(*     the pointer's meta.json and objects and the pointer is still there.  *)
(***************************************************************************)
EXTENDS Publication

VARIABLES
    step,    \* what the consumer does next
    path,    \* the read path of this attempt
    seen,    \* the cycle its pointer names
    got,     \* the payloads it has fetched
    left,    \* the names it has still to fetch or to compare
    agree,   \* every comparison of this attempt succeeded
    (* history *)
    intact,  \* the cycle it resolved was complete when it did
    behind,  \* commits since it resolved the pointer
    since,   \* cycles under way when it did, or begun since
    begun    \* IDs that have been minted or were found

reader == <<step, path, seen, got, left, agree>>
history == <<intact, behind, since, begun>>
readerVars == <<vars, reader, history>>

ReaderTypeOK ==
    /\ step \in {"away", "fetch", "compare", "recheck", "accepted", "rejected"}
    /\ path \in {"pointer", "legacy"}
    /\ seen \in CycleIds \cup {None}
    /\ got \in Datasets
    /\ left \in SUBSET Names
    /\ agree \in BOOLEAN
    /\ intact \in BOOLEAN
    /\ behind \in 0 .. MaxRuns
    /\ since \in SUBSET CycleIds
    /\ begun \in SUBSET CycleIds

ReaderInit ==
    /\ Init
    /\ step = "away" /\ path = "pointer" /\ seen = None /\ got = Nothing
    /\ left = {} /\ agree = TRUE
    /\ intact = FALSE /\ behind = 0 /\ since = {}
    /\ begun = {c \in CycleIds : HasObjects(c) \/ pointer = c}

-----------------------------------------------------------------------------
(* new_cycle_id: the clock gives an ID its rank, which may be any when the   *)
(* clock steps back; the random digits behind the stamp tell it from all     *)
(* that were minted before.                                                  *)
Minting == run' # run
NewId == Minting => cur' \notin begun

(* The publisher takes a step of its own. *)
Publisher ==
    /\ Next /\ NewId
    /\ behind' = IF pointer' # pointer /\ seen # None THEN behind + 1 ELSE behind
    /\ since' = IF Minting /\ seen # None THEN since \cup {cur'} ELSE since
    /\ begun' = IF Minting THEN begun \cup {cur'} ELSE begun
    /\ UNCHANGED <<reader, intact>>

(* The cycle that is being published, unless the pointer names it already.   *)
UnderWay == IF pc = "idle" THEN {} ELSE {cur} \ {None, pointer}

(* Mutant: whatever is there is taken for a pointer. *)
AnyDocument == pointer # None

(* validate_pointer_document accepts current.json. *)
Readable == pointer \in CycleIds

ResolvePointer(how) ==
    /\ step = "away"
    /\ Readable
    /\ step' = "fetch" /\ path' = how
    /\ seen' = pointer /\ got' = Nothing /\ left' = Names /\ agree' = TRUE
    /\ intact' = PointerUsable /\ behind' = 0 /\ since' = UnderWay
    /\ UNCHANGED <<vars, begun>>

(* Mutant: the pointer's objects are the mutable keys. *)
AtFixedKey(n) == fixed[n]

(* pointer_bytes names each object by its key below the cycle's own prefix. *)
AtNamedKey(n) == staged[seen][n]

(* The keys of one path, one GET each. *)
Fetch(n) ==
    /\ step = "fetch" /\ n \in left
    /\ got' = [got EXCEPT ![n] = IF path = "pointer" THEN AtNamedKey(n) ELSE fixed[n]]
    /\ left' = left \ {n}
    /\ UNCHANGED <<vars, step, path, seen, agree, history>>

(* Every key is fetched: a missing object or a meta.json of another cycle   *)
(* ends the attempt.  On the pointer path that is output-schema.md's rule   *)
(* for a pointer that passes the validation of its envelope and is unusable *)
(* all the same ("Output schema-version compatibility").                    *)
Complete == (\A n \in Names : got[n] # None) /\ got[Meta].id = seen

Fetched ==
    /\ step = "fetch" /\ left = {}
    /\ step' = CASE ~ Complete -> "rejected"
                 [] Complete /\ path = "pointer" -> "accepted"
                 [] Complete /\ path = "legacy" -> "compare"
    /\ left' = IF step' = "compare" THEN Names ELSE {}
    /\ UNCHANGED <<vars, path, seen, got, agree, history>>

(* Mutant: the cycle ID of meta.json is all the legacy reader compares. *)
MarkerMatches(n) == n = Meta => got[n] = staged[seen][n]

Matches(n) == got[n] = staged[seen][n]

(* The legacy reader holds each fixed key against the immutable object. *)
Compare(n) ==
    /\ step = "compare" /\ n \in left
    /\ agree' = (agree /\ Matches(n))
    /\ left' = left \ {n}
    /\ step' = IF left' = {} THEN "recheck" ELSE step
    /\ UNCHANGED <<vars, path, seen, got, history>>

(* It reads current.json again, for the pointer may have moved meanwhile. *)
Recheck ==
    /\ step = "recheck"
    /\ step' = IF agree /\ pointer = seen THEN "accepted" ELSE "rejected"
    /\ UNCHANGED <<vars, path, seen, got, left, agree, history>>

(* What was read is used or dropped; another attempt starts afresh. *)
Leave ==
    /\ step \in {"accepted", "rejected"}
    /\ step' = "away" /\ seen' = None /\ got' = Nothing
    /\ intact' = FALSE /\ behind' = 0 /\ since' = {}
    /\ UNCHANGED <<vars, path, left, agree, begun>>

Reader ==
    \/ \E how \in {"pointer", "legacy"} : ResolvePointer(how)
    \/ \E n \in Names : Fetch(n) \/ Compare(n)
    \/ Fetched \/ Recheck \/ Leave

ReaderNext == Publisher \/ Reader

ReaderSpec == ReaderInit /\ [][ReaderNext]_readerVars

-----------------------------------------------------------------------------
(* What a consumer accepts is one dataset: every payload carries the        *)
(* resolved ID and comes from the same run, whatever the publisher did      *)
(* while it was read.                                                       *)
AcceptedIsWhole ==
    step = "accepted" =>
        \E b \in Bodies : b.id = seen /\ \A n \in Names : got[n] = b

(* The cycles that may take a place before c in the ranking of a prune that  *)
(* comes after the consumer has resolved c.                                  *)
Rivals(c) == {d \in begun : d > c} \cup since

(* A consumer that resolved a complete cycle and is still reading it finds   *)
(* all of it while fewer than Retention others can be ranked before it: the  *)
(* committed ones, and the attempts that left a prefix, under newer IDs, and *)
(* every cycle begun since, also under an older ID of a clock that has       *)
(* stepped back.                                                             *)
GraceInAttempts ==
    seen # None /\ intact /\ Cardinality(Rivals(seen)) < Retention => Whole(seen)

(* publish.py and data-sources.md: RETAINED_CYCLES committed prefixes are   *)
(* kept, so that a consumer that resolved the previous pointer still finds  *)
(* its objects after the next commit.                                       *)
GraceInCommits ==
    (seen # None /\ intact /\ Retention > 1 /\ behind = 1) => Whole(seen)
=============================================================================
