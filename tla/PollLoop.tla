------------------------------ MODULE PollLoop ------------------------------
(* The poll loop (main.main) with the state it keeps for the operator, the   *)
(* threads of the health server that read this state while the loop changes  *)
(* it, the permission preflight, signals and restarts.  A cycle is here no   *)
(* more than the ways in which it ends.                                      *)
EXTENDS Naturals

CONSTANTS
    MaxCycles,    \* bound: attempts of all processes
    MaxFaults,    \* bound: failures and crashes
    MaxSignals,   \* bound: SIGTERM, SIGINT
    Never         \* Python's None, of a time or an outcome

ASSUME LoopAssumption ==
    /\ MaxCycles \in Nat /\ MaxFaults \in Nat /\ MaxSignals \in Nat
    /\ Never \notin Nat \cup {"published", "withheld", "failed", "succeeded"}

VARIABLES
    committed,    \* the bucket: the cycle current.json names, 0 before any
    litter,       \* the bucket: probe objects
    pc,
    checked,      \* s3_permissions_checked
    here, broken, \* preflight: its probe is in the bucket; a request failed
    stop,         \* the event the signals set
    stamp,        \* generated_at of the attempt, its number
    attempts, outcome, freshAt, failures, consecutive,   \* _cycle_state_lock
    prune,        \* _prune_state_lock
    ready,        \* _published
    reader,                   \* a health thread: its place
    sawReady, seen, sawPrune, \* ... and what it has read
    excused,      \* history: preflights whose probe may be left
    faults, signals           \* bounds

bucketVars == <<committed, litter>>
probeVars == <<checked, here, broken>>
cycleState == <<attempts, outcome, freshAt, failures, consecutive>>
readerVars == <<reader, sawReady, seen, sawPrune>>
boundVars == <<stamp, excused, faults, signals>>
vars == <<bucketVars, pc, probeVars, stop, cycleState, prune, ready, readerVars, boundVars>>

Outcomes == {"published", "withheld", "failed"}
Preflight == {"list", "put", "verify", "cleanup"}
Reporting == {"prune", "record", "latch", "fail", "withhold", "reject", "count"}

CycleState == [attempts : [Outcomes -> Nat], outcome : Outcomes \cup {Never},
               freshAt : Nat \cup {Never}, failures : Nat, consecutive : Nat]
PruneState == [outcome : {"succeeded", "failed", Never}, failures : Nat, consecutive : Nat]

TypeOK ==
    /\ committed \in 0..stamp /\ litter \in Nat
    /\ pc \in {"head", "cycle", "wait", "exited"} \cup Preflight \cup Reporting
    /\ checked \in BOOLEAN /\ here \in BOOLEAN /\ broken \in BOOLEAN
    /\ stop \in BOOLEAN
    /\ attempts \in [Outcomes -> Nat] /\ outcome \in Outcomes \cup {Never}
    /\ freshAt \in Nat \cup {Never} /\ failures \in Nat /\ consecutive \in Nat
    /\ prune \in PruneState
    /\ ready \in BOOLEAN
    /\ reader \in {"quiet", "asked", "told", "read"} /\ sawReady \in BOOLEAN
    /\ seen \in CycleState /\ sawPrune \in PruneState
    /\ stamp \in 0..MaxCycles /\ excused \in 0..MaxFaults
    /\ faults \in 0..MaxFaults /\ signals \in 0..MaxSignals

Fresh == [attempts |-> [o \in Outcomes |-> 0], outcome |-> Never, freshAt |-> Never,
          failures |-> 0, consecutive |-> 0]
FreshPrune == [outcome |-> Never, failures |-> 0, consecutive |-> 0]

(* ReadyFromBucket: a mutant, readiness restored from remote state.          *)
ReadyFromBucket == committed # 0
ReadyAtStart == FALSE

Init ==
    /\ committed = 0 /\ litter = 0 /\ stamp = 0
    /\ pc = "head" /\ checked = FALSE /\ here = FALSE /\ broken = FALSE
    /\ stop = FALSE
    /\ attempts = Fresh.attempts /\ outcome = Never /\ freshAt = Never
    /\ failures = 0 /\ consecutive = 0 /\ prune = FreshPrune
    /\ ready = ReadyAtStart
    /\ reader = "quiet" /\ sawReady = FALSE /\ seen = Fresh /\ sawPrune = FreshPrune
    /\ excused = 0 /\ faults = 0 /\ signals = 0

Fault == faults < MaxFaults /\ faults' = faults + 1

-----------------------------------------------------------------------------
(* The head of the loop.                                                     *)

(* NoStop: a mutant, the loop condition dropped.                             *)
NoStop == FALSE
Stopping == stop

Exit ==
    /\ pc = "head" /\ Stopping
    /\ pc' = "exited"
    /\ UNCHANGED <<bucketVars, probeVars, stop, cycleState, prune, ready, readerVars, boundVars>>

BeginAttempt ==
    /\ pc = "head" /\ ~Stopping /\ stamp < MaxCycles
    /\ stamp' = stamp + 1
    /\ pc' = IF checked THEN "cycle" ELSE "list"
    /\ broken' = FALSE
    /\ UNCHANGED <<bucketVars, checked, here, stop, cycleState, prune, ready, readerVars,
                   excused, faults, signals>>

-----------------------------------------------------------------------------
(* s3io.check_permissions.  It makes its requests without retries.           *)

InPreflight == UNCHANGED <<committed, stop, cycleState, prune, ready, readerVars, stamp, signals>>

ListAnswered ==
    /\ pc = "list"
    /\ pc' = "put"
    /\ InPreflight /\ UNCHANGED <<litter, probeVars, excused, faults>>

ListDenied ==
    /\ pc = "list" /\ Fault
    /\ pc' = "reject"
    /\ InPreflight /\ UNCHANGED <<litter, probeVars, excused>>

ProbePut ==
    /\ pc = "put"
    /\ litter' = litter + 1 /\ here' = TRUE
    /\ pc' = "verify"
    /\ InPreflight /\ UNCHANGED <<checked, broken, excused, faults>>

(* A PUT that failed may have put.  (NoCleanup: a mutant, the probe is       *)
(* attempted only when the PUT has answered.)                                *)
NoCleanup == "reject"
AfterFailedPut == "cleanup"

ProbePutFails ==
    /\ pc = "put" /\ Fault
    /\ \/ litter' = litter + 1 /\ here' = TRUE
       \/ UNCHANGED <<litter, here>>
    /\ broken' = TRUE
    /\ pc' = AfterFailedPut
    /\ InPreflight /\ UNCHANGED <<checked, excused>>

(* HEAD, GET and the comparison of what they return.                         *)
Verified ==
    /\ pc = "verify"
    /\ pc' = "cleanup"
    /\ InPreflight /\ UNCHANGED <<litter, probeVars, excused, faults>>

VerifyFails ==
    /\ pc = "verify" /\ Fault
    /\ broken' = TRUE
    /\ pc' = "cleanup"
    /\ InPreflight /\ UNCHANGED <<litter, checked, here, excused>>

(* ProbeGoneAnyway: a mutant that takes the probe for put.                   *)
ProbeGoneAnyway == litter' = litter - 1 /\ here' = FALSE
ProbeGone == litter' = (IF here THEN litter - 1 ELSE litter) /\ here' = FALSE

ProbeDeleted ==
    /\ pc = "cleanup"
    /\ ProbeGone
    /\ pc' = IF broken THEN "reject" ELSE "cycle"
    /\ checked' = ~broken
    /\ InPreflight /\ UNCHANGED <<broken, excused, faults>>

ProbeDeleteFails ==
    /\ pc = "cleanup" /\ Fault
    /\ \/ ProbeGone /\ UNCHANGED excused
       \/ here' = FALSE /\ excused' = excused + 1 /\ UNCHANGED litter
    /\ pc' = "reject"
    /\ InPreflight /\ UNCHANGED <<checked, broken>>

-----------------------------------------------------------------------------
(* How _run_cycle ends.                                                      *)

InCycle == UNCHANGED <<litter, probeVars, stop, cycleState, ready, readerVars, stamp, excused, signals>>

(* The prune follows only a commit over a trusted pointer.                   *)
Commits ==
    /\ pc = "cycle"
    /\ committed' = stamp
    /\ pc' \in {"prune", "record"}
    /\ InCycle /\ UNCHANGED <<prune, faults>>

RecordPruneHealth ==
    /\ pc = "prune"
    /\ \/ prune' = [prune EXCEPT !.outcome = "succeeded", !.consecutive = 0]
          /\ UNCHANGED faults
       \/ Fault /\ prune' = [outcome |-> "failed", failures |-> prune.failures + 1,
                             consecutive |-> prune.consecutive + 1]
    /\ pc' = "record"
    /\ InCycle /\ UNCHANGED committed

(* PublicationError: in the recovery or the publication, and a commit whose  *)
(* outcome could not be resolved may have taken place.                       *)
PublicationFails ==
    /\ pc = "cycle" /\ Fault
    /\ committed' \in {committed, stamp}
    /\ pc' = "fail"
    /\ InCycle /\ UNCHANGED prune

(* CycleWithheld; StorageExhausted or any other exception.                   *)
CycleFails ==
    /\ pc = "cycle" /\ Fault
    /\ pc' \in {"withhold", "reject"}
    /\ InCycle /\ UNCHANGED <<committed, prune>>

-----------------------------------------------------------------------------
(* _record_cycle_outcome, one step under its lock, and what main does after. *)

InReport == UNCHANGED <<bucketVars, probeVars, stop, prune, readerVars, boundVars>>

(* StampOf and KeepConsecutive: mutants, a withheld or failed cycle moves    *)
(* the freshness; a publication does not end a run of failures.              *)
StampOf(result) == stamp
FreshAfter(result) == IF result = "published" THEN stamp ELSE freshAt
KeepConsecutive(result) == consecutive
ConsecutiveAfter(result) == IF result = "published" THEN 0 ELSE consecutive

Record(result) ==
    /\ outcome' = result
    /\ attempts' = [attempts EXCEPT ![result] = @ + 1]
    /\ freshAt' = FreshAfter(result)
    /\ consecutive' = ConsecutiveAfter(result)
    /\ UNCHANGED <<failures, ready>>
    /\ InReport

RecordPublished == pc = "record" /\ pc' = "latch" /\ Record("published")
RecordWithheld == pc = "withhold" /\ pc' = "wait" /\ Record("withheld")
RecordRejected == pc = "reject" /\ pc' = "wait" /\ Record("failed")
RecordFailed == pc = "fail" /\ pc' = "count" /\ Record("failed")

SetPublished ==
    /\ pc = "latch"
    /\ ready' = TRUE /\ pc' = "wait"
    /\ UNCHANGED cycleState /\ InReport

(* A second step under the lock.                                             *)
RecordPublicationFailure ==
    /\ pc = "count"
    /\ failures' = failures + 1 /\ consecutive' = consecutive + 1
    /\ pc' = "wait"
    /\ UNCHANGED <<attempts, outcome, freshAt, ready>> /\ InReport

(* stop.wait: the interval is over, or the event is set.                     *)
WaitOver ==
    /\ pc = "wait"
    /\ pc' = "head"
    /\ UNCHANGED <<cycleState, ready>> /\ InReport

-----------------------------------------------------------------------------
(* Signals, restarts, and the health threads.                                *)

Signal ==
    /\ pc # "exited" /\ signals < MaxSignals
    /\ stop' = TRUE /\ signals' = signals + 1
    /\ UNCHANGED <<bucketVars, pc, probeVars, cycleState, prune, ready, readerVars,
                   stamp, excused, faults>>

(* A new process, after a crash or after an exit.                            *)
Restart ==
    /\ \/ pc = "exited" /\ UNCHANGED <<faults, excused>>
       \/ /\ pc # "exited" /\ Fault
          /\ excused' = IF here THEN excused + 1 ELSE excused
    /\ pc' = "head" /\ stop' = FALSE
    /\ checked' = FALSE /\ here' = FALSE /\ broken' = FALSE
    /\ attempts' = Fresh.attempts /\ outcome' = Never /\ freshAt' = Never
    /\ failures' = 0 /\ consecutive' = 0 /\ prune' = FreshPrune
    /\ ready' = ReadyAtStart
    /\ reader' = "quiet" /\ sawReady' = FALSE
    /\ seen' = Fresh /\ sawPrune' = FreshPrune
    /\ UNCHANGED <<bucketVars, stamp, signals>>

InServer == UNCHANGED <<bucketVars, pc, probeVars, stop, cycleState, prune, ready, boundVars>>

(* GET /ready, then GET /health or /metrics on another thread, which reads   *)
(* the health of the prune after the rest, under its own lock.               *)
GetReady ==
    /\ pc # "exited" /\ reader \in {"quiet", "read"}
    /\ sawReady' = ready /\ reader' = "asked"
    /\ seen' = Fresh /\ sawPrune' = FreshPrune
    /\ InServer

GetState ==
    /\ pc # "exited" /\ reader = "asked"
    /\ seen' = [attempts |-> attempts, outcome |-> outcome, freshAt |-> freshAt,
                failures |-> failures, consecutive |-> consecutive]
    /\ reader' = "told"
    /\ UNCHANGED <<sawReady, sawPrune>> /\ InServer

GetPrune ==
    /\ pc # "exited" /\ reader = "told"
    /\ sawPrune' = prune /\ reader' = "read"
    /\ UNCHANGED <<sawReady, seen>> /\ InServer

-----------------------------------------------------------------------------

Head == Exit \/ BeginAttempt \/ WaitOver
CheckPermissions ==
    \/ ListAnswered \/ ListDenied \/ ProbePut \/ ProbePutFails
    \/ Verified \/ VerifyFails \/ ProbeDeleted \/ ProbeDeleteFails
RunCycle == Commits \/ RecordPruneHealth \/ PublicationFails \/ CycleFails
Report ==
    \/ RecordPublished \/ RecordWithheld \/ RecordRejected \/ RecordFailed
    \/ SetPublished \/ RecordPublicationFailure
Loop == Head \/ CheckPermissions \/ RunCycle \/ Report
Serve == GetReady \/ GetState \/ GetPrune

Next == Loop \/ Signal \/ Restart \/ Serve

Spec == Init /\ [][Next]_vars

(* The loop's thread is scheduled, its calls return, its waits are timed;    *)
(* nothing is assumed of requests, signals or restarts.                      *)
FairSpec == Spec /\ WF_vars(Loop)

-----------------------------------------------------------------------------
(* Properties.                                                               *)

Agree(s) ==
    /\ s.consecutive <= s.failures /\ s.failures <= s.attempts["failed"]
    /\ s.outcome = "published" => s.consecutive = 0
    /\ (s.outcome = Never) <=> (\A o \in Outcomes : s.attempts[o] = 0)
    /\ (s.freshAt = Never) <=> (s.attempts["published"] = 0)

Now == [attempts |-> attempts, outcome |-> outcome, freshAt |-> freshAt,
        failures |-> failures, consecutive |-> consecutive]

(* The counters, the outcome and the freshness agree with one another at any *)
(* moment and in any answer, also between the two steps that record a failed *)
(* publication and over any sequence of attempts; every prune that failed    *)
(* belongs to an attempt that published.  The prunes of an answer are read   *)
(* later than its attempts: they may count more than those, but never more   *)
(* than there are (configuration.md, "Prometheus metrics").                  *)
CountsAgree ==
    /\ Agree(Now) /\ Agree(seen)
    /\ prune.consecutive <= prune.failures
    /\ sawPrune.consecutive <= sawPrune.failures /\ sawPrune.failures <= prune.failures
    /\ prune.failures <= attempts["published"] + (IF pc = "record" THEN 1 ELSE 0)

(* The freshness names a cycle that was committed, by this process, and once *)
(* a published outcome is recorded it is the newest there is.                *)
FreshIsCommitted ==
    /\ freshAt # Never => freshAt \in 1..committed
    /\ pc \in {"latch", "wait", "head"} /\ outcome = "published" => freshAt = committed

(* Whoever was told that the process is ready finds a publication of this    *)
(* process in its state when it asks next (configuration.md, "Readiness      *)
(* transitions").                                                            *)
ReadyIsEarned ==
    /\ ready => freshAt # Never /\ committed # 0
    /\ reader \in {"told", "read"} /\ sawReady => seen.freshAt # Never

(* A probe stays in the bucket only if its deletion failed or the process    *)
(* died (s3io.check_permissions: "It always attempts to delete a probe").    *)
ProbesAccounted ==
    /\ litter <= excused + (IF here THEN 1 ELSE 0)
    /\ here => pc \in {"verify", "cleanup"}

(* A process that is told to stop exits, whatever it is doing.               *)
StopEnds == stop ~> (pc = "exited" \/ ~stop)
=============================================================================
