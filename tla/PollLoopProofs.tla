--------------------------- MODULE PollLoopProofs ---------------------------
(* Theorems about the poll loop and its health threads for any number of     *)
(* attempts, failures, restarts and signals.                                 *)
EXTENDS PollLoop, TLAPS

(* The probe of a running preflight is in the bucket only while it has to be *)
(* deleted, and every probe left behind is excused by a fault.               *)
ProbeInv ==
    /\ ProbesAccounted
    /\ here => litter >= 1
    /\ excused <= faults

(* While a failed publication is counted, its outcome is already recorded.   *)
CountInv ==
    /\ CountsAgree
    /\ pc = "count" => failures + 1 <= attempts["failed"] /\ outcome = "failed"

(* An attempt has a stamp; one that is about to be reported as published is  *)
(* the newest commit.                                                        *)
FreshInv ==
    /\ FreshIsCommitted
    /\ pc \in {"cycle"} \cup Preflight => stamp >= 1
    /\ pc \in {"prune", "record"} => stamp >= 1 /\ committed = stamp

(* Readiness is set after the outcome is recorded, and an answer about it is *)
(* not older than the state that is read after it.                           *)
ReadyInv ==
    /\ ReadyIsEarned
    /\ pc = "latch" => freshAt # Never
    /\ reader = "asked" /\ sawReady => freshAt # Never

LoopInv == TypeOK /\ ProbeInv /\ CountInv /\ FreshInv /\ ReadyInv

(* Recording a prune leaves a well-typed record of prunes.                   *)
LEMMA PruneTyped ==
    ASSUME NEW p \in PruneState
    PROVE  /\ p.failures \in Nat /\ p.consecutive \in Nat
           /\ [p EXCEPT !.outcome = "succeeded", !.consecutive = 0] \in PruneState
           /\ [outcome |-> "failed", failures |-> p.failures + 1,
               consecutive |-> p.consecutive + 1] \in PruneState
<1>1. p.failures \in Nat /\ p.consecutive \in Nat
  BY DEF PruneState
<1>2. [p EXCEPT !.outcome = "succeeded", !.consecutive = 0] \in PruneState
  BY DEF PruneState
<1>3. [outcome |-> "failed", failures |-> p.failures + 1,
       consecutive |-> p.consecutive + 1] \in PruneState
  <2> DEFINE f == p.failures + 1
             c == p.consecutive + 1
  <2>1. f \in Nat /\ c \in Nat
    BY <1>1
  <2> HIDE DEF f, c
  <2>2. [outcome |-> "failed", failures |-> f, consecutive |-> c] \in PruneState
    BY <2>1 DEF PruneState
  <2> QED
    BY <2>2 DEF f, c
<1> QED
  BY <1>1, <1>2, <1>3

(* A recorded prune counts at most one failure, and no more in a row than    *)
(* ever.                                                                     *)
LEMMA PruneRecorded ==
    ASSUME NEW p \in PruneState, NEW q, p.consecutive <= p.failures,
           \/ q = [p EXCEPT !.outcome = "succeeded", !.consecutive = 0]
           \/ q = [outcome |-> "failed", failures |-> p.failures + 1,
                   consecutive |-> p.consecutive + 1]
    PROVE  /\ p.failures <= q.failures /\ q.failures <= p.failures + 1
           /\ q.consecutive <= q.failures
<1>1. p.failures \in Nat /\ p.consecutive \in Nat
  BY PruneTyped
<1>2. CASE q = [p EXCEPT !.outcome = "succeeded", !.consecutive = 0]
  <2>1. q.failures = p.failures /\ q.consecutive = 0
    BY <1>2 DEF PruneState
  <2> QED
    BY <1>1, <2>1
<1>3. CASE q = [outcome |-> "failed", failures |-> p.failures + 1,
                consecutive |-> p.consecutive + 1]
  <2>1. q.failures = p.failures + 1 /\ q.consecutive = p.consecutive + 1
    BY <1>3
  <2> QED
    BY <1>1, <2>1
<1> QED
  BY <1>2, <1>3

(* Recording an attempt adds one to one counter.                             *)
LEMMA AttemptsTyped ==
    ASSUME NEW a \in [Outcomes -> Nat], NEW r \in Outcomes
    PROVE  /\ [a EXCEPT ![r] = @ + 1] \in [Outcomes -> Nat]
           /\ \A o \in Outcomes : [a EXCEPT ![r] = @ + 1][o] = IF o = r THEN a[o] + 1 ELSE a[o]
BY DEF Outcomes

(* A new process has well-typed state that agrees.                           *)
LEMMA FreshTyped ==
    /\ Fresh \in CycleState /\ FreshPrune \in PruneState
    /\ Fresh.attempts \in [Outcomes -> Nat]
    /\ Fresh.attempts["published"] = 0
    /\ Fresh.freshAt = Never
    /\ Agree(Fresh)
    /\ FreshPrune.failures = 0 /\ FreshPrune.consecutive = 0
<1>1. Fresh.attempts \in [Outcomes -> Nat] /\ \A o \in Outcomes : Fresh.attempts[o] = 0
  BY DEF Fresh
<1>2. Fresh \in CycleState
  BY <1>1 DEF Fresh, CycleState
<1>3. FreshPrune \in PruneState
  BY DEF FreshPrune, PruneState
<1>4. Fresh.outcome = Never /\ Fresh.freshAt = Never /\ Fresh.failures = 0 /\ Fresh.consecutive = 0
  BY DEF Fresh
<1>5. "published" \in Outcomes /\ "failed" \in Outcomes
  BY DEF Outcomes
<1>6. Never # "published"
  BY LoopAssumption
<1>7. Agree(Fresh)
  BY <1>1, <1>4, <1>5, <1>6 DEF Agree
<1>8. FreshPrune.failures = 0 /\ FreshPrune.consecutive = 0
  BY DEF FreshPrune
<1>9. Fresh.attempts["published"] = 0
  BY <1>1, <1>5
<1> QED
  BY <1>1, <1>2, <1>3, <1>4, <1>7, <1>8, <1>9

(* What _record_cycle_outcome leaves agrees, whatever the outcome.           *)
LEMMA RecordAgrees ==
    ASSUME LoopInv, NEW r \in Outcomes, Record(r),
           pc = "record" => r = "published",
           pc' # "record", pc' = "count" => r = "failed"
    PROVE  CountInv'
<1> USE DEF LoopInv, TypeOK, Record, InReport, readerVars, Outcomes
<1>1. \A o \in Outcomes : attempts'[o] = attempts[o] + (IF o = r THEN 1 ELSE 0)
  BY AttemptsTyped
<1>2. attempts["published"] \in Nat /\ attempts["failed"] \in Nat
  OBVIOUS
<1>3. ~ \A o \in Outcomes : attempts'[o] = 0
  BY <1>1
<1>4. r # Never /\ stamp # Never
  BY LoopAssumption
<1>5. (freshAt' = Never) <=> (attempts'["published"] = 0)
  BY <1>1, <1>4 DEF CountInv, CountsAgree, Agree, Now, FreshAfter
<1>6. consecutive' <= failures' /\ failures' <= attempts'["failed"]
  BY <1>1 DEF CountInv, CountsAgree, Agree, Now, ConsecutiveAfter
<1>7. outcome' = "published" => consecutive' = 0
  BY DEF ConsecutiveAfter
<1>8. Agree(Now)'
  BY <1>3, <1>4, <1>5, <1>6, <1>7 DEF Agree, Now
<1>9. Agree(seen)'
  BY DEF CountInv, CountsAgree, Agree
<1>10. pc' = "count" => failures' + 1 <= attempts'["failed"] /\ outcome' = "failed"
  BY <1>1, <1>2 DEF CountInv, CountsAgree, Agree, Now
<1>11. prune' = prune /\ prune.failures \in Nat /\ prune.consecutive <= prune.failures
  BY PruneTyped DEF CountInv, CountsAgree
<1>12. prune.failures <= attempts["published"] + (IF pc = "record" THEN 1 ELSE 0)
  BY DEF CountInv, CountsAgree
<1>13. prune'.failures <= attempts'["published"]
  BY <1>1, <1>2, <1>11, <1>12
<1>14. /\ sawPrune'.consecutive <= sawPrune'.failures
       /\ sawPrune'.failures <= prune'.failures
  BY DEF CountInv, CountsAgree
<1> QED
  BY <1>2, <1>8, <1>9, <1>10, <1>11, <1>13, <1>14, AttemptsTyped DEF CountInv,
     CountsAgree

(* A new process starts from an invariant state.                             *)
LEMMA LoopInit == Init => LoopInv
<1> SUFFICES ASSUME Init PROVE LoopInv
  OBVIOUS
<1> USE FreshTyped DEF Init, ReadyAtStart
<1>1. TypeOK
  <2>1. checked \in BOOLEAN /\ here \in BOOLEAN /\ broken \in BOOLEAN
    OBVIOUS
  <2>2. stop \in BOOLEAN /\ ready \in BOOLEAN /\ sawReady \in BOOLEAN
    OBVIOUS
  <2>3. committed \in 0..stamp /\ litter \in Nat /\ stamp \in 0..MaxCycles
    BY LoopAssumption
  <2>4. excused \in 0..MaxFaults /\ faults \in 0..MaxFaults /\ signals \in 0..MaxSignals
    BY LoopAssumption
  <2> QED
    BY <2>1, <2>2, <2>3, <2>4 DEF TypeOK
<1>2. ProbeInv
  BY DEF ProbeInv, ProbesAccounted
<1>3. CountInv
  <2>1. Agree(Now)
    BY DEF Agree, Now, Fresh
  <2> QED
    BY <2>1 DEF CountInv, CountsAgree
<1>4. FreshInv
  BY LoopAssumption DEF FreshInv, FreshIsCommitted, Preflight
<1>5. ReadyInv
  BY DEF ReadyInv, ReadyIsEarned
<1> QED
  BY <1>1, <1>2, <1>3, <1>4, <1>5 DEF LoopInv

(* Every step keeps the types, the probe's count above zero included.        *)
LEMMA TypeStep ==
    ASSUME LoopInv, [Next]_vars
    PROVE  TypeOK'
<1> USE LoopAssumption DEF LoopInv, bucketVars, probeVars, cycleState,
        readerVars, boundVars, TypeOK, Preflight, Reporting, Outcomes,
        CycleState, PruneState, ProbeInv, ProbesAccounted
<1>1. CASE Exit
  BY <1>1 DEF Exit, Stopping
<1>2. CASE BeginAttempt
  <2>1. (pc \in {"head", "cycle", "wait", "exited"} \cup Preflight \cup Reporting)'
    BY <1>2 DEF BeginAttempt, Stopping
  <2>2. (checked \in BOOLEAN /\ here \in BOOLEAN /\ broken \in BOOLEAN)'
    BY <1>2 DEF BeginAttempt, Stopping
  <2>3. (committed \in 0..stamp /\ litter \in Nat /\ stamp \in 0..MaxCycles)'
    BY <1>2 DEF BeginAttempt, Stopping
  <2>4. (excused \in 0..MaxFaults /\ faults \in 0..MaxFaults)'
    BY <1>2 DEF BeginAttempt, Stopping
  <2> QED
    BY <1>2, <2>1, <2>2, <2>3, <2>4 DEF BeginAttempt, Stopping
<1>3. CASE WaitOver
  BY <1>3 DEF WaitOver, InReport
<1>4. CASE ListAnswered
  BY <1>4 DEF ListAnswered, InPreflight
<1>5. CASE ListDenied
  BY <1>5 DEF ListDenied, Fault, InPreflight
<1>6. CASE ProbePut
  BY <1>6 DEF ProbePut, InPreflight
<1>7. CASE ProbePutFails
  <2>1. (pc \in {"head", "cycle", "wait", "exited"} \cup Preflight \cup Reporting)'
    BY <1>7 DEF ProbePutFails, AfterFailedPut, Fault, InPreflight
  <2>2. (checked \in BOOLEAN /\ here \in BOOLEAN /\ broken \in BOOLEAN)'
    BY <1>7 DEF ProbePutFails, AfterFailedPut, Fault, InPreflight
  <2>3. (committed \in 0..stamp /\ litter \in Nat /\ stamp \in 0..MaxCycles)'
    BY <1>7 DEF ProbePutFails, AfterFailedPut, Fault, InPreflight
  <2>4. (excused \in 0..MaxFaults /\ faults \in 0..MaxFaults)'
    BY <1>7 DEF ProbePutFails, AfterFailedPut, Fault, InPreflight
  <2> QED
    BY <1>7, <2>1, <2>2, <2>3, <2>4 DEF ProbePutFails, AfterFailedPut, Fault,
       InPreflight
<1>8. CASE Verified
  BY <1>8 DEF Verified, InPreflight
<1>9. CASE VerifyFails
  BY <1>9 DEF VerifyFails, Fault, InPreflight
<1>10. CASE ProbeDeleted
  <2>1. (pc \in {"head", "cycle", "wait", "exited"} \cup Preflight \cup Reporting)'
    BY <1>10 DEF ProbeDeleted, ProbeGone, InPreflight
  <2>2. (checked \in BOOLEAN /\ here \in BOOLEAN /\ broken \in BOOLEAN)'
    BY <1>10 DEF ProbeDeleted, ProbeGone, InPreflight
  <2>3. (committed \in 0..stamp /\ litter \in Nat /\ stamp \in 0..MaxCycles)'
    BY <1>10 DEF ProbeDeleted, ProbeGone, InPreflight
  <2>4. (excused \in 0..MaxFaults /\ faults \in 0..MaxFaults)'
    BY <1>10 DEF ProbeDeleted, ProbeGone, InPreflight
  <2> QED
    BY <1>10, <2>1, <2>2, <2>3, <2>4 DEF ProbeDeleted, ProbeGone, InPreflight
<1>11. CASE ProbeDeleteFails
  <2>1. (pc \in {"head", "cycle", "wait", "exited"} \cup Preflight \cup Reporting)'
    BY <1>11 DEF ProbeDeleteFails, ProbeGone, Fault, InPreflight
  <2>2. (checked \in BOOLEAN /\ here \in BOOLEAN /\ broken \in BOOLEAN)'
    BY <1>11 DEF ProbeDeleteFails, ProbeGone, Fault, InPreflight
  <2>3. (committed \in 0..stamp /\ litter \in Nat /\ stamp \in 0..MaxCycles)'
    BY <1>11 DEF ProbeDeleteFails, ProbeGone, Fault, InPreflight
  <2>4. (excused \in 0..MaxFaults /\ faults \in 0..MaxFaults)'
    BY <1>11 DEF ProbeDeleteFails, ProbeGone, Fault, InPreflight
  <2> QED
    BY <1>11, <2>1, <2>2, <2>3, <2>4 DEF ProbeDeleteFails, ProbeGone, Fault,
       InPreflight
<1>12. CASE Commits
  BY <1>12 DEF Commits, InCycle
<1>13. CASE RecordPruneHealth
  <2>1. (pc \in {"head", "cycle", "wait", "exited"} \cup Preflight \cup Reporting)'
    BY <1>13 DEF RecordPruneHealth, Fault, InCycle
  <2>2. (checked \in BOOLEAN /\ here \in BOOLEAN /\ broken \in BOOLEAN)'
    BY <1>13 DEF RecordPruneHealth, Fault, InCycle
  <2>3. (committed \in 0..stamp /\ litter \in Nat /\ stamp \in 0..MaxCycles)'
    BY <1>13 DEF RecordPruneHealth, Fault, InCycle
  <2>4. (excused \in 0..MaxFaults /\ faults \in 0..MaxFaults)'
    BY <1>13 DEF RecordPruneHealth, Fault, InCycle
  <2>5. prune' \in PruneState
    BY <1>13, PruneTyped DEF RecordPruneHealth, Fault, InCycle
  <2> QED
    BY <1>13, <2>1, <2>2, <2>3, <2>4, <2>5 DEF RecordPruneHealth, Fault,
       InCycle
<1>14. CASE PublicationFails
  BY <1>14 DEF PublicationFails, Fault, InCycle
<1>15. CASE CycleFails
  BY <1>15 DEF CycleFails, Fault, InCycle
<1>16. CASE RecordPublished
  BY <1>16 DEF RecordPublished, Record, FreshAfter, ConsecutiveAfter, InReport
<1>17. CASE RecordWithheld
  BY <1>17 DEF RecordWithheld, Record, FreshAfter, ConsecutiveAfter, InReport
<1>18. CASE RecordRejected
  BY <1>18 DEF RecordRejected, Record, FreshAfter, ConsecutiveAfter, InReport
<1>19. CASE RecordFailed
  BY <1>19 DEF RecordFailed, Record, FreshAfter, ConsecutiveAfter, InReport
<1>20. CASE SetPublished
  BY <1>20 DEF SetPublished, InReport
<1>21. CASE RecordPublicationFailure
  BY <1>21 DEF RecordPublicationFailure, InReport
<1>22. CASE Signal
  BY <1>22 DEF Signal
<1>23. CASE Restart
  <2>1. (pc \in {"head", "cycle", "wait", "exited"} \cup Preflight \cup Reporting)'
    BY <1>23 DEF Restart, Fault, ReadyAtStart, Fresh, FreshPrune
  <2>2. (checked \in BOOLEAN /\ here \in BOOLEAN /\ broken \in BOOLEAN)'
    BY <1>23 DEF Restart, Fault, ReadyAtStart, Fresh, FreshPrune
  <2>3. (committed \in 0..stamp /\ litter \in Nat /\ stamp \in 0..MaxCycles)'
    BY <1>23 DEF Restart, Fault, ReadyAtStart, Fresh, FreshPrune
  <2>4. (excused \in 0..MaxFaults /\ faults \in 0..MaxFaults)'
    BY <1>23 DEF Restart, Fault, ReadyAtStart, Fresh, FreshPrune
  <2> QED
    BY <1>23, FreshTyped, <2>1, <2>2, <2>3, <2>4 DEF Restart, Fault,
       ReadyAtStart
<1>24. CASE GetReady
  BY <1>24, FreshTyped DEF GetReady, InServer
<1>25. CASE GetState
  BY <1>25 DEF GetState, InServer
<1>26. CASE GetPrune
  BY <1>26 DEF GetPrune, InServer
<1>27. CASE UNCHANGED vars
  BY <1>27 DEF vars
<1> QED
  BY <1>1, <1>2, <1>3, <1>4, <1>5, <1>6, <1>7, <1>8, <1>9, <1>10, <1>11, <1>12,
     <1>13, <1>14, <1>15, <1>16, <1>17, <1>18, <1>19, <1>20, <1>21, <1>22,
     <1>23, <1>24, <1>25, <1>26, <1>27
     DEF Next, Loop, Head, CheckPermissions, RunCycle, Report, Serve

(* Every step accounts for the probes.                                       *)
LEMMA ProbeStep ==
    ASSUME LoopInv, [Next]_vars
    PROVE  ProbeInv'
<1> USE LoopAssumption DEF LoopInv, bucketVars, probeVars, cycleState,
        readerVars, boundVars, TypeOK, Preflight, Reporting, Outcomes,
        CycleState, PruneState, ProbeInv, ProbesAccounted
<1>1. CASE Exit
  BY <1>1 DEF Exit, Stopping
<1>2. CASE BeginAttempt
  BY <1>2 DEF BeginAttempt, Stopping
<1>3. CASE WaitOver
  BY <1>3 DEF WaitOver, InReport
<1>4. CASE ListAnswered
  BY <1>4 DEF ListAnswered, InPreflight
<1>5. CASE ListDenied
  BY <1>5 DEF ListDenied, Fault, InPreflight
<1>6. CASE ProbePut
  BY <1>6 DEF ProbePut, InPreflight
<1>7. CASE ProbePutFails
  BY <1>7 DEF ProbePutFails, AfterFailedPut, Fault, InPreflight
<1>8. CASE Verified
  BY <1>8 DEF Verified, InPreflight
<1>9. CASE VerifyFails
  BY <1>9 DEF VerifyFails, Fault, InPreflight
<1>10. CASE ProbeDeleted
  BY <1>10 DEF ProbeDeleted, ProbeGone, InPreflight
<1>11. CASE ProbeDeleteFails
  BY <1>11 DEF ProbeDeleteFails, ProbeGone, Fault, InPreflight
<1>12. CASE Commits
  BY <1>12 DEF Commits, InCycle
<1>13. CASE RecordPruneHealth
  BY <1>13 DEF RecordPruneHealth, Fault, InCycle
<1>14. CASE PublicationFails
  BY <1>14 DEF PublicationFails, Fault, InCycle
<1>15. CASE CycleFails
  BY <1>15 DEF CycleFails, Fault, InCycle
<1>16. CASE RecordPublished
  BY <1>16 DEF RecordPublished, Record, FreshAfter, ConsecutiveAfter, InReport
<1>17. CASE RecordWithheld
  BY <1>17 DEF RecordWithheld, Record, FreshAfter, ConsecutiveAfter, InReport
<1>18. CASE RecordRejected
  BY <1>18 DEF RecordRejected, Record, FreshAfter, ConsecutiveAfter, InReport
<1>19. CASE RecordFailed
  BY <1>19 DEF RecordFailed, Record, FreshAfter, ConsecutiveAfter, InReport
<1>20. CASE SetPublished
  BY <1>20 DEF SetPublished, InReport
<1>21. CASE RecordPublicationFailure
  BY <1>21 DEF RecordPublicationFailure, InReport
<1>22. CASE Signal
  BY <1>22 DEF Signal
<1>23. CASE Restart
  BY <1>23 DEF Restart, Fault, ReadyAtStart, Fresh, FreshPrune
<1>24. CASE GetReady
  BY <1>24 DEF GetReady, InServer, Fresh
<1>25. CASE GetState
  BY <1>25 DEF GetState, InServer
<1>26. CASE GetPrune
  BY <1>26 DEF GetPrune, InServer
<1>27. CASE UNCHANGED vars
  BY <1>27 DEF vars
<1> QED
  BY <1>1, <1>2, <1>3, <1>4, <1>5, <1>6, <1>7, <1>8, <1>9, <1>10, <1>11, <1>12,
     <1>13, <1>14, <1>15, <1>16, <1>17, <1>18, <1>19, <1>20, <1>21, <1>22,
     <1>23, <1>24, <1>25, <1>26, <1>27
     DEF Next, Loop, Head, CheckPermissions, RunCycle, Report, Serve

(* Every step keeps the counters and what was read of them in agreement.     *)
LEMMA CountStep ==
    ASSUME LoopInv, [Next]_vars
    PROVE  CountInv'
<1> USE LoopAssumption DEF LoopInv, bucketVars, probeVars, cycleState,
        readerVars, boundVars, TypeOK, CountInv, CountsAgree, Agree, Now
<1>1. CASE Exit
  BY <1>1 DEF Exit, Stopping
<1>2. CASE BeginAttempt
  BY <1>2 DEF BeginAttempt, Stopping
<1>3. CASE WaitOver
  BY <1>3 DEF WaitOver, InReport
<1>4. CASE ListAnswered
  BY <1>4 DEF ListAnswered, InPreflight
<1>5. CASE ListDenied
  BY <1>5 DEF ListDenied, Fault, InPreflight
<1>6. CASE ProbePut
  BY <1>6 DEF ProbePut, InPreflight
<1>7. CASE ProbePutFails
  BY <1>7 DEF ProbePutFails, AfterFailedPut, Fault, InPreflight
<1>8. CASE Verified
  BY <1>8 DEF Verified, InPreflight
<1>9. CASE VerifyFails
  BY <1>9 DEF VerifyFails, Fault, InPreflight
<1>10. CASE ProbeDeleted
  BY <1>10 DEF ProbeDeleted, ProbeGone, InPreflight
<1>11. CASE ProbeDeleteFails
  BY <1>11 DEF ProbeDeleteFails, ProbeGone, Fault, InPreflight
<1>12. CASE Commits
  <2>1. attempts["published"] \in Nat /\ prune.failures \in Nat
    BY PruneTyped DEF Outcomes
  <2> QED
    BY <1>12, <2>1 DEF Commits, InCycle
<1>13. CASE RecordPruneHealth
  <2>1. /\ prune.failures \in Nat /\ prune.consecutive \in Nat
        /\ prune.failures <= prune'.failures /\ prune'.failures <= prune.failures + 1
        /\ prune'.consecutive <= prune'.failures
    BY <1>13, PruneRecorded, PruneTyped DEF RecordPruneHealth
  <2>2. prune'.failures \in Nat /\ sawPrune.failures \in Nat
    BY <1>13, PruneTyped DEF RecordPruneHealth
  <2>3. attempts["published"] \in Nat
    BY DEF Outcomes
  <2> QED
    BY <1>13, <2>1, <2>2, <2>3 DEF RecordPruneHealth, Fault, InCycle
<1>14. CASE PublicationFails
  BY <1>14 DEF PublicationFails, Fault, InCycle
<1>15. CASE CycleFails
  BY <1>15 DEF CycleFails, Fault, InCycle
<1>16. CASE RecordPublished
  <2>1. "published" \in Outcomes /\ Record("published") /\ pc' # "record"
    BY <1>16 DEF RecordPublished, Outcomes
  <2>2. (pc = "record" => "published" = "published") /\ (pc' = "count" => "published" = "failed")
    BY <1>16 DEF RecordPublished
  <2> QED
    BY <2>1, <2>2, RecordAgrees
<1>17. CASE RecordWithheld
  <2>1. "withheld" \in Outcomes /\ Record("withheld") /\ pc' # "record"
    BY <1>17 DEF RecordWithheld, Outcomes
  <2>2. (pc = "record" => "withheld" = "published") /\ (pc' = "count" => "withheld" = "failed")
    BY <1>17 DEF RecordWithheld
  <2> QED
    BY <2>1, <2>2, RecordAgrees
<1>18. CASE RecordRejected
  <2>1. "failed" \in Outcomes /\ Record("failed") /\ pc' # "record"
    BY <1>18 DEF RecordRejected, Outcomes
  <2>2. (pc = "record" => "failed" = "published") /\ (pc' = "count" => "failed" = "failed")
    BY <1>18 DEF RecordRejected
  <2> QED
    BY <2>1, <2>2, RecordAgrees
<1>19. CASE RecordFailed
  <2>1. "failed" \in Outcomes /\ Record("failed") /\ pc' # "record"
    BY <1>19 DEF RecordFailed, Outcomes
  <2>2. (pc = "record" => "failed" = "published") /\ (pc' = "count" => "failed" = "failed")
    BY <1>19 DEF RecordFailed
  <2> QED
    BY <2>1, <2>2, RecordAgrees
<1>20. CASE SetPublished
  BY <1>20 DEF SetPublished, InReport
<1>21. CASE RecordPublicationFailure
  <2>1. pc = "count" /\ outcome = "failed" /\ failures + 1 <= attempts["failed"]
    BY <1>21 DEF RecordPublicationFailure
  <2>2. /\ Agree(seen)' /\ prune' = prune /\ sawPrune' = sawPrune /\ attempts' = attempts
        /\ failures' = failures + 1 /\ consecutive' = consecutive + 1
        /\ outcome' = outcome /\ freshAt' = freshAt /\ pc' = "wait"
    BY <1>21 DEF RecordPublicationFailure, InReport
  <2>3. Agree(Now)'
    BY <2>1, <2>2
  <2> QED
    BY <2>1, <2>2, <2>3
<1>22. CASE Signal
  BY <1>22 DEF Signal
<1>23. CASE Restart
  <2>1. /\ seen' = Fresh /\ prune' = FreshPrune /\ sawPrune' = FreshPrune
        /\ Now' = Fresh
    BY <1>23 DEF Restart, Fresh
  <2>2. attempts'["published"] = 0 /\ pc' = "head"
    BY <1>23, FreshTyped DEF Restart
  <2>3. Agree(Now)' /\ Agree(seen)'
    BY <1>23, FreshTyped DEF Restart, Fresh
  <2> QED
    BY <2>1, <2>2, <2>3, FreshTyped
<1>24. CASE GetReady
  <2>1. Agree(seen)' /\ sawPrune' = FreshPrune /\ UNCHANGED <<pc, cycleState, prune>>
    BY <1>24, FreshTyped DEF GetReady, InServer
  <2>2. prune.failures \in Nat
    BY PruneTyped
  <2> QED
    BY <2>1, <2>2, FreshTyped
<1>25. CASE GetState
  BY <1>25 DEF GetState, InServer
<1>26. CASE GetPrune
  <2>1. /\ sawPrune' = prune /\ prune.failures \in Nat /\ prune.consecutive \in Nat
        /\ UNCHANGED <<pc, cycleState, prune, seen>>
    BY <1>26, PruneTyped DEF GetPrune, InServer
  <2> QED
    BY <2>1
<1>27. CASE UNCHANGED vars
  BY <1>27 DEF vars
<1> QED
  BY <1>1, <1>2, <1>3, <1>4, <1>5, <1>6, <1>7, <1>8, <1>9, <1>10, <1>11, <1>12,
     <1>13, <1>14, <1>15, <1>16, <1>17, <1>18, <1>19, <1>20, <1>21, <1>22,
     <1>23, <1>24, <1>25, <1>26, <1>27
     DEF Next, Loop, Head, CheckPermissions, RunCycle, Report, Serve

(* Every step keeps the freshness a committed one.                           *)
LEMMA FreshStep ==
    ASSUME LoopInv, [Next]_vars
    PROVE  FreshInv'
<1> USE LoopAssumption DEF LoopInv, bucketVars, probeVars, cycleState,
        readerVars, boundVars, TypeOK, Preflight, Reporting, Outcomes,
        CycleState, PruneState, FreshInv, FreshIsCommitted
<1>1. CASE Exit
  BY <1>1 DEF Exit, Stopping
<1>2. CASE BeginAttempt
  BY <1>2 DEF BeginAttempt, Stopping
<1>3. CASE WaitOver
  BY <1>3 DEF WaitOver, InReport
<1>4. CASE ListAnswered
  BY <1>4 DEF ListAnswered, InPreflight
<1>5. CASE ListDenied
  BY <1>5 DEF ListDenied, Fault, InPreflight
<1>6. CASE ProbePut
  BY <1>6 DEF ProbePut, InPreflight
<1>7. CASE ProbePutFails
  BY <1>7 DEF ProbePutFails, AfterFailedPut, Fault, InPreflight
<1>8. CASE Verified
  BY <1>8 DEF Verified, InPreflight
<1>9. CASE VerifyFails
  BY <1>9 DEF VerifyFails, Fault, InPreflight
<1>10. CASE ProbeDeleted
  BY <1>10 DEF ProbeDeleted, ProbeGone, InPreflight
<1>11. CASE ProbeDeleteFails
  BY <1>11 DEF ProbeDeleteFails, ProbeGone, Fault, InPreflight
<1>12. CASE Commits
  BY <1>12 DEF Commits, InCycle
<1>13. CASE RecordPruneHealth
  BY <1>13 DEF RecordPruneHealth, Fault, InCycle
<1>14. CASE PublicationFails
  BY <1>14 DEF PublicationFails, Fault, InCycle
<1>15. CASE CycleFails
  BY <1>15 DEF CycleFails, Fault, InCycle
<1>16. CASE RecordPublished
  BY <1>16 DEF RecordPublished, Record, FreshAfter, ConsecutiveAfter, InReport
<1>17. CASE RecordWithheld
  BY <1>17 DEF RecordWithheld, Record, FreshAfter, ConsecutiveAfter, InReport
<1>18. CASE RecordRejected
  BY <1>18 DEF RecordRejected, Record, FreshAfter, ConsecutiveAfter, InReport
<1>19. CASE RecordFailed
  BY <1>19 DEF RecordFailed, Record, FreshAfter, ConsecutiveAfter, InReport
<1>20. CASE SetPublished
  BY <1>20 DEF SetPublished, InReport
<1>21. CASE RecordPublicationFailure
  BY <1>21 DEF RecordPublicationFailure, InReport, CountInv
<1>22. CASE Signal
  BY <1>22 DEF Signal
<1>23. CASE Restart
  BY <1>23 DEF Restart, Fault, ReadyAtStart, Fresh, FreshPrune
<1>24. CASE GetReady
  BY <1>24 DEF GetReady, InServer, Fresh
<1>25. CASE GetState
  BY <1>25 DEF GetState, InServer
<1>26. CASE GetPrune
  BY <1>26 DEF GetPrune, InServer
<1>27. CASE UNCHANGED vars
  BY <1>27 DEF vars
<1> QED
  BY <1>1, <1>2, <1>3, <1>4, <1>5, <1>6, <1>7, <1>8, <1>9, <1>10, <1>11, <1>12,
     <1>13, <1>14, <1>15, <1>16, <1>17, <1>18, <1>19, <1>20, <1>21, <1>22,
     <1>23, <1>24, <1>25, <1>26, <1>27
     DEF Next, Loop, Head, CheckPermissions, RunCycle, Report, Serve

(* Every step keeps readiness earned, for the process and for its callers.   *)
LEMMA ReadyStep ==
    ASSUME LoopInv, [Next]_vars
    PROVE  ReadyInv'
<1> USE LoopAssumption DEF LoopInv, bucketVars, probeVars, cycleState,
        readerVars, boundVars, TypeOK, Preflight, Reporting, Outcomes,
        CycleState, PruneState, FreshInv, FreshIsCommitted, ReadyInv,
        ReadyIsEarned
<1>1. CASE Exit
  BY <1>1 DEF Exit, Stopping
<1>2. CASE BeginAttempt
  BY <1>2 DEF BeginAttempt, Stopping
<1>3. CASE WaitOver
  BY <1>3 DEF WaitOver, InReport
<1>4. CASE ListAnswered
  BY <1>4 DEF ListAnswered, InPreflight
<1>5. CASE ListDenied
  BY <1>5 DEF ListDenied, Fault, InPreflight
<1>6. CASE ProbePut
  BY <1>6 DEF ProbePut, InPreflight
<1>7. CASE ProbePutFails
  BY <1>7 DEF ProbePutFails, AfterFailedPut, Fault, InPreflight
<1>8. CASE Verified
  BY <1>8 DEF Verified, InPreflight
<1>9. CASE VerifyFails
  BY <1>9 DEF VerifyFails, Fault, InPreflight
<1>10. CASE ProbeDeleted
  BY <1>10 DEF ProbeDeleted, ProbeGone, InPreflight
<1>11. CASE ProbeDeleteFails
  BY <1>11 DEF ProbeDeleteFails, ProbeGone, Fault, InPreflight
<1>12. CASE Commits
  BY <1>12 DEF Commits, InCycle
<1>13. CASE RecordPruneHealth
  BY <1>13 DEF RecordPruneHealth, Fault, InCycle
<1>14. CASE PublicationFails
  BY <1>14 DEF PublicationFails, Fault, InCycle
<1>15. CASE CycleFails
  BY <1>15 DEF CycleFails, Fault, InCycle
<1>16. CASE RecordPublished
  BY <1>16 DEF RecordPublished, Record, FreshAfter, ConsecutiveAfter, InReport
<1>17. CASE RecordWithheld
  BY <1>17 DEF RecordWithheld, Record, FreshAfter, ConsecutiveAfter, InReport
<1>18. CASE RecordRejected
  BY <1>18 DEF RecordRejected, Record, FreshAfter, ConsecutiveAfter, InReport
<1>19. CASE RecordFailed
  BY <1>19 DEF RecordFailed, Record, FreshAfter, ConsecutiveAfter, InReport
<1>20. CASE SetPublished
  BY <1>20 DEF SetPublished, InReport
<1>21. CASE RecordPublicationFailure
  BY <1>21 DEF RecordPublicationFailure, InReport
<1>22. CASE Signal
  BY <1>22 DEF Signal
<1>23. CASE Restart
  BY <1>23 DEF Restart, ReadyAtStart
<1>24. CASE GetReady
  BY <1>24 DEF GetReady, InServer, Fresh
<1>25. CASE GetState
  BY <1>25 DEF GetState, InServer
<1>26. CASE GetPrune
  BY <1>26 DEF GetPrune, InServer
<1>27. CASE UNCHANGED vars
  BY <1>27 DEF vars
<1> QED
  BY <1>1, <1>2, <1>3, <1>4, <1>5, <1>6, <1>7, <1>8, <1>9, <1>10, <1>11, <1>12,
     <1>13, <1>14, <1>15, <1>16, <1>17, <1>18, <1>19, <1>20, <1>21, <1>22,
     <1>23, <1>24, <1>25, <1>26, <1>27
     DEF Next, Loop, Head, CheckPermissions, RunCycle, Report, Serve

(* LoopInv is an invariant of the loop with its readers.                     *)
THEOREM LoopInvariance == Spec => []LoopInv
<1>1. LoopInv /\ [Next]_vars => LoopInv'
  BY TypeStep, ProbeStep, CountStep, FreshStep, ReadyStep DEF LoopInv
<1> QED
  BY LoopInit, <1>1, PTL DEF Spec

(* The state of the loop is well typed.                                      *)
THEOREM LoopTypeCorrect == Spec => []TypeOK
BY LoopInvariance, PTL DEF LoopInv

(* The counters, the outcome and the freshness agree, in the process and in  *)
(* every answer, over any sequence of attempts.                              *)
THEOREM CountsAlwaysAgree == Spec => []CountsAgree
<1>1. LoopInv => CountsAgree
  BY DEF LoopInv, CountInv
<1> QED
  BY LoopInvariance, <1>1, PTL

(* The freshness always names a committed cycle, after a publication the     *)
(* newest one.                                                               *)
THEOREM FreshnessIsCommitted == Spec => []FreshIsCommitted
<1>1. LoopInv => FreshIsCommitted
  BY DEF LoopInv, FreshInv
<1> QED
  BY LoopInvariance, <1>1, PTL

(* Readiness is never announced before a publication of the same process.    *)
THEOREM ReadinessIsEarned == Spec => []ReadyIsEarned
<1>1. LoopInv => ReadyIsEarned
  BY DEF LoopInv, ReadyInv
<1> QED
  BY LoopInvariance, <1>1, PTL

(* However the preflight fails, its probe stays only after a failed deletion *)
(* or a crash.                                                               *)
THEOREM ProbesAreAccounted == Spec => []ProbesAccounted
<1>1. LoopInv => ProbesAccounted
  BY DEF LoopInv, ProbeInv
<1> QED
  BY LoopInvariance, <1>1, PTL
=============================================================================
