--------------------------- MODULE S3AdapterProofs ---------------------------
(***************************************************************************)
(* For any number of attempts: one call of the adapter is one call for its  *)
(* caller, never replaces an immutable object, and makes no more failing    *)
(* requests than its nested retries allow.                                  *)
(***************************************************************************)
EXTENDS S3Adapter, TLAPS

(* An immutable upload makes its own kinds of requests, and PUTs only when  *)
(* its GET has found nothing under the key.                                 *)
OwnRequests ==
    /\ op = "immutable" <=> phase # "request"
    /\ result = "running" /\ phase = "put" => object = None

(* The most failures of the attempts that came before attempt a.            *)
Spent(a) == (a - 1) * (2 * MAX_ATTEMPTS)

(* The failures so far, by the place of the call: each earlier attempt has  *)
(* used up at most its share, and the current one what its tries show.      *)
FailuresSoFar ==
    IF op # "immutable"
    THEN /\ failures <= MAX_ATTEMPTS
         /\ result = "running" => failures <= attempt - 1
    ELSE /\ failures <= MostFailures
         /\ result = "running" =>
               /\ phase = "check" => failures <= Spent(attempt) + tries - 1
               /\ phase = "put" => failures <= Spent(attempt) + MAX_ATTEMPTS - 1
               /\ phase = "observe" =>
                      failures <= Spent(attempt) + MAX_ATTEMPTS + tries - 1

AdapterInv == AdapterTypeOK /\ OwnRequests /\ FailuresSoFar

-----------------------------------------------------------------------------
(* Counting: an attempt adds its share, and the last one reaches the bound. *)
LEMMA SpentIsNat == \A a \in 1..MAX_ATTEMPTS : Spent(a) \in Nat
<1> SUFFICES ASSUME NEW a \in 1..MAX_ATTEMPTS PROVE Spent(a) \in Nat
  OBVIOUS
<1>1. \A x, y \in Nat : x * y \in Nat
  OBVIOUS
<1>2. a - 1 \in Nat /\ 2 * MAX_ATTEMPTS \in Nat
  BY AttemptsAssumption
<1> QED BY <1>1, <1>2 DEF Spent

LEMMA FirstSpent == Spent(1) = 0
BY AttemptsAssumption DEF Spent

LEMMA NextSpent ==
    \A a \in 1..MAX_ATTEMPTS : Spent(a + 1) = Spent(a) + 2 * MAX_ATTEMPTS
<1>1. \A x, y \in Int : x * y = (x - 1) * y + y
  OBVIOUS
<1> SUFFICES ASSUME NEW a \in 1..MAX_ATTEMPTS
             PROVE  Spent(a + 1) = Spent(a) + 2 * MAX_ATTEMPTS
  OBVIOUS
<1>2. a * (2 * MAX_ATTEMPTS) = (a - 1) * (2 * MAX_ATTEMPTS) + 2 * MAX_ATTEMPTS
  BY <1>1, AttemptsAssumption
<1>3. (a + 1) - 1 = a
  OBVIOUS
<1> QED BY <1>2, <1>3 DEF Spent

LEMMA LastSpent ==
    /\ MostFailures \in Nat
    /\ \A a \in 1..MAX_ATTEMPTS : Spent(a) + 2 * MAX_ATTEMPTS <= MostFailures
<1>1. \A x, y \in Nat : x * y \in Nat
  OBVIOUS
<1>2. MostFailures \in Nat
  BY <1>1, AttemptsAssumption DEF MostFailures
<1> SUFFICES ASSUME NEW a \in 1..MAX_ATTEMPTS
             PROVE  Spent(a) + 2 * MAX_ATTEMPTS <= MostFailures
  BY <1>2
<1>3. \A x, y, z \in Nat : x <= y => x * z <= y * z
  OBVIOUS
<1>4. a * (2 * MAX_ATTEMPTS) <= MAX_ATTEMPTS * (2 * MAX_ATTEMPTS)
  BY <1>3, AttemptsAssumption
<1>5. Spent(a + 1) = a * (2 * MAX_ATTEMPTS)
  BY DEF Spent
<1> QED BY <1>4, <1>5, NextSpent DEF MostFailures

-----------------------------------------------------------------------------
(* The steps.                                                               *)

(* The call counts a failure by one as long as it is within the bound.      *)
LEMMA CountsOne ==
    ASSUME AdapterInv, CountFailure, failures < MostFailures
    PROVE  failures' = failures + 1 /\ failures' \in 0..(MostFailures + 1)
BY LastSpent DEF AdapterInv, AdapterTypeOK, CountFailure

(* The policy around the call leaves it in a place of its own kind.         *)
LEMMA RetryTyped ==
    ASSUME AdapterInv, NEW transient \in BOOLEAN, RetryOrEnd(transient), UNCHANGED op,
           result = "running"
    PROVE  /\ result' \in {"running", "error"}
           /\ phase' \in Gets \cup {"request", "put"}
           /\ attempt' \in 1..MAX_ATTEMPTS /\ tries' \in 1..MAX_ATTEMPTS
           /\ op' = "immutable" <=> phase' # "request"
           /\ result' = "running" =>
                  /\ attempt < MAX_ATTEMPTS /\ attempt' = attempt + 1
                  /\ phase' = FirstRequest /\ tries' = 1
BY AttemptsAssumption
   DEF AdapterInv, AdapterTypeOK, OwnRequests, RetryOrEnd, Ends, Exhausted, NextAttempt,
       FirstRequest, Gets

LEMMA InitHolds == Init => AdapterInv
<1> SUFFICES ASSUME Init PROVE AdapterInv
  OBVIOUS
<1>1. AdapterTypeOK
  <2>1. 1 \in 1..MAX_ATTEMPTS /\ 0 \in 0..(MostFailures + 1)
    BY AttemptsAssumption, LastSpent
  <2> QED BY <2>1 DEF Init, AdapterTypeOK, FirstRequest, Gets
<1>2. OwnRequests
  BY DEF Init, OwnRequests, FirstRequest
<1>3. FailuresSoFar
  BY AttemptsAssumption, LastSpent, FirstSpent DEF Init, FailuresSoFar,
     FirstRequest
<1> QED BY <1>1, <1>2, <1>3 DEF AdapterInv

(* A call of one request: every failure but the last begins an attempt.     *)
LEMMA RequestKeeps ==
    ASSUME AdapterInv, NEW transient \in BOOLEAN,
           RequestSucceeds \/ RequestFails(transient)
    PROVE  AdapterInv'
<1>1. CASE RequestSucceeds
  <2>1. object' \in {None, Mine, Other}
    BY <1>1 DEF AdapterInv, AdapterTypeOK, RequestSucceeds, Call!Effect,
       Call!Ops
  <2> QED
    BY <1>1, <2>1
       DEF AdapterInv, AdapterTypeOK, OwnRequests, FailuresSoFar, RequestSucceeds, Ends, Spent
<1>2. CASE RequestFails(transient)
  <2> USE <1>2 DEF RequestFails
  <2>1. object' \in {None, Mine, Other}
    BY DEF AdapterInv, AdapterTypeOK, Call!Effect, Call!Ops
  <2>2. /\ op # "immutable"
        /\ failures \in Nat /\ attempt \in 1..MAX_ATTEMPTS /\ failures <= attempt - 1
    BY DEF AdapterInv, AdapterTypeOK, OwnRequests, FailuresSoFar
  <2>3. MAX_ATTEMPTS <= MostFailures
    BY LastSpent, SpentIsNat, AttemptsAssumption
  <2>4. failures < MostFailures
    BY <2>2, <2>3, LastSpent, AttemptsAssumption
  <2>5. failures' = failures + 1 /\ failures' \in 0..(MostFailures + 1)
    BY <2>4, CountsOne
  <2>6. AdapterTypeOK'
    BY <2>1, <2>5, RetryTyped DEF AdapterInv, AdapterTypeOK
  <2>7. OwnRequests'
    BY <2>2, RetryTyped DEF OwnRequests, FirstRequest
  <2>8. FailuresSoFar'
    BY <2>2, <2>5, RetryTyped, AttemptsAssumption DEF FailuresSoFar
  <2> QED BY <2>6, <2>7, <2>8 DEF AdapterInv
<1> QED BY <1>1, <1>2

(* A GET within an upload: answered, it leads to the PUT or to an end.      *)
LEMMA CheckKeeps == ASSUME AdapterInv, CheckAnswered PROVE AdapterInv'
<1> USE DEF CheckAnswered
<1>1. AdapterTypeOK'
  BY DEF AdapterInv, AdapterTypeOK, Ends
<1>2. OwnRequests'
  BY DEF AdapterInv, OwnRequests, Ends
<1>3. FailuresSoFar'
  <2>1. op = "immutable" /\ phase = "check"
    BY DEF AdapterInv, OwnRequests
  <2>2. attempt \in 1..MAX_ATTEMPTS /\ tries \in 1..MAX_ATTEMPTS /\ failures \in Nat
    BY LastSpent DEF AdapterInv, AdapterTypeOK
  <2>3. Spent(attempt) \in Nat /\ failures <= Spent(attempt) + tries - 1
    BY <2>1, <2>2, SpentIsNat DEF AdapterInv, FailuresSoFar
  <2>4. result' = "running" =>
            phase' = "put" /\ attempt' = attempt /\ Spent(attempt)' = Spent(attempt)
    BY DEF Ends, Spent
  <2>5. failures' <= MostFailures
    BY <2>1 DEF AdapterInv, FailuresSoFar
  <2>6. result' = "running" => failures' <= Spent(attempt') + MAX_ATTEMPTS - 1
    BY <2>2, <2>3, <2>4, AttemptsAssumption
  <2>7. op' = "immutable" /\ (result' = "running" => phase' = "put")
    BY <2>1, <2>4
  <2> QED BY <2>5, <2>6, <2>7 DEF FailuresSoFar
<1> QED BY <1>1, <1>2, <1>3 DEF AdapterInv

(* The PUT of an upload: failed, it leaves the share of the GETs after it.  *)
LEMMA PutKeeps ==
    ASSUME AdapterInv, NEW transient \in BOOLEAN, PutSucceeds \/ PutFails(transient)
    PROVE  AdapterInv'
<1>1. CASE PutSucceeds
  BY <1>1
     DEF AdapterInv, AdapterTypeOK, OwnRequests, FailuresSoFar, PutSucceeds, Ends, Spent
<1>2. CASE PutFails(transient)
  <2> USE <1>2 DEF PutFails
  <2>1. /\ op = "immutable"
        /\ attempt \in 1..MAX_ATTEMPTS /\ failures \in Nat
        /\ failures <= Spent(attempt) + MAX_ATTEMPTS - 1
    BY LastSpent DEF AdapterInv, AdapterTypeOK, OwnRequests, FailuresSoFar
  <2>2. Spent(attempt) \in Nat /\ Spent(attempt) + 2 * MAX_ATTEMPTS <= MostFailures
    BY <2>1, SpentIsNat, LastSpent
  <2>3. failures < MostFailures
    BY <2>1, <2>2, LastSpent, AttemptsAssumption
  <2>4. failures' = failures + 1 /\ failures' \in 0..(MostFailures + 1)
    BY <2>3, CountsOne
  <2>5. AdapterTypeOK'
    BY <2>4, AttemptsAssumption DEF AdapterInv, AdapterTypeOK, Gets
  <2>6. OwnRequests'
    BY <2>1 DEF OwnRequests
  <2>7. failures' <= MostFailures
    BY <2>3, <2>4, LastSpent, <2>1
  <2>8. failures' <= Spent(attempt') + MAX_ATTEMPTS + tries' - 1
    BY <2>1, <2>2, <2>4, AttemptsAssumption
  <2>9. FailuresSoFar'
    BY <2>1, <2>7, <2>8 DEF FailuresSoFar
  <2> QED BY <2>5, <2>6, <2>9 DEF AdapterInv
<1> QED BY <1>1, <1>2

(* The policy begins a new attempt of an upload whose share is not used up. *)
LEMMA UploadRetries ==
    ASSUME AdapterInv, op = "immutable", result = "running", UNCHANGED op,
           NEW transient \in BOOLEAN, RetryOrEnd(transient),
           failures' \in Nat, failures' <= Spent(attempt) + 2 * MAX_ATTEMPTS
    PROVE  FailuresSoFar'
<1>1. attempt \in 1..MAX_ATTEMPTS
  BY DEF AdapterInv, AdapterTypeOK
<1>2. failures' <= MostFailures
  BY <1>1, LastSpent, SpentIsNat, AttemptsAssumption
<1>3. ASSUME result' = "running"
      PROVE  phase' = "check" /\ failures' <= Spent(attempt') + tries' - 1
  <2>1. attempt' = attempt + 1 /\ phase' = "check" /\ tries' = 1
    BY <1>3, RetryTyped DEF FirstRequest
  <2>2. Spent(attempt') = Spent(attempt) + 2 * MAX_ATTEMPTS
    BY <1>1, <2>1, NextSpent
  <2>3. Spent(attempt) \in Nat
    BY <1>1, SpentIsNat
  <2> QED BY <2>1, <2>2, <2>3, AttemptsAssumption
<1>4. MostFailures' = MostFailures /\ \A a : Spent(a)' = (a - 1) * (2 * MAX_ATTEMPTS)
  BY DEF MostFailures, Spent
<1> QED BY <1>2, <1>3, <1>4 DEF FailuresSoFar

LEMMA ObserveKeeps == ASSUME AdapterInv, ObserveAnswered PROVE AdapterInv'
<1> USE DEF ObserveAnswered
<1>1. /\ op = "immutable"
      /\ attempt \in 1..MAX_ATTEMPTS /\ tries \in 1..MAX_ATTEMPTS /\ failures \in Nat
      /\ worth \in BOOLEAN
      /\ failures <= Spent(attempt) + MAX_ATTEMPTS + tries - 1
      /\ failures <= MostFailures
  BY LastSpent DEF AdapterInv, AdapterTypeOK, OwnRequests, FailuresSoFar
<1>2. Spent(attempt) \in Nat
  BY <1>1, SpentIsNat
<1>3. CASE RetryOrEnd(worth)
  <2>1. AdapterTypeOK' /\ OwnRequests'
    BY <1>1, <1>3, RetryTyped DEF AdapterInv, AdapterTypeOK, OwnRequests,
       FirstRequest
  <2>2. failures' <= Spent(attempt) + 2 * MAX_ATTEMPTS
    BY <1>1, <1>2, AttemptsAssumption
  <2>3. FailuresSoFar'
    BY <1>1, <1>3, <2>2, UploadRetries
  <2> QED BY <2>1, <2>3 DEF AdapterInv
<1>4. CASE result' # "running" /\ result' \in {"ok", "error"}
           /\ UNCHANGED <<phase, attempt, tries>>
  BY <1>1, <1>4 DEF AdapterInv, AdapterTypeOK, OwnRequests, FailuresSoFar
<1> QED BY <1>3, <1>4 DEF Ends

(* A GET of an upload fails: another try, or what the policy then decides.  *)
LEMMA GetKeeps ==
    ASSUME AdapterInv, NEW transient \in BOOLEAN, GetFails(transient)
    PROVE  AdapterInv'
<1> USE DEF GetFails
<1>1. /\ op = "immutable" /\ phase \in {"check", "observe"}
      /\ attempt \in 1..MAX_ATTEMPTS /\ tries \in 1..MAX_ATTEMPTS /\ failures \in Nat
      /\ phase = "check" => failures <= Spent(attempt) + tries - 1
      /\ phase = "observe" => failures <= Spent(attempt) + MAX_ATTEMPTS + tries - 1
  BY LastSpent DEF AdapterInv, AdapterTypeOK, OwnRequests, FailuresSoFar, Gets
<1>2. Spent(attempt) \in Nat /\ Spent(attempt) + 2 * MAX_ATTEMPTS <= MostFailures
  BY <1>1, SpentIsNat, LastSpent
<1>3. failures < MostFailures /\ failures < Spent(attempt) + 2 * MAX_ATTEMPTS
  BY <1>1, <1>2, LastSpent, AttemptsAssumption
<1>4. failures' = failures + 1 /\ failures' \in 0..(MostFailures + 1)
  BY <1>3, CountsOne
<1>5. CASE tries < MAX_ATTEMPTS /\ tries' = tries + 1
           /\ UNCHANGED <<result, phase, attempt>>
  <2>1. AdapterTypeOK' /\ OwnRequests'
    BY <1>1, <1>4, <1>5, AttemptsAssumption DEF AdapterInv, AdapterTypeOK,
       OwnRequests
  <2>2. /\ failures' <= MostFailures
        /\ phase' = "check" => failures' <= Spent(attempt') + tries' - 1
        /\ phase' = "observe" =>
               failures' <= Spent(attempt') + MAX_ATTEMPTS + tries' - 1
        /\ phase' # "put" /\ op' = "immutable"
    BY <1>1, <1>2, <1>3, <1>4, <1>5, LastSpent, AttemptsAssumption
  <2>3. FailuresSoFar'
    BY <2>2 DEF FailuresSoFar
  <2> QED BY <2>1, <2>3 DEF AdapterInv
<1>6. CASE RetryOrEnd(transient)
  <2>1. AdapterTypeOK' /\ OwnRequests'
    BY <1>1, <1>4, <1>6, RetryTyped
       DEF AdapterInv, AdapterTypeOK, OwnRequests, FirstRequest
  <2>2. failures' \in Nat /\ failures' <= Spent(attempt) + 2 * MAX_ATTEMPTS
    BY <1>1, <1>2, <1>3, <1>4, AttemptsAssumption
  <2>3. FailuresSoFar'
    BY <1>1, <1>6, <2>2, UploadRetries
  <2> QED BY <2>1, <2>3 DEF AdapterInv
<1> QED BY <1>1, <1>5, <1>6, AttemptsAssumption DEF Exhausted

(* Every step of the call keeps the invariant.                              *)
LEMMA AdapterStep == AdapterInv /\ [Next]_adapterVars => AdapterInv'
<1> SUFFICES ASSUME AdapterInv, [Next]_adapterVars PROVE AdapterInv'
  OBVIOUS
<1>1. CASE RequestSucceeds
  BY <1>1, RequestKeeps
<1>2. CASE CheckAnswered
  BY <1>2, CheckKeeps
<1>3. CASE PutSucceeds
  BY <1>3, PutKeeps
<1>4. CASE ObserveAnswered
  BY <1>4, ObserveKeeps
<1>5. ASSUME NEW transient \in BOOLEAN, RequestFails(transient) PROVE AdapterInv'
  BY <1>5, RequestKeeps
<1>6. ASSUME NEW transient \in BOOLEAN, PutFails(transient) PROVE AdapterInv'
  BY <1>6, PutKeeps
<1>7. ASSUME NEW transient \in BOOLEAN, GetFails(transient) PROVE AdapterInv'
  BY <1>7, GetKeeps
<1>8. CASE UNCHANGED adapterVars
  BY <1>8
     DEF adapterVars, AdapterInv, AdapterTypeOK, OwnRequests, FailuresSoFar, Spent,
         MostFailures
<1> QED BY <1>1, <1>2, <1>3, <1>4, <1>5, <1>6, <1>7, <1>8 DEF Next, Ended

-----------------------------------------------------------------------------
(* The theorems.                                                            *)

(* Every reachable state of a call satisfies the strengthened invariant.    *)
THEOREM AdapterInvariance == Spec => []AdapterInv
BY InitHolds, AdapterStep, PTL DEF Spec

(* Every variable of the call keeps its type, for any number of attempts.   *)
THEOREM AdapterTypeCorrect == Spec => []AdapterTypeOK
<1>1. AdapterInv => AdapterTypeOK
  BY DEF AdapterInv
<1> QED BY <1>1, AdapterInvariance, PTL

(* Nested retries multiply no further than the attempts allow: at most      *)
(* 2 n^2 requests of an immutable upload fail, and n of any other call.     *)
THEOREM FailuresAreBounded == Spec => []FailureBound
<1>1. AdapterInv => FailureBound
  BY DEF AdapterInv, FailuresSoFar, FailureBound
<1> QED BY <1>1, AdapterInvariance, PTL

(* No lost answer and no retry makes an immutable upload replace an object. *)
THEOREM ImmutableIsKept == Spec => NeverReplaced
<1>1. AdapterInv /\ [Next]_adapterVars
          => [(op = "immutable" /\ object # None) => object' = object]_adapterVars
  <2> SUFFICES ASSUME AdapterInv, Next, op = "immutable", object # None
               PROVE  object' = object
    OBVIOUS
  <2>1. phase # "request" /\ ~ (result = "running" /\ phase = "put")
    BY DEF AdapterInv, OwnRequests
  <2> QED
    BY <2>1
       DEF Next, RequestSucceeds, CheckAnswered, PutSucceeds, ObserveAnswered,
           RequestFails, PutFails, GetFails, Ended, adapterVars
<1> QED BY <1>1, AdapterInvariance, PTL DEF Spec, NeverReplaced

(* For its caller every step of the adapter is a step of one call, or none. *)
LEMMA StepIsCall ==
    AdapterInv /\ [Next]_adapterVars => [Call!Next]_<<op, object, result>>
<1> SUFFICES ASSUME AdapterInv, [Next]_adapterVars,
                    ~ UNCHANGED <<op, object, result>>
             PROVE  Call!Next
  OBVIOUS
<1>1. op' = op /\ result = "running"
  BY DEF Next, RequestSucceeds, CheckAnswered, PutSucceeds, ObserveAnswered,
         RequestFails, PutFails, GetFails, RetryOrEnd, Ends, Ended, adapterVars
<1>2. op \in Call!Ops /\ object \in {None, Mine, Other}
  BY DEF AdapterInv, AdapterTypeOK
<1>3. op = "immutable" <=> phase # "request"
  BY DEF AdapterInv, OwnRequests
<1>4. CASE RequestSucceeds
  <2>1. object' = Call!Effect(object) /\ result' = "ok"
    BY <1>4 DEF RequestSucceeds, Ends
  <2>2. Call!Achieved'
    BY <1>1, <1>2, <1>3, <1>4, <2>1
       DEF RequestSucceeds, Call!Achieved, Call!Effect, Call!Ops
  <2> QED BY <1>1, <2>1, <2>2 DEF Call!Next, Call!ApplyAndReturn
<1>5. ASSUME NEW transient \in BOOLEAN, RequestFails(transient) PROVE Call!Next
  <2>1. object' \in {object, Call!Effect(object)} /\ result' \in {"running", "error"}
    BY <1>1, <1>5 DEF RequestFails, RetryOrEnd, Ends
  <2> QED
    BY <1>1, <2>1 DEF Call!Next, Call!Apply, Call!Return, Call!ApplyAndReturn
<1>6. CASE CheckAnswered \/ ObserveAnswered
  <2>1. /\ op = "immutable" /\ object' = object
        /\ \/ result' = "error"
           \/ result' = "ok" /\ object = Mine
    BY <1>1, <1>2, <1>3, <1>6
       DEF CheckAnswered, ObserveAnswered, RetryOrEnd, Ends, Match
  <2> QED BY <1>1, <2>1 DEF Call!Next, Call!Return, Call!Achieved
<1>7. CASE PutSucceeds
  <2>1. /\ op = "immutable" /\ object = None
        /\ object' = Mine /\ result' = "ok"
    BY <1>3, <1>7 DEF PutSucceeds, Ends, AdapterInv, OwnRequests
  <2>2. Call!Effect(object) = Mine /\ Call!Achieved'
    BY <1>1, <2>1 DEF Call!Effect, Call!Achieved
  <2> QED BY <1>1, <2>1, <2>2 DEF Call!Next, Call!ApplyAndReturn
<1>8. ASSUME NEW transient \in BOOLEAN, PutFails(transient) PROVE Call!Next
  <2>1. /\ op = "immutable" /\ object = None
        /\ object' = Mine /\ result' = result
    BY <1>1, <1>3, <1>8 DEF PutFails, AdapterInv, OwnRequests
  <2>2. Call!Effect(object) = Mine
    BY <2>1 DEF Call!Effect
  <2> QED BY <1>1, <2>1, <2>2 DEF Call!Next, Call!Apply
<1>9. ASSUME NEW transient \in BOOLEAN, GetFails(transient) PROVE Call!Next
  <2>1. object' = object /\ result' = "error"
    BY <1>1, <1>9 DEF GetFails, RetryOrEnd, Ends
  <2> QED BY <1>1, <2>1 DEF Call!Next, Call!Return
<1> QED BY <1>4, <1>5, <1>6, <1>7, <1>8, <1>9 DEF Next, Ended, adapterVars

(* A call of the adapter implements the call its users count on: one effect *)
(* and one answer, whatever requests, retries and lost answers it took.     *)
THEOREM AdapterImplementsCall == Spec => ImplementsCall
<1>1. Init => Call!Init
  BY DEF Init, Call!Init
<1> QED BY <1>1, StepIsCall, AdapterInvariance, PTL DEF Spec, ImplementsCall,
           Call!Spec
=============================================================================
