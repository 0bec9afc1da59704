----------------------------- MODULE S3Adapter -----------------------------
(***************************************************************************)
(* One call of the S3 adapter (src/src/s3io.py) under the shared retry      *)
(* policy (src/src/retry.py), request by request.  Any request may fail,    *)
(* with an error the policy retries or with one it does not, and a write    *)
(* that fails may have reached the bucket.                                  *)
(*                                                                         *)
(* An immutable upload is a retried operation that makes requests of its    *)
(* own: a GET, itself retried, a PUT, and after a failed PUT another GET.   *)
(***************************************************************************)
EXTENDS Integers

CONSTANTS
    MAX_ATTEMPTS,  \* attempts of a retried operation
    None, Mine, Other

ASSUME AttemptsAssumption == MAX_ATTEMPTS \in Nat \ {0}
ASSUME ObjectsAssumption == None # Mine /\ None # Other /\ Mine # Other

VARIABLES
    op, object, result,  \* as in S3Call
    phase,    \* the request the call makes next
    attempt,  \* the attempt of the call's own operation
    tries,    \* the attempt of a GET within an immutable upload
    worth,    \* the error of the failed PUT is one to retry
    failures  \* requests of the call that failed

adapterVars == <<op, object, result, phase, attempt, tries, worth, failures>>

Call == INSTANCE S3Call

Gets == {"check", "observe"}

(* Bound: failures beyond MostFailures are counted as one more than that. *)
MostFailures == MAX_ATTEMPTS * (2 * MAX_ATTEMPTS)
CountFailure ==
    failures' = IF failures > MostFailures THEN failures ELSE failures + 1

AdapterTypeOK ==
    /\ op \in Call!Ops
    /\ object \in {None, Mine, Other}
    /\ result \in {"running", "ok", "error"}
    /\ phase \in Gets \cup {"request", "put"}
    /\ attempt \in 1 .. MAX_ATTEMPTS
    /\ tries \in 1 .. MAX_ATTEMPTS
    /\ worth \in BOOLEAN
    /\ failures \in 0 .. MostFailures + 1

-----------------------------------------------------------------------------
(* Mutant: the immutable upload begins with its PUT. *)
PutFirst == IF op = "immutable" THEN "put" ELSE "request"

(* What each attempt begins with. *)
FirstRequest == IF op = "immutable" THEN "check" ELSE "request"

Init ==
    /\ op \in Call!Ops
    /\ object \in {None, Mine, Other}
    /\ result = "running"
    /\ phase = FirstRequest
    /\ attempt = 1 /\ tries = 1 /\ worth = FALSE /\ failures = 0

Ends(how) ==
    /\ result' = how
    /\ UNCHANGED <<phase, attempt, tries>>

(* Mutants: the attempts are counted from zero; they are not counted. *)
OneMore(n) == n > MAX_ATTEMPTS
SameAttempt == attempt

(* The attempts of retry.call are used up. *)
Exhausted(n) == n >= MAX_ATTEMPTS
NextAttempt == attempt + 1

(* retry.call, around the operation of the call itself: an error ends it    *)
(* unless it is transient and there is an attempt left.                     *)
RetryOrEnd(transient) ==
    \/ /\ transient /\ ~ Exhausted(attempt)
       /\ attempt' = NextAttempt
       /\ phase' = FirstRequest /\ tries' = 1
       /\ UNCHANGED result
    \/ /\ ~ transient \/ Exhausted(attempt)
       /\ Ends("error")

-----------------------------------------------------------------------------
(* The calls of one request: fetch_object and download_bytes, upload_bytes, *)
(* delete_key.                                                              *)
RequestSucceeds ==
    /\ result = "running" /\ phase = "request"
    /\ object' = Call!Effect(object)
    /\ Ends("ok")
    /\ UNCHANGED <<op, worth, failures>>

RequestFails(transient) ==
    /\ result = "running" /\ phase = "request"
    /\ object' \in {object, Call!Effect(object)}
    /\ RetryOrEnd(transient)
    /\ CountFailure
    /\ UNCHANGED <<op, worth>>

(* Mutant: whatever is under the key is what was uploaded. *)
AnyObject(o) == o # None

(* _assert_immutable_match: bytes and content type are those uploaded. *)
Match(o) == o = Mine

(* The GET before the PUT finds nothing, this upload, or something else,    *)
(* which _call reports like any other failure.                             *)
CheckAnswered ==
    /\ result = "running" /\ phase = "check"
    /\ \/ object = None /\ phase' = "put" /\ UNCHANGED <<result, attempt, tries>>
       \/ object # None /\ Match(object) /\ Ends("ok")
       \/ object # None /\ ~ Match(object) /\ Ends("error")
    /\ UNCHANGED <<op, object, worth, failures>>

PutSucceeds ==
    /\ result = "running" /\ phase = "put"
    /\ object' = Mine
    /\ Ends("ok")
    /\ UNCHANGED <<op, worth, failures>>

PutFails(transient) ==
    /\ result = "running" /\ phase = "put"
    /\ object' \in {object, Mine}
    /\ phase' = "observe" /\ tries' = 1 /\ worth' = transient
    /\ CountFailure
    /\ UNCHANGED <<op, result, attempt>>

(* The GET after a failed PUT settles it; if nothing is there the error of  *)
(* the PUT is raised and decides on another attempt.                        *)
ObserveAnswered ==
    /\ result = "running" /\ phase = "observe"
    /\ \/ object = None /\ RetryOrEnd(worth)
       \/ object # None /\ Match(object) /\ Ends("ok")
       \/ object # None /\ ~ Match(object) /\ Ends("error")
    /\ UNCHANGED <<op, object, worth, failures>>

(* Either GET fails: fetch_object tries again on its own count, and what it *)
(* raises in the end goes through the policy of the upload as well.         *)
GetFails(transient) ==
    /\ result = "running" /\ phase \in Gets
    /\ \/ /\ transient /\ ~ Exhausted(tries)
          /\ tries' = tries + 1
          /\ UNCHANGED <<result, phase, attempt>>
       \/ /\ ~ transient \/ Exhausted(tries)
          /\ RetryOrEnd(transient)
    /\ CountFailure
    /\ UNCHANGED <<op, object, worth>>

(* The caller has its answer. *)
Ended == result # "running" /\ UNCHANGED adapterVars

Next ==
    \/ RequestSucceeds \/ CheckAnswered \/ PutSucceeds \/ ObserveAnswered
    \/ \E transient \in BOOLEAN :
          RequestFails(transient) \/ PutFails(transient) \/ GetFails(transient)
    \/ Ended

(* The call runs to its end: every request is answered or times out. *)
Spec == Init /\ [][Next]_adapterVars /\ WF_adapterVars(Next)

-----------------------------------------------------------------------------
(* For its caller a call is one effect and one answer, however many         *)
(* requests it took and whichever of their responses were lost.             *)
ImplementsCall == Call!Spec

(* An immutable upload never replaces an object that is not its own,        *)
(* whichever answers were lost and however often it is retried.             *)
NeverReplaced ==
    [][(op = "immutable" /\ object # None) => object' = object]_adapterVars

(* Every call ends, even if all its requests fail for ever. *)
CallEnds == <>(result # "running")

(* The failed requests of a call are bounded by the attempts: one for each  *)
(* of a plain call; for an immutable upload all but the last try of a GET,  *)
(* a PUT, and every try of another GET, for each.                           *)
FailureBound ==
    failures <= IF op = "immutable"
                THEN MostFailures
                ELSE MAX_ATTEMPTS

(* data-sources.md: remote retrying is bounded per operation by three total *)
(* attempts, so the worst case is three timeouts for that operation.        *)
ThreeTimeouts == failures <= MAX_ATTEMPTS
=============================================================================
