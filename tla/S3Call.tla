------------------------------- MODULE S3Call -------------------------------
(***************************************************************************)
(* What a caller of the S3 adapter may count on: one call on one key, whose *)
(* effect, if it has one, comes before its answer.  "ok" means the effect   *)
(* took place; "error" leaves open whether it did; an immutable upload never*)
(* replaces an object.                                                      *)
(* Module Publication takes each of its calls to be of this kind.           *)
(***************************************************************************)
CONSTANTS
    None,   \* no object under the key
    Mine,   \* what this call uploads
    Other   \* any other object

VARIABLES
    op,      \* the function called
    object,  \* what the bucket holds under the key
    result   \* "running", or how the call ended

Ops == {"get", "put", "delete", "immutable"}

(* What the call is to leave under a key that holds o. *)
Effect(o) ==
    CASE op = "get"    -> o
      [] op = "put"    -> Mine
      [] op = "delete" -> None
      [] op = "immutable" -> IF o = None THEN Mine ELSE o

Init == op \in Ops /\ object \in {None, Mine, Other} /\ result = "running"

Apply ==
    /\ result = "running"
    /\ object' = Effect(object)
    /\ UNCHANGED <<op, result>>

Achieved ==
    CASE op = "get"    -> TRUE
      [] op = "delete" -> object = None
      [] op \in {"put", "immutable"} -> object = Mine

Return ==
    /\ result = "running"
    /\ \/ result' = "ok" /\ Achieved
       \/ result' = "error"
    /\ UNCHANGED <<op, object>>

(* The last attempt may take effect and be answered in one request. *)
ApplyAndReturn ==
    /\ result = "running"
    /\ object' = Effect(object)
    /\ result' \in {"ok", "error"}
    /\ result' = "ok" => Achieved'
    /\ UNCHANGED op

Next == Apply \/ Return \/ ApplyAndReturn

Spec == Init /\ [][Next]_<<op, object, result>>
=============================================================================
