--------------------------- MODULE MCPublication ---------------------------
(* Small instances of Publication for TLC. *)
EXTENDS Publication, TLC

(* The Parquet payloads take part in the protocol in no particular order.   *)
(* Not used with the liveness properties.                                   *)
DataSymmetry == Permutations(Data)
=============================================================================
