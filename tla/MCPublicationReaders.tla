------------------------ MODULE MCPublicationReaders ------------------------
(* Small instances of PublicationReaders for TLC. *)
EXTENDS PublicationReaders, TLC

(* The consumer, too, treats the Parquet payloads alike. *)
DataSymmetry == Permutations(Data)
=============================================================================
