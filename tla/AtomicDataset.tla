--------------------------- MODULE AtomicDataset ---------------------------
(***************************************************************************)
(* What the publication protocol promises to a consumer that reads          *)
(* current.json first (docs/notes/output-schema.md, "Publication            *)
(* protocol"): one dataset is live at a time, every payload of it comes     *)
(* from one cycle, it changes in one step, only to the dataset of a later   *)
(* run, and once there is one there is always one.                          *)
(***************************************************************************)
EXTENDS Integers

CONSTANTS
    Names,   \* the payload names
    Ids,     \* cycle IDs
    LastRun, \* runs of the exporter are numbered 0 .. LastRun
    None     \* nothing is live

VARIABLE live

Dataset(id, run) == [n \in Names |-> [id |-> id, run |-> run]]

(* Either nothing is live yet or what an earlier process published. *)
Init == \/ live = None
        \/ \E id \in Ids : live = Dataset(id, 0)

(* A later run replaces the whole dataset. *)
Install(id, run) ==
    /\ live # None => \A n \in Names : live[n].run < run
    /\ live' = Dataset(id, run)

Next == \E id \in Ids, run \in 1 .. LastRun : Install(id, run)

Spec == Init /\ [][Next]_live
=============================================================================
