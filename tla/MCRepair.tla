------------------------------ MODULE MCRepair ------------------------------
(* Repair with interchangeable reader tasks, for TLC. *)
EXTENDS Repair, TLC

ReaderSymmetry == Permutations(Readers)
=============================================================================
