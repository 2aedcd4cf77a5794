---------------------------- MODULE MCTaskJournal ----------------------------
(* Instances of TaskJournal for TLC; the fields of the record are alike. *)
EXTENDS TaskJournal, TLC

FieldSymmetry == Permutations(Fields)
=============================================================================
