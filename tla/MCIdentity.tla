----------------------------- MODULE MCIdentity -----------------------------
(* Uploads for TLC: a person with two cards, and one who looks alike.       *)
EXTENDS Identity, TLC

MCUploads ==
    {[nik |-> 1, photo |-> 1, face |-> "f1"],
     [nik |-> 2, photo |-> 2, face |-> "f1"],
     [nik |-> 2, photo |-> 3, face |-> "f2"]}

Symmetry == Permutations(Talents) \cup Permutations(Jobs)

MCAlike == {{"f1", "f2"}}
=============================================================================
