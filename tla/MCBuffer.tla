------------------------------ MODULE MCBuffer ------------------------------
(* Buffer on a small instance: two readers that come and go.              *)
EXTENDS Buffer, TLC

ReaderSymmetry == Permutations(Readers)
=============================================================================
