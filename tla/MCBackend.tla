------------------------------ MODULE MCBackend -----------------------------
(* Symmetry for the safety runs of module Backend. *)
EXTENDS Backend, TLC

Symmetry == Permutations(Requests)
=============================================================================
