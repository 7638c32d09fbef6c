------------------------------- MODULE MCPool -------------------------------
(* Symmetry for the safety runs of module Pool. *)
EXTENDS Pool, TLC

Symmetry == Permutations(Subjects) \cup Permutations(Fingerprints)
            \cup Permutations(Requests) \cup Permutations(Listeners)
=============================================================================
