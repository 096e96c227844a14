------------------------------- MODULE MCTask -------------------------------
(* Bounds for the model checking of Task. *)
EXTENDS Task, TLC

\* Tasks are interchangeable.
Symmetry == Permutations(Tasks)

=============================================================================
