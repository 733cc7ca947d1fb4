--------------------------- MODULE MCResponseMap ---------------------------
(* Instances of ResponseMap and its refinement for TLC. *)
EXTENDS ResponseMapRefinement, TLC

Symmetry == Permutations(Call) \cup Permutations(Uuid) \cup Permutations(Task)

=============================================================================
