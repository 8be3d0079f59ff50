------------------------------- MODULE MCFiber -------------------------------
(* Fiber for TLC: threads and fibers are interchangeable model values. *)
EXTENDS Fiber, TLC

Symmetry == Permutations(Threads) \cup Permutations(Fibers)

=============================================================================
