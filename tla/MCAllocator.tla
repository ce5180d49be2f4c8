---------------------------- MODULE MCAllocator ----------------------------
(* Allocator for TLC: the allocations are interchangeable.                 *)
EXTENDS Allocator, TLC

Symmetry == Permutations(Handles)
=============================================================================
