---------------------------- MODULE MCAvsSystem ----------------------------
(***************************************************************************)
(* TLC's instances of AvsSystem.                                           *)
(***************************************************************************)
EXTENDS AvsSystem, TLC

\* Requests and reviews are interchangeable: no operator orders them.
Symmetry == Permutations(Requests) \cup Permutations(Reviews)
=============================================================================
