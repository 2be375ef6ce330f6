----------------------------- MODULE MCApprovals -----------------------------
(***************************************************************************)
(* TLC's instances of Approvals.                                           *)
(***************************************************************************)
EXTENDS Approvals, TLC

\* Approvals and requests are interchangeable: no operator orders them.
Symmetry == Permutations(Approvals) \cup Permutations(Requests)
=============================================================================
