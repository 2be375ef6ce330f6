---------------------------- MODULE MCAuditChain ----------------------------
(***************************************************************************)
(* TLC's instances of AuditChain.                                          *)
(***************************************************************************)
EXTENDS AuditChain, TLC

\* Receipts, decisions, times and keys are interchangeable: none is ordered.
Symmetry == Permutations(Calls) \cup Permutations(Times) \cup Permutations(Decisions)
=============================================================================
