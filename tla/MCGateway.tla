----------------------------- MODULE MCGateway -----------------------------
(***************************************************************************)
(* TLC's instances of Gateway.                                             *)
(***************************************************************************)
EXTENDS Gateway, TLC

\* Calls and agents are interchangeable: no operator orders them.
Symmetry == Permutations(Calls) \cup Permutations(Agents)
=============================================================================
