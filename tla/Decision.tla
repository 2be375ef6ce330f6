------------------------------ MODULE Decision ------------------------------
(***************************************************************************)
(* Gateway._decide (core/gateway_core.py): how a policy result, a risk     *)
(* class and a trust tier become a decision, in the order of the code.     *)
(***************************************************************************)
EXTENDS Naturals

PolicyResults == {"allow", "deny", "require_approval", "quarantine"}
Risks == {"low", "medium", "high", "critical"}
Tiers == {"untrusted", "limited", "standard", "trusted"}
Decisions == {"allow", "require_approval", "quarantine", "deny"}

\* Mutant: an untrusted agent is asked about before high risk is looked at.
DecideTrustFirst(policy, risk, tier) ==
    IF risk = "critical" \/ policy = "deny" THEN "deny"
    ELSE IF policy = "require_approval" THEN "require_approval"
    ELSE IF policy = "allow" THEN "allow"
    ELSE IF tier = "untrusted" \/ risk = "medium" THEN "require_approval"
    ELSE IF risk = "high" THEN "quarantine"
    ELSE "allow"

\* A policy result of "quarantine" has no branch: risk and trust decide it.
Decide(policy, risk, tier) ==
    IF risk = "critical" \/ policy = "deny" THEN "deny"
    ELSE IF policy = "require_approval" THEN "require_approval"
    ELSE IF policy = "allow" THEN "allow"
    ELSE IF risk = "high" THEN "quarantine"
    ELSE IF tier = "untrusted" \/ risk = "medium" THEN "require_approval"
    ELSE "allow"

-----------------------------------------------------------------------------
(* The orders the properties compare decisions by.                         *)

Strictness(decision) ==
    CASE decision = "allow" -> 0
      [] decision = "require_approval" -> 1
      [] decision = "quarantine" -> 2
      [] decision = "deny" -> 3

RiskLevel(risk) == CASE risk = "low" -> 0 [] risk = "medium" -> 1
                     [] risk = "high" -> 2 [] risk = "critical" -> 3

TrustLevel(tier) == CASE tier = "untrusted" -> 0 [] tier = "limited" -> 1
                      [] tier = "standard" -> 2 [] tier = "trusted" -> 3

AsStrict(d, e) == Strictness(d) >= Strictness(e)
=============================================================================
