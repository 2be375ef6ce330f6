----------------------------- MODULE RiskEngine -----------------------------
(***************************************************************************)
(* RiskEngine (core/risk_engine.py) with its default weights, as operators *)
(* on a request.  A request q is reduced to what the scorers ask of it:    *)
(*   q.type, q.op     the action type and the operation                    *)
(*   q.tool           the word of the tool name that the scorers and the   *)
(*                    policies look for, or "plain"                        *)
(*   q.secrets        how many sensitive words its parameters contain      *)
(*   q.exposed        its query, path or attachments expose data           *)
(*   q.scope, q.permission                                                 *)
(*   q.external, q.amount   optional parameters: a set of at most one value*)
(*   q.mentioned      its context contains the word "external"             *)
(***************************************************************************)
EXTENDS Integers, FiniteSets

Operations == [
    file          |-> {"read", "write", "append", "delete"},
    email         |-> {"send", "read", "delete"},
    api           |-> {"GET", "POST", "PUT", "PATCH", "DELETE"},
    payment       |-> {"transfer", "refund", "query"},
    database      |-> {"SELECT", "INSERT", "UPDATE", "DELETE", "DROP"},
    security_scan |-> {"run_scan", "access_results"}]

Lookup(table, key, default) == IF key \in DOMAIN table THEN table[key] ELSE default
AtMost(bound, n) == IF n > bound THEN bound ELSE n

Sensitivity(q) ==
    LET base == [file |-> IF q.tool = "config" THEN 30 ELSE 15,
                 email |-> IF q.external # {} THEN 40 ELSE 20,
                 api |-> IF q.tool = "financial" THEN 50 ELSE 25,
                 payment |-> 90,
                 database |-> IF q.tool = "production" THEN 60 ELSE 35,
                 security_scan |-> 45]
    IN  AtMost(100, base[q.type] + 10 * q.secrets)

Scope(q) ==
    Lookup([single |-> 5, multiple |-> 30, all |-> 80, global |-> 95], q.scope, 20)

Reversibility(q) ==
    LET scores == [
          file |-> [delete |-> 85, write |-> 40, read |-> 5, append |-> 30],
          email |-> [send |-> 70, read |-> 0, delete |-> 60],
          api |-> [DELETE |-> 80, POST |-> 45, PUT |-> 40, GET |-> 5, PATCH |-> 35],
          payment |-> [transfer |-> 90, refund |-> 50, query |-> 5],
          database |-> [DROP |-> 95, DELETE |-> 75, UPDATE |-> 50, INSERT |-> 40,
                        SELECT |-> 0],
          security_scan |-> [run_scan |-> 20, access_results |-> 10]]
    IN  Lookup(scores[q.type], q.op, 50)

PermissionLevel(q) ==
    Lookup([public |-> 0, user |-> 15, admin |-> 50, superuser |-> 75, system |-> 90],
           q.permission, 30)

ExternalImpact(q) ==
    IF q.external = {TRUE} THEN 70
    ELSE IF q.mentioned THEN 50
    ELSE Lookup([api |-> 40, email |-> 45], q.type, 15)

\* Mutant: the highest bracket is missing, its payments count as small.
FinancialImpactOpen(q) ==
    IF q.type # "payment" THEN 10
    ELSE CASE q.amount \subseteq {0} -> 50
           [] \E a \in q.amount : a \in 100 .. 999 -> 60
           [] \E a \in q.amount : a \in 1000 .. 9999 -> 85
           [] OTHER -> 30

\* An amount of 0, or none, scores more than a small one.
FinancialImpact(q) ==
    IF q.type # "payment" THEN 10
    ELSE CASE q.amount \subseteq {0} -> 50
           [] \E a \in q.amount : a < 100 /\ a # 0 -> 30
           [] \E a \in q.amount : a \in 100 .. 999 -> 60
           [] \E a \in q.amount : a \in 1000 .. 9999 -> 85
           [] OTHER -> 100

DataExposure(q) ==
    CASE q.type = "database" /\ q.exposed -> 50
      [] q.type = "file" /\ q.op = "read" -> IF q.exposed THEN 75 ELSE 30
      [] q.type = "email" -> IF q.exposed THEN 40 ELSE 25
      [] q.type = "security_scan" -> IF q.op = "access_results" THEN 35 ELSE 15
      [] OTHER -> 10

HistoricalBehavior == 50

\* The weights are hundredths.
WeightedSum(q) ==
    15 * Sensitivity(q) + 10 * Scope(q) + 15 * Reversibility(q)
    + 10 * PermissionLevel(q) + 10 * ExternalImpact(q) + 15 * FinancialImpact(q)
    + 10 * DataExposure(q) + 15 * HistoricalBehavior

\* int(round(.)): a half goes to the even neighbour.
Rounded(n) ==
    LET whole == n \div 100
    IN  IF n % 100 > 50 \/ (n % 100 = 50 /\ whole % 2 = 1) THEN whole + 1 ELSE whole

RiskScore(q) == AtMost(100, Rounded(WeightedSum(q)))

Classify(score) == CASE score <= 25 -> "low" [] score \in 26 .. 50 -> "medium"
                     [] score \in 51 .. 75 -> "high" [] OTHER -> "critical"

RiskClass(q) == Classify(RiskScore(q))
=============================================================================
