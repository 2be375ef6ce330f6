---------------------------- MODULE PolicyEngine ----------------------------
(***************************************************************************)
(* PolicyEngine (core/policy_engine.py) over the rules of                  *)
(* config/default_policies.yaml.  A rule is added, removed and loaded when *)
(* the process is set up; evaluation only reads.                           *)
(*                                                                         *)
(* A condition is a function from its keys to what they ask: the logical   *)
(* keys "$or", "$and" (sequences of conditions without logical keys) and   *)
(* "$not" (one such condition), and the fields of the request, each with   *)
(* the operators applied to it.  Values are sets of at most one element:   *)
(* the empty set is None.                                                  *)
(***************************************************************************)
EXTENDS Integers, Sequences

CONSTANTS Extra   \* rules that are not in the file

\* PolicyRule: the priority is a number, the decision one of the four.
ASSUME RulesAssumption ==
    \A rule \in Extra :
        /\ rule.priority \in Int
        /\ rule.decision \in {"allow", "deny", "require_approval", "quarantine"}

VARIABLES
  rules,       \* PolicyEngine._rules
  ruleIndex    \* PolicyEngine._rule_index: the rule last added under a name

policyVars == <<rules, ruleIndex>>

-----------------------------------------------------------------------------
(* Conditions.                                                             *)

\* _get_field: the fields the rules ask for.
Field(q, path) ==
    CASE path = "action_type" -> {q.type}
      [] path = "operation" -> {q.op}
      [] path = "tool_name" -> {q.tool}
      [] path = "parameters.external" -> q.external
      [] path = "parameters.amount" -> q.amount

\* _apply_operator.  A comparison with None fails, "ne" and "nin" hold of it.  The
\* patterns of the file are words of the tool name, which q.tool names.
OperatorHolds(op, actual, expected) ==
    CASE op \in {"eq", "regex", "contains"} -> actual = {expected}
      [] op = "ne" -> actual # {expected}
      [] op = "gt" -> \E v \in actual : v > expected
      [] op = "gte" -> \E v \in actual : v >= expected
      [] op = "lt" -> \E v \in actual : v < expected
      [] op = "lte" -> \E v \in actual : v <= expected
      [] op = "in" -> actual # {} /\ actual \subseteq expected
      [] op = "nin" -> actual \cap expected = {}
      [] op = "exists" -> (actual # {}) = expected

\* Mutant: one operator that holds is enough.
FieldsHoldAny(condition, q) ==
    \A path \in DOMAIN condition : \E op \in DOMAIN condition[path] :
        OperatorHolds(op, Field(q, path), condition[path][op])

FieldsHold(condition, q) ==
    \A path \in DOMAIN condition : \A op \in DOMAIN condition[path] :
        OperatorHolds(op, Field(q, path), condition[path][op])

\* _evaluate_condition: a logical key hides the other keys of its dictionary.
Holds(condition, q) ==
    IF "$or" \in DOMAIN condition
      THEN \E i \in DOMAIN condition["$or"] : FieldsHold(condition["$or"][i], q)
    ELSE IF "$and" \in DOMAIN condition
      THEN \A i \in DOMAIN condition["$and"] : FieldsHold(condition["$and"][i], q)
    ELSE IF "$not" \in DOMAIN condition
      THEN ~FieldsHold(condition["$not"], q)
    ELSE FieldsHold(condition, q)

-----------------------------------------------------------------------------
(* The default policies, in the order of the file.                         *)

Is(type, op) ==
    [action_type |-> [eq |-> type], operation |-> [eq |-> op]]
With(condition, path, operators) ==
    [p \in DOMAIN condition \cup {path} |->
        IF p = path THEN operators ELSE condition[p]]
Rule(name, priority, condition, decision) ==
    [name |-> name, priority |-> priority, condition |-> condition,
     decision |-> decision, enabled |-> TRUE]
Transfer(amount) == With(Is("payment", "transfer"), "parameters.amount", amount)
Mail(external) ==
    With(Is("email", "send"), "parameters.external", [eq |-> external])

DefaultPolicies == <<
    Rule("file_read", 10, Is("file", "read"), "allow"),
    Rule("file_write_production", 20,
         With(Is("file", "write"), "tool_name", [regex |-> "production"]), "require_approval"),
    Rule("file_delete", 5, Is("file", "delete"), "deny"),
    Rule("payment_small", 30, Transfer([lte |-> 100]), "allow"),
    Rule("payment_medium", 31, Transfer([gt |-> 100, lte |-> 1000]), "require_approval"),
    Rule("payment_large", 32, Transfer([gt |-> 1000, lte |-> 50000]), "quarantine"),
    Rule("payment_extreme", 33, Transfer([gt |-> 50000]), "deny"),
    Rule("api_get", 40, Is("api", "GET"), "allow"),
    Rule("api_post", 41, Is("api", "POST"), "require_approval"),
    Rule("api_delete", 42, Is("api", "DELETE"), "deny"),
    Rule("database_select", 50, Is("database", "SELECT"), "allow"),
    Rule("database_insert", 51, Is("database", "INSERT"), "require_approval"),
    Rule("database_update", 52, Is("database", "UPDATE"), "require_approval"),
    Rule("database_delete", 53, Is("database", "DELETE"), "deny"),
    Rule("database_drop", 54, Is("database", "DROP"), "deny"),
    Rule("email_send_internal", 60, Mail(FALSE), "allow"),
    Rule("email_send_external", 61, Mail(TRUE), "require_approval"),
    Rule("security_scan_run", 70, Is("security_scan", "run_scan"), "allow"),
    Rule("security_scan_results", 71, Is("security_scan", "access_results"), "allow"),
    Rule("payment_refund", 34, Is("payment", "refund"), "require_approval"),
    Rule("api_put", 43, Is("api", "PUT"), "require_approval"),
    Rule("api_patch", 44, Is("api", "PATCH"), "require_approval"),
    Rule("database_insert_production", 55,
         With(Is("database", "INSERT"), "tool_name", [regex |-> "production"]), "quarantine") >>

-----------------------------------------------------------------------------
(* Rules in force.                                                         *)

Names(list) == {list[i].name : i \in DOMAIN list}

\* The list with a rule put in after its first n.
PutAfter(list, rule, n) ==
    [i \in 1 .. Len(list) + 1 |->
        IF i <= n THEN list[i] ELSE IF i = n + 1 THEN rule ELSE list[i - 1]]

\* Mutant: a new rule goes before those of its priority.
InsertBefore(list, rule) ==
    PutAfter(list, rule,
             CHOOSE n \in 0 .. Len(list) :
                 \A i \in DOMAIN list : i <= n <=> list[i].priority < rule.priority)

\* Append and a stable sort by priority, for a list that is sorted.
InsertSorted(list, rule) ==
    PutAfter(list, rule,
             CHOOSE n \in 0 .. Len(list) :
                 \A i \in DOMAIN list : i <= n <=> list[i].priority <= rule.priority)

\* [r for r in list if r.name != name]
Without(list, name) ==
    LET first[n \in 0 .. Len(list)] ==
          IF n = 0 THEN <<>>
          ELSE IF list[n].name = name THEN first[n - 1]
          ELSE Append(first[n - 1], list[n])
    IN  first[Len(list)]

Index(rule) == [n \in DOMAIN ruleIndex \cup {rule.name} |->
                  IF n = rule.name THEN rule ELSE ruleIndex[n]]

PolicyInit == rules = <<>> /\ ruleIndex = [n \in {} |-> 0]

AddRule(rule) ==
    /\ rules' = InsertSorted(rules, rule)
    /\ ruleIndex' = Index(rule)

\* Mutant: the rule of the index is removed, and no other of its name.
RemoveIndexed(name) ==
    /\ name \in DOMAIN ruleIndex
    /\ rules' = SelectSeq(rules, LAMBDA r : r # ruleIndex[name])
    /\ ruleIndex' = [n \in DOMAIN ruleIndex \ {name} |-> ruleIndex[n]]

RemoveRule(name) ==
    /\ name \in DOMAIN ruleIndex
    /\ rules' = Without(rules, name)
    /\ ruleIndex' = [n \in DOMAIN ruleIndex \ {name} |-> ruleIndex[n]]

\* Mutant: nothing is asked when no rule matches.
DefaultAllow == "allow"

DefaultDecision == "require_approval"

\* evaluate: the first enabled rule whose condition holds, in the order of _rules.
\* The winner is a position, 0 for none.
Winner(q) ==
    LET matching == {i \in DOMAIN rules : rules[i].enabled /\ Holds(rules[i].condition, q)}
    IN  IF matching = {} THEN 0
        ELSE CHOOSE i \in matching : \A j \in matching : i <= j

PolicyDecision(q) ==
    IF Winner(q) = 0 THEN DefaultDecision ELSE rules[Winner(q)].decision

-----------------------------------------------------------------------------
(* What the engine promises.                                               *)

\* The list and the index agree, whatever was added and removed under one name:
\* get_rule answers for exactly the names in the list, with a rule of the list.
IndexMatchesRules ==
    /\ DOMAIN ruleIndex = Names(rules)
    /\ \A n \in DOMAIN ruleIndex : /\ ruleIndex[n].name = n
                                   /\ \E i \in DOMAIN rules : rules[i] = ruleIndex[n]
=============================================================================
