----------------------------- MODULE Evaluation -----------------------------
(***************************************************************************)
(* What Gateway.intercept evaluates, put together: the policy engine that  *)
(* startup filled, the risk engine and the trust memory of one agent, and  *)
(* the decision made of the three.  Rules are loaded, added and removed    *)
(* while the process is set up (startup_event, the examples and demos);    *)
(* behaviour is recorded and requests are evaluated when it serves.        *)
(***************************************************************************)
EXTENDS PolicyEngine, RiskEngine, TrustMemory, Decision

CONSTANTS
  MaxEdits,   \* bound: rules added and removed by hand
  Served      \* bound: the lengths of the loaded file at which behaviour is recorded

ASSUME BoundAssumption == MaxEdits \in Nat

VARIABLES
  phase,   \* "start", "setup", "serving"
  loaded,  \* how many rules of the file were loaded
  edits,   \* how many rules were added or removed by hand
  added,   \* history: the rules in force, in the order they were added
  seen,    \* history: the kinds of behaviour ever recorded for the agent
  answer   \* the last request that was evaluated, and what came of it

setup == <<phase, loaded, edits, added>>
vars  == <<rules, ruleIndex, observations, current, idle,
           phase, loaded, edits, added, seen, answer>>

-----------------------------------------------------------------------------
(* Requests: one of each type and operation, and what makes it worse.      *)

Plain(type, op) ==
    [type |-> type, op |-> op, tool |-> "plain", secrets |-> 0, exposed |-> FALSE,
     scope |-> "single", permission |-> "user", external |-> {}, mentioned |-> FALSE,
     amount |-> {}]

Worsenings == {"tool", "secrets", "exposed", "scope", "permission", "external", "mentioned"}

SensitiveTool(type) == CASE type = "file" -> "config" [] type = "api" -> "financial"
                         [] OTHER -> "production"

Worsen(q, w) ==
    CASE w = "tool" -> [q EXCEPT !.tool = SensitiveTool(q.type)]
      [] w = "secrets" -> [q EXCEPT !.secrets = 8]
      [] w = "exposed" -> [q EXCEPT !.exposed = TRUE]
      [] w = "scope" -> [q EXCEPT !.scope = "global"]
      [] w = "permission" -> [q EXCEPT !.permission = "system"]
      [] w = "external" -> [q EXCEPT !.external = {TRUE}]
      [] w = "mentioned" -> [q EXCEPT !.mentioned = TRUE]

Base == UNION {{Plain(type, op) : op \in Operations[type]} : type \in DOMAIN Operations}

Requests ==
    LET paid == {[q EXCEPT !.amount = a] : q \in {Plain("payment", "transfer")},
                    a \in {{0}, {50}, {500}, {5000}, {60000}}}
        worst(q) == [q EXCEPT !.tool = SensitiveTool(q.type), !.secrets = 8,
                       !.exposed = TRUE, !.scope = "global",
                       !.permission = "system", !.external = {TRUE}]
    IN  Base \cup paid \cup {worst(q) : q \in Base \cup paid}
        \cup {Worsen(q, w) : q \in Base, w \in {"tool", "external", "mentioned"}}
        \cup {[Plain("email", "send") EXCEPT !.external = {FALSE}],
              [Plain("file", "write") EXCEPT !.tool = "production"]}

NoAnswer == [request |-> {}]

Init ==
    /\ PolicyInit /\ TrustInit
    /\ phase = "start" /\ loaded = 0 /\ edits = 0 /\ added = <<>>
    /\ seen = {} /\ answer = NoAnswer

-----------------------------------------------------------------------------
\* load_policies, one rule of the file.
LoadRule ==
    /\ phase = "start" /\ loaded < Len(DefaultPolicies)
    /\ AddRule(DefaultPolicies[loaded + 1])
    /\ added' = Append(added, DefaultPolicies[loaded + 1])
    /\ loaded' = loaded + 1
    /\ UNCHANGED <<phase, edits, trustVars, seen, answer>>

\* The file ends, or a rule of it is malformed: the exception ends the loading and
\* startup_event swallows it, with the rules so far in force.
LoadEnds ==
    /\ phase = "start" /\ phase' = "setup"
    /\ UNCHANGED <<policyVars, loaded, edits, added, trustVars, seen, answer>>

Edit == phase = "setup" /\ edits < MaxEdits /\ edits' = edits + 1

AddByHand ==
    /\ Edit
    /\ \E rule \in Extra : AddRule(rule) /\ added' = Append(added, rule)
    /\ UNCHANGED <<phase, loaded, trustVars, seen, answer>>

RemoveByHand ==
    /\ Edit
    /\ \E name \in {rule.name : rule \in Extra} :
          /\ RemoveRule(name)
          /\ added' = Without(added, name)
    /\ UNCHANGED <<phase, loaded, trustVars, seen, answer>>

Serve ==
    /\ phase = "setup" /\ phase' = "serving"
    /\ UNCHANGED <<policyVars, loaded, edits, added, trustVars, seen, answer>>

Known == phase = "serving" /\ edits = 0 /\ loaded \in Served /\ answer = NoAnswer

\* record_behavior, by whichever caller.
Behave ==
    /\ Known
    /\ \E kind \in Behaviors : Record(kind) /\ seen' = seen \cup {kind}
    /\ UNCHANGED <<policyVars, setup, answer>>

TimePasses ==
    /\ Known
    /\ Pass
    /\ UNCHANGED <<policyVars, setup, seen, answer>>

\* evaluate, score, get_score, _decide; bound: one evaluation per behaviour.
Evaluate ==
    /\ phase = "serving" /\ answer = NoAnswer
    /\ \E q \in Requests :
          answer' = [request |-> q, policy |-> PolicyDecision(q), risk |-> RiskClass(q),
                     tier |-> TierNow,
                     decision |-> Decide(PolicyDecision(q), RiskClass(q), TierNow)]
    /\ IF observations = <<>> THEN UNCHANGED trustVars ELSE GetScore
    /\ UNCHANGED <<policyVars, setup, seen>>

Next == \/ LoadRule \/ LoadEnds \/ AddByHand \/ RemoveByHand \/ Serve
        \/ Behave \/ TimePasses \/ Evaluate

Spec == Init /\ [][Next]_vars

-----------------------------------------------------------------------------
(* Properties.                                                             *)

\* Every variable holds a value of its type, and the two containers of the policy
\* engine agree.
TypeOK ==
    /\ TrustTypeOK
    /\ IndexMatchesRules
    /\ \A i \in DOMAIN rules : rules[i].decision \in PolicyResults
    /\ phase \in {"start", "setup", "serving"}
    /\ loaded \in 0 .. Len(DefaultPolicies) /\ edits \in 0 .. MaxEdits
    /\ seen \subseteq Behaviors
    /\ answer # NoAnswer =>
          answer.decision \in Decisions /\ answer.risk \in Risks /\ answer.tier \in Tiers

Matching(q) ==
    {i \in DOMAIN added : added[i].enabled /\ Holds(added[i].condition, q)}

\* "The first matching rule wins", in ascending priority, and among rules of one
\* priority the one that was added first: for any order of loading, adding and
\* removing, also under one name twice.
FirstMatchingRuleWins ==
    answer # NoAnswer =>
        answer.policy =
          LET m == Matching(answer.request)
          IN  IF m = {} THEN "require_approval"
              ELSE added[CHOOSE i \in m : \A j \in m :
                           \/ added[i].priority < added[j].priority
                           \/ added[i].priority = added[j].priority /\ i <= j].decision

\* Startup swallows a file that breaks off: with any part of the default rules in
\* force, and whatever the agent's trust, nothing is allowed that the whole file
\* denies or asks about.
PartialLoadFailsClosed ==
    answer # NoAnswer /\ added = SubSeq(DefaultPolicies, 1, loaded) =>
        \A i \in DOMAIN DefaultPolicies :
            /\ Holds(DefaultPolicies[i].condition, answer.request)
            /\ DefaultPolicies[i].decision \in {"deny", "require_approval"}
            => answer.decision # "allow"

\* Of the default rules every one decides some request, but one: "Production INSERT is
\* quarantined" (default_policies.yaml:236-247) is not what happens, as that rule comes
\* after the one that asks about every INSERT.
DefaultRulesDecide ==
    phase = "setup" /\ added = DefaultPolicies =>
        {rules[Winner(q)].name : q \in {q \in Requests : Winner(q) # 0}}
            = Names(DefaultPolicies) \ {"database_insert_production"}

ClassLevel(q) == RiskLevel(RiskClass(q))

\* A request that is worse in one respect, or moves more money, is never classified
\* as less risky, whatever the other respects are.  A payment of 0, or without an
\* amount, is left out: it scores more than a small one.
RiskGrows ==
    answer # NoAnswer =>
        /\ \A w \in Worsenings :
              ClassLevel(Worsen(answer.request, w)) >= ClassLevel(answer.request)
        /\ \A a \in answer.request.amount : \A more \in {50, 500, 5000, 60000} :
              0 < a /\ a < more =>
                  ClassLevel([answer.request EXCEPT !.amount = {more}])
                      >= ClassLevel(answer.request)

\* The module Gateway knows an agent by the kinds of behaviour on record only; the
\* tier it then allows for contains the tier that the scores give, with weights,
\* ages and the limit of observations, whatever was recorded and by whomever.
Positive == {"success", "approval_granted"}

GatewayTiers ==
    IF seen = {} THEN {"standard"}
    ELSE IF seen \subseteq Positive THEN {"trusted"}
    ELSE IF seen \cap Positive = {} THEN {"untrusted"}
    ELSE Tiers

TierIsAbstracted == TierNow \in GatewayTiers
=============================================================================
