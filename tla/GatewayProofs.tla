--------------------------- MODULE GatewayProofs ---------------------------
(***************************************************************************)
(* Theorems about Gateway, for any calls and agents, with or without       *)
(* failures and an approval service.                                       *)
(***************************************************************************)
EXTENDS Gateway, FiniteSetTheorems, TLAPS

\* How far a call is tells what is known of it.
PathOK ==
    \A c \in Calls :
        /\ pc[c] # "idle" => call[c] \in Inputs
        /\ pc[c] = "evaluate" => call[c].valid
        /\ pc[c] \in {"idle", "countRejection", "evaluate", "failClosed"} =>
              basis[c] = NoBasis /\ ran[c] = "none"
        /\ pc[c] \in {"count", "enqueue"} => basis[c] \in Bases
        /\ pc[c] \in {"logRejection", "count", "enqueue", "append", "trust"} =>
              decision[c] \in Decisions
        /\ pc[c] = "run" => basis[c] \in Bases /\ decision[c] = "allow"
        /\ pc[c] = "trust" => decision[c] # "require_approval"
        /\ pc[c] = "logRejection" => basis[c] = NoBasis

\* A call that was evaluated was valid, and its decision is that of _decide.
BasisOK ==
    \A c \in Calls : basis[c] \in Bases =>
        /\ call[c].valid
        /\ decision[c] = Decide(basis[c].policy, basis[c].risk, basis[c].tier)

\* A tool ran for an evaluated, allowed call only.
RanOK == \A c \in Calls : ran[c] # "none" => basis[c] \in Bases /\ decision[c] = "allow"

Safe == PathOK /\ BasisOK /\ RanOK

-----------------------------------------------------------------------------
(* What the code's functions return.                                       *)

\* _decide always gives one of the four decisions.
LEMMA DecideType ==
    ASSUME NEW policy \in PolicyResults, NEW risk \in Risks, NEW tier \in Tiers
    PROVE  Decide(policy, risk, tier) \in Decisions
BY DEF Decide, Decisions

\* A trust lookup always gives one of the four tiers.
LEMMA TierType ==
    ASSUME NEW a \in Agents
    PROVE  TiersOf(a) \subseteq Tiers
BY DEF TiersOf, Tiers

\* A caller that has its decision records it, returns, or - only if the decision
\* is ALLOW - runs its tool.
LEMMA AfterDecisionType ==
    ASSUME NEW c \in Calls, call[c] \in Inputs, NEW d
    PROVE  /\ AfterDecision(c, d) \in {"run", "append", "done"}
           /\ AfterDecision(c, d) = "run" => d = "allow"
BY DEF AfterDecision, Inputs, Callers

\* The same for the step that a call is left at.
LEMMA Delivered ==
    ASSUME NEW c \in Calls, call[c] \in Inputs, NEW d, Deliver(c, d)
    PROVE  \E next \in {"run", "append", "done"} :
              pc' = [pc EXCEPT ![c] = next] /\ (next = "run" => d = "allow")
BY AfterDecisionType DEF Deliver, Goto

\* _decide is monotone: with the same policy result, at least as much risk and
\* at most as much trust give a decision at least as strict.
THEOREM DecideMonotone ==
    ASSUME NEW policy \in PolicyResults,
           NEW r1 \in Risks, NEW r2 \in Risks,
           NEW t1 \in Tiers, NEW t2 \in Tiers,
           RiskLevel(r1) >= RiskLevel(r2), TrustLevel(t1) <= TrustLevel(t2)
    PROVE  AsStrict(Decide(policy, r1, t1), Decide(policy, r2, t2))
BY DEF AsStrict, Strictness, Decide, RiskLevel, TrustLevel, PolicyResults, Risks, Tiers

\* The approval service adds an observation and leaves the rest alone.
LEMMA ReviewLeaves ==
    ASSUME NEW c \in Subjects, Reviewer(c)
    PROVE  /\ UNCHANGED <<interceptCount, decisionCounts, rejectionLog, chain, queued, call,
                          pc, basis, decision, ran, receipt, report>>
           /\ c \in queued
           /\ \E kind \in Kinds : Observe("approval", c, kind)
BY DEF Reviewer, Review, counters, locals

-----------------------------------------------------------------------------
(* Types.                                                                  *)

LEMMA ObserveType ==
    ASSUME TypeOK, NEW by \in {"record", "approval"}, NEW c \in Subjects, NEW kind \in Kinds,
           Observe(by, c, kind)
    PROVE  observations' \in [Agents -> SUBSET [by : {"record", "approval"}, call : Subjects,
                                                kind : Kinds]]
<1>1. [by |-> by, call |-> c, kind |-> kind]
         \in [by : {"record", "approval"}, call : Subjects, kind : Kinds]
      OBVIOUS
<1> QED BY <1>1 DEF Observe, TypeOK

LEMMA TypeStep ==
    ASSUME TypeOK, PathOK, [Next]_vars
    PROVE  TypeOK'
<1> USE DEF TypeOK, Goto
<1>1. ASSUME NEW c \in Calls, NEW input \in Inputs, Arrive(c, input)
      PROVE  TypeOK'
      BY <1>1 DEF Arrive, stores, Steps, Subjects
<1>2. ASSUME NEW c \in Calls, Intercept(c) \/ Caller(c)
      PROVE  TypeOK'
  <2>1. CASE CountRejection(c)
        BY <2>1 DEF CountRejection, At, Count, stores, PathOK, Steps, Decisions
  <2>2. CASE LogRejection(c)
    <3>1. rejectionLog' \in Seq(Calls)
          BY <2>2 DEF LogRejection
    <3>2. pc' \in [Calls -> Steps \cup {"idle", "done"}]
          BY <2>2, AfterDecisionType DEF LogRejection, At, Deliver, PathOK, Steps
    <3> QED BY <2>2, <3>1, <3>2 DEF LogRejection, At, stores
  <2>3. CASE Evaluate(c)
        BY <2>3, TierType, DecideType DEF Evaluate, At, counters, stores, PathOK, Steps, Bases, Inputs
  <2>4. CASE EvaluationRaises(c)
        BY <2>4 DEF EvaluationRaises, At, counters, stores, PathOK, Steps
  <2>5. CASE FailClosed(c)
        BY <2>5, AfterDecisionType DEF FailClosed, At, Count, Deliver, stores, PathOK, Steps, Decisions
  <2>6. CASE CountDecision(c)
    <3>1. decisionCounts' \in [Decisions -> Nat]
      <4>1. decision[c] \in Decisions
            BY <2>6 DEF CountDecision, At, PathOK
      <4>2. decisionCounts' = [decisionCounts EXCEPT ![decision[c]] = @ + 1]
            BY <2>6 DEF CountDecision, Count
      <4>3. decisionCounts \in [Decisions -> Nat]
            OBVIOUS
      <4> HIDE DEF TypeOK
      <4> QED BY <4>1, <4>2, <4>3
    <3>2. pc' \in [Calls -> Steps \cup {"idle", "done"}]
      <4>1. AfterDecision(c, decision[c]) \in Steps \cup {"done"}
            BY <2>6, AfterDecisionType DEF CountDecision, At, PathOK, Steps
      <4>2. \E next \in Steps \cup {"done"} : pc' = [pc EXCEPT ![c] = next]
            BY <2>6, <4>1 DEF CountDecision, Deliver, Steps
      <4> QED BY <4>2
    <3> QED BY <2>6, <3>1, <3>2 DEF CountDecision, At, stores
  <2>7. CASE Enqueue(c)
        BY <2>7, AfterDecisionType DEF Enqueue, At, Deliver, counters, PathOK, Steps, Subjects
  <2>8. CASE RunTool(c)
        BY <2>8 DEF RunTool, At, counters, stores, PathOK, Steps, Endings
  <2>9. CASE AppendReceipt(c)
    <3>1. [call |-> c, decision |-> decision[c]] \in [call : Calls, decision : Decisions]
          BY <2>9 DEF AppendReceipt, At, PathOK
    <3>2. chain' \in Seq([call : Calls, decision : Decisions])
          BY <3>1, <2>9 DEF AppendReceipt
    <3>3. pc' \in [Calls -> Steps \cup {"idle", "done"}] /\ receipt' \in [Calls -> BOOLEAN]
          BY <2>9 DEF AppendReceipt, At, Steps
    <3> QED BY <2>9, <3>2, <3>3 DEF AppendReceipt, At, counters
  <2>10. CASE ReceiptFails(c)
        BY <2>10 DEF ReceiptFails, At, counters, stores, PathOK, Steps
  <2>11. CASE RecordBehavior(c)
    <3>1. Behavior(decision[c]) \in Kinds
          BY <2>11 DEF RecordBehavior, At, PathOK, Behavior, Kinds, Decisions
    <3>2. observations' \in [Agents -> SUBSET [by : {"record", "approval"}, call : Subjects,
                                               kind : Kinds]]
          BY <2>11, <3>1, ObserveType DEF RecordBehavior, Subjects
    <3> QED BY <2>11, <3>2 DEF RecordBehavior, At, counters, Steps
  <2> QED BY <1>2, <2>1, <2>2, <2>3, <2>4, <2>5, <2>6, <2>7, <2>8, <2>9, <2>10, <2>11 DEF Intercept, Caller
<1>3. CASE GetStats
  <2>1. Decided \in Nat
        BY DEF Decided, Decisions
  <2>2. report' \in [step : {"counts", "total", "done"}, valid : Nat, total : Nat]
        BY <1>3, <2>1 DEF GetStats, ReadCounts, ReadTotal
  <2> QED BY <1>3, <2>2 DEF GetStats, ReadCounts, ReadTotal, counters, stores, locals
<1>4. CASE UNCHANGED vars
      BY <1>4 DEF vars
<1>5. ASSUME NEW c \in Subjects, Reviewer(c)
      PROVE  TypeOK'
      BY <1>5, ReviewLeaves, ObserveType
<1> QED BY <1>1, <1>2, <1>3, <1>4, <1>5 DEF Next

\* A step keeps what is known of every call.
LEMMA SafeStep ==
    ASSUME TypeOK, Safe, [Next]_vars
    PROVE  Safe'
<1> USE DEF TypeOK, Goto, Safe, PathOK, BasisOK, RanOK
<1>1. ASSUME NEW c \in Calls, NEW input \in Inputs, Arrive(c, input)
      PROVE  Safe'
      BY <1>1 DEF Arrive, NoBasis, Bases, Inputs, PolicyResults, Subjects
<1>2. ASSUME NEW c \in Calls, Intercept(c) \/ Caller(c)
      PROVE  Safe'
  <2>1. CASE CountRejection(c)
        BY <2>1 DEF CountRejection, At, Decisions, NoBasis, Bases, PolicyResults
  <2>2. CASE LogRejection(c)
        BY <2>2, AfterDecisionType DEF LogRejection, At, Deliver, NoBasis, Bases, PolicyResults
  <2>3. CASE Evaluate(c)
    <3>1. call[c] \in Inputs /\ TiersOf(call[c].agent) \subseteq Tiers
          BY <2>3, TierType DEF Evaluate, At, Inputs
    <3>2. PICK policy \in PolicyResults, risk \in Risks, tier \in TiersOf(call[c].agent) :
            /\ basis' = [basis EXCEPT ![c] = [policy |-> policy, risk |-> risk, tier |-> tier]]
            /\ decision' = [decision EXCEPT ![c] = Decide(policy, risk, tier)]
          BY <2>3 DEF Evaluate
    <3>3. tier \in Tiers /\ Decide(policy, risk, tier) \in Decisions
          BY <3>1, DecideType
    <3>4. /\ pc[c] = "evaluate" /\ pc' = [pc EXCEPT ![c] = "count"]
          /\ UNCHANGED <<call, ran>>
          BY <2>3 DEF Evaluate, At
    <3> QED BY <3>2, <3>3, <3>4 DEF Bases
  <2>4. CASE EvaluationRaises(c)
        BY <2>4 DEF EvaluationRaises, At
  <2>5. CASE FailClosed(c)
        BY <2>5, AfterDecisionType DEF FailClosed, At, Deliver, Decisions, NoBasis, Bases, PolicyResults
  <2>6. CASE CountDecision(c)
    <3>1. /\ pc[c] = "count" /\ call[c] \in Inputs
          /\ UNCHANGED <<call, basis, decision, ran>>
          BY <2>6 DEF CountDecision, At
    <3>2. \E next \in {"enqueue", "run", "append", "done"} :
            pc' = [pc EXCEPT ![c] = next] /\ (next = "run" => decision[c] = "allow")
          BY <2>6, <3>1, Delivered DEF CountDecision
    <3> QED BY <3>1, <3>2
  <2>7. CASE Enqueue(c)
        BY <2>7, AfterDecisionType DEF Enqueue, At, Deliver
  <2>8. CASE RunTool(c)
        BY <2>8 DEF RunTool, At
  <2>9. CASE AppendReceipt(c)
        BY <2>9 DEF AppendReceipt, At
  <2>10. CASE ReceiptFails(c)
        BY <2>10 DEF ReceiptFails, At
  <2>11. CASE RecordBehavior(c)
        BY <2>11 DEF RecordBehavior, At
  <2> QED BY <1>2, <2>1, <2>2, <2>3, <2>4, <2>5, <2>6, <2>7, <2>8, <2>9, <2>10, <2>11 DEF Intercept, Caller
<1>3. CASE GetStats
      BY <1>3 DEF GetStats, ReadCounts, ReadTotal, locals
<1>4. CASE UNCHANGED vars \/ \E c \in Subjects : Reviewer(c)
      BY <1>4, ReviewLeaves DEF vars
<1> QED BY <1>1, <1>2, <1>3, <1>4 DEF Next

\* The model is type correct, and what is known of a call follows its path.
THEOREM SafetyInvariant == Spec => [](TypeOK /\ Safe)
<1>1. Init => TypeOK /\ Safe
  <2> SUFFICES ASSUME Init PROVE TypeOK /\ Safe
      OBVIOUS
  <2>1. call \in [Subjects -> Inputs \cup {NoInput} \cup [agent : Agents]]
        BY DEF Init
  <2>2. TypeOK
        BY <2>1 DEF Init, TypeOK, Subjects, Decisions, Steps
  <2>3. \A c \in Calls : pc[c] = "idle" /\ basis[c] = NoBasis /\ ran[c] = "none"
        BY DEF Init
  <2>4. NoBasis \notin Bases
        BY DEF NoBasis, Bases, PolicyResults
  <2> QED BY <2>2, <2>3, <2>4 DEF Safe, PathOK, BasisOK, RanOK
<1>2. TypeOK /\ Safe /\ [Next]_vars => (TypeOK /\ Safe)'
      BY TypeStep, SafeStep DEF Safe
<1> QED BY <1>1, <1>2, PTL DEF Spec

\* Types, for every number of calls and agents.
THEOREM TypeCorrect == Spec => []TypeOK
BY SafetyInvariant, PTL

\* Fail-closed: a tool runs only for a valid, evaluated and allowed request, never
\* under a denying or asking policy, never at critical risk.
THEOREM RunsOnlyIfAllowedAlways == Spec => []RunsOnlyIfAllowed
<1>1. TypeOK /\ Safe => RunsOnlyIfAllowed
      BY DEF Safe, BasisOK, RanOK, RunsOnlyIfAllowed, Decide, Bases, PolicyResults
<1> QED BY <1>1, SafetyInvariant, PTL

\* Between any two calls that met the same policy result, more risk or less trust
\* never gives the milder decision.
THEOREM NoRewardForRiskAlways == Spec => []NoRewardForRisk
<1>1. TypeOK /\ Safe => NoRewardForRisk
      BY DecideMonotone DEF Safe, BasisOK, NoRewardForRisk, Bases
<1> QED BY <1>1, SafetyInvariant, PTL

-----------------------------------------------------------------------------
(* Counting.                                                               *)

\* The two counters differ by the calls between the two counts, and a report in
\* the making has read no more decisions than were counted in.
CountingOK ==
    /\ IsFiniteSet(Undecided)
    /\ CountsAddUp
    /\ report.step = "total" => report.valid <= interceptCount
    /\ ReportAddsUp

\* Decisions counted are as many as calls decided, and a report keeps its bound.
LEMMA CountingStep ==
    ASSUME TypeOK, Safe, CountingOK, [Next]_vars
    PROVE  CountingOK'
<1>1. ASSUME NEW c \in Calls, NEW input \in Inputs, Arrive(c, input)
      PROVE  CountingOK'
  <2>1. Undecided' = Undecided \cup {c} /\ c \notin Undecided
        BY <1>1 DEF Arrive, Goto, Undecided, TypeOK
  <2>2. IsFiniteSet(Undecided') /\ Cardinality(Undecided') = Cardinality(Undecided) + 1
        BY <2>1, FS_AddElement DEF CountingOK
  <2> QED BY <1>1, <2>2, FS_CardinalityType
          DEF Arrive, CountingOK, CountsAddUp, ReportAddsUp, Decided, TypeOK, Decisions
<1>2. ASSUME NEW c \in Calls, CountRejection(c) \/ FailClosed(c) \/ CountDecision(c)
      PROVE  CountingOK'
  <2> DEFINE counted == {"logRejection", "enqueue", "run", "append", "done"}
  <2>1. Undecided' = Undecided \ {c} /\ c \in Undecided
    <3>1. \E next \in counted : pc' = [pc EXCEPT ![c] = next]
          BY <1>2, AfterDecisionType
             DEF CountRejection, FailClosed, CountDecision, At, Goto, Deliver, Safe, PathOK
    <3>2. pc[c] \in {"countRejection", "failClosed", "count"}
          BY <1>2 DEF CountRejection, FailClosed, CountDecision, At
    <3> QED BY <3>1, <3>2 DEF Undecided, TypeOK
  <2>2. /\ IsFiniteSet(Undecided')
        /\ Cardinality(Undecided') = Cardinality(Undecided) - 1
        /\ Cardinality(Undecided) \in Nat /\ Cardinality(Undecided') \in Nat
        BY <2>1, FS_RemoveElement, FS_CardinalityType DEF CountingOK
  <2>3. \E d \in Decisions : Count(d)
        BY <1>2 DEF CountRejection, FailClosed, CountDecision, At, Safe, PathOK, Decisions
  <2>4. Decided' = Decided + 1
        BY <2>3 DEF Count, Decided, Decisions, TypeOK
  <2>5. interceptCount' = interceptCount /\ report' = report
        BY <1>2 DEF CountRejection, FailClosed, CountDecision, At
  <2>6. Decided \in Nat
        BY DEF Decided, Decisions, TypeOK
  <2> QED BY <2>2, <2>4, <2>5, <2>6 DEF CountingOK, CountsAddUp, ReportAddsUp, TypeOK
<1>3. ASSUME NEW c \in Calls, Intercept(c) \/ Caller(c),
             ~(CountRejection(c) \/ FailClosed(c) \/ CountDecision(c))
      PROVE  CountingOK'
  <2> DEFINE waiting == {"countRejection", "evaluate", "failClosed", "count"}
  <2>1. \E next \in Steps \cup {"done"} :
          /\ pc' = [pc EXCEPT ![c] = next]
          /\ pc[c] \in waiting <=> next \in waiting
    <3>1. CASE LogRejection(c) \/ Enqueue(c)
          BY <3>1, AfterDecisionType
             DEF LogRejection, Enqueue, At, Goto, Deliver, Steps, Safe, PathOK
    <3>2. CASE Evaluate(c) \/ EvaluationRaises(c)
          BY <3>2 DEF Evaluate, EvaluationRaises, At, Goto, Steps
    <3>3. CASE Caller(c)
          BY <3>3 DEF Caller, RunTool, AppendReceipt, ReceiptFails, RecordBehavior, At,
                      Goto, Steps
    <3> QED BY <1>3, <3>1, <3>2, <3>3 DEF Intercept
  <2>2. Undecided' = Undecided
        BY <2>1 DEF Undecided, TypeOK
  <2>3. UNCHANGED <<interceptCount, decisionCounts, report>>
        BY <1>3 DEF Intercept, Caller, LogRejection, Evaluate, EvaluationRaises, Enqueue,
               RunTool, AppendReceipt, ReceiptFails, RecordBehavior, At, counters
  <2> QED BY <2>2, <2>3 DEF CountingOK, CountsAddUp, ReportAddsUp, Decided
<1>4. CASE GetStats
  <2>1. UNCHANGED <<interceptCount, decisionCounts, pc>>
        BY <1>4 DEF GetStats, ReadCounts, ReadTotal, counters
  <2>2. Undecided' = Undecided /\ Decided' = Decided
        BY <2>1 DEF Undecided, Decided
  <2>3. Decided <= interceptCount
    <3>1. Decided \in Nat
          BY DEF Decided, Decisions, TypeOK
    <3>2. Cardinality(Undecided) \in Nat
          BY FS_CardinalityType DEF CountingOK
    <3> QED BY <3>1, <3>2 DEF CountingOK, CountsAddUp, TypeOK
  <2> QED BY <1>4, <2>1, <2>2, <2>3
          DEF GetStats, ReadCounts, ReadTotal, CountingOK, CountsAddUp, ReportAddsUp, TypeOK
<1>5. CASE UNCHANGED vars \/ \E c \in Subjects : Reviewer(c)
  <2>1. UNCHANGED <<interceptCount, decisionCounts, pc, report>>
        BY <1>5, ReviewLeaves DEF vars
  <2> QED BY <2>1 DEF CountingOK, CountsAddUp, ReportAddsUp, Decided, Undecided
<1> QED BY <1>1, <1>2, <1>3, <1>4, <1>5 DEF Next

\* Every call is counted in once and its decision once, on every path, and no
\* report of get_stats claims more decisions than interceptions.
THEOREM CountingInvariant == Spec => []CountingOK
<1>1. Init => CountingOK
  <2>1. SUFFICES ASSUME Init PROVE CountingOK
        OBVIOUS
  <2>2. Undecided = {}
        BY <2>1 DEF Init, Undecided
  <2> QED BY <2>1, <2>2, FS_EmptySet
          DEF Init, CountingOK, CountsAddUp, ReportAddsUp, Decided, Decisions
<1>2. TypeOK /\ Safe /\ CountingOK /\ [Next]_vars => CountingOK'
      BY CountingStep
<1> QED BY <1>1, <1>2, SafetyInvariant, PTL DEF Spec

\* Every call is counted in once and its decision once, on every path.
THEOREM CountsAddUpAlways == Spec => []CountsAddUp
BY CountingInvariant, PTL DEF CountingOK

\* No report of get_stats claims more decisions than interceptions.
THEOREM ReportAddsUpAlways == Spec => []ReportAddsUp
BY CountingInvariant, PTL DEF CountingOK

-----------------------------------------------------------------------------
(* The rejection log.                                                      *)

Logging == {c \in Calls : pc[c] = "logRejection"}

\* The calls that have been refused, counted and logged.
Logged(c) == pc[c] \notin {"idle", "countRejection", "logRejection"} /\ ~call[c].valid

\* A call is logged once, when it leaves the refusing path, and that path is for
\* invalid calls only; the calls about to log are counted already.
LogOK ==
    /\ \A c \in Calls :
          /\ IF Logged(c) THEN \E i \in DOMAIN rejectionLog : Rejections(c) = {i}
                          ELSE Rejections(c) = {}
          /\ pc[c] \in {"countRejection", "logRejection"} => ~call[c].valid
          /\ pc[c] \in {"evaluate", "failClosed", "count", "enqueue", "run"} => call[c].valid
    /\ IsFiniteSet(Logging)
    /\ Len(rejectionLog) + Cardinality(Logging) <= decisionCounts["deny"]

\* What one more entry does to the entries of each call.
LEMMA LogGrows ==
    ASSUME NEW c \in Calls, NEW d \in Calls, rejectionLog \in Seq(Calls),
           rejectionLog' = Append(rejectionLog, c)
    PROVE  /\ d # c => Rejections(d)' = Rejections(d)
           /\ Rejections(c)' = Rejections(c) \cup {Len(rejectionLog) + 1}
           /\ DOMAIN rejectionLog' = DOMAIN rejectionLog \cup {Len(rejectionLog) + 1}
BY DEF Rejections

\* A step logs each refused call once and no other.
LEMMA LogStep ==
    ASSUME TypeOK, Safe, LogOK, [Next]_vars
    PROVE  LogOK'
<1>1. ASSUME NEW c \in Calls, NEW input \in Inputs, Arrive(c, input)
      PROVE  LogOK'
  <2>1. Logging' = Logging
        BY <1>1 DEF Arrive, Goto, Logging, TypeOK
  <2>2. \A d \in Calls : Rejections(d)' = Rejections(d)
        BY <1>1 DEF Arrive, Rejections
  <2>3. \A d \in Calls : Logged(d)' <=> Logged(d)
        BY <1>1 DEF Arrive, Goto, Logged, TypeOK, Inputs, Subjects
  <2> QED BY <1>1, <2>1, <2>2, <2>3 DEF Arrive, Goto, LogOK, TypeOK, Inputs, Subjects
<1>2. ASSUME NEW c \in Calls, CountRejection(c)
      PROVE  LogOK'
  <2>1. Logging' = Logging \cup {c} /\ c \notin Logging
        BY <1>2 DEF CountRejection, At, Goto, Logging, TypeOK
  <2>2. /\ IsFiniteSet(Logging') /\ Cardinality(Logging') = Cardinality(Logging) + 1
        /\ Cardinality(Logging) \in Nat
        BY <2>1, FS_AddElement, FS_CardinalityType DEF LogOK
  <2>3. decisionCounts'["deny"] = decisionCounts["deny"] + 1 /\ decisionCounts["deny"] \in Nat
        BY <1>2 DEF CountRejection, Count, TypeOK, Decisions
  <2>4. /\ \A d \in Calls : Rejections(d)' = Rejections(d)
        /\ \A d \in Calls : Logged(d)' <=> Logged(d)
        /\ rejectionLog' = rejectionLog /\ Len(rejectionLog) \in Nat
        BY <1>2 DEF CountRejection, At, Goto, Logged, Rejections, TypeOK
  <2>5. /\ pc[c] = "countRejection" /\ pc' = [pc EXCEPT ![c] = "logRejection"] /\ call' = call
        /\ pc \in [Calls -> Steps \cup {"idle", "done"}]
        BY <1>2 DEF CountRejection, At, Goto, TypeOK
  <2> QED BY <2>2, <2>3, <2>4, <2>5 DEF LogOK
<1>3. ASSUME NEW c \in Calls, LogRejection(c)
      PROVE  LogOK'
  <2>1. \E next \in {"run", "append", "done"} : pc' = [pc EXCEPT ![c] = next] /\ next # "run"
        BY <1>3, AfterDecisionType DEF LogRejection, At, Deliver, Goto, Safe, PathOK
  <2>2. Logging' = Logging \ {c} /\ c \in Logging
        BY <1>3, <2>1 DEF LogRejection, At, Logging, TypeOK
  <2>3. /\ IsFiniteSet(Logging') /\ Cardinality(Logging') = Cardinality(Logging) - 1
        /\ Cardinality(Logging) \in Nat /\ Cardinality(Logging') \in Nat
        BY <2>2, FS_RemoveElement, FS_CardinalityType DEF LogOK
  <2>4. Len(rejectionLog') = Len(rejectionLog) + 1 /\ Len(rejectionLog) \in Nat
        BY <1>3 DEF LogRejection, TypeOK
  <2>5. ASSUME NEW d \in Calls
        PROVE  IF Logged(d)' THEN \E i \in DOMAIN rejectionLog' : Rejections(d)' = {i}
                             ELSE Rejections(d)' = {}
    <3>1. CASE d = c
      <4>1. Rejections(c) = {} /\ ~call[c].valid
            BY <1>3 DEF LogRejection, At, LogOK, Logged
      <4>2. Rejections(c)' = {Len(rejectionLog) + 1}
            BY <1>3, <4>1, LogGrows DEF LogRejection, TypeOK
      <4>3. Len(rejectionLog) + 1 \in DOMAIN rejectionLog'
            BY <1>3, LogGrows DEF LogRejection, TypeOK
      <4>4. Logged(c)'
            BY <1>3, <2>1, <4>1 DEF LogRejection, At, Logged, TypeOK
      <4> QED BY <3>1, <4>2, <4>3, <4>4
    <3>2. CASE d # c
      <4>1. Rejections(d)' = Rejections(d) /\ DOMAIN rejectionLog \subseteq DOMAIN rejectionLog'
            BY <1>3, <3>2, LogGrows DEF LogRejection, TypeOK
      <4>2. Logged(d)' <=> Logged(d)
            BY <1>3, <2>1, <3>2 DEF LogRejection, At, Logged, TypeOK
      <4> QED BY <4>1, <4>2 DEF LogOK
    <3> QED BY <3>1, <3>2
  <2>6. UNCHANGED <<decisionCounts, call>>
        BY <1>3 DEF LogRejection, At
  <2>7. decisionCounts["deny"] \in Nat
        BY DEF TypeOK, Decisions
  <2>8. Len(rejectionLog') + Cardinality(Logging') <= decisionCounts'["deny"]
        BY <2>3, <2>4, <2>6, <2>7 DEF LogOK
  <2> QED BY <2>1, <2>3, <2>5, <2>6, <2>8 DEF LogOK, TypeOK
<1>4. ASSUME NEW c \in Calls, Intercept(c) \/ Caller(c), ~(CountRejection(c) \/ LogRejection(c))
      PROVE  LogOK'
  <2> DEFINE refusing == {"idle", "countRejection", "logRejection"}
             judging == {"evaluate", "failClosed", "count", "enqueue", "run"}
  <2>1. \E next \in Steps \cup {"done"} :
          /\ pc' = [pc EXCEPT ![c] = next]
          /\ pc[c] \notin refusing /\ next \notin refusing
          /\ next \in judging => pc[c] \in judging
    <3>1. CASE Evaluate(c) \/ EvaluationRaises(c)
          BY <3>1 DEF Evaluate, EvaluationRaises, At, Goto, Steps
    <3>2. CASE FailClosed(c) \/ CountDecision(c) \/ Enqueue(c)
          BY <3>2, AfterDecisionType
             DEF FailClosed, CountDecision, Enqueue, At, Goto, Deliver, Steps, Safe, PathOK
    <3>3. CASE Caller(c)
          BY <3>3 DEF Caller, RunTool, AppendReceipt, ReceiptFails, RecordBehavior, At,
                      Goto, Steps
    <3> QED BY <1>4, <3>1, <3>2, <3>3 DEF Intercept
  <2>2. /\ UNCHANGED <<rejectionLog, call>>
        /\ decisionCounts' = decisionCounts \/ \E d \in Decisions : Count(d)
    <3>1. CASE FailClosed(c) \/ CountDecision(c)
          BY <3>1 DEF FailClosed, CountDecision, At, Safe, PathOK, Decisions
    <3>2. CASE ~(FailClosed(c) \/ CountDecision(c))
          BY <1>4, <3>2 DEF Intercept, Caller, Evaluate, EvaluationRaises, Enqueue, RunTool,
                            AppendReceipt, ReceiptFails, RecordBehavior, At, counters
    <3> QED BY <3>1, <3>2
  <2>3. decisionCounts["deny"] <= decisionCounts'["deny"] /\ decisionCounts'["deny"] \in Nat
        /\ decisionCounts["deny"] \in Nat
    <3>1. decisionCounts \in [Decisions -> Nat] /\ "deny" \in Decisions
          BY DEF TypeOK, Decisions
    <3>2. ASSUME NEW d \in Decisions, Count(d)
          PROVE  decisionCounts'["deny"] \in {decisionCounts["deny"], decisionCounts["deny"] + 1}
          BY <3>1, <3>2 DEF Count
    <3> QED BY <2>2, <3>1, <3>2
  <2>4. Logging' = Logging /\ \A d \in Calls : Logged(d)' <=> Logged(d)
        BY <2>1, <2>2 DEF Logging, Logged, TypeOK
  <2>5. /\ \A d \in Calls : Rejections(d)' = Rejections(d)
        /\ Len(rejectionLog) \in Nat
        BY <2>2 DEF Rejections, TypeOK
  <2>6. Cardinality(Logging) \in Nat
        BY FS_CardinalityType DEF LogOK
  <2>7. Len(rejectionLog') + Cardinality(Logging') <= decisionCounts'["deny"]
        BY <2>2, <2>3, <2>4, <2>5, <2>6 DEF LogOK
  <2> QED BY <2>1, <2>2, <2>4, <2>5, <2>7 DEF LogOK, TypeOK
<1>5. CASE GetStats \/ UNCHANGED vars \/ \E c \in Subjects : Reviewer(c)
  <2>1. UNCHANGED <<rejectionLog, decisionCounts, call, pc>>
        BY <1>5, ReviewLeaves DEF GetStats, ReadCounts, ReadTotal, counters, locals, vars
  <2>2. Logging' = Logging /\ \A d \in Calls : Logged(d)' <=> Logged(d)
        BY <2>1 DEF Logging, Logged
  <2>3. \A d \in Calls : Rejections(d)' = Rejections(d)
        BY <2>1 DEF Rejections
  <2> QED BY <2>1, <2>2, <2>3 DEF LogOK
<1> QED BY <1>1, <1>2, <1>3, <1>4, <1>5 DEF Next, Intercept

\* Monitoring sees each refused request once, and no valid one.
THEOREM RejectionsLoggedAlways == Spec => []RejectionsLogged
<1>1. Init => LogOK
  <2>1. SUFFICES ASSUME Init PROVE LogOK
        OBVIOUS
  <2>2. Logging = {} /\ \A c \in Calls : Rejections(c) = {}
        BY <2>1 DEF Init, Logging, Rejections
  <2> QED BY <2>1, <2>2, FS_EmptySet DEF Init, LogOK, Logged, Decisions
<1>2. TypeOK /\ Safe /\ LogOK /\ [Next]_vars => LogOK'
      BY LogStep
<1>3. TypeOK /\ LogOK => RejectionsLogged
  <2>1. SUFFICES ASSUME TypeOK, LogOK PROVE RejectionsLogged
        OBVIOUS
  <2>2. Cardinality(Logging) \in Nat /\ Len(rejectionLog) \in Nat
        /\ decisionCounts["deny"] \in Nat
        BY <2>1, FS_CardinalityType DEF LogOK, TypeOK, Decisions
  <2> QED BY <2>1, <2>2 DEF LogOK, Logged, RejectionsLogged
<1> QED BY <1>1, <1>2, <1>3, SafetyInvariant, PTL DEF Spec

-----------------------------------------------------------------------------
(* Chain, trust and queue.                                                 *)

\* The calls whose decision is in the chain: they move trust next, or have moved it,
\* or need not, and then hold their receipt.
InChain(c) == pc[c] = "trust" \/ (pc[c] = "done" /\ receipt[c])

\* An entry per such call and no other, telling its decision.
ChainOK ==
    \A c \in Calls :
        /\ IF InChain(c)
             THEN \E i \in DOMAIN chain : Entries(c) = {i} /\ chain[i].decision = decision[c]
             ELSE Entries(c) = {}
        /\ receipt[c] => pc[c] = "done"

\* A queued call was told so and has nothing left but to record it.
QueueOK ==
    \A c \in Calls :
        /\ pc[c] = "enqueue" => decision[c] = "require_approval"
        /\ c \in queued => decision[c] = "require_approval" /\ pc[c] \in {"append", "done"}

EvidenceOK == ChainOK /\ TrustHasEvidence /\ QueueOK

\* What one more receipt does to the entries of each call.
LEMMA ChainGrows ==
    ASSUME TypeOK, NEW c \in Calls, NEW d \in Calls, NEW r,
           chain' = Append(chain, [call |-> c, decision |-> r])
    PROVE  /\ d # c => Entries(d)' = Entries(d)
           /\ Entries(c)' = Entries(c) \cup {Len(chain) + 1}
           /\ DOMAIN chain' = DOMAIN chain \cup {Len(chain) + 1}
           /\ \A i \in DOMAIN chain : chain'[i] = chain[i]
           /\ chain'[Len(chain) + 1] = [call |-> c, decision |-> r]
BY DEF Entries, TypeOK

\* A step keeps the entries and the calls they speak of together.
LEMMA ChainStep ==
    ASSUME TypeOK, Safe, ChainOK, [Next]_vars
    PROVE  ChainOK'
<1>1. ASSUME NEW c \in Calls, AppendReceipt(c)
      PROVE  ChainOK'
  <2>1. /\ chain' = Append(chain, [call |-> c, decision |-> decision[c]])
        /\ decision' = decision /\ pc[c] = "append"
        /\ \/ receipt' = [receipt EXCEPT ![c] = TRUE] /\ pc' = [pc EXCEPT ![c] = "done"]
           \/ receipt' = receipt /\ pc' = [pc EXCEPT ![c] = "trust"]
        BY <1>1 DEF AppendReceipt, At, Goto
  <2>2. ASSUME NEW d \in Calls, d # c
        PROVE  /\ InChain(d)' <=> InChain(d)
               /\ Entries(d)' = Entries(d)
               /\ receipt'[d] = receipt[d] /\ pc'[d] = pc[d]
    <3>1. receipt'[d] = receipt[d] /\ pc'[d] = pc[d]
          BY <2>1, <2>2 DEF TypeOK
    <3> QED BY <2>1, <2>2, <3>1, ChainGrows DEF InChain
  <2>3. ~InChain(c) /\ ~receipt[c] /\ Entries(c) = {}
        BY <2>1 DEF InChain, ChainOK
  <2>4. Entries(c)' = {Len(chain) + 1} /\ InChain(c)' /\ (receipt'[c] => pc'[c] = "done")
    <3>1. Entries(c)' = {Len(chain) + 1}
          BY <2>1, <2>3, ChainGrows
    <3> QED BY <2>1, <2>3, <3>1 DEF InChain, TypeOK
  <2>5. /\ DOMAIN chain' = DOMAIN chain \cup {Len(chain) + 1}
        /\ \A i \in DOMAIN chain : chain'[i] = chain[i]
        /\ chain'[Len(chain) + 1].decision = decision[c]
        BY <2>1, ChainGrows
  <2>6. ASSUME NEW d \in Calls
        PROVE  IF InChain(d)'
                 THEN \E i \in DOMAIN chain' : /\ Entries(d)' = {i}
                                               /\ chain'[i].decision = decision'[d]
                 ELSE Entries(d)' = {}
    <3>1. CASE d = c
          BY <2>1, <2>4, <2>5, <3>1
    <3>2. CASE d # c /\ InChain(d)
          BY <2>1, <2>2, <2>5, <3>2 DEF ChainOK
    <3>3. CASE d # c /\ ~InChain(d)
          BY <2>2, <3>3 DEF ChainOK
    <3> QED BY <3>1, <3>2, <3>3
  <2>7. \A d \in Calls : receipt'[d] => pc'[d] = "done"
        BY <2>2, <2>4 DEF ChainOK
  <2> QED BY <2>6, <2>7 DEF ChainOK
<1>2. ASSUME NEW c \in Calls, RecordBehavior(c)
      PROVE  ChainOK'
  <2>1. /\ UNCHANGED <<chain, decision>> /\ pc[c] = "trust"
        /\ receipt' = [receipt EXCEPT ![c] = TRUE] /\ pc' = [pc EXCEPT ![c] = "done"]
        BY <1>2 DEF RecordBehavior, At, Goto
  <2>2. \A d \in Calls : InChain(d)' <=> InChain(d)
        BY <2>1 DEF InChain, TypeOK
  <2>3. \A d \in Calls : Entries(d)' = Entries(d)
        BY <2>1 DEF Entries
  <2> QED BY <2>1, <2>2, <2>3 DEF ChainOK, TypeOK
<1>3. ASSUME NEW c \in Calls,
             \/ \E input \in Inputs : Arrive(c, input)
             \/ Intercept(c) \/ RunTool(c) \/ ReceiptFails(c)
      PROVE  ChainOK'
  <2>1. /\ UNCHANGED <<chain, receipt>>
        /\ pc[c] \notin {"trust", "done"}
        /\ \E next \in Steps \cup {"done"} : pc' = [pc EXCEPT ![c] = next] /\ next # "trust"
        /\ \E d \in Decisions \cup {"none"} :
              decision' = decision \/ decision' = [decision EXCEPT ![c] = d]
    <3>1. CASE \E input \in Inputs : Arrive(c, input)
          BY <3>1 DEF Arrive, Goto, stores, Steps
    <3>2. CASE CountRejection(c) \/ FailClosed(c)
          BY <3>2, AfterDecisionType
             DEF CountRejection, FailClosed, At, Goto, Deliver, stores, Steps, Safe, PathOK,
                 Decisions
    <3>3. CASE LogRejection(c) \/ CountDecision(c) \/ Enqueue(c)
          BY <3>3, AfterDecisionType
             DEF LogRejection, CountDecision, Enqueue, At, Goto, Deliver, stores, Steps, Safe,
                 PathOK
    <3>4. CASE Evaluate(c) \/ EvaluationRaises(c)
          BY <3>4, TierType, DecideType
             DEF Evaluate, EvaluationRaises, At, Goto, stores, Steps, TypeOK, Inputs, Safe, PathOK
    <3>5. CASE RunTool(c) \/ ReceiptFails(c)
          BY <3>5 DEF RunTool, ReceiptFails, At, Goto, stores, Steps
    <3> QED BY <1>3, <3>1, <3>2, <3>3, <3>4, <3>5 DEF Intercept
  <2>2. ~receipt[c] /\ ~InChain(c)
        BY <2>1 DEF ChainOK, InChain
  <2>3. \A d \in Calls : InChain(d)' <=> InChain(d)
        BY <2>1, <2>2 DEF InChain, TypeOK
  <2>4. \A d \in Calls : Entries(d)' = Entries(d)
        BY <2>1 DEF Entries
  <2>5. \A d \in Calls : d # c => decision'[d] = decision[d] /\ pc'[d] = pc[d]
        BY <2>1 DEF TypeOK
  <2> QED BY <2>1, <2>2, <2>3, <2>4, <2>5 DEF ChainOK
<1>4. CASE GetStats \/ UNCHANGED vars \/ \E c \in Subjects : Reviewer(c)
  <2>1. UNCHANGED <<chain, receipt, decision, pc>>
        BY <1>4, ReviewLeaves DEF GetStats, ReadCounts, ReadTotal, stores, locals, vars
  <2> QED BY <2>1 DEF ChainOK, InChain, Entries
<1> QED BY <1>1, <1>2, <1>3, <1>4 DEF Next, Caller

\* A step moves trust for an entry of the chain, or for a request in the queue.
LEMMA TrustStep ==
    ASSUME TypeOK, Safe, ChainOK, QueueOK, TrustHasEvidence, [Next]_vars
    PROVE  TrustHasEvidence'
<1>1. ASSUME NEW c \in Calls, NEW input \in Inputs, Arrive(c, input)
      PROVE  TrustHasEvidence'
  <2>1. UNCHANGED <<chain, observations, queued>> /\ call' = [call EXCEPT ![c] = input]
        /\ pc[c] = "idle"
        BY <1>1 DEF Arrive, stores
  <2>2. Entries(c) = {} /\ c \notin queued
        BY <2>1 DEF ChainOK, InChain, QueueOK
  <2>3. ASSUME NEW a \in Agents, NEW o \in observations[a]
        PROVE  call'[o.call] = call[o.call]
    <3>1. o.call # c
          BY <2>2, <2>3 DEF TrustHasEvidence, Receipted, Entries
    <3>2. o.call \in Subjects
          BY <2>3 DEF TypeOK
    <3> QED BY <2>1, <3>1, <3>2 DEF TypeOK
  <2> QED BY <2>1, <2>3 DEF TrustHasEvidence, Receipted
<1>2. ASSUME NEW c \in Subjects, NEW by, NEW kind, Observe(by, c, kind),
             UNCHANGED <<chain, call, queued>>,
             LET o == [by |-> by, call |-> c, kind |-> kind]
             IN  IF by = "record" THEN Receipted(o) ELSE c \in queued
      PROVE  TrustHasEvidence'
  <2> DEFINE new == [by |-> by, call |-> c, kind |-> kind]
             Explained(o) == IF o.by = "record" THEN Receipted(o) ELSE o.call \in queued
  <2>1. Explained(new) /\ new.call = c
        BY <1>2
  <2>2. \A o : Receipted(o)' <=> Receipted(o)
        BY <1>2 DEF Receipted
  <2>3. \A a \in Agents : \A o \in observations'[a] :
            o \in observations[a] \/ (a = call[c].agent /\ o = new)
        BY <1>2 DEF Observe, TypeOK
  <2>4. \A a \in Agents : \A o \in observations[a] : call[o.call].agent = a /\ Explained(o)
        BY DEF TrustHasEvidence
  <2> HIDE DEF new, Explained
  <2>5. ASSUME NEW a \in Agents, NEW o \in observations'[a]
        PROVE  call[o.call].agent = a /\ Explained(o)
        BY <2>1, <2>3, <2>4, <2>5
  <2> QED BY <1>2, <2>2, <2>5 DEF TrustHasEvidence, Explained
<1>3. ASSUME NEW c \in Calls, RecordBehavior(c)
      PROVE  TrustHasEvidence'
  <2>1. /\ UNCHANGED <<chain, call, queued>> /\ pc[c] = "trust" /\ c \in Subjects
        /\ Observe("record", c, Behavior(decision[c]))
        BY <1>3 DEF RecordBehavior, At, Subjects
  <2>2. PICK i \in DOMAIN chain : i \in Entries(c) /\ chain[i].decision = decision[c]
        BY <2>1 DEF ChainOK, InChain
  <2>3. Receipted([by |-> "record", call |-> c, kind |-> Behavior(decision[c])])
        BY <2>1, <2>2 DEF Entries, Safe, PathOK, Receipted
  <2> QED BY <1>2, <2>1, <2>3
<1>4. ASSUME NEW c \in Subjects, Reviewer(c)
      PROVE  TrustHasEvidence'
  <2>1. PICK kind \in Kinds : Observe("approval", c, kind)
        BY <1>4, ReviewLeaves
  <2>2. UNCHANGED <<chain, call, queued>> /\ c \in queued
        BY <1>4, ReviewLeaves
  <2> QED BY <1>2, <2>1, <2>2
<1>5. ASSUME NEW c \in Calls, AppendReceipt(c)
      PROVE  TrustHasEvidence'
  <2>1. /\ UNCHANGED <<observations, call, queued>>
        /\ chain' = Append(chain, [call |-> c, decision |-> decision[c]])
        BY <1>5 DEF AppendReceipt, At
  <2>2. DOMAIN chain \subseteq DOMAIN chain' /\ \A i \in DOMAIN chain : chain'[i] = chain[i]
        BY <2>1, ChainGrows
  <2> QED BY <2>1, <2>2 DEF TrustHasEvidence, Receipted
<1>6. ASSUME NEW c \in Calls, Intercept(c) \/ RunTool(c) \/ ReceiptFails(c)
      PROVE  TrustHasEvidence'
  <2>1. UNCHANGED <<chain, observations, call>> /\ queued \subseteq queued'
        BY <1>6 DEF Intercept, CountRejection, LogRejection, Evaluate, EvaluationRaises,
               FailClosed, CountDecision, Enqueue, RunTool, ReceiptFails, At, stores
  <2> QED BY <2>1 DEF TrustHasEvidence, Receipted
<1>7. CASE GetStats \/ UNCHANGED vars
  <2>1. UNCHANGED <<chain, observations, call, queued>>
        BY <1>7 DEF GetStats, ReadCounts, ReadTotal, stores, locals, vars
  <2> QED BY <2>1 DEF TrustHasEvidence, Receipted
<1> QED BY <1>1, <1>3, <1>4, <1>5, <1>6, <1>7 DEF Next, Caller

\* A step queues only calls that wait for a human.
LEMMA QueueStep ==
    ASSUME TypeOK, Safe, QueueOK, [Next]_vars
    PROVE  QueueOK'
<1> USE DEF TypeOK, Goto, QueueOK
<1>1. ASSUME NEW c \in Calls, NEW input \in Inputs, Arrive(c, input)
      PROVE  QueueOK'
      BY <1>1 DEF Arrive, stores
<1>2. ASSUME NEW c \in Calls, Intercept(c) \/ Caller(c)
      PROVE  QueueOK'
  <2>1. CASE CountRejection(c)
        BY <2>1 DEF CountRejection, At, stores
  <2>2. CASE LogRejection(c)
    <3>1. \E next \in {"run", "append", "done"} : pc' = [pc EXCEPT ![c] = next]
      <4>1. call[c] \in Inputs /\ Deliver(c, "deny")
            BY <2>2 DEF LogRejection, At, Safe, PathOK
      <4> QED BY <4>1, Delivered
    <3> QED BY <2>2, <3>1 DEF LogRejection, At, stores
  <2>3. CASE Evaluate(c)
        BY <2>3 DEF Evaluate, At, stores
  <2>4. CASE EvaluationRaises(c)
        BY <2>4 DEF EvaluationRaises, At, stores
  <2>5. CASE FailClosed(c)
    <3>1. \E next \in {"run", "append", "done"} : pc' = [pc EXCEPT ![c] = next]
      <4>1. call[c] \in Inputs /\ Deliver(c, "deny")
            BY <2>5 DEF FailClosed, At, Safe, PathOK
      <4> QED BY <4>1, Delivered
    <3> QED BY <2>5, <3>1 DEF FailClosed, At, stores
  <2>6. CASE CountDecision(c)
    <3>1. \E next \in {"enqueue", "run", "append", "done"} :
            /\ pc' = [pc EXCEPT ![c] = next]
            /\ next = "enqueue" => decision[c] = "require_approval"
      <4>1. call[c] \in Inputs
            BY <2>6 DEF CountDecision, At, Safe, PathOK
      <4>2. \/ Deliver(c, decision[c])
            \/ pc' = [pc EXCEPT ![c] = "enqueue"] /\ decision[c] = "require_approval"
            BY <2>6 DEF CountDecision
      <4> QED BY <4>1, <4>2, Delivered
    <3> QED BY <2>6, <3>1 DEF CountDecision, At, stores
  <2>7. CASE Enqueue(c)
    <3>1. AfterDecision(c, decision[c]) \in {"append", "done"}
          BY <2>7, AfterDecisionType DEF Enqueue, At, Safe, PathOK
    <3> QED BY <2>7, <3>1 DEF Enqueue, At, Deliver
  <2>8. CASE RunTool(c)
        BY <2>8 DEF RunTool, At, stores
  <2>9. CASE AppendReceipt(c)
        BY <2>9 DEF AppendReceipt, At
  <2>10. CASE ReceiptFails(c)
        BY <2>10 DEF ReceiptFails, At, stores
  <2>11. CASE RecordBehavior(c)
        BY <2>11 DEF RecordBehavior, At
  <2> QED BY <1>2, <2>1, <2>2, <2>3, <2>4, <2>5, <2>6, <2>7, <2>8, <2>9, <2>10, <2>11 DEF Intercept, Caller
<1>3. CASE GetStats \/ UNCHANGED vars \/ \E c \in Subjects : Reviewer(c)
      BY <1>3, ReviewLeaves DEF GetStats, ReadCounts, ReadTotal, stores, locals, vars
<1> QED BY <1>1, <1>2, <1>3 DEF Next

\* Chain, trust and queue are in step with the calls, with or without failures.
THEOREM EvidenceInvariant == Spec => [](TypeOK /\ Safe /\ EvidenceOK)
<1>1. Init => EvidenceOK
      BY EarlierAssumption DEF Init, EvidenceOK, ChainOK, InChain, Entries, TrustHasEvidence,
                                QueueOK
<1>2. TypeOK /\ Safe /\ EvidenceOK /\ [Next]_vars => EvidenceOK'
      BY ChainStep, TrustStep, QueueStep DEF EvidenceOK
<1> QED BY <1>1, <1>2, SafetyInvariant, PTL DEF Spec

\* A receipt that was handed out is one entry of the chain with the decision that
\* was told; without a receipt there is no entry.
THEOREM ChainMatchesAnswersAlways == Spec => []ChainMatchesAnswers
<1>1. EvidenceOK => ChainMatchesAnswers
      BY DEF EvidenceOK, ChainOK, InChain, ChainMatchesAnswers
<1> QED BY <1>1, EvidenceInvariant, PTL

\* Behind every observation stands its evidence: a receipt of that agent that explains
\* it, or a request of that agent in the approval queue.
THEOREM TrustHasEvidenceAlways == Spec => []TrustHasEvidence
BY EvidenceInvariant, PTL DEF EvidenceOK

\* A call that waits for a human has run nothing and moved no trust itself.
THEOREM QueuedStayUntouchedAlways == Spec => []QueuedStayUntouched
<1>1. ASSUME TypeOK, Safe, EvidenceOK
      PROVE  QueuedStayUntouched
  <2> SUFFICES ASSUME NEW c \in queued \cap Calls
               PROVE  /\ decision[c] = "require_approval" /\ ran[c] = "none"
                      /\ \A a \in Agents : \A o \in observations[a] :
                            o.call = c => o.by = "approval"
      BY DEF QueuedStayUntouched
  <2>1. c \in Calls /\ decision[c] = "require_approval"
        BY <1>1 DEF TypeOK, EvidenceOK, QueueOK
  <2>2. ran[c] = "none"
        BY <1>1, <2>1 DEF Safe, RanOK
  <2>3. ASSUME NEW a \in Agents, NEW o \in observations[a], o.call = c
        PROVE  o.by # "record"
    <3> SUFFICES ASSUME o.by = "record" PROVE FALSE
        OBVIOUS
    <3>1. PICK i \in DOMAIN chain : chain[i].call = c /\ chain[i].decision # "require_approval"
          BY <1>1, <2>3 DEF EvidenceOK, TrustHasEvidence, Receipted
    <3>2. i \in Entries(c)
          BY <3>1 DEF Entries
    <3>3. chain[i].decision = decision[c]
          BY <1>1, <2>1, <3>2 DEF EvidenceOK, ChainOK
    <3> QED BY <2>1, <3>1, <3>3
  <2>4. \A a \in Agents : \A o \in observations[a] : o.by \in {"record", "approval"}
        BY <1>1 DEF TypeOK
  <2> QED BY <2>1, <2>2, <2>3, <2>4
<1> QED BY <1>1, EvidenceInvariant, PTL

\* A refusal whose receipt was handed out is among the observations of its agent.
RecordedOK ==
    \A d \in Calls :
        pc[d] = "done" /\ receipt[d] /\ decision[d] \in {"deny", "quarantine"} =>
            \E o \in observations[call[d].agent] : o.kind = Behavior(decision[d])

\* A call that was not evaluated yet has no decision.
NoneOK ==
    \A c \in Calls : pc[c] \in {"idle", "countRejection", "evaluate", "failClosed"} =>
                        decision[c] = "none"

\* A step decides a call only as it leaves its evaluation.
LEMMA NoneStep ==
    ASSUME TypeOK, Safe, NoneOK, [Next]_vars
    PROVE  NoneOK'
<1> USE DEF TypeOK, Goto, NoneOK
<1>1. ASSUME NEW c \in Calls, NEW input \in Inputs, Arrive(c, input)
      PROVE  NoneOK'
      BY <1>1 DEF Arrive
<1>2. ASSUME NEW c \in Calls, Intercept(c)
      PROVE  NoneOK'
  <2>1. CASE CountRejection(c) \/ Evaluate(c) \/ EvaluationRaises(c)
        BY <2>1 DEF CountRejection, Evaluate, EvaluationRaises, At
  <2>2. CASE LogRejection(c) \/ FailClosed(c) \/ CountDecision(c) \/ Enqueue(c)
    <3>1. \E next \in {"enqueue", "run", "append", "done"} : pc' = [pc EXCEPT ![c] = next]
      <4>1. call[c] \in Inputs
            BY <2>2 DEF LogRejection, FailClosed, CountDecision, Enqueue, At, Safe, PathOK
      <4>2. \/ \E d : Deliver(c, d)
            \/ pc' = [pc EXCEPT ![c] = "enqueue"]
            BY <2>2 DEF LogRejection, FailClosed, CountDecision, Enqueue
      <4> QED BY <4>1, <4>2, Delivered
    <3>2. \A d \in Calls \ {c} : decision'[d] = decision[d]
          BY <2>2 DEF LogRejection, FailClosed, CountDecision, Enqueue
    <3> QED BY <3>1, <3>2
  <2> QED BY <1>2, <2>1, <2>2 DEF Intercept
<1>3. ASSUME NEW c \in Calls, Caller(c)
      PROVE  NoneOK'
      BY <1>3 DEF Caller, RunTool, AppendReceipt, ReceiptFails, RecordBehavior
<1>4. CASE GetStats \/ UNCHANGED vars \/ \E c \in Subjects : Reviewer(c)
      BY <1>4, ReviewLeaves DEF GetStats, ReadCounts, ReadTotal, locals, vars
<1> QED BY <1>1, <1>2, <1>3, <1>4 DEF Next

\* A step that hands out the receipt of a refusal records it.
LEMMA RecordedStep ==
    ASSUME TypeOK, Safe, ChainOK, RecordedOK, [Next]_vars
    PROVE  RecordedOK'
<1> USE DEF TypeOK
<1>1. ASSUME NEW c \in Calls, pc[c] # "done", UNCHANGED <<observations, receipt>>,
             \A d \in Calls \ {c} : decision'[d] = decision[d] /\ call'[d] = call[d]
      PROVE  RecordedOK'
  <2>1. \A d \in Calls : receipt[d] => pc[d] = "done" /\ d # c
        BY <1>1 DEF ChainOK
  <2>2. ASSUME NEW d \in Calls, receipt'[d], decision'[d] \in {"deny", "quarantine"}
        PROVE  \E o \in observations'[call'[d].agent] : o.kind = Behavior(decision'[d])
    <3>1. /\ receipt[d] /\ pc[d] = "done" /\ decision[d] \in {"deny", "quarantine"}
          /\ decision'[d] = decision[d] /\ call'[d] = call[d]
          BY <1>1, <2>1, <2>2
    <3>2. \E o \in observations[call[d].agent] : o.kind = Behavior(decision[d])
          BY <3>1 DEF RecordedOK
    <3> QED BY <1>1, <3>1, <3>2
  <2> QED BY <2>2 DEF RecordedOK
<1>2. ASSUME NEW c \in Calls, NEW input \in Inputs, Arrive(c, input)
      PROVE  RecordedOK'
      BY <1>1, <1>2 DEF Arrive, stores
<1>3. ASSUME NEW c \in Calls, Intercept(c) \/ RunTool(c) \/ ReceiptFails(c)
      PROVE  RecordedOK'
  <2>1. pc[c] # "done" /\ UNCHANGED <<observations, receipt, call>>
        BY <1>3 DEF Intercept, CountRejection, LogRejection, Evaluate, EvaluationRaises,
               FailClosed, CountDecision, Enqueue, RunTool, ReceiptFails, At, stores
  <2>2. \A d \in Calls \ {c} : decision'[d] = decision[d]
        BY <1>3 DEF Intercept, CountRejection, LogRejection, Evaluate, EvaluationRaises,
               FailClosed, CountDecision, Enqueue, RunTool, ReceiptFails
  <2> QED BY <1>1, <2>1, <2>2
<1>4. ASSUME NEW c \in Calls, AppendReceipt(c)
      PROVE  RecordedOK'
  <2>1. /\ pc[c] = "append" /\ UNCHANGED <<call, observations, decision>>
        /\ IF decision[c] = "require_approval"
             THEN receipt' = [receipt EXCEPT ![c] = TRUE] ELSE receipt' = receipt
        BY <1>4 DEF AppendReceipt, At
  <2>2. \A d \in Calls \ {c} : receipt[d] => pc[d] = "done"
        BY DEF ChainOK
  <2>3. decision[c] # "require_approval" => ~receipt'[c]
        BY <2>1 DEF ChainOK
  <2> QED BY <2>1, <2>2, <2>3 DEF RecordedOK
<1>5. ASSUME NEW c \in Calls, RecordBehavior(c)
      PROVE  RecordedOK'
  <2>1. /\ UNCHANGED <<call, decision>> /\ pc[c] = "trust"
        /\ observations' = [observations EXCEPT ![call[c].agent] =
              @ \cup {[by |-> "record", call |-> c, kind |-> Behavior(decision[c])]}]
        /\ receipt' = [receipt EXCEPT ![c] = TRUE]
        BY <1>5 DEF RecordBehavior, At, Observe
  <2>2. call[c].agent \in Agents
        BY <2>1 DEF Safe, PathOK, Inputs
  <2>3. \E o \in observations'[call[c].agent] : o.kind = Behavior(decision[c])
    <3> DEFINE o == [by |-> "record", call |-> c, kind |-> Behavior(decision[c])]
    <3>1. o \in observations'[call[c].agent] /\ o.kind = Behavior(decision[c])
          BY <2>1, <2>2
    <3> HIDE DEF o
    <3> QED BY <3>1
  <2>4. \A a : a \in Agents => observations[a] \subseteq observations'[a]
        BY <2>1
  <2>5. ASSUME NEW d \in Calls \ {c}, receipt[d]
        PROVE  pc[d] = "done" /\ call[d].agent \in Agents
    <3>1. pc[d] = "done"
          BY <2>5 DEF ChainOK
    <3> QED BY <3>1 DEF Safe, PathOK, Inputs
  <2>6. ASSUME NEW d \in Calls, d # c, receipt'[d], decision[d] \in {"deny", "quarantine"}
        PROVE  \E o \in observations'[call[d].agent] : o.kind = Behavior(decision[d])
    <3>1. receipt[d]
          BY <2>1, <2>6
    <3>2. \E o \in observations[call[d].agent] : o.kind = Behavior(decision[d])
          BY <2>5, <2>6, <3>1 DEF RecordedOK
    <3> QED BY <2>4, <2>5, <2>6, <3>1, <3>2
  <2> QED BY <2>1, <2>3, <2>6 DEF RecordedOK
<1>6. CASE GetStats \/ UNCHANGED vars
  <2>1. UNCHANGED <<pc, receipt, decision, call, observations>>
        BY <1>6 DEF GetStats, ReadCounts, ReadTotal, stores, locals, vars
  <2> QED BY <2>1 DEF RecordedOK
<1>7. ASSUME NEW c \in Subjects, Reviewer(c)
      PROVE  RecordedOK'
  <2>1. UNCHANGED <<pc, receipt, decision, call>>
        BY <1>7, ReviewLeaves
  <2>2. PICK kind \in Kinds : Observe("approval", c, kind)
        BY <1>7, ReviewLeaves
  <2>3. \A d \in Calls : pc[d] = "done" => call[d].agent \in Agents
        BY DEF Safe, PathOK, Inputs
  <2>4. \A a \in Agents : observations[a] \subseteq observations'[a]
        BY <2>2 DEF Observe
  <2> QED BY <2>1, <2>3, <2>4 DEF RecordedOK
<1> QED BY <1>2, <1>3, <1>4, <1>5, <1>6, <1>7 DEF Next, Caller

\* After a refusal with a receipt, an agent for which nothing speaks is allowed only what
\* a policy allows: the property of the same name, for any calls and reviews in any order.
THEOREM RefusedAgentsNeedPolicyAlways == Spec => RefusedAgentsNeedPolicy
<1>1. Init => RecordedOK /\ NoneOK
      BY DEF Init, RecordedOK, NoneOK
<1>2. TypeOK /\ Safe /\ EvidenceOK /\ RecordedOK /\ NoneOK /\ [Next]_vars
        => RecordedOK' /\ NoneOK'
      BY RecordedStep, NoneStep DEF EvidenceOK
<1>3. ASSUME TypeOK, RecordedOK, NoneOK, [Next]_vars, NEW c \in Calls, NEW d \in Calls,
             pc[c] = "evaluate", decision'[c] = "allow", pc[d] = "done", receipt[d],
             decision[d] \in {"deny", "quarantine"}, call[d].agent = call[c].agent,
             Kind(call[c].agent) \cap Positive = {}
      PROVE  basis'[c].policy = "allow"
  <2>1. TiersOf(call[c].agent) = {"untrusted"}
    <3>1. PICK o \in observations[call[c].agent] : o.kind = Behavior(decision[d])
          BY <1>3 DEF RecordedOK
    <3>2. Kind(call[c].agent) # {} /\ ~(Kind(call[c].agent) \subseteq Positive)
          BY <1>3, <3>1 DEF Kind
    <3> QED BY <1>3, <3>2 DEF TiersOf
  <2>2. decision[c] = "none"
        BY <1>3 DEF NoneOK
  <2>3. Evaluate(c)
    <3>1. ASSUME NEW e \in Calls, Intercept(e) \/ Caller(e), ~Evaluate(c)
          PROVE  decision'[c] = decision[c]
      <4>1. CASE e = c
            BY <1>3, <3>1, <4>1 DEF Intercept, Caller, CountRejection, LogRejection,
               EvaluationRaises, FailClosed, CountDecision, Enqueue, RunTool,
               AppendReceipt, ReceiptFails, RecordBehavior, At
      <4>2. CASE e # c
            BY <1>3, <3>1, <4>2 DEF TypeOK, Intercept, Caller, CountRejection,
               LogRejection, Evaluate, EvaluationRaises, FailClosed, CountDecision,
               Enqueue, RunTool, AppendReceipt, ReceiptFails, RecordBehavior
      <4> QED BY <4>1, <4>2
    <3>2. ASSUME NEW e \in Calls, NEW input \in Inputs, Arrive(e, input)
          PROVE  decision'[c] = decision[c]
          BY <3>2 DEF Arrive
    <3>3. CASE GetStats \/ UNCHANGED vars \/ \E e \in Subjects : Reviewer(e)
          BY <1>3, <2>2, <3>3, ReviewLeaves DEF GetStats, ReadCounts, ReadTotal, locals, vars
    <3> QED BY <1>3, <2>2, <3>1, <3>2, <3>3 DEF Next
  <2>4. PICK policy \in PolicyResults, risk \in Risks :
            /\ basis' = [basis EXCEPT ![c] =
                           [policy |-> policy, risk |-> risk, tier |-> "untrusted"]]
            /\ decision' = [decision EXCEPT ![c] = Decide(policy, risk, "untrusted")]
        BY <2>1, <2>3 DEF Evaluate
  <2>5. Decide(policy, risk, "untrusted") = "allow" => policy = "allow"
        BY DEF Decide, PolicyResults, Risks
  <2> QED BY <1>3, <2>4, <2>5 DEF TypeOK
<1>4. TypeOK /\ Safe /\ EvidenceOK /\ RecordedOK /\ NoneOK /\ [Next]_vars =>
        [\A c, d \in Calls :
          /\ pc[c] = "evaluate" /\ decision'[c] = "allow"
          /\ pc[d] = "done" /\ receipt[d] /\ decision[d] \in {"deny", "quarantine"}
          /\ call[d].agent = call[c].agent
          /\ Kind(call[c].agent) \cap Positive = {}
          => basis'[c].policy = "allow"]_vars
      BY <1>3
<1> QED BY <1>1, <1>2, <1>4, EvidenceInvariant, PTL DEF Spec, RefusedAgentsNeedPolicy
=============================================================================
