------------------------------ MODULE Gateway ------------------------------
(***************************************************************************)
(* Governed calls: Gateway.intercept and Gateway.record (gateway_core.py)  *)
(* with the four kinds of caller that drive them - the @governed_tool      *)
(* decorator, the LangChain tool, and the endpoints /intercept and /decide *)
(* - over one TrustMemory, one AuditChain and one approval queue, beside a *)
(* reader of get_stats and beside the approval service, whose calls write  *)
(* to the same TrustMemory (gateway_server.py hands it to both).           *)
(*                                                                         *)
(* Each shared object takes its own lock for one operation at a time; a    *)
(* call is a sequence of such operations and calls interleave between      *)
(* them.  Calls are one-shot.                                              *)
(***************************************************************************)
EXTENDS Decision, Sequences, FiniteSets

CONSTANTS Calls,         \* governed calls
          Earlier,       \* approvals that an earlier process left in the file
          Agents,        \* agent ids
          CanFail,       \* TRUE: an engine, the signer or the store may raise
          HasApprovals,  \* TRUE: the gateway was given an ApprovalService
          MaxReviews     \* bound: observations that the approval service adds

ASSUME ModeAssumption == CanFail \in BOOLEAN /\ HasApprovals \in BOOLEAN
ASSUME EarlierAssumption == Earlier \cap Calls = {} /\ MaxReviews \in Nat

VARIABLES
  interceptCount,   \* Gateway._intercept_count
  decisionCounts,   \* Gateway._decision_counts
  rejectionLog,     \* Gateway._rejection_log, one entry per refused call
  chain,            \* AuditChain._entries: which call, which decision
  observations,     \* TrustMemory: the observations of each agent
  queued,           \* the calls, now or earlier, that have a row in the queue
  call,             \* call[c]: who calls, for which agent, valid or not
  pc,               \* pc[c]: the next step of c
  basis,            \* basis[c]: what _decide was given
  decision,         \* decision[c]: what intercept returned or is to return
  ran,              \* ran[c]: how the governed tool ended, if it ran
  receipt,          \* receipt[c]: whether the caller got a receipt
  report            \* one run of get_stats

counters == <<interceptCount, decisionCounts, rejectionLog>>
stores   == <<chain, observations, queued>>
locals   == <<call, basis, decision, ran, receipt>>
vars     == <<interceptCount, decisionCounts, rejectionLog, chain, observations,
              queued, call, pc, basis, decision, ran, receipt, report>>

-----------------------------------------------------------------------------
Callers == {"governed", "langchain", "intercept", "decide"}
Inputs == [caller : Callers, agent : Agents, valid : BOOLEAN]
Bases == [policy : PolicyResults, risk : Risks, tier : Tiers]
Kinds == {"success", "failure", "quarantine", "approval_granted", "approval_denied"}
Positive == {"success", "approval_granted"}
Subjects == Calls \cup Earlier
Endings == {"returned", "raised"}

Steps == {"countRejection", "logRejection", "evaluate", "failClosed", "count",
          "enqueue", "run", "append", "trust"}

NoInput == [caller |-> "none"]
NoBasis == [policy |-> "none"]

Init ==
    /\ interceptCount = 0
    /\ decisionCounts = [d \in Decisions |-> 0]
    /\ rejectionLog = <<>> /\ chain = <<>>
    /\ queued = IF HasApprovals THEN Earlier ELSE {}
    /\ observations = [a \in Agents |-> {}]
    /\ \E owner \in [Earlier -> Agents] :
          call = [c \in Subjects |->
                    IF c \in Earlier THEN [agent |-> owner[c]] ELSE NoInput]
    /\ pc = [c \in Calls |-> "idle"]
    /\ basis = [c \in Calls |-> NoBasis]
    /\ decision = [c \in Calls |-> "none"]
    /\ ran = [c \in Calls |-> "none"]
    /\ receipt = [c \in Calls |-> FALSE]
    /\ report = [step |-> "counts", valid |-> 0, total |-> 0]

Goto(c, step) == pc' = [pc EXCEPT ![c] = step]
At(c, step) == pc[c] = step /\ UNCHANGED <<call, report>>

Count(d) == decisionCounts' = [decisionCounts EXCEPT ![d] = @ + 1]

\* Mutant: the LangChain tool blocks DENY only.
RunUnlessDenied(c, d) ==
    CASE call[c].caller \in {"governed", "langchain"} /\ d = "allow" -> "run"
      [] call[c].caller = "governed" /\ d # "allow" -> "done"
      [] call[c].caller = "langchain" /\ d = "deny" -> "append"
      [] call[c].caller = "langchain" /\ d \notin {"allow", "deny"} -> "run"
      [] call[c].caller = "intercept" -> "append"
      [] call[c].caller = "decide" -> "done"

\* What the caller does with the decision intercept returns.  The decorator
\* returns at once unless it may run its function; the LangChain tool records
\* every refusal; /intercept records everything and /decide nothing.
AfterDecision(c, d) ==
    CASE call[c].caller \in {"governed", "langchain"} /\ d = "allow" -> "run"
      [] call[c].caller = "governed" /\ d # "allow" -> "done"
      [] call[c].caller = "langchain" /\ d # "allow" -> "append"
      [] call[c].caller = "intercept" -> "append"
      [] call[c].caller = "decide" -> "done"

Deliver(c, d) == Goto(c, AfterDecision(c, d))

-----------------------------------------------------------------------------
(* intercept.                                                              *)

\* Mutant: only valid requests are counted in.
ArriveUncounted(c, input) ==
    /\ pc[c] = "idle"
    /\ call' = [call EXCEPT ![c] = input]
    /\ interceptCount' = IF input.valid THEN interceptCount + 1 ELSE interceptCount
    /\ Goto(c, IF input.valid THEN "evaluate" ELSE "countRejection")
    /\ UNCHANGED <<decisionCounts, rejectionLog, stores, basis, decision, ran,
                   receipt, report>>

Arrive(c, input) ==
    /\ pc[c] = "idle"
    /\ call' = [call EXCEPT ![c] = input]
    /\ interceptCount' = interceptCount + 1
    /\ Goto(c, IF input.valid THEN "evaluate" ELSE "countRejection")
    /\ UNCHANGED <<decisionCounts, rejectionLog, stores, basis, decision, ran,
                   receipt, report>>

\* Mutant: the early return comes before the rejection log.
RejectUnlogged(c) ==
    /\ At(c, "countRejection")
    /\ Count("deny")
    /\ decision' = [decision EXCEPT ![c] = "deny"]
    /\ Deliver(c, "deny")
    /\ UNCHANGED <<interceptCount, rejectionLog, stores, basis, ran, receipt>>

\* An invalid request is denied: it is counted, then logged, each under the lock.
CountRejection(c) ==
    /\ At(c, "countRejection")
    /\ Count("deny")
    /\ decision' = [decision EXCEPT ![c] = "deny"]
    /\ Goto(c, "logRejection")
    /\ UNCHANGED <<interceptCount, rejectionLog, stores, basis, ran, receipt>>

LogRejection(c) ==
    /\ At(c, "logRejection")
    /\ rejectionLog' = Append(rejectionLog, c)
    /\ Deliver(c, "deny")
    /\ UNCHANGED <<interceptCount, decisionCounts, stores, basis, decision, ran,
                   receipt>>

Kind(a) == {o.kind : o \in observations[a]}

\* TrustMemory.get_score.  The score is 50 plus 50 times the weighted mean of
\* deltas, each of magnitude 3 or more, cut to 0..100: observations of one sign
\* pin it to an end, and a mix gives whatever their ages make of it (module
\* Evaluation: TierIsAbstracted).
TiersOf(a) ==
    IF Kind(a) = {} THEN {"standard"}
    ELSE IF Kind(a) \subseteq Positive THEN {"trusted"}
    ELSE IF Kind(a) \cap Positive = {} THEN {"untrusted"}
    ELSE Tiers

\* Policy and risk are functions of the request; trust is read from memory.
Evaluate(c) ==
    /\ At(c, "evaluate")
    /\ \E policy \in PolicyResults, risk \in Risks, tier \in TiersOf(call[c].agent) :
          /\ basis' = [basis EXCEPT ![c] =
                         [policy |-> policy, risk |-> risk, tier |-> tier]]
          /\ decision' = [decision EXCEPT ![c] = Decide(policy, risk, tier)]
    /\ Goto(c, "count")
    /\ UNCHANGED <<counters, stores, ran, receipt>>

EvaluationRaises(c) ==
    /\ CanFail
    /\ At(c, "evaluate")
    /\ Goto(c, "failClosed")
    /\ UNCHANGED <<counters, stores, basis, decision, ran, receipt>>

\* Mutant: the exception handler returns without counting.
FailUncounted(c) ==
    /\ At(c, "failClosed")
    /\ decision' = [decision EXCEPT ![c] = "deny"]
    /\ Deliver(c, "deny")
    /\ UNCHANGED <<counters, stores, basis, ran, receipt>>

FailClosed(c) ==
    /\ At(c, "failClosed")
    /\ Count("deny")
    /\ decision' = [decision EXCEPT ![c] = "deny"]
    /\ Deliver(c, "deny")
    /\ UNCHANGED <<interceptCount, rejectionLog, stores, basis, ran, receipt>>

\* Mutant: whatever is not denied is queued.
QueueUnlessDenied(c) ==
    /\ At(c, "count")
    /\ Count(decision[c])
    /\ IF decision[c] # "deny" /\ HasApprovals
         THEN Goto(c, "enqueue")
         ELSE Deliver(c, decision[c])
    /\ UNCHANGED <<interceptCount, rejectionLog, stores, basis, decision, ran,
                   receipt>>

CountDecision(c) ==
    /\ At(c, "count")
    /\ Count(decision[c])
    /\ IF decision[c] = "require_approval" /\ HasApprovals
         THEN Goto(c, "enqueue")
         ELSE Deliver(c, decision[c])
    /\ UNCHANGED <<interceptCount, rejectionLog, stores, basis, decision, ran,
                   receipt>>

\* create_approval_request; its exceptions are logged and swallowed.
Enqueue(c) ==
    /\ At(c, "enqueue")
    /\ \/ queued' = queued \cup {c}
       \/ CanFail /\ UNCHANGED queued
    /\ Deliver(c, decision[c])
    /\ UNCHANGED <<counters, chain, observations, basis, decision, ran, receipt>>

-----------------------------------------------------------------------------
(* The callers, and record.                                                *)

\* The decorator records whether or not its function raised; the LangChain tool
\* reports the exception and records nothing.
RunTool(c) ==
    /\ At(c, "run")
    /\ \E ending \in Endings :
          /\ ran' = [ran EXCEPT ![c] = ending]
          /\ Goto(c, IF call[c].caller = "langchain" /\ ending = "raised"
                       THEN "done" ELSE "append")
    /\ UNCHANGED <<counters, stores, basis, decision, receipt>>

\* Mutant: an append that fails is swallowed, and trust is moved all the same.
AppendOrSkip(c) ==
    /\ At(c, "append")
    /\ chain' \in {chain, Append(chain, [call |-> c, decision |-> decision[c]])}
    /\ IF decision[c] = "require_approval"
         THEN receipt' = [receipt EXCEPT ![c] = TRUE] /\ Goto(c, "done")
         ELSE UNCHANGED receipt /\ Goto(c, "trust")
    /\ UNCHANGED <<counters, observations, queued, basis, decision, ran>>

\* Mutant: a quarantine moves no trust either.
AppendForgiving(c) ==
    /\ At(c, "append")
    /\ chain' = Append(chain, [call |-> c, decision |-> decision[c]])
    /\ IF decision[c] \in {"require_approval", "quarantine"}
         THEN receipt' = [receipt EXCEPT ![c] = TRUE] /\ Goto(c, "done")
         ELSE UNCHANGED receipt /\ Goto(c, "trust")
    /\ UNCHANGED <<counters, observations, queued, basis, decision, ran>>

\* A decision that waits for a human moves no trust.
AppendReceipt(c) ==
    /\ At(c, "append")
    /\ chain' = Append(chain, [call |-> c, decision |-> decision[c]])
    /\ IF decision[c] = "require_approval"
         THEN receipt' = [receipt EXCEPT ![c] = TRUE] /\ Goto(c, "done")
         ELSE UNCHANGED receipt /\ Goto(c, "trust")
    /\ UNCHANGED <<counters, observations, queued, basis, decision, ran>>

\* Mutant: the entry is appended before it is signed.
FailsAfterAppend(c) ==
    /\ CanFail
    /\ At(c, "append")
    /\ chain' = Append(chain, [call |-> c, decision |-> decision[c]])
    /\ Goto(c, "done")
    /\ UNCHANGED <<counters, observations, queued, basis, decision, ran, receipt>>

\* Generating or signing raises, before anything is shared; every caller
\* swallows it.
ReceiptFails(c) ==
    /\ CanFail
    /\ At(c, "append")
    /\ Goto(c, "done")
    /\ UNCHANGED <<counters, stores, basis, decision, ran, receipt>>

\* Mutant: the decision is recorded as it stands.
BehaviorAsIs(d) == d

Behavior(d) == CASE d = "allow" -> "success"
                 [] d = "deny" -> "failure"
                 [] d = "quarantine" -> "quarantine"

\* TrustMemory.record_behavior, called by record or by the approval service.
Observe(by, c, kind) ==
    observations' = [observations EXCEPT ![call[c].agent] =
                       @ \cup {[by |-> by, call |-> c, kind |-> kind]}]

\* record_behavior; then record returns the receipt.
RecordBehavior(c) ==
    /\ At(c, "trust")
    /\ Observe("record", c, Behavior(decision[c]))
    /\ receipt' = [receipt EXCEPT ![c] = TRUE]
    /\ Goto(c, "done")
    /\ UNCHANGED <<counters, chain, queued, basis, decision, ran>>

-----------------------------------------------------------------------------
(* The approval service, in threads of its own.  Which of its calls pass   *)
(* their checks is for module Approvals; here is what they do to the trust *)
(* memory, in any order: two decisions of one approval can overlap, and    *)
(* the trust for one can be written after the execution it allowed.        *)

Reviews == {o \in UNION {observations[a] : a \in Agents} : o.by = "approval"}

\* A verdict of approve or deny, or the result of a tool that execute ran.
Review(c, kind) ==
    /\ c \in queued /\ Cardinality(Reviews) < MaxReviews
    /\ Observe("approval", c, kind)
    /\ UNCHANGED <<counters, chain, queued, locals, pc, report>>

-----------------------------------------------------------------------------
(* get_stats: the decision counts are copied under the lock, the total is  *)
(* read after it is released (the lengths it reads next go into no         *)
(* property).                                                              *)

Decided == decisionCounts["allow"] + decisionCounts["require_approval"]
         + decisionCounts["quarantine"] + decisionCounts["deny"]

ReadCounts == /\ report.step = "counts"
              /\ report' = [report EXCEPT !.step = "total", !.valid = Decided]
              /\ UNCHANGED <<counters, stores, locals, pc>>

ReadTotal == /\ report.step = "total"
             /\ report' = [report EXCEPT !.step = "done", !.total = interceptCount]
             /\ UNCHANGED <<counters, stores, locals, pc>>

-----------------------------------------------------------------------------
Intercept(c) == \/ CountRejection(c) \/ LogRejection(c)
                \/ Evaluate(c) \/ EvaluationRaises(c) \/ FailClosed(c)
                \/ CountDecision(c) \/ Enqueue(c)

Caller(c) == RunTool(c) \/ AppendReceipt(c) \/ ReceiptFails(c) \/ RecordBehavior(c)

GetStats == ReadCounts \/ ReadTotal

Reviewer(c) == \E kind \in Kinds \ {"quarantine"} : Review(c, kind)

Next == \/ \E c \in Calls : \/ \E input \in Inputs : Arrive(c, input)
                            \/ Intercept(c)
                            \/ Caller(c)
        \/ \E c \in Subjects : Reviewer(c)
        \/ GetStats

Spec == Init /\ [][Next]_vars

-----------------------------------------------------------------------------
(* Properties.                                                             *)

\* Every variable holds a value of its type.
TypeOK ==
    /\ interceptCount \in Nat
    /\ decisionCounts \in [Decisions -> Nat]
    /\ rejectionLog \in Seq(Calls)
    /\ chain \in Seq([call : Calls, decision : Decisions])
    /\ observations \in [Agents -> SUBSET [by : {"record", "approval"},
                                            call : Subjects, kind : Kinds]]
    /\ queued \subseteq Subjects
    /\ call \in [Subjects -> Inputs \cup {NoInput} \cup [agent : Agents]]
    /\ pc \in [Calls -> Steps \cup {"idle", "done"}]
    /\ basis \in [Calls -> Bases \cup {NoBasis}]
    /\ decision \in [Calls -> Decisions \cup {"none"}]
    /\ ran \in [Calls -> Endings \cup {"none"}]
    /\ receipt \in [Calls -> BOOLEAN]
    /\ report \in [step : {"counts", "total", "done"}, valid : Nat, total : Nat]

\* Fail-closed (class docstring of Gateway): a governed tool runs only for a
\* valid request that was evaluated without an exception and allowed, never
\* under a denying or asking policy and never at critical risk.
RunsOnlyIfAllowed ==
    \A c \in Calls : ran[c] # "none" =>
        /\ call[c].valid
        /\ decision[c] = "allow"
        /\ basis[c] \in Bases
        /\ basis[c].policy \in {"allow", "quarantine"}
        /\ basis[c].risk # "critical"

\* The calls that were counted in and whose decision was not counted yet.
Undecided == {c \in Calls : pc[c] \in {"countRejection", "evaluate",
                                       "failClosed", "count"}}

\* Every call is counted in once and its decision once, on every path through
\* intercept: the two counters differ by the calls between the two counts.
CountsAddUp == interceptCount = Decided + Cardinality(Undecided)

\* get_stats does not hold the lock while it reads the total: it may be newer
\* than the decision counts, never older, so a report cannot claim more
\* decisions than interceptions.
ReportAddsUp ==
    report.step = "done" => report.valid <= report.total

Rejections(c) == {i \in DOMAIN rejectionLog : rejectionLog[i] = c}

\* Monitoring sees each invalid request once, and no valid one, and the log
\* never holds more refusals than the DENY counter.
RejectionsLogged ==
    /\ \A c \in Calls : pc[c] = "done" =>
          IF call[c].valid THEN Rejections(c) = {}
                           ELSE \E i \in DOMAIN rejectionLog : Rejections(c) = {i}
    /\ Len(rejectionLog) <= decisionCounts["deny"]

Entries(c) == {i \in DOMAIN chain : chain[i].call = c}

\* A caller that got a receipt has exactly one entry in the chain, and it tells
\* the decision the caller was told; a caller that got none has no entry.
ChainMatchesAnswers ==
    \A c \in Calls : pc[c] = "done" =>
        IF receipt[c]
          THEN \E i \in DOMAIN chain :
                  Entries(c) = {i} /\ chain[i].decision = decision[c]
          ELSE Entries(c) = {}

\* An observation that record made: a receipt of that call explains it.
Receipted(o) ==
    \E i \in DOMAIN chain :
        /\ chain[i].call = o.call
        /\ chain[i].decision # "require_approval"
        /\ o.kind = Behavior(chain[i].decision)

\* Trust is moved by evidence only, and each writer of the memory has its own:
\* record leaves a receipt that explains the observation, the approval service
\* speaks of a request in the queue.  Either speaks of a call made for that agent.
TrustHasEvidence ==
    \A a \in Agents : \A o \in observations[a] :
        /\ call[o.call].agent = a
        /\ IF o.by = "record" THEN Receipted(o) ELSE o.call \in queued

\* "Don't update trust yet - wait for human decision" (record): a call that has a
\* row in the queue was told so, its caller ran nothing, and whatever trust it
\* moves is moved by the approval service, not by its receipt.
QueuedStayUntouched ==
    \A c \in queued \cap Calls :
        /\ decision[c] = "require_approval" /\ ran[c] = "none"
        /\ \A a \in Agents : \A o \in observations[a] :
              o.call = c => o.by = "approval"

\* A refusal that was answered with a receipt counts against the agent from
\* then on: until something speaks for that agent (a success, or a human who
\* approved one of its requests), no later evaluation allows it anything that a
\* policy does not allow explicitly.
RefusedAgentsNeedPolicy ==
    [][\A c, d \in Calls :
          /\ pc[c] = "evaluate" /\ decision'[c] = "allow"
          /\ pc[d] = "done" /\ receipt[d] /\ decision[d] \in {"deny", "quarantine"}
          /\ call[d].agent = call[c].agent
          /\ Kind(call[c].agent) \cap Positive = {}
          => basis'[c].policy = "allow"]_vars

\* More risk or less trust never buys a milder decision: between two calls that
\* met the same policy result, whatever happened between them.
NoRewardForRisk ==
    \A c, d \in Calls :
        /\ basis[c] \in Bases /\ basis[d] \in Bases
        /\ basis[c].policy = basis[d].policy
        /\ RiskLevel(basis[c].risk) >= RiskLevel(basis[d].risk)
        /\ TrustLevel(basis[c].tier) <= TrustLevel(basis[d].tier)
        => AsStrict(decision[c], decision[d])

\* A rule that quarantines isolates the action for review (default_policies.yaml,
\* ARCHITECTURE.md): no tool runs under it.
QuarantinedNeverRuns ==
    \A c \in Calls : ran[c] # "none" => basis[c].policy # "quarantine"
=============================================================================
