# TLA+ models of AVS Gateway

AVS Gateway stands between AI agents and their tools. An agent's action becomes an
`ActionRequest`; the gateway evaluates it against policy, risk and trust and gives
one of four decisions (ALLOW, DENY, REQUIRE_APPROVAL, QUARANTINE); a human settles
REQUIRE_APPROVAL through an approval queue in SQLite; signed receipts of decisions
go into an append-only audit chain. This directory holds models of that program,
the TLC configurations that check them on small instances, and theorems proved with
TLAPS.

    tlc -config approvals_concurrent.cfg MCApprovals.tla
    tlapm GatewayProofs.tla

## 1. Inventory

Paths are relative to `avs_gateway/`. "State" is what survives a call.

| component | source | state | operations | talks to |
|---|---|---|---|---|
| Gateway | core/gateway_core.py | intercept and decision counters, rejection log | intercept, record, get_stats, get_rejection_log | policy, risk, trust, receipts, chain, approval service |
| Policy engine | core/policy_engine.py, config/default_policies.yaml | sorted rule list, index by name | load_policies, add_rule, remove_rule, evaluate | - |
| Risk engine | core/risk_engine.py | none | score, classify | - |
| Trust memory | core/trust_memory.py | observations per agent (at most 1000), stored score | record_behavior, get_score, decay, promote, demote, get_stats | - |
| Receipts | core/receipt_generator.py | signing key | generate, sign, verify, Merkle root and proof | - |
| Audit chain | core/audit_chain.py | entries, head hash | append, verify, lookups, exports | - |
| Approval service | core/approval_service.py | none of its own | create, approve, deny, execute_approved_once | store, trust memory, tool registry |
| Store | storage/ | four SQLite tables | one statement per operation, autocommitted under a lock | the file |
| Decorator | adapters/governed.py | default gateway (module global) | governed_tool wrapper, set_default_gateway | gateway, the function |
| LangChain tool | adapters/langchain_adapter.py | none | _run | gateway, the wrapped tool |
| Server | server/gateway_server.py | cached gateway, latency list | /intercept, /decide, /approvals/..., /receipts, /health, /metrics | all of the above |
| Simulated tools | tools/simulated_tools.py | files, mails, calls, ledger, tables, scans | execute | - |
| Sandboxes | tools/file_sandbox.py, tools/http_sandbox.py | settings, audit trail | read, write, get, post | disk, network |
| Other adapters, CLI, demos | adapters/base_adapter.py, adapters/openclaw_adapter.py, cli.py, demo/ | none | translate requests, print | gateway, server |

Requests run in threads: the server's handlers are synchronous functions (FastAPI
runs each in a worker thread) and the adapters run in whatever thread calls them.
Every shared object has a lock of its own, held for one operation at a time; no
operation of the gateway or of the approval service holds a lock across two of
them. The only state that outlives the process is the SQLite file.

### What is hard, and what makes each component correct

* **Approval loop.** `approve`, `deny` and `execute_approved_once` read the status
  in one store operation and write it in a later one, with no condition on the
  write; a tool runs between the two in the last. Overlapping calls, a crash or a
  failing operation come between two steps. Correct means: a tool runs only after
  approval, once, never after denial; answers and tables tell the truth.
* **Gateway.** A call is counted in, evaluated, counted out, queued, and recorded by
  its caller, in that order and with other calls between any two steps. Correct
  means: fail-closed; the counters add up; receipts, answers and trust agree; more
  risk or less trust never helps; every call is answered.
* **Policy engine.** The file may break off while it is loaded, rules of one priority
  and rules of one name meet. Correct means: the first match in priority order,
  whatever was added and removed before; index and list agree; what is missing from
  the file is not thereby allowed.
* **Risk engine.** Eight tables, a weighted sum, boundaries. Correct means: no request
  gains from being worse in one respect.
* **Trust memory.** A weighted mean with decay, cut to 0..100 and to a tier, over a list
  that drops its oldest entry. Correct means: evidence moves the score its own way,
  and a stored score is the one that would be computed now.
* **Audit chain and receipts.** Concurrent appends, readers that page, entries handed
  out by reference. Correct means: `verify` finds what it covers and reports nothing
  else, every Merkle proof leads to the root, every caller finds its own receipt.
* **Simulated tools.** Counters and tables that come and go. Correct means: an id that
  was answered keeps its meaning, a refused request changes nothing, rows leave only
  when that was asked for.
* **The whole.** The approval row survives the process, the trust and the answer do
  not. Correct means: a tool runs because it was allowed or because a human approved
  it, and never otherwise.

PROJECT.json lists these hazards with their lines and the properties that meet them.

## 2. Modules

| module | models |
|---|---|
| `ApprovalLifecycle` | what the approval loop promises a single caller: `Spec` (exactly once) and `RetrySpec` (at least once) |
| `ApprovalRace` | what it does promise when its callers do not wait for each other |
| `Approvals`, `MCApprovals` | the approval service over the store, one store operation per step, with crashes and failing operations |
| `Decision` | `Gateway._decide` as an operator, and the orders decisions are compared by |
| `Gateway`, `MCGateway` | `intercept`, `record`, `get_stats`, the four callers, and the approval service as the second writer of the trust memory |
| `PolicyEngine` | conditions, operators, the default policies, and the rule list with its index |
| `RiskEngine` | the risk score as operators on a request |
| `TrustMemory` | score, tier and observations of one agent, with time |
| `Evaluation`, `MCEvaluation` | the three engines and the decision made of them, from startup to one evaluation |
| `MerkleTree` | the tree, its root and its proofs |
| `AuditChain`, `MCAuditChain` | signing, appending, verifying, paging, and damage to what is stored |
| `SimulatedTools` | the six tools and their registry |
| `AvsSystem`, `MCAvsSystem` | intercept, its callers, the approval loop and the trust memory together |
| `Recursion` | induction over the numbers, and the equation of a recursive function, proved |
| `ApprovalsProofs`, `ApprovalsSerialProofs` | theorems about `Approvals`: safety and the evidence it leaves; one caller at a time |
| `EvaluationProofs` | theorems about `Evaluation` and the three engines under it |
| `GatewayProofs`, `AuditChainProofs`, `SimulatedToolsProofs`, `AvsSystemProofs` | theorems about the module of that name |

Operators marked "Mutant" are not part of a model: each is a variant of the
definition below it with a plausible bug. Put in the place of that definition it
must make TLC find a property violated; PROJECT.json lists the pairs. They guard
against properties that no change of the code could break.

### Approvals

`row` is table `approval_requests` (status, who decided, result), `decisions`,
`audit` and `trustEvents` are the other three tables, `memory` the observations in
TrustMemory. A table row written by a call carries the call, so that what it reports
can be compared with what was done. `wrote` and `ran` are history: the status a call
has put into its row and how its tool run ended. Each call has a program counter
`pc`; the steps of `approve` are

    ReadForDecision  UpdateStatus  RecordDecision  AuditDecision  RememberDecision  RecordTrustEvent

and those of `execute_approved_once`

    ReadForExecute  RunTool  RecordExecution  AuditExecuted  RememberExecution

`deny` takes the steps of `approve` with the other verdict, `create` is an insert and
an audit event. Every store operation holds the store's lock and commits on its own
(`isolation_level=None`), so it is one step. `StoreFails` is an operation that raises
(a busy or broken database, a tool result that `json.dumps` refuses): nothing is
written by it, what was written before stays, the caller gets an error.
`CrashAndRestart` drops the threads and TrustMemory and keeps the tables.

Abstracted: ids are drawn fresh (uuid4), so `CreateInsert` takes an unused one;
timestamps, reasons and parameters appear in no property; the stored request is
always one that can be rebuilt, since `create` wrote it; the agent id is not empty
and the service has a TrustMemory, as `get_gateway` gives it one. Requests are
one-shot: a client that retries is another request. `Serial` restricts the model to
one call at a time, which is how the tests and the demos drive the program.

### Gateway

A call has a caller, an agent and a validity flag as its input. `Arrive` counts it in;
an invalid one is counted out and logged (`CountRejection`, `LogRejection`), a valid one
is evaluated. `Evaluate` is one step because policy and risk are functions of the
request and touch nothing shared; the trust tier is read from `observations`, and is
whatever the ages of a record of both signs can make of it. That this set of tiers is right is
checked against the real scores, as `TierIsAbstracted` of `Evaluation`.
`EvaluationRaises` and `FailClosed` are the exception path. `AfterDecision` is the
difference between the callers: the decorator records only what it ran, the LangChain
tool records refusals and successful runs, `/intercept` records everything and
`/decide` nothing. `AppendReceipt` and `RecordBehavior` are the two shared steps of
`record`; generating and signing before them is local and may raise (`ReceiptFails`),
which every caller swallows.

`get_gateway` gives the approval service the same TrustMemory (gateway_server.py:198-212),
and it writes to it from threads of its own: a verdict of `approve` or `deny`, the
result of a tool that `execute_approved_once` ran. `Review` is such an observation, for
any request in the queue, at any time and in any order; which verdicts are possible is
left to `Approvals`, and to allow more than it does is safe here. An approval that an
earlier process left in the file (`Earlier`) is reviewed like one of this process. So an
agent with refusals on record may also have approvals, and then any tier
(`TiersOf`): only while all that is on record is of one sign is its tier known.
`get_stats` reads the decision counts under the lock and
the total after it.

### Evaluation: PolicyEngine, RiskEngine, TrustMemory

A request is what the engines ask of it: type, operation, the word of its tool name
that patterns look for, how many sensitive words its parameters contain, scope,
permission, and the optional `external` and `amount` (a set of at most one value, so
that None is the empty set). `LoadRule` is `load_policies` rule by rule; `LoadEnds` is the
end of the file or the malformed rule at which it stops, whose exception `startup_event`
swallows. `AddByHand` and `RemoveByHand` are the edits that examples and demos make
before they serve; nothing in the program edits rules while it serves. `added` is
history: the same rules unsorted, against which the sorted list is judged. An
append followed by a stable sort is `InsertSorted`: the list with the rule after the
last one whose priority is not greater.

Scores of the risk engine are integers: weights are hundredths, and a half is rounded
to the even neighbour as Python does. The floats of the code give the same score for
every combination of values in its tables. A trust score is an exact fraction; time
advances by half-lives, so that the weight of an observation is a power of two.
`current` is the score that `record_behavior` and `get_score` store and `get_stats` reads.

Loops that accumulate (the sums of `_calculate_score`, the filter of `remove_rule`, the
levels of the Merkle tree and the climb through them) are recursive functions on
numbers, not recursive operators, so that they can be proved about.

### AuditChain and MerkleTree

A hash is an injective tag: the digest of a receipt is its body, the hash of a block is
the sequence of everything hashed into it. `Sign` is local to a call, `AppendEntry` runs
under the lock of the chain. `Errors` is the walk of `verify`. `GetReceipts` is one
request of a client that asks for page after page. `Damage` happens at most once, to a
stored entry: a field that `verify` looks at, the receipt (which it does not look at), a
lost entry, two entries exchanged; calls go on appending after it.

### SimulatedTools

One action is one request to one tool. An operation is the set of the words it
contains, searched in the order of the code, so that "scan_results" is a scan. A
row is an object: tables and results refer to it, and UPDATE changes it in place.
`NewRegistry` is the fresh registry that `/approvals/{id}/execute` makes each time.
`issued` is history: what the ids that were answered named. The data of an UPDATE goes into
the row as it is, a column `_id` included (`Overwritten`); `renumbered` is the history of
that. INSERT writes its own `_id` over the one of the data. A behaviour uses one tool, as
the tools share nothing; that they do not is part of the actions and of the proof.

### AvsSystem

`Intercept` is one step (its interleaving is the matter of `Gateway`); the calls of the
approval loop are taken apart as in `Approvals` where they meet each other: the read of
the status, its write, the tool run, and each write to the trust memory are steps, and
calls overlap in any way, also with those on other requests. `row` is the approval row of
a request, `runs` the runs of its tool, `Direct` being the one by the caller that was
allowed, `granted` history: what some call has written as approved. `Intercept` may be
the last thing a process does: the row is written and the answer lost. `Forget` is a new
process: no trust, no call in flight, the table as it was. `ReviewFails` is any store
operation of a call that raises.

### ApprovalRace

The abstract specification that both `Approvals` and `AvsSystem` implement. Per approval it
has a status, the runs, and three sets of calls: those that saw it pending, those that saw
it approved, and those that ran its tool just now. A call in one of the sets may act on
what it saw whatever has happened since, or end early; nobody else may act. It allows
the two races of the code, and excludes everything else: a decision by a late caller, a
run for a call that never saw an approval, a status that comes back by itself.
`SettledStays` is what remains of finality: denied or executed, with no call left that
looked at it before, is for good.

## 3. Runs

| run | instance | shows |
|---|---|---|
| `approvals_concurrent` | 1 approval, 5 calls, crashes, failing operations | safety of every interleaving; implements `ApprovalRace` |
| `approvals_serial_faults` | 2 approvals, 5 calls, one at a time, crashes and failing operations | refines `RetrySpec`; denial is final |
| `approvals_live` | 1 approval, 3 calls, fair threads, faults | calls are answered, tool runs are written down |
| `gateway_calls` | 2 calls and an approval of an earlier process, 1 agent, 1 observation by the approval service, everything may fail, one statistics reader | all properties of `Gateway` |
| `evaluation` | every prefix of the default policies, 3 edits, an agent with 2 observations of 3 ages, about 80 requests | what the engines promise |
| `audit_trail` | 4 calls, 2 decisions, 2 times, a client with pages of 2, one damage | what the evidence is worth |
| `tools` | 4 requests to one tool, 2 registries, 2 names of each kind | ids, refusals and rows |
| `system` | 2 requests of one agent, 3 overlapping calls of the approval loop, a failing store, a restart | from request to run; implements `ApprovalRace` |
| `violation_...` | 1 approval and 4 calls; 2 governed calls, no failures; an agent and a clock | what documentation and code disagree on |

Bounds. Five calls on one approval are enough for create, two racing decisions, an
execution and a replay, the longest scenario any property speaks of; approvals do not
interact with each other except through the single-caller rule, for which there are
two. In `gateway_calls` the properties relate at most two calls, one of which has
given the agent its history; the statistics reader is a third process, and the approval
service is a fourth, which can turn the record of the agent into a mixed one before the
other call is evaluated. All callers,
policy results, risk classes and endings of a tool are in the instance. In `evaluation`
three edits are enough for two rules of one name and their removal; `Served` picks the
lengths of the file at which an agent behaves and ages, because trust and rules do not
touch each other; the limit of observations is 2 instead of 1000, so that it is
reached. Four entries give the chain a Merkle tree with an odd level, two pages, and an
append after damage; `ProofsLeadToRoot` also takes the receipts twice, for trees of up
to eight leaves with odd levels above the leaves. Four requests are enough to insert,
drop, insert again and look, or to pay, refund twice and scan the ledger. `system` needs one request
that is allowed and one that waits, and three calls: two that race for the same request
and the one that executes it.

What the properties say is written above each of them. In short:

* `Approvals`: a tool runs only after approval (`RunsFollowApproval`), the tables tell
  no stories (`EvidenceHasCause`), an answer can be believed (`AnswersAreTrue`), and
  the two races the code has are confined to calls that overlap
  (`NoDecisionAfterAnswer`, `ReplayBlockedAfterAnswer`, `ImplementsRace`).
* `Gateway`: fail-closed (`RunsOnlyIfAllowed`), conservation of the counters
  (`CountsAddUp`, `ReportAddsUp`, `RejectionsLogged`), agreement of answers, chain and
  trust (`ChainMatchesAnswers`, `TrustHasEvidence`, `QueuedStayUntouched`,
  `RefusedAgentsNeedPolicy`), monotone decisions (`NoRewardForRisk`). Trust has two
  writers: behind what `record` writes stands a receipt, behind what the approval service
  writes stands a request in its queue. A refused agent needs a policy until a success,
  or a human who approved something of it, speaks for it.
* `Evaluation`: the rule that wins (`FirstMatchingRuleWins`), startup with part of the
  file (`PartialLoadFailsClosed`), every default rule but one is of use
  (`DefaultRulesDecide`), worse is never less risky (`RiskGrows`), good and bad evidence
  (`EvidenceMovesScoreItsWay`), stored scores (`StatsAreCurrent`), and the abstraction
  that `Gateway` uses (`TierIsAbstracted`).
* `AuditChain`: the verdict of `verify` is exactly the truth about what it covers
  (`VerifyTellsDamage`), `ProofsLeadToRoot`, `PagesAreComplete`, `ReceiptsAreFound`.
* `SimulatedTools`: `IdsKeepTheirMeaning`, `FailureChangesNothing`,
  `RowsLeaveOnlyWhenAsked`.
* `AvsSystem`: `NothingRunsUnreviewed`, and the whole system implements `ApprovalRace`
  (`ImplementsLoop`). Neither says that a denied request does not run: overlapping
  calls can make it run, as the run `violation_DeniedNeverRuns` shows.

Deadlock checking is off: calls and requests are finitely many, and when all are
answered nothing is left to do. For the approval loop, that each call is answered is a
liveness property instead (`CallsAreAnswered`); the handlers around `intercept` are
straight-line code without a step that waits, and have none.

Fairness. `approvals_live` assumes weak fairness of the steps of a call that has
started: a thread is scheduled until its handler returns, and no step of a handler waits
for anything but a lock that is released after one operation. Arrivals, failures and
crashes are not assumed to happen.

## 4. Disagreements found

Each has a run whose counterexample shows it.

* `RunsAtMostOnce`: two overlapping executions both run the tool
  (approval_service.py:265-324), against "execute_approved_once() sets status to
  'executed' atomically" (approval_service.py:10) and plan.md:67.
* `DeniedNeverRuns`: an overlapping approve and deny both succeed and the denied
  approval runs, against plan.md:68 and gateway_server.py:750.
* `QuarantinedNeverRuns`: a policy result of QUARANTINE is not looked at by `_decide`,
  against default_policies.yaml:60 and docs/ARCHITECTURE.md:47.
* `IdleTrustDecays`: all weights of an agent age alike, the weighted mean does not move,
  and an idle agent stays trusted, against docs/LAUNCH_ASSETS/DESIGN_PARTNER_EMAIL.md:72
  and docs/LAUNCH_ASSETS/GITHUB_RELEASE_NOTES.md:15.

Seen while reading or modelling, and without a run of their own.

Approvals and gateway:
* A crash between the status update and the decision row (approval_service.py:146-152)
  leaves a decided approval without a decision on record, against plan.md:70; and so
  does a decision row that cannot be written, whose caller gets a 500.
* The decorator returns refusals without a receipt (governed.py:171-185) and `/decide`
  never records, against docs/ARCHITECTURE.md:49.
* The docstring of `_decide` puts high risk and untrusted agents before an allowing
  policy (gateway_core.py:264-272), the code after it (320-351).
* Invalid requests are said not to be in the audit chain (gateway_core.py:429-433), but
  `/intercept` and the LangChain tool record them.
* The LangChain tool says that a pending action "has been queued for review" also when
  there is no approval service or its insert failed (langchain_adapter.py:345). The
  default gateway of the decorator has no approval service at all (governed.py:250-256).
* The decorator records ALLOW, a success, also when its function raised (governed.py:199).

Engines:
* ARCHITECTURE.md:206 gives DENY as the default decision, the code REQUIRE_APPROVAL
  (policy_engine.py:241).
* "Production INSERT is quarantined" (default_policies.yaml:237): the rule
  `database_insert_production` (priority 55) is behind `database_insert` (51) and decides
  nothing; `DefaultRulesDecide` names it as the one exception.
* A payment of 0, or without an amount, scores a higher financial impact than one of 50
  (risk_engine.py:347-371), and the weights leave "critical" to payments.

Evidence:
* `verify` of the chain neither hashes a receipt again nor compares the last block with
  the chain head: an altered receipt body and a lost tail pass, against
  docs/LAUNCH_ASSETS/FAQ_AND_OBJECTIONS.md:156.
* Without the package `cryptography` a receipt is signed with a mock signature
  (receipt_generator.py:246-248) that never verifies (281-283).

Tools:
* The "Immutable result" of an INSERT or SELECT (simulated_tools.py:48) holds row objects
  that a later UPDATE changes.
* An UPDATE whose data has a column `_id` writes it into the row (simulated_tools.py:899),
  so that the id a caller was given finds another row, two, or none; and the ids of a
  table that was dropped start again when it is made again (955-983, 864).
  `IdsKeepTheirMeaning` is about a table between two DROPs, and its part about asking for an
  id about tables no such UPDATE has touched.
* DELETE without a condition makes the table before it refuses; UPDATE without one
  changes every row; a payment can be refunded any number of times.
* Every approved execution runs on a fresh registry (gateway_server.py:806), where an
  approved refund never finds its payment and ids start again.

## 5. Proofs

Theorems hold for any set of approvals, calls, agents, tables and so on, for chains
and lists of any length, and for every setting of the fault constants unless stated.

* `ApprovalsProofs`. `RunsFollowApproval` is not inductive: it says nothing of a
  thread that has passed its check and not yet run. `Safety` adds that the program
  counter fits the operation (`OperationsOK`), that a call has written what its step
  says (`WritesOK`), that a status in the table was written by someone (`StatusOK`),
  that a thread past a check was preceded by the write it saw (`ChecksOK`), and what
  remains true after an execution was answered (`ReplayOK`). From it follow
  `RunsFollowApprovalAlways`, `NoDecisionAfterAnswerAlways` and
  `ReplayBlockedAfterAnswerAlways`. The last two are
  action properties: `FirstStep` shows that a step which moves a call off "idle" is one
  of the three reads. `RaceIsImplemented` is the refinement of `ApprovalRace` for any
  number of overlapping calls; `RaceStep` takes the steps of the loop one by one.
  For the evidence, the tables hold only rows with a cause (`TablesOK`), and a
  call at a given step has left exactly the records of the steps before it
  (`RecordOK`). A step changes the record of its own call and only adds to the tables
  (`StepsAreFramed`), so that the record of another call stays (`OtherRecordsStay`).
* `ApprovalsSerialProofs` assume `Serial`. At most one call is in flight, so what a
  thread has read is still there when it writes. `DeniedNeverRunsSerially` and
  `RetryLifecycleSerially` (the refinement, step by step) hold with crashes and failures;
  `LifecycleSerially` is the exactly-once refinement, `ImplementsLifecycle`, for a
  process that does not crash and a store that does not fail.
* `GatewayProofs`. `Safe` says how far a call is and what is known of it there
  (`PathOK`), that a recorded basis explains the decision (`BasisOK`) and that only
  allowed calls ran (`RanOK`). `DecideMonotone` is about `_decide` alone; with `BasisOK`
  it gives `NoRewardForRiskAlways` for any two calls. `CountsAddUpAlways` and
  `ReportAddsUpAlways` count the undecided calls with the library's facts about
  cardinality. The log and the chain are sequences whose entries belong to calls:
  `LogStep`, `ChainStep`, `TrustStep` and `QueueStep` keep for each call the positions
  it owns, and `EvidenceInvariant` joins them for the other four properties.
  `RefusedAgentsNeedPolicyAlways` adds that a refusal with a receipt is among the
  observations of its agent (`RecordedOK`), which leaves one tier when neither a success
  nor an approval is. The approval service changes observations only (`ReviewLeaves`), and
  only adds some of its own, for a request in the queue.
* `AuditChainProofs`. While nothing is damaged every entry links to the one before and
  the head to the last (`HonestOK`); a block hash is as long as its position, so it
  occurs once. `VerdictAfterDamage` takes the kinds of damage one by one, and
  `VerdictAfterAppend` shows that appending neither hides nor invents a fault, but
  that it discovers a lost tail. Pages and lookups follow from the chain being what
  was appended. `ProofsLeadToRootAlways` is about a tree of any number of leaves:
  levels halve until one node is left (`HeightType`), the position of a leaf stays
  within its level (`PositionType`), and the climb along a proof is the node of the
  tree above the leaf, level by level (`NodeAbove`, `ProofLeadsToRoot`). As a hash tells
  what was hashed, a climb that ends in the same root began at the same leaf
  (`ClimbInjective`, `ProofTells`).
* `EvaluationProofs`, in four parts.
  *Trust.* `TrustInv` says what the observations are, that the stored score is the one
  of now, and that `seen` are the kinds on record or, once the oldest were dropped,
  more. The sums behind a score are compared term by term (`TotalLeq`, `TotalTimes`,
  `TotalAppend`, `TotalTail`); its mean lies between the extreme deltas
  (`MeanBounds`), which gives the tiers of `TierIsAbstractedAlways` and the direction
  in which one more observation moves it (`MeanMoves`, `RecordMoves`), the drop of the
  oldest included. `PassKeepsScore` halves all weights and leaves the fraction the same.
  *Rules.* The sorted list is no more than a list in order, which does not determine
  the winner. `RulesInv` adds the permutation: a function `p` takes each place of the
  list to the place at which its rule was added, covers all of them, and increases among
  equals (`SortedBy`). `InsertKeepsOrder` and `RemoveKeepsOrder` give the new
  permutation; `FirstWins` reads the winner off it.
  *The file.* Each condition of the 23 default rules is spelled out once
  (`FileRules`, `PaymentRules` and so on). `RulesApart` compares the rules that deny
  or ask with those that do not, and `EachIsAsked` finds for each rule a request that it
  alone decides; these give `PartialLoadFailsClosedAlways`, for any part of the file, and
  `DefaultRulesDecideAlways`.
  *Risk.* `NoBetterIsNoLess` takes the factors one by one: a request that is no better
  in any field is no lower in any factor, hence in the sum, in its rounding to even
  (`RoundedGrows`) and in its class (`ClassGrows`).
* `Recursion`. A recursive definition is the choice of a function that satisfies an
  equation; `RecursionEquation` shows that one exists, from functions on initial
  parts that agree where they meet (`Unique`, `Initial`). The other modules instantiate
  it, with the start and the step of their recursion in the place of `First` and `Step`.
  `Induction` takes a set where the library's theorem takes a predicate, and rests on the
  least element of a set of numbers.
* `SimulatedToolsProofs`. A request changes the state of its tool only
  (`OneToolAtATime`), and a table shrinks by DROP or by a DELETE with a condition
  (`DatabaseRows`). `StateOK` is the inductive invariant behind the other theorems:
  numbers in the ledger are distinct and below its counter, a refund has its payment
  before it, a row carries the id it was given unless it was `renumbered` (`NumbersOK`), row ids are below the counter of their table, and an id that was answered
  still names what it did. Without the bounds by the counters, a new id could be an old
  one; each tool has its own step lemma.
* `AvsSystemProofs`. `SystemInv` relates the answer, the row and the runs of each request
  (`AnswerOK`, `RunsOK`), and says of a call in flight that it found a row, and an approved one
  before it ran (`LooksOK`), which is what remains true of it while others write the row.
  From it follow `NothingRunsUnreviewedAlways` and, with `LoopStep`, the refinement
  `LoopIsImplemented`. `SettledRequestsStay` is read off the abstract steps.

The assumptions on constants are named in the modules that declare them: `None` is no
approval and no request, `Direct` is no call, `Earlier` holds no calls of this process,
switches are Booleans, bounds are numbers, names of tables are not empty. A rule that is added by hand has a number as its priority and one of
the four decisions (`RulesAssumption`; `PolicyRule` and `load_policies` see to that), at least one
observation is kept (`TrustAssumption`), and the bound of the edits is a number
(`BoundAssumption`).

Every invariant and every action property that a passing run checks is stated by a theorem.
Only model-checked: what is said of liveness, which the proof system does not do, and the
counterexamples of section 4.

## 6. What is left

1. The lazily created default gateway of the decorator.

## 7. Not modelled

Hashing and signing themselves, the wording of reasons and logs, the SQL engine (a
statement under the lock is atomic and durable), key files, the command line, the
demos and the adapters that only translate requests. The file and HTTP sandboxes:
what they decide rests on the resolution of paths, on URLs and on DNS, which a model
could only assume, and the checks around it have no state and a fixed order. The
latency list of the server: nothing but one average reads it. PROJECT.json gives the
reason per component.
