----------------------------- MODULE AvsSystem -----------------------------
(***************************************************************************)
(* The server as a whole: intercept and the caller that acts on its answer *)
(* (module Gateway, one operation per step), the API calls of the approval *)
(* loop (module Approvals: what each reads, writes and runs is a step of   *)
(* its own, and the calls interleave between any two), and the trust       *)
(* memory of one agent (module TrustMemory), which all of them write and   *)
(* intercept reads.  The approval table outlives the process; the trust    *)
(* memory and the calls in flight do not.                                  *)
(***************************************************************************)
EXTENDS TrustMemory, Decision

CONSTANTS
  Requests,     \* action requests, each intercepted once
  Reviews,      \* API calls of the approval loop: approve, deny, execute
  Direct,       \* the run by the caller that was allowed
  HasService,   \* TRUE: the gateway has an approval service
  CanFail,      \* TRUE: the store may raise
  MaxRestarts   \* bound: how often the process dies

ASSUME SystemAssumption ==
    Direct \notin Reviews /\ HasService \in BOOLEAN /\ CanFail \in BOOLEAN
    /\ MaxRestarts \in Nat

VARIABLES
  answer,      \* what the caller was told; "lost" when the process died first
  basis,       \* what the answer was made of
  row,         \* the row of the request in approval_requests
  runs,        \* the runs of its tool
  recorded,    \* the requests whose receipt was recorded
  review,      \* review[r]: what call r asks of which request
  pc,          \* pc[r]: the next step of call r
  granted,     \* history: the requests some call has written as approved
  restarts

request == <<answer, basis>>
memory  == trustVars
calls   == <<review, pc>>
vars    == <<answer, basis, row, runs, recorded, review, pc, granted, restarts,
             observations, current, idle>>

Answers  == Decisions \cup {"none", "lost"}
Statuses == {"absent", "pending", "approved", "denied", "executed"}
NoBasis  == [policy |-> "none"]
Bases    == [policy : PolicyResults, risk : Risks, tier : Tiers]
Steps    == {"write", "remember", "run", "record", "rememberRun"}
Asks     == [op : {"approved", "denied", "execute"}, request : Requests]
NoAsk    == [op |-> "none"]

Init ==
    /\ answer = [q \in Requests |-> "none"]
    /\ basis = [q \in Requests |-> NoBasis]
    /\ row = [q \in Requests |-> "absent"]
    /\ runs = [q \in Requests |-> {}]
    /\ recorded = {} /\ granted = {} /\ restarts = 0
    /\ review = [r \in Reviews |-> NoAsk]
    /\ pc = [r \in Reviews |-> "idle"]
    /\ TrustInit

\* A new process: the memory is empty, no call is left, the table is as it was.
Forget ==
    /\ restarts < MaxRestarts /\ restarts' = restarts + 1
    /\ observations' = <<>> /\ current' = Score(<<>>) /\ idle' = 0
    /\ pc' = [r \in Reviews |-> IF pc[r] \in Steps THEN "done" ELSE pc[r]]

SetRow(q, status) == row' = [row EXCEPT ![q] = status]
AddRun(q, run) == runs' = [runs EXCEPT ![q] = @ \cup {run}]

-----------------------------------------------------------------------------
(* intercept and its callers.                                              *)

\* Mutant: whatever is not allowed is queued.
QueueUnlessAllowed(q, d) ==
    IF d # "allow" /\ HasService
      THEN SetRow(q, "pending") \/ (CanFail /\ UNCHANGED row)
      ELSE UNCHANGED row

\* The approval queue; its exceptions are swallowed, and without an approval
\* service (the default gateway of the decorator has none) there is no queue.
Queue(q, d) ==
    IF d = "require_approval" /\ HasService
      THEN SetRow(q, "pending") \/ (CanFail /\ UNCHANGED row)
      ELSE UNCHANGED row

\* The process may die when the row is written and nobody was told.
Intercept(q) ==
    /\ answer[q] = "none"
    /\ \E policy \in PolicyResults, risk \in Risks :
          LET d == Decide(policy, risk, TierNow)
          IN  /\ basis' = [basis EXCEPT ![q] = [policy |-> policy, risk |-> risk,
                                                tier |-> TierNow]]
              /\ Queue(q, d)
              /\ \/ /\ answer' = [answer EXCEPT ![q] = d]
                    /\ IF observations = <<>> THEN UNCHANGED memory ELSE GetScore
                    /\ UNCHANGED <<pc, restarts>>
                 \/ answer' = [answer EXCEPT ![q] = "lost"] /\ Forget
    /\ UNCHANGED <<runs, recorded, review, granted>>

\* The caller that was allowed runs its tool.
RunAllowed(q) ==
    /\ answer[q] = "allow" /\ Direct \notin runs[q] /\ q \notin recorded
    /\ AddRun(q, Direct)
    /\ UNCHANGED <<request, row, recorded, calls, granted, restarts, memory>>

Moves == {"allow", "deny", "quarantine"}
Behavior(d) == CASE d = "allow" -> "success" [] d = "deny" -> "failure"
                 [] OTHER -> "quarantine"

\* record: a receipt, and trust unless a human is waited for.  It comes after the
\* tool (or without it, for /intercept), or never.
RecordAnswer(q) ==
    /\ answer[q] \in Decisions /\ q \notin recorded
    /\ recorded' = recorded \cup {q}
    /\ IF answer[q] \in Moves THEN Record(Behavior(answer[q])) ELSE UNCHANGED memory
    /\ UNCHANGED <<request, row, runs, calls, granted, restarts>>

-----------------------------------------------------------------------------
(* The approval loop.  Each call reads the row and acts on it later.       *)

Starts(r, op, q, step) ==
    /\ pc[r] = "idle"
    /\ review' = [review EXCEPT ![r] = [op |-> op, request |-> q]]
    /\ pc' = [pc EXCEPT ![r] = step]
    /\ UNCHANGED <<request, row, runs, recorded, granted, restarts, memory>>

Continues(r, step, next) ==
    /\ pc[r] = step /\ pc' = [pc EXCEPT ![r] = next]
    /\ UNCHANGED <<request, recorded, review, restarts>>

\* approve and deny: a call that finds the row otherwise is refused and leaves nothing.
ReadForDecision(r, q, verdict) == row[q] = "pending" /\ Starts(r, verdict, q, "write")

\* The status is written whatever it is by now.
WriteDecision(r) ==
    /\ Continues(r, "write", "remember")
    /\ SetRow(review[r].request, review[r].op)
    /\ granted' = IF review[r].op = "approved" THEN granted \cup {review[r].request}
                  ELSE granted
    /\ UNCHANGED <<runs, memory>>

RememberDecision(r) ==
    /\ Continues(r, "remember", "done")
    /\ Record(IF review[r].op = "approved" THEN "approval_granted" ELSE "approval_denied")
    /\ UNCHANGED <<row, runs, granted>>

\* Mutant: only a denial stops an execution.
MayExecuteUndenied(q) == row[q] \in {"pending", "approved"}

MayExecute(q) == row[q] = "approved"

\* execute: a call that finds the row otherwise runs nothing.
ReadForExecute(r, q) == MayExecute(q) /\ Starts(r, "execute", q, "run")

\* The tool runs, whatever the status is by now.
RunApproved(r) ==
    /\ Continues(r, "run", "record")
    /\ AddRun(review[r].request, r)
    /\ UNCHANGED <<row, granted, memory>>

RecordExecution(r) ==
    /\ Continues(r, "record", "rememberRun")
    /\ SetRow(review[r].request, "executed")
    /\ UNCHANGED <<runs, granted, memory>>

\* Trust follows the result of the tool.
RememberExecution(r) ==
    /\ Continues(r, "rememberRun", "done")
    /\ \E kind \in {"success", "failure"} : Record(kind)
    /\ UNCHANGED <<row, runs, granted>>

\* A store operation raises - the status write itself, or one of those between it and
\* the trust memory: the exception leaves the call, and what it wrote stays.
ReviewFails(r) ==
    /\ CanFail
    /\ \E step \in Steps \ {"run"} : Continues(r, step, "done")
    /\ UNCHANGED <<row, runs, granted, memory>>

Review(r) ==
    \/ \E q \in Requests :
          \/ \E verdict \in {"approved", "denied"} : ReadForDecision(r, q, verdict)
          \/ ReadForExecute(r, q)
    \/ WriteDecision(r) \/ RememberDecision(r)
    \/ RunApproved(r) \/ RecordExecution(r) \/ RememberExecution(r)
    \/ ReviewFails(r)

Restart ==
    /\ Forget
    /\ UNCHANGED <<request, row, runs, recorded, review, granted>>

Next ==
    \/ \E q \in Requests : Intercept(q) \/ RunAllowed(q) \/ RecordAnswer(q)
    \/ \E r \in Reviews : Review(r)
    \/ Restart

Spec == Init /\ [][Next]_vars

-----------------------------------------------------------------------------
(* Properties.                                                             *)

\* Every variable holds a value of its type.
TypeOK ==
    /\ answer \in [Requests -> Answers]
    /\ basis \in [Requests -> Bases \cup {NoBasis}]
    /\ row \in [Requests -> Statuses]
    /\ runs \in [Requests -> SUBSET (Reviews \cup {Direct})]
    /\ recorded \subseteq Requests /\ granted \subseteq Requests
    /\ review \in [Reviews -> Asks \cup {NoAsk}]
    /\ pc \in [Reviews -> Steps \cup {"idle", "done"}]
    /\ restarts \in 0 .. MaxRestarts

Approved(q) == runs[q] \cap Reviews # {}

\* From end to end: a tool runs because intercept allowed its request, or because a
\* human had approved it by then (even if another denied it since), never for both
\* reasons, and never for a request that a policy denied or that was at critical risk;
\* through overlapping reviews, lost answers, failing stores and restarts that forget
\* the trust.
NothingRunsUnreviewed ==
    \A q \in Requests :
        /\ Direct \in runs[q] => answer[q] = "allow" /\ row[q] = "absent"
        /\ Approved(q) => q \in granted /\ answer[q] \in {"require_approval", "lost"}
        /\ runs[q] # {} => basis[q].policy # "deny" /\ basis[q].risk # "critical"

\* The calls that are at this step of an approval of q.
At(step, q) == {r \in Reviews : pc[r] = step /\ review[r].request = q}

\* What the approval loop promises, seen from the requests of the whole system.
Loop == INSTANCE ApprovalRace WITH
    Approvals <- Requests,
    Calls <- Reviews,
    status <- row,
    runs <- [q \in Requests |-> runs[q] \cap Reviews],
    deciding <- [q \in Requests |-> At("write", q)],
    running <- [q \in Requests |-> At("run", q)],
    spending <- [q \in Requests |-> At("record", q)]

\* A request is queued by intercept only; its status then moves and its tool runs as
\* the calls that saw it pending, or approved, or ran it, make it - with everything
\* else the system does around them.
ImplementsLoop == Loop!Spec
=============================================================================
