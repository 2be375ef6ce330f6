----------------------------- MODULE Approvals -----------------------------
(***************************************************************************)
(* The approval loop: core/approval_service.py over storage/sqlite_store.py.*)
(*                                                                         *)
(* Every API call runs in a thread of the server.  A store operation takes *)
(* the store's lock and commits on its own, so it is one atomic step, but  *)
(* nothing holds a lock across two of them: calls interleave between any   *)
(* two store operations, and a crash or a failing operation leaves the     *)
(* earlier ones done.                                                      *)
(*                                                                         *)
(* Requests are one-shot: each is one call of one operation.  The first    *)
(* step of a call is its read (or, for create, its insert): nothing before *)
(* it touches shared state.                                                *)
(***************************************************************************)
EXTENDS Integers

CONSTANTS Approvals,     \* approval ids: the uuid4 values that may be drawn
          Requests,      \* API calls
          None,          \* no approval, no request
          Serial,        \* TRUE: one caller, who waits for each answer
          CanCrash,      \* TRUE: the process may die and restart
          StoreCanFail   \* TRUE: a store operation may raise

ASSUME NoneAssumption == None \notin Approvals /\ None \notin Requests
ASSUME ModeAssumption == /\ Serial \in BOOLEAN
                         /\ CanCrash \in BOOLEAN
                         /\ StoreCanFail \in BOOLEAN

VARIABLES
  row,          \* table approval_requests
  decisions,    \* table approval_decisions
  audit,        \* table audit_events
  trustEvents,  \* table trust_events
  memory,       \* observations of TrustMemory: in this process only
  call,         \* call[r]: the operation and the approval of request r
  pc,           \* pc[r]: the next step of request r
  reply,        \* reply[r]: what the caller of r was told
  wrote,        \* wrote[r]: the status r wrote into its row (history)
  ran           \* ran[r]: how the tool run made by r ended; history, and
                \* the local tool_result of execute_approved_once

tables  == <<row, decisions, audit, trustEvents>>
history == <<wrote, ran>>
vars    == <<row, decisions, audit, trustEvents, memory, call, pc, reply,
             wrote, ran>>

-----------------------------------------------------------------------------
Statuses == {"absent", "pending", "approved", "denied", "executed"}
Verdicts == {"approved", "denied"}
Outcomes == {"success", "failure"}

Rows == [status  : Statuses,
         decider : Requests \cup {None},
         result  : Outcomes \cup {"none"}]

Calls == [op : {"create", "approve", "deny", "execute"}, id : Approvals]
NoCall == [op |-> "none", id |-> None]

Steps == {"auditCreated", "update", "decision", "auditDecision", "rememberDecision",
          "trustEvent", "run", "record", "auditExecuted", "rememberExecution",
          "auditReplay"}

InFlight == {r \in Requests : pc[r] \in Steps}

Goto(r, step) == pc' = [pc EXCEPT ![r] = step]

Return(r, value) == /\ pc' = [pc EXCEPT ![r] = "done"]
                    /\ reply' = [reply EXCEPT ![r] = value]

\* A thread starts on request r.  A serial caller has no other one in flight.
Begin(r, op, a) == /\ pc[r] = "idle"
                   /\ Serial => InFlight = {}
                   /\ call' = [call EXCEPT ![r] = [op |-> op, id |-> a]]

Verdict(r) == IF call[r].op = "approve" THEN "approved" ELSE "denied"

Init == /\ row = [a \in Approvals |->
                    [status |-> "absent", decider |-> None, result |-> "none"]]
        /\ decisions = {} /\ audit = {} /\ trustEvents = {} /\ memory = {}
        /\ call = [r \in Requests |-> NoCall]
        /\ pc = [r \in Requests |-> "idle"]
        /\ reply = [r \in Requests |-> "none"]
        /\ wrote = [r \in Requests |-> "none"]
        /\ ran = [r \in Requests |-> "none"]

-----------------------------------------------------------------------------
(* ApprovalService.create_approval_request: Gateway.intercept calls it for *)
(* a REQUIRE_APPROVAL decision.  The id is fresh.                          *)

CreateInsert(r, a) ==
    /\ Begin(r, "create", a)
    /\ row[a].status = "absent"
    /\ row' = [row EXCEPT ![a].status = "pending"]
    /\ wrote' = [wrote EXCEPT ![r] = "pending"]
    /\ Goto(r, "auditCreated")
    /\ UNCHANGED <<decisions, audit, trustEvents, memory, reply, ran>>

AddAudit(r, event) ==
    audit' = audit \cup {[req |-> r, id |-> call[r].id, event |-> event]}

AuditCreated(r) ==
    /\ pc[r] = "auditCreated"
    /\ AddAudit(r, "approval_created")
    /\ Return(r, "ok")
    /\ UNCHANGED <<row, decisions, trustEvents, memory, call, wrote, ran>>

-----------------------------------------------------------------------------
(* approve and deny: the same steps with another verdict.                  *)

\* Mutant: any approval that exists may be decided.
MayDecideAgain(a) == row[a].status # "absent"

\* The check and the update that relies on it are two store operations.
MayDecide(a) == row[a].status = "pending"

ReadForDecision(r, op, a) ==
    /\ op \in {"approve", "deny"}
    /\ Begin(r, op, a)
    /\ \/ MayDecide(a) /\ Goto(r, "update") /\ UNCHANGED reply
       \/ ~MayDecide(a) /\ Return(r, "refused")
    /\ UNCHANGED <<tables, memory, history>>

\* Mutant: the decision row is forgotten.
UpdateThenAudit(r) ==
    /\ pc[r] = "update"
    /\ row' = [row EXCEPT ![call[r].id].status = Verdict(r),
                          ![call[r].id].decider = r]
    /\ wrote' = [wrote EXCEPT ![r] = Verdict(r)]
    /\ Goto(r, "auditDecision")
    /\ UNCHANGED <<decisions, audit, trustEvents, memory, call, reply, ran>>

\* UPDATE ... WHERE approval_id = ?: whatever the status is by now.
UpdateStatus(r) ==
    /\ pc[r] = "update"
    /\ row' = [row EXCEPT ![call[r].id].status = Verdict(r),
                          ![call[r].id].decider = r]
    /\ wrote' = [wrote EXCEPT ![r] = Verdict(r)]
    /\ Goto(r, "decision")
    /\ UNCHANGED <<decisions, audit, trustEvents, memory, call, reply, ran>>

RecordDecision(r) ==
    /\ pc[r] = "decision"
    /\ decisions' = decisions \cup
                      {[req |-> r, id |-> call[r].id, decision |-> Verdict(r)]}
    /\ Goto(r, "auditDecision")
    /\ UNCHANGED <<row, audit, trustEvents, memory, call, reply, history>>

DecisionEvent(r) == IF Verdict(r) = "approved" THEN "approval_approved"
                                              ELSE "approval_denied"

AuditDecision(r) ==
    /\ pc[r] = "auditDecision"
    /\ AddAudit(r, DecisionEvent(r))
    /\ Goto(r, "rememberDecision")
    /\ UNCHANGED <<row, decisions, trustEvents, memory, call, reply, history>>

Remember(r, kind) == memory' = memory \cup {[req |-> r, kind |-> kind]}

\* Mutant: two threads at TrustMemory wait for each other.
RememberAlone(r) ==
    /\ pc[r] = "rememberDecision"
    /\ \A q \in Requests \ {r} : pc[q] # "rememberDecision"
    /\ Remember(r, IF Verdict(r) = "approved" THEN "approval_granted"
                                              ELSE "approval_denied")
    /\ Goto(r, "trustEvent")
    /\ UNCHANGED <<tables, call, reply, history>>

RememberDecision(r) ==
    /\ pc[r] = "rememberDecision"
    /\ Remember(r, IF Verdict(r) = "approved" THEN "approval_granted"
                                              ELSE "approval_denied")
    /\ Goto(r, "trustEvent")
    /\ UNCHANGED <<tables, call, reply, history>>

Delta(verdict) == IF verdict = "approved" THEN 3 ELSE -7

RecordTrustEvent(r) ==
    /\ pc[r] = "trustEvent"
    /\ trustEvents' = trustEvents \cup
                {[req |-> r, id |-> call[r].id, delta |-> Delta(Verdict(r))]}
    /\ Return(r, "ok")
    /\ UNCHANGED <<row, decisions, audit, memory, call, history>>

-----------------------------------------------------------------------------
(* execute_approved_once.                                                  *)

\* Mutants: the status check lets one more status through.
MayRunPending(a) == row[a].status \in {"pending", "approved"}
MayRunDenied(a) == row[a].status \in {"denied", "approved"}
MayRunAgain(a) == row[a].status \in {"approved", "executed"}

MayRun(a) == row[a].status = "approved"

\* Mutant: every refusal is reported as a replay.
RefuseAsReplay(r, a) ==
    /\ Begin(r, "execute", a)
    /\ \/ MayRun(a) /\ Goto(r, "run")
       \/ ~MayRun(a) /\ Goto(r, "auditReplay")
    /\ UNCHANGED <<tables, memory, reply, history>>

ReadForExecute(r, a) ==
    /\ Begin(r, "execute", a)
    /\ \/ MayRun(a) /\ Goto(r, "run") /\ UNCHANGED reply
       \/ row[a].status = "executed" /\ Goto(r, "auditReplay") /\ UNCHANGED reply
       \/ ~MayRun(a) /\ row[a].status # "executed" /\ Return(r, "refused")
    /\ UNCHANGED <<tables, memory, history>>

AuditReplay(r) ==
    /\ pc[r] = "auditReplay"
    /\ AddAudit(r, "approval_replay_blocked")
    /\ Return(r, "refused")
    /\ UNCHANGED <<row, decisions, trustEvents, memory, call, history>>

\* Mutant: a tool that raises leaves no result.
RunWithoutResult(r) ==
    /\ pc[r] = "run"
    /\ \E outcome \in {"success", "none"} : ran' = [ran EXCEPT ![r] = outcome]
    /\ Goto(r, "record")
    /\ UNCHANGED <<tables, memory, call, reply, wrote>>

\* Mutant: a failed run is returned at once, and not written down.
ReturnFailure(r) ==
    /\ pc[r] = "run"
    /\ \E outcome \in Outcomes :
          /\ ran' = [ran EXCEPT ![r] = outcome]
          /\ IF outcome = "failure" THEN Return(r, "ok")
                                    ELSE Goto(r, "record") /\ UNCHANGED reply
    /\ UNCHANGED <<tables, memory, call, wrote>>

\* tool_registry.execute: a tool that raises counts as a failure.
RunTool(r) ==
    /\ pc[r] = "run"
    /\ \E outcome \in Outcomes : ran' = [ran EXCEPT ![r] = outcome]
    /\ Goto(r, "record")
    /\ UNCHANGED <<tables, memory, call, reply, wrote>>

\* Again an UPDATE by id alone, after the tool has run.
RecordExecution(r) ==
    /\ pc[r] = "record"
    /\ row' = [row EXCEPT ![call[r].id].status = "executed",
                          ![call[r].id].result = ran[r]]
    /\ wrote' = [wrote EXCEPT ![r] = "executed"]
    /\ Goto(r, "auditExecuted")
    /\ UNCHANGED <<decisions, audit, trustEvents, memory, call, reply, ran>>

AuditExecuted(r) ==
    /\ pc[r] = "auditExecuted"
    /\ AddAudit(r, "approval_executed")
    /\ Goto(r, "rememberExecution")
    /\ UNCHANGED <<row, decisions, trustEvents, memory, call, reply, history>>

RememberExecution(r) ==
    /\ pc[r] = "rememberExecution"
    /\ Remember(r, ran[r])
    /\ Return(r, "ok")
    /\ UNCHANGED <<tables, call, history>>

-----------------------------------------------------------------------------
(* Faults.                                                                 *)

StoreSteps == {"auditCreated", "update", "decision", "auditDecision", "trustEvent",
               "record", "auditExecuted", "auditReplay"}

\* The operation raises and changes nothing; the exception leaves the call.
StoreFails(r) ==
    /\ StoreCanFail
    /\ pc[r] \in StoreSteps
    /\ Return(r, "error")
    /\ UNCHANGED <<tables, memory, call, history>>

\* The process dies and starts again.  The file survives (init_schema creates
\* only what is missing); threads and TrustMemory do not.
CrashAndRestart ==
    /\ CanCrash
    /\ pc' = [r \in Requests |-> IF r \in InFlight THEN "lost" ELSE pc[r]]
    /\ memory' = {}
    /\ UNCHANGED <<tables, call, reply, history>>

-----------------------------------------------------------------------------
Continue(r) == \/ AuditCreated(r)
               \/ UpdateStatus(r) \/ RecordDecision(r) \/ AuditDecision(r)
               \/ RememberDecision(r) \/ RecordTrustEvent(r)
               \/ RunTool(r) \/ RecordExecution(r) \/ AuditExecuted(r)
               \/ RememberExecution(r) \/ AuditReplay(r)

Arrive(r) == \E a \in Approvals :
               \/ CreateInsert(r, a)
               \/ \E op \in {"approve", "deny"} : ReadForDecision(r, op, a)
               \/ ReadForExecute(r, a)

Next == \/ \E r \in Requests : Arrive(r) \/ Continue(r) \/ StoreFails(r)
        \/ CrashAndRestart

Spec == Init /\ [][Next]_vars

\* A thread the server has started is scheduled until its call returns.
FairSpec == Spec /\ \A r \in Requests : WF_vars(Continue(r))

-----------------------------------------------------------------------------
(* Properties.                                                             *)

\* Every variable holds a value of its type, the tables hold well-formed rows,
\* and a thread past its tool call holds a result.
TypeOK ==
    /\ row \in [Approvals -> Rows]
    /\ decisions \subseteq [req : Requests, id : Approvals, decision : Verdicts]
    /\ audit \subseteq [req : Requests, id : Approvals,
                        event : {"approval_created", "approval_approved",
                                 "approval_denied", "approval_executed",
                                 "approval_replay_blocked"}]
    /\ trustEvents \subseteq [req : Requests, id : Approvals, delta : {3, -7}]
    /\ memory \subseteq [req : Requests, kind : Outcomes \cup
                                      {"approval_granted", "approval_denied"}]
    /\ call \in [Requests -> Calls \cup {NoCall}]
    /\ pc \in [Requests -> Steps \cup {"idle", "done", "lost"}]
    /\ reply \in [Requests -> {"none", "ok", "refused", "error"}]
    /\ wrote \in [Requests -> (Statuses \ {"absent"}) \cup {"none"}]
    /\ ran \in [Requests -> Outcomes \cup {"none"}]
    /\ \A r \in Requests :
          /\ pc[r] # "idle" => call[r] \in Calls
          /\ pc[r] \in {"record", "auditExecuted", "rememberExecution"}
                => ran[r] \in Outcomes

Ran(r) == ran[r] # "none"
Runs(a) == {r \in Requests : call[r].id = a /\ Ran(r)}

\* "REQUIRE_APPROVAL cannot execute before approval" (plan.md): however calls
\* interleave, fail or are cut off, a tool runs only for an approval that some
\* call of approve() had by then written as approved.
RunsFollowApproval ==
    \A r \in Requests : Ran(r) =>
        \E q \in Requests : wrote[q] = "approved" /\ call[q].id = call[r].id

\* The tables tell no stories: a decision row, an audit event or a trust event
\* is there only if the write it reports was made, and a replay is reported
\* only for an approval whose execution was recorded.
EvidenceHasCause ==
    /\ \A d \in decisions : wrote[d.req] = d.decision
    /\ \A t \in trustEvents : \E d \in decisions :
          d.req = t.req /\ d.id = t.id /\ t.delta = Delta(d.decision)
    /\ \A e \in audit :
          CASE e.event = "approval_created" -> wrote[e.req] = "pending"
            [] e.event = "approval_approved" -> wrote[e.req] = "approved"
            [] e.event = "approval_denied" -> wrote[e.req] = "denied"
            [] e.event = "approval_executed" -> wrote[e.req] = "executed" /\ Ran(e.req)
            [] OTHER -> \E q \in Requests :
                           wrote[q] = "executed" /\ call[q].id = e.id

HasAudit(r, event) == [req |-> r, id |-> call[r].id, event |-> event] \in audit

\* What the tables must hold for a call that answered with success.
Evidence(r) ==
    CASE call[r].op = "create" -> HasAudit(r, "approval_created")
      [] call[r].op \in {"approve", "deny"} ->
           /\ wrote[r] = Verdict(r)
           /\ [req |-> r, id |-> call[r].id, decision |-> Verdict(r)] \in decisions
           /\ HasAudit(r, DecisionEvent(r))
           /\ [req |-> r, id |-> call[r].id, delta |-> Delta(Verdict(r))] \in trustEvents
      [] OTHER -> Ran(r) /\ wrote[r] = "executed" /\ HasAudit(r, "approval_executed")

\* A caller may believe the answer, whatever crashes and failures other calls
\* meet before or after it: success means that the whole record of the call is
\* in the file ("All approval decisions are persisted", plan.md), and a refusal
\* means that the call moved no approval and ran no tool.
AnswersAreTrue ==
    \A r \in Requests :
        /\ reply[r] = "ok" => Evidence(r)
        /\ reply[r] = "refused" =>
              /\ wrote[r] = "none" /\ ~Ran(r)
              /\ \A d \in decisions : d.req # r

\* Two decisions on one approval can both be made only by calls that overlap:
\* once a decision has been answered, no call that arrives later passes the
\* pending check of that approval.
NoDecisionAfterAnswer ==
    [][\A r, q \in Requests :
          /\ pc[r] = "idle" /\ pc'[r] = "update"
          /\ call[q].op \in {"approve", "deny"} /\ reply[q] = "ok"
          => call[q].id # call'[r].id]_vars

\* The verdicts written into the row of an approval.
DecidersOf(a) == {q \in Requests : call[q].id = a /\ wrote[q] \in Verdicts}

\* Replay protection holds for an approval that was decided once: when an
\* execution has been answered, no later call passes the approved check, unless
\* two decisions raced and the later one overwrote the executed status.
ReplayBlockedAfterAnswer ==
    [][\A r, q \in Requests :
          /\ pc[r] = "idle" /\ pc'[r] = "run"
          /\ call[q].op = "execute" /\ reply[q] = "ok" /\ call[q].id = call'[r].id
          => \E d, e \in DecidersOf(call[q].id) : d # e]_vars

\* "Approved action executes once only" (plan.md, and the class docstring of
\* ApprovalService: "a second call returns None").
RunsAtMostOnce == \A a \in Approvals : \A r, q \in Runs(a) : r = q

\* "Denied action never executes" (plan.md): no tool runs on behalf of an
\* approval that any call has denied.
DeniedNeverRuns ==
    \A r, q \in Requests : Ran(r) /\ wrote[q] = "denied" => call[r].id # call[q].id

\* A tool that ran is written down, unless the write itself fails or the
\* process dies: no schedule leaves the call hanging after its side effect.
RunsAreRecorded ==
    \A r \in Requests :
        Ran(r) ~> (wrote[r] = "executed" \/ reply[r] = "error" \/ pc[r] = "lost")

\* Every call the server admits is answered, unless the process dies under it.
CallsAreAnswered ==
    \A r \in Requests : pc[r] \in Steps ~> (reply[r] # "none" \/ pc[r] = "lost")

-----------------------------------------------------------------------------
(* The loop against what it promises.                                      *)

\* Exactly once, with the tool run as the step that spends the approval.
Once == INSTANCE ApprovalLifecycle WITH
    status <- [a \in Approvals |-> IF Runs(a) # {} THEN "executed" ELSE row[a].status],
    runs   <- [a \in Approvals |-> Runs(a)]

\* At least once, with the status as it stands in the table.
AtLeastOnce == INSTANCE ApprovalLifecycle WITH
    status <- [a \in Approvals |-> row[a].status],
    runs   <- [a \in Approvals |-> Runs(a)]

\* The calls that are at this step of approval a.
At(step, a) == {r \in Requests : pc[r] = step /\ call[r].id = a}

\* With nobody waiting for anybody.
Race == INSTANCE ApprovalRace WITH
    Calls    <- Requests,
    status   <- [a \in Approvals |-> row[a].status],
    runs     <- [a \in Approvals |-> Runs(a)],
    deciding <- [a \in Approvals |-> At("update", a)],
    running  <- [a \in Approvals |-> At("run", a)],
    spending <- [a \in Approvals |-> At("record", a)]

\* However calls overlap, fail or are cut off, a status moves only as a call that
\* looked at it in time moves it, and a tool runs only for a call that saw its
\* approval approved: what is settled with no such call left stays settled.
ImplementsRace == Race!Spec

\* A single caller on a process without faults sees the documented life cycle:
\* pending, approved, executed exactly once; pending, denied forever.
ImplementsLifecycle == Once!Spec

\* A single caller on a process that crashes and on a store that fails still
\* sees the life cycle, except that an approved tool may run more than once.
ImplementsRetryLifecycle == AtLeastOnce!RetrySpec
=============================================================================
