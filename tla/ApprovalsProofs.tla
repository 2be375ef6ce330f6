--------------------------- MODULE ApprovalsProofs ---------------------------
(***************************************************************************)
(* Theorems about Approvals, for every set of approvals and requests and,  *)
(* unless they assume otherwise, every mode (Serial, CanCrash,             *)
(* StoreCanFail).                                                          *)
(***************************************************************************)
EXTENDS Approvals, TLAPS

USE NoneAssumption, ModeAssumption

DecideSteps  == {"update", "decision", "auditDecision", "rememberDecision", "trustEvent"}
ExecuteSteps == {"run", "record", "auditExecuted", "rememberExecution", "auditReplay"}

\* A thread is at a step of the operation it was called for.
OperationsOK ==
    \A r \in Requests :
        /\ pc[r] \in DecideSteps => call[r].op \in {"approve", "deny"}
        /\ pc[r] \in ExecuteSteps => call[r].op = "execute"
        /\ pc[r] = "auditCreated" => call[r].op = "create"

\* What a thread has written and run by the step it is at, and by its answer.
WritesOK ==
    \A r \in Requests :
        /\ pc[r] \in {"idle", "update", "run", "record", "auditReplay"} => wrote[r] = "none"
        /\ pc[r] \in DecideSteps \ {"update"} => wrote[r] = Verdict(r)
        /\ pc[r] \in {"auditExecuted", "rememberExecution"} => wrote[r] = "executed"
        /\ pc[r] = "auditCreated" => wrote[r] = "pending"
        /\ wrote[r] = "executed" => Ran(r)
        /\ pc[r] \in DecideSteps \cup {"idle", "auditCreated", "run", "auditReplay"}
              => ran[r] = "none"
        /\ reply[r] # "none" => pc[r] = "done"
        /\ reply[r] = "ok" /\ call[r].op \in {"approve", "deny"} => wrote[r] = Verdict(r)
        /\ reply[r] = "ok" /\ call[r].op = "execute" => wrote[r] = "executed"

\* A status is somebody's write, and a decided approval is never pending again.
StatusOK ==
    /\ \A a \in Approvals : row[a].status \in Verdicts \cup {"executed"} =>
          \E q \in Requests : call[q].id = a /\ wrote[q] = row[a].status
    /\ \A q \in Requests : wrote[q] \in Verdicts \cup {"executed"} =>
          row[call[q].id].status \notin {"absent", "pending"}

\* A thread about to run a tool, or to report a replay, has seen somebody's write.
ChecksOK ==
    \A r \in Requests :
        /\ pc[r] = "run" => \E q \in Requests :
                               wrote[q] = "approved" /\ call[q].id = call[r].id
        /\ pc[r] = "auditReplay" => \E q \in Requests :
                               wrote[q] = "executed" /\ call[q].id = call[r].id

\* An executed approval is approved again only by a second decision.
ReplayOK ==
    \A q \in Requests :
        wrote[q] = "executed" /\ row[call[q].id].status = "approved"
          => \E d, e \in DecidersOf(call[q].id) : d # e

Safety == /\ OperationsOK /\ WritesOK /\ StatusOK /\ ChecksOK
          /\ RunsFollowApproval /\ ReplayOK

\* Type correctness: in every reachable state, for every interleaving, crash and
\* store failure, the tables hold well-formed rows and every thread is at a step
\* of its operation.
THEOREM TypeCorrect == Spec => []TypeOK
<1> USE DEF TypeOK, tables, history
<1>1. Init => TypeOK
  BY DEF Init, Rows, Statuses
<1>2. ASSUME TypeOK, [Next]_vars
      PROVE  TypeOK'
  <2> USE TypeOK, NoneAssumption DEF Begin, Goto, Return, Steps, Calls
  <2>1. ASSUME NEW r \in Requests, NEW a \in Approvals, CreateInsert(r, a)
        PROVE  TypeOK'
    <3>1. row' \in [Approvals -> Rows]
      BY <2>1 DEF CreateInsert, Rows, Statuses
    <3>2. [op |-> "create", id |-> a] \in Calls
      OBVIOUS
    <3>3. QED
      BY <2>1, <3>1, <3>2 DEF CreateInsert, Statuses
  <2>2. ASSUME NEW r \in Requests, AuditCreated(r) PROVE TypeOK'
    BY <2>2 DEF AuditCreated, AddAudit
  <2>3. ASSUME NEW r \in Requests, NEW a \in Approvals, NEW op \in {"approve", "deny"},
               ReadForDecision(r, op, a)
        PROVE  TypeOK'
    BY <2>3 DEF ReadForDecision
  <2>4. ASSUME NEW r \in Requests, UpdateStatus(r) PROVE TypeOK'
    BY <2>4 DEF UpdateStatus, Verdict, Verdicts, Rows, Statuses
  <2>5. ASSUME NEW r \in Requests, RecordDecision(r) PROVE TypeOK'
    BY <2>5 DEF RecordDecision, Verdict, Verdicts
  <2>6. ASSUME NEW r \in Requests, AuditDecision(r) PROVE TypeOK'
    BY <2>6 DEF AuditDecision, AddAudit, DecisionEvent
  <2>7. ASSUME NEW r \in Requests, RememberDecision(r) PROVE TypeOK'
    BY <2>7 DEF RememberDecision, Remember
  <2>8. ASSUME NEW r \in Requests, RecordTrustEvent(r) PROVE TypeOK'
    BY <2>8 DEF RecordTrustEvent, Delta
  <2>9. ASSUME NEW r \in Requests, NEW a \in Approvals, ReadForExecute(r, a)
        PROVE  TypeOK'
    BY <2>9 DEF ReadForExecute
  <2>10. ASSUME NEW r \in Requests, AuditReplay(r) PROVE TypeOK'
    BY <2>10 DEF AuditReplay, AddAudit
  <2>11. ASSUME NEW r \in Requests, RunTool(r) PROVE TypeOK'
    BY <2>11 DEF RunTool, Outcomes
  <2>12. ASSUME NEW r \in Requests, RecordExecution(r) PROVE TypeOK'
    BY <2>12 DEF RecordExecution, Rows, Statuses
  <2>13. ASSUME NEW r \in Requests, AuditExecuted(r) PROVE TypeOK'
    BY <2>13 DEF AuditExecuted, AddAudit
  <2>14. ASSUME NEW r \in Requests, RememberExecution(r) PROVE TypeOK'
    BY <2>14 DEF RememberExecution, Remember
  <2>15. ASSUME NEW r \in Requests, StoreFails(r) PROVE TypeOK'
    BY <2>15 DEF StoreFails, StoreSteps
  <2>16. CASE CrashAndRestart
    BY <2>16 DEF CrashAndRestart, InFlight
  <2>17. CASE UNCHANGED vars
    BY <2>17 DEF vars
  <2> HIDE DEF TypeOK
  <2>18. QED
    BY <1>2, <2>1, <2>2, <2>3, <2>4, <2>5, <2>6, <2>7, <2>8, <2>9, <2>10, <2>11,
       <2>12, <2>13, <2>14, <2>15, <2>16, <2>17 DEF Next, Arrive, Continue
<1>3. QED
  BY <1>1, <1>2, PTL DEF Spec

-----------------------------------------------------------------------------
LEMMA SafetyStep ==
    ASSUME TypeOK, TypeOK', Safety, [Next]_vars
    PROVE  Safety'
<1> USE DEF Safety, tables, history, Goto, Return, Begin, Steps, Calls, NoCall,
            DecideSteps, ExecuteSteps, OperationsOK, WritesOK, StatusOK, ChecksOK,
            RunsFollowApproval, ReplayOK, DecidersOf, Ran, Verdict, Verdicts, TypeOK
<1>1. ASSUME NEW r \in Requests, NEW a \in Approvals, CreateInsert(r, a)
      PROVE  Safety'
  <2>1. /\ pc[r] = "idle" /\ pc' = [pc EXCEPT ![r] = "auditCreated"]
        /\ call' = [call EXCEPT ![r] = [op |-> "create", id |-> a]]
        /\ wrote[r] = "none" /\ wrote' = [wrote EXCEPT ![r] = "pending"]
        /\ ran' = ran /\ reply' = reply
    BY <1>1 DEF CreateInsert
  <2>2. /\ row[a].status = "absent" /\ row'[a].status = "pending"
        /\ \A b \in Approvals \ {a} : row'[b] = row[b]
    BY <1>1 DEF CreateInsert
  <2>3. OperationsOK'
    BY <2>1, <2>2
  <2>4. WritesOK'
    BY <2>1, <2>2
  <2>5. StatusOK'
    BY <2>1, <2>2
  <2>6. ChecksOK'
    <3>1. \A q \in Requests \ {r} :
             pc'[q] = pc[q] /\ call'[q] = call[q] /\ wrote'[q] = wrote[q]
      BY <2>1
    <3>2. pc'[r] = "auditCreated" /\ wrote[r] = "none"
      BY <2>1
    <3> HIDE DEF TypeOK
    <3>3. QED
      BY <3>1, <3>2
  <2>7. RunsFollowApproval'
    BY <2>1, <2>2
  <2>8. ReplayOK'
    <3>1. \A b \in Approvals : DecidersOf(b) \subseteq DecidersOf(b)'
      BY <2>1
    <3>2. \A q \in Requests : wrote'[q] = "executed" =>
             call'[q] \in Calls /\ call'[q].id \in Approvals
      BY <2>1
    <3>3. ASSUME NEW q \in Requests, wrote'[q] = "executed",
                 row'[call'[q].id].status = "approved"
          PROVE  \E d, e \in DecidersOf(call'[q].id) : d # e
      BY <2>1, <2>2, <3>2, <3>3
    <3> HIDE DEF DecidersOf
    <3>4. QED
      BY <3>1, <3>2, <3>3
  <2>9. QED
    BY <2>3, <2>4, <2>5, <2>6, <2>7, <2>8
<1>2. ASSUME NEW r \in Requests, AuditCreated(r)
      PROVE  Safety'
  BY <1>2 DEF AuditCreated, AddAudit
<1>3. ASSUME NEW r \in Requests, NEW a \in Approvals, NEW op \in {"approve", "deny"}, ReadForDecision(r, op, a)
      PROVE  Safety'
  <2>1. /\ pc[r] = "idle" /\ row' = row /\ wrote' = wrote /\ ran' = ran
        /\ \/ pc' = [pc EXCEPT ![r] = "update"] /\ reply' = reply
           \/ pc' = [pc EXCEPT ![r] = "done"] /\ reply' = [reply EXCEPT ![r] = "refused"]
        /\ call' = [call EXCEPT ![r] = [op |-> op, id |-> a]]
    BY <1>3 DEF ReadForDecision, MayDecide
  <2>2. OperationsOK'
    BY <2>1
  <2>3. WritesOK'
    BY <2>1
  <2>4. StatusOK'
    BY <2>1
  <2>5. ChecksOK'
    BY <2>1
  <2>6. RunsFollowApproval'
    BY <2>1
  <2>7. ReplayOK'
    BY <2>1
  <2>8. QED
    BY <2>2, <2>3, <2>4, <2>5, <2>6, <2>7
<1>4. ASSUME NEW r \in Requests, UpdateStatus(r)
      PROVE  Safety'
  <2>1. /\ pc[r] = "update" /\ pc' = [pc EXCEPT ![r] = "decision"]
        /\ call' = call /\ wrote' = [wrote EXCEPT ![r] = Verdict(r)]
        /\ ran' = ran /\ reply' = reply
    BY <1>4 DEF UpdateStatus
  <2>2. /\ call[r].id \in Approvals /\ row'[call[r].id].status = Verdict(r)
        /\ \A b \in Approvals \ {call[r].id} : row'[b] = row[b]
    BY <1>4 DEF UpdateStatus, Rows
  <2>3. OperationsOK'
    BY <2>1, <2>2
  <2>4. WritesOK'
    BY <2>1, <2>2
  <2>5. StatusOK'
    BY <2>1, <2>2
  <2>6. ChecksOK'
    BY <2>1, <2>2
  <2>7. RunsFollowApproval'
    BY <2>1, <2>2
  <2>8. ReplayOK'
    BY <2>1, <2>2
  <2>9. QED
    BY <2>3, <2>4, <2>5, <2>6, <2>7, <2>8
<1>5. ASSUME NEW r \in Requests, RecordDecision(r)
      PROVE  Safety'
  BY <1>5 DEF RecordDecision
<1>6. ASSUME NEW r \in Requests, AuditDecision(r)
      PROVE  Safety'
  BY <1>6 DEF AuditDecision
<1>7. ASSUME NEW r \in Requests, RememberDecision(r)
      PROVE  Safety'
  BY <1>7 DEF RememberDecision
<1>8. ASSUME NEW r \in Requests, RecordTrustEvent(r)
      PROVE  Safety'
  BY <1>8 DEF RecordTrustEvent
<1>9. ASSUME NEW r \in Requests, NEW a \in Approvals, ReadForExecute(r, a)
      PROVE  Safety'
  <2>1. /\ pc[r] = "idle" /\ row' = row /\ wrote' = wrote /\ ran' = ran
        /\ call' = [call EXCEPT ![r] = [op |-> "execute", id |-> a]]
    BY <1>9 DEF ReadForExecute
  <2>2. \/ pc' = [pc EXCEPT ![r] = "run"] /\ row[a].status = "approved" /\ reply' = reply
        \/ pc' = [pc EXCEPT ![r] = "auditReplay"] /\ row[a].status = "executed"
           /\ reply' = reply
        \/ pc' = [pc EXCEPT ![r] = "done"] /\ reply' = [reply EXCEPT ![r] = "refused"]
    BY <1>9 DEF ReadForExecute, MayRun
  <2>3. OperationsOK'
    BY <2>1, <2>2
  <2>4. WritesOK'
    BY <2>1, <2>2
  <2>5. StatusOK'
    BY <2>1, <2>2
  <2>6. ChecksOK'
    BY <2>1, <2>2
  <2>7. RunsFollowApproval'
    BY <2>1, <2>2
  <2>8. ReplayOK'
    BY <2>1, <2>2
  <2>9. QED
    BY <2>3, <2>4, <2>5, <2>6, <2>7, <2>8
<1>10. ASSUME NEW r \in Requests, AuditReplay(r)
      PROVE  Safety'
  BY <1>10 DEF AuditReplay
<1>11. ASSUME NEW r \in Requests, RunTool(r)
      PROVE  Safety'
  BY <1>11 DEF RunTool
<1>12. ASSUME NEW r \in Requests, RecordExecution(r)
      PROVE  Safety'
  <2>1. /\ pc[r] = "record" /\ pc' = [pc EXCEPT ![r] = "auditExecuted"]
        /\ call' = call /\ wrote' = [wrote EXCEPT ![r] = "executed"]
        /\ ran' = ran /\ reply' = reply
    BY <1>12 DEF RecordExecution
  <2>2. /\ call[r].id \in Approvals /\ row'[call[r].id].status = "executed"
        /\ \A b \in Approvals \ {call[r].id} : row'[b] = row[b]
    BY <1>12 DEF RecordExecution, Rows
  <2>3. OperationsOK'
    BY <2>1, <2>2
  <2>4. WritesOK'
    BY <2>1, <2>2 DEF Outcomes
  <2>5. StatusOK'
    BY <2>1, <2>2
  <2>6. ChecksOK'
    BY <2>1, <2>2
  <2>7. RunsFollowApproval'
    BY <2>1, <2>2
  <2>8. ReplayOK'
    <3>1. \A b \in Approvals : DecidersOf(b) \subseteq DecidersOf(b)'
      BY <2>1
    <3>2. \A q \in Requests : wrote'[q] = "executed" =>
             call'[q] \in Calls /\ call'[q].id \in Approvals
      BY <2>1
    <3>3. ASSUME NEW q \in Requests, wrote'[q] = "executed",
                 row'[call'[q].id].status = "approved"
          PROVE  \E d, e \in DecidersOf(call'[q].id) : d # e
      <4>1. call'[q].id # call[r].id
        BY <2>2, <3>3
      <4>2. q # r /\ wrote[q] = "executed" /\ call'[q] = call[q]
        BY <2>1, <3>3, <4>1
      <4>3. row[call[q].id].status = "approved"
        BY <2>2, <3>2, <3>3, <4>1, <4>2
      <4>4. QED
        BY <2>1, <4>2, <4>3
    <3> HIDE DEF DecidersOf
    <3>4. QED
      BY <3>1, <3>2, <3>3
  <2>9. QED
    BY <2>3, <2>4, <2>5, <2>6, <2>7, <2>8
<1>13. ASSUME NEW r \in Requests, AuditExecuted(r)
      PROVE  Safety'
  BY <1>13 DEF AuditExecuted
<1>14. ASSUME NEW r \in Requests, RememberExecution(r)
      PROVE  Safety'
  BY <1>14 DEF RememberExecution
<1>15. ASSUME NEW r \in Requests, StoreFails(r)
      PROVE  Safety'
  BY <1>15 DEF StoreFails, StoreSteps
<1>16. CASE CrashAndRestart
  BY <1>16 DEF CrashAndRestart, InFlight
<1>17. CASE UNCHANGED vars
  BY <1>17 DEF vars
<1> HIDE DEF Safety, TypeOK
<1>18. QED
  BY <1>1, <1>2, <1>3, <1>4, <1>5, <1>6, <1>7, <1>8, <1>9, <1>10, <1>11, <1>12,
     <1>13, <1>14, <1>15, <1>16, <1>17 DEF Next, Arrive, Continue

THEOREM SafetyInvariant == Spec => []Safety
<1>1. Init => Safety
  BY DEF Init, Safety, OperationsOK, WritesOK, StatusOK, ChecksOK, RunsFollowApproval,
         ReplayOK, Ran, Verdicts, DecideSteps, ExecuteSteps
<1>2. TypeOK /\ TypeOK' /\ Safety /\ [Next]_vars => Safety'
  BY SafetyStep
<1>3. QED
  BY <1>1, <1>2, TypeCorrect, PTL DEF Spec

\* No tool runs before its approval was written as approved, whatever crashes,
\* fails or interleaves: the invariant of the same name, for any number of calls.
THEOREM RunsFollowApprovalAlways == Spec => []RunsFollowApproval
<1>1. Safety => RunsFollowApproval
  BY DEF Safety
<1>2. QED
  BY <1>1, SafetyInvariant, PTL

\* A call leaves idle only by the read (or, for create, the insert) it begins with.
LEMMA FirstStep ==
    ASSUME TypeOK, [Next]_vars, NEW r \in Requests, pc[r] = "idle", pc'[r] # "idle"
    PROVE  \E a \in Approvals :
              \/ CreateInsert(r, a)
              \/ \E op \in {"approve", "deny"} : ReadForDecision(r, op, a)
              \/ ReadForExecute(r, a)
<1>1. ~CrashAndRestart /\ ~UNCHANGED vars
  BY DEF CrashAndRestart, vars, InFlight, Steps
<1>2. ASSUME NEW q \in Requests, Continue(q) \/ StoreFails(q)
      PROVE  FALSE
  BY <1>2 DEF Continue, StoreFails, StoreSteps, AuditCreated, UpdateStatus, RecordDecision,
              AuditDecision, RememberDecision, RecordTrustEvent, RunTool, RecordExecution,
              AuditExecuted, RememberExecution, AuditReplay, Goto, Return, TypeOK
<1>3. ASSUME NEW q \in Requests, Arrive(q)
      PROVE  q = r
  BY <1>3 DEF Arrive, CreateInsert, ReadForDecision, ReadForExecute, Begin, Goto, Return,
              TypeOK
<1>4. QED
  BY <1>1, <1>2, <1>3 DEF Next, Arrive

\* An answered decision is final for every call that arrives after it: such a
\* call finds the approval neither absent nor pending.
THEOREM NoDecisionAfterAnswerAlways == Spec => NoDecisionAfterAnswer
<1>1. ASSUME TypeOK, Safety, [Next]_vars,
             NEW r \in Requests, NEW q \in Requests,
             pc[r] = "idle", pc'[r] = "update",
             call[q].op \in {"approve", "deny"}, reply[q] = "ok"
      PROVE  call[q].id # call'[r].id
  <2>1. row[call[q].id].status \notin {"absent", "pending"}
    BY <1>1 DEF Safety, WritesOK, StatusOK, Verdict, Verdicts
  <2>2. PICK a \in Approvals : row[a].status = "pending" /\ call'[r].id = a
    BY <1>1, FirstStep DEF ReadForDecision, CreateInsert, ReadForExecute, MayDecide,
                           Goto, Return, Begin, TypeOK
  <2>3. QED
    BY <2>1, <2>2
<1>2. TypeOK /\ Safety /\ [Next]_vars =>
        [\A r, q \in Requests :
          /\ pc[r] = "idle" /\ pc'[r] = "update"
          /\ call[q].op \in {"approve", "deny"} /\ reply[q] = "ok"
          => call[q].id # call'[r].id]_vars
  BY <1>1
<1>3. QED
  BY <1>2, TypeCorrect, SafetyInvariant, PTL DEF Spec, NoDecisionAfterAnswer

\* Replay protection works for every approval that was decided once.
THEOREM ReplayBlockedAfterAnswerAlways == Spec => ReplayBlockedAfterAnswer
<1>1. ASSUME TypeOK, Safety, [Next]_vars,
             NEW r \in Requests, NEW q \in Requests,
             pc[r] = "idle", pc'[r] = "run",
             call[q].op = "execute", reply[q] = "ok", call[q].id = call'[r].id
      PROVE  \E d, e \in DecidersOf(call[q].id) : d # e
  <2>1. wrote[q] = "executed"
    BY <1>1 DEF Safety, WritesOK
  <2>2. PICK a \in Approvals : row[a].status = "approved" /\ call'[r].id = a
    BY <1>1, FirstStep DEF ReadForDecision, CreateInsert, ReadForExecute, MayRun,
                           Goto, Return, Begin, TypeOK
  <2>3. QED
    BY <1>1, <2>1, <2>2 DEF Safety, ReplayOK
<1>2. TypeOK /\ Safety /\ [Next]_vars =>
        [\A r, q \in Requests :
          /\ pc[r] = "idle" /\ pc'[r] = "run"
          /\ call[q].op = "execute" /\ reply[q] = "ok" /\ call[q].id = call'[r].id
          => \E d, e \in DecidersOf(call[q].id) : d # e]_vars
  BY <1>1
<1>3. QED
  BY <1>2, TypeCorrect, SafetyInvariant, PTL DEF Spec, ReplayBlockedAfterAnswer

-----------------------------------------------------------------------------
(* What the tables of Approvals tell, and what its answers mean, for every *)
(* set of approvals and requests, every interleaving, crash and failure.   *)

\* A row of a table was written for what its caller had done by then.
TablesOK ==
    /\ \A d \in decisions : wrote[d.req] = d.decision
    /\ \A t \in trustEvents : \E d \in decisions :
          d.req = t.req /\ d.id = t.id /\ t.delta = Delta(d.decision)
    /\ \A e \in audit :
          /\ e.event = "approval_created" => wrote[e.req] = "pending"
          /\ e.event = "approval_approved" => wrote[e.req] = "approved"
          /\ e.event = "approval_denied" => wrote[e.req] = "denied"
          /\ e.event = "approval_executed" => wrote[e.req] = "executed"
          /\ e.event = "approval_replay_blocked" =>
                \E q \in Requests : wrote[q] = "executed" /\ call[q].id = e.id

HasDecision(r) == [req |-> r, id |-> call[r].id, decision |-> Verdict(r)] \in decisions

\* The record of a call grows in the order of its steps.
RecordOf(r) ==
    /\ pc[r] \in {"auditDecision", "rememberDecision", "trustEvent"} => HasDecision(r)
    /\ pc[r] \in {"rememberDecision", "trustEvent"} => HasAudit(r, DecisionEvent(r))
    /\ pc[r] = "rememberExecution" => HasAudit(r, "approval_executed")
    /\ reply[r] = "ok" => Evidence(r)
    /\ reply[r] = "refused" => wrote[r] = "none" /\ ran[r] = "none"

RecordOK == \A r \in Requests : RecordOf(r)

\* What changes at one request r only, and what tables gain.
Framed(r) ==
    /\ \A q \in Requests \ {r} : /\ wrote'[q] = wrote[q] /\ call'[q] = call[q]
                                 /\ ran'[q] = ran[q] /\ reply'[q] = reply[q]
    /\ wrote'[r] # wrote[r] => wrote[r] = "none"
    /\ ran'[r] # ran[r] => ran[r] = "none"
    /\ call'[r] # call[r] => wrote[r] = "none"
    /\ decisions \subseteq decisions' /\ audit \subseteq audit'
    /\ trustEvents \subseteq trustEvents'

\* Every step is of one request, and adds to the tables at most its own row.
LEMMA StepsAreFramed ==
    ASSUME TypeOK, Safety, NEW r \in Requests, Arrive(r) \/ Continue(r) \/ StoreFails(r)
    PROVE  Framed(r)
<1> USE DEF TypeOK, Goto, Return, Begin, tables, history
<1>1. CASE Arrive(r)
      BY <1>1 DEF Arrive, CreateInsert, ReadForDecision, ReadForExecute, Framed, Safety, WritesOK
<1>2. CASE AuditCreated(r) \/ AuditDecision(r) \/ AuditExecuted(r) \/ AuditReplay(r)
      BY <1>2 DEF AuditCreated, AuditDecision, AuditExecuted, AuditReplay, AddAudit, Framed
<1>3. CASE UpdateStatus(r) \/ RecordExecution(r) \/ RunTool(r)
      BY <1>3 DEF UpdateStatus, RecordExecution, RunTool, Framed, Safety, WritesOK
<1>4. CASE RecordDecision(r) \/ RecordTrustEvent(r)
      BY <1>4 DEF RecordDecision, RecordTrustEvent, Framed
<1>5. CASE RememberDecision(r) \/ RememberExecution(r) \/ StoreFails(r)
      BY <1>5 DEF RememberDecision, RememberExecution, StoreFails, Framed
<1> QED BY <1>1, <1>2, <1>3, <1>4, <1>5 DEF Continue

\* The new row has its cause.
LEMMA TablesStep ==
    ASSUME TypeOK, Safety, TablesOK, RecordOK, NEW r \in Requests, Framed(r),
           Arrive(r) \/ Continue(r) \/ StoreFails(r)
    PROVE  TablesOK'
<1> DEFINE newDecision == [req |-> r, id |-> call[r].id, decision |-> Verdict(r)]
           newTrust == [req |-> r, id |-> call[r].id, delta |-> Delta(Verdict(r))]
           newEvent(event) == [req |-> r, id |-> call[r].id, event |-> event]
<1>1. \A q \in Requests : wrote[q] # "none" => wrote'[q] = wrote[q] /\ call'[q] = call[q]
      BY DEF Framed
<1>2. ASSUME NEW d \in decisions
      PROVE  wrote'[d.req] = d.decision
  <2>1. d.req \in Requests /\ d.decision \in Verdicts /\ wrote[d.req] = d.decision
        BY <1>2 DEF TypeOK, TablesOK
  <2> QED BY <1>1, <2>1 DEF Verdicts
<1>3. ASSUME NEW e \in audit
      PROVE  /\ e.event = "approval_created" => wrote'[e.req] = "pending"
             /\ e.event = "approval_approved" => wrote'[e.req] = "approved"
             /\ e.event = "approval_denied" => wrote'[e.req] = "denied"
             /\ e.event = "approval_executed" => wrote'[e.req] = "executed"
             /\ e.event = "approval_replay_blocked" =>
                   \E q \in Requests : wrote'[q] = "executed" /\ call'[q].id = e.id
  <2>1. e.req \in Requests
        BY <1>3 DEF TypeOK
  <2> QED BY <1>1, <1>3, <2>1 DEF TablesOK
<1>4. ASSUME NEW t \in trustEvents
      PROVE  \E d \in decisions' : d.req = t.req /\ d.id = t.id /\ t.delta = Delta(d.decision)
      BY <1>4 DEF TablesOK, Framed
<1>5. CASE UNCHANGED <<decisions, audit, trustEvents>>
      BY <1>2, <1>3, <1>4, <1>5 DEF TablesOK
<1>6. CASE RecordDecision(r)
  <2>1. decisions' = decisions \cup {newDecision} /\ UNCHANGED <<audit, trustEvents, wrote>>
        BY <1>6 DEF RecordDecision, history
  <2>2. wrote[r] = Verdict(r)
        BY <1>6 DEF RecordDecision, Safety, WritesOK, DecideSteps
  <2> QED BY <1>2, <1>3, <1>4, <2>1, <2>2 DEF TablesOK
<1>7. CASE RecordTrustEvent(r)
  <2>1. trustEvents' = trustEvents \cup {newTrust} /\ UNCHANGED <<audit, decisions>>
        BY <1>7 DEF RecordTrustEvent
  <2>2. newDecision \in decisions
        BY <1>7 DEF RecordTrustEvent, RecordOK, RecordOf, HasDecision
  <2>3. \E d \in decisions : /\ d.req = newTrust.req /\ d.id = newTrust.id
                             /\ newTrust.delta = Delta(d.decision)
        BY <2>2
  <2> HIDE DEF newTrust, newDecision
  <2> QED BY <1>2, <1>3, <1>4, <2>1, <2>3 DEF TablesOK
<1>8. ASSUME NEW event, audit' = audit \cup {newEvent(event)},
             UNCHANGED <<decisions, trustEvents, wrote, call>>,
             \/ event = "approval_created" /\ wrote[r] = "pending"
             \/ event = "approval_approved" /\ wrote[r] = "approved"
             \/ event = "approval_denied" /\ wrote[r] = "denied"
             \/ event = "approval_executed" /\ wrote[r] = "executed"
             \/ /\ event = "approval_replay_blocked"
                /\ \E q \in Requests : wrote[q] = "executed" /\ call[q].id = call[r].id
      PROVE  TablesOK'
  <2>1. newEvent(event).req = r /\ newEvent(event).id = call[r].id
        /\ newEvent(event).event = event
        OBVIOUS
  <2> HIDE DEF newEvent
  <2> QED BY <1>2, <1>3, <1>4, <1>8, <2>1 DEF TablesOK
<1>9. CASE AuditCreated(r)
  <2>1. wrote[r] = "pending"
        BY <1>9 DEF AuditCreated, Safety, WritesOK
  <2> QED BY <1>8, <1>9, <2>1 DEF AuditCreated, AddAudit
<1>10. CASE AuditDecision(r)
  <2>1. wrote[r] = Verdict(r)
        BY <1>10 DEF AuditDecision, Safety, WritesOK, DecideSteps
  <2>2. \/ DecisionEvent(r) = "approval_approved" /\ wrote[r] = "approved"
        \/ DecisionEvent(r) = "approval_denied" /\ wrote[r] = "denied"
        BY <2>1 DEF DecisionEvent, Verdict
  <2>3. audit' = audit \cup {newEvent(DecisionEvent(r))}
        /\ UNCHANGED <<decisions, trustEvents, wrote, call>>
        BY <1>10 DEF AuditDecision, AddAudit, history
  <2> HIDE DEF newEvent
  <2> QED BY <1>8, <2>2, <2>3
<1>11. CASE AuditExecuted(r)
  <2>1. wrote[r] = "executed"
        BY <1>11 DEF AuditExecuted, Safety, WritesOK
  <2> QED BY <1>8, <1>11, <2>1 DEF AuditExecuted, AddAudit, history
<1>12. CASE AuditReplay(r)
  <2>1. \E q \in Requests : wrote[q] = "executed" /\ call[q].id = call[r].id
        BY <1>12 DEF AuditReplay, Safety, ChecksOK
  <2> QED BY <1>8, <1>12, <2>1 DEF AuditReplay, AddAudit, history
<1>13. \/ UNCHANGED <<decisions, audit, trustEvents>>
       \/ RecordDecision(r) \/ RecordTrustEvent(r)
       \/ AuditCreated(r) \/ AuditDecision(r) \/ AuditExecuted(r) \/ AuditReplay(r)
       BY DEF Arrive, CreateInsert, ReadForDecision, ReadForExecute, Continue, UpdateStatus,
              RememberDecision, RunTool, RecordExecution, RememberExecution, StoreFails, tables
<1> QED BY <1>5, <1>6, <1>7, <1>9, <1>10, <1>11, <1>12, <1>13

\* What was recorded of the other calls stays.
LEMMA OtherRecordsStay ==
    ASSUME TypeOK, RecordOK, NEW r \in Requests, Framed(r), NEW q \in Requests, q # r,
           Arrive(r) \/ Continue(r) \/ StoreFails(r)
    PROVE  RecordOf(q)'
<1>1. /\ wrote'[q] = wrote[q] /\ call'[q] = call[q] /\ ran'[q] = ran[q]
      /\ reply'[q] = reply[q]
      /\ decisions \subseteq decisions' /\ audit \subseteq audit'
      /\ trustEvents \subseteq trustEvents'
      BY DEF Framed
<1>2. pc'[q] = pc[q]
      BY DEF TypeOK, Goto, Return, Begin, Arrive, CreateInsert, ReadForDecision,
         ReadForExecute, Continue, AuditCreated, UpdateStatus, RecordDecision,
         AuditDecision, RememberDecision, RecordTrustEvent, RunTool, RecordExecution,
         AuditExecuted, RememberExecution, AuditReplay, StoreFails
<1>3. RecordOf(q)
      BY DEF RecordOK
<1> QED BY <1>1, <1>2, <1>3
        DEF RecordOf, HasDecision, HasAudit, Evidence, Verdict, DecisionEvent, Ran

\* The call's own record grows with the step it takes.
LEMMA OwnRecordGrows ==
    ASSUME TypeOK, Safety, RecordOK, NEW r \in Requests, Framed(r),
           Arrive(r) \/ Continue(r) \/ StoreFails(r)
    PROVE  RecordOf(r)'
<1> USE DEF TypeOK, Goto, Return, Begin, tables, history
<1>1. RecordOf(r) /\ r \in Requests
      BY DEF RecordOK
<1>2. reply[r] # "none" => pc[r] = "done"
      BY DEF Safety, WritesOK
<1>3. pc[r] = "idle" => wrote[r] = "none" /\ ran[r] = "none" /\ reply[r] = "none"
      BY <1>2 DEF Safety, WritesOK
<1>4. ASSUME NEW a \in Approvals, CreateInsert(r, a)
      PROVE  RecordOf(r)'
  <2>1. pc'[r] = "auditCreated" /\ reply'[r] = "none"
        BY <1>3, <1>4 DEF CreateInsert
  <2> QED BY <2>1 DEF RecordOf
<1>5. ASSUME NEW a \in Approvals, NEW op \in {"approve", "deny"}, ReadForDecision(r, op, a)
      PROVE  RecordOf(r)'
  <2>1. /\ pc'[r] \in {"update", "done"} /\ reply'[r] \in {"none", "refused"}
        /\ wrote'[r] = "none" /\ ran'[r] = "none"
        BY <1>3, <1>5 DEF ReadForDecision
  <2> QED BY <2>1 DEF RecordOf
<1>6. ASSUME NEW a \in Approvals, ReadForExecute(r, a)
      PROVE  RecordOf(r)'
  <2>1. /\ pc'[r] \in {"run", "auditReplay", "done"} /\ reply'[r] \in {"none", "refused"}
        /\ wrote'[r] = "none" /\ ran'[r] = "none"
        BY <1>3, <1>6 DEF ReadForExecute
  <2> QED BY <2>1 DEF RecordOf
<1>7. CASE AuditCreated(r)
  <2>1. pc'[r] = "done" /\ reply'[r] = "ok" /\ call' = call /\ call[r].op = "create"
        BY <1>7 DEF AuditCreated, Safety, OperationsOK
  <2>2. HasAudit(r, "approval_created")'
        BY <1>7, <2>1 DEF AuditCreated, AddAudit, HasAudit
  <2>3. Evidence(r)'
        BY <2>1, <2>2 DEF Evidence
  <2> QED BY <2>1, <2>3 DEF RecordOf
<1>8. CASE UpdateStatus(r)
  <2>1. pc'[r] = "decision" /\ reply'[r] = "none"
        BY <1>2, <1>8 DEF UpdateStatus
  <2> QED BY <2>1 DEF RecordOf
<1>9. CASE RecordDecision(r)
  <2>1. pc'[r] = "auditDecision" /\ reply'[r] = "none" /\ call' = call
        BY <1>2, <1>9 DEF RecordDecision
  <2>2. HasDecision(r)'
        BY <1>9, <2>1 DEF RecordDecision, HasDecision, Verdict
  <2> QED BY <2>1, <2>2 DEF RecordOf
<1>10. CASE AuditDecision(r)
  <2>1. /\ pc'[r] = "rememberDecision" /\ reply'[r] = "none" /\ call' = call
        /\ decisions' = decisions /\ HasDecision(r)
        BY <1>1, <1>2, <1>10 DEF AuditDecision, RecordOf
  <2>2. HasDecision(r)'
        BY <2>1 DEF HasDecision, Verdict
  <2>3. HasAudit(r, DecisionEvent(r))'
        BY <1>10, <2>1 DEF AuditDecision, AddAudit, HasAudit, DecisionEvent, Verdict
  <2> QED BY <2>1, <2>2, <2>3 DEF RecordOf
<1>11. CASE RememberDecision(r)
  <2>1. /\ pc'[r] = "trustEvent" /\ reply'[r] = "none" /\ call' = call
        /\ decisions' = decisions /\ audit' = audit
        /\ HasDecision(r) /\ HasAudit(r, DecisionEvent(r))
        BY <1>1, <1>2, <1>11 DEF RememberDecision, RecordOf
  <2>2. HasDecision(r)' /\ HasAudit(r, DecisionEvent(r))'
        BY <2>1 DEF HasDecision, HasAudit, DecisionEvent, Verdict
  <2> QED BY <2>1, <2>2 DEF RecordOf
<1>12. CASE RecordTrustEvent(r)
  <2>1. /\ pc'[r] = "done" /\ reply'[r] = "ok" /\ call' = call /\ wrote' = wrote
        /\ decisions' = decisions /\ audit' = audit
        /\ HasDecision(r) /\ HasAudit(r, DecisionEvent(r))
        BY <1>1, <1>12 DEF RecordTrustEvent, RecordOf
  <2>2. call[r].op \in {"approve", "deny"} /\ wrote[r] = Verdict(r)
        BY <1>12 DEF RecordTrustEvent, Safety, OperationsOK, WritesOK, DecideSteps
  <2>3. [req |-> r, id |-> call[r].id, delta |-> Delta(Verdict(r))] \in trustEvents'
        BY <1>12 DEF RecordTrustEvent
  <2>4. HasDecision(r)' /\ HasAudit(r, DecisionEvent(r))'
        BY <2>1 DEF HasDecision, HasAudit, DecisionEvent, Verdict
  <2>5. Verdict(r)' = Verdict(r)
        BY <2>1 DEF Verdict
  <2>6. Evidence(r)'
        BY <2>1, <2>2, <2>3, <2>4, <2>5 DEF Evidence, HasDecision
  <2> QED BY <2>1, <2>6 DEF RecordOf
<1>13. CASE AuditReplay(r)
  <2>1. /\ pc'[r] = "done" /\ reply'[r] = "refused"
        /\ wrote'[r] = "none" /\ ran'[r] = "none"
        BY <1>13 DEF AuditReplay, Safety, WritesOK
  <2> QED BY <2>1 DEF RecordOf
<1>14. CASE RunTool(r) \/ RecordExecution(r)
  <2>1. pc'[r] \in {"record", "auditExecuted"} /\ reply'[r] = "none"
        BY <1>2, <1>14 DEF RunTool, RecordExecution
  <2> QED BY <2>1 DEF RecordOf
<1>15. CASE AuditExecuted(r)
  <2>1. pc'[r] = "rememberExecution" /\ reply'[r] = "none" /\ call' = call
        BY <1>2, <1>15 DEF AuditExecuted
  <2>2. HasAudit(r, "approval_executed")'
        BY <1>15, <2>1 DEF AuditExecuted, AddAudit, HasAudit
  <2> QED BY <2>1, <2>2 DEF RecordOf
<1>16. CASE RememberExecution(r)
  <2>1. /\ pc'[r] = "done" /\ reply'[r] = "ok" /\ call' = call /\ wrote' = wrote
        /\ ran' = ran /\ audit' = audit /\ HasAudit(r, "approval_executed")
        BY <1>1, <1>16 DEF RememberExecution, RecordOf
  <2>2. call[r].op = "execute" /\ wrote[r] = "executed" /\ Ran(r)
        BY <1>16 DEF RememberExecution, Safety, OperationsOK, WritesOK, ExecuteSteps
  <2>3. HasAudit(r, "approval_executed")' /\ Ran(r)'
        BY <2>1, <2>2 DEF HasAudit, Ran
  <2>4. Evidence(r)'
        BY <2>1, <2>2, <2>3 DEF Evidence
  <2> QED BY <2>1, <2>4 DEF RecordOf
<1>17. CASE StoreFails(r)
  <2>1. pc'[r] = "done" /\ reply'[r] = "error"
        BY <1>17 DEF StoreFails
  <2> QED BY <2>1 DEF RecordOf
<1> QED BY <1>4, <1>5, <1>6, <1>7, <1>8, <1>9, <1>10, <1>11, <1>12, <1>13, <1>14, <1>15,
           <1>16, <1>17 DEF Arrive, Continue

LEMMA RecordStep ==
    ASSUME TypeOK, Safety, TablesOK, RecordOK, [Next]_vars
    PROVE  TablesOK' /\ RecordOK'
<1>1. ASSUME NEW r \in Requests, Arrive(r) \/ Continue(r) \/ StoreFails(r)
      PROVE  TablesOK' /\ RecordOK'
  <2>1. Framed(r)
        BY <1>1, StepsAreFramed
  <2>2. TablesOK'
        BY <1>1, <2>1, TablesStep
  <2>3. \A q \in Requests : RecordOf(q)'
        BY <1>1, <2>1, OtherRecordsStay, OwnRecordGrows
  <2> QED BY <2>2, <2>3 DEF RecordOK
<1>2. CASE CrashAndRestart
  <2>1. /\ UNCHANGED <<row, decisions, audit, trustEvents, call, reply, wrote, ran>>
        /\ \A q \in Requests : pc'[q] = "lost" \/ pc'[q] = pc[q]
        BY <1>2 DEF CrashAndRestart, tables, history
  <2>2. TablesOK'
        BY <2>1 DEF TablesOK
  <2>3. ASSUME NEW q \in Requests
        PROVE  RecordOf(q)'
        BY <2>1, <2>3 DEF RecordOK, RecordOf, HasDecision, HasAudit, Evidence, Verdict,
           DecisionEvent, Ran
  <2> QED BY <2>2, <2>3 DEF RecordOK
<1>3. CASE UNCHANGED vars
      BY <1>3 DEF vars, TablesOK, RecordOK, RecordOf, HasDecision, HasAudit, Evidence,
         Verdict, DecisionEvent, Ran
<1> QED BY <1>1, <1>2, <1>3 DEF Next

THEOREM RecordInvariant == Spec => [](TablesOK /\ RecordOK)
<1>1. Init => TablesOK /\ RecordOK
      BY DEF Init, TablesOK, RecordOK, RecordOf
<1>2. TypeOK /\ Safety /\ (TablesOK /\ RecordOK) /\ [Next]_vars => (TablesOK /\ RecordOK)'
      BY RecordStep
<1> QED BY <1>1, <1>2, TypeCorrect, SafetyInvariant, PTL DEF Spec

\* The tables tell no stories: the invariant of the same name, for every number
\* of calls and approvals, every interleaving, crash and failing store operation.
THEOREM EvidenceHasCauseAlways == Spec => []EvidenceHasCause
<1>1. ASSUME TypeOK, Safety, TablesOK
      PROVE  EvidenceHasCause
  <2>1. ASSUME NEW e \in audit, e.event = "approval_executed"
        PROVE  wrote[e.req] = "executed" /\ Ran(e.req)
        BY <1>1, <2>1 DEF TypeOK, TablesOK, Safety, WritesOK
  <2>2. \A e \in audit : e.event \in {"approval_created", "approval_approved",
             "approval_denied", "approval_executed", "approval_replay_blocked"}
        BY <1>1 DEF TypeOK
  <2> QED BY <1>1, <2>1, <2>2 DEF EvidenceHasCause, TablesOK
<1> QED BY <1>1, TypeCorrect, SafetyInvariant, RecordInvariant, PTL

\* A caller may believe its answer: the invariant of the same name, for every
\* number of calls and approvals, every interleaving, crash and failure.
THEOREM AnswersAreTrueAlways == Spec => []AnswersAreTrue
<1>1. ASSUME TypeOK, TablesOK, RecordOK
      PROVE  AnswersAreTrue
  <2>1. ASSUME NEW r \in Requests, reply[r] = "refused"
        PROVE  wrote[r] = "none" /\ ~Ran(r) /\ \A d \in decisions : d.req # r
    <3>1. wrote[r] = "none" /\ ran[r] = "none"
          BY <1>1, <2>1 DEF RecordOK, RecordOf
    <3>2. \A d \in decisions : wrote[d.req] # "none"
          BY <1>1 DEF TypeOK, TablesOK, Verdicts
    <3> QED BY <3>1, <3>2 DEF Ran
  <2>2. \A r \in Requests : reply[r] = "ok" => Evidence(r)
        BY <1>1 DEF RecordOK, RecordOf
  <2> QED BY <2>1, <2>2 DEF AnswersAreTrue
<1> QED BY <1>1, TypeCorrect, RecordInvariant, PTL

-----------------------------------------------------------------------------
(* The loop with nobody waiting for anybody.                               *)

\* A step of the service is a step of ApprovalRace, or none.
LEMMA RaceStep ==
    ASSUME TypeOK, Safety, [Next]_vars
    PROVE  [Race!Next]_(Race!vars)
<1> DEFINE status == [a \in Approvals |-> row[a].status]
           execs == [a \in Approvals |-> Runs(a)]
           f(step) == [a \in Approvals |-> At(step, a)]
<1> USE DEF Race!Set, Race!Enter, Race!Exit, Begin, Goto, Return
<1>1. ASSUME NEW r \in Requests, pc[r] = "idle"
      PROVE  ran[r] = "none"
      BY <1>1 DEF Safety, WritesOK
<1>2. ASSUME NEW r \in Requests, NEW a \in Approvals, CreateInsert(r, a)
      PROVE  Race!Create(a)
  <2>1. /\ pc[r] = "idle" /\ pc' = [pc EXCEPT ![r] = "auditCreated"] /\ ran' = ran
        /\ \A q \in Requests \ {r} : call'[q] = call[q]
        /\ row[a].status = "absent" /\ row' = [row EXCEPT ![a].status = "pending"]
        BY <1>2 DEF CreateInsert, TypeOK
  <2>2. \A b \in Approvals : /\ At("update", b)' = At("update", b)
                             /\ At("run", b)' = At("run", b)
                             /\ At("record", b)' = At("record", b)
        BY <2>1 DEF TypeOK, At
  <2>3. \A b \in Approvals : Runs(b)' = Runs(b)
        BY <1>1, <2>1 DEF Runs, Ran
  <2>4. status' = [status EXCEPT ![a] = "pending"]
    <3>1. \A b \in Approvals : row'[b].status = IF b = a THEN "pending" ELSE row[b].status
          BY <2>1 DEF TypeOK, Rows
    <3> QED BY <3>1
  <2> QED BY <2>1, <2>2, <2>3, <2>4 DEF Race!Create, Race!Shrink
<1>3. ASSUME NEW r \in Requests, NEW a \in Approvals, NEW op \in {"approve", "deny"},
             ReadForDecision(r, op, a)
      PROVE  Race!SeesPending(a, r) \/ UNCHANGED Race!vars
  <2>1. /\ pc[r] = "idle" /\ ran' = ran /\ row' = row
        /\ call'[r].id = a /\ \A q \in Requests \ {r} : call'[q] = call[q]
        /\ \/ row[a].status = "pending" /\ pc' = [pc EXCEPT ![r] = "update"]
           \/ pc' = [pc EXCEPT ![r] = "done"]
        BY <1>3 DEF ReadForDecision, MayDecide, TypeOK, tables, history
  <2>2. \A b \in Approvals : Runs(b)' = Runs(b)
        BY <1>1, <2>1 DEF Runs, Ran
  <2>3. \A b \in Approvals : At("run", b)' = At("run", b) /\ At("record", b)' = At("record", b)
        BY <2>1 DEF TypeOK, At
  <2>4. CASE row[a].status = "pending" /\ pc' = [pc EXCEPT ![r] = "update"]
    <3>1. \A b \in Approvals :
             At("update", b)' = IF b = a THEN At("update", b) \cup {r} ELSE At("update", b)
          BY <2>1, <2>4 DEF TypeOK, At
    <3>2. f("update")' = [f("update") EXCEPT ![a] = @ \cup {r}]
          BY <3>1
    <3> QED BY <2>1, <2>2, <2>3, <2>4, <3>2 DEF Race!SeesPending
  <2>5. CASE pc' = [pc EXCEPT ![r] = "done"]
    <3>1. \A b \in Approvals : At("update", b)' = At("update", b)
          BY <2>1, <2>5 DEF TypeOK, At
    <3> QED BY <2>1, <2>2, <2>3, <3>1 DEF Race!vars
  <2> QED BY <2>1, <2>4, <2>5
<1>4. ASSUME NEW r \in Requests, NEW a \in Approvals, ReadForExecute(r, a)
      PROVE  Race!SeesApproved(a, r) \/ UNCHANGED Race!vars
  <2>1. /\ pc[r] = "idle" /\ ran' = ran /\ row' = row
        /\ call'[r].id = a /\ \A q \in Requests \ {r} : call'[q] = call[q]
        /\ \/ row[a].status = "approved" /\ pc' = [pc EXCEPT ![r] = "run"]
           \/ \E step \in {"auditReplay", "done"} : pc' = [pc EXCEPT ![r] = step]
        BY <1>4 DEF ReadForExecute, MayRun, TypeOK, tables, history
  <2>2. \A b \in Approvals : Runs(b)' = Runs(b)
        BY <1>1, <2>1 DEF Runs, Ran
  <2>3. \A b \in Approvals : /\ At("update", b)' = At("update", b)
                             /\ At("record", b)' = At("record", b)
        BY <2>1 DEF TypeOK, At
  <2>4. CASE row[a].status = "approved" /\ pc' = [pc EXCEPT ![r] = "run"]
    <3>1. \A b \in Approvals :
             At("run", b)' = IF b = a THEN At("run", b) \cup {r} ELSE At("run", b)
          BY <2>1, <2>4 DEF TypeOK, At
    <3>2. f("run")' = [f("run") EXCEPT ![a] = @ \cup {r}]
          BY <3>1
    <3> QED BY <2>1, <2>2, <2>3, <2>4, <3>2 DEF Race!SeesApproved
  <2>5. CASE \E step \in {"auditReplay", "done"} : pc' = [pc EXCEPT ![r] = step]
    <3>1. \A b \in Approvals : At("run", b)' = At("run", b)
          BY <2>1, <2>5 DEF TypeOK, At
    <3> QED BY <2>1, <2>2, <2>3, <3>1 DEF Race!vars
  <2> QED BY <2>1, <2>4, <2>5
<1>5. ASSUME NEW r \in Requests, UpdateStatus(r)
      PROVE  \E a \in Approvals : Race!Decides(a, r)
  <2>1. PICK a \in Approvals : call[r].id = a
        BY <1>5 DEF UpdateStatus, TypeOK, Calls
  <2>2. /\ pc[r] = "update" /\ pc' = [pc EXCEPT ![r] = "decision"]
        /\ call' = call /\ ran' = ran /\ Verdict(r) \in {"approved", "denied"}
        /\ row' = [row EXCEPT ![a].status = Verdict(r), ![a].decider = r]
        BY <1>5, <2>1 DEF UpdateStatus, Verdict
  <2>3. \A b \in Approvals :
           /\ At("update", b)' = IF b = a THEN At("update", b) \ {r} ELSE At("update", b)
           /\ At("run", b)' = At("run", b) /\ At("record", b)' = At("record", b)
        BY <2>1, <2>2 DEF TypeOK, At
  <2>4. f("update")' = [f("update") EXCEPT ![a] = @ \ {r}]
        BY <2>3
  <2>5. status' = [status EXCEPT ![a] = Verdict(r)]
    <3>1. \A b \in Approvals : row'[b].status = IF b = a THEN Verdict(r) ELSE row[b].status
          BY <2>2 DEF TypeOK, Rows
    <3> QED BY <3>1
  <2>6. f("run")' = f("run") /\ f("record")' = f("record") /\ execs' = execs
        BY <2>2, <2>3 DEF Runs, Ran
  <2>7. r \in f("update")[a]
        BY <2>1, <2>2 DEF At
  <2>8. status' = [status EXCEPT ![a] = "approved"] \/ status' = [status EXCEPT ![a] = "denied"]
        BY <2>2, <2>5
  <2>9. Race!Decides(a, r)
        BY <2>4, <2>6, <2>7, <2>8 DEF Race!Decides
  <2> QED BY <2>9
<1>6. ASSUME NEW r \in Requests, RunTool(r)
      PROVE  \E a \in Approvals : Race!Runs(a, r)
  <2>1. PICK a \in Approvals : call[r].id = a
        BY <1>6 DEF RunTool, TypeOK, Calls
  <2>2. /\ pc[r] = "run" /\ pc' = [pc EXCEPT ![r] = "record"]
        /\ call' = call /\ row' = row
        /\ \E outcome \in Outcomes : ran' = [ran EXCEPT ![r] = outcome]
        BY <1>6 DEF RunTool, tables
  <2>3. \A b \in Approvals :
           /\ At("run", b)' = IF b = a THEN At("run", b) \ {r} ELSE At("run", b)
           /\ At("record", b)' = IF b = a THEN At("record", b) \cup {r} ELSE At("record", b)
           /\ At("update", b)' = At("update", b)
        BY <2>1, <2>2 DEF TypeOK, At
  <2>4. /\ f("run")' = [f("run") EXCEPT ![a] = @ \ {r}]
        /\ f("record")' = [f("record") EXCEPT ![a] = @ \cup {r}]
        /\ f("update")' = f("update")
        BY <2>3
  <2>5. \A b \in Approvals : Runs(b)' = IF b = a THEN Runs(b) \cup {r} ELSE Runs(b)
        BY <2>1, <2>2 DEF Runs, Ran, Outcomes, TypeOK
  <2>6. execs' = [execs EXCEPT ![a] = @ \cup {r}]
        BY <2>5
  <2>7. r \in f("run")[a]
        BY <2>1, <2>2 DEF At
  <2>8. Race!Runs(a, r)
        BY <2>2, <2>4, <2>6, <2>7 DEF Race!Runs
  <2> QED BY <2>8
<1>7. ASSUME NEW r \in Requests, RecordExecution(r)
      PROVE  \E a \in Approvals : Race!Spends(a, r)
  <2>1. PICK a \in Approvals : call[r].id = a
        BY <1>7 DEF RecordExecution, TypeOK, Calls
  <2>2. /\ pc[r] = "record" /\ pc' = [pc EXCEPT ![r] = "auditExecuted"]
        /\ call' = call /\ ran' = ran
        /\ row' = [row EXCEPT ![a].status = "executed", ![a].result = ran[r]]
        BY <1>7, <2>1 DEF RecordExecution
  <2>3. \A b \in Approvals :
           /\ At("record", b)' = IF b = a THEN At("record", b) \ {r} ELSE At("record", b)
           /\ At("run", b)' = At("run", b) /\ At("update", b)' = At("update", b)
        BY <2>1, <2>2 DEF TypeOK, At
  <2>4. f("record")' = [f("record") EXCEPT ![a] = @ \ {r}]
        BY <2>3
  <2>5. status' = [status EXCEPT ![a] = "executed"]
    <3>1. \A b \in Approvals : row'[b].status = IF b = a THEN "executed" ELSE row[b].status
          BY <2>2 DEF TypeOK, Rows
    <3> QED BY <3>1
  <2>6. f("run")' = f("run") /\ f("update")' = f("update") /\ execs' = execs
        BY <2>2, <2>3 DEF Runs, Ran
  <2>7. r \in f("record")[a]
        BY <2>1, <2>2 DEF At
  <2>8. Race!Spends(a, r)
        BY <2>4, <2>5, <2>6, <2>7 DEF Race!Spends
  <2> QED BY <2>8
<1>8. ASSUME \A q \in Requests : pc'[q] = pc[q] \/ pc'[q] \notin {"update", "run", "record"},
             UNCHANGED <<row, call, ran>>
      PROVE  Race!Leave
  <2>1. \A b \in Approvals : /\ At("update", b)' \subseteq At("update", b)
                             /\ At("run", b)' \subseteq At("run", b)
                             /\ At("record", b)' \subseteq At("record", b)
        BY <1>8 DEF At
  <2>2. UNCHANGED <<status, execs>>
        BY <1>8 DEF Runs, Ran
  <2> QED BY <2>1, <2>2 DEF Race!Leave, Race!Shrink
<1>9. ASSUME NEW r \in Requests,
             \/ AuditCreated(r) \/ RecordDecision(r) \/ AuditDecision(r)
             \/ RememberDecision(r) \/ RecordTrustEvent(r) \/ AuditExecuted(r)
             \/ RememberExecution(r) \/ AuditReplay(r) \/ StoreFails(r)
      PROVE  Race!Leave
  <2>1. UNCHANGED <<row, call, ran>>
        BY <1>9 DEF AuditCreated, RecordDecision, AuditDecision, RememberDecision,
           RecordTrustEvent, AuditExecuted, RememberExecution, AuditReplay, StoreFails,
           tables, history
  <2>2. \E step \in {"done", "auditDecision", "rememberDecision", "trustEvent",
                     "rememberExecution"} : pc' = [pc EXCEPT ![r] = step]
        BY <1>9 DEF AuditCreated, RecordDecision, AuditDecision, RememberDecision,
           RecordTrustEvent, AuditExecuted, RememberExecution, AuditReplay, StoreFails
  <2>3. \A q \in Requests : pc'[q] = pc[q] \/ pc'[q] \notin {"update", "run", "record"}
        BY <2>2 DEF TypeOK
  <2> QED BY <1>8, <2>1, <2>3
<1>10. CASE CrashAndRestart
  <2>1. UNCHANGED <<row, call, ran>>
        BY <1>10 DEF CrashAndRestart, tables, history
  <2>2. \A q \in Requests : pc'[q] = pc[q] \/ pc'[q] \notin {"update", "run", "record"}
        BY <1>10 DEF CrashAndRestart
  <2> QED BY <1>8, <2>1, <2>2 DEF Race!Next
<1>11. CASE UNCHANGED vars
       BY <1>11 DEF vars, Race!vars, At, Runs, Ran
<1>12. ASSUME NEW r \in Requests, Arrive(r) \/ Continue(r) \/ StoreFails(r)
       PROVE  [Race!Next]_(Race!vars)
       BY <1>2, <1>3, <1>4, <1>5, <1>6, <1>7, <1>9, <1>12 DEF Arrive, Continue, Race!Next
<1> QED BY <1>10, <1>11, <1>12 DEF Next

\* However the calls overlap, fail or are cut off, the service implements
\* ApprovalRace: a status moves, and a tool runs, only by a call that looked at the
\* approval in time.
THEOREM RaceIsImplemented == Spec => ImplementsRace
<1>1. Init => Race!Init
      BY DEF Init, Race!Init, Race!NoCalls, At, Runs, Ran
<1>2. TypeOK /\ Safety /\ [Next]_vars => [Race!Next]_(Race!vars)
      BY RaceStep
<1> QED BY <1>1, <1>2, TypeCorrect, SafetyInvariant, PTL DEF Spec, Race!Spec, ImplementsRace

=============================================================================
