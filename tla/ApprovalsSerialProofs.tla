------------------------ MODULE ApprovalsSerialProofs ------------------------
(***************************************************************************)
(* What the approval loop guarantees to a single caller (Serial): a denied *)
(* approval never runs, and the loop implements the documented life cycle, *)
(* at-least-once when processes crash and operations fail.                 *)
(***************************************************************************)
EXTENDS ApprovalsProofs

\* With one call in flight, what the call has checked still holds when it writes.
SerialInv ==
    /\ \A r, q \in InFlight : r = q
    /\ \A r \in Requests :
          /\ pc[r] = "update" => row[call[r].id].status = "pending"
          /\ pc[r] \in {"run", "record"} => row[call[r].id].status = "approved"
          /\ Ran(r) => row[call[r].id].status \in {"approved", "executed"}
          /\ wrote[r] = "denied" => row[call[r].id].status = "denied"

LEMMA SerialStep ==
    ASSUME Serial, TypeOK, TypeOK', Safety, SerialInv, [Next]_vars
    PROVE  SerialInv'
<1> USE DEF SerialInv, InFlight, tables, history, Goto, Return, Begin, Steps, Calls,
            NoCall, Ran, TypeOK
<1>1. ASSUME NEW r \in Requests, NEW a \in Approvals, CreateInsert(r, a)
      PROVE  SerialInv'
  BY <1>1 DEF CreateInsert, Rows, Safety, WritesOK
<1>2. ASSUME NEW r \in Requests, AuditCreated(r)
      PROVE  SerialInv'
  BY <1>2 DEF AuditCreated
<1>3. ASSUME NEW r \in Requests, NEW a \in Approvals, NEW op \in {"approve", "deny"},
             ReadForDecision(r, op, a)
      PROVE  SerialInv'
  BY <1>3 DEF ReadForDecision, MayDecide, Safety, WritesOK
<1>4. ASSUME NEW r \in Requests, UpdateStatus(r)
      PROVE  SerialInv'
  BY <1>4 DEF UpdateStatus, Rows, Verdict, Safety, WritesOK
<1>5. ASSUME NEW r \in Requests, RecordDecision(r)
      PROVE  SerialInv'
  BY <1>5 DEF RecordDecision
<1>6. ASSUME NEW r \in Requests, AuditDecision(r)
      PROVE  SerialInv'
  BY <1>6 DEF AuditDecision
<1>7. ASSUME NEW r \in Requests, RememberDecision(r)
      PROVE  SerialInv'
  BY <1>7 DEF RememberDecision
<1>8. ASSUME NEW r \in Requests, RecordTrustEvent(r)
      PROVE  SerialInv'
  BY <1>8 DEF RecordTrustEvent
<1>9. ASSUME NEW r \in Requests, NEW a \in Approvals, ReadForExecute(r, a)
      PROVE  SerialInv'
  BY <1>9 DEF ReadForExecute, MayRun, Safety, WritesOK
<1>10. ASSUME NEW r \in Requests, AuditReplay(r)
       PROVE  SerialInv'
  BY <1>10 DEF AuditReplay
<1>11. ASSUME NEW r \in Requests, RunTool(r)
       PROVE  SerialInv'
  BY <1>11 DEF RunTool
<1>12. ASSUME NEW r \in Requests, RecordExecution(r)
       PROVE  SerialInv'
  <2>1. /\ pc[r] = "record" /\ pc' = [pc EXCEPT ![r] = "auditExecuted"]
        /\ call' = call /\ ran' = ran /\ wrote' = [wrote EXCEPT ![r] = "executed"]
    BY <1>12 DEF RecordExecution
  <2>2. /\ row[call[r].id].status = "approved" /\ row'[call[r].id].status = "executed"
        /\ \A b \in Approvals \ {call[r].id} : row'[b] = row[b]
    BY <1>12 DEF RecordExecution, Rows
  <2>3. \A q, t \in InFlight' : q = t
    BY <2>1
  <2>4. ASSUME NEW q \in Requests
        PROVE  /\ pc'[q] = "update" => row'[call'[q].id].status = "pending"
               /\ pc'[q] \in {"run", "record"} => row'[call'[q].id].status = "approved"
               /\ Ran(q)' => row'[call'[q].id].status \in {"approved", "executed"}
               /\ wrote'[q] = "denied" => row'[call'[q].id].status = "denied"
    <3>1. CASE q = r
      BY <2>1, <2>2, <3>1
    <3>2. CASE q # r
      <4>1. pc'[q] = pc[q] /\ pc[q] \notin Steps /\ wrote'[q] = wrote[q]
        BY <2>1, <3>2
      <4>2. wrote[q] # "none" \/ Ran(q) => call[q].id \in Approvals
        BY DEF Safety, WritesOK
      <4>3. wrote[q] = "denied" => call[q].id # call[r].id
        BY <2>2
      <4>4. QED
        BY <2>1, <2>2, <4>1, <4>2, <4>3
    <3>3. QED
      BY <3>1, <3>2
  <2>5. QED
    BY <2>3, <2>4
<1>13. ASSUME NEW r \in Requests, AuditExecuted(r)
       PROVE  SerialInv'
  BY <1>13 DEF AuditExecuted
<1>14. ASSUME NEW r \in Requests, RememberExecution(r)
       PROVE  SerialInv'
  BY <1>14 DEF RememberExecution
<1>15. ASSUME NEW r \in Requests, StoreFails(r)
       PROVE  SerialInv'
  BY <1>15 DEF StoreFails, StoreSteps
<1>16. CASE CrashAndRestart
  BY <1>16 DEF CrashAndRestart
<1>17. CASE UNCHANGED vars
  BY <1>17 DEF vars
<1> HIDE DEF SerialInv, TypeOK
<1>18. QED
  BY <1>1, <1>2, <1>3, <1>4, <1>5, <1>6, <1>7, <1>8, <1>9, <1>10, <1>11, <1>12,
     <1>13, <1>14, <1>15, <1>16, <1>17 DEF Next, Arrive, Continue

THEOREM SerialInvariant == Serial => (Spec => []SerialInv)
<1> SUFFICES ASSUME Serial PROVE Spec => []SerialInv
  OBVIOUS
<1>1. Init => SerialInv
  BY DEF Init, SerialInv, InFlight, Steps, Ran
<1>2. TypeOK /\ TypeOK' /\ Safety /\ SerialInv /\ [Next]_vars => SerialInv'
  BY SerialStep
<1>3. QED
  BY <1>1, <1>2, TypeCorrect, SafetyInvariant, PTL DEF Spec

\* A single caller can rely on a denial: whatever crashes and fails, no tool runs
\* for an approval that was denied.
THEOREM DeniedNeverRunsSerially == Serial => (Spec => []DeniedNeverRuns)
<1>1. SerialInv => DeniedNeverRuns
  BY DEF SerialInv, DeniedNeverRuns
<1>2. QED
  BY <1>1, SerialInvariant, PTL

-----------------------------------------------------------------------------
(* Refinement.                                                             *)

\* The runs of an approval change only when a tool runs.
LEMMA RunsFramed ==
    ASSUME ran' = ran, \A q \in Requests : Ran(q) => call'[q] = call[q]
    PROVE  \A a : Runs(a)' = Runs(a)
BY DEF Runs, Ran

LEMMA RetryStep ==
    ASSUME Serial, TypeOK, TypeOK', Safety, SerialInv, [Next]_vars
    PROVE  [AtLeastOnce!RetryNext]_AtLeastOnce!vars
<1> USE DEF tables, history, TypeOK
<1>1. ASSUME row' = row, ran' = ran, \A q \in Requests : Ran(q) => call'[q] = call[q]
      PROVE  UNCHANGED AtLeastOnce!vars
  BY <1>1, RunsFramed DEF AtLeastOnce!vars
<1>2. ASSUME NEW r \in Requests, NEW a \in Approvals, CreateInsert(r, a)
      PROVE  AtLeastOnce!Create(a)
  <2>1. ~Ran(r) /\ ran' = ran /\ \A q \in Requests \ {r} : call'[q] = call[q]
    BY <1>2 DEF CreateInsert, Begin, Safety, WritesOK, Ran
  <2>2. row[a].status = "absent" /\ row' = [row EXCEPT ![a].status = "pending"]
    BY <1>2 DEF CreateInsert
  <2>3. \A b : Runs(b)' = Runs(b)
    BY <2>1, RunsFramed
  <2>4. [b \in Approvals |-> row'[b].status]
          = [[b \in Approvals |-> row[b].status] EXCEPT ![a] = "pending"]
    <3>1. \A b \in Approvals :
            row'[b].status = IF b = a THEN "pending" ELSE row[b].status
      BY <2>2 DEF Rows
    <3> HIDE DEF TypeOK
    <3>2. QED
      BY <3>1
  <2>5. QED
    BY <2>2, <2>3, <2>4 DEF AtLeastOnce!Create, AtLeastOnce!Move
<1>3. ASSUME NEW r \in Requests, NEW a \in Approvals, a = call[r].id, UpdateStatus(r)
      PROVE  AtLeastOnce!Approve(a) \/ AtLeastOnce!Deny(a)
  <2>1. row[a].status = "pending" /\ ran' = ran /\ call' = call
    BY <1>3 DEF UpdateStatus, SerialInv, Calls
  <2>2. \A b : Runs(b)' = Runs(b)
    BY <2>1, RunsFramed
  <2>3. [b \in Approvals |-> row'[b].status]
          = [[b \in Approvals |-> row[b].status] EXCEPT ![a] = Verdict(r)]
    <3>1. \A b \in Approvals :
            row'[b].status = IF b = a THEN Verdict(r) ELSE row[b].status
      BY <1>3, <2>1 DEF UpdateStatus, Rows
    <3> HIDE DEF TypeOK
    <3>2. QED
      BY <3>1
  <2>4. QED
    BY <2>1, <2>2, <2>3 DEF AtLeastOnce!Approve, AtLeastOnce!Deny, AtLeastOnce!Move, Verdict
<1>4. ASSUME NEW r \in Requests, NEW a \in Approvals, a = call[r].id, RunTool(r)
      PROVE  AtLeastOnce!Run(a, r)
  <2>1. row[a].status = "approved" /\ row' = row /\ call' = call
    BY <1>4 DEF RunTool, SerialInv, Calls
  <2>2. Ran(r)' /\ \A q \in Requests \ {r} : Ran(q)' <=> Ran(q)
    BY <1>4 DEF RunTool, Ran, Outcomes
  <2>3. \A b \in Approvals : Runs(b)' = IF b = a THEN Runs(b) \cup {r} ELSE Runs(b)
    <3>1. \A q \in Requests : Ran(q)' <=> Ran(q) \/ q = r
      BY <2>2
    <3>2. call' = call /\ call[r].id = a
      BY <1>4, <2>1
    <3> HIDE DEF TypeOK, Ran
    <3>3. QED
      BY <3>1, <3>2 DEF Runs
  <2>4. [b \in Approvals |-> Runs(b)']
          = [[b \in Approvals |-> Runs(b)] EXCEPT ![a] = @ \cup {r}]
    BY <2>1, <2>3
  <2>5. QED
    BY <2>1, <2>4 DEF AtLeastOnce!Run
<1>5. ASSUME NEW r \in Requests, NEW a \in Approvals, a = call[r].id, RecordExecution(r)
      PROVE  AtLeastOnce!Spend(a)
  <2>1. row[a].status = "approved" /\ ran' = ran /\ call' = call
    BY <1>5 DEF RecordExecution, SerialInv, Calls
  <2>2. Runs(a) # {} /\ \A b : Runs(b)' = Runs(b)
    BY <1>5, <2>1, RunsFramed DEF RecordExecution, Runs, Ran, Outcomes
  <2>3. [b \in Approvals |-> row'[b].status]
          = [[b \in Approvals |-> row[b].status] EXCEPT ![a] = "executed"]
    <3>1. \A b \in Approvals :
            row'[b].status = IF b = a THEN "executed" ELSE row[b].status
      BY <1>5, <2>1 DEF RecordExecution, Rows
    <3> HIDE DEF TypeOK
    <3>2. QED
      BY <3>1
  <2>4. QED
    BY <2>1, <2>2, <2>3 DEF AtLeastOnce!Spend, AtLeastOnce!Move
<1>6. ASSUME NEW r \in Requests, Continue(r) \/ StoreFails(r)
      PROVE  \/ UpdateStatus(r) \/ RunTool(r) \/ RecordExecution(r)
             \/ UNCHANGED AtLeastOnce!vars
  BY <1>1, <1>6 DEF Continue, AuditCreated, RecordDecision, AuditDecision,
     RememberDecision, RecordTrustEvent, AuditExecuted, RememberExecution, AuditReplay,
     StoreFails
<1>7. ASSUME NEW r \in Requests, NEW a \in Approvals,
             \/ \E op \in {"approve", "deny"} : ReadForDecision(r, op, a)
             \/ ReadForExecute(r, a)
      PROVE  UNCHANGED AtLeastOnce!vars
  <2>1. ~Ran(r) /\ row' = row /\ ran' = ran
        /\ \A q \in Requests \ {r} : call'[q] = call[q]
    BY <1>7 DEF ReadForDecision, ReadForExecute, Begin, Safety, WritesOK, Ran
  <2>2. QED
    BY <1>1, <2>1
<1>8. CASE CrashAndRestart
  BY <1>1, <1>8 DEF CrashAndRestart
<1>9. CASE UNCHANGED vars
  BY <1>1, <1>9 DEF vars
<1>10. \A r \in Requests : pc[r] \in Steps => call[r].id \in Approvals
  BY DEF Calls, Steps
<1>11. ASSUME NEW r \in Requests, UpdateStatus(r) \/ RunTool(r) \/ RecordExecution(r)
       PROVE  call[r].id \in Approvals
  BY <1>10, <1>11 DEF UpdateStatus, RunTool, RecordExecution, Steps
<1> HIDE DEF TypeOK
<1>12. ASSUME NEW r \in Requests, Arrive(r)
       PROVE  AtLeastOnce!RetryNext \/ UNCHANGED AtLeastOnce!vars
  BY <1>2, <1>7, <1>12 DEF Arrive, AtLeastOnce!RetryNext, AtLeastOnce!Decide
<1>13. ASSUME NEW r \in Requests, Continue(r) \/ StoreFails(r)
       PROVE  AtLeastOnce!RetryNext \/ UNCHANGED AtLeastOnce!vars
  <2>1. ASSUME NEW a \in Approvals, a = call[r].id, UpdateStatus(r)
        PROVE  AtLeastOnce!RetryNext
    BY <1>3, <2>1 DEF AtLeastOnce!RetryNext, AtLeastOnce!Decide
  <2>2. ASSUME NEW a \in Approvals, a = call[r].id, RunTool(r)
        PROVE  AtLeastOnce!RetryNext
    BY <1>4, <2>2 DEF AtLeastOnce!RetryNext
  <2>3. ASSUME NEW a \in Approvals, a = call[r].id, RecordExecution(r)
        PROVE  AtLeastOnce!RetryNext
    BY <1>5, <2>3 DEF AtLeastOnce!RetryNext
  <2>4. QED
    BY <1>6, <1>11, <1>13, <2>1, <2>2, <2>3
<1>14. QED
  BY <1>8, <1>9, <1>12, <1>13 DEF Next

\* For a single caller the loop implements the documented life cycle, except that
\* a crash or a failing store may leave an approved tool to be run again.
THEOREM RetryLifecycleSerially == Serial => (Spec => ImplementsRetryLifecycle)
<1> SUFFICES ASSUME Serial PROVE Spec => AtLeastOnce!RetrySpec
  BY DEF ImplementsRetryLifecycle
<1>1. Init => AtLeastOnce!Init
  BY DEF Init, AtLeastOnce!Init, Runs, Ran
<1>2. TypeOK /\ TypeOK' /\ Safety /\ SerialInv /\ [Next]_vars
        => [AtLeastOnce!RetryNext]_AtLeastOnce!vars
  BY RetryStep
<1>3. QED
  BY <1>1, <1>2, TypeCorrect, SafetyInvariant, SerialInvariant, PTL
  DEF Spec, AtLeastOnce!RetrySpec

-----------------------------------------------------------------------------
(* Without crashes and failures: exactly once.                             *)

\* A run is followed by its write, so an approval that is still approved was run by
\* the call that is about to write it, or by none.
OnceInv ==
    \A r \in Requests :
        Ran(r) /\ row[call[r].id].status = "approved" => pc[r] = "record"

LEMMA OnceInvStep ==
    ASSUME Serial, ~CanCrash, ~StoreCanFail,
           TypeOK, TypeOK', Safety, SerialInv, OnceInv, [Next]_vars
    PROVE  OnceInv'
<1> USE DEF OnceInv, tables, history, Goto, Return, Begin, Ran, TypeOK
<1>1. ASSUME NEW r \in Requests, NEW a \in Approvals, CreateInsert(r, a)
      PROVE  OnceInv'
  <2>1. /\ ~Ran(r) /\ ran' = ran /\ row[a].status = "absent" /\ row'[a].status = "pending"
        /\ \A b \in Approvals \ {a} : row'[b] = row[b]
        /\ \A q \in Requests \ {r} : pc'[q] = pc[q] /\ call'[q] = call[q]
    BY <1>1 DEF CreateInsert, Safety, WritesOK, Rows
  <2>2. \A q \in Requests : Ran(q) => call[q].id \in Approvals
    BY DEF Safety, WritesOK, Calls
  <2>3. QED
    BY <2>1, <2>2
<1>2. ASSUME NEW r \in Requests, NEW a \in Approvals,
             \/ \E op \in {"approve", "deny"} : ReadForDecision(r, op, a)
             \/ ReadForExecute(r, a)
      PROVE  OnceInv'
  <2>1. /\ ~Ran(r) /\ ran' = ran /\ row' = row
        /\ \A q \in Requests \ {r} : pc'[q] = pc[q] /\ call'[q] = call[q]
    BY <1>2 DEF ReadForDecision, ReadForExecute, Safety, WritesOK
  <2>2. QED
    BY <2>1
<1>3. ASSUME NEW r \in Requests, UpdateStatus(r)
      PROVE  OnceInv'
  <2>1. /\ ran' = ran /\ call' = call /\ row[call[r].id].status = "pending"
        /\ \A b \in Approvals \ {call[r].id} : row'[b] = row[b]
        /\ \A q \in Requests \ {r} : pc'[q] = pc[q]
        /\ ~Ran(r)
    BY <1>3 DEF UpdateStatus, SerialInv, Safety, WritesOK, DecideSteps
  <2>2. \A q \in Requests : Ran(q) => call[q].id \in Approvals \ {call[r].id}
    BY <2>1 DEF SerialInv, Safety, WritesOK, Calls
  <2>3. QED
    BY <2>1, <2>2
<1>4. ASSUME NEW r \in Requests, RunTool(r)
      PROVE  OnceInv'
  BY <1>4 DEF RunTool
<1>5. ASSUME NEW r \in Requests, RecordExecution(r)
      PROVE  OnceInv'
  <2>1. /\ ran' = ran /\ call' = call /\ row'[call[r].id].status = "executed"
        /\ \A b \in Approvals \ {call[r].id} : row'[b] = row[b]
        /\ \A q \in Requests \ {r} : pc'[q] = pc[q]
    BY <1>5 DEF RecordExecution, Rows, Calls
  <2>2. \A q \in Requests : Ran(q) => call[q].id \in Approvals
    BY DEF Safety, WritesOK, Calls
  <2>3. QED
    BY <2>1, <2>2
<1>6. ASSUME NEW r \in Requests,
             \/ AuditCreated(r) \/ RecordDecision(r) \/ AuditDecision(r)
             \/ RememberDecision(r) \/ RecordTrustEvent(r) \/ AuditReplay(r)
             \/ AuditExecuted(r) \/ RememberExecution(r)
      PROVE  OnceInv'
  <2>1. /\ ran' = ran /\ call' = call /\ row' = row /\ pc[r] # "record"
        /\ \A q \in Requests \ {r} : pc'[q] = pc[q]
    BY <1>6 DEF AuditCreated, RecordDecision, AuditDecision, RememberDecision,
       RecordTrustEvent, AuditReplay, AuditExecuted, RememberExecution
  <2>2. QED
    BY <2>1
<1>7. ASSUME NEW r \in Requests, StoreFails(r)
      PROVE  FALSE
  BY <1>7 DEF StoreFails
<1>8. ~CrashAndRestart
  BY DEF CrashAndRestart
<1>9. CASE UNCHANGED vars
  BY <1>9 DEF vars
<1> HIDE DEF OnceInv, TypeOK
<1>10. QED
  BY <1>1, <1>2, <1>3, <1>4, <1>5, <1>6, <1>7, <1>8, <1>9 DEF Next, Arrive, Continue

LEMMA OnceStep ==
    ASSUME Serial, ~CanCrash, ~StoreCanFail,
           TypeOK, TypeOK', Safety, SerialInv, OnceInv, [Next]_vars
    PROVE  [Once!Next]_Once!vars
<1> DEFINE S(a) == IF Runs(a) # {} THEN "executed" ELSE row[a].status
<1> USE DEF tables, history, TypeOK
<1>1. ASSUME row' = row, ran' = ran, \A q \in Requests : Ran(q) => call'[q] = call[q]
      PROVE  UNCHANGED Once!vars
  BY <1>1, RunsFramed DEF Once!vars
<1>2. ASSUME NEW a \in Approvals, Runs(a) = {}, NEW to,
             \A b : Runs(b)' = Runs(b),
             \A b \in Approvals : row'[b].status = IF b = a THEN to ELSE row[b].status
      PROVE  [b \in Approvals |-> S(b)'] = [[b \in Approvals |-> S(b)] EXCEPT ![a] = to]
  <2>1. \A b \in Approvals : S(b)' = IF b = a THEN to ELSE S(b)
    BY <1>2
  <2> HIDE DEF S, TypeOK
  <2>2. QED
    BY <2>1
<1>3. ASSUME NEW r \in Requests, NEW a \in Approvals, CreateInsert(r, a)
      PROVE  Once!Create(a)
  <2>1. ~Ran(r) /\ ran' = ran /\ \A q \in Requests \ {r} : call'[q] = call[q]
    BY <1>3 DEF CreateInsert, Begin, Safety, WritesOK, Ran
  <2>2. /\ row[a].status = "absent"
        /\ \A b \in Approvals : row'[b].status = IF b = a THEN "pending" ELSE row[b].status
    BY <1>3 DEF CreateInsert, Rows
  <2>3. \A b : Runs(b)' = Runs(b)
    BY <2>1, RunsFramed
  <2>4. Runs(a) = {}
    BY <2>2 DEF SerialInv, Runs
  <2>5. [b \in Approvals |-> S(b)'] = [[b \in Approvals |-> S(b)] EXCEPT ![a] = "pending"]
    BY <1>2, <2>2, <2>3, <2>4
  <2>6. QED
    BY <2>2, <2>3, <2>4, <2>5 DEF Once!Create, Once!Move
<1>4. ASSUME NEW r \in Requests, NEW a \in Approvals, a = call[r].id, UpdateStatus(r)
      PROVE  Once!Approve(a) \/ Once!Deny(a)
  <2>1. row[a].status = "pending" /\ ran' = ran /\ call' = call
    BY <1>4 DEF UpdateStatus, SerialInv
  <2>2. \A b \in Approvals : row'[b].status = IF b = a THEN Verdict(r) ELSE row[b].status
    BY <1>4 DEF UpdateStatus, Rows
  <2>3. \A b : Runs(b)' = Runs(b)
    BY <2>1, RunsFramed
  <2>4. Runs(a) = {}
    BY <2>1 DEF SerialInv, Runs
  <2>5. [b \in Approvals |-> S(b)'] = [[b \in Approvals |-> S(b)] EXCEPT ![a] = Verdict(r)]
    BY <1>2, <2>2, <2>3, <2>4
  <2>6. QED
    BY <2>1, <2>3, <2>4, <2>5 DEF Once!Approve, Once!Deny, Once!Move, Verdict
<1>5. ASSUME NEW r \in Requests, NEW a \in Approvals, a = call[r].id, RunTool(r)
      PROVE  Once!ExecuteOnce(a, r)
  <2>1. row[a].status = "approved" /\ row' = row /\ call' = call
    BY <1>5 DEF RunTool, SerialInv
  <2>2. Ran(r)' /\ \A q \in Requests \ {r} : Ran(q)' <=> Ran(q)
    BY <1>5 DEF RunTool, Ran, Outcomes
  <2>3. ASSUME NEW q \in Runs(a)
        PROVE  FALSE
    <3>1. pc[q] = "record" /\ pc[r] = "run" /\ q \in Requests
      BY <1>5, <2>1, <2>3 DEF OnceInv, RunTool, Runs
    <3>2. QED
      BY <3>1 DEF SerialInv, InFlight, Steps
  <2>4. \A b \in Approvals : Runs(b)' = IF b = a THEN Runs(b) \cup {r} ELSE Runs(b)
    <3>1. \A q \in Requests : Ran(q)' <=> Ran(q) \/ q = r
      BY <2>2
    <3>2. call' = call /\ call[r].id = a
      BY <1>5, <2>1
    <3> HIDE DEF TypeOK, Ran
    <3>3. QED
      BY <3>1, <3>2 DEF Runs
  <2>5. [b \in Approvals |-> Runs(b)'] = [[b \in Approvals |-> Runs(b)] EXCEPT ![a] = @ \cup {r}]
    BY <2>4
  <2>6. \A b \in Approvals : S(b)' = IF b = a THEN "executed" ELSE S(b)
    BY <2>1, <2>4
  <2>7. S(a) = "approved"
    BY <2>1, <2>3
  <2> HIDE DEF S, TypeOK
  <2>8. [b \in Approvals |-> S(b)'] = [[b \in Approvals |-> S(b)] EXCEPT ![a] = "executed"]
    BY <2>6
  <2>9. QED
    BY <2>5, <2>7, <2>8 DEF Once!ExecuteOnce, Once!Move, S
<1>6. ASSUME NEW r \in Requests, NEW a \in Approvals, a = call[r].id, RecordExecution(r)
      PROVE  UNCHANGED Once!vars
  <2>1. /\ ran' = ran /\ call' = call
        /\ \A b \in Approvals \ {a} : row'[b] = row[b]
    BY <1>6 DEF RecordExecution
  <2>2. Runs(a) # {} /\ \A b : Runs(b)' = Runs(b)
    BY <1>6, <2>1, RunsFramed DEF RecordExecution, Runs, Ran, Outcomes
  <2>3. \A b \in Approvals : S(b)' = S(b)
    BY <2>1, <2>2
  <2>4. QED
    BY <2>2, <2>3 DEF Once!vars
<1>7. ASSUME NEW r \in Requests, Continue(r)
      PROVE  \/ UpdateStatus(r) \/ RunTool(r) \/ RecordExecution(r)
             \/ UNCHANGED Once!vars
  BY <1>1, <1>7 DEF Continue, AuditCreated, RecordDecision, AuditDecision,
     RememberDecision, RecordTrustEvent, AuditExecuted, RememberExecution, AuditReplay
<1>8. ASSUME NEW r \in Requests, NEW a \in Approvals,
             \/ \E op \in {"approve", "deny"} : ReadForDecision(r, op, a)
             \/ ReadForExecute(r, a)
      PROVE  UNCHANGED Once!vars
  <2>1. ~Ran(r) /\ row' = row /\ ran' = ran
        /\ \A q \in Requests \ {r} : call'[q] = call[q]
    BY <1>8 DEF ReadForDecision, ReadForExecute, Begin, Safety, WritesOK, Ran
  <2>2. QED
    BY <1>1, <2>1
<1>9. ~CrashAndRestart /\ \A r \in Requests : ~StoreFails(r)
  BY DEF CrashAndRestart, StoreFails
<1>10. CASE UNCHANGED vars
  BY <1>1, <1>10 DEF vars
<1>11. ASSUME NEW r \in Requests, UpdateStatus(r) \/ RunTool(r) \/ RecordExecution(r)
       PROVE  call[r].id \in Approvals
  BY <1>11 DEF UpdateStatus, RunTool, RecordExecution, Calls, Steps
<1> HIDE DEF TypeOK
<1>12. ASSUME NEW r \in Requests, Arrive(r)
       PROVE  Once!Next \/ UNCHANGED Once!vars
  BY <1>3, <1>8, <1>12 DEF Arrive, Once!Next, Once!Decide
<1>13. ASSUME NEW r \in Requests, Continue(r)
       PROVE  Once!Next \/ UNCHANGED Once!vars
  <2>1. ASSUME NEW a \in Approvals, a = call[r].id, UpdateStatus(r) \/ RunTool(r)
        PROVE  Once!Next
    BY <1>4, <1>5, <2>1 DEF Once!Next, Once!Decide
  <2>2. QED
    BY <1>6, <1>7, <1>11, <1>13, <2>1
<1>14. QED
  BY <1>9, <1>10, <1>12, <1>13 DEF Next

\* For a single caller, while the process lives and the store works, the loop
\* implements the documented life cycle: an approved action executes exactly once,
\* a denied one never.
THEOREM LifecycleSerially ==
    Serial /\ ~CanCrash /\ ~StoreCanFail => (Spec => ImplementsLifecycle)
<1> SUFFICES ASSUME Serial, ~CanCrash, ~StoreCanFail PROVE Spec => Once!Spec
  BY DEF ImplementsLifecycle
<1>1. Init => Once!Init /\ OnceInv
  BY DEF Init, Once!Init, OnceInv, Runs, Ran
<1>2. TypeOK /\ TypeOK' /\ Safety /\ SerialInv /\ OnceInv /\ [Next]_vars
        => OnceInv' /\ [Once!Next]_Once!vars
  BY OnceInvStep, OnceStep
<1>3. QED
  BY <1>1, <1>2, TypeCorrect, SafetyInvariant, SerialInvariant, PTL DEF Spec, Once!Spec
=============================================================================
