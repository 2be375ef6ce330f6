--------------------------- MODULE AvsSystemProofs ---------------------------
(***************************************************************************)
(* Theorems about the whole server, for any requests and reviews, in any   *)
(* order, any number of restarts, with or without failures and an approval *)
(* service.                                                                *)
(***************************************************************************)
EXTENDS AvsSystem, TLAPS

\* The answer is the decision on its basis, and only a request that _decide sends
\* to a human has a row.
AnswerOK(q) ==
    /\ answer[q] = "none" => row[q] = "absent"
    /\ answer[q] \in Decisions =>
          /\ basis[q] \in Bases
          /\ answer[q] = Decide(basis[q].policy, basis[q].risk, basis[q].tier)
    /\ row[q] # "absent" =>
          /\ answer[q] \in {"require_approval", "lost"}
          /\ basis[q] \in Bases
          /\ Decide(basis[q].policy, basis[q].risk, basis[q].tier) = "require_approval"

\* A run has its cause, and an approval its human.
RunsOK(q) ==
    /\ Direct \in runs[q] => answer[q] = "allow"
    /\ Approved(q) => q \in granted
    /\ row[q] = "approved" => q \in granted
    /\ q \in granted => row[q] # "absent"

\* A call is at a step of the operation it was made for.
ReviewOK ==
    \A r \in Reviews :
        /\ pc[r] \in Steps => review[r] \in Asks
        /\ pc[r] = "write" => review[r].op \in {"approved", "denied"}

\* A call in flight has found a row, and an approved one before it runs the tool.
LooksOK ==
    \A r \in Reviews :
        /\ pc[r] \in Steps => row[review[r].request] # "absent"
        /\ pc[r] \in {"run", "record"} => review[r].request \in granted

SystemInv == LooksOK /\ \A q \in Requests : AnswerOK(q) /\ RunsOK(q)

\* A trust lookup gives one of the four tiers.
LEMMA TierNowType == TierNow \in Tiers
BY DEF TierNow, Tier, Tiers

LEMMA DecideType ==
    ASSUME NEW policy \in PolicyResults, NEW risk \in Risks, NEW tier \in Tiers
    PROVE  Decide(policy, risk, tier) \in Decisions
BY DEF Decide, Decisions

\* What is queued, if anything, is the request itself, as pending, for a decision
\* that asks for it.
LEMMA QueueEffect ==
    ASSUME NEW q \in Requests, NEW d, Queue(q, d)
    PROVE  row' = row \/ (d = "require_approval" /\ row' = [row EXCEPT ![q] = "pending"])
BY DEF Queue, SetRow

\* A call of the approval loop begins, with what it found.
ReviewStarts(r, q) ==
    /\ pc[r] = "idle" /\ UNCHANGED <<answer, basis, row, runs, recorded, granted, restarts>>
    /\ \/ /\ row[q] = "pending" /\ pc' = [pc EXCEPT ![r] = "write"]
          /\ \E verdict \in {"approved", "denied"} :
                review' = [review EXCEPT ![r] = [op |-> verdict, request |-> q]]
       \/ /\ row[q] = "approved" /\ pc' = [pc EXCEPT ![r] = "run"]
          /\ review' = [review EXCEPT ![r] = [op |-> "execute", request |-> q]]

\* ... writes its verdict,
ReviewDecides(r) ==
    /\ pc[r] = "write" /\ pc' = [pc EXCEPT ![r] = "remember"]
    /\ UNCHANGED <<answer, basis, runs, recorded, review, restarts>>
    /\ row' = [row EXCEPT ![review[r].request] = review[r].op]
    /\ granted' = IF review[r].op = "approved" THEN granted \cup {review[r].request}
                  ELSE granted

\* ... runs the tool,
ReviewRuns(r) ==
    /\ pc[r] = "run" /\ pc' = [pc EXCEPT ![r] = "record"]
    /\ UNCHANGED <<answer, basis, row, recorded, review, granted, restarts>>
    /\ runs' = [runs EXCEPT ![review[r].request] = @ \cup {r}]

\* ... writes that it did,
ReviewSpends(r) ==
    /\ pc[r] = "record" /\ pc' = [pc EXCEPT ![r] = "rememberRun"]
    /\ UNCHANGED <<answer, basis, runs, recorded, review, granted, restarts>>
    /\ row' = [row EXCEPT ![review[r].request] = "executed"]

\* ... or ends, leaving what there is.
ReviewEnds(r) ==
    /\ pc[r] \in Steps /\ pc' = [pc EXCEPT ![r] = "done"]
    /\ UNCHANGED <<answer, basis, row, runs, recorded, review, granted, restarts>>

LEMMA ReviewEffect ==
    ASSUME NEW r \in Reviews, Review(r)
    PROVE  \/ \E q \in Requests : ReviewStarts(r, q)
           \/ ReviewDecides(r) \/ ReviewRuns(r) \/ ReviewSpends(r) \/ ReviewEnds(r)
<1>1. ASSUME NEW q \in Requests, NEW verdict \in {"approved", "denied"},
             ReadForDecision(r, q, verdict)
      PROVE  ReviewStarts(r, q)
      BY <1>1 DEF ReadForDecision, Starts, ReviewStarts, request
<1>2. ASSUME NEW q \in Requests, ReadForExecute(r, q)
      PROVE  ReviewStarts(r, q)
      BY <1>2 DEF ReadForExecute, MayExecute, Starts, ReviewStarts, request
<1>3. WriteDecision(r) => ReviewDecides(r)
      BY DEF WriteDecision, Continues, SetRow, ReviewDecides, request
<1>4. RunApproved(r) => ReviewRuns(r)
      BY DEF RunApproved, Continues, AddRun, ReviewRuns, request
<1>5. RecordExecution(r) => ReviewSpends(r)
      BY DEF RecordExecution, Continues, SetRow, ReviewSpends, request
<1>6. RememberDecision(r) \/ RememberExecution(r) \/ ReviewFails(r) => ReviewEnds(r)
      BY DEF RememberDecision, RememberExecution, ReviewFails, Continues, ReviewEnds,
             Steps, request
<1> QED BY <1>1, <1>2, <1>3, <1>4, <1>5, <1>6 DEF Review

\* The death of the process: every call in flight is over.
Dies ==
    /\ restarts < MaxRestarts /\ restarts' = restarts + 1
    /\ pc' = [r \in Reviews |-> IF pc[r] \in Steps THEN "done" ELSE pc[r]]

LEMMA InterceptEffect ==
    ASSUME NEW q \in Requests, Intercept(q)
    PROVE  \E policy \in PolicyResults, risk \in Risks :
             /\ answer[q] = "none"
             /\ basis' = [basis EXCEPT ![q] = [policy |-> policy, risk |-> risk,
                                               tier |-> TierNow]]
             /\ Queue(q, Decide(policy, risk, TierNow))
             /\ \/ /\ answer' = [answer EXCEPT ![q] = Decide(policy, risk, TierNow)]
                   /\ UNCHANGED <<pc, restarts>>
                \/ answer' = [answer EXCEPT ![q] = "lost"] /\ Dies
             /\ UNCHANGED <<runs, recorded, review, granted>>
BY DEF Intercept, Forget, Dies

\* Types, for any requests and reviews.
LEMMA TypeStep ==
    ASSUME TypeOK, ReviewOK, [Next]_vars
    PROVE  TypeOK' /\ ReviewOK'
<1> USE DEF TypeOK, ReviewOK, Asks, NoAsk, Steps
<1>1. ASSUME NEW q \in Requests, Intercept(q)
      PROVE  TypeOK' /\ ReviewOK'
  <2>1. PICK policy \in PolicyResults, risk \in Risks :
          /\ basis' = [basis EXCEPT ![q] = [policy |-> policy, risk |-> risk,
                                            tier |-> TierNow]]
          /\ Queue(q, Decide(policy, risk, TierNow))
          /\ \/ /\ answer' = [answer EXCEPT ![q] = Decide(policy, risk, TierNow)]
                /\ UNCHANGED <<pc, restarts>>
             \/ answer' = [answer EXCEPT ![q] = "lost"] /\ Dies
          /\ UNCHANGED <<runs, recorded, review, granted>>
        BY <1>1, InterceptEffect
  <2>2. [policy |-> policy, risk |-> risk, tier |-> TierNow] \in Bases
        BY TierNowType DEF Bases
  <2>3. basis' \in [Requests -> Bases \cup {NoBasis}]
        BY <2>1, <2>2
  <2>4. answer' \in [Requests -> Answers]
        BY <2>1, TierNowType, DecideType DEF Answers
  <2>5. row' \in [Requests -> Statuses]
        BY <2>1, QueueEffect DEF Statuses
  <2>6. pc' \in [Reviews -> Steps \cup {"idle", "done"}] /\ restarts' \in 0 .. MaxRestarts
        BY <2>1, SystemAssumption DEF Dies
  <2>7. ReviewOK'
        BY <2>1 DEF Dies
  <2> QED BY <2>1, <2>3, <2>4, <2>5, <2>6, <2>7
<1>2. ASSUME NEW q \in Requests, RunAllowed(q) \/ RecordAnswer(q)
      PROVE  TypeOK' /\ ReviewOK'
      BY <1>2 DEF RunAllowed, RecordAnswer, AddRun, request, calls
<1>3. ASSUME NEW r \in Reviews, NEW q \in Requests, ReviewStarts(r, q)
      PROVE  TypeOK' /\ ReviewOK'
      BY <1>3 DEF ReviewStarts
<1>4. ASSUME NEW r \in Reviews, ReviewDecides(r)
      PROVE  TypeOK' /\ ReviewOK'
      BY <1>4 DEF ReviewDecides, Statuses
<1>5. ASSUME NEW r \in Reviews, ReviewRuns(r)
      PROVE  TypeOK' /\ ReviewOK'
      BY <1>5 DEF ReviewRuns
<1>6. ASSUME NEW r \in Reviews, ReviewSpends(r)
      PROVE  TypeOK' /\ ReviewOK'
      BY <1>6 DEF ReviewSpends, Statuses
<1>7. ASSUME NEW r \in Reviews, ReviewEnds(r)
      PROVE  TypeOK' /\ ReviewOK'
      BY <1>7 DEF ReviewEnds
<1>8. CASE Restart
      BY <1>8, SystemAssumption DEF Restart, Forget, request
<1>9. CASE UNCHANGED vars
      BY <1>9 DEF vars
<1> HIDE DEF TypeOK, ReviewOK
<1> QED BY <1>1, <1>2, <1>3, <1>4, <1>5, <1>6, <1>7, <1>8, <1>9, ReviewEffect DEF Next

THEOREM TypeCorrect == Spec => [](TypeOK /\ ReviewOK)
<1>1. Init => TypeOK /\ ReviewOK
      BY SystemAssumption DEF Init, TypeOK, ReviewOK, Answers, Statuses, Steps
<1> QED BY <1>1, TypeStep, PTL DEF Spec

-----------------------------------------------------------------------------
\* A step keeps answers, rows, runs and calls in flight together.
LEMMA SystemStep ==
    ASSUME TypeOK, ReviewOK, SystemInv, [Next]_vars
    PROVE  SystemInv'
<1>1. ASSUME NEW q \in Requests, Intercept(q)
      PROVE  SystemInv'
  <2> USE DEF TypeOK, SystemInv
  <2>1. PICK policy \in PolicyResults, risk \in Risks :
          /\ answer[q] = "none"
          /\ basis' = [basis EXCEPT ![q] = [policy |-> policy, risk |-> risk,
                                            tier |-> TierNow]]
          /\ Queue(q, Decide(policy, risk, TierNow))
          /\ \/ /\ answer' = [answer EXCEPT ![q] = Decide(policy, risk, TierNow)]
                /\ UNCHANGED <<pc, restarts>>
             \/ answer' = [answer EXCEPT ![q] = "lost"] /\ Dies
          /\ UNCHANGED <<runs, recorded, review, granted>>
        BY <1>1, InterceptEffect
  <2> DEFINE b == [policy |-> policy, risk |-> risk, tier |-> TierNow]
             d == Decide(policy, risk, TierNow)
  <2>2. b \in Bases /\ d \in Decisions
        BY TierNowType, DecideType DEF Bases
  <2>3. row[q] = "absent" /\ runs' = runs /\ granted' = granted /\ review' = review
        BY <2>1 DEF AnswerOK
  <2>4. ~Approved(q) /\ Direct \notin runs[q] /\ q \notin granted
        BY <2>1, <2>3 DEF RunsOK, Decisions
  <2>5. row' = row \/ (d = "require_approval" /\ row' = [row EXCEPT ![q] = "pending"])
        BY <2>1, QueueEffect
  <2>6. basis'[q] = b /\ answer'[q] \in {d, "lost"} /\ "lost" \notin Decisions
        BY <2>1 DEF Decisions
  <2>7. AnswerOK(q)' /\ RunsOK(q)'
    <3>1. row'[q] \in {"absent", "pending"} /\ (row'[q] # "absent" => d = "require_approval")
          BY <2>3, <2>5
    <3>2. b.policy = policy /\ b.risk = risk /\ b.tier = TierNow
          OBVIOUS
    <3> HIDE DEF b, d
    <3>3. Decide(b.policy, b.risk, b.tier) = d
          BY <3>2 DEF d
    <3>4. AnswerOK(q)'
          BY <2>2, <2>6, <3>1, <3>3 DEF AnswerOK, Decisions
    <3> QED BY <2>3, <2>4, <3>1, <3>4 DEF RunsOK, Approved
  <2>8. ASSUME NEW p \in Requests, p # q
        PROVE  AnswerOK(p)' /\ RunsOK(p)'
        BY <2>1, <2>3, <2>5, <2>8 DEF AnswerOK, RunsOK, Approved
  <2>9. LooksOK'
    <3>1. \A r \in Reviews : pc'[r] \in Steps => pc'[r] = pc[r]
          BY <2>1 DEF Dies, Steps
    <3>2. \A p \in Requests : row[p] # "absent" => row'[p] # "absent"
          BY <2>5
    <3> QED BY <2>3, <3>1, <3>2 DEF LooksOK, ReviewOK, Steps, Asks
  <2> QED BY <2>7, <2>8, <2>9
<1>2. ASSUME NEW q \in Requests, RunAllowed(q)
      PROVE  SystemInv'
  <2>1. /\ answer[q] = "allow" /\ UNCHANGED <<answer, basis, row, pc, review, granted>>
        /\ runs' = [runs EXCEPT ![q] = @ \cup {Direct}]
        BY <1>2 DEF RunAllowed, AddRun, request, calls
  <2>2. \A p \in Requests : Approved(p)' <=> Approved(p)
        BY <2>1, SystemAssumption DEF Approved, TypeOK
  <2> QED BY <2>1, <2>2 DEF SystemInv, AnswerOK, RunsOK, LooksOK, TypeOK
<1>3. ASSUME NEW q \in Requests, RecordAnswer(q)
      PROVE  SystemInv'
      BY <1>3 DEF RecordAnswer, request, calls, SystemInv, AnswerOK, RunsOK, LooksOK, Approved
<1>4. ASSUME NEW r \in Reviews, NEW q \in Requests, ReviewStarts(r, q)
      PROVE  SystemInv'
  <2>1. LooksOK'
        BY <1>4 DEF ReviewStarts, SystemInv, RunsOK, LooksOK, TypeOK, Steps
  <2> QED BY <1>4, <2>1 DEF ReviewStarts, SystemInv, AnswerOK, RunsOK, Approved
<1>5. ASSUME NEW r \in Reviews, ReviewDecides(r)
      PROVE  SystemInv'
  <2>1. /\ review[r].request \in Requests /\ row[review[r].request] # "absent"
        /\ review[r].op \in {"approved", "denied"}
        BY <1>5 DEF ReviewDecides, SystemInv, LooksOK, ReviewOK, Steps, Asks
  <2>2. \A p \in Requests :
           /\ row'[p] = IF p = review[r].request THEN review[r].op ELSE row[p]
           /\ row'[p] # "absent" <=> row[p] # "absent"
        BY <1>5, <2>1 DEF ReviewDecides, TypeOK
  <2>3. UNCHANGED <<answer, basis, runs, review>>
        /\ granted \subseteq granted' /\ granted' \subseteq granted \cup {review[r].request}
        BY <1>5 DEF ReviewDecides
  <2>4. ASSUME NEW p \in Requests
        PROVE  AnswerOK(p)'
    <3>1. AnswerOK(p)
          BY DEF SystemInv
    <3>2. row'[p] = "absent" <=> row[p] = "absent"
          BY <2>2
    <3> QED BY <2>3, <3>1, <3>2 DEF AnswerOK
  <2>5. ASSUME NEW p \in Requests
        PROVE  RunsOK(p)'
    <3>1. RunsOK(p) /\ (Approved(p)' <=> Approved(p))
          BY <2>3 DEF SystemInv, Approved
    <3>2. row'[p] = "approved" => p \in granted'
          BY <1>5, <2>2, <2>3, <3>1 DEF RunsOK, ReviewDecides
    <3>3. p \in granted' => row'[p] # "absent"
          BY <2>1, <2>2, <2>3, <3>1 DEF RunsOK
    <3> QED BY <2>3, <3>1, <3>2, <3>3 DEF RunsOK
  <2>6. LooksOK'
    <3>1. \A s \in Reviews : s # r => pc'[s] = pc[s]
          BY <1>5 DEF ReviewDecides, TypeOK
    <3>2. pc[r] \in Steps /\ pc'[r] \notin {"run", "record"}
          BY <1>5 DEF ReviewDecides, TypeOK, Steps
    <3>3. \A s \in Reviews : pc[s] \in Steps => review[s].request \in Requests
          BY DEF ReviewOK, Asks
    <3> QED BY <2>2, <2>3, <3>1, <3>2, <3>3 DEF SystemInv, LooksOK, Steps
  <2> QED BY <2>4, <2>5, <2>6 DEF SystemInv
<1>6. ASSUME NEW r \in Reviews, ReviewRuns(r)
      PROVE  SystemInv'
  <2>1. review[r].request \in Requests /\ review[r].request \in granted /\ r # Direct
        BY <1>6, SystemAssumption
        DEF ReviewRuns, SystemInv, LooksOK, ReviewOK, Steps, Asks
  <2>2. /\ UNCHANGED <<answer, basis, row, review, granted>>
        /\ \A p \in Requests : runs'[p] = IF p = review[r].request THEN runs[p] \cup {r}
                                          ELSE runs[p]
        BY <1>6, <2>1 DEF ReviewRuns, TypeOK
  <2>3. LooksOK'
        BY <1>6, <2>2 DEF ReviewRuns, SystemInv, LooksOK, TypeOK, Steps
  <2>4. \A p \in Requests : /\ Direct \in runs'[p] <=> Direct \in runs[p]
                            /\ Approved(p)' => Approved(p) \/ p = review[r].request
        BY <2>1, <2>2 DEF Approved
  <2> QED BY <2>1, <2>2, <2>3, <2>4 DEF SystemInv, AnswerOK, RunsOK
<1>7. ASSUME NEW r \in Reviews, ReviewSpends(r)
      PROVE  SystemInv'
  <2>1. /\ review[r].request \in Requests /\ row[review[r].request] # "absent"
        BY <1>7 DEF ReviewSpends, SystemInv, LooksOK, ReviewOK, Steps, Asks
  <2>2. \A p \in Requests : row'[p] = IF p = review[r].request THEN "executed" ELSE row[p]
        BY <1>7, <2>1 DEF ReviewSpends, TypeOK
  <2>3. UNCHANGED <<answer, basis, runs, review, granted>>
        BY <1>7 DEF ReviewSpends
  <2>4. LooksOK'
    <3>1. \A s \in Reviews : s # r => pc'[s] = pc[s]
          BY <1>7 DEF ReviewSpends, TypeOK
    <3>2. pc[r] \in Steps /\ pc'[r] \notin {"run", "record"}
          BY <1>7 DEF ReviewSpends, TypeOK, Steps
    <3>3. \A s \in Reviews : pc[s] \in Steps => review[s].request \in Requests
          BY DEF ReviewOK, Asks
    <3> QED BY <2>2, <2>3, <3>1, <3>2, <3>3 DEF SystemInv, LooksOK, Steps
  <2> QED BY <2>1, <2>2, <2>3, <2>4 DEF SystemInv, AnswerOK, RunsOK, Approved
<1>8. ASSUME NEW r \in Reviews, ReviewEnds(r)
      PROVE  SystemInv'
      BY <1>8 DEF ReviewEnds, TypeOK, SystemInv, AnswerOK, RunsOK, LooksOK, Approved, Steps
<1>9. CASE Restart
      BY <1>9 DEF Restart, Forget, request, SystemInv, AnswerOK, RunsOK, LooksOK, Approved,
                  Steps
<1>10. CASE UNCHANGED vars
      BY <1>10 DEF vars, SystemInv, AnswerOK, RunsOK, LooksOK, Approved
<1> QED BY <1>1, <1>2, <1>3, <1>4, <1>5, <1>6, <1>7, <1>8, <1>9, <1>10, ReviewEffect
        DEF Next

THEOREM SystemInvariant == Spec => [](TypeOK /\ ReviewOK /\ SystemInv)
<1>1. Init => SystemInv
      BY DEF Init, SystemInv, AnswerOK, RunsOK, LooksOK, Approved, Decisions, Steps
<1>2. TypeOK /\ ReviewOK /\ SystemInv /\ [Next]_vars => SystemInv'
      BY SystemStep
<1> QED BY <1>1, <1>2, TypeCorrect, PTL DEF Spec

\* From end to end a tool runs because intercept allowed the request or because a
\* human had approved it by then, never for both reasons, never under a denying policy
\* or at critical risk: however the calls of the approval loop overlap, through lost
\* answers, failing stores and restarts.
THEOREM NothingRunsUnreviewedAlways == Spec => []NothingRunsUnreviewed
<1>1. ASSUME TypeOK, SystemInv, NEW q \in Requests
      PROVE  /\ Direct \in runs[q] => answer[q] = "allow" /\ row[q] = "absent"
             /\ Approved(q) => q \in granted /\ answer[q] \in {"require_approval", "lost"}
             /\ runs[q] # {} => basis[q].policy # "deny" /\ basis[q].risk # "critical"
  <2> USE <1>1 DEF SystemInv, AnswerOK, RunsOK
  <2>1. runs[q] \subseteq Reviews \cup {Direct}
        BY DEF TypeOK
  <2>2. ASSUME Direct \in runs[q]
        PROVE  basis[q].policy # "deny" /\ basis[q].risk # "critical"
        BY <2>2 DEF Decide, Decisions
  <2>3. ASSUME Approved(q)
        PROVE  basis[q].policy # "deny" /\ basis[q].risk # "critical"
        BY <2>3 DEF Decide
  <2>4. runs[q] # {} => Direct \in runs[q] \/ Approved(q)
        BY <2>1 DEF Approved
  <2> QED BY <2>2, <2>3, <2>4
<1>2. TypeOK /\ SystemInv => NothingRunsUnreviewed
      BY <1>1 DEF NothingRunsUnreviewed
<1> QED BY <1>2, SystemInvariant, PTL

-----------------------------------------------------------------------------
(* The whole system keeps what the approval loop promises.                 *)

\* Calls that are cut off are at no step.
LEMMA AtShrinks ==
    ASSUME Dies, review' = review, NEW step \in Steps, NEW q
    PROVE  At(step, q)' \subseteq At(step, q)
BY DEF Dies, At, Steps

\* A step of the system is a step of the loop, or none.
LEMMA LoopStep ==
    ASSUME TypeOK, ReviewOK, SystemInv, [Next]_vars
    PROVE  [Loop!Next]_(Loop!vars)
<1> DEFINE execs == [q \in Requests |-> runs[q] \cap Reviews]
           f(step) == [q \in Requests |-> At(step, q)]
<1> USE DEF Loop!Set, Loop!Enter, Loop!Exit
<1>1. ASSUME NEW q \in Requests, Intercept(q)
      PROVE  [Loop!Next]_(Loop!vars)
  <2>1. /\ row[q] = "absent" /\ runs' = runs /\ review' = review
        /\ row' = row \/ row' = [row EXCEPT ![q] = "pending"]
        /\ pc' = pc \/ Dies
        BY <1>1, QueueEffect, InterceptEffect DEF SystemInv, AnswerOK
  <2>2. \A p \in Requests : /\ At("write", p)' \subseteq At("write", p)
                            /\ At("run", p)' \subseteq At("run", p)
                            /\ At("record", p)' \subseteq At("record", p)
    <3>1. CASE pc' = pc
          BY <2>1, <3>1 DEF At
    <3>2. CASE Dies
          BY <2>1, <3>2, AtShrinks DEF Steps
    <3> QED BY <2>1, <3>1, <3>2
  <2>3. Loop!Shrink /\ UNCHANGED execs
        BY <2>1, <2>2 DEF Loop!Shrink
  <2>4. Loop!Create(q) \/ Loop!Leave
        BY <2>1, <2>3 DEF Loop!Create, Loop!Leave
  <2> QED BY <2>4 DEF Loop!Next
<1>2. ASSUME NEW q \in Requests, RunAllowed(q)
      PROVE  UNCHANGED Loop!vars
  <2>1. /\ row' = row /\ pc' = pc /\ review' = review
        /\ runs' = [runs EXCEPT ![q] = @ \cup {Direct}]
        BY <1>2 DEF RunAllowed, AddRun, calls
  <2>2. \A p \in Requests : runs'[p] \cap Reviews = runs[p] \cap Reviews
        BY <2>1, SystemAssumption DEF TypeOK
  <2> QED BY <2>1, <2>2 DEF Loop!vars, At
<1>3. ASSUME NEW q \in Requests, RecordAnswer(q)
      PROVE  UNCHANGED Loop!vars
      BY <1>3 DEF RecordAnswer, calls, Loop!vars, At
<1>4. ASSUME NEW r \in Reviews, NEW q \in Requests, ReviewStarts(r, q)
      PROVE  Loop!SeesPending(q, r) \/ Loop!SeesApproved(q, r)
  <2>1. /\ pc[r] = "idle" /\ row' = row /\ runs' = runs
        /\ review'[r].request = q /\ \A s \in Reviews \ {r} : review'[s] = review[s]
        BY <1>4 DEF ReviewStarts, TypeOK
  <2>2. CASE row[q] = "pending" /\ pc' = [pc EXCEPT ![r] = "write"]
    <3>1. \A p \in Requests :
             /\ At("write", p)' = IF p = q THEN At("write", p) \cup {r} ELSE At("write", p)
             /\ At("run", p)' = At("run", p) /\ At("record", p)' = At("record", p)
          BY <2>1, <2>2 DEF TypeOK, At
    <3>2. f("write")' = [f("write") EXCEPT ![q] = @ \cup {r}]
          BY <3>1
    <3>3. f("run")' = f("run") /\ f("record")' = f("record") /\ execs' = execs
          BY <2>1, <3>1
    <3> QED BY <2>1, <2>2, <3>2, <3>3 DEF Loop!SeesPending
  <2>3. CASE row[q] = "approved" /\ pc' = [pc EXCEPT ![r] = "run"]
    <3>1. \A p \in Requests :
             /\ At("run", p)' = IF p = q THEN At("run", p) \cup {r} ELSE At("run", p)
             /\ At("write", p)' = At("write", p) /\ At("record", p)' = At("record", p)
          BY <2>1, <2>3 DEF TypeOK, At
    <3>2. f("run")' = [f("run") EXCEPT ![q] = @ \cup {r}]
          BY <3>1
    <3>3. f("write")' = f("write") /\ f("record")' = f("record") /\ execs' = execs
          BY <2>1, <3>1
    <3> QED BY <2>1, <2>3, <3>2, <3>3 DEF Loop!SeesApproved
  <2> QED BY <1>4, <2>2, <2>3 DEF ReviewStarts
<1>5. ASSUME NEW r \in Reviews, ReviewDecides(r)
      PROVE  Loop!Decides(review[r].request, r)
  <2> DEFINE q == review[r].request
  <2>1. /\ pc[r] = "write" /\ pc' = [pc EXCEPT ![r] = "remember"]
        /\ review' = review /\ runs' = runs
        /\ q \in Requests /\ review[r].op \in {"approved", "denied"}
        /\ row' = [row EXCEPT ![q] = review[r].op]
        BY <1>5 DEF ReviewDecides, ReviewOK, Steps, Asks
  <2>2. \A p \in Requests :
           /\ At("write", p)' = IF p = q THEN At("write", p) \ {r} ELSE At("write", p)
           /\ At("run", p)' = At("run", p) /\ At("record", p)' = At("record", p)
        BY <2>1 DEF TypeOK, At
  <2>3. r \in At("write", q)
        BY <2>1 DEF At
  <2> HIDE DEF q
  <2>4. f("write")' = [f("write") EXCEPT ![q] = @ \ {r}]
        BY <2>2
  <2>5. f("run")' = f("run") /\ f("record")' = f("record") /\ execs' = execs
        BY <2>1, <2>2
  <2>6. r \in f("write")[q]
        BY <2>1, <2>3
  <2>7. Loop!Decides(q, r)
        BY <2>1, <2>4, <2>5, <2>6 DEF Loop!Decides
  <2> QED BY <2>7 DEF q
<1>6. ASSUME NEW r \in Reviews, ReviewRuns(r)
      PROVE  Loop!Runs(review[r].request, r)
  <2> DEFINE q == review[r].request
  <2>1. /\ pc[r] = "run" /\ pc' = [pc EXCEPT ![r] = "record"]
        /\ review' = review /\ row' = row /\ q \in Requests
        /\ runs' = [runs EXCEPT ![q] = @ \cup {r}]
        BY <1>6 DEF ReviewRuns, ReviewOK, Steps, Asks
  <2>2. \A p \in Requests :
           /\ At("run", p)' = IF p = q THEN At("run", p) \ {r} ELSE At("run", p)
           /\ At("record", p)' = IF p = q THEN At("record", p) \cup {r} ELSE At("record", p)
           /\ At("write", p)' = At("write", p)
        BY <2>1 DEF TypeOK, At
  <2>3. r \in At("run", q)
        BY <2>1 DEF At
  <2>4. \A p \in Requests : runs'[p] \cap Reviews =
            IF p = q THEN (runs[p] \cap Reviews) \cup {r} ELSE runs[p] \cap Reviews
        BY <2>1 DEF TypeOK
  <2> HIDE DEF q
  <2>5. /\ f("run")' = [f("run") EXCEPT ![q] = @ \ {r}]
        /\ f("record")' = [f("record") EXCEPT ![q] = @ \cup {r}]
        /\ f("write")' = f("write")
        BY <2>2
  <2>6. execs' = [execs EXCEPT ![q] = @ \cup {r}]
        BY <2>4
  <2>7. r \in f("run")[q]
        BY <2>1, <2>3
  <2>8. Loop!Runs(q, r)
        BY <2>1, <2>5, <2>6, <2>7 DEF Loop!Runs
  <2> QED BY <2>8 DEF q
<1>7. ASSUME NEW r \in Reviews, ReviewSpends(r)
      PROVE  Loop!Spends(review[r].request, r)
  <2> DEFINE q == review[r].request
  <2>1. /\ pc[r] = "record" /\ pc' = [pc EXCEPT ![r] = "rememberRun"]
        /\ review' = review /\ runs' = runs /\ q \in Requests
        /\ row' = [row EXCEPT ![q] = "executed"]
        BY <1>7 DEF ReviewSpends, ReviewOK, Steps, Asks
  <2>2. \A p \in Requests :
           /\ At("record", p)' = IF p = q THEN At("record", p) \ {r} ELSE At("record", p)
           /\ At("run", p)' = At("run", p) /\ At("write", p)' = At("write", p)
        BY <2>1 DEF TypeOK, At
  <2>3. r \in At("record", q)
        BY <2>1 DEF At
  <2> HIDE DEF q
  <2>4. f("record")' = [f("record") EXCEPT ![q] = @ \ {r}]
        BY <2>2
  <2>5. f("run")' = f("run") /\ f("write")' = f("write") /\ execs' = execs
        BY <2>1, <2>2
  <2>6. r \in f("record")[q]
        BY <2>1, <2>3
  <2>7. Loop!Spends(q, r)
        BY <2>1, <2>4, <2>5, <2>6 DEF Loop!Spends
  <2> QED BY <2>7 DEF q
<1>8. ASSUME NEW r \in Reviews, ReviewEnds(r)
      PROVE  Loop!Leave
  <2>1. \A p \in Requests : /\ At("write", p)' \subseteq At("write", p)
                            /\ At("run", p)' \subseteq At("run", p)
                            /\ At("record", p)' \subseteq At("record", p)
        BY <1>8 DEF ReviewEnds, TypeOK, At
  <2> QED BY <1>8, <2>1 DEF ReviewEnds, Loop!Leave, Loop!Shrink
<1>9. CASE Restart
  <2>1. Dies /\ review' = review /\ row' = row /\ runs' = runs
        BY <1>9 DEF Restart, Forget, Dies
  <2>2. Loop!Leave
        BY <2>1, AtShrinks DEF Loop!Leave, Loop!Shrink, Steps
  <2> QED BY <2>2 DEF Loop!Next
<1>10. CASE UNCHANGED vars
      BY <1>10 DEF vars, Loop!vars, At
<1>11. ASSUME NEW r \in Reviews, Review(r)
       PROVE  Loop!Next
  <2>1. \A s \in Reviews : ReviewDecides(s) \/ ReviewRuns(s) \/ ReviewSpends(s)
                              => review[s].request \in Requests
        BY DEF ReviewDecides, ReviewRuns, ReviewSpends, ReviewOK, Steps, Asks
  <2> QED BY <1>4, <1>5, <1>6, <1>7, <1>8, <1>11, <2>1, ReviewEffect DEF Loop!Next
<1> QED BY <1>1, <1>2, <1>3, <1>9, <1>10, <1>11 DEF Next

\* The approval loop of the whole system is the loop of ApprovalRace: statuses move, and
\* tools run, only as the calls that looked at them in time make them.
THEOREM LoopIsImplemented == Spec => ImplementsLoop
<1>1. Init => Loop!Init
      BY DEF Init, Loop!Init, Loop!NoCalls, At
<1>2. TypeOK /\ ReviewOK /\ SystemInv /\ [Next]_vars => [Loop!Next]_(Loop!vars)
      BY LoopStep
<1> QED BY <1>1, <1>2, SystemInvariant, PTL DEF Spec, Loop!Spec, ImplementsLoop

\* What the loop is good for: a request that was denied or executed, with no call left
\* that had looked at it before, keeps its status and runs nothing more, whatever the
\* rest of the system does, and across restarts.
THEOREM SettledRequestsStay == Spec => Loop!SettledStays
<1>1. ASSUME TypeOK, NEW q \in Requests, [Loop!Next]_(Loop!vars)
      PROVE  Loop!StaysSettled(q)
  <2> SUFFICES ASSUME Loop!Settled(q)
               PROVE  Loop!StaysSettled(q)
      BY DEF Loop!StaysSettled
  <2> USE DEF Loop!StaysSettled, Loop!Settled, Loop!Set, Loop!Enter, Loop!Exit
  <2>1. ASSUME NEW p \in Requests, Loop!Create(p)
        PROVE  Loop!StaysSettled(q)
        BY <2>1 DEF Loop!Create, Loop!Shrink, TypeOK
  <2>2. ASSUME NEW p \in Requests, NEW r \in Reviews,
               Loop!SeesPending(p, r) \/ Loop!SeesApproved(p, r)
        PROVE  Loop!StaysSettled(q)
        BY <2>2 DEF Loop!SeesPending, Loop!SeesApproved, TypeOK
  <2>3. ASSUME NEW p \in Requests, NEW r \in Reviews, Loop!Decides(p, r)
        PROVE  Loop!StaysSettled(q)
    <3>1. /\ p # q
          /\ row' = [row EXCEPT ![p] = "approved"] \/ row' = [row EXCEPT ![p] = "denied"]
          BY <2>3 DEF Loop!Decides
    <3>2. row'[q] = row[q]
      <4>1. CASE row' = [row EXCEPT ![p] = "approved"]
            BY <3>1, <4>1 DEF TypeOK
      <4>2. CASE row' = [row EXCEPT ![p] = "denied"]
            BY <3>1, <4>2 DEF TypeOK
      <4> QED BY <3>1, <4>1, <4>2
    <3>3. UNCHANGED [x \in Requests |-> runs[x] \cap Reviews]
          BY <2>3 DEF Loop!Decides
    <3>4. /\ At("write", q)' = At("write", q) /\ At("run", q)' = At("run", q)
          /\ At("record", q)' = At("record", q)
          BY <2>3, <3>1 DEF Loop!Decides
    <3> QED BY <3>2, <3>3, <3>4
  <2>4. ASSUME NEW p \in Requests, NEW r \in Reviews, Loop!Runs(p, r)
        PROVE  Loop!StaysSettled(q)
        BY <2>4 DEF Loop!Runs, TypeOK
  <2>5. ASSUME NEW p \in Requests, NEW r \in Reviews, Loop!Spends(p, r)
        PROVE  Loop!StaysSettled(q)
    <3>1. p # q /\ row'[q] = row[q] /\ UNCHANGED [x \in Requests |-> runs[x] \cap Reviews]
          BY <2>5 DEF Loop!Spends, TypeOK
    <3>2. /\ At("write", q)' = At("write", q) /\ At("run", q)' = At("run", q)
          /\ At("record", q)' = At("record", q)
          BY <2>5, <3>1 DEF Loop!Spends
    <3> QED BY <3>1, <3>2
  <2>6. CASE Loop!Leave
        BY <2>6 DEF Loop!Leave, Loop!Shrink, TypeOK
  <2>7. CASE UNCHANGED Loop!vars
        BY <2>7 DEF Loop!vars
  <2> QED BY <1>1, <2>1, <2>2, <2>3, <2>4, <2>5, <2>6, <2>7 DEF Loop!Next
<1>2. TypeOK /\ ReviewOK /\ SystemInv /\ [Next]_vars
      => [Loop!AllStaySettled]_(Loop!vars)
      BY <1>1, LoopStep DEF Loop!AllStaySettled
<1> QED BY <1>2, SystemInvariant, PTL DEF Spec, Loop!SettledStays
=============================================================================
