---------------------------- MODULE ApprovalRace ----------------------------
(***************************************************************************)
(* What the approval loop does promise when its callers do not wait for    *)
(* each other.  Every call looks at the status of an approval first and    *)
(* acts on it later, and nothing holds the status still in between         *)
(* (approval_service.py reads and writes in two store operations):         *)
(*   - a decision is made only by a call that saw the approval pending;    *)
(*   - a tool runs only for a call that saw it approved;                   *)
(*   - it is spent only by a call that ran its tool;                       *)
(* whatever the others wrote meanwhile.  ApprovalLifecycle is what is left *)
(* of it when one caller at a time looks and acts.                         *)
(***************************************************************************)

CONSTANTS Approvals,  \* the approval ids that may be issued
          Calls       \* the API calls; a run is named by the call that made it

VARIABLES status,     \* status[a]: where approval a is in its life
          runs,       \* runs[a]: the calls that ran the tool of a
          deciding,   \* deciding[a]: the calls that saw a pending
          running,    \* running[a]: the calls that saw a approved
          spending    \* spending[a]: the calls that ran the tool of a just now

vars  == <<status, runs, deciding, running, spending>>

NoCalls == [a \in Approvals |-> {}]

Init == /\ status = [a \in Approvals |-> "absent"]
        /\ runs = NoCalls /\ deciding = NoCalls /\ running = NoCalls /\ spending = NoCalls

Set(a, to)      == status' = [status EXCEPT ![a] = to]
Enter(f, a, r)  == [f EXCEPT ![a] = @ \cup {r}]
Exit(f, a, r)   == [f EXCEPT ![a] = @ \ {r}]

\* Calls end early: an operation fails, or the process dies under all of them.
Shrink ==
    \A a \in Approvals : /\ deciding'[a] \subseteq deciding[a]
                          /\ running'[a] \subseteq running[a]
                          /\ spending'[a] \subseteq spending[a]

\* The process may die with the row written.
Create(a) ==
    /\ status[a] = "absent" /\ Set(a, "pending") /\ Shrink
    /\ UNCHANGED runs

SeesPending(a, r) ==
    /\ status[a] = "pending"
    /\ deciding' = Enter(deciding, a, r)
    /\ UNCHANGED <<status, runs, running, spending>>

\* The verdict is written whatever the status has become.
Decides(a, r) ==
    /\ r \in deciding[a]
    /\ Set(a, "approved") \/ Set(a, "denied")
    /\ deciding' = Exit(deciding, a, r)
    /\ UNCHANGED <<runs, running, spending>>

SeesApproved(a, r) ==
    /\ status[a] = "approved"
    /\ running' = Enter(running, a, r)
    /\ UNCHANGED <<status, runs, deciding, spending>>

\* The tool runs whatever the status has become.
Runs(a, r) ==
    /\ r \in running[a]
    /\ runs' = Enter(runs, a, r)
    /\ running' = Exit(running, a, r) /\ spending' = Enter(spending, a, r)
    /\ UNCHANGED <<status, deciding>>

Spends(a, r) ==
    /\ r \in spending[a] /\ Set(a, "executed")
    /\ spending' = Exit(spending, a, r)
    /\ UNCHANGED <<runs, deciding, running>>

Leave == Shrink /\ UNCHANGED <<status, runs>>

Next == \/ \E a \in Approvals :
              \/ Create(a)
              \/ \E r \in Calls : \/ SeesPending(a, r) \/ Decides(a, r)
                                  \/ SeesApproved(a, r) \/ Runs(a, r) \/ Spends(a, r)
        \/ Leave

Spec == Init /\ [][Next]_vars

\* An approval is settled once it is denied or executed and no call is left that
\* looked at it before: from then on it keeps its status and runs nothing.
Settled(a) ==
    /\ status[a] \in {"denied", "executed"}
    /\ deciding[a] = {} /\ running[a] = {} /\ spending[a] = {}

StaysSettled(a) ==
    Settled(a) => Settled(a)' /\ status'[a] = status[a] /\ runs'[a] = runs[a]

AllStaySettled == \A a \in Approvals : StaysSettled(a)

SettledStays == [][AllStaySettled]_vars
=============================================================================
