------------------------- MODULE ApprovalLifecycle -------------------------
(***************************************************************************)
(* What the approval loop promises its users, with nothing of how it is    *)
(* stored: the life of each approval and the tool runs made on its behalf. *)
(* The header of core/approval_service.py gives the life cycle             *)
(*     pending -> approved -> executed (once only)                         *)
(*     pending -> denied (blocked forever)                                 *)
(*                                                                         *)
(* Spec is that promise.  RetrySpec is a weaker one in which an approval   *)
(* that is still approved may run its tool again before it is marked       *)
(* executed: at-least-once instead of exactly-once.                        *)
(***************************************************************************)

CONSTANTS Approvals,  \* the approval ids that may be issued
          Requests    \* the API calls; a run is named by the call that made it

VARIABLES status,     \* status[a]: where approval a is in its life
          runs        \* runs[a]: the calls that ran the tool of a

vars == <<status, runs>>

Init == /\ status = [a \in Approvals |-> "absent"]
        /\ runs = [a \in Approvals |-> {}]

Move(a, from, to) == /\ status[a] = from
                     /\ status' = [status EXCEPT ![a] = to]

Create(a) == Move(a, "absent", "pending") /\ UNCHANGED runs

Approve(a) == Move(a, "pending", "approved") /\ UNCHANGED runs

Deny(a) == Move(a, "pending", "denied") /\ UNCHANGED runs

\* The tool runs and the approval is spent in one step.
ExecuteOnce(a, r) == /\ Move(a, "approved", "executed")
                     /\ runs' = [runs EXCEPT ![a] = @ \cup {r}]

\* The tool runs; the approval is not spent yet.
Run(a, r) == /\ status[a] = "approved"
             /\ runs' = [runs EXCEPT ![a] = @ \cup {r}]
             /\ UNCHANGED status

\* An approval whose tool ran is spent.
Spend(a) == /\ runs[a] # {}
            /\ Move(a, "approved", "executed")
            /\ UNCHANGED runs

Decide(a) == Create(a) \/ Approve(a) \/ Deny(a)

Next == \E a \in Approvals : Decide(a) \/ \E r \in Requests : ExecuteOnce(a, r)

RetryNext ==
    \E a \in Approvals : \/ Decide(a)
                         \/ Spend(a)
                         \/ \E r \in Requests : Run(a, r)

Spec == Init /\ [][Next]_vars

RetrySpec == Init /\ [][RetryNext]_vars
=============================================================================
