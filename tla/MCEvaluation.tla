---------------------------- MODULE MCEvaluation ----------------------------
(***************************************************************************)
(* TLC's instance of Evaluation: two rules that an operator adds by hand,  *)
(* under one name, and of one priority with rules of the file.             *)
(***************************************************************************)
EXTENDS Evaluation

Own(priority, condition, decision) ==
    [name |-> "own", priority |-> priority, condition |-> condition,
     decision |-> decision, enabled |-> TRUE]

OwnRules == {
    Own(5, [x \in {"$not"} |-> [action_type |-> [nin |-> {"file", "email"}]]], "deny"),
    Own(30, [x \in {"$or", "operation"} |->
               IF x = "$or" THEN <<[operation |-> [eq |-> "transfer"]],
                                   [operation |-> [eq |-> "DROP"]]>>
                            ELSE [eq |-> "ignored beside $or"]], "quarantine")}
=============================================================================
