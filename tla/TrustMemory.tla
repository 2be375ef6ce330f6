---------------------------- MODULE TrustMemory ----------------------------
(***************************************************************************)
(* TrustMemory (core/trust_memory.py) for one agent; agents share nothing  *)
(* but the lock, under which every operation is one step.                  *)
(*                                                                         *)
(* Time is counted in half-lives.  An observation of age n has weight 2^-n;*)
(* all weights are scaled by 2^MaxAge, which leaves every score as it is.  *)
(***************************************************************************)
EXTENDS Integers, Sequences

CONSTANTS MaxObservations,  \* TrustMemory.MAX_OBSERVATIONS
          MaxAge            \* bound: the clock stops at this age

ASSUME TrustAssumption == MaxObservations \in Nat \ {0} /\ MaxAge \in Nat

VARIABLES
  observations,   \* AgentRecord.observations, oldest first
  current,        \* AgentRecord.current_score, as a fraction
  idle            \* history: how many half-lives passed since the last record

trustVars == <<observations, current, idle>>

-----------------------------------------------------------------------------
Behaviors == {"success", "failure", "quarantine", "approval_granted", "approval_denied"}

Delta(kind) == CASE kind = "success" -> 5 [] kind = "failure" -> -10
                 [] kind = "quarantine" -> -8 [] kind = "approval_granted" -> 3
                 [] kind = "approval_denied" -> -7

\* 2 ^ n.
TwoTo[n \in Nat] == IF n = 0 THEN 1 ELSE 2 * TwoTo[n - 1]

\* Mutant: weights fall off linearly.
LinearWeight(observation) == MaxAge + 1 - observation.age

\* Mutant: the sign of the age is lost, the oldest evidence counts most.
GrowingWeight(observation) == TwoTo[observation.age]

Weight(observation) == TwoTo[MaxAge - observation.age]

Weights(list) == [i \in DOMAIN list |-> Weight(list[i])]
WeightedDeltas(list) == [i \in DOMAIN list |-> Delta(list[i].kind) * Weight(list[i])]

\* The sum of a sequence of numbers.
Total(numbers) ==
    LET first[n \in 0 .. Len(numbers)] == IF n = 0 THEN 0 ELSE first[n - 1] + numbers[n]
    IN  first[Len(numbers)]

Clamp(low, n, high) == IF n < low THEN low ELSE IF n > high THEN high ELSE n

\* _calculate_score: 50 plus 50 times the weighted mean of the deltas, cut to
\* 0 .. 100, as the fraction num / den.
Score(list) ==
    IF list = <<>> THEN [num |-> 50, den |-> 1]
    ELSE LET den == Total(Weights(list))
             num == 50 * den + 50 * Total(WeightedDeltas(list))
         IN  [num |-> Clamp(0, num, 100 * den), den |-> den]

AtLeast(s, t) == s.num * t.den >= t.num * s.den
Same(s, t) == s.num * t.den = t.num * s.den

\* _tier_from_score, of the score cut to an integer.
Tier(s) == CASE s.num < 26 * s.den -> "untrusted"
             [] s.num >= 26 * s.den /\ s.num < 51 * s.den -> "limited"
             [] s.num >= 51 * s.den /\ s.num < 76 * s.den -> "standard"
             [] OTHER -> "trusted"

\* Mutant: an agent without a record has the tier of its initial score of 50.
TierOfScore == Tier(Score(observations))

\* get_score: an agent without a record is at the standard tier.
TierNow == IF observations = <<>> THEN "standard" ELSE Tier(Score(observations))

-----------------------------------------------------------------------------
TrustInit == observations = <<>> /\ current = Score(<<>>) /\ idle = 0

\* observations[-MAX_OBSERVATIONS:], once the list is longer than that.
Keep(list) ==
    IF Len(list) <= MaxObservations THEN list
    ELSE SubSeq(list, Len(list) - MaxObservations + 1, Len(list))

\* record_behavior; promote and demote are a success and a failure.
Record(kind) ==
    /\ observations' = Keep(Append(observations, [kind |-> kind, age |-> 0]))
    /\ current' = Score(observations')
    /\ idle' = 0

\* get_score and decay write the score they compute.
GetScore ==
    /\ observations # <<>>
    /\ current' = Score(observations)
    /\ UNCHANGED <<observations, idle>>

\* A half-life passes.
Pass ==
    /\ \A i \in DOMAIN observations : observations[i].age < MaxAge
    /\ idle < MaxAge
    /\ observations' = [i \in DOMAIN observations |-> [observations[i] EXCEPT !.age = @ + 1]]
    /\ idle' = idle + 1
    /\ UNCHANGED current

TrustNext == (\E kind \in Behaviors : Record(kind)) \/ GetScore \/ Pass

TrustSpec == TrustInit /\ [][TrustNext]_trustVars

-----------------------------------------------------------------------------
(* Properties.                                                             *)

\* Every variable holds a value of its type, and the list keeps its limit.
TrustTypeOK ==
    /\ observations \in Seq([kind : Behaviors, age : 0 .. MaxAge])
    /\ Len(observations) <= MaxObservations
    /\ current \in [num : Nat, den : Nat \ {0}]
    /\ idle \in 0 .. MaxAge

\* get_stats reads the scores that were stored last, however long ago that was:
\* they are the scores that get_score would compute now.
StatsAreCurrent == Same(current, Score(observations))

\* A success never costs an agent trust and a failure never earns it any, also
\* when the limit of observations drops the oldest one for it; the other kinds
\* keep their direction until the limit is reached.
EvidenceMovesScoreItsWay ==
    [][\A kind \in Behaviors :
          LET full == Len(observations) = MaxObservations
          IN  Record(kind) =>
                /\ kind = "success" \/ (kind = "approval_granted" /\ ~full)
                      => AtLeast(current', Score(observations))
                /\ kind = "failure" \/ (Delta(kind) < 0 /\ ~full)
                      => AtLeast(Score(observations), current')]_trustVars

\* "Permissions tighten automatically if an agent hasn't been used recently"
\* (DESIGN_PARTNER_EMAIL.md): a trusted agent that stays idle does not stay trusted.
IdleTrustDecays == idle = MaxAge /\ MaxAge > 0 => TierNow # "trusted"
=============================================================================
