-------------------------- MODULE EvaluationProofs --------------------------
(***************************************************************************)
(* Theorems about Evaluation: the trust memory, the policy engine and the  *)
(* risk engine, for every set of rules added by hand, every number of      *)
(* observations and of half-lives.                                         *)
(***************************************************************************)
EXTENDS Evaluation, SequenceTheorems, TLAPS

USE TrustAssumption, BoundAssumption

-----------------------------------------------------------------------------
(* Sums and powers.                                                        *)

SumFirst(numbers) == 0
SumStep(numbers, n, sum) == sum + numbers[n]
Summation == INSTANCE Recursion WITH First <- SumFirst, Step <- SumStep

\* The sums of the first n numbers, for every n.
Sums(numbers) == Summation!Solution(numbers, 0 .. Len(numbers))

LEMMA SumsType ==
    ASSUME NEW a \in Seq(Int)
    PROVE  /\ Total(a) = Sums(a)[Len(a)]
           /\ Sums(a)[0] = 0
           /\ \A n \in 1 .. Len(a) : Sums(a)[n] = Sums(a)[n - 1] + a[n]
           /\ \A n \in 0 .. Len(a) : Sums(a)[n] \in Int
<1> DEFINE D == 0 .. Len(a)
<1>1. D \subseteq Nat /\ \A n \in D : n = 0 \/ n - 1 \in D
      OBVIOUS
<1>2. Summation!Equation(a, D, Summation!Solution(a, D))
      BY <1>1, Summation!RecursionEquation
<1>3. Sums(a) = [n \in D |-> IF n = 0 THEN 0 ELSE Sums(a)[n - 1] + a[n]]
      BY <1>2 DEF Sums, Summation!Equation, SumFirst, SumStep
<1>4. Total(a) = Sums(a)[Len(a)]
      BY DEF Total, Sums, Summation!Solution, SumFirst, SumStep
<1>5. /\ Sums(a)[0] = 0
      /\ \A n \in 1 .. Len(a) : Sums(a)[n] = Sums(a)[n - 1] + a[n]
      BY <1>3
<1> DEFINE S == {n \in Nat : n <= Len(a) => Sums(a)[n] \in Int}
<1>6. 0 \in S
      BY <1>5
<1>7. ASSUME NEW n \in Nat, n \in S
      PROVE  n + 1 \in S
  <2> SUFFICES ASSUME n + 1 <= Len(a) PROVE Sums(a)[n + 1] \in Int
      OBVIOUS
  <2>1. n + 1 \in 1 .. Len(a) /\ (n + 1) - 1 = n /\ a[n + 1] \in Int
        OBVIOUS
  <2>2. Sums(a)[n + 1] = Sums(a)[n] + a[n + 1]
        BY <1>5, <2>1
  <2> QED BY <1>7, <2>1, <2>2
<1> HIDE DEF S
<1>8. \A n \in Nat : n \in S
      BY <1>6, <1>7, Summation!Induction
<1> QED BY <1>4, <1>5, <1>8 DEF S

\* What holds of the sums of two sequences at 0, and from n to n + 1, holds of their
\* totals: here that one is at most the other.
LEMMA TotalLeq ==
    ASSUME NEW a \in Seq(Int), NEW b \in Seq(Int), Len(a) = Len(b),
           \A i \in 1 .. Len(a) : a[i] <= b[i]
    PROVE  Total(a) <= Total(b)
<1> DEFINE S == {n \in Nat : n <= Len(a) => Sums(a)[n] <= Sums(b)[n]}
<1>1. 0 \in S
      BY SumsType
<1>2. ASSUME NEW n \in Nat, n \in S
      PROVE  n + 1 \in S
  <2> SUFFICES ASSUME n + 1 <= Len(a) PROVE Sums(a)[n + 1] <= Sums(b)[n + 1]
      OBVIOUS
  <2>1. n + 1 \in 1 .. Len(a) /\ (n + 1) - 1 = n /\ a[n + 1] \in Int /\ b[n + 1] \in Int
        /\ n \in 0 .. Len(a)
        OBVIOUS
  <2>2. /\ Sums(a)[n + 1] = Sums(a)[n] + a[n + 1] /\ Sums(a)[n] \in Int
        /\ Sums(b)[n + 1] = Sums(b)[n] + b[n + 1] /\ Sums(b)[n] \in Int
        BY <2>1, SumsType
  <2>3. a[n + 1] <= b[n + 1] /\ Sums(a)[n] <= Sums(b)[n]
        BY <1>2, <2>1
  <2> QED BY <2>1, <2>2, <2>3
<1> HIDE DEF S
<1>3. \A n \in Nat : n \in S
      BY <1>1, <1>2, Summation!Induction
<1> QED BY <1>3, SumsType DEF S

\* A common factor can be taken out of a sum.
LEMMA TotalTimes ==
    ASSUME NEW k \in Int, NEW a \in Seq(Int), NEW b \in Seq(Int), Len(a) = Len(b),
           \A i \in 1 .. Len(a) : a[i] = k * b[i]
    PROVE  Total(a) = k * Total(b)
<1> DEFINE S == {n \in Nat : n <= Len(a) => Sums(a)[n] = k * Sums(b)[n]}
<1>1. 0 \in S
      BY SumsType
<1>2. ASSUME NEW n \in Nat, n \in S
      PROVE  n + 1 \in S
  <2> SUFFICES ASSUME n + 1 <= Len(a) PROVE Sums(a)[n + 1] = k * Sums(b)[n + 1]
      OBVIOUS
  <2>1. n + 1 \in 1 .. Len(a) /\ (n + 1) - 1 = n /\ a[n + 1] \in Int /\ b[n + 1] \in Int
        /\ n \in 0 .. Len(a)
        OBVIOUS
  <2>2. /\ Sums(a)[n + 1] = Sums(a)[n] + a[n + 1] /\ Sums(a)[n] \in Int
        /\ Sums(b)[n + 1] = Sums(b)[n] + b[n + 1] /\ Sums(b)[n] \in Int
        BY <2>1, SumsType
  <2>3. a[n + 1] = k * b[n + 1] /\ Sums(a)[n] = k * Sums(b)[n]
        BY <1>2, <2>1
  <2>4. \A x, y \in Int : k * (x + y) = k * x + k * y
        OBVIOUS
  <2> QED BY <2>1, <2>2, <2>3, <2>4
<1> HIDE DEF S
<1>3. \A n \in Nat : n \in S
      BY <1>1, <1>2, Summation!Induction
<1> QED BY <1>3, SumsType DEF S

\* A number at the end is added to the sum, the number at the front is part of it.
LEMMA TotalAppend ==
    ASSUME NEW a \in Seq(Int), NEW x \in Int
    PROVE  Total(Append(a, x)) = Total(a) + x
<1> DEFINE b == Append(a, x)
           S == {n \in Nat : n <= Len(a) => Sums(b)[n] = Sums(a)[n]}
<1>1. /\ b \in Seq(Int) /\ Len(b) = Len(a) + 1 /\ b[Len(a) + 1] = x
      /\ \A i \in 1 .. Len(a) : b[i] = a[i]
      BY AppendProperties
<1> HIDE DEF b
<1>2. 0 \in S
      BY <1>1, SumsType
<1>3. ASSUME NEW n \in Nat, n \in S
      PROVE  n + 1 \in S
  <2> SUFFICES ASSUME n + 1 <= Len(a) PROVE Sums(b)[n + 1] = Sums(a)[n + 1]
      OBVIOUS
  <2>1. n + 1 \in 1 .. Len(a) /\ n + 1 \in 1 .. Len(b) /\ (n + 1) - 1 = n
        BY <1>1
  <2>2. Sums(a)[n + 1] = Sums(a)[n] + a[n + 1] /\ Sums(b)[n + 1] = Sums(b)[n] + b[n + 1]
        BY <1>1, <2>1, SumsType
  <2> QED BY <1>1, <1>3, <2>1, <2>2
<1> HIDE DEF S
<1>4. \A n \in Nat : n \in S
      BY <1>2, <1>3, Summation!Induction
<1>5. Sums(b)[Len(a)] = Sums(a)[Len(a)]
      BY <1>4 DEF S
<1>6. Sums(b)[Len(b)] = Sums(b)[Len(b) - 1] + b[Len(b)]
      BY <1>1, SumsType
<1>7. Total(b) = Total(a) + x
      BY <1>1, <1>5, <1>6, SumsType
<1> QED BY <1>7 DEF b

LEMMA TotalTail ==
    ASSUME NEW a \in Seq(Int), a # <<>>
    PROVE  Total(Tail(a)) = Total(a) - a[1]
<1> DEFINE b == Tail(a)
           S == {n \in Nat : n <= Len(b) => Sums(b)[n] = Sums(a)[n + 1] - a[1]}
<1>1. /\ b \in Seq(Int) /\ Len(b) = Len(a) - 1 /\ Len(a) \in Nat \ {0} /\ a[1] \in Int
      /\ \A i \in 1 .. Len(b) : b[i] = a[i + 1]
      BY HeadTailProperties, EmptySeq
<1> HIDE DEF b
<1>2. 0 \in S
  <2>1. 1 \in 1 .. Len(a) /\ 1 - 1 = 0 /\ 0 + 1 = 1
        BY <1>1
  <2>2. Sums(a)[1] = Sums(a)[0] + a[1] /\ Sums(a)[0] = 0
        BY <2>1, SumsType
  <2>3. Sums(b)[0] = 0
        BY <1>1, SumsType
  <2> QED BY <1>1, <2>1, <2>2, <2>3
<1>3. ASSUME NEW n \in Nat, n \in S
      PROVE  n + 1 \in S
  <2> SUFFICES ASSUME n + 1 <= Len(b) PROVE Sums(b)[n + 1] = Sums(a)[n + 2] - a[1]
      OBVIOUS
  <2>1. /\ n + 1 \in 1 .. Len(b) /\ n + 2 \in 1 .. Len(a) /\ (n + 1) - 1 = n
        /\ (n + 2) - 1 = n + 1 /\ (n + 1) + 1 = n + 2 /\ n + 1 \in 0 .. Len(a)
        BY <1>1
  <2>2. Sums(b)[n + 1] = Sums(b)[n] + b[n + 1] /\ Sums(a)[n + 2] = Sums(a)[n + 1] + a[n + 2]
        BY <1>1, <2>1, SumsType
  <2>3. b[n + 1] = a[n + 2] /\ Sums(b)[n] = Sums(a)[n + 1] - a[1]
        BY <1>1, <1>3, <2>1
  <2>4. Sums(a)[n + 1] \in Int /\ a[n + 2] \in Int
        BY <2>1, SumsType
  <2> QED BY <1>1, <2>2, <2>3, <2>4
<1> HIDE DEF S
<1>4. \A n \in Nat : n \in S
      BY <1>2, <1>3, Summation!Induction
<1>5. Sums(b)[Len(b)] = Sums(a)[Len(a)] - a[1]
      BY <1>1, <1>4 DEF S
<1>6. Total(b) = Total(a) - a[1]
      BY <1>1, <1>5, SumsType
<1> QED BY <1>6 DEF b

\* Numbers that are not negative have a sum that is not, and no part exceeds it.
LEMMA TotalNat ==
    ASSUME NEW a \in Seq(Nat)
    PROVE  Total(a) \in Nat
<1> DEFINE zeros == [i \in 1 .. Len(a) |-> 0]
<1>1. a \in Seq(Int) /\ \A i \in 1 .. Len(a) : a[i] \in Nat
      OBVIOUS
<1>2. zeros \in Seq(Int) /\ Len(zeros) = Len(a) /\ \A i \in 1 .. Len(a) : zeros[i] = 0
      OBVIOUS
<1> HIDE DEF zeros
<1>3. Total(zeros) <= Total(a) /\ Total(a) \in Int /\ Total(zeros) \in Int
      BY <1>1, <1>2, TotalLeq, SumsType
<1>4. Total(zeros) = 0 * Total(zeros)
      BY <1>2, TotalTimes
<1> QED BY <1>3, <1>4

\* The bound of a sum, from a bound of each of its numbers.
LEMMA TotalBounds ==
    ASSUME NEW k \in Int, NEW a \in Seq(Int), NEW b \in Seq(Int), Len(a) = Len(b)
    PROVE  /\ (\A i \in 1 .. Len(a) : a[i] <= k * b[i]) => Total(a) <= k * Total(b)
           /\ (\A i \in 1 .. Len(a) : k * b[i] <= a[i]) => k * Total(b) <= Total(a)
<1> DEFINE c == [i \in 1 .. Len(b) |-> k * b[i]]
<1>1. \A i \in 1 .. Len(b) : k * b[i] \in Int
      OBVIOUS
<1>2. c \in Seq(Int) /\ Len(c) = Len(b) /\ \A i \in 1 .. Len(b) : c[i] = k * b[i]
      BY <1>1
<1> HIDE DEF c
<1>3. Total(c) = k * Total(b)
      BY <1>2, TotalTimes
<1> QED BY <1>2, <1>3, TotalLeq

PowerFirst(c) == 1
PowerStep(c, n, power) == 2 * power
Powers == INSTANCE Recursion WITH First <- PowerFirst, Step <- PowerStep

LEMMA TwoToType ==
    /\ TwoTo[0] = 1
    /\ \A n \in Nat : TwoTo[n + 1] = 2 * TwoTo[n]
    /\ \A n \in Nat : TwoTo[n] \in Nat \ {0}
<1>1. \A n \in Nat : n = 0 \/ n - 1 \in Nat
      OBVIOUS
<1>2. Powers!Equation(0, Nat, Powers!Solution(0, Nat))
      BY <1>1, Powers!RecursionEquation
<1>3. TwoTo = Powers!Solution(0, Nat)
      BY DEF TwoTo, Powers!Solution, PowerFirst, PowerStep
<1>4. TwoTo = [n \in Nat |-> IF n = 0 THEN 1 ELSE 2 * TwoTo[n - 1]]
      BY <1>2, <1>3 DEF Powers!Equation, PowerFirst, PowerStep
<1>5. ASSUME NEW n \in Nat
      PROVE  TwoTo[n + 1] = 2 * TwoTo[n]
  <2>1. n + 1 \in Nat /\ n + 1 # 0 /\ (n + 1) - 1 = n
        OBVIOUS
  <2> QED BY <1>4, <2>1
<1>6. TwoTo[0] = 1
      BY <1>4
<1> DEFINE S == {n \in Nat : TwoTo[n] \in Nat \ {0}}
<1>7. 0 \in S /\ \A n \in Nat : n \in S => n + 1 \in S
      BY <1>5, <1>6
<1> HIDE DEF S
<1>8. \A n \in Nat : n \in S
      BY <1>7, Powers!Induction
<1> QED BY <1>5, <1>6, <1>8 DEF S

LEMMA TwoToGrows ==
    \A n \in Nat : \A m \in 0 .. n : TwoTo[m] <= TwoTo[n]
<1> DEFINE S == {n \in Nat : \A m \in 0 .. n : TwoTo[m] <= TwoTo[n]}
<1>1. 0 \in S
      BY TwoToType
<1>2. ASSUME NEW n \in Nat, n \in S
      PROVE  n + 1 \in S
  <2> SUFFICES ASSUME NEW m \in 0 .. n + 1 PROVE TwoTo[m] <= TwoTo[n + 1]
      OBVIOUS
  <2>1. TwoTo[n + 1] = 2 * TwoTo[n] /\ TwoTo[n] \in Nat /\ TwoTo[m] \in Nat
        BY TwoToType
  <2>2. CASE m = n + 1
        BY <2>1, <2>2
  <2>3. CASE m # n + 1
    <3>1. TwoTo[m] <= TwoTo[n]
          BY <1>2, <2>3
    <3> QED BY <2>1, <3>1
  <2> QED BY <2>2, <2>3
<1> HIDE DEF S
<1>3. \A n \in Nat : n \in S
      BY <1>1, <1>2, Powers!Induction
<1> QED BY <1>3 DEF S

-----------------------------------------------------------------------------
(* Scores.                                                                 *)

Observations == [kind : Behaviors, age : 0 .. MaxAge]

\* The weight of a list, and its weighted sum of deltas.
Mass(list)  == Total(Weights(list))
Moved(list) == Total(WeightedDeltas(list))

LEMMA DeltaType ==
    \A kind \in Behaviors : Delta(kind) \in Int /\ -10 <= Delta(kind) /\ Delta(kind) <= 5
BY DEF Behaviors, Delta

LEMMA WeightType ==
    ASSUME NEW o \in Observations
    PROVE  /\ Weight(o) \in Nat \ {0} /\ Weight(o) <= TwoTo[MaxAge]
           /\ Delta(o.kind) * Weight(o) \in Int
<1>1. MaxAge - o.age \in 0 .. MaxAge /\ MaxAge \in Nat /\ o.kind \in Behaviors
      BY DEF Observations
<1>2. Weight(o) \in Nat \ {0} /\ Weight(o) <= TwoTo[MaxAge]
      BY <1>1, TwoToType, TwoToGrows DEF Weight
<1>3. \A x, y \in Int : x * y \in Int
      OBVIOUS
<1> QED BY <1>1, <1>2, <1>3, DeltaType

LEMMA WeightsType ==
    ASSUME NEW list \in Seq(Observations)
    PROVE  /\ Weights(list) \in Seq(Nat) /\ Weights(list) \in Seq(Int)
           /\ WeightedDeltas(list) \in Seq(Int)
           /\ Len(Weights(list)) = Len(list) /\ Len(WeightedDeltas(list)) = Len(list)
           /\ \A i \in 1 .. Len(list) :
                 /\ Weights(list)[i] = Weight(list[i])
                 /\ WeightedDeltas(list)[i] = Delta(list[i].kind) * Weight(list[i])
<1>1. DOMAIN list = 1 .. Len(list) /\ \A i \in 1 .. Len(list) : list[i] \in Observations
      OBVIOUS
<1>2. \A i \in 1 .. Len(list) :
         /\ Weight(list[i]) \in Nat /\ Weight(list[i]) \in Int
         /\ Delta(list[i].kind) * Weight(list[i]) \in Int
      BY <1>1, WeightType
<1>3. /\ Weights(list) = [i \in 1 .. Len(list) |-> Weight(list[i])]
      /\ WeightedDeltas(list) = [i \in 1 .. Len(list) |-> Delta(list[i].kind) * Weight(list[i])]
      BY <1>1 DEF Weights, WeightedDeltas
<1>4. Weights(list) \in Seq(Nat) /\ Weights(list) \in Seq(Int) /\ WeightedDeltas(list) \in Seq(Int)
      BY <1>2, <1>3
<1> QED BY <1>3, <1>4

\* What a list weighs: no less than its first observation does.
LEMMA MassType ==
    ASSUME NEW list \in Seq(Observations)
    PROVE  /\ Mass(list) \in Nat /\ Moved(list) \in Int
           /\ list # <<>> => Weight(list[1]) <= Mass(list) /\ Mass(list) \in Nat \ {0}
<1>1. Mass(list) \in Nat /\ Moved(list) \in Int
      BY WeightsType, TotalNat, SumsType DEF Mass, Moved
<1>2. ASSUME list # <<>>
      PROVE  Weight(list[1]) <= Mass(list)
  <2> DEFINE w == Weights(list)
  <2>0. Len(list) \in Nat \ {0} /\ 1 \in 1 .. Len(list) /\ Len(<<>>) = 0
        BY <1>2, EmptySeq
  <2>1. w \in Seq(Nat) /\ w \in Seq(Int) /\ w # <<>> /\ w[1] = Weight(list[1])
        BY <2>0, WeightsType
  <2> HIDE DEF w
  <2>2. Tail(w) \in Seq(Nat) /\ w[1] \in Nat
        BY <2>1, HeadTailProperties
  <2>3. Total(Tail(w)) \in Nat
        BY <2>2, TotalNat
  <2>4. Total(w) \in Nat
        BY <2>1, TotalNat
  <2>5. Total(Tail(w)) = Total(w) - w[1]
        BY <2>1, TotalTail
  <2>6. w[1] <= Total(w)
        BY <2>2, <2>3, <2>4, <2>5
  <2> QED BY <2>1, <2>6 DEF Mass, w
<1>3. list # <<>> => list[1] \in Observations
      BY EmptySeq
<1> QED BY <1>1, <1>2, <1>3, WeightType

\* Bounds of the deltas are bounds of their weighted mean.
LEMMA MeanBounds ==
    ASSUME NEW list \in Seq(Observations), NEW k \in Int
    PROVE  /\ (\A i \in 1 .. Len(list) : Delta(list[i].kind) <= k)
                 => Moved(list) <= k * Mass(list)
           /\ (\A i \in 1 .. Len(list) : k <= Delta(list[i].kind))
                 => k * Mass(list) <= Moved(list)
<1>1. ASSUME NEW x \in Int, NEW y \in Int, NEW z \in Nat, x <= y
      PROVE  x * z <= y * z
  <2>1. (y - x) * z \in Nat /\ (y - x) * z = y * z - x * z
        BY <1>1
  <2> QED BY <2>1
<1>2. \A i \in 1 .. Len(list) :
         /\ Weight(list[i]) \in Nat /\ Delta(list[i].kind) \in Int
         /\ Delta(list[i].kind) <= k =>
               Delta(list[i].kind) * Weight(list[i]) <= k * Weight(list[i])
         /\ k <= Delta(list[i].kind) =>
               k * Weight(list[i]) <= Delta(list[i].kind) * Weight(list[i])
  <2> TAKE i \in 1 .. Len(list)
  <2>0. list[i] \in Observations
        OBVIOUS
  <2>1. list[i] \in Observations /\ list[i].kind \in Behaviors
        BY <2>0 DEF Observations
  <2>2. Weight(list[i]) \in Nat /\ Delta(list[i].kind) \in Int
        BY <2>1, WeightType, DeltaType
  <2> QED BY <1>1, <2>2
<1> QED BY <1>2, WeightsType, TotalBounds DEF Mass, Moved

\* A score is a fraction; of observations it is the mean, moved to 50 and cut.
LEMMA ScoreType ==
    ASSUME NEW list \in Seq(Observations)
    PROVE  /\ Score(list) \in [num : Nat, den : Nat \ {0}]
           /\ list = <<>> => Score(list) = [num |-> 50, den |-> 1]
           /\ list # <<>> =>
                 Score(list) = [num |-> Clamp(0, 50 * Mass(list) + 50 * Moved(list),
                                              100 * Mass(list)),
                                den |-> Mass(list)]
<1>1. list = <<>> => Score(list) = [num |-> 50, den |-> 1]
      BY DEF Score
<1>2. list # <<>> =>
         Score(list) = [num |-> Clamp(0, 50 * Mass(list) + 50 * Moved(list), 100 * Mass(list)),
                        den |-> Mass(list)]
      BY DEF Score, Mass, Moved
<1>3. ASSUME NEW m \in Nat, NEW n \in Int
      PROVE  Clamp(0, 50 * m + 50 * n, 100 * m) \in Nat
      BY DEF Clamp
<1>4. CASE list = <<>>
      BY <1>1, <1>4
<1>5. CASE list # <<>>
  <2>1. Mass(list) \in Nat \ {0} /\ Moved(list) \in Int
        BY <1>5, MassType
  <2>2. Clamp(0, 50 * Mass(list) + 50 * Moved(list), 100 * Mass(list)) \in Nat
        BY <1>3, <2>1
  <2> QED BY <1>2, <1>5, <2>1, <2>2
<1> QED BY <1>1, <1>2, <1>4, <1>5

Fresh(kind) == [kind |-> kind, age |-> 0]

\* What Record does to a list, and to the sums its score is made of: it gains the
\* heaviest weight there is, and loses that of the oldest when it was full.
LEMMA KeepType ==
    ASSUME NEW list \in Seq(Observations), Len(list) <= MaxObservations,
           NEW kind \in Behaviors, NEW new, new = Keep(Append(list, Fresh(kind)))
    PROVE  /\ new \in Seq(Observations) /\ Len(new) <= MaxObservations /\ new # <<>>
           /\ \A i \in 1 .. Len(new) :
                 new[i] = Fresh(kind) \/ \E j \in 1 .. Len(list) : new[i] = list[j]
           /\ Len(list) < MaxObservations =>
                 /\ Mass(new) = Mass(list) + TwoTo[MaxAge]
                 /\ Moved(new) = Moved(list) + Delta(kind) * TwoTo[MaxAge]
           /\ Len(list) = MaxObservations =>
                 /\ list # <<>>
                 /\ Mass(new) = Mass(list) + TwoTo[MaxAge] - Weight(list[1])
                 /\ Moved(new) = Moved(list) + Delta(kind) * TwoTo[MaxAge]
                                   - Delta(list[1].kind) * Weight(list[1])
<1> DEFINE o == Fresh(kind)
           l == Append(list, o)
           top == TwoTo[MaxAge]
<1>1. /\ o \in Observations /\ o.kind = kind
      /\ Weight(o) = top /\ top \in Nat /\ Delta(kind) * top \in Int
  <2>1. o \in Observations /\ o.kind = kind /\ o.age = 0 /\ MaxAge - 0 = MaxAge
        BY DEF Observations, Fresh
  <2>2. Weight(o) = top
        BY <2>1 DEF Weight
  <2> HIDE DEF o
  <2> QED BY <2>1, <2>2, WeightType
<1> HIDE DEF o, top
<1>2. /\ l \in Seq(Observations) /\ Len(l) = Len(list) + 1 /\ l[Len(list) + 1] = o
      /\ \A i \in 1 .. Len(list) : l[i] = list[i]
      BY <1>1, AppendProperties
<1> HIDE DEF l
<1>9. /\ Weights(list) \in Seq(Int) /\ Len(Weights(list)) = Len(list)
      /\ WeightedDeltas(list) \in Seq(Int) /\ Len(WeightedDeltas(list)) = Len(list)
      /\ Weights(l) \in Seq(Int) /\ Len(Weights(l)) = Len(l)
      /\ WeightedDeltas(l) \in Seq(Int) /\ Len(WeightedDeltas(l)) = Len(l)
      BY <1>2, WeightsType
<1>3. Weights(l) = Append(Weights(list), top)
      /\ WeightedDeltas(l) = Append(WeightedDeltas(list), Delta(kind) * top)
  <2> DEFINE w == Append(Weights(list), top)
             d == Append(WeightedDeltas(list), Delta(kind) * top)
  <2>1. /\ w \in Seq(Int) /\ Len(w) = Len(l) /\ w[Len(l)] = top
        /\ \A i \in 1 .. Len(list) : w[i] = Weights(list)[i]
        BY <1>1, <1>2, <1>9, AppendProperties
  <2>2. /\ d \in Seq(Int) /\ Len(d) = Len(l) /\ d[Len(l)] = Delta(kind) * top
        /\ \A i \in 1 .. Len(list) : d[i] = WeightedDeltas(list)[i]
        BY <1>1, <1>2, <1>9, AppendProperties
  <2> HIDE DEF w, d
  <2>3. ASSUME NEW i \in 1 .. Len(l)
        PROVE  Weights(l)[i] = w[i] /\ WeightedDeltas(l)[i] = d[i]
    <3>1. Weights(l)[i] = Weight(l[i]) /\ WeightedDeltas(l)[i] = Delta(l[i].kind) * Weight(l[i])
          BY <1>2, WeightsType
    <3>2. CASE i \in 1 .. Len(list)
          BY <1>2, <2>1, <2>2, <3>1, <3>2, WeightsType
    <3>3. CASE i = Len(list) + 1
          BY <1>1, <1>2, <2>1, <2>2, <3>1, <3>3
    <3> QED BY <1>2, <3>2, <3>3
  <2>4. Weights(l) = w
        BY <1>9, <2>1, <2>3, SeqEqual
  <2>5. WeightedDeltas(l) = d
        BY <1>9, <2>2, <2>3, SeqEqual
  <2> QED BY <2>4, <2>5 DEF w, d
<1>4. Mass(l) = Mass(list) + top /\ Moved(l) = Moved(list) + Delta(kind) * top
      BY <1>1, <1>3, <1>9, TotalAppend DEF Mass, Moved
<1>5. CASE Len(list) < MaxObservations
  <2>1. new = l
        BY <1>2, <1>5 DEF Keep, o, l
  <2> QED BY <1>2, <1>4, <1>5, <2>1, EmptySeq DEF o, top
<1>6. CASE Len(list) = MaxObservations
  <2>1. list # <<>> /\ Len(list) \in Nat \ {0}
        BY <1>6, EmptySeq
  <2>2. l # <<>> /\ l[1] = list[1]
        BY <1>2, <2>1, EmptySeq
  <2>3. new = Tail(l)
    <3>1. new = SubSeq(l, 2, Len(l))
      <4>1. ~ (Len(l) <= MaxObservations) /\ Len(l) - MaxObservations + 1 = 2
            BY <1>2, <1>6
      <4>2. new = Keep(l)
            BY DEF o, l
      <4> QED BY <4>1, <4>2 DEF Keep
    <3> QED BY <1>2, <2>2, <3>1, TailIsSubSeq
  <2>4. /\ new \in Seq(Observations) /\ Len(new) = Len(list)
        /\ \A i \in 1 .. Len(new) : new[i] = l[i + 1]
        BY <1>2, <2>2, <2>3, HeadTailProperties
  <2>5. ASSUME NEW i \in 1 .. Len(new)
        PROVE  new[i] = o \/ \E j \in 1 .. Len(list) : new[i] = list[j]
        BY <1>2, <2>4
  <2>6. /\ Weights(new) \in Seq(Int) /\ Len(Weights(new)) = Len(new)
        /\ WeightedDeltas(new) \in Seq(Int) /\ Len(WeightedDeltas(new)) = Len(new)
        BY <2>4, WeightsType
  <2>7. /\ Weights(l) # <<>> /\ Weights(l)[1] = Weight(list[1])
        /\ WeightedDeltas(l) # <<>>
        /\ WeightedDeltas(l)[1] = Delta(list[1].kind) * Weight(list[1])
    <3>1. 1 \in 1 .. Len(l) /\ Len(l) # 0
          BY <1>2, <2>1
    <3> QED BY <1>2, <1>9, <2>2, <3>1, WeightsType, EmptySeq
  <2>8. /\ Tail(Weights(l)) \in Seq(Int) /\ Len(Tail(Weights(l))) = Len(l) - 1
        /\ \A i \in 1 .. Len(l) - 1 : Tail(Weights(l))[i] = Weights(l)[i + 1]
        BY <1>9, <2>7, HeadTailProperties
  <2>9. /\ Tail(WeightedDeltas(l)) \in Seq(Int) /\ Len(Tail(WeightedDeltas(l))) = Len(l) - 1
        /\ \A i \in 1 .. Len(l) - 1 : Tail(WeightedDeltas(l))[i] = WeightedDeltas(l)[i + 1]
        BY <1>9, <2>7, HeadTailProperties
  <2>10. Len(l) - 1 = Len(new)
        BY <1>2, <2>4
  <2>11. ASSUME NEW i \in 1 .. Len(new)
         PROVE  /\ Weights(new)[i] = Weights(l)[i + 1]
                /\ WeightedDeltas(new)[i] = WeightedDeltas(l)[i + 1]
    <3>1. i + 1 \in 1 .. Len(l) /\ new[i] = l[i + 1]
          BY <1>2, <2>4
    <3>2. /\ Weights(new)[i] = Weight(new[i])
          /\ WeightedDeltas(new)[i] = Delta(new[i].kind) * Weight(new[i])
          BY <2>4, WeightsType
    <3>3. /\ Weights(l)[i + 1] = Weight(l[i + 1])
          /\ WeightedDeltas(l)[i + 1] = Delta(l[i + 1].kind) * Weight(l[i + 1])
          BY <1>2, <3>1, WeightsType
    <3> QED BY <3>1, <3>2, <3>3
  <2>12. Weights(new) = Tail(Weights(l))
    <3>1. \A i \in 1 .. Len(Weights(new)) : Weights(new)[i] = Tail(Weights(l))[i]
          BY <2>6, <2>8, <2>10, <2>11
    <3>2. Len(Weights(new)) = Len(Tail(Weights(l)))
          BY <2>6, <2>8, <2>10
    <3> QED BY <2>6, <2>8, <3>1, <3>2, SeqEqual
  <2>13. WeightedDeltas(new) = Tail(WeightedDeltas(l))
    <3>1. \A i \in 1 .. Len(WeightedDeltas(new)) :
             WeightedDeltas(new)[i] = Tail(WeightedDeltas(l))[i]
          BY <2>6, <2>9, <2>10, <2>11
    <3>2. Len(WeightedDeltas(new)) = Len(Tail(WeightedDeltas(l)))
          BY <2>6, <2>9, <2>10
    <3> QED BY <2>6, <2>9, <3>1, <3>2, SeqEqual
  <2>14. /\ Mass(new) = Mass(l) - Weight(list[1])
         /\ Moved(new) = Moved(l) - Delta(list[1].kind) * Weight(list[1])
         BY <1>9, <2>7, <2>12, <2>13, TotalTail DEF Mass, Moved
  <2>15. new # <<>>
         BY <2>1, <2>4, EmptySeq
  <2>16. /\ Mass(new) = Mass(list) + top - Weight(list[1])
         /\ Moved(new) = Moved(list) + Delta(kind) * top
                            - Delta(list[1].kind) * Weight(list[1])
    <3>1. \A x, y, z \in Int : (x + y) - z = x + y - z
          OBVIOUS
    <3>2. list[1] \in Observations
          BY <2>1
    <3>3. /\ Mass(list) \in Int /\ Moved(list) \in Int /\ Weight(list[1]) \in Int
          /\ Delta(list[1].kind) * Weight(list[1]) \in Int
          BY <3>2, MassType, WeightType
    <3> QED BY <1>1, <1>4, <2>14, <3>1, <3>3
  <2>17. ~ (Len(list) < MaxObservations) /\ Len(new) <= MaxObservations
         BY <1>6, <2>4
  <2> QED BY <2>1, <2>4, <2>5, <2>15, <2>16, <2>17 DEF o, top
<1> QED BY <1>5, <1>6, EmptySeq

\* A positive factor keeps the order.
LEMMA TimesOrder ==
    ASSUME NEW x \in Int, NEW y \in Int, NEW z \in Nat \ {0}
    PROVE  x <= y <=> x * z <= y * z
<1>1. ASSUME x <= y PROVE x * z <= y * z
  <2>1. (y - x) * z \in Nat /\ (y - x) * z = y * z - x * z
        BY <1>1
  <2> QED BY <2>1
<1>2. ASSUME y < x PROVE y * z < x * z
  <2>1. (x - y - 1) * z \in Nat /\ (x - y - 1) * z = x * z - y * z - z
        BY <1>2
  <2> QED BY <2>1
<1>3. x * z \in Int /\ y * z \in Int
      OBVIOUS
<1> QED BY <1>1, <1>2, <1>3

\* Cutting to 0 .. 100 keeps the order of the means m / w and n / v.
LEMMA ClampOrder ==
    ASSUME NEW w \in Nat \ {0}, NEW v \in Nat \ {0}, NEW m \in Int, NEW n \in Int,
           m * v <= n * w
    PROVE  Clamp(0, 50 * w + 50 * m, 100 * w) * v <= Clamp(0, 50 * v + 50 * n, 100 * v) * w
<1> DEFINE a == 50 * w + 50 * m
           b == 50 * v + 50 * n
           A == Clamp(0, a, 100 * w)
           B == Clamp(0, b, 100 * v)
<1>1. /\ a \in Int /\ b \in Int
      /\ a * v = 50 * (w * v) + 50 * (m * v) /\ b * w = 50 * (w * v) + 50 * (n * w)
      /\ w * v \in Int /\ m * v \in Int /\ n * w \in Int
      OBVIOUS
<1>2. a * v <= b * w
      BY <1>1
<1> HIDE DEF a, b
<1>3. ASSUME NEW x \in Int, NEW y \in Int, NEW z \in Nat \ {0}
      PROVE  x <= y <=> x * z <= y * z
      BY TimesOrder
<1>4. A \in Nat /\ B \in Nat /\ A <= 100 * w /\ (100 * w) * v = (100 * v) * w
      /\ A * v \in Int /\ B * w \in Nat /\ a * v \in Int /\ b * w \in Int
      BY <1>1 DEF Clamp
<1>5. CASE a < 0
  <2>1. A * v = 0
        BY <1>1, <1>5 DEF Clamp
  <2> QED BY <1>4, <2>1 DEF a, b
<1>6. CASE b > 100 * v
  <2>1. B = 100 * v
        BY <1>1, <1>6 DEF Clamp
  <2>2. A * v <= (100 * w) * v
        BY <1>3, <1>4
  <2> QED BY <1>4, <2>1, <2>2 DEF a, b
<1>7. CASE a >= 0 /\ b <= 100 * v
  <2>1. b * w <= (100 * v) * w
        BY <1>1, <1>3, <1>7
  <2>2. a * v <= (100 * w) * v
        BY <1>2, <1>4, <2>1
  <2>3. a <= 100 * w
        BY <1>1, <1>3, <2>2
  <2>4. A = a
        BY <1>1, <1>7, <2>3 DEF Clamp
  <2>5. 0 * v <= a * v /\ 0 * w = 0 /\ 0 * v = 0
        BY <1>1, <1>3, <1>7
  <2>6. 0 * w <= b * w
        BY <1>2, <1>4, <2>5
  <2>7. 0 <= b
        BY <1>1, <1>3, <2>6
  <2>8. B = b
        BY <1>1, <1>7, <2>7 DEF Clamp
  <2> QED BY <1>2, <2>4, <2>8 DEF a, b
<1> QED BY <1>1, <1>5, <1>6, <1>7

LEMMA ScoreOrder ==
    ASSUME NEW list \in Seq(Observations), NEW new \in Seq(Observations),
           list # <<>>, new # <<>>, Moved(list) * Mass(new) <= Moved(new) * Mass(list)
    PROVE  AtLeast(Score(new), Score(list))
<1> DEFINE w == Mass(list)
           v == Mass(new)
           m == Moved(list)
           n == Moved(new)
<1>1. w \in Nat \ {0} /\ v \in Nat \ {0} /\ m \in Int /\ n \in Int
      BY MassType
<1>2. /\ Score(list) = [num |-> Clamp(0, 50 * w + 50 * m, 100 * w), den |-> w]
      /\ Score(new) = [num |-> Clamp(0, 50 * v + 50 * n, 100 * v), den |-> v]
      BY ScoreType
<1>3. m * v <= n * w
      OBVIOUS
<1> HIDE DEF w, v, m, n
<1>4. Clamp(0, 50 * w + 50 * m, 100 * w) * v <= Clamp(0, 50 * v + 50 * n, 100 * v) * w
      BY <1>1, <1>3, ClampOrder
<1>5. /\ Score(list).num = Clamp(0, 50 * w + 50 * m, 100 * w) /\ Score(list).den = w
      /\ Score(new).num = Clamp(0, 50 * v + 50 * n, 100 * v) /\ Score(new).den = v
      BY <1>2
<1>6. /\ Clamp(0, 50 * w + 50 * m, 100 * w) \in Int
      /\ Clamp(0, 50 * v + 50 * n, 100 * v) \in Int
      BY <1>1 DEF Clamp
<1>7. /\ Clamp(0, 50 * w + 50 * m, 100 * w) * v \in Int
      /\ Clamp(0, 50 * v + 50 * n, 100 * v) * w \in Int
      BY <1>1, <1>6
<1> QED BY <1>4, <1>5, <1>7 DEF AtLeast

\* A delta d that enters a mean m / w with weight top moves it towards d; so does one
\* that takes the place of a lighter one that is further from d.
LEMMA MeanMoves ==
    ASSUME NEW w \in Nat \ {0}, NEW m \in Int, NEW top \in Nat \ {0}, NEW d \in Int,
           NEW old \in 0 .. top, NEW e \in Int
    PROVE  /\ m <= d * w => m * (w + top) <= (m + d * top) * w
           /\ d * w <= m => (m + d * top) * w <= m * (w + top)
           /\ m <= d * w /\ e <= d =>
                 m * (w + (top - old)) <= (m + (d * top - e * old)) * w
           /\ d * w <= m /\ d <= e =>
                 (m + (d * top - e * old)) * w <= m * (w + (top - old))
<1> DEFINE dw == d * w
<1>1. /\ m * (w + top) = m * w + m * top
      /\ (m + d * top) * w = m * w + dw * top
      OBVIOUS
<1>2. /\ m * (w + (top - old)) = m * w + m * (top - old)
      /\ (m + (d * top - e * old)) * w = m * w + dw * (top - old) + (d - e) * (old * w)
      OBVIOUS
<1>3. dw \in Int /\ m * w \in Int /\ m * top \in Int /\ dw * top \in Int
      /\ top - old \in Nat /\ m * (top - old) \in Int /\ dw * (top - old) \in Int
      /\ old * w \in Nat /\ (d - e) * (old * w) \in Int
      OBVIOUS
<1> HIDE DEF dw
<1>4. (m <= dw <=> m * top <= dw * top) /\ (dw <= m <=> dw * top <= m * top)
      BY <1>3, TimesOrder
<1>5. /\ m <= dw => m * (top - old) <= dw * (top - old)
      /\ dw <= m => dw * (top - old) <= m * (top - old)
  <2>1. CASE top - old = 0
        BY <1>3, <2>1
  <2>2. CASE top - old # 0
        BY <1>3, <2>2, TimesOrder
  <2> QED BY <2>1, <2>2
<1>6. /\ e <= d => 0 <= (d - e) * (old * w)
      /\ d <= e => (d - e) * (old * w) <= 0
  <2>1. \A x \in Int, y \in Nat : (0 <= x => 0 <= x * y) /\ (x <= 0 => x * y <= 0)
        OBVIOUS
  <2>2. (e <= d => 0 <= d - e) /\ (d <= e => d - e <= 0) /\ d - e \in Int
        OBVIOUS
  <2> QED BY <1>3, <2>1, <2>2
<1>7. /\ m <= dw => m * (w + top) <= (m + d * top) * w
      /\ dw <= m => (m + d * top) * w <= m * (w + top)
      BY <1>1, <1>3, <1>4
<1>8. /\ m <= dw /\ e <= d => m * (w + (top - old)) <= (m + (d * top - e * old)) * w
      /\ dw <= m /\ d <= e => (m + (d * top - e * old)) * w <= m * (w + (top - old))
      BY <1>2, <1>3, <1>5, <1>6
<1> QED BY <1>7, <1>8 DEF dw

LEMMA RecordMoves ==
    ASSUME NEW list \in Seq(Observations), Len(list) <= MaxObservations,
           NEW kind \in Behaviors, NEW new, new = Keep(Append(list, Fresh(kind)))
    PROVE  /\ kind = "success" \/ (kind = "approval_granted" /\ Len(list) # MaxObservations)
                 => AtLeast(Score(new), Score(list))
           /\ kind = "failure" \/ (Delta(kind) < 0 /\ Len(list) # MaxObservations)
                 => AtLeast(Score(list), Score(new))
<1> DEFINE w == Mass(list)
           m == Moved(list)
           v == Mass(new)
           n == Moved(new)
           top == TwoTo[MaxAge]
           d == Delta(kind)
           up == kind = "success" \/ (kind = "approval_granted" /\ Len(list) # MaxObservations)
           down == kind = "failure" \/ (Delta(kind) < 0 /\ Len(list) # MaxObservations)
<1>1. /\ new \in Seq(Observations) /\ new # <<>>
      /\ Len(list) < MaxObservations => v = w + top /\ n = m + d * top
      /\ Len(list) = MaxObservations =>
            /\ list # <<>>
            /\ v = w + top - Weight(list[1])
            /\ n = m + d * top - Delta(list[1].kind) * Weight(list[1])
      BY KeepType
<1>2. /\ top \in Nat \ {0} /\ d \in {5, 3, -7, -8, -10}
      /\ d = 5 <=> kind = "success"
      /\ d = 3 <=> kind = "approval_granted"
      /\ d = -10 <=> kind = "failure"
      BY TwoToType DEF Behaviors, Delta
<1>3. w \in Nat /\ m \in Int /\ v \in Nat \ {0} /\ n \in Int /\ Len(list) \in Nat
      BY <1>1, MassType
<1>4. /\ Score(new) = [num |-> Clamp(0, 50 * v + 50 * n, 100 * v), den |-> v]
      /\ list # <<>> => Score(list) = [num |-> Clamp(0, 50 * w + 50 * m, 100 * w), den |-> w]
      /\ list = <<>> => Score(list) = [num |-> 50, den |-> 1]
      BY <1>1, ScoreType
<1>5. ASSUME list # <<>>
      PROVE  /\ m * v <= n * w => AtLeast(Score(new), Score(list))
             /\ n * w <= m * v => AtLeast(Score(list), Score(new))
      BY <1>1, <1>5, ScoreOrder
<1>6. list # <<>> => w \in Nat \ {0} /\ m <= 5 * w /\ (-10) * w <= m
  <2>1. list # <<>> => w \in Nat \ {0}
        BY MassType
  <2>2. \A i \in 1 .. Len(list) : -10 <= Delta(list[i].kind) /\ Delta(list[i].kind) <= 5
    <3>1. \A i \in 1 .. Len(list) : list[i] \in Observations
          OBVIOUS
    <3>2. \A o \in Observations : o.kind \in Behaviors
          BY DEF Observations
    <3> QED BY <3>1, <3>2, DeltaType
  <2>3. m <= 5 * w /\ (-10) * w <= m
        BY <2>2, MeanBounds
  <2> QED BY <2>1, <2>3
<1>7. list # <<>> =>
         LET o == list[1] IN
         /\ Weight(o) \in Nat /\ Weight(o) <= top
         /\ Delta(o.kind) \in Int /\ -10 <= Delta(o.kind) /\ Delta(o.kind) <= 5
  <2> SUFFICES ASSUME list # <<>>
               PROVE  LET o == list[1] IN
                      /\ Weight(o) \in Nat /\ Weight(o) <= top
                      /\ Delta(o.kind) \in Int /\ -10 <= Delta(o.kind) /\ Delta(o.kind) <= 5
      OBVIOUS
  <2>1. list[1] \in Observations
        BY EmptySeq
  <2>2. list[1].kind \in Behaviors
        BY <2>1 DEF Observations
  <2> QED BY <2>1, <2>2, WeightType, DeltaType
<1>8. CASE Len(list) = MaxObservations
  <2> DEFINE old == Weight(list[1])
             e == Delta(list[1].kind)
  <2>1. /\ list # <<>> /\ w \in Nat \ {0} /\ m <= 5 * w /\ (-10) * w <= m
        /\ old \in 0 .. top /\ e \in Int /\ -10 <= e /\ e <= 5
        BY <1>1, <1>2, <1>6, <1>7, <1>8
  <2>2. v = w + (top - old) /\ n = m + (d * top - e * old)
        BY <1>1, <1>2, <1>8
  <2> HIDE DEF old, e, w, m, v, n, top, d
  <2>3. d = 5 => m * v <= n * w
        BY <1>2, <1>3, <2>1, <2>2, MeanMoves
  <2>4. d = -10 => n * w <= m * v
        BY <1>2, <1>3, <2>1, <2>2, MeanMoves
  <2> QED BY <1>2, <1>5, <1>8, <2>1, <2>3, <2>4
<1>9. CASE Len(list) < MaxObservations /\ list # <<>>
  <2>1. v = w + top /\ n = m + d * top /\ w \in Nat \ {0} /\ m <= 5 * w /\ (-10) * w <= m
        BY <1>1, <1>6, <1>9
  <2> HIDE DEF w, m, v, n, top, d
  <2>2. (m <= d * w => m * v <= n * w) /\ (d * w <= m => n * w <= m * v)
        BY <1>2, <1>3, <2>1, MeanMoves
  <2>3. ASSUME d = 3, d * w < m
        PROVE  AtLeast(Score(new), Score(list))
    <3>1. 50 * w + 50 * m > 100 * w /\ 50 * v + 50 * n > 100 * v
          BY <1>2, <1>3, <2>1, <2>3
    <3>2. /\ Clamp(0, 50 * v + 50 * n, 100 * v) = 100 * v
          /\ Clamp(0, 50 * w + 50 * m, 100 * w) = 100 * w
          BY <1>3, <3>1 DEF Clamp
    <3>3. (100 * v) * w >= (100 * w) * v
          BY <1>3
    <3> QED BY <1>4, <1>9, <3>2, <3>3 DEF AtLeast
  <2>4. ASSUME d \in {-7, -8}, m < d * w
        PROVE  AtLeast(Score(list), Score(new))
    <3>1. 50 * w + 50 * m < 0 /\ 50 * v + 50 * n < 0
          BY <1>2, <1>3, <2>1, <2>4
    <3>2. /\ Clamp(0, 50 * v + 50 * n, 100 * v) = 0
          /\ Clamp(0, 50 * w + 50 * m, 100 * w) = 0
          BY <1>3, <3>1 DEF Clamp
    <3>3. 0 * v >= 0 * w
          BY <1>3
    <3> QED BY <1>4, <1>9, <3>2, <3>3 DEF AtLeast
  <2>5. d * w \in Int
        BY <1>2, <1>3
  <2>6. d = 5 \/ d = 3 => AtLeast(Score(new), Score(list))
        BY <1>3, <1>5, <1>9, <2>1, <2>2, <2>3, <2>5
  <2>7. d \in {-7, -8, -10} => AtLeast(Score(list), Score(new))
        BY <1>3, <1>5, <1>9, <2>1, <2>2, <2>4, <2>5
  <2>8. (kind = "success" => d = 5) /\ (kind = "approval_granted" => d = 3)
        /\ (kind = "failure" => d = -10) /\ (Delta(kind) < 0 => d \in {-7, -8, -10})
        BY <1>2 DEF d
  <2> QED BY <2>6, <2>7, <2>8
<1>10. CASE list = <<>>
  <2>1. w = 0 /\ m = 0
    <3>1. list \in Seq(Observations) /\ Len(list) = 0
          BY <1>10, EmptySeq
    <3>2. /\ Weights(list) \in Seq(Int) /\ Len(Weights(list)) = 0
          /\ WeightedDeltas(list) \in Seq(Int) /\ Len(WeightedDeltas(list)) = 0
          BY <3>1, WeightsType
    <3> QED BY <3>2, SumsType DEF Mass, Moved
  <2>2. Len(list) < MaxObservations
        BY <1>10, EmptySeq
  <2>3. v = top /\ n = d * top
        BY <1>1, <1>2, <2>1, <2>2
  <2> HIDE DEF w, m, v, n, top, d
  <2>4. ASSUME d = 5 \/ d = 3
        PROVE  AtLeast(Score(new), Score(list))
    <3>1. Clamp(0, 50 * v + 50 * n, 100 * v) = 100 * v
          BY <1>2, <2>3, <2>4 DEF Clamp
    <3> QED BY <1>3, <1>4, <1>10, <3>1 DEF AtLeast
  <2>5. ASSUME d \in {-7, -8, -10}
        PROVE  AtLeast(Score(list), Score(new))
    <3>1. Clamp(0, 50 * v + 50 * n, 100 * v) = 0
          BY <1>2, <2>3, <2>5 DEF Clamp
    <3> QED BY <1>3, <1>4, <1>10, <3>1 DEF AtLeast
  <2>6. (kind = "success" => d = 5) /\ (kind = "approval_granted" => d = 3)
        /\ (kind = "failure" => d = -10) /\ (Delta(kind) < 0 => d \in {-7, -8, -10})
        BY <1>2 DEF d
  <2> QED BY <2>4, <2>5, <2>6
<1> QED BY <1>3, <1>8, <1>9, <1>10

Older(list) == [i \in DOMAIN list |-> [list[i] EXCEPT !.age = @ + 1]]

\* A half-life halves every weight, and changes no score.
LEMMA PassKeepsScore ==
    ASSUME NEW list \in Seq(Observations), \A i \in DOMAIN list : list[i].age < MaxAge,
           NEW new, new = Older(list)
    PROVE  /\ new \in Seq(Observations) /\ Len(new) = Len(list)
           /\ new = <<>> <=> list = <<>>
           /\ \A i \in 1 .. Len(new) : new[i].kind = list[i].kind
           /\ \A s \in [num : Nat, den : Nat \ {0}] :
                 Same(s, Score(list)) => Same(s, Score(new))
<1>1. DOMAIN list = 1 .. Len(list) /\ Len(list) \in Nat
      OBVIOUS
<1>2. ASSUME NEW i \in 1 .. Len(list)
      PROVE  /\ new[i] = [list[i] EXCEPT !.age = @ + 1]
             /\ new[i] \in Observations /\ new[i].kind = list[i].kind
             /\ Weight(list[i]) = 2 * Weight(new[i])
  <2>1. /\ list[i] \in Observations /\ list[i].age < MaxAge
        /\ new[i] = [list[i] EXCEPT !.age = @ + 1]
        BY <1>1 DEF Older
  <2>2. new[i] \in Observations /\ new[i].kind = list[i].kind
        /\ new[i].age = list[i].age + 1 /\ list[i].age \in Nat /\ list[i].age < MaxAge
        BY <2>1 DEF Observations
  <2>3. /\ MaxAge - new[i].age \in Nat
        /\ MaxAge - list[i].age = (MaxAge - new[i].age) + 1
        BY <2>2
  <2> QED BY <2>1, <2>2, <2>3, TwoToType DEF Weight
<1>3. new \in Seq(Observations) /\ Len(new) = Len(list)
  <2>1. new = [i \in 1 .. Len(list) |-> new[i]]
        BY <1>1 DEF Older
  <2>2. \A i \in 1 .. Len(list) : new[i] \in Observations
        BY <1>2
  <2> HIDE DEF Observations
  <2> QED BY <1>1, <2>1, <2>2
<1>4. new = <<>> <=> list = <<>>
      BY <1>3, EmptySeq
<1>5. Mass(list) = 2 * Mass(new)
  <2>1. \A i \in 1 .. Len(list) : Weights(list)[i] = 2 * Weights(new)[i]
        BY <1>2, <1>3, WeightsType
  <2>2. /\ Weights(list) \in Seq(Int) /\ Len(Weights(list)) = Len(list)
        /\ Weights(new) \in Seq(Int) /\ Len(Weights(new)) = Len(list)
        BY <1>3, WeightsType
  <2>3. /\ Len(Weights(list)) = Len(Weights(new)) /\ 2 \in Int
        /\ \A i \in 1 .. Len(Weights(list)) : Weights(list)[i] = 2 * Weights(new)[i]
        BY <2>1, <2>2
  <2>4. Total(Weights(list)) = 2 * Total(Weights(new))
        BY <2>2, <2>3, TotalTimes
  <2> QED BY <2>4 DEF Mass
<1>6. Moved(list) = 2 * Moved(new)
  <2>1. ASSUME NEW i \in 1 .. Len(list)
        PROVE  WeightedDeltas(list)[i] = 2 * WeightedDeltas(new)[i]
    <3>1. /\ WeightedDeltas(list)[i] = Delta(list[i].kind) * Weight(list[i])
          /\ WeightedDeltas(new)[i] = Delta(new[i].kind) * Weight(new[i])
          BY <1>3, WeightsType
    <3>2. /\ Weight(new[i]) \in Int /\ Delta(new[i].kind) \in Int
          /\ new[i].kind = list[i].kind /\ Weight(list[i]) = 2 * Weight(new[i])
      <4>1. /\ new[i] \in Observations /\ new[i].kind = list[i].kind
            /\ Weight(list[i]) = 2 * Weight(new[i])
            BY <1>2
      <4>2. new[i].kind \in Behaviors
            BY <4>1 DEF Observations
      <4>3. Weight(new[i]) \in Int
            BY <4>1, WeightType
      <4> QED BY <4>1, <4>2, <4>3, DeltaType
    <3>3. \A x, y \in Int : x * (2 * y) = 2 * (x * y)
          OBVIOUS
    <3> QED BY <3>1, <3>2, <3>3
  <2>2. /\ WeightedDeltas(list) \in Seq(Int) /\ Len(WeightedDeltas(list)) = Len(list)
        /\ WeightedDeltas(new) \in Seq(Int) /\ Len(WeightedDeltas(new)) = Len(list)
        BY <1>3, WeightsType
  <2>3. /\ Len(WeightedDeltas(list)) = Len(WeightedDeltas(new)) /\ 2 \in Int
        /\ \A i \in 1 .. Len(WeightedDeltas(list)) : WeightedDeltas(list)[i] = 2 * WeightedDeltas(new)[i]
        BY <2>1, <2>2
  <2>4. Total(WeightedDeltas(list)) = 2 * Total(WeightedDeltas(new))
        BY <2>2, <2>3, TotalTimes
  <2> QED BY <2>4 DEF Moved
<1>7. ASSUME NEW s \in [num : Nat, den : Nat \ {0}], Same(s, Score(list))
      PROVE  Same(s, Score(new))
  <2>1. CASE list = <<>>
        BY <1>4, <1>7, <2>1
  <2>2. CASE list # <<>>
    <3> DEFINE w == Mass(new)
               m == Moved(new)
               c == Clamp(0, 50 * w + 50 * m, 100 * w)
    <3>1. w \in Nat \ {0} /\ m \in Int
          BY <1>3, <1>4, <2>2, MassType
    <3>2. Score(new) = [num |-> c, den |-> w]
          BY <1>3, <1>4, <2>2, ScoreType
    <3>3. Score(list) = [num |-> Clamp(0, 50 * (2 * w) + 50 * (2 * m), 100 * (2 * w)),
                         den |-> 2 * w]
          BY <1>5, <1>6, <2>2, ScoreType
    <3> HIDE DEF w, m
    <3>4. Clamp(0, 50 * (2 * w) + 50 * (2 * m), 100 * (2 * w)) = 2 * c /\ c \in Int
      <4> DEFINE a == 50 * w + 50 * m
      <4>1. a \in Int /\ 50 * (2 * w) + 50 * (2 * m) = 2 * a /\ 100 * (2 * w) = 2 * (100 * w)
            BY <3>1
      <4> HIDE DEF a
      <4>2. 100 * w \in Nat /\ c = Clamp(0, a, 100 * w)
            BY <3>1 DEF a
      <4>3. Clamp(0, 2 * a, 2 * (100 * w)) = 2 * Clamp(0, a, 100 * w)
            BY <4>1, <4>2 DEF Clamp
      <4>4. Clamp(0, a, 100 * w) \in Int
            BY <4>1, <4>2 DEF Clamp
      <4> QED BY <4>1, <4>2, <4>3, <4>4
    <3> HIDE DEF c
    <3>5. s.num * (2 * w) = (2 * c) * s.den
          BY <1>7, <3>3, <3>4 DEF Same
    <3>6. s.num * w = c * s.den
      <4>1. s.num \in Int /\ s.den \in Int /\ w \in Int /\ c \in Int
            BY <3>1, <3>4
      <4> DEFINE a == s.num
                 b == s.den
      <4> HIDE DEF a, b
      <4>2. /\ a * (2 * w) = 2 * (a * w) /\ (2 * c) * b = 2 * (c * b)
            /\ a * w \in Int /\ c * b \in Int
            BY <4>1 DEF a, b
      <4>3. a * (2 * w) = (2 * c) * b
            BY <3>5 DEF a, b
      <4>4. a * w = c * b
            BY <4>2, <4>3
      <4> QED BY <4>4 DEF a, b
    <3> QED BY <3>2, <3>6 DEF Same
  <2> QED BY <2>1, <2>2
<1> QED BY <1>2, <1>3, <1>4, <1>7

-----------------------------------------------------------------------------
(* The trust memory.                                                       *)

\* The observations are of the kinds that were recorded; there is one as soon as
\* something was.
ObservedKinds ==
    /\ seen \subseteq Behaviors
    /\ observations = <<>> <=> seen = {}
    /\ \A i \in 1 .. Len(observations) : observations[i].kind \in seen

TrustInv == TrustTypeOK /\ StatsAreCurrent /\ ObservedKinds

LEMMA SameScore ==
    ASSUME NEW list \in Seq(Observations)
    PROVE  Same(Score(list), Score(list))
<1>1. Score(list).num \in Int /\ Score(list).den \in Int
  <2>1. Score(list) \in [num : Nat, den : Nat \ {0}]
        BY ScoreType
  <2> QED BY <2>1
<1> QED BY <1>1 DEF Same

LEMMA TrustStep ==
    ASSUME TrustInv, [Next]_vars
    PROVE  TrustInv'
<1>1. /\ observations \in Seq(Observations) /\ Len(observations) <= MaxObservations
      /\ current \in [num : Nat, den : Nat \ {0}] /\ idle \in 0 .. MaxAge
      /\ MaxAge \in Nat /\ 0 \in 0 .. MaxAge
      BY DEF TrustInv, TrustTypeOK, Observations
<1>2. CASE UNCHANGED <<observations, current, idle, seen>>
      BY <1>2 DEF TrustInv, TrustTypeOK, StatsAreCurrent, ObservedKinds
<1>3. ASSUME NEW kind \in Behaviors, Record(kind), seen' = seen \cup {kind}
      PROVE  TrustInv'
  <2>1. observations' = Keep(Append(observations, Fresh(kind)))
        BY <1>3 DEF Record, Fresh
  <2>2. /\ observations' \in Seq(Observations) /\ Len(observations') <= MaxObservations
        /\ observations' # <<>>
        /\ \A i \in 1 .. Len(observations') :
              \/ observations'[i] = Fresh(kind)
              \/ \E j \in 1 .. Len(observations) : observations'[i] = observations[j]
        BY <1>1, <1>3, <2>1, KeepType
  <2>3. current' = Score(observations') /\ idle' = 0
        BY <1>3 DEF Record
  <2>4. TrustTypeOK'
        BY <1>1, <2>2, <2>3, ScoreType DEF TrustTypeOK, Observations
  <2>5. StatsAreCurrent'
        BY <2>2, <2>3, SameScore DEF StatsAreCurrent
  <2>6. ObservedKinds'
        BY <1>3, <2>2 DEF TrustInv, ObservedKinds, Fresh
  <2> QED BY <2>4, <2>5, <2>6 DEF TrustInv
<1>4. ASSUME Pass, UNCHANGED seen
      PROVE  TrustInv'
  <2>1. /\ \A i \in DOMAIN observations : observations[i].age < MaxAge
        /\ observations' = Older(observations)
        /\ idle < MaxAge /\ idle' = idle + 1 /\ current' = current
        BY <1>4 DEF Pass, Older
  <2>2. /\ observations' \in Seq(Observations) /\ Len(observations') = Len(observations)
        /\ observations' = <<>> <=> observations = <<>>
        /\ \A i \in 1 .. Len(observations') : observations'[i].kind = observations[i].kind
        /\ \A s \in [num : Nat, den : Nat \ {0}] :
              Same(s, Score(observations)) => Same(s, Score(observations'))
        BY <1>1, <2>1, PassKeepsScore
  <2>3. TrustTypeOK'
        BY <1>1, <2>1, <2>2 DEF TrustTypeOK, Observations
  <2>4. StatsAreCurrent'
        BY <1>1, <2>1, <2>2 DEF TrustInv, StatsAreCurrent
  <2>5. ObservedKinds'
        BY <1>4, <2>2 DEF TrustInv, ObservedKinds
  <2> QED BY <2>3, <2>4, <2>5 DEF TrustInv
<1>5. ASSUME GetScore, UNCHANGED seen
      PROVE  TrustInv'
  <2>1. current' = Score(observations) /\ UNCHANGED <<observations, idle>>
        BY <1>5 DEF GetScore
  <2>2. TrustTypeOK'
        BY <1>1, <2>1, ScoreType DEF TrustTypeOK, Observations
  <2>3. StatsAreCurrent'
        BY <1>1, <2>1, SameScore DEF StatsAreCurrent
  <2>4. ObservedKinds'
        BY <1>5, <2>1 DEF TrustInv, ObservedKinds
  <2> QED BY <2>2, <2>3, <2>4 DEF TrustInv
<1>6. LoadRule \/ LoadEnds \/ AddByHand \/ RemoveByHand \/ Serve =>
         UNCHANGED <<observations, current, idle, seen>>
      BY DEF LoadRule, LoadEnds, AddByHand, RemoveByHand, Serve, trustVars
<1>7. CASE Behave
      BY <1>3, <1>7 DEF Behave
<1>8. CASE TimePasses
      BY <1>4, <1>8 DEF TimePasses
<1>9. CASE Evaluate
      BY <1>2, <1>5, <1>9 DEF Evaluate, trustVars
<1>10. CASE UNCHANGED vars
       BY <1>2, <1>10 DEF vars
<1> QED BY <1>2, <1>6, <1>7, <1>8, <1>9, <1>10 DEF Next

LEMMA TrustStart == Init => TrustInv
<1> SUFFICES ASSUME Init PROVE TrustInv
    OBVIOUS
<1>1. /\ observations = <<>> /\ current = Score(<<>>) /\ idle = 0 /\ seen = {}
      BY DEF Init, TrustInit
<1>2. /\ <<>> \in Seq(Observations) /\ Len(<<>>) = 0
      BY EmptySeq
<1>3. TrustTypeOK
  <2>1. current \in [num : Nat, den : Nat \ {0}]
        BY <1>1, <1>2, ScoreType
  <2>2. observations \in Seq(Observations) /\ Len(observations) <= MaxObservations
        BY <1>1, <1>2
  <2>3. idle \in 0 .. MaxAge
        BY <1>1
  <2> QED BY <2>1, <2>2, <2>3 DEF TrustTypeOK, Observations
<1>4. StatsAreCurrent
      BY <1>1, <1>2, SameScore DEF StatsAreCurrent
<1>5. ObservedKinds
      BY <1>1, <1>2 DEF ObservedKinds
<1> QED BY <1>3, <1>4, <1>5 DEF TrustInv

LEMMA TrustAlways == Spec => []TrustInv
<1>1. TrustInv /\ [Next]_vars => TrustInv'
      BY TrustStep
<1> QED BY <1>1, TrustStart, PTL DEF Spec

\* The score that get_stats reads is the one that get_score would compute now,
\* however long ago it was stored: for any number of observations and half-lives.
THEOREM StatsAreCurrentAlways == Spec => []StatsAreCurrent
<1>1. TrustInv => StatsAreCurrent
      BY DEF TrustInv
<1> QED BY <1>1, TrustAlways, PTL

\* Evidence moves a score its way, also when it pushes out the oldest observation.
THEOREM EvidenceMovesScoreItsWayAlways == Spec => EvidenceMovesScoreItsWay
<1> DEFINE Moves ==
      \A kind \in Behaviors :
          LET full == Len(observations) = MaxObservations
          IN  Record(kind) =>
                /\ kind = "success" \/ (kind = "approval_granted" /\ ~full)
                      => AtLeast(current', Score(observations))
                /\ kind = "failure" \/ (Delta(kind) < 0 /\ ~full)
                      => AtLeast(Score(observations), current')
<1>1. ASSUME TrustInv
      PROVE  Moves
  <2> SUFFICES ASSUME NEW kind \in Behaviors, Record(kind)
               PROVE  /\ \/ kind = "success"
                         \/ kind = "approval_granted" /\ Len(observations) # MaxObservations
                         => AtLeast(current', Score(observations))
                      /\ \/ kind = "failure"
                         \/ Delta(kind) < 0 /\ Len(observations) # MaxObservations
                         => AtLeast(Score(observations), current')
      OBVIOUS
  <2>1. observations \in Seq(Observations) /\ Len(observations) <= MaxObservations
        BY <1>1 DEF TrustInv, TrustTypeOK, Observations
  <2>2. /\ observations' = Keep(Append(observations, Fresh(kind)))
        /\ current' = Score(observations')
        BY DEF Record, Fresh
  <2> QED BY <2>1, <2>2, RecordMoves
<1>2. TrustInv => [Moves]_trustVars
      BY <1>1
<1> QED BY <1>2, TrustAlways, PTL DEF EvidenceMovesScoreItsWay

\* The tiers that the module Gateway allows an agent by the kinds of behaviour on
\* record, approvals among them, contain the tier that the scores give.
THEOREM TierIsAbstractedAlways == Spec => []TierIsAbstracted
<1>1. TrustInv => TierIsAbstracted
  <2> SUFFICES ASSUME TrustInv
               PROVE  TierNow \in GatewayTiers
      BY DEF TierIsAbstracted
  <2> USE DEF Positive
  <2>1. /\ observations \in Seq(Observations)
        /\ observations = <<>> <=> seen = {}
        /\ \A i \in 1 .. Len(observations) : observations[i].kind \in seen
        BY DEF TrustInv, TrustTypeOK, ObservedKinds, Observations
  <2>8. \A i \in 1 .. Len(observations) : observations[i].kind \in Behaviors
    <3>1. \A i \in 1 .. Len(observations) : observations[i] \in Observations
          BY <2>1
    <3> QED BY <3>1 DEF Observations
  <2>2. TierNow \in Tiers
        BY DEF TierNow, Tier, Tiers
  <2> DEFINE w == Mass(observations)
             m == Moved(observations)
  <2>3. CASE seen = {}
        BY <2>1, <2>3 DEF GatewayTiers, TierNow
  <2>4. ASSUME seen # {}
        PROVE  /\ w \in Nat \ {0} /\ m \in Int /\ TierNow = Tier(Score(observations))
               /\ Score(observations) = [num |-> Clamp(0, 50 * w + 50 * m, 100 * w), den |-> w]
        BY <2>1, <2>4, MassType, ScoreType DEF TierNow
  <2>5. CASE seen # {} /\ seen \subseteq Positive
    <3>1. \A i \in 1 .. Len(observations) : 3 <= Delta(observations[i].kind)
          BY <2>1, <2>5 DEF Delta
    <3>2. 3 * w <= m
          BY <2>1, <3>1, MeanBounds
    <3> HIDE DEF w, m
    <3>3. Score(observations) = [num |-> 100 * w, den |-> w]
          BY <2>4, <2>5, <3>2 DEF Clamp
    <3>4. Tier(Score(observations)) = "trusted"
          BY <2>4, <2>5, <3>3 DEF Tier
    <3> QED BY <2>4, <2>5, <3>4 DEF GatewayTiers
  <2>6. CASE seen # {} /\ seen \cap Positive = {}
    <3>1. \A i \in 1 .. Len(observations) : Delta(observations[i].kind) <= -7
          BY <2>1, <2>8, <2>6 DEF Delta, Behaviors
    <3>2. m <= (-7) * w
          BY <2>1, <3>1, MeanBounds
    <3> HIDE DEF w, m
    <3>3. Score(observations) = [num |-> 0, den |-> w]
          BY <2>4, <2>6, <3>2 DEF Clamp
    <3>4. Tier(Score(observations)) = "untrusted"
          BY <2>4, <2>6, <3>3 DEF Tier
    <3>5. ~(seen \subseteq Positive)
          BY <2>6
    <3> QED BY <2>4, <2>6, <3>4, <3>5 DEF GatewayTiers
  <2>7. CASE seen # {} /\ ~(seen \subseteq Positive) /\ seen \cap Positive # {}
        BY <2>2, <2>7 DEF GatewayTiers
  <2> QED BY <2>3, <2>5, <2>6, <2>7
<1> QED BY <1>1, TrustAlways, PTL

-----------------------------------------------------------------------------
(* The lists of rules.                                                     *)

WithoutFirst(c) == <<>>
WithoutStep(c, n, list) ==
    IF c.list[n].name = c.name THEN list ELSE Append(list, c.list[n])
Filter == INSTANCE Recursion WITH First <- WithoutFirst, Step <- WithoutStep

\* e tells where the elements of a sublist come from, in the order they come in.
Embedding(e, part, n, list, name) ==
    /\ e \in [1 .. Len(part) -> 1 .. n]
    /\ \A j, k \in 1 .. Len(part) : j < k => e[j] < e[k]
    /\ \A k \in 1 .. Len(part) : part[k] = list[e[k]]
    /\ \A i \in 1 .. n : list[i].name # name <=> \E k \in 1 .. Len(part) : e[k] = i

\* A list without a name keeps the elements of all other names, in their order.
LEMMA WithoutType ==
    ASSUME NEW R, NEW list \in Seq(R), NEW name
    PROVE  /\ Without(list, name) \in Seq(R)
           /\ \E e : Embedding(e, Without(list, name), Len(list), list, name)
<1> DEFINE c == [list |-> list, name |-> name]
           D == 0 .. Len(list)
           f == Filter!Solution(c, D)
<1>1. D \subseteq Nat /\ \A n \in D : n = 0 \/ n - 1 \in D
      OBVIOUS
<1>2. c.list = list /\ c.name = name
      OBVIOUS
<1>3. Filter!Equation(c, D, f)
      BY <1>1, Filter!RecursionEquation
<1> HIDE DEF c
<1>4. f = [n \in D |-> IF n = 0 THEN <<>>
                       ELSE IF list[n].name = name THEN f[n - 1]
                       ELSE Append(f[n - 1], list[n])]
      BY <1>2, <1>3 DEF Filter!Equation, WithoutFirst, WithoutStep
<1>5. Without(list, name) = f[Len(list)]
      BY <1>2 DEF Without, Filter!Solution, WithoutFirst, WithoutStep
<1> HIDE DEF f
<1> DEFINE S == {n \in Nat : n <= Len(list) => 
                    f[n] \in Seq(R) /\ \E e : Embedding(e, f[n], n, list, name)}
<1>6. 0 \in S
  <2>1. f[0] = <<>> /\ Len(<<>>) = 0 /\ <<>> \in Seq(R)
        BY <1>4, EmptySeq
  <2> DEFINE e == [k \in 1 .. 0 |-> 1]
  <2>2. Embedding(e, f[0], 0, list, name)
        BY <2>1 DEF Embedding
  <2> QED BY <2>1, <2>2
<1>7. ASSUME NEW n \in Nat, n \in S
      PROVE  n + 1 \in S
  <2> SUFFICES ASSUME n + 1 <= Len(list)
               PROVE  f[n + 1] \in Seq(R)
                      /\ \E e : Embedding(e, f[n + 1], n + 1, list, name)
      OBVIOUS
  <2>1. f[n] \in Seq(R) /\ \E e : Embedding(e, f[n], n, list, name)
        BY <1>7
  <2>2. PICK e : Embedding(e, f[n], n, list, name)
        BY <2>1
  <2>3. n + 1 \in D /\ n + 1 # 0 /\ (n + 1) - 1 = n /\ list[n + 1] \in R
        OBVIOUS
  <2>4. f[n + 1] = IF list[n + 1].name = name THEN f[n] ELSE Append(f[n], list[n + 1])
        BY <1>4, <2>3
  <2>5. CASE list[n + 1].name = name
    <3>1. f[n + 1] = f[n]
          BY <2>4, <2>5
    <3>2. \A i \in 1 .. n + 1 : i \in 1 .. n \/ i = n + 1
          OBVIOUS
    <3>3. \A k \in 1 .. Len(f[n]) : e[k] \in 1 .. n
          BY <2>2 DEF Embedding
    <3>4. Embedding(e, f[n], n + 1, list, name)
          BY <2>1, <2>2, <2>5, <3>2, <3>3 DEF Embedding
    <3> QED BY <2>1, <3>1, <3>4
  <2>6. CASE list[n + 1].name # name
    <3> DEFINE m == Len(f[n])
               g == [k \in 1 .. m + 1 |-> IF k = m + 1 THEN n + 1 ELSE e[k]]
    <3>1. /\ f[n + 1] = Append(f[n], list[n + 1]) /\ f[n + 1] \in Seq(R)
          /\ Len(f[n + 1]) = m + 1 /\ m \in Nat
          /\ f[n + 1][m + 1] = list[n + 1]
          /\ \A k \in 1 .. m : f[n + 1][k] = f[n][k]
          BY <2>1, <2>3, <2>4, <2>6, AppendProperties
    <3>2. \A k \in 1 .. m + 1 : (k \in 1 .. m /\ k # m + 1) \/ k = m + 1
          BY <3>1
    <3>3. /\ \A k \in 1 .. m : e[k] \in 1 .. n /\ f[n][k] = list[e[k]]
          /\ \A j, k \in 1 .. m : j < k => e[j] < e[k]
          /\ \A i \in 1 .. n : list[i].name # name <=> \E k \in 1 .. m : e[k] = i
          BY <2>2 DEF Embedding
    <3>4. \A k \in 1 .. m : g[k] = e[k] /\ k # m + 1
          BY <3>1
    <3>5. g[m + 1] = n + 1
          BY <3>1
    <3>6. g \in [1 .. m + 1 -> 1 .. n + 1]
          BY <3>1, <3>2, <3>3
    <3> HIDE DEF m, g
    <3>7. \A j, k \in 1 .. m + 1 : j < k => g[j] < g[k]
      <4> SUFFICES ASSUME NEW j \in 1 .. m + 1, NEW k \in 1 .. m + 1, j < k
                   PROVE  g[j] < g[k]
          OBVIOUS
      <4>1. j \in 1 .. m
            BY <3>1
      <4>2. CASE k \in 1 .. m
            BY <3>3, <3>4, <4>1, <4>2
      <4>3. CASE k = m + 1
            BY <3>3, <3>4, <3>5, <4>1, <4>3
      <4> QED BY <3>2, <4>2, <4>3
    <3>8. \A k \in 1 .. m + 1 : f[n + 1][k] = list[g[k]]
          BY <3>1, <3>2, <3>3, <3>4, <3>5
    <3>9. ASSUME NEW i \in 1 .. n + 1
          PROVE  list[i].name # name <=> \E k \in 1 .. m + 1 : g[k] = i
      <4>1. CASE i \in 1 .. n
        <5>1. \A k \in 1 .. m + 1 : g[k] = i => k \in 1 .. m /\ e[k] = i
              BY <3>2, <3>4, <3>5, <4>1
        <5>2. \A k \in 1 .. m : k \in 1 .. m + 1 /\ g[k] = e[k]
              BY <3>1, <3>4
        <5> QED BY <3>3, <4>1, <5>1, <5>2
      <4>2. CASE i = n + 1
        <5>1. m + 1 \in 1 .. m + 1
              BY <3>1
        <5> QED BY <2>6, <3>5, <4>2, <5>1
      <4> QED BY <4>1, <4>2
    <3>10. Embedding(g, f[n + 1], n + 1, list, name)
          BY <3>1, <3>6, <3>7, <3>8, <3>9 DEF Embedding
    <3> QED BY <3>1, <3>10
  <2> QED BY <2>5, <2>6
<1> HIDE DEF S
<1>8. \A n \in Nat : n \in S
      BY <1>6, <1>7, Filter!Induction
<1> QED BY <1>5, <1>8 DEF S

\* The rules that are ever in force.
AllRules == {DefaultPolicies[i] : i \in 1 .. Len(DefaultPolicies)} \cup Extra

LEMMA DefaultsType ==
    /\ Len(DefaultPolicies) = 23 /\ DOMAIN DefaultPolicies = 1 .. 23
    /\ \A i \in 1 .. 23 :
          DefaultPolicies[i].priority \in Int /\ DefaultPolicies[i].decision \in PolicyResults
BY DEF DefaultPolicies, Rule, PolicyResults

LEMMA RulesType ==
    \A r \in AllRules : r.priority \in Int /\ r.decision \in PolicyResults
BY DefaultsType, RulesAssumption DEF AllRules, PolicyResults

BeforeOrWith(list) ==
    \A i, j \in 1 .. Len(list) : i < j => list[i].priority <= list[j].priority

\* In a sorted list there is one place for a rule: after all that do not come after it.
LEMMA InsertPlace ==
    ASSUME NEW list \in Seq(AllRules), BeforeOrWith(list), NEW rule \in AllRules
    PROVE  \E n \in 0 .. Len(list) :
              /\ \A i \in 1 .. Len(list) : i <= n <=> list[i].priority <= rule.priority
              /\ InsertSorted(list, rule) = PutAfter(list, rule, n)
<1> DEFINE T == {n \in 0 .. Len(list) :
                    \A i \in 1 .. Len(list) : n < i => rule.priority < list[i].priority}
           P(n) == \A i \in DOMAIN list : i <= n <=> list[i].priority <= rule.priority
<1>1. /\ Len(list) \in Nat /\ DOMAIN list = 1 .. Len(list) /\ rule.priority \in Int
      /\ \A i \in 1 .. Len(list) : list[i].priority \in Int
      BY RulesType
<1>2. T \subseteq Nat /\ Len(list) \in T
      BY <1>1
<1>3. PICK n \in T : \A k \in T : n <= k
      BY <1>2, Filter!Least
<1>4. n \in 0 .. Len(list)
      OBVIOUS
<1>5. ASSUME NEW i \in 1 .. Len(list), i <= n
      PROVE  list[i].priority <= rule.priority
  <2> SUFFICES ASSUME rule.priority < list[i].priority PROVE FALSE
      BY <1>1
  <2>1. \A j \in 1 .. Len(list) : i - 1 < j => rule.priority < list[j].priority
    <3> SUFFICES ASSUME NEW j \in 1 .. Len(list), i - 1 < j
                 PROVE  rule.priority < list[j].priority
        OBVIOUS
    <3>1. CASE j = i
          BY <3>1
    <3>2. CASE i < j
      <4>1. list[i].priority <= list[j].priority
            BY <3>2 DEF BeforeOrWith
      <4> QED BY <1>1, <4>1
    <3> QED BY <1>1, <3>1, <3>2
  <2>2. i - 1 \in T /\ i - 1 < n
        BY <1>1, <1>4, <1>5, <2>1
  <2> HIDE DEF T
  <2>3. n <= i - 1
        BY <1>3, <2>2
  <2> QED BY <1>4, <2>2, <2>3
<1>6. P(n)
  <2> SUFFICES ASSUME NEW i \in 1 .. Len(list)
               PROVE  i <= n <=> list[i].priority <= rule.priority
      BY <1>1
  <2>1. n < i => rule.priority < list[i].priority
        OBVIOUS
  <2> QED BY <1>1, <1>4, <1>5, <2>1
<1> HIDE DEF P, T
<1>7. PICK k \in 0 .. Len(list) : k = (CHOOSE m \in 0 .. Len(list) : P(m)) /\ P(k)
      BY <1>4, <1>6
<1>8. InsertSorted(list, rule) = PutAfter(list, rule, k)
      BY <1>7 DEF InsertSorted, P
<1> QED BY <1>1, <1>7, <1>8 DEF P

LEMMA PutAfterType ==
    ASSUME NEW list \in Seq(AllRules), NEW rule \in AllRules, NEW n \in 0 .. Len(list)
    PROVE  /\ PutAfter(list, rule, n) \in Seq(AllRules)
           /\ Len(PutAfter(list, rule, n)) = Len(list) + 1
           /\ \A i \in 1 .. Len(list) + 1 :
                 PutAfter(list, rule, n)[i] =
                    IF i <= n THEN list[i] ELSE IF i = n + 1 THEN rule ELSE list[i - 1]
<1> DEFINE v(i) == IF i <= n THEN list[i] ELSE IF i = n + 1 THEN rule ELSE list[i - 1]
<1>1. \A i \in 1 .. Len(list) + 1 : v(i) \in AllRules
  <2> TAKE i \in 1 .. Len(list) + 1
  <2>1. CASE i <= n
        BY <2>1
  <2>2. CASE i = n + 1
        BY <2>2
  <2>3. CASE i > n + 1
    <3>1. i - 1 \in 1 .. Len(list)
          BY <2>3
    <3> QED BY <2>3, <3>1
  <2> QED BY <2>1, <2>2, <2>3
<1>2. PutAfter(list, rule, n) = [i \in 1 .. Len(list) + 1 |-> v(i)]
      BY DEF PutAfter
<1> HIDE DEF v
<1>3. Len(list) + 1 \in Nat
      OBVIOUS
<1>4. /\ PutAfter(list, rule, n) \in Seq(AllRules)
      /\ Len(PutAfter(list, rule, n)) = Len(list) + 1
      /\ \A i \in 1 .. Len(list) + 1 : PutAfter(list, rule, n)[i] = v(i)
      BY <1>1, <1>2, <1>3
<1> QED BY <1>4 DEF v

-----------------------------------------------------------------------------
(* The rules in force.                                                     *)

Before(r, m, s, n) == r.priority < s.priority \/ (r.priority = s.priority /\ m < n)

\* list is added, sorted by priority; rules of one priority stay as they were added.
SortedBy(p, list, all) ==
    /\ p \in [1 .. Len(list) -> 1 .. Len(all)]
    /\ \A i \in 1 .. Len(list) : list[i] = all[p[i]]
    /\ \A m \in 1 .. Len(all) : \E i \in 1 .. Len(list) : p[i] = m
    /\ \A i, j \in 1 .. Len(list) : i < j => Before(list[i], p[i], list[j], p[j])

RulesInv ==
    /\ rules \in Seq(AllRules) /\ added \in Seq(AllRules)
    /\ \E p : SortedBy(p, rules, added)
    /\ IndexMatchesRules

LEMMA InsertKeepsOrder ==
    ASSUME NEW list \in Seq(AllRules), NEW all \in Seq(AllRules), NEW rule \in AllRules,
           \E p : SortedBy(p, list, all)
    PROVE  /\ InsertSorted(list, rule) \in Seq(AllRules)
           /\ Names(InsertSorted(list, rule)) = Names(list) \cup {rule.name}
           /\ \A i \in 1 .. Len(list) : \E j \in 1 .. Len(InsertSorted(list, rule)) :
                 InsertSorted(list, rule)[j] = list[i]
           /\ \E j \in 1 .. Len(InsertSorted(list, rule)) : InsertSorted(list, rule)[j] = rule
           /\ \E p : SortedBy(p, InsertSorted(list, rule), Append(all, rule))
<1>1. PICK p : SortedBy(p, list, all)
      OBVIOUS
<1> DEFINE N == Len(list)
           M == Len(all)
           new == InsertSorted(list, rule)
           more == Append(all, rule)
<1>2. N \in Nat /\ M \in Nat /\ DOMAIN list = 1 .. N
      OBVIOUS
<1>3. BeforeOrWith(list)
  <2> SUFFICES ASSUME NEW i \in 1 .. Len(list), NEW j \in 1 .. Len(list), i < j
               PROVE  list[i].priority <= list[j].priority
      BY DEF BeforeOrWith
  <2>1. Before(list[i], p[i], list[j], p[j])
        BY <1>1 DEF SortedBy
  <2>2. list[i].priority \in Int /\ list[j].priority \in Int
        BY RulesType
  <2> QED BY <2>1, <2>2 DEF Before
<1>4. PICK n \in 0 .. N :
         /\ \A i \in 1 .. N : i <= n <=> list[i].priority <= rule.priority
         /\ new = PutAfter(list, rule, n)
      BY <1>3, InsertPlace
<1>5. /\ new \in Seq(AllRules) /\ Len(new) = N + 1
      /\ \A i \in 1 .. N + 1 :
            new[i] = IF i <= n THEN list[i] ELSE IF i = n + 1 THEN rule ELSE list[i - 1]
  <2> DEFINE put == PutAfter(list, rule, n)
  <2>1. n \in 0 .. Len(list)
        OBVIOUS
  <2>2. /\ put \in Seq(AllRules) /\ Len(put) = Len(list) + 1
        /\ \A i \in 1 .. Len(list) + 1 :
              put[i] = IF i <= n THEN list[i] ELSE IF i = n + 1 THEN rule ELSE list[i - 1]
        BY <2>1, PutAfterType
  <2>3. new = put
        BY <1>4
  <2> HIDE DEF put, new
  <2> QED BY <2>2, <2>3
<1>6. /\ more \in Seq(AllRules) /\ Len(more) = M + 1 /\ more[M + 1] = rule
      /\ \A m \in 1 .. M : more[m] = all[m]
      BY AppendProperties
<1>7. /\ p \in [1 .. N -> 1 .. M]
      /\ \A i \in 1 .. N : list[i] = all[p[i]]
      /\ \A m \in 1 .. M : \E i \in 1 .. N : p[i] = m
      /\ \A i, j \in 1 .. N : i < j => Before(list[i], p[i], list[j], p[j])
      BY <1>1 DEF SortedBy
<1> HIDE DEF N, M, new, more
<1> DEFINE old(i) == IF i <= n THEN i ELSE i - 1
           place(i) == IF i <= n THEN i ELSE i + 1
           q == [i \in 1 .. N + 1 |-> IF i = n + 1 THEN M + 1 ELSE p[old(i)]]
<1>8. ASSUME NEW i \in 1 .. N + 1, i # n + 1
      PROVE  /\ old(i) \in 1 .. N /\ new[i] = list[old(i)] /\ q[i] = p[old(i)]
             /\ i <= n <=> old(i) <= n
             /\ q[i] \in 1 .. M
  <2>1. old(i) \in 1 .. N /\ (i <= n <=> old(i) <= n)
        BY <1>2, <1>8
  <2>2. new[i] = list[old(i)] /\ q[i] = p[old(i)]
        BY <1>2, <1>5, <1>8
  <2>3. p[old(i)] \in 1 .. M
        BY <1>7, <2>1
  <2> QED BY <2>1, <2>2, <2>3
<1>9. /\ n + 1 \in 1 .. N + 1 /\ new[n + 1] = rule /\ q[n + 1] = M + 1
      BY <1>2, <1>5
<1>10. ASSUME NEW i \in 1 .. N
       PROVE  /\ place(i) \in 1 .. N + 1 /\ place(i) # n + 1 /\ old(place(i)) = i
       BY <1>2
<1>11. q \in [1 .. N + 1 -> 1 .. M + 1]
  <2>1. \A i \in 1 .. N + 1 : q[i] \in 1 .. M + 1
    <3> TAKE i \in 1 .. N + 1
    <3>1. CASE i = n + 1
          BY <1>2, <1>9, <3>1
    <3>2. CASE i # n + 1
      <4>1. q[i] \in 1 .. M
            BY <1>8, <3>2
      <4> HIDE DEF q
      <4> QED BY <1>2, <4>1
    <3> QED BY <3>1, <3>2
  <2>2. q = [i \in 1 .. N + 1 |-> q[i]]
        OBVIOUS
  <2> HIDE DEF q
  <2> QED BY <2>1, <2>2
<1> HIDE DEF q
<1>12. \A i \in 1 .. N + 1 : new[i] = more[q[i]]
  <2> TAKE i \in 1 .. N + 1
  <2>1. CASE i = n + 1
        BY <1>6, <1>9, <2>1
  <2>2. CASE i # n + 1
    <3>1. /\ old(i) \in 1 .. N /\ new[i] = list[old(i)] /\ q[i] = p[old(i)]
          /\ q[i] \in 1 .. M
          BY <1>8, <2>2
    <3> HIDE DEF old
    <3>2. list[old(i)] = all[q[i]]
          BY <1>7, <3>1
    <3> QED BY <1>6, <3>1, <3>2
  <2> QED BY <2>1, <2>2
<1>13. \A m \in 1 .. M + 1 : \E i \in 1 .. N + 1 : q[i] = m
  <2> TAKE m \in 1 .. M + 1
  <2>1. CASE m = M + 1
        BY <1>9, <2>1
  <2>2. CASE m # M + 1
    <3>1. m \in 1 .. M
          BY <1>2, <2>2
    <3>2. PICK i \in 1 .. N : p[i] = m
          BY <1>7, <3>1
    <3>3. q[place(i)] = p[i] /\ place(i) \in 1 .. N + 1
          BY <1>8, <1>10
    <3> QED BY <3>2, <3>3
  <2> QED BY <2>1, <2>2
<1>14. ASSUME NEW i \in 1 .. N + 1, NEW j \in 1 .. N + 1, i < j
       PROVE  Before(new[i], q[i], new[j], q[j])
  <2>0. \A k \in 1 .. N : list[k].priority \in Int /\ rule.priority \in Int
        BY RulesType DEF N
  <2>1. CASE i = n + 1
    <3>1. j # n + 1 /\ ~ (j <= n)
          BY <1>2, <1>14, <2>1
    <3>2. ~ (list[old(j)].priority <= rule.priority)
          BY <1>4, <1>8, <3>1
    <3>3. new[i] = rule /\ new[j] = list[old(j)] /\ old(j) \in 1 .. N
          BY <1>8, <1>9, <2>1, <3>1
    <3> QED BY <2>0, <3>2, <3>3 DEF Before
  <2>2. CASE j = n + 1
    <3>1. i # n + 1 /\ i <= n
          BY <1>2, <1>14, <2>2
    <3>2. list[old(i)].priority <= rule.priority
          BY <1>4, <1>8, <3>1
    <3>3. /\ new[j] = rule /\ q[j] = M + 1
          /\ new[i] = list[old(i)] /\ old(i) \in 1 .. N /\ q[i] \in 1 .. M
          BY <1>8, <1>9, <2>2, <3>1
    <3>4. q[i] < q[j]
          BY <1>2, <3>3
    <3> QED BY <2>0, <3>2, <3>3, <3>4 DEF Before
  <2>3. CASE i # n + 1 /\ j # n + 1
    <3>1. old(i) < old(j)
          BY <1>2, <1>14, <2>3
    <3>2. Before(list[old(i)], p[old(i)], list[old(j)], p[old(j)])
          BY <1>7, <1>8, <2>3, <3>1
    <3> QED BY <1>8, <2>3, <3>2
  <2> QED BY <2>1, <2>2, <2>3
<1>15. SortedBy(q, new, more)
       BY <1>5, <1>6, <1>11, <1>12, <1>13, <1>14 DEF SortedBy
<1>16. \A i \in 1 .. N : \E j \in 1 .. N + 1 : new[j] = list[i]
  <2> TAKE i \in 1 .. N
  <2>1. place(i) \in 1 .. N + 1 /\ new[place(i)] = list[i]
        BY <1>8, <1>10
  <2> QED BY <2>1
<1>17. Names(new) = Names(list) \cup {rule.name}
  <2>1. DOMAIN new = 1 .. N + 1
        BY <1>5
  <2>2. \A j \in 1 .. N + 1 : new[j] = rule \/ \E i \in 1 .. N : new[j] = list[i]
        BY <1>8, <1>9
  <2>3. \E j \in 1 .. N + 1 : new[j] = rule
        BY <1>9
  <2>4. ASSUME NEW x \in Names(new)
        PROVE  x \in Names(list) \cup {rule.name}
    <3>1. PICK j \in 1 .. N + 1 : x = new[j].name
          BY <2>1 DEF Names
    <3> QED BY <1>2, <2>2, <3>1 DEF Names
  <2>5. ASSUME NEW x \in Names(list)
        PROVE  x \in Names(new)
    <3>1. PICK i \in 1 .. N : x = list[i].name
          BY <1>2 DEF Names
    <3>2. PICK j \in 1 .. N + 1 : new[j] = list[i]
          BY <1>16
    <3> QED BY <2>1, <3>1, <3>2 DEF Names
  <2>6. rule.name \in Names(new)
        BY <2>1, <2>3 DEF Names
  <2> QED BY <2>4, <2>5, <2>6
<1> QED BY <1>5, <1>9, <1>15, <1>16, <1>17 DEF N, new, more

LEMMA RemoveKeepsOrder ==
    ASSUME NEW list \in Seq(AllRules), NEW all \in Seq(AllRules), NEW name,
           \E p : SortedBy(p, list, all)
    PROVE  /\ Without(list, name) \in Seq(AllRules)
           /\ Names(Without(list, name)) = Names(list) \ {name}
           /\ \A i \in 1 .. Len(list) : list[i].name # name =>
                 \E j \in 1 .. Len(Without(list, name)) : Without(list, name)[j] = list[i]
           /\ \E p : SortedBy(p, Without(list, name), Without(all, name))
<1>1. PICK p : SortedBy(p, list, all)
      OBVIOUS
<1> DEFINE new == Without(list, name)
           less == Without(all, name)
<1>2. new \in Seq(AllRules) /\ less \in Seq(AllRules)
      BY WithoutType
<1>3. PICK e : Embedding(e, new, Len(list), list, name)
      BY WithoutType
<1>4. PICK f : Embedding(f, less, Len(all), all, name)
      BY WithoutType
<1> DEFINE N == Len(list)
           M == Len(all)
           K == Len(new)
           L == Len(less)
<1>5. N \in Nat /\ M \in Nat /\ K \in Nat /\ L \in Nat
      /\ DOMAIN list = 1 .. N /\ DOMAIN new = 1 .. K
      BY <1>2
<1>6. /\ p \in [1 .. N -> 1 .. M]
      /\ \A i \in 1 .. N : list[i] = all[p[i]]
      /\ \A m \in 1 .. M : \E i \in 1 .. N : p[i] = m
      /\ \A i, j \in 1 .. N : i < j => Before(list[i], p[i], list[j], p[j])
      BY <1>1 DEF SortedBy
<1>7. /\ e \in [1 .. K -> 1 .. N]
      /\ \A j, k \in 1 .. K : j < k => e[j] < e[k]
      /\ \A k \in 1 .. K : new[k] = list[e[k]]
      /\ \A i \in 1 .. N : list[i].name # name <=> \E k \in 1 .. K : e[k] = i
      BY <1>3 DEF Embedding
<1>8. /\ f \in [1 .. L -> 1 .. M]
      /\ \A j, k \in 1 .. L : j < k => f[j] < f[k]
      /\ \A k \in 1 .. L : less[k] = all[f[k]]
      /\ \A i \in 1 .. M : all[i].name # name <=> \E k \in 1 .. L : f[k] = i
      BY <1>4 DEF Embedding
<1> HIDE DEF N, M, K, L, new, less
<1> DEFINE q == [k \in 1 .. K |-> CHOOSE m \in 1 .. L : f[m] = p[e[k]]]
<1>9. ASSUME NEW k \in 1 .. K
      PROVE  q[k] \in 1 .. L /\ f[q[k]] = p[e[k]]
  <2>1. e[k] \in 1 .. N /\ list[e[k]].name # name
        BY <1>7
  <2>2. p[e[k]] \in 1 .. M /\ all[p[e[k]]].name # name
        BY <1>6, <2>1
  <2>3. \E m \in 1 .. L : f[m] = p[e[k]]
        BY <1>8, <2>2
  <2> QED BY <2>3
<1>10. q \in [1 .. K -> 1 .. L]
  <2>1. q = [k \in 1 .. K |-> q[k]]
        OBVIOUS
  <2> HIDE DEF q
  <2> QED BY <1>9, <2>1
<1> HIDE DEF q
<1>11. ASSUME NEW j \in 1 .. L, NEW k \in 1 .. L
       PROVE  (f[j] = f[k] => j = k) /\ (f[j] < f[k] => j < k)
  <2>1. f[j] \in Int /\ f[k] \in Int /\ j \in Int /\ k \in Int
        BY <1>5, <1>8
  <2>2. (j < k => f[j] < f[k]) /\ (k < j => f[k] < f[j])
        BY <1>8
  <2> QED BY <2>1, <2>2
<1>12. ASSUME NEW k \in 1 .. K
       PROVE  new[k] = less[q[k]]
  <2>1. less[q[k]] = all[p[e[k]]]
        BY <1>8, <1>9
  <2>2. e[k] \in 1 .. N /\ new[k] = list[e[k]]
        BY <1>7
  <2> QED BY <1>6, <2>1, <2>2
<1>13. ASSUME NEW m \in 1 .. L
       PROVE  \E k \in 1 .. K : q[k] = m
  <2>1. f[m] \in 1 .. M /\ all[f[m]].name # name
        BY <1>8
  <2>2. PICK i \in 1 .. N : p[i] = f[m]
        BY <1>6, <2>1
  <2>3. list[i].name # name
        BY <1>6, <2>1, <2>2
  <2>4. PICK k \in 1 .. K : e[k] = i
        BY <1>7, <2>3
  <2>5. f[q[k]] = f[m] /\ q[k] \in 1 .. L
        BY <1>9, <2>2, <2>4
  <2> QED BY <1>11, <2>5
<1>14. ASSUME NEW j \in 1 .. K, NEW k \in 1 .. K, j < k
       PROVE  Before(new[j], q[j], new[k], q[k])
  <2>1. e[j] \in 1 .. N /\ e[k] \in 1 .. N /\ e[j] < e[k]
        BY <1>7, <1>14
  <2>2. Before(list[e[j]], p[e[j]], list[e[k]], p[e[k]])
        BY <1>6, <2>1
  <2>3. /\ new[j] = list[e[j]] /\ f[q[j]] = p[e[j]] /\ q[j] \in 1 .. L
        /\ new[k] = list[e[k]] /\ f[q[k]] = p[e[k]] /\ q[k] \in 1 .. L
        BY <1>7, <1>9
  <2>4. p[e[j]] < p[e[k]] => q[j] < q[k]
        BY <1>11, <2>3
  <2> QED BY <2>2, <2>3, <2>4 DEF Before
<1>15. SortedBy(q, new, less)
       BY <1>10, <1>12, <1>13, <1>14 DEF SortedBy, K, L
<1>16. ASSUME NEW i \in 1 .. N, list[i].name # name
       PROVE  \E j \in 1 .. K : new[j] = list[i]
  <2>1. PICK k \in 1 .. K : e[k] = i
        BY <1>7, <1>16
  <2> QED BY <1>7, <2>1
<1>17. Names(new) = Names(list) \ {name}
  <2>1. ASSUME NEW x \in Names(new)
        PROVE  x \in Names(list) \ {name}
    <3>1. PICK k \in 1 .. K : x = new[k].name
          BY <1>5 DEF Names
    <3>2. e[k] \in 1 .. N /\ x = list[e[k]].name /\ list[e[k]].name # name
          BY <1>7, <3>1
    <3> QED BY <1>5, <3>2 DEF Names
  <2>2. ASSUME NEW x \in Names(list), x # name
        PROVE  x \in Names(new)
    <3>1. PICK i \in 1 .. N : x = list[i].name
          BY <1>5 DEF Names
    <3>2. PICK j \in 1 .. K : new[j] = list[i]
          BY <1>16, <2>2, <3>1
    <3> QED BY <1>5, <3>1, <3>2 DEF Names
  <2> QED BY <2>1, <2>2
<1> QED BY <1>2, <1>15, <1>16, <1>17 DEF N, K, new, less

LEMMA AddRuleKeeps ==
    ASSUME RulesInv, NEW rule \in AllRules, AddRule(rule), added' = Append(added, rule)
    PROVE  RulesInv'
<1>1. /\ rules \in Seq(AllRules) /\ added \in Seq(AllRules)
      /\ \E p : SortedBy(p, rules, added)
      /\ rules' = InsertSorted(rules, rule) /\ ruleIndex' = Index(rule)
      BY DEF RulesInv, AddRule
<1>2. /\ rules' \in Seq(AllRules) /\ Names(rules') = Names(rules) \cup {rule.name}
      /\ \A i \in 1 .. Len(rules) : \E j \in 1 .. Len(rules') : rules'[j] = rules[i]
      /\ \E j \in 1 .. Len(rules') : rules'[j] = rule
      /\ \E p : SortedBy(p, rules', added')
  <2> DEFINE new == InsertSorted(rules, rule)
  <2>1. /\ rules \in Seq(AllRules) /\ added \in Seq(AllRules)
        /\ \E p : SortedBy(p, rules, added)
        BY <1>1
  <2>2. new \in Seq(AllRules)
        BY <2>1, InsertKeepsOrder
  <2>3. Names(new) = Names(rules) \cup {rule.name}
        BY <2>1, InsertKeepsOrder
  <2>4. \A i \in 1 .. Len(rules) : \E j \in 1 .. Len(new) : new[j] = rules[i]
        BY <2>1, InsertKeepsOrder
  <2>5. \E j \in 1 .. Len(new) : new[j] = rule
        BY <2>1, InsertKeepsOrder
  <2>6. \E p : SortedBy(p, new, Append(added, rule))
        BY <2>1, InsertKeepsOrder
  <2> HIDE DEF new
  <2>7. rules' = new /\ added' = Append(added, rule)
        BY <1>1 DEF new
  <2> QED BY <2>2, <2>3, <2>4, <2>5, <2>6, <2>7
<1>3. added' \in Seq(AllRules)
      BY <1>1, AppendProperties
<1>4. DOMAIN rules' = 1 .. Len(rules') /\ DOMAIN rules = 1 .. Len(rules)
      BY <1>1, <1>2
<1>5. /\ DOMAIN ruleIndex = Names(rules)
      /\ \A n \in DOMAIN ruleIndex : /\ ruleIndex[n].name = n
                                     /\ \E i \in DOMAIN rules : rules[i] = ruleIndex[n]
      BY DEF RulesInv, IndexMatchesRules
<1>6. /\ DOMAIN ruleIndex' = DOMAIN ruleIndex \cup {rule.name}
      /\ \A n \in DOMAIN ruleIndex' :
            ruleIndex'[n] = IF n = rule.name THEN rule ELSE ruleIndex[n]
      BY <1>1 DEF Index
<1>7. ASSUME NEW n \in DOMAIN ruleIndex'
      PROVE  ruleIndex'[n].name = n /\ \E i \in DOMAIN rules' : rules'[i] = ruleIndex'[n]
  <2>1. CASE n = rule.name
        BY <1>2, <1>4, <1>6, <2>1
  <2>2. CASE n # rule.name
    <3>1. n \in DOMAIN ruleIndex /\ ruleIndex'[n] = ruleIndex[n]
          BY <1>6, <2>2
    <3>2. PICK i \in 1 .. Len(rules) : rules[i] = ruleIndex[n]
          BY <1>4, <1>5, <3>1
    <3> QED BY <1>2, <1>4, <1>5, <3>1, <3>2
  <2> QED BY <2>1, <2>2
<1>8. DOMAIN ruleIndex' = Names(rules')
      BY <1>2, <1>5, <1>6
<1> QED BY <1>2, <1>3, <1>7, <1>8 DEF RulesInv, IndexMatchesRules

LEMMA RemoveRuleKeeps ==
    ASSUME RulesInv, NEW name, RemoveRule(name), added' = Without(added, name)
    PROVE  RulesInv'
<1>1. /\ rules \in Seq(AllRules) /\ added \in Seq(AllRules)
      /\ \E p : SortedBy(p, rules, added)
      /\ rules' = Without(rules, name)
      /\ ruleIndex' = [n \in DOMAIN ruleIndex \ {name} |-> ruleIndex[n]]
      BY DEF RulesInv, RemoveRule
<1>2. /\ rules' \in Seq(AllRules) /\ Names(rules') = Names(rules) \ {name}
      /\ \A i \in 1 .. Len(rules) : rules[i].name # name =>
            \E j \in 1 .. Len(rules') : rules'[j] = rules[i]
      /\ \E p : SortedBy(p, rules', added')
      BY <1>1, RemoveKeepsOrder
<1>3. added' \in Seq(AllRules)
      BY <1>1, WithoutType
<1>4. DOMAIN rules' = 1 .. Len(rules') /\ DOMAIN rules = 1 .. Len(rules)
      BY <1>1, <1>2
<1>5. /\ DOMAIN ruleIndex = Names(rules)
      /\ \A n \in DOMAIN ruleIndex : /\ ruleIndex[n].name = n
                                     /\ \E i \in DOMAIN rules : rules[i] = ruleIndex[n]
      BY DEF RulesInv, IndexMatchesRules
<1>6. /\ DOMAIN ruleIndex' = DOMAIN ruleIndex \ {name}
      /\ \A n \in DOMAIN ruleIndex' : ruleIndex'[n] = ruleIndex[n]
      BY <1>1
<1>7. ASSUME NEW n \in DOMAIN ruleIndex'
      PROVE  ruleIndex'[n].name = n /\ \E i \in DOMAIN rules' : rules'[i] = ruleIndex'[n]
  <2>1. n \in DOMAIN ruleIndex /\ n # name /\ ruleIndex'[n] = ruleIndex[n]
        BY <1>6
  <2>2. PICK i \in 1 .. Len(rules) : rules[i] = ruleIndex[n]
        BY <1>4, <1>5, <2>1
  <2>3. rules[i].name = n
        BY <1>5, <2>1, <2>2
  <2> QED BY <1>2, <1>4, <2>1, <2>2, <2>3
<1>8. DOMAIN ruleIndex' = Names(rules')
      BY <1>2, <1>5, <1>6
<1> QED BY <1>2, <1>3, <1>7, <1>8 DEF RulesInv, IndexMatchesRules

\* The answer is what the three engines say of a request, and nothing changes after it.
AnswerInv ==
    answer # NoAnswer =>
        /\ phase = "serving"
        /\ answer.request \in Requests
        /\ answer.policy = PolicyDecision(answer.request)
        /\ answer.risk = RiskClass(answer.request)
        /\ answer.tier \in Tiers
        /\ answer.decision = Decide(answer.policy, answer.risk, answer.tier)

SetupInv ==
    /\ phase \in {"start", "setup", "serving"}
    /\ loaded \in 0 .. Len(DefaultPolicies) /\ edits \in 0 .. MaxEdits

PolicyInv == RulesInv /\ SetupInv /\ AnswerInv

LEMMA PolicyStart == Init => PolicyInv
<1> SUFFICES ASSUME Init PROVE PolicyInv
    OBVIOUS
<1>1. /\ rules = <<>> /\ ruleIndex = [n \in {} |-> 0] /\ added = <<>>
      /\ phase = "start" /\ loaded = 0 /\ edits = 0 /\ answer = NoAnswer
      BY DEF Init, PolicyInit
<1>2. <<>> \in Seq(AllRules) /\ Len(<<>>) = 0 /\ DOMAIN <<>> = 1 .. 0
      BY EmptySeq
<1>3. SortedBy([i \in 1 .. 0 |-> 0], <<>>, <<>>)
      BY <1>2 DEF SortedBy
<1>4. DOMAIN ruleIndex = {} /\ Names(<<>>) = {}
      BY <1>1, <1>2 DEF Names
<1>5. RulesInv
      BY <1>1, <1>2, <1>3, <1>4 DEF RulesInv, IndexMatchesRules
<1> QED BY <1>1, <1>5, DefaultsType DEF PolicyInv, SetupInv, AnswerInv

LEMMA PolicyStep ==
    ASSUME PolicyInv, [Next]_vars
    PROVE  PolicyInv'
<1>1. RulesInv /\ SetupInv /\ AnswerInv
      BY DEF PolicyInv
<1>2. ASSUME UNCHANGED <<rules, ruleIndex, added>>
      PROVE  RulesInv'
      BY <1>1, <1>2 DEF RulesInv, IndexMatchesRules
<1>3. ASSUME UNCHANGED <<rules, phase, answer>>
      PROVE  AnswerInv'
      BY <1>1, <1>3 DEF AnswerInv, PolicyDecision, Winner
<1>4. CASE LoadRule
  <2>1. /\ phase = "start" /\ loaded < Len(DefaultPolicies) /\ loaded' = loaded + 1
        /\ AddRule(DefaultPolicies[loaded + 1])
        /\ added' = Append(added, DefaultPolicies[loaded + 1])
        /\ UNCHANGED <<phase, edits, answer>>
        BY <1>4 DEF LoadRule
  <2>2. DefaultPolicies[loaded + 1] \in AllRules /\ loaded' \in 0 .. Len(DefaultPolicies)
    <3>1. Len(DefaultPolicies) \in Nat
          BY DefaultsType
    <3>2. loaded + 1 \in 1 .. Len(DefaultPolicies)
          BY <1>1, <2>1, <3>1 DEF SetupInv
    <3> QED BY <2>1, <3>2 DEF AllRules
  <2>3. RulesInv'
        BY <1>1, <2>1, <2>2, AddRuleKeeps
  <2>4. AnswerInv'
        BY <1>1, <2>1 DEF AnswerInv
  <2> QED BY <1>1, <2>1, <2>2, <2>3, <2>4 DEF PolicyInv, SetupInv
<1>5. CASE LoadEnds
  <2>1. /\ phase = "start" /\ phase' = "setup"
        /\ UNCHANGED <<rules, ruleIndex, added, loaded, edits, answer>>
        BY <1>5 DEF LoadEnds, policyVars
  <2>2. AnswerInv'
        BY <1>1, <2>1 DEF AnswerInv
  <2> QED BY <1>1, <1>2, <2>1, <2>2 DEF PolicyInv, SetupInv
<1>6. CASE AddByHand
  <2>1. PICK rule \in Extra : AddRule(rule) /\ added' = Append(added, rule)
        BY <1>6 DEF AddByHand
  <2>2. phase = "setup" /\ edits < MaxEdits /\ edits' = edits + 1
        /\ UNCHANGED <<phase, loaded, answer>>
        BY <1>6 DEF AddByHand, Edit
  <2>3. RulesInv'
        BY <1>1, <2>1, AddRuleKeeps DEF AllRules
  <2>4. AnswerInv'
        BY <1>1, <2>2 DEF AnswerInv
  <2> QED BY <1>1, <2>2, <2>3, <2>4 DEF PolicyInv, SetupInv
<1>7. CASE RemoveByHand
  <2>1. PICK name \in {rule.name : rule \in Extra} :
           RemoveRule(name) /\ added' = Without(added, name)
        BY <1>7 DEF RemoveByHand
  <2>2. phase = "setup" /\ edits < MaxEdits /\ edits' = edits + 1
        /\ UNCHANGED <<phase, loaded, answer>>
        BY <1>7 DEF RemoveByHand, Edit
  <2>3. RulesInv'
        BY <1>1, <2>1, RemoveRuleKeeps
  <2>4. AnswerInv'
        BY <1>1, <2>2 DEF AnswerInv
  <2> QED BY <1>1, <2>2, <2>3, <2>4 DEF PolicyInv, SetupInv
<1>8. CASE Serve
  <2>1. /\ phase = "setup" /\ phase' = "serving"
        /\ UNCHANGED <<rules, ruleIndex, added, loaded, edits, answer>>
        BY <1>8 DEF Serve, policyVars
  <2>2. AnswerInv'
        BY <1>1, <2>1 DEF AnswerInv
  <2> QED BY <1>1, <1>2, <2>1, <2>2 DEF PolicyInv, SetupInv
<1>9. CASE Behave \/ TimePasses \/ UNCHANGED vars
  <2>1. UNCHANGED <<rules, ruleIndex, added, phase, loaded, edits, answer>>
        BY <1>9 DEF Behave, TimePasses, vars, policyVars, setup
  <2> QED BY <1>1, <1>2, <1>3, <2>1 DEF PolicyInv, SetupInv
<1>10. CASE Evaluate
  <2>1. /\ phase = "serving"
        /\ UNCHANGED <<rules, ruleIndex, added, phase, loaded, edits>>
        BY <1>10 DEF Evaluate, policyVars, setup
  <2>2. PICK q \in Requests :
           answer' = [request |-> q, policy |-> PolicyDecision(q), risk |-> RiskClass(q),
                      tier |-> TierNow,
                      decision |-> Decide(PolicyDecision(q), RiskClass(q), TierNow)]
        BY <1>10 DEF Evaluate
  <2>3. TierNow \in Tiers
        BY DEF TierNow, Tier, Tiers
  <2>4. PolicyDecision(q)' = PolicyDecision(q) 
        BY <2>1 DEF PolicyDecision, Winner
  <2>5. /\ answer'.request = q /\ answer'.policy = PolicyDecision(q)
        /\ answer'.risk = RiskClass(q) /\ answer'.tier = TierNow
        /\ answer'.decision = Decide(PolicyDecision(q), RiskClass(q), TierNow)
        BY <2>2
  <2>6. PolicyDecision(answer.request)' = PolicyDecision(q)
        BY <2>1, <2>5 DEF PolicyDecision, Winner
  <2>7. AnswerInv'
        BY <2>1, <2>3, <2>5, <2>6 DEF AnswerInv
  <2> QED BY <1>1, <1>2, <2>1, <2>7 DEF PolicyInv, SetupInv
<1> QED BY <1>4, <1>5, <1>6, <1>7, <1>8, <1>9, <1>10 DEF Next

LEMMA PolicyAlways == Spec => []PolicyInv
<1>1. PolicyInv /\ [Next]_vars => PolicyInv'
      BY PolicyStep
<1> QED BY <1>1, PolicyStart, PTL DEF Spec

MatchingRules(list, q) == {i \in DOMAIN list : list[i].enabled /\ Holds(list[i].condition, q)}

\* The winner is the first rule that matches, and there is one if any does.
LEMMA WinnerType ==
    ASSUME rules \in Seq(AllRules), NEW q
    PROVE  /\ MatchingRules(rules, q) = {} => Winner(q) = 0
           /\ MatchingRules(rules, q) # {} =>
                 /\ Winner(q) \in MatchingRules(rules, q) /\ Winner(q) # 0
                 /\ \A j \in MatchingRules(rules, q) : Winner(q) <= j
<1> DEFINE m == MatchingRules(rules, q)
<1>1. m \subseteq Nat /\ 0 \notin m
      BY DEF MatchingRules
<1>2. Winner(q) = IF m = {} THEN 0 ELSE CHOOSE i \in m : \A j \in m : i <= j
      BY DEF Winner, MatchingRules
<1> HIDE DEF m
<1>3. CASE m # {}
  <2>1. \E i \in m : \A j \in m : i <= j
        BY <1>1, <1>3, Filter!Least
  <2>2. Winner(q) \in m /\ \A j \in m : Winner(q) <= j
        BY <1>2, <1>3, <2>1
  <2> QED BY <1>1, <1>3, <2>2 DEF m
<1> QED BY <1>2, <1>3 DEF m

LEMMA PolicyDecisionType ==
    ASSUME rules \in Seq(AllRules), NEW q
    PROVE  PolicyDecision(q) \in PolicyResults
<1>1. CASE MatchingRules(rules, q) = {}
      BY <1>1, WinnerType DEF PolicyDecision, DefaultDecision, PolicyResults
<1>2. CASE MatchingRules(rules, q) # {}
  <2>1. Winner(q) \in DOMAIN rules /\ Winner(q) # 0
        BY <1>2, WinnerType DEF MatchingRules
  <2>2. rules[Winner(q)] \in AllRules
        BY <2>1
  <2> QED BY <2>1, <2>2, RulesType DEF PolicyDecision
<1> QED BY <1>1, <1>2

LEMMA TypesAnswered ==
    ASSUME NEW p \in PolicyResults, NEW r \in Risks, NEW t \in Tiers
    PROVE  Decide(p, r, t) \in Decisions
BY DEF Decide, Decisions, PolicyResults, Risks, Tiers

\* Every variable keeps its type, and the list and the index of the rules agree.
THEOREM TypeCorrect == Spec => []TypeOK
<1>1. TrustInv /\ PolicyInv => TypeOK
  <2> SUFFICES ASSUME TrustInv, PolicyInv PROVE TypeOK
      OBVIOUS
  <2>1. /\ TrustTypeOK /\ seen \subseteq Behaviors
        BY DEF TrustInv, ObservedKinds
  <2>2. /\ rules \in Seq(AllRules) /\ IndexMatchesRules
        /\ phase \in {"start", "setup", "serving"}
        /\ loaded \in 0 .. Len(DefaultPolicies) /\ edits \in 0 .. MaxEdits
        BY DEF PolicyInv, RulesInv, SetupInv
  <2>3. \A i \in DOMAIN rules : rules[i].decision \in PolicyResults
    <3> TAKE i \in DOMAIN rules
    <3>1. rules[i] \in AllRules
          BY <2>2
    <3> QED BY <3>1, RulesType
  <2>4. ASSUME answer # NoAnswer
        PROVE  answer.decision \in Decisions /\ answer.risk \in Risks /\ answer.tier \in Tiers
    <3>1. /\ answer.policy = PolicyDecision(answer.request)
          /\ answer.risk = RiskClass(answer.request) /\ answer.tier \in Tiers
          /\ answer.decision = Decide(answer.policy, answer.risk, answer.tier)
          BY <2>4 DEF PolicyInv, AnswerInv
    <3>2. answer.policy \in PolicyResults
          BY <2>2, <3>1, PolicyDecisionType
    <3>3. answer.risk \in Risks
          BY <3>1 DEF RiskClass, Classify, Risks
    <3> QED BY <3>1, <3>2, <3>3, TypesAnswered
  <2> QED BY <2>1, <2>2, <2>3, <2>4 DEF TypeOK
<1> QED BY <1>1, TrustAlways, PolicyAlways, PTL

Precedes(i, j) == \/ added[i].priority < added[j].priority
                  \/ added[i].priority = added[j].priority /\ i <= j

\* The decision is that of the first rule that matches, of all in force in the order
\* they were added.
LEMMA FirstWins ==
    ASSUME PolicyInv, NEW q
    PROVE  /\ MatchingRules(added, q) = {} =>
                 Winner(q) = 0 /\ PolicyDecision(q) = "require_approval"
           /\ MatchingRules(added, q) # {} =>
                 \E k \in MatchingRules(added, q) :
                    /\ Winner(q) # 0 /\ rules[Winner(q)] = added[k]
                    /\ PolicyDecision(q) = added[k].decision
                    /\ \A j \in MatchingRules(added, q) : Precedes(k, j)
<1>1. /\ rules \in Seq(AllRules) /\ added \in Seq(AllRules)
      /\ \E p : SortedBy(p, rules, added)
      BY DEF PolicyInv, RulesInv
<1> DEFINE m == MatchingRules(added, q)
           w == Winner(q)
<1>2. PICK p : SortedBy(p, rules, added)
      BY <1>1
<1>3. /\ p \in [1 .. Len(rules) -> 1 .. Len(added)]
      /\ \A i \in 1 .. Len(rules) : rules[i] = added[p[i]]
      /\ \A k \in 1 .. Len(added) : \E i \in 1 .. Len(rules) : p[i] = k
      /\ \A i, j \in 1 .. Len(rules) : i < j => Before(rules[i], p[i], rules[j], p[j])
      BY <1>2 DEF SortedBy
<1>4. DOMAIN rules = 1 .. Len(rules) /\ DOMAIN added = 1 .. Len(added)
      BY <1>1
<1>5. \A i \in MatchingRules(rules, q) : i \in 1 .. Len(rules) /\ p[i] \in m
      BY <1>3, <1>4 DEF MatchingRules
<1>6. \A k \in m : \E i \in MatchingRules(rules, q) : p[i] = k
  <2> TAKE k \in m
  <2>1. k \in 1 .. Len(added) /\ added[k].enabled /\ Holds(added[k].condition, q)
        BY <1>4 DEF MatchingRules
  <2>2. PICK i \in 1 .. Len(rules) : p[i] = k
        BY <1>3, <2>1
  <2>3. rules[i] = added[k]
        BY <1>3, <2>2
  <2> QED BY <1>4, <2>1, <2>2, <2>3 DEF MatchingRules
<1> HIDE DEF m, w
<1>7. CASE m = {}
  <2>1. MatchingRules(rules, q) = {}
        BY <1>5, <1>7
  <2>2. Winner(q) = 0 /\ PolicyDecision(q) = "require_approval"
        BY <1>1, <2>1, WinnerType DEF PolicyDecision, DefaultDecision
  <2> QED BY <1>7, <2>2 DEF m
<1>8. CASE m # {}
  <2>1. MatchingRules(rules, q) # {}
        BY <1>6, <1>8
  <2>2. /\ w \in MatchingRules(rules, q) /\ w # 0
        /\ \A j \in MatchingRules(rules, q) : w <= j
        BY <1>1, <2>1, WinnerType DEF w
  <2>3. w \in 1 .. Len(rules) /\ p[w] \in m /\ p[w] \in 1 .. Len(added)
        BY <1>3, <1>5, <2>2
  <2>4. ASSUME NEW k \in m
        PROVE  Precedes(p[w], k)
    <3>1. PICK i \in MatchingRules(rules, q) : p[i] = k
          BY <1>6
    <3>2. i \in 1 .. Len(rules) /\ rules[i] = added[k] /\ rules[w] = added[p[w]]
          BY <1>3, <1>5, <2>3, <3>1
    <3>3. CASE i = w
          BY <2>3, <3>1, <3>3 DEF Precedes
    <3>4. CASE i # w
      <4>1. w <= i /\ w \in Int /\ i \in Int
            BY <2>2, <2>3, <3>2
      <4>2. Before(rules[w], p[w], rules[i], p[i])
            BY <1>3, <2>3, <3>2, <3>4, <4>1
      <4>3. k \in Int /\ p[w] \in Int
            BY <1>3, <2>3, <3>1, <3>2
      <4> QED BY <3>1, <3>2, <4>2, <4>3 DEF Before, Precedes
    <3> QED BY <3>3, <3>4
  <2>5. /\ Winner(q) # 0 /\ rules[Winner(q)] = added[p[w]]
        /\ PolicyDecision(q) = added[p[w]].decision
        BY <1>3, <2>2, <2>3 DEF PolicyDecision, w
  <2> QED BY <1>8, <2>3, <2>4, <2>5 DEF m
<1> QED BY <1>7, <1>8

\* Whatever is loaded, added and removed, the first matching rule wins: the one of the
\* lowest priority, and of those the one that was added first.
THEOREM FirstMatchingRuleWinsAlways == Spec => []FirstMatchingRuleWins
<1>1. PolicyInv => FirstMatchingRuleWins
  <2> SUFFICES ASSUME PolicyInv, answer # NoAnswer
               PROVE  answer.policy =
                        LET m == Matching(answer.request)
                        IN  IF m = {} THEN "require_approval"
                            ELSE added[CHOOSE i \in m : \A j \in m :
                                   \/ added[i].priority < added[j].priority
                                   \/ added[i].priority = added[j].priority /\ i <= j].decision
      BY DEF FirstMatchingRuleWins
  <2> DEFINE q == answer.request
             m == MatchingRules(added, q)
  <2>1. added \in Seq(AllRules) /\ answer.policy = PolicyDecision(q)
        BY DEF PolicyInv, RulesInv, AnswerInv
  <2>2. Matching(q) = m
        BY DEF Matching, MatchingRules
  <2>3. SUFFICES answer.policy =
                   IF m = {} THEN "require_approval"
                   ELSE added[CHOOSE i \in m : \A j \in m : Precedes(i, j)].decision
        BY <2>2 DEF Precedes
  <2>4. \A k \in m : k \in Int /\ added[k].priority \in Int
    <3> TAKE k \in m
    <3>1. k \in 1 .. Len(added)
          BY <2>1 DEF MatchingRules
    <3>2. added[k] \in AllRules
          BY <2>1, <3>1
    <3> QED BY <3>1, <3>2, RulesType
  <2>5. CASE m = {}
        BY <2>1, <2>5, FirstWins
  <2>6. CASE m # {}
    <3>1. PICK k \in m : /\ PolicyDecision(q) = added[k].decision
                         /\ \A j \in m : Precedes(k, j)
          BY <2>6, FirstWins
    <3> HIDE DEF m, q
    <3>2. ASSUME NEW i \in m, \A j \in m : Precedes(i, j)
          PROVE  i = k
          BY <2>4, <3>1, <3>2 DEF Precedes
    <3>3. (CHOOSE i \in m : \A j \in m : Precedes(i, j)) = k
          BY <3>1, <3>2
    <3> QED BY <2>1, <2>6, <3>1, <3>3
  <2> QED BY <2>5, <2>6
<1> QED BY <1>1, PolicyAlways, PTL

-----------------------------------------------------------------------------
(* Requests and the default rules.                                         *)

Types == {"file", "email", "api", "payment", "database", "security_scan"}

Verbs == {"read", "write", "append", "delete", "send", "GET", "POST", "PUT", "PATCH",
          "DELETE", "transfer", "refund", "query", "SELECT", "INSERT", "UPDATE", "DROP",
          "run_scan", "access_results"}

RequestType ==
    [type : Types, op : Verbs,
     tool : {"plain", "config", "financial", "production"}, secrets : 0 .. 8,
     exposed : BOOLEAN, scope : {"single", "global"}, permission : {"user", "system"},
     external : {{}, {TRUE}, {FALSE}}, mentioned : BOOLEAN,
     amount : {{}} \cup {{n} : n \in Nat}]

LEMMA OperationsAre ==
    /\ Operations["file"] = {"read", "write", "append", "delete"}
    /\ Operations["email"] = {"send", "read", "delete"}
    /\ Operations["api"] = {"GET", "POST", "PUT", "PATCH", "DELETE"}
    /\ Operations["payment"] = {"transfer", "refund", "query"}
    /\ Operations["database"] = {"SELECT", "INSERT", "UPDATE", "DELETE", "DROP"}
    /\ Operations["security_scan"] = {"run_scan", "access_results"}
<1>1. /\ Operations["file"] = {"read", "write", "append", "delete"}
      /\ Operations["email"] = {"send", "read", "delete"}
      /\ Operations["api"] = {"GET", "POST", "PUT", "PATCH", "DELETE"}
      /\ Operations["payment"] = {"transfer", "refund", "query"}
      BY DEF Operations
<1>2. /\ Operations["database"] = {"SELECT", "INSERT", "UPDATE", "DELETE", "DROP"}
      /\ Operations["security_scan"] = {"run_scan", "access_results"}
      BY DEF Operations
<1> QED BY <1>1, <1>2

LEMMA OperationsType ==
    /\ DOMAIN Operations = Types
    /\ \A type \in Types : Operations[type] \subseteq Verbs
<1>1. DOMAIN Operations = Types
      BY DEF Operations, Types
<1>2. ASSUME NEW type \in Types
      PROVE  Operations[type] \subseteq Verbs
  <2>1. CASE type = "file"
        BY <2>1, OperationsAre DEF Verbs
  <2>2. CASE type = "email"
        BY <2>2, OperationsAre DEF Verbs
  <2>3. CASE type = "api"
        BY <2>3, OperationsAre DEF Verbs
  <2>4. CASE type = "payment"
        BY <2>4, OperationsAre DEF Verbs
  <2>5. CASE type = "database"
        BY <2>5, OperationsAre DEF Verbs
  <2>6. CASE type = "security_scan"
        BY <2>6, OperationsAre DEF Verbs
  <2> QED BY <2>1, <2>2, <2>3, <2>4, <2>5, <2>6 DEF Types
<1> QED BY <1>1, <1>2

LEMMA PlainType ==
    ASSUME NEW type \in Types, NEW op \in Verbs
    PROVE  Plain(type, op) \in RequestType
BY DEF Plain, RequestType

\* The parts of Requests.
Transfers == {[q EXCEPT !.amount = a] : q \in {Plain("payment", "transfer")},
                 a \in {{0}, {50}, {500}, {5000}, {60000}}}
Worst(q) == [q EXCEPT !.tool = SensitiveTool(q.type), !.secrets = 8,
               !.exposed = TRUE, !.scope = "global",
               !.permission = "system", !.external = {TRUE}]

LEMMA PartsOfRequests ==
    Requests = Base \cup Transfers \cup {Worst(q) : q \in Base \cup Transfers}
               \cup {Worsen(q, w) : q \in Base, w \in {"tool", "external", "mentioned"}}
               \cup {[Plain("email", "send") EXCEPT !.external = {FALSE}],
                     [Plain("file", "write") EXCEPT !.tool = "production"]}
BY DEF Requests, Transfers, Worst

LEMMA FieldTypes ==
    ASSUME NEW q \in RequestType
    PROVE  /\ \A v \in {"plain", "config", "financial", "production"} :
                 [q EXCEPT !.tool = v] \in RequestType
           /\ \A v \in 0 .. 8 : [q EXCEPT !.secrets = v] \in RequestType
           /\ [q EXCEPT !.exposed = TRUE] \in RequestType
           /\ [q EXCEPT !.scope = "global"] \in RequestType
           /\ [q EXCEPT !.permission = "system"] \in RequestType
           /\ \A v \in {{}, {TRUE}, {FALSE}} : [q EXCEPT !.external = v] \in RequestType
           /\ [q EXCEPT !.mentioned = TRUE] \in RequestType
           /\ \A n \in Nat : [q EXCEPT !.amount = {n}] \in RequestType
<1>1. \A v \in {"plain", "config", "financial", "production"} :
         [q EXCEPT !.tool = v] \in RequestType
      BY DEF RequestType
<1>2. \A v \in 0 .. 8 : [q EXCEPT !.secrets = v] \in RequestType
      BY DEF RequestType
<1>3. [q EXCEPT !.exposed = TRUE] \in RequestType
      BY DEF RequestType
<1>4. [q EXCEPT !.scope = "global"] \in RequestType
      BY DEF RequestType
<1>5. [q EXCEPT !.permission = "system"] \in RequestType
      BY DEF RequestType
<1>6. \A v \in {{}, {TRUE}, {FALSE}} : [q EXCEPT !.external = v] \in RequestType
      BY DEF RequestType
<1>7. \A n \in Nat : [q EXCEPT !.amount = {n}] \in RequestType
      BY DEF RequestType
<1>8. [q EXCEPT !.mentioned = TRUE] \in RequestType
      BY DEF RequestType
<1> QED BY <1>1, <1>2, <1>3, <1>4, <1>5, <1>6, <1>7, <1>8

LEMMA WorsenType ==
    ASSUME NEW q \in RequestType
    PROVE  /\ \A w \in Worsenings : Worsen(q, w) \in RequestType
           /\ Worst(q) \in RequestType
<1>1. SensitiveTool(q.type) \in {"plain", "config", "financial", "production"}
      BY DEF SensitiveTool
<1>2. ASSUME NEW w \in Worsenings
      PROVE  Worsen(q, w) \in RequestType
  <2>1. CASE w = "tool"
    <3>1. Worsen(q, w) = [q EXCEPT !.tool = SensitiveTool(q.type)]
          BY <2>1 DEF Worsen
    <3> QED BY <1>1, <3>1, FieldTypes
  <2>2. CASE w = "secrets"
    <3>1. Worsen(q, w) = [q EXCEPT !.secrets = 8] /\ 8 \in 0 .. 8
          BY <2>2 DEF Worsen
    <3> QED BY <3>1, FieldTypes
  <2>3. CASE w = "exposed"
        BY <2>3, FieldTypes DEF Worsen
  <2>4. CASE w = "scope"
        BY <2>4, FieldTypes DEF Worsen
  <2>5. CASE w = "permission"
        BY <2>5, FieldTypes DEF Worsen
  <2>6. CASE w = "external"
    <3>1. Worsen(q, w) = [q EXCEPT !.external = {TRUE}]
          BY <2>6 DEF Worsen
    <3> QED BY <3>1, FieldTypes
  <2>7. CASE w = "mentioned"
        BY <2>7, FieldTypes DEF Worsen
  <2> QED BY <2>1, <2>2, <2>3, <2>4, <2>5, <2>6, <2>7 DEF Worsenings
<1>3. Worst(q) \in RequestType
  <2> DEFINE a == [q EXCEPT !.tool = SensitiveTool(q.type)]
             b == [a EXCEPT !.secrets = 8]
             c == [b EXCEPT !.exposed = TRUE]
             d == [c EXCEPT !.scope = "global"]
             e == [d EXCEPT !.permission = "system"]
             f == [e EXCEPT !.external = {TRUE}]
  <2>1. Worst(q) = f
        BY DEF Worst
  <2>2. a \in RequestType
        BY <1>1, FieldTypes
  <2> HIDE DEF a
  <2>3. b \in RequestType
    <3>1. 8 \in 0 .. 8
          OBVIOUS
    <3> QED BY <2>2, <3>1, FieldTypes
  <2> HIDE DEF b
  <2>4. c \in RequestType
        BY <2>3, FieldTypes
  <2> HIDE DEF c
  <2>5. d \in RequestType
        BY <2>4, FieldTypes
  <2> HIDE DEF d
  <2>6. e \in RequestType
        BY <2>5, FieldTypes
  <2> HIDE DEF e
  <2>7. f \in RequestType
        BY <2>6, FieldTypes
  <2> QED BY <2>1, <2>7
<1> QED BY <1>2, <1>3

LEMMA RequestsTyped == Requests \subseteq RequestType
<1>1. Base \subseteq RequestType
  <2> SUFFICES ASSUME NEW q \in Base PROVE q \in RequestType
      OBVIOUS
  <2>1. PICK type \in DOMAIN Operations : q \in {Plain(type, op) : op \in Operations[type]}
        BY DEF Base
  <2>2. PICK op \in Operations[type] : q = Plain(type, op)
        BY <2>1
  <2>3. type \in Types /\ op \in Verbs
        BY OperationsType
  <2> QED BY <2>2, <2>3, PlainType
<1>2. Transfers \subseteq RequestType
  <2>1. Plain("payment", "transfer") \in RequestType
    <3>1. "payment" \in Types /\ "transfer" \in Verbs
          BY DEF Types, Verbs
    <3> QED BY <3>1, PlainType
  <2>2. \A n \in Nat : [Plain("payment", "transfer") EXCEPT !.amount = {n}] \in RequestType
        BY <2>1, FieldTypes
  <2>3. \A t \in Transfers : \E n \in Nat :
           t = [Plain("payment", "transfer") EXCEPT !.amount = {n}]
        BY DEF Transfers
  <2> HIDE DEF RequestType
  <2> QED BY <2>2, <2>3
<1>3. {Worst(q) : q \in Base \cup Transfers} \subseteq RequestType
      BY <1>1, <1>2, WorsenType
<1>4. {Worsen(q, w) : q \in Base, w \in {"tool", "external", "mentioned"}} \subseteq RequestType
  <2>1. {"tool", "external", "mentioned"} \subseteq Worsenings
        BY DEF Worsenings
  <2> SUFFICES ASSUME NEW q \in Base, NEW w \in {"tool", "external", "mentioned"}
               PROVE  Worsen(q, w) \in RequestType
      OBVIOUS
  <2> QED BY <1>1, <2>1, WorsenType
<1>5. [Plain("email", "send") EXCEPT !.external = {FALSE}] \in RequestType
  <2>1. "email" \in Types /\ "send" \in Verbs
        BY DEF Types, Verbs
  <2>2. Plain("email", "send") \in RequestType
        BY <2>1, PlainType
  <2> QED BY <2>2, FieldTypes
<1>6. [Plain("file", "write") EXCEPT !.tool = "production"] \in RequestType
  <2>1. "file" \in Types /\ "write" \in Verbs
        BY DEF Types, Verbs
  <2>2. Plain("file", "write") \in RequestType
        BY <2>1, PlainType
  <2> QED BY <2>2, FieldTypes
<1>7. {[Plain("email", "send") EXCEPT !.external = {FALSE}],
       [Plain("file", "write") EXCEPT !.tool = "production"]} \subseteq RequestType
      BY <1>5, <1>6
<1> DEFINE worst == {Worst(q) : q \in Base \cup Transfers}
           worse == {Worsen(q, w) : q \in Base, w \in {"tool", "external", "mentioned"}}
           others == {[Plain("email", "send") EXCEPT !.external = {FALSE}],
                      [Plain("file", "write") EXCEPT !.tool = "production"]}
<1>8. Requests = Base \cup Transfers \cup worst \cup worse \cup others
      BY PartsOfRequests
<1>9. worst \subseteq RequestType /\ worse \subseteq RequestType /\ others \subseteq RequestType
      BY <1>3, <1>4, <1>7
<1> HIDE DEF worst, worse, others
<1> QED BY <1>1, <1>2, <1>8, <1>9

At(q, type, op) == q.type = type /\ q.op = op

LEMMA IsHolds ==
    ASSUME NEW q, NEW type, NEW op
    PROVE  Holds(Is(type, op), q) <=> At(q, type, op)
<1>1. /\ DOMAIN Is(type, op) = {"action_type", "operation"}
      /\ Is(type, op)["action_type"] = [eq |-> type]
      /\ Is(type, op)["operation"] = [eq |-> op]
      BY DEF Is
<1>2. \A x : DOMAIN [eq |-> x] = {"eq"} /\ [eq |-> x]["eq"] = x
      OBVIOUS
<1>3. /\ OperatorHolds("eq", Field(q, "action_type"), type) <=> q.type = type
      /\ OperatorHolds("eq", Field(q, "operation"), op) <=> q.op = op
      BY DEF OperatorHolds, Field
<1>4. Holds(Is(type, op), q) <=> FieldsHold(Is(type, op), q)
      BY <1>1 DEF Holds
<1>5. FieldsHold(Is(type, op), q) <=> At(q, type, op)
      BY <1>1, <1>2, <1>3 DEF FieldsHold, At
<1> QED BY <1>4, <1>5

LEMMA WithHolds ==
    ASSUME NEW q, NEW type, NEW op, NEW operators,
           NEW path \in {"tool_name", "parameters.external", "parameters.amount"}
    PROVE  Holds(With(Is(type, op), path, operators), q) <=>
              /\ At(q, type, op)
              /\ \A o \in DOMAIN operators : OperatorHolds(o, Field(q, path), operators[o])
<1> DEFINE c == With(Is(type, op), path, operators)
<1>1. /\ DOMAIN Is(type, op) = {"action_type", "operation"}
      /\ Is(type, op)["action_type"] = [eq |-> type]
      /\ Is(type, op)["operation"] = [eq |-> op]
      BY DEF Is
<1>2. /\ DOMAIN c = {"action_type", "operation", path}
      /\ c["action_type"] = [eq |-> type]
      /\ c["operation"] = [eq |-> op]
      /\ c[path] = operators
      BY <1>1 DEF With
<1> HIDE DEF c
<1>3. \A x : DOMAIN [eq |-> x] = {"eq"} /\ [eq |-> x]["eq"] = x
      OBVIOUS
<1>4. /\ OperatorHolds("eq", Field(q, "action_type"), type) <=> q.type = type
      /\ OperatorHolds("eq", Field(q, "operation"), op) <=> q.op = op
      BY DEF OperatorHolds, Field
<1>5. Holds(c, q) <=> FieldsHold(c, q)
      BY <1>2 DEF Holds
<1>6. FieldsHold(c, q) <=>
         /\ At(q, type, op)
         /\ \A o \in DOMAIN operators : OperatorHolds(o, Field(q, path), operators[o])
      BY <1>2, <1>3, <1>4 DEF FieldsHold, At
<1> QED BY <1>5, <1>6 DEF c

\* The condition of a default rule holds.
Asks(i, q) == Holds(DefaultPolicies[i].condition, q)

LEMMA DefaultConditions ==
    /\ DefaultPolicies[1].condition = Is("file", "read")
    /\ DefaultPolicies[2].condition = With(Is("file", "write"),
            "tool_name", [regex |-> "production"])
    /\ DefaultPolicies[3].condition = Is("file", "delete")
    /\ DefaultPolicies[4].condition = Transfer([lte |-> 100])
    /\ DefaultPolicies[5].condition = Transfer([gt |-> 100, lte |-> 1000])
    /\ DefaultPolicies[6].condition = Transfer([gt |-> 1000, lte |-> 50000])
    /\ DefaultPolicies[7].condition = Transfer([gt |-> 50000])
    /\ DefaultPolicies[8].condition = Is("api", "GET")
    /\ DefaultPolicies[9].condition = Is("api", "POST")
    /\ DefaultPolicies[10].condition = Is("api", "DELETE")
    /\ DefaultPolicies[11].condition = Is("database", "SELECT")
    /\ DefaultPolicies[12].condition = Is("database", "INSERT")
    /\ DefaultPolicies[13].condition = Is("database", "UPDATE")
    /\ DefaultPolicies[14].condition = Is("database", "DELETE")
    /\ DefaultPolicies[15].condition = Is("database", "DROP")
    /\ DefaultPolicies[16].condition = Mail(FALSE)
    /\ DefaultPolicies[17].condition = Mail(TRUE)
    /\ DefaultPolicies[18].condition = Is("security_scan", "run_scan")
    /\ DefaultPolicies[19].condition = Is("security_scan", "access_results")
    /\ DefaultPolicies[20].condition = Is("payment", "refund")
    /\ DefaultPolicies[21].condition = Is("api", "PUT")
    /\ DefaultPolicies[22].condition = Is("api", "PATCH")
    /\ DefaultPolicies[23].condition = With(Is("database", "INSERT"),
            "tool_name", [regex |-> "production"])
<1>1. /\ DefaultPolicies[1].condition = Is("file", "read")
      /\ DefaultPolicies[2].condition = With(Is("file", "write"),
              "tool_name", [regex |-> "production"])
      /\ DefaultPolicies[3].condition = Is("file", "delete")
      /\ DefaultPolicies[4].condition = Transfer([lte |-> 100])
      /\ DefaultPolicies[5].condition = Transfer([gt |-> 100, lte |-> 1000])
      /\ DefaultPolicies[6].condition = Transfer([gt |-> 1000, lte |-> 50000])
      /\ DefaultPolicies[7].condition = Transfer([gt |-> 50000])
      /\ DefaultPolicies[8].condition = Is("api", "GET")
      BY DEF DefaultPolicies, Rule
<1>2. /\ DefaultPolicies[9].condition = Is("api", "POST")
      /\ DefaultPolicies[10].condition = Is("api", "DELETE")
      /\ DefaultPolicies[11].condition = Is("database", "SELECT")
      /\ DefaultPolicies[12].condition = Is("database", "INSERT")
      BY DEF DefaultPolicies, Rule
<1>3. /\ DefaultPolicies[13].condition = Is("database", "UPDATE")
      /\ DefaultPolicies[14].condition = Is("database", "DELETE")
      /\ DefaultPolicies[15].condition = Is("database", "DROP")
      /\ DefaultPolicies[18].condition = Is("security_scan", "run_scan")
      BY DEF DefaultPolicies, Rule
<1>4. /\ DefaultPolicies[16].condition = Mail(FALSE)
      /\ DefaultPolicies[17].condition = Mail(TRUE)
      BY DEF DefaultPolicies, Rule, Mail
<1>5. /\ DefaultPolicies[19].condition = Is("security_scan", "access_results")
      /\ DefaultPolicies[20].condition = Is("payment", "refund")
      /\ DefaultPolicies[21].condition = Is("api", "PUT")
      /\ DefaultPolicies[22].condition = Is("api", "PATCH")
      BY DEF DefaultPolicies, Rule
<1>6. /\ DefaultPolicies[23].condition = With(Is("database", "INSERT"),
              "tool_name", [regex |-> "production"])
      BY DEF DefaultPolicies, Rule
<1> QED BY <1>1, <1>2, <1>3, <1>4, <1>5, <1>6

LEMMA DefaultsSeq == DefaultPolicies \in Seq(AllRules)
<1>1. DefaultPolicies = [i \in 1 .. 23 |-> DefaultPolicies[i]]
      BY DEF DefaultPolicies
<1>2. \A i \in 1 .. 23 : DefaultPolicies[i] \in AllRules
      BY DefaultsType DEF AllRules
<1>3. DefaultPolicies \in [1 .. 23 -> AllRules]
      BY <1>1, <1>2
<1> QED BY <1>3, SeqDef

LEMMA DefaultDecisions ==
    /\ \A i \in {2, 5, 9, 12, 13, 17, 20, 21, 22} :
          DefaultPolicies[i].decision = "require_approval"
    /\ \A i \in {3, 7, 10, 14, 15} : DefaultPolicies[i].decision = "deny"
    /\ \A i \in {1, 4, 8, 11, 16, 18, 19} : DefaultPolicies[i].decision = "allow"
    /\ \A i \in {6, 23} : DefaultPolicies[i].decision = "quarantine"
    /\ DefaultPolicies[12].priority = 51 /\ DefaultPolicies[23].priority = 55
    /\ \A i \in 1 .. 23 : DefaultPolicies[i].enabled
<1>1. \A i \in {2, 5, 9, 12, 13, 17, 20, 21, 22} :
         DefaultPolicies[i].decision = "require_approval"
      BY DEF DefaultPolicies, Rule
<1>2. \A i \in {3, 7, 10, 14, 15} : DefaultPolicies[i].decision = "deny"
      BY DEF DefaultPolicies, Rule
<1>3. \A i \in {1, 4, 8, 11, 16, 18, 19} : DefaultPolicies[i].decision = "allow"
      BY DEF DefaultPolicies, Rule
<1>4. \A i \in {6, 23} : DefaultPolicies[i].decision = "quarantine"
      BY DEF DefaultPolicies, Rule
<1>5. DefaultPolicies[12].priority = 51 /\ DefaultPolicies[23].priority = 55
      BY DEF DefaultPolicies, Rule
<1>6. \A i \in 1 .. 23 : DefaultPolicies[i].enabled
      BY DEF DefaultPolicies, Rule
<1> QED BY <1>1, <1>2, <1>3, <1>4, <1>5, <1>6

\* What the other forms of condition ask.
LEMMA ToolHolds ==
    ASSUME NEW q, NEW type, NEW op, NEW word
    PROVE  Holds(With(Is(type, op), "tool_name", [regex |-> word]), q)
              <=> At(q, type, op) /\ q.tool = word
<1>1. DOMAIN [regex |-> word] = {"regex"} /\ [regex |-> word]["regex"] = word
      OBVIOUS
<1>2. OperatorHolds("regex", Field(q, "tool_name"), word) <=> q.tool = word
      BY DEF OperatorHolds, Field
<1>3. Holds(With(Is(type, op), "tool_name", [regex |-> word]), q)
         <=> /\ At(q, type, op)
             /\ \A o \in DOMAIN [regex |-> word] :
                   OperatorHolds(o, Field(q, "tool_name"), [regex |-> word][o])
      BY WithHolds
<1> QED BY <1>1, <1>2, <1>3

LEMMA MailHolds ==
    ASSUME NEW q, NEW value
    PROVE  Holds(Mail(value), q) <=> At(q, "email", "send") /\ q.external = {value}
<1>1. DOMAIN [eq |-> value] = {"eq"} /\ [eq |-> value]["eq"] = value
      OBVIOUS
<1>2. OperatorHolds("eq", Field(q, "parameters.external"), value) <=> q.external = {value}
      BY DEF OperatorHolds, Field
<1>3. Holds(With(Is("email", "send"), "parameters.external", [eq |-> value]), q)
         <=> /\ At(q, "email", "send")
             /\ \A o \in DOMAIN [eq |-> value] :
                   OperatorHolds(o, Field(q, "parameters.external"), [eq |-> value][o])
      BY WithHolds
<1> QED BY <1>1, <1>2, <1>3 DEF Mail

LEMMA TransferHolds ==
    ASSUME NEW q, NEW operators
    PROVE  Holds(Transfer(operators), q)
              <=> /\ At(q, "payment", "transfer")
                  /\ \A o \in DOMAIN operators : OperatorHolds(o, q.amount, operators[o])
<1>1. Field(q, "parameters.amount") = q.amount
      BY DEF Field
<1>2. Holds(With(Is("payment", "transfer"), "parameters.amount", operators), q)
         <=> /\ At(q, "payment", "transfer")
             /\ \A o \in DOMAIN operators :
                   OperatorHolds(o, Field(q, "parameters.amount"), operators[o])
      BY WithHolds
<1> QED BY <1>1, <1>2 DEF Transfer

LEMMA Compared ==
    ASSUME NEW q, NEW n
    PROVE  /\ OperatorHolds("lte", q.amount, n) <=> \E v \in q.amount : v <= n
           /\ OperatorHolds("gt", q.amount, n) <=> \E v \in q.amount : v > n
BY DEF OperatorHolds

LEMMA AtMostHolds ==
    ASSUME NEW q, NEW n
    PROVE  Holds(Transfer([lte |-> n]), q)
              <=> At(q, "payment", "transfer") /\ \E v \in q.amount : v <= n
<1>1. DOMAIN [lte |-> n] = {"lte"} /\ [lte |-> n]["lte"] = n
      OBVIOUS
<1> QED BY TransferHolds, Compared, <1>1

LEMMA AboveHolds ==
    ASSUME NEW q, NEW n
    PROVE  Holds(Transfer([gt |-> n]), q)
              <=> At(q, "payment", "transfer") /\ \E v \in q.amount : v > n
<1>1. DOMAIN [gt |-> n] = {"gt"} /\ [gt |-> n]["gt"] = n
      OBVIOUS
<1> QED BY TransferHolds, Compared, <1>1

LEMMA BetweenHolds ==
    ASSUME NEW q, NEW n, NEW m
    PROVE  Holds(Transfer([gt |-> n, lte |-> m]), q)
              <=> /\ At(q, "payment", "transfer")
                  /\ \E v \in q.amount : v > n
                  /\ \E v \in q.amount : v <= m
<1> DEFINE f == [gt |-> n, lte |-> m]
<1>1. DOMAIN f = {"gt", "lte"} /\ f["gt"] = n /\ f["lte"] = m
      OBVIOUS
<1> HIDE DEF f
<1>2. Holds(Transfer(f), q) <=> /\ At(q, "payment", "transfer")
                                /\ \E v \in q.amount : v > n
                                /\ \E v \in q.amount : v <= m
      BY TransferHolds, Compared, <1>1
<1> QED BY <1>2 DEF f

LEMMA FileRules ==
    ASSUME NEW q
    PROVE  /\ Asks(1, q) <=> At(q, "file", "read")
           /\ Asks(2, q) <=> At(q, "file", "write") /\ q.tool = "production"
           /\ Asks(3, q) <=> At(q, "file", "delete")
<1>1. Asks(1, q) <=> At(q, "file", "read")
      BY IsHolds, DefaultConditions DEF Asks
<1>2. Asks(2, q) <=> At(q, "file", "write") /\ q.tool = "production"
      BY ToolHolds, DefaultConditions DEF Asks
<1>3. Asks(3, q) <=> At(q, "file", "delete")
      BY IsHolds, DefaultConditions DEF Asks
<1> QED BY <1>1, <1>2, <1>3

LEMMA PaymentRules ==
    ASSUME NEW q
    PROVE  /\ Asks(4, q) <=> /\ At(q, "payment", "transfer")
                             /\ (\E v \in q.amount : v <= 100)
           /\ Asks(5, q) <=> /\ At(q, "payment", "transfer")
                             /\ (\E v \in q.amount : v > 100)
                             /\ (\E v \in q.amount : v <= 1000)
           /\ Asks(6, q) <=> /\ At(q, "payment", "transfer")
                             /\ (\E v \in q.amount : v > 1000)
                             /\ (\E v \in q.amount : v <= 50000)
           /\ Asks(7, q) <=> /\ At(q, "payment", "transfer")
                             /\ (\E v \in q.amount : v > 50000)
           /\ Asks(20, q) <=> At(q, "payment", "refund")
<1>1. Asks(4, q) <=> /\ At(q, "payment", "transfer")
                    /\ (\E v \in q.amount : v <= 100)
      BY AtMostHolds, DefaultConditions DEF Asks
<1>2. Asks(5, q) <=> /\ At(q, "payment", "transfer")
                    /\ (\E v \in q.amount : v > 100)
                    /\ (\E v \in q.amount : v <= 1000)
      BY BetweenHolds, DefaultConditions DEF Asks
<1>3. Asks(6, q) <=> /\ At(q, "payment", "transfer")
                    /\ (\E v \in q.amount : v > 1000)
                    /\ (\E v \in q.amount : v <= 50000)
      BY BetweenHolds, DefaultConditions DEF Asks
<1>4. Asks(7, q) <=> /\ At(q, "payment", "transfer")
                    /\ (\E v \in q.amount : v > 50000)
      BY AboveHolds, DefaultConditions DEF Asks
<1>5. Asks(20, q) <=> At(q, "payment", "refund")
      BY IsHolds, DefaultConditions DEF Asks
<1> QED BY <1>1, <1>2, <1>3, <1>4, <1>5

LEMMA ApiRules ==
    ASSUME NEW q
    PROVE  /\ Asks(8, q) <=> At(q, "api", "GET")
           /\ Asks(9, q) <=> At(q, "api", "POST")
           /\ Asks(10, q) <=> At(q, "api", "DELETE")
           /\ Asks(21, q) <=> At(q, "api", "PUT")
           /\ Asks(22, q) <=> At(q, "api", "PATCH")
<1>1. Asks(8, q) <=> At(q, "api", "GET")
      BY IsHolds, DefaultConditions DEF Asks
<1>2. Asks(9, q) <=> At(q, "api", "POST")
      BY IsHolds, DefaultConditions DEF Asks
<1>3. Asks(10, q) <=> At(q, "api", "DELETE")
      BY IsHolds, DefaultConditions DEF Asks
<1>4. Asks(21, q) <=> At(q, "api", "PUT")
      BY IsHolds, DefaultConditions DEF Asks
<1>5. Asks(22, q) <=> At(q, "api", "PATCH")
      BY IsHolds, DefaultConditions DEF Asks
<1> QED BY <1>1, <1>2, <1>3, <1>4, <1>5

LEMMA DatabaseRules ==
    ASSUME NEW q
    PROVE  /\ Asks(11, q) <=> At(q, "database", "SELECT")
           /\ Asks(12, q) <=> At(q, "database", "INSERT")
           /\ Asks(13, q) <=> At(q, "database", "UPDATE")
           /\ Asks(14, q) <=> At(q, "database", "DELETE")
           /\ Asks(15, q) <=> At(q, "database", "DROP")
           /\ Asks(23, q) <=> At(q, "database", "INSERT") /\ q.tool = "production"
<1>1. Asks(11, q) <=> At(q, "database", "SELECT")
      BY IsHolds, DefaultConditions DEF Asks
<1>2. Asks(12, q) <=> At(q, "database", "INSERT")
      BY IsHolds, DefaultConditions DEF Asks
<1>3. Asks(13, q) <=> At(q, "database", "UPDATE")
      BY IsHolds, DefaultConditions DEF Asks
<1>4. Asks(14, q) <=> At(q, "database", "DELETE")
      BY IsHolds, DefaultConditions DEF Asks
<1>5. Asks(15, q) <=> At(q, "database", "DROP")
      BY IsHolds, DefaultConditions DEF Asks
<1>6. Asks(23, q) <=> At(q, "database", "INSERT") /\ q.tool = "production"
      BY ToolHolds, DefaultConditions DEF Asks
<1> QED BY <1>1, <1>2, <1>3, <1>4, <1>5, <1>6

LEMMA EmailRules ==
    ASSUME NEW q
    PROVE  /\ Asks(16, q) <=> At(q, "email", "send") /\ q.external = {FALSE}
           /\ Asks(17, q) <=> At(q, "email", "send") /\ q.external = {TRUE}
<1>1. Asks(16, q) <=> At(q, "email", "send") /\ q.external = {FALSE}
  <2>1. Holds(Mail(FALSE), q) <=> At(q, "email", "send") /\ q.external = {FALSE}
        BY MailHolds
  <2>2. DefaultPolicies[16].condition = Mail(FALSE)
        BY DefaultConditions
  <2> QED BY <2>1, <2>2 DEF Asks
<1>2. Asks(17, q) <=> At(q, "email", "send") /\ q.external = {TRUE}
  <2>1. Holds(Mail(TRUE), q) <=> At(q, "email", "send") /\ q.external = {TRUE}
        BY MailHolds
  <2>2. DefaultPolicies[17].condition = Mail(TRUE)
        BY DefaultConditions
  <2> QED BY <2>1, <2>2 DEF Asks
<1> QED BY <1>1, <1>2

LEMMA ScanRules ==
    ASSUME NEW q
    PROVE  /\ Asks(18, q) <=> At(q, "security_scan", "run_scan")
           /\ Asks(19, q) <=> At(q, "security_scan", "access_results")
<1>1. Asks(18, q) <=> At(q, "security_scan", "run_scan")
      BY IsHolds, DefaultConditions DEF Asks
<1>2. Asks(19, q) <=> At(q, "security_scan", "access_results")
      BY IsHolds, DefaultConditions DEF Asks
<1> QED BY <1>1, <1>2

Binding == {2, 3, 5, 7, 9, 10, 12, 13, 14, 15, 17, 20, 21, 22}
Lenient == {1, 4, 6, 8, 11, 16, 18, 19, 23}

\* The rules that ask about a request are those about its type.
LEMMA AskedType ==
    ASSUME NEW q, NEW i \in 1 .. 23, Asks(i, q)
    PROVE  /\ i \in {1, 2, 3} <=> q.type = "file"
           /\ i \in {4, 5, 6, 7, 20} <=> q.type = "payment"
           /\ i \in {8, 9, 10, 21, 22} <=> q.type = "api"
           /\ i \in {11, 12, 13, 14, 15, 23} <=> q.type = "database"
           /\ i \in {16, 17} <=> q.type = "email"
           /\ i \in {18, 19} <=> q.type = "security_scan"
<1>1. i \in {1, 2, 3} => q.type = "file"
      BY FileRules DEF At
<1>2. i \in {4, 5, 6, 7, 20} => q.type = "payment"
      BY PaymentRules DEF At
<1>3. i \in {8, 9, 10, 21, 22} => q.type = "api"
      BY ApiRules DEF At
<1>4. i \in {11, 12, 13, 14, 15, 23} => q.type = "database"
      BY DatabaseRules DEF At
<1>5. i \in {16, 17} => q.type = "email"
      BY EmailRules DEF At
<1>6. i \in {18, 19} => q.type = "security_scan"
      BY ScanRules DEF At
<1>7. \/ i \in {1, 2, 3} \/ i \in {4, 5, 6, 7, 20} \/ i \in {8, 9, 10, 21, 22}
      \/ i \in {11, 12, 13, 14, 15, 23} \/ i \in {16, 17} \/ i \in {18, 19}
      OBVIOUS
<1> QED BY <1>1, <1>2, <1>3, <1>4, <1>5, <1>6, <1>7

\* A rule that denies or asks and one that does not hold of no request together, but
\* for the two about INSERTs.
LEMMA RulesApart ==
    ASSUME NEW q \in RequestType, NEW i \in Binding, NEW k \in Lenient,
           Asks(i, q), Asks(k, q)
    PROVE  i = 12 /\ k = 23
<1>1. /\ i \in {2, 3} => q.type = "file"
      /\ i \in {5, 7, 20} => q.type = "payment"
      /\ i \in {9, 10, 21, 22} => q.type = "api"
      /\ i \in {12, 13, 14, 15} => q.type = "database"
      /\ i = 17 => q.type = "email"
      BY AskedType DEF Binding
<1>2. CASE k = 1
  <2>1. q.type = "file" /\ q.op = "read"
        BY <1>2, FileRules DEF At
  <2>2. i \in {2, 3}
        BY <1>1, <2>1 DEF Binding
  <2> QED BY <2>1, <2>2, FileRules DEF At
<1>3. CASE k \in {4, 6}
  <2>1. q.type = "payment" /\ q.op = "transfer"
        BY <1>3, PaymentRules DEF At
  <2>2. i \in {5, 7, 20}
        BY <1>1, <2>1 DEF Binding
  <2>3. i # 20
        BY <2>1, PaymentRules DEF At
  <2>4. PICK n \in Nat : q.amount = {n}
    <3>1. (\E n \in Nat : q.amount = {n}) \/ q.amount = {}
          BY DEF RequestType
    <3>2. q.amount # {}
          BY <1>3, PaymentRules
    <3> QED BY <3>1, <3>2
  <2>5. (i = 5 => n > 100 /\ n <= 1000) /\ (i = 7 => n > 50000)
        BY <2>4, PaymentRules
  <2>6. (k = 4 => n <= 100) /\ (k = 6 => n > 1000 /\ n <= 50000)
        BY <2>4, PaymentRules
  <2> QED BY <1>3, <2>2, <2>3, <2>5, <2>6
<1>4. CASE k = 8
  <2>1. q.type = "api" /\ q.op = "GET"
        BY <1>4, ApiRules DEF At
  <2>2. i \in {9, 10, 21, 22}
        BY <1>1, <2>1 DEF Binding
  <2> QED BY <2>1, <2>2, ApiRules DEF At
<1>5. CASE k = 11
  <2>1. q.type = "database" /\ q.op = "SELECT"
        BY <1>5, DatabaseRules DEF At
  <2>2. i \in {12, 13, 14, 15}
        BY <1>1, <2>1 DEF Binding
  <2> QED BY <2>1, <2>2, DatabaseRules DEF At
<1>6. CASE k = 16
  <2>1. q.type = "email" /\ q.external = {FALSE}
        BY <1>6, EmailRules DEF At
  <2>2. i = 17
        BY <1>1, <2>1 DEF Binding
  <2>3. q.external = {TRUE}
        BY <2>2, EmailRules
  <2> QED BY <2>1, <2>3, Zenon
<1>7. CASE k \in {18, 19}
  <2>1. q.type = "security_scan"
        BY <1>7, ScanRules DEF At
  <2> QED BY <1>1, <2>1 DEF Binding
<1>8. CASE k = 23
  <2>1. q.type = "database" /\ q.op = "INSERT"
        BY <1>8, DatabaseRules DEF At
  <2>2. i \in {12, 13, 14, 15}
        BY <1>1, <2>1 DEF Binding
  <2>3. i \notin {13, 14, 15}
        BY <2>1, DatabaseRules DEF At
  <2> QED BY <1>8, <2>2, <2>3
<1> QED BY <1>2, <1>3, <1>4, <1>5, <1>6, <1>7, <1>8 DEF Lenient

\* What is allowed was not asked about and not denied by the policies.
LEMMA AllowedIsLenient ==
    ASSUME NEW p \in PolicyResults, NEW r, NEW t, Decide(p, r, t) = "allow"
    PROVE  p \in {"allow", "quarantine"}
BY DEF Decide, PolicyResults

\* Whatever part of the file was loaded, nothing is allowed that a rule of the whole
\* file denies or asks about.
THEOREM PartialLoadFailsClosedAlways == Spec => []PartialLoadFailsClosed
<1>1. PolicyInv => PartialLoadFailsClosed
  <2> SUFFICES ASSUME PolicyInv, answer # NoAnswer, added = SubSeq(DefaultPolicies, 1, loaded),
                      NEW i \in DOMAIN DefaultPolicies,
                      Holds(DefaultPolicies[i].condition, answer.request),
                      DefaultPolicies[i].decision \in {"deny", "require_approval"},
                      answer.decision = "allow"
               PROVE  FALSE
      BY DEF PartialLoadFailsClosed
  <2> DEFINE q == answer.request
             m == MatchingRules(added, q)
  <2>1. /\ rules \in Seq(AllRules) /\ added \in Seq(AllRules)
        /\ loaded \in 0 .. 23 /\ q \in RequestType
        /\ answer.policy = PolicyDecision(q)
        /\ answer.decision = Decide(answer.policy, answer.risk, answer.tier)
        BY DefaultsType, RequestsTyped DEF PolicyInv, RulesInv, SetupInv, AnswerInv
  <2>2. i \in 1 .. 23 /\ 1 .. 23 = Binding \cup Lenient
        BY DefaultsType DEF Binding, Lenient
  <2>3. i \in Binding
        BY <2>2, DefaultDecisions DEF Lenient
  <2>4. Asks(i, q)
        BY DEF Asks
  <2>5. /\ DOMAIN added = 1 .. loaded
        /\ \A k \in 1 .. loaded : k \in 1 .. 23 /\ added[k] = DefaultPolicies[k]
    <3>1. /\ Len(SubSeq(DefaultPolicies, 1, loaded)) = loaded - 1 + 1
          /\ \A k \in 1 .. loaded - 1 + 1 :
                SubSeq(DefaultPolicies, 1, loaded)[k] = DefaultPolicies[1 + k - 1]
      <4>1. /\ DefaultPolicies \in Seq(AllRules) /\ Len(DefaultPolicies) = 23
            /\ 1 \in 1 .. 23 + 1 /\ loaded \in 1 - 1 .. 23
            BY <2>1, DefaultsSeq, DefaultsType
      <4> QED BY <4>1, SubSeqProperties
    <3>2. DOMAIN added = 1 .. Len(added)
          BY <2>1
    <3> QED BY <2>1, <3>1, <3>2
  <2>6. PolicyDecision(q) \in {"allow", "quarantine"}
        BY <2>1, PolicyDecisionType, AllowedIsLenient
  <2>7. PICK k \in m : PolicyDecision(q) = added[k].decision /\ \A j \in m : Precedes(k, j)
        BY <2>6, FirstWins
  <2>8. k \in 1 .. loaded /\ k \in 1 .. 23 /\ added[k] = DefaultPolicies[k]
        BY <2>5 DEF MatchingRules
  <2>9. k \in Lenient
    <3>1. DefaultPolicies[k].decision \in {"allow", "quarantine"}
          BY <2>6, <2>7, <2>8
    <3> QED BY <2>2, <2>8, <3>1, DefaultDecisions DEF Binding
  <2>10. Asks(k, q)
         BY <2>8 DEF MatchingRules, Asks
  <2>11. i = 12 /\ k = 23
         BY <2>1, <2>3, <2>4, <2>9, <2>10, RulesApart
  <2>12. 12 \in m
    <3>1. 12 \in 1 .. loaded
          BY <2>1, <2>8, <2>11
    <3> QED BY <2>5, <2>11, <3>1, DefaultDecisions DEF MatchingRules
  <2>13. DefaultPolicies[23].priority < DefaultPolicies[12].priority
         \/ DefaultPolicies[23].priority = DefaultPolicies[12].priority
    <3>1. Precedes(23, 12)
          BY <2>7, <2>11, <2>12
    <3>2. added[23] = DefaultPolicies[23] /\ added[12] = DefaultPolicies[12]
          BY <2>5, <2>8, <2>11, <2>12 DEF MatchingRules
    <3> QED BY <3>1, <3>2 DEF Precedes
  <2> QED BY <2>13, DefaultDecisions
<1> QED BY <1>1, PolicyAlways, PTL

-----------------------------------------------------------------------------
(* The risk engine.  A request is no better than another when it is as bad in *)
(* every respect; its score is then no lower, part by part.                 *)

NoBetter(b, a) ==
    /\ b.type = a.type /\ b.op = a.op
    /\ b.tool = a.tool \/ b.tool = SensitiveTool(a.type)
    /\ a.secrets <= b.secrets
    /\ a.exposed => b.exposed
    /\ b.scope = a.scope \/ b.scope = "global"
    /\ b.permission = a.permission \/ b.permission = "system"
    /\ b.external = a.external \/ b.external = {TRUE}
    /\ a.mentioned => b.mentioned
    /\ \/ b.amount = a.amount
       \/ \E n, m \in Nat : 0 < n /\ n < m /\ a.amount = {n} /\ b.amount = {m}

LEMMA FieldsTyped ==
    ASSUME NEW q \in RequestType
    PROVE  /\ q.type \in Types /\ q.secrets \in 0 .. 8 /\ q.scope \in {"single", "global"}
           /\ q.permission \in {"user", "system"}
           /\ (\E n \in Nat : q.amount = {n}) \/ q.amount = {}
BY DEF RequestType

LEMMA LookupType ==
    ASSUME NEW table, NEW key, NEW default \in Int,
           \A k \in DOMAIN table : table[k] \in Int
    PROVE  Lookup(table, key, default) \in Int
BY DEF Lookup

\* What a request of each type is at least worth.
LEMMA SensitivityOf ==
    ASSUME NEW q
    PROVE  /\ q.type = "file" =>
                 Sensitivity(q) = AtMost(100, (IF q.tool = "config" THEN 30 ELSE 15)
                                                + 10 * q.secrets)
           /\ q.type = "email" =>
                 Sensitivity(q) = AtMost(100, (IF q.external # {} THEN 40 ELSE 20)
                                                + 10 * q.secrets)
           /\ q.type = "api" =>
                 Sensitivity(q) = AtMost(100, (IF q.tool = "financial" THEN 50 ELSE 25)
                                                + 10 * q.secrets)
           /\ q.type = "payment" => Sensitivity(q) = AtMost(100, 90 + 10 * q.secrets)
           /\ q.type = "database" =>
                 Sensitivity(q) = AtMost(100, (IF q.tool = "production" THEN 60 ELSE 35)
                                                + 10 * q.secrets)
           /\ q.type = "security_scan" => Sensitivity(q) = AtMost(100, 45 + 10 * q.secrets)
<1>1. q.type = "file" =>
         Sensitivity(q) = AtMost(100, (IF q.tool = "config" THEN 30 ELSE 15) + 10 * q.secrets)
      BY DEF Sensitivity
<1>2. q.type = "email" =>
         Sensitivity(q) = AtMost(100, (IF q.external # {} THEN 40 ELSE 20) + 10 * q.secrets)
      BY DEF Sensitivity
<1>3. q.type = "api" =>
         Sensitivity(q) = AtMost(100, (IF q.tool = "financial" THEN 50 ELSE 25)
                                        + 10 * q.secrets)
      BY DEF Sensitivity
<1>4. q.type = "payment" => Sensitivity(q) = AtMost(100, 90 + 10 * q.secrets)
      BY DEF Sensitivity
<1>5. q.type = "database" =>
         Sensitivity(q) = AtMost(100, (IF q.tool = "production" THEN 60 ELSE 35)
                                        + 10 * q.secrets)
      BY DEF Sensitivity
<1>6. q.type = "security_scan" => Sensitivity(q) = AtMost(100, 45 + 10 * q.secrets)
      BY DEF Sensitivity
<1> QED BY <1>1, <1>2, <1>3, <1>4, <1>5, <1>6

LEMMA SensitivityGrows ==
    ASSUME NEW a \in RequestType, NEW b \in RequestType, NoBetter(b, a)
    PROVE  Sensitivity(a) \in Int /\ Sensitivity(b) \in Int
           /\ Sensitivity(a) <= Sensitivity(b)
<1>1. /\ a.type \in Types /\ b.type = a.type
      /\ a.secrets \in Nat /\ b.secrets \in Nat /\ a.secrets <= b.secrets
      /\ b.tool = a.tool \/ b.tool = SensitiveTool(a.type)
      /\ b.external = a.external \/ b.external = {TRUE}
  <2>1. a.type \in Types /\ a.secrets \in 0 .. 8 /\ b.secrets \in 0 .. 8
        BY FieldsTyped
  <2>2. a.secrets \in Nat /\ b.secrets \in Nat
        BY <2>1
  <2>3. /\ b.type = a.type /\ a.secrets <= b.secrets
        /\ b.tool = a.tool \/ b.tool = SensitiveTool(a.type)
        /\ b.external = a.external \/ b.external = {TRUE}
        BY DEF NoBetter
  <2> QED BY <2>1, <2>2, <2>3
<1> DEFINE m == 10 * a.secrets
           n == 10 * b.secrets
<1>2. m \in Nat /\ n \in Nat /\ m <= n
      BY <1>1
<1> HIDE DEF m, n
<1>3. ASSUME NEW x \in Nat, NEW y \in Nat, x <= y,
             Sensitivity(a) = AtMost(100, x + m), Sensitivity(b) = AtMost(100, y + n)
      PROVE  Sensitivity(a) \in Int /\ Sensitivity(b) \in Int
             /\ Sensitivity(a) <= Sensitivity(b)
      BY <1>2, <1>3 DEF AtMost
<1>4. CASE a.type = "file"
  <2> DEFINE v(q) == IF q.tool = "config" THEN 30 ELSE 15
  <2>1. Sensitivity(a) = AtMost(100, v(a) + m) /\ Sensitivity(b) = AtMost(100, v(b) + n)
        BY <1>1, <1>4, SensitivityOf DEF m, n
  <2>2. v(a) \in Nat /\ v(b) \in Nat /\ v(a) <= v(b)
        BY <1>1, <1>4 DEF SensitiveTool
  <2> HIDE DEF v
  <2> QED BY <1>3, <2>1, <2>2
<1>5. CASE a.type = "email"
  <2> DEFINE v(q) == IF q.external # {} THEN 40 ELSE 20
  <2>1. Sensitivity(a) = AtMost(100, v(a) + m) /\ Sensitivity(b) = AtMost(100, v(b) + n)
        BY <1>1, <1>5, SensitivityOf DEF m, n
  <2>2. v(a) \in Nat /\ v(b) \in Nat /\ v(a) <= v(b)
    <3>1. a.external # {} => b.external # {}
          BY <1>1
    <3> QED BY <3>1
  <2> HIDE DEF v
  <2> QED BY <1>3, <2>1, <2>2
<1>6. CASE a.type = "api"
  <2> DEFINE v(q) == IF q.tool = "financial" THEN 50 ELSE 25
  <2>1. Sensitivity(a) = AtMost(100, v(a) + m) /\ Sensitivity(b) = AtMost(100, v(b) + n)
        BY <1>1, <1>6, SensitivityOf DEF m, n
  <2>2. v(a) \in Nat /\ v(b) \in Nat /\ v(a) <= v(b)
        BY <1>1, <1>6 DEF SensitiveTool
  <2> HIDE DEF v
  <2> QED BY <1>3, <2>1, <2>2
<1>7. CASE a.type = "payment"
      BY <1>1, <1>3, <1>7, SensitivityOf DEF m, n
<1>8. CASE a.type = "database"
  <2> DEFINE v(q) == IF q.tool = "production" THEN 60 ELSE 35
  <2>1. Sensitivity(a) = AtMost(100, v(a) + m) /\ Sensitivity(b) = AtMost(100, v(b) + n)
        BY <1>1, <1>8, SensitivityOf DEF m, n
  <2>2. v(a) \in Nat /\ v(b) \in Nat /\ v(a) <= v(b)
        BY <1>1, <1>8 DEF SensitiveTool
  <2> HIDE DEF v
  <2> QED BY <1>3, <2>1, <2>2
<1>9. CASE a.type = "security_scan"
      BY <1>1, <1>3, <1>9, SensitivityOf DEF m, n
<1> QED BY <1>1, <1>4, <1>5, <1>6, <1>7, <1>8, <1>9 DEF Types

LEMMA ScopeGrows ==
    ASSUME NEW a \in RequestType, NEW b \in RequestType, NoBetter(b, a)
    PROVE  Scope(a) \in Int /\ Scope(b) \in Int /\ Scope(a) <= Scope(b)
<1>1. \A q : /\ q.scope = "single" => Scope(q) = 5
             /\ q.scope = "global" => Scope(q) = 95
      BY DEF Scope, Lookup
<1>2. /\ a.scope \in {"single", "global"} /\ b.scope \in {"single", "global"}
      /\ b.scope = a.scope \/ b.scope = "global"
      BY FieldsTyped DEF NoBetter
<1> QED BY <1>1, <1>2

LEMMA PermissionGrows ==
    ASSUME NEW a \in RequestType, NEW b \in RequestType, NoBetter(b, a)
    PROVE  /\ PermissionLevel(a) \in Int /\ PermissionLevel(b) \in Int
           /\ PermissionLevel(a) <= PermissionLevel(b)
<1>1. \A q : /\ q.permission = "user" => PermissionLevel(q) = 15
             /\ q.permission = "system" => PermissionLevel(q) = 90
      BY DEF PermissionLevel, Lookup
<1>2. /\ a.permission \in {"user", "system"} /\ b.permission \in {"user", "system"}
      /\ b.permission = a.permission \/ b.permission = "system"
      BY FieldsTyped DEF NoBetter
<1> QED BY <1>1, <1>2

LEMMA ReversibilitySame ==
    ASSUME NEW a \in RequestType, NEW b \in RequestType, NoBetter(b, a)
    PROVE  Reversibility(a) \in Int /\ Reversibility(b) = Reversibility(a)
<1>1. a.type \in Types /\ b.type = a.type /\ b.op = a.op
      BY FieldsTyped DEF NoBetter
<1>2. Reversibility(b) = Reversibility(a)
      BY <1>1 DEF Reversibility
<1>3. CASE a.type = "file"
  <2>1. Reversibility(a) = Lookup([delete |-> 85, write |-> 40, read |-> 5, append |-> 30],
                                  a.op, 50)
        BY <1>3 DEF Reversibility
  <2> QED BY <1>2, <2>1, LookupType
<1>4. CASE a.type = "email"
  <2>1. Reversibility(a) = Lookup([send |-> 70, read |-> 0, delete |-> 60], a.op, 50)
        BY <1>4 DEF Reversibility
  <2> QED BY <1>2, <2>1, LookupType
<1>5. CASE a.type = "api"
  <2>1. Reversibility(a) = Lookup([DELETE |-> 80, POST |-> 45, PUT |-> 40, GET |-> 5,
                                   PATCH |-> 35], a.op, 50)
        BY <1>5 DEF Reversibility
  <2> QED BY <1>2, <2>1, LookupType
<1>6. CASE a.type = "payment"
  <2>1. Reversibility(a) = Lookup([transfer |-> 90, refund |-> 50, query |-> 5], a.op, 50)
        BY <1>6 DEF Reversibility
  <2> QED BY <1>2, <2>1, LookupType
<1>7. CASE a.type = "database"
  <2>1. Reversibility(a) = Lookup([DROP |-> 95, DELETE |-> 75, UPDATE |-> 50,
                                   INSERT |-> 40, SELECT |-> 0], a.op, 50)
        BY <1>7 DEF Reversibility
  <2> QED BY <1>2, <2>1, LookupType
<1>8. CASE a.type = "security_scan"
  <2>1. Reversibility(a) = Lookup([run_scan |-> 20, access_results |-> 10], a.op, 50)
        BY <1>8 DEF Reversibility
  <2> QED BY <1>2, <2>1, LookupType
<1> QED BY <1>1, <1>2, <1>3, <1>4, <1>5, <1>6, <1>7, <1>8 DEF Types

LEMMA ExternalGrows ==
    ASSUME NEW a \in RequestType, NEW b \in RequestType, NoBetter(b, a)
    PROVE  /\ ExternalImpact(a) \in Int /\ ExternalImpact(b) \in Int
           /\ ExternalImpact(a) <= ExternalImpact(b)
<1> DEFINE v(type) == Lookup([api |-> 40, email |-> 45], type, 15)
<1>1. \A type : v(type) \in Int /\ v(type) <= 50
      BY DEF Lookup
<1>2. \A q : ExternalImpact(q) = IF q.external = {TRUE} THEN 70
                                ELSE IF q.mentioned THEN 50 ELSE v(q.type)
      BY DEF ExternalImpact
<1>3. /\ b.type = a.type /\ (b.external = a.external \/ b.external = {TRUE})
      /\ a.mentioned => b.mentioned
      BY DEF NoBetter
<1> HIDE DEF v
<1>4. a.external = {TRUE} => b.external = {TRUE}
      BY <1>3
<1> DEFINE out(q) == q.external = {TRUE}
<1>5. \A q : ExternalImpact(q) = IF out(q) THEN 70 ELSE IF q.mentioned THEN 50 ELSE v(q.type)
      BY <1>2
<1>6. out(a) => out(b)
      BY <1>4
<1> HIDE DEF out
<1> QED BY <1>1, <1>3, <1>5, <1>6

\* An amount of one coin or more by its bracket.
LEMMA Brackets ==
    ASSUME NEW q, q.type = "payment", NEW n \in Nat, 0 < n, q.amount = {n}
    PROVE  FinancialImpact(q) = IF n < 100 THEN 30 ELSE IF n < 1000 THEN 60
                                ELSE IF n < 10000 THEN 85 ELSE 100
<1> DEFINE s == q.amount
           top == 9999
           impact == CASE s \subseteq {0} -> 50
                       [] \E k \in s : k < 100 /\ k # 0 -> 30
                       [] \E k \in s : k \in 100 .. 999 -> 60
                       [] \E k \in s : k \in 1000 .. top -> 85
                       [] OTHER -> 100
<1>1. FinancialImpact(q) = impact
      BY DEF FinancialImpact
<1>2. s = {n} /\ top \in Nat /\ (n < 10000 <=> n <= top)
      OBVIOUS
<1> HIDE DEF s, top
<1>3. ~(s \subseteq {0})
      BY <1>2
<1>4. CASE n < 100
  <2>1. \E k \in s : k < 100 /\ k # 0
        BY <1>2, <1>4
  <2>2. ~(\E k \in s : k \in 100 .. 999)
        BY <1>2, <1>4
  <2>3. ~(\E k \in s : k \in 1000 .. top)
        BY <1>2, <1>4
  <2>4. impact = 30
        BY ONLY <1>3, <2>1, <2>2, <2>3
  <2> HIDE DEF impact
  <2> QED BY <1>1, <1>4, <2>4
<1>5. CASE 100 <= n /\ n < 1000
  <2>1. ~(\E k \in s : k < 100 /\ k # 0)
        BY <1>2, <1>5
  <2>2. \E k \in s : k \in 100 .. 999
        BY <1>2, <1>5
  <2>3. ~(\E k \in s : k \in 1000 .. top)
        BY <1>2, <1>5
  <2>4. impact = 60
        BY ONLY <1>3, <2>1, <2>2, <2>3
  <2> HIDE DEF impact
  <2> QED BY <1>1, <1>5, <2>4
<1>6. CASE 1000 <= n /\ n < 10000
  <2>1. ~(\E k \in s : k < 100 /\ k # 0)
        BY <1>2, <1>6
  <2>2. ~(\E k \in s : k \in 100 .. 999)
        BY <1>2, <1>6
  <2>3. \E k \in s : k \in 1000 .. top
        BY <1>2, <1>6
  <2>4. impact = 85
        BY ONLY <1>3, <2>1, <2>2, <2>3
  <2> HIDE DEF impact
  <2> QED BY <1>1, <1>6, <2>4
<1>7. CASE 10000 <= n
  <2>1. ~(\E k \in s : k < 100 /\ k # 0)
        BY <1>2, <1>7
  <2>2. ~(\E k \in s : k \in 100 .. 999)
        BY <1>2, <1>7
  <2>3. ~(\E k \in s : k \in 1000 .. top)
        BY <1>2, <1>7
  <2>4. impact = 100
        BY ONLY <1>3, <2>1, <2>2, <2>3
  <2> HIDE DEF impact
  <2> QED BY <1>1, <1>7, <2>4
<1> QED BY <1>4, <1>5, <1>6, <1>7

LEMMA FinancialGrows ==
    ASSUME NEW a \in RequestType, NEW b \in RequestType, NoBetter(b, a)
    PROVE  /\ FinancialImpact(a) \in Int /\ FinancialImpact(b) \in Int
           /\ FinancialImpact(a) <= FinancialImpact(b)
<1>1. /\ b.type = a.type
      /\ \/ b.amount = a.amount
         \/ \E n, m \in Nat : 0 < n /\ n < m /\ a.amount = {n} /\ b.amount = {m}
      BY DEF NoBetter
<1>2. CASE a.type # "payment"
      BY <1>1, <1>2 DEF FinancialImpact
<1>3. CASE a.type = "payment"
  <2>1. CASE b.amount = a.amount
    <3>1. FinancialImpact(b) = FinancialImpact(a)
          BY <1>1, <2>1 DEF FinancialImpact
    <3>2. FinancialImpact(a) \in Int
          BY DEF FinancialImpact
    <3> QED BY <3>1, <3>2
  <2>2. CASE \E n, m \in Nat : 0 < n /\ n < m /\ a.amount = {n} /\ b.amount = {m}
    <3>1. PICK n, m \in Nat : 0 < n /\ n < m /\ a.amount = {n} /\ b.amount = {m}
          BY <2>2
    <3> DEFINE v(k) == IF k < 100 THEN 30 ELSE IF k < 1000 THEN 60
                       ELSE IF k < 10000 THEN 85 ELSE 100
    <3>2. FinancialImpact(a) = v(n)
          BY <1>3, <3>1, Brackets
    <3>3. FinancialImpact(b) = v(m)
      <4>1. 0 < m /\ b.type = "payment" /\ b.amount = {m}
            BY <1>1, <1>3, <3>1
      <4> QED BY <4>1, Brackets
    <3> QED BY <3>1, <3>2, <3>3
  <2> QED BY <1>1, <2>1, <2>2
<1> QED BY <1>2, <1>3

LEMMA ExposureGrows ==
    ASSUME NEW a \in RequestType, NEW b \in RequestType, NoBetter(b, a)
    PROVE  /\ DataExposure(a) \in Int /\ DataExposure(b) \in Int
           /\ DataExposure(a) <= DataExposure(b)
<1>1. a.type \in Types /\ b.type = a.type /\ b.op = a.op /\ (a.exposed => b.exposed)
      BY FieldsTyped DEF NoBetter
<1>2. CASE a.type = "database"
      BY <1>1, <1>2 DEF DataExposure
<1>3. CASE a.type = "file"
      BY <1>1, <1>3 DEF DataExposure
<1>4. CASE a.type = "email"
      BY <1>1, <1>4 DEF DataExposure
<1>5. CASE a.type = "security_scan"
      BY <1>1, <1>5 DEF DataExposure
<1>6. CASE a.type \in {"api", "payment"}
      BY <1>1, <1>6 DEF DataExposure
<1> QED BY <1>1, <1>2, <1>3, <1>4, <1>5, <1>6 DEF Types

\* Rounding to the even neighbour keeps the order.
LEMMA RoundedGrows ==
    ASSUME NEW n \in Int, NEW m \in Int, n <= m
    PROVE  Rounded(n) \in Int /\ Rounded(m) \in Int /\ Rounded(n) <= Rounded(m)
<1> DEFINE x == n \div 100
           y == m \div 100
           r == n % 100
           s == m % 100
           up(rest, whole) == rest > 50 \/ (rest = 50 /\ whole % 2 = 1)
<1>1. /\ x \in Int /\ y \in Int /\ r \in 0 .. 99 /\ s \in 0 .. 99
      /\ n = 100 * x + r /\ m = 100 * y + s
      OBVIOUS
<1>2. /\ Rounded(n) = IF up(r, x) THEN x + 1 ELSE x
      /\ Rounded(m) = IF up(s, y) THEN y + 1 ELSE y
      BY DEF Rounded
<1> HIDE DEF x, y, r, s
<1>3. x <= y
      BY <1>1
<1>4. CASE x < y
  <2> HIDE DEF up
  <2> QED BY <1>1, <1>2, <1>4
<1>5. CASE x = y
  <2>1. r <= s
        BY <1>1, <1>5
  <2>2. up(r, x) => up(s, y)
        BY <1>1, <1>5, <2>1
  <2> HIDE DEF up
  <2> QED BY <1>1, <1>2, <1>5, <2>2
<1> QED BY <1>1, <1>3, <1>4, <1>5

LEMMA ClassGrows ==
    ASSUME NEW n \in Int, NEW m \in Int, n <= m
    PROVE  RiskLevel(Classify(n)) <= RiskLevel(Classify(m))
<1> DEFINE level(k) == IF k <= 25 THEN 0 ELSE IF k <= 50 THEN 1 ELSE IF k <= 75 THEN 2 ELSE 3
<1>1. ASSUME NEW k \in Int
      PROVE  RiskLevel(Classify(k)) = level(k)
  <2>1. CASE k <= 25
        BY <2>1 DEF RiskLevel, Classify
  <2>2. CASE 25 < k /\ k <= 50
        BY <2>2 DEF RiskLevel, Classify
  <2>3. CASE 50 < k /\ k <= 75
        BY <2>3 DEF RiskLevel, Classify
  <2>4. CASE 75 < k
        BY <2>4 DEF RiskLevel, Classify
  <2> QED BY <2>1, <2>2, <2>3, <2>4
<1>2. level(n) <= level(m)
      OBVIOUS
<1> QED BY <1>1, <1>2

LEMMA NoBetterIsNoLess ==
    ASSUME NEW a \in RequestType, NEW b \in RequestType, NoBetter(b, a)
    PROVE  ClassLevel(b) >= ClassLevel(a)
<1>1. /\ WeightedSum(a) \in Int /\ WeightedSum(b) \in Int
      /\ WeightedSum(a) <= WeightedSum(b)
  <2>1. Sensitivity(a) \in Int /\ Sensitivity(b) \in Int /\ Sensitivity(a) <= Sensitivity(b)
        BY SensitivityGrows
  <2>2. Scope(a) \in Int /\ Scope(b) \in Int /\ Scope(a) <= Scope(b)
        BY ScopeGrows
  <2>3. Reversibility(a) \in Int /\ Reversibility(b) = Reversibility(a)
        BY ReversibilitySame
  <2>4. /\ PermissionLevel(a) \in Int /\ PermissionLevel(b) \in Int
        /\ PermissionLevel(a) <= PermissionLevel(b)
        BY PermissionGrows
  <2>5. /\ ExternalImpact(a) \in Int /\ ExternalImpact(b) \in Int
        /\ ExternalImpact(a) <= ExternalImpact(b)
        BY ExternalGrows
  <2>6. /\ FinancialImpact(a) \in Int /\ FinancialImpact(b) \in Int
        /\ FinancialImpact(a) <= FinancialImpact(b)
        BY FinancialGrows
  <2>7. DataExposure(a) \in Int /\ DataExposure(b) \in Int /\ DataExposure(a) <= DataExposure(b)
        BY ExposureGrows
  <2> QED BY <2>1, <2>2, <2>3, <2>4, <2>5, <2>6, <2>7 DEF WeightedSum, HistoricalBehavior
<1>2. /\ RiskScore(a) \in Int /\ RiskScore(b) \in Int /\ RiskScore(a) <= RiskScore(b)
  <2>1. /\ Rounded(WeightedSum(a)) \in Int /\ Rounded(WeightedSum(b)) \in Int
        /\ Rounded(WeightedSum(a)) <= Rounded(WeightedSum(b))
        BY <1>1, RoundedGrows
  <2> QED BY <2>1 DEF RiskScore, AtMost
<1>3. RiskLevel(RiskClass(a)) <= RiskLevel(RiskClass(b))
      BY <1>2, ClassGrows DEF RiskClass
<1>4. \A q : RiskLevel(RiskClass(q)) \in 0 .. 3
      BY DEF RiskLevel, RiskClass, Classify
<1> QED BY <1>3, <1>4 DEF ClassLevel

LEMMA AmountType ==
    ASSUME NEW q \in RequestType, NEW n \in Nat
    PROVE  [q EXCEPT !.amount = {n}] \in RequestType
BY DEF RequestType

LEMMA WorseIsNoBetter ==
    ASSUME NEW q \in RequestType
    PROVE  /\ \A w \in Worsenings : NoBetter(Worsen(q, w), q)
           /\ \A n, m \in Nat : 0 < n /\ n < m /\ q.amount = {n} =>
                 NoBetter([q EXCEPT !.amount = {m}], q)
<1>1. q.secrets \in 0 .. 8 /\ q.secrets <= 8 /\ q.secrets <= q.secrets
      BY FieldsTyped
<1>2. ASSUME NEW w \in Worsenings
      PROVE  NoBetter(Worsen(q, w), q)
  <2>1. CASE w = "tool"
    <3>1. Worsen(q, w) = [q EXCEPT !.tool = SensitiveTool(q.type)]
          BY <2>1 DEF Worsen
    <3> QED BY <1>1, <3>1 DEF NoBetter, RequestType
  <2>2. CASE w = "secrets"
    <3>1. Worsen(q, w) = [q EXCEPT !.secrets = 8]
          BY <2>2 DEF Worsen
    <3> QED BY <1>1, <3>1 DEF NoBetter, RequestType
  <2>3. CASE w = "exposed"
    <3>1. Worsen(q, w) = [q EXCEPT !.exposed = TRUE]
          BY <2>3 DEF Worsen
    <3> QED BY <1>1, <3>1 DEF NoBetter, RequestType
  <2>4. CASE w = "scope"
    <3>1. Worsen(q, w) = [q EXCEPT !.scope = "global"]
          BY <2>4 DEF Worsen
    <3> QED BY <1>1, <3>1 DEF NoBetter, RequestType
  <2>5. CASE w = "permission"
    <3>1. Worsen(q, w) = [q EXCEPT !.permission = "system"]
          BY <2>5 DEF Worsen
    <3> QED BY <1>1, <3>1 DEF NoBetter, RequestType
  <2>6. CASE w = "external"
    <3>1. Worsen(q, w) = [q EXCEPT !.external = {TRUE}]
          BY <2>6 DEF Worsen
    <3> QED BY <1>1, <3>1 DEF NoBetter, RequestType
  <2>7. CASE w = "mentioned"
    <3>1. Worsen(q, w) = [q EXCEPT !.mentioned = TRUE]
          BY <2>7 DEF Worsen
    <3> QED BY <1>1, <3>1 DEF NoBetter, RequestType
  <2> QED BY <2>1, <2>2, <2>3, <2>4, <2>5, <2>6, <2>7 DEF Worsenings
<1>3. ASSUME NEW n \in Nat, NEW m \in Nat, 0 < n, n < m, q.amount = {n}
      PROVE  NoBetter([q EXCEPT !.amount = {m}], q)
      BY <1>1, <1>3 DEF NoBetter, RequestType
<1> QED BY <1>2, <1>3

\* A request that is worse in one respect, or moves more money, is never classified as
\* less risky, whatever its type, operation and other respects are.
THEOREM RiskGrowsAlways == Spec => []RiskGrows
<1>1. PolicyInv => RiskGrows
  <2> SUFFICES ASSUME PolicyInv, answer # NoAnswer
               PROVE  /\ \A w \in Worsenings :
                            ClassLevel(Worsen(answer.request, w)) >= ClassLevel(answer.request)
                      /\ \A a \in answer.request.amount : \A more \in {50, 500, 5000, 60000} :
                            0 < a /\ a < more =>
                                ClassLevel([answer.request EXCEPT !.amount = {more}])
                                    >= ClassLevel(answer.request)
      BY DEF RiskGrows
  <2> DEFINE q == answer.request
  <2>1. q \in RequestType
        BY RequestsTyped DEF PolicyInv, AnswerInv
  <2> HIDE DEF q
  <2>2. ASSUME NEW w \in Worsenings
        PROVE  ClassLevel(Worsen(q, w)) >= ClassLevel(q)
    <3>1. Worsen(q, w) \in RequestType /\ NoBetter(Worsen(q, w), q)
          BY <2>1, WorsenType, WorseIsNoBetter
    <3> QED BY <2>1, <3>1, NoBetterIsNoLess
  <2>3. ASSUME NEW a \in q.amount, NEW more \in {50, 500, 5000, 60000}, 0 < a, a < more
        PROVE  ClassLevel([q EXCEPT !.amount = {more}]) >= ClassLevel(q)
    <3>1. a \in Nat /\ more \in Nat /\ q.amount = {a}
          BY <2>1, FieldsTyped
    <3>2. [q EXCEPT !.amount = {more}] \in RequestType
          BY <2>1, <3>1, AmountType
    <3>3. NoBetter([q EXCEPT !.amount = {more}], q)
          BY <2>1, <2>3, <3>1, WorseIsNoBetter
    <3> QED BY <2>1, <3>2, <3>3, NoBetterIsNoLess
  <2> QED BY <2>2, <2>3 DEF q
<1> QED BY <1>1, PolicyAlways, PTL

-----------------------------------------------------------------------------
(* Every default rule but one decides some request.                        *)

OnlyAsks(k, q) == Asks(k, q) /\ \A j \in 1 .. 23 : Asks(j, q) => j = k

LEMMA DefaultNames ==
    /\ \A i \in 1 .. 22 : DefaultPolicies[i].name # "database_insert_production"
    /\ DefaultPolicies[23].name = "database_insert_production"
<1>1. \A i \in 1 .. 22 : DefaultPolicies[i].name # "database_insert_production"
      BY DEF DefaultPolicies, Rule
<1>2. DefaultPolicies[23].name = "database_insert_production"
      BY DEF DefaultPolicies, Rule
<1> QED BY <1>1, <1>2

LEMMA FileOnly ==
    ASSUME NEW q, q.type = "file"
    PROVE  /\ q.op = "read" => OnlyAsks(1, q)
           /\ q.op = "write" /\ q.tool = "production" => OnlyAsks(2, q)
           /\ q.op = "delete" => OnlyAsks(3, q)
<1>1. \A j \in 1 .. 23 : Asks(j, q) => j \in {1, 2, 3}
      BY AskedType
<1>2. ASSUME q.op = "read"
      PROVE  OnlyAsks(1, q)
  <2>1. Asks(1, q)
        BY <1>2, FileRules DEF At
  <2>2. ~Asks(2, q) /\ ~Asks(3, q)
        BY <1>2, FileRules DEF At
  <2> QED BY <1>1, <2>1, <2>2 DEF OnlyAsks
<1>3. ASSUME q.op = "write" /\ q.tool = "production"
      PROVE  OnlyAsks(2, q)
  <2>1. Asks(2, q)
        BY <1>3, FileRules DEF At
  <2>2. ~Asks(1, q) /\ ~Asks(3, q)
        BY <1>3, FileRules DEF At
  <2> QED BY <1>1, <2>1, <2>2 DEF OnlyAsks
<1>4. ASSUME q.op = "delete"
      PROVE  OnlyAsks(3, q)
  <2>1. Asks(3, q)
        BY <1>4, FileRules DEF At
  <2>2. ~Asks(1, q) /\ ~Asks(2, q)
        BY <1>4, FileRules DEF At
  <2> QED BY <1>1, <2>1, <2>2 DEF OnlyAsks
<1> QED BY <1>2, <1>3, <1>4

LEMMA PaymentOnly ==
    ASSUME NEW q, q.type = "payment"
    PROVE  /\ q.op = "transfer" /\ q.amount = {50} => OnlyAsks(4, q)
           /\ q.op = "transfer" /\ q.amount = {500} => OnlyAsks(5, q)
           /\ q.op = "transfer" /\ q.amount = {5000} => OnlyAsks(6, q)
           /\ q.op = "transfer" /\ q.amount = {60000} => OnlyAsks(7, q)
           /\ q.op = "refund" => OnlyAsks(20, q)
<1>1. \A j \in 1 .. 23 : Asks(j, q) => j \in {4, 5, 6, 7, 20}
      BY AskedType
<1>2. ASSUME q.op = "transfer" /\ q.amount = {50}
      PROVE  OnlyAsks(4, q)
  <2>1. Asks(4, q)
        BY <1>2, PaymentRules DEF At
  <2>2. ~Asks(5, q) /\ ~Asks(6, q) /\ ~Asks(7, q) /\ ~Asks(20, q)
        BY <1>2, PaymentRules DEF At
  <2> QED BY <1>1, <2>1, <2>2 DEF OnlyAsks
<1>3. ASSUME q.op = "transfer" /\ q.amount = {500}
      PROVE  OnlyAsks(5, q)
  <2>1. Asks(5, q)
        BY <1>3, PaymentRules DEF At
  <2>2. ~Asks(4, q) /\ ~Asks(6, q) /\ ~Asks(7, q) /\ ~Asks(20, q)
        BY <1>3, PaymentRules DEF At
  <2> QED BY <1>1, <2>1, <2>2 DEF OnlyAsks
<1>4. ASSUME q.op = "transfer" /\ q.amount = {5000}
      PROVE  OnlyAsks(6, q)
  <2>1. Asks(6, q)
        BY <1>4, PaymentRules DEF At
  <2>2. ~Asks(4, q) /\ ~Asks(5, q) /\ ~Asks(7, q) /\ ~Asks(20, q)
        BY <1>4, PaymentRules DEF At
  <2> QED BY <1>1, <2>1, <2>2 DEF OnlyAsks
<1>5. ASSUME q.op = "transfer" /\ q.amount = {60000}
      PROVE  OnlyAsks(7, q)
  <2>1. Asks(7, q)
        BY <1>5, PaymentRules DEF At
  <2>2. ~Asks(4, q) /\ ~Asks(5, q) /\ ~Asks(6, q) /\ ~Asks(20, q)
        BY <1>5, PaymentRules DEF At
  <2> QED BY <1>1, <2>1, <2>2 DEF OnlyAsks
<1>6. ASSUME q.op = "refund"
      PROVE  OnlyAsks(20, q)
  <2>1. Asks(20, q)
        BY <1>6, PaymentRules DEF At
  <2>2. ~Asks(4, q) /\ ~Asks(5, q) /\ ~Asks(6, q) /\ ~Asks(7, q)
        BY <1>6, PaymentRules DEF At
  <2> QED BY <1>1, <2>1, <2>2 DEF OnlyAsks
<1> QED BY <1>2, <1>3, <1>4, <1>5, <1>6

LEMMA ApiOnly ==
    ASSUME NEW q, q.type = "api"
    PROVE  /\ q.op = "GET" => OnlyAsks(8, q)
           /\ q.op = "POST" => OnlyAsks(9, q)
           /\ q.op = "DELETE" => OnlyAsks(10, q)
           /\ q.op = "PUT" => OnlyAsks(21, q)
           /\ q.op = "PATCH" => OnlyAsks(22, q)
<1>1. \A j \in 1 .. 23 : Asks(j, q) => j \in {8, 9, 10, 21, 22}
      BY AskedType
<1>2. ASSUME q.op = "GET"
      PROVE  OnlyAsks(8, q)
  <2>1. Asks(8, q)
        BY <1>2, ApiRules DEF At
  <2>2. ~Asks(9, q) /\ ~Asks(10, q) /\ ~Asks(21, q) /\ ~Asks(22, q)
        BY <1>2, ApiRules DEF At
  <2> QED BY <1>1, <2>1, <2>2 DEF OnlyAsks
<1>3. ASSUME q.op = "POST"
      PROVE  OnlyAsks(9, q)
  <2>1. Asks(9, q)
        BY <1>3, ApiRules DEF At
  <2>2. ~Asks(8, q) /\ ~Asks(10, q) /\ ~Asks(21, q) /\ ~Asks(22, q)
        BY <1>3, ApiRules DEF At
  <2> QED BY <1>1, <2>1, <2>2 DEF OnlyAsks
<1>4. ASSUME q.op = "DELETE"
      PROVE  OnlyAsks(10, q)
  <2>1. Asks(10, q)
        BY <1>4, ApiRules DEF At
  <2>2. ~Asks(8, q) /\ ~Asks(9, q) /\ ~Asks(21, q) /\ ~Asks(22, q)
        BY <1>4, ApiRules DEF At
  <2> QED BY <1>1, <2>1, <2>2 DEF OnlyAsks
<1>5. ASSUME q.op = "PUT"
      PROVE  OnlyAsks(21, q)
  <2>1. Asks(21, q)
        BY <1>5, ApiRules DEF At
  <2>2. ~Asks(8, q) /\ ~Asks(9, q) /\ ~Asks(10, q) /\ ~Asks(22, q)
        BY <1>5, ApiRules DEF At
  <2> QED BY <1>1, <2>1, <2>2 DEF OnlyAsks
<1>6. ASSUME q.op = "PATCH"
      PROVE  OnlyAsks(22, q)
  <2>1. Asks(22, q)
        BY <1>6, ApiRules DEF At
  <2>2. ~Asks(8, q) /\ ~Asks(9, q) /\ ~Asks(10, q) /\ ~Asks(21, q)
        BY <1>6, ApiRules DEF At
  <2> QED BY <1>1, <2>1, <2>2 DEF OnlyAsks
<1> QED BY <1>2, <1>3, <1>4, <1>5, <1>6

LEMMA DatabaseOnly ==
    ASSUME NEW q, q.type = "database"
    PROVE  /\ q.op = "SELECT" => OnlyAsks(11, q)
           /\ q.op = "INSERT" /\ q.tool = "plain" => OnlyAsks(12, q)
           /\ q.op = "UPDATE" => OnlyAsks(13, q)
           /\ q.op = "DELETE" => OnlyAsks(14, q)
           /\ q.op = "DROP" => OnlyAsks(15, q)
<1>1. \A j \in 1 .. 23 : Asks(j, q) => j \in {11, 12, 13, 14, 15, 23}
      BY AskedType
<1>2. ASSUME q.op = "SELECT"
      PROVE  OnlyAsks(11, q)
  <2>1. Asks(11, q)
        BY <1>2, DatabaseRules DEF At
  <2>2. ~Asks(12, q) /\ ~Asks(13, q) /\ ~Asks(14, q) /\ ~Asks(15, q) /\ ~Asks(23, q)
        BY <1>2, DatabaseRules DEF At
  <2> QED BY <1>1, <2>1, <2>2 DEF OnlyAsks
<1>3. ASSUME q.op = "INSERT" /\ q.tool = "plain"
      PROVE  OnlyAsks(12, q)
  <2>1. Asks(12, q)
        BY <1>3, DatabaseRules DEF At
  <2>2. ~Asks(11, q) /\ ~Asks(13, q) /\ ~Asks(14, q) /\ ~Asks(15, q) /\ ~Asks(23, q)
        BY <1>3, DatabaseRules DEF At
  <2> QED BY <1>1, <2>1, <2>2 DEF OnlyAsks
<1>4. ASSUME q.op = "UPDATE"
      PROVE  OnlyAsks(13, q)
  <2>1. Asks(13, q)
        BY <1>4, DatabaseRules DEF At
  <2>2. ~Asks(11, q) /\ ~Asks(12, q) /\ ~Asks(14, q) /\ ~Asks(15, q) /\ ~Asks(23, q)
        BY <1>4, DatabaseRules DEF At
  <2> QED BY <1>1, <2>1, <2>2 DEF OnlyAsks
<1>5. ASSUME q.op = "DELETE"
      PROVE  OnlyAsks(14, q)
  <2>1. Asks(14, q)
        BY <1>5, DatabaseRules DEF At
  <2>2. ~Asks(11, q) /\ ~Asks(12, q) /\ ~Asks(13, q) /\ ~Asks(15, q) /\ ~Asks(23, q)
        BY <1>5, DatabaseRules DEF At
  <2> QED BY <1>1, <2>1, <2>2 DEF OnlyAsks
<1>6. ASSUME q.op = "DROP"
      PROVE  OnlyAsks(15, q)
  <2>1. Asks(15, q)
        BY <1>6, DatabaseRules DEF At
  <2>2. ~Asks(11, q) /\ ~Asks(12, q) /\ ~Asks(13, q) /\ ~Asks(14, q) /\ ~Asks(23, q)
        BY <1>6, DatabaseRules DEF At
  <2> QED BY <1>1, <2>1, <2>2 DEF OnlyAsks
<1> QED BY <1>2, <1>3, <1>4, <1>5, <1>6

LEMMA EmailOnly ==
    ASSUME NEW q, q.type = "email"
    PROVE  /\ q.op = "send" /\ q.external = {FALSE} => OnlyAsks(16, q)
           /\ q.op = "send" /\ q.external = {TRUE} => OnlyAsks(17, q)
<1>1. \A j \in 1 .. 23 : Asks(j, q) => j \in {16, 17}
      BY AskedType
<1>2. ASSUME q.op = "send" /\ q.external = {FALSE}
      PROVE  OnlyAsks(16, q)
  <2>1. q.external # {TRUE}
        BY <1>2, Zenon
  <2>2. Asks(16, q) /\ ~Asks(17, q)
        BY <1>2, <2>1, EmailRules DEF At
  <2> QED BY <1>1, <2>2 DEF OnlyAsks
<1>3. ASSUME q.op = "send" /\ q.external = {TRUE}
      PROVE  OnlyAsks(17, q)
  <2>1. q.external # {FALSE}
        BY <1>3, Zenon
  <2>2. Asks(17, q) /\ ~Asks(16, q)
        BY <1>3, <2>1, EmailRules DEF At
  <2> QED BY <1>1, <2>2 DEF OnlyAsks
<1> QED BY <1>2, <1>3

LEMMA ScanOnly ==
    ASSUME NEW q, q.type = "security_scan"
    PROVE  /\ q.op = "run_scan" => OnlyAsks(18, q)
           /\ q.op = "access_results" => OnlyAsks(19, q)
<1>1. \A j \in 1 .. 23 : Asks(j, q) => j \in {18, 19}
      BY AskedType
<1>2. ASSUME q.op = "run_scan"
      PROVE  OnlyAsks(18, q)
  <2>1. Asks(18, q)
        BY <1>2, ScanRules DEF At
  <2>2. ~Asks(19, q)
        BY <1>2, ScanRules DEF At
  <2> QED BY <1>1, <2>1, <2>2 DEF OnlyAsks
<1>3. ASSUME q.op = "access_results"
      PROVE  OnlyAsks(19, q)
  <2>1. Asks(19, q)
        BY <1>3, ScanRules DEF At
  <2>2. ~Asks(18, q)
        BY <1>3, ScanRules DEF At
  <2> QED BY <1>1, <2>1, <2>2 DEF OnlyAsks
<1> QED BY <1>2, <1>3

LEMMA InRequests ==
    /\ Base \subseteq Requests /\ Transfers \subseteq Requests
    /\ \A q \in Base : \A w \in {"tool", "external", "mentioned"} : Worsen(q, w) \in Requests
    /\ [Plain("email", "send") EXCEPT !.external = {FALSE}] \in Requests
    /\ [Plain("file", "write") EXCEPT !.tool = "production"] \in Requests
<1> DEFINE worst == {Worst(q) : q \in Base \cup Transfers}
           worse == {Worsen(q, w) : q \in Base, w \in {"tool", "external", "mentioned"}}
           others == {[Plain("email", "send") EXCEPT !.external = {FALSE}],
                      [Plain("file", "write") EXCEPT !.tool = "production"]}
<1>1. Requests = Base \cup Transfers \cup worst \cup worse \cup others
      BY PartsOfRequests
<1>2. \A q \in Base : \A w \in {"tool", "external", "mentioned"} : Worsen(q, w) \in worse
      OBVIOUS
<1>3. /\ [Plain("email", "send") EXCEPT !.external = {FALSE}] \in others
      /\ [Plain("file", "write") EXCEPT !.tool = "production"] \in others
      OBVIOUS
<1> HIDE DEF worst, worse, others
<1> QED BY <1>1, <1>2, <1>3

LEMMA PlainRequests ==
    ASSUME NEW type \in Types, NEW op \in Operations[type]
    PROVE  /\ Plain(type, op) \in Requests
           /\ Plain(type, op).type = type /\ Plain(type, op).op = op
           /\ Plain(type, op).tool = "plain"
<1>1. Plain(type, op) \in Base
      BY OperationsType DEF Base
<1>2. Plain(type, op) \in Requests
      BY <1>1, InRequests
<1> QED BY <1>2 DEF Plain

LEMMA TransferRequests ==
    ASSUME NEW n \in {50, 500, 5000, 60000}
    PROVE  \E q \in Requests : q.type = "payment" /\ q.op = "transfer" /\ q.amount = {n}
<1> DEFINE q == [Plain("payment", "transfer") EXCEPT !.amount = {n}]
<1>1. q \in Transfers
      BY DEF Transfers
<1>2. q \in Requests
      BY <1>1, InRequests
<1>3. q.type = "payment" /\ q.op = "transfer" /\ q.amount = {n}
      BY DEF Plain
<1> HIDE DEF q
<1> QED BY <1>2, <1>3

LEMMA MailRequests ==
    /\ \E q \in Requests : q.type = "email" /\ q.op = "send" /\ q.external = {FALSE}
    /\ \E q \in Requests : q.type = "email" /\ q.op = "send" /\ q.external = {TRUE}
<1> DEFINE p == [Plain("email", "send") EXCEPT !.external = {FALSE}]
           q == Worsen(Plain("email", "send"), "external")
<1>1. p \in Requests
      BY InRequests
<1>2. p.type = "email" /\ p.op = "send" /\ p.external = {FALSE}
      BY DEF Plain
<1>3. q \in Requests
  <2>1. "send" \in Operations["email"] /\ "email" \in DOMAIN Operations
        BY OperationsAre, OperationsType DEF Types
  <2>2. Plain("email", "send") \in Base
        BY <2>1 DEF Base
  <2> QED BY <2>2, InRequests
<1>4. q.type = "email" /\ q.op = "send" /\ q.external = {TRUE}
      BY DEF Worsen, Plain
<1> HIDE DEF p, q
<1>5. \E r \in Requests : r.type = "email" /\ r.op = "send" /\ r.external = {FALSE}
      BY <1>1, <1>2
<1>6. \E r \in Requests : r.type = "email" /\ r.op = "send" /\ r.external = {TRUE}
      BY <1>3, <1>4
<1> QED BY <1>5, <1>6

LEMMA WriteRequest ==
    \E q \in Requests : q.type = "file" /\ q.op = "write" /\ q.tool = "production"
<1> DEFINE q == [Plain("file", "write") EXCEPT !.tool = "production"]
<1>1. q \in Requests
      BY InRequests
<1>2. q.type = "file" /\ q.op = "write" /\ q.tool = "production"
      BY DEF Plain
<1> QED BY <1>1, <1>2

\* Some request is asked about by that rule and by no other.
LEMMA EachIsAsked ==
    ASSUME NEW k \in 1 .. 22
    PROVE  \E q \in Requests : OnlyAsks(k, q)
<1>1. \A type \in Types : \A op \in Operations[type] :
         \E q \in Requests : q.type = type /\ q.op = op /\ q.tool = "plain"
      BY PlainRequests
<1>2. CASE k = 1
  <2>1. PICK q \in Requests : q.type = "file" /\ q.op = "read" /\ q.tool = "plain"
        BY <1>1, OperationsAre DEF Types
  <2> QED BY <1>2, <2>1, FileOnly
<1>3. CASE k = 2
      BY <1>3, WriteRequest, FileOnly
<1>4. CASE k = 3
  <2>1. PICK q \in Requests : q.type = "file" /\ q.op = "delete" /\ q.tool = "plain"
        BY <1>1, OperationsAre DEF Types
  <2> QED BY <1>4, <2>1, FileOnly
<1>5. CASE k = 4
  <2>1. PICK q \in Requests : q.type = "payment" /\ q.op = "transfer" /\ q.amount = {50}
        BY TransferRequests
  <2> QED BY <1>5, <2>1, PaymentOnly
<1>6. CASE k = 5
  <2>1. PICK q \in Requests : q.type = "payment" /\ q.op = "transfer" /\ q.amount = {500}
        BY TransferRequests
  <2> QED BY <1>6, <2>1, PaymentOnly
<1>7. CASE k = 6
  <2>1. PICK q \in Requests : q.type = "payment" /\ q.op = "transfer" /\ q.amount = {5000}
        BY TransferRequests
  <2> QED BY <1>7, <2>1, PaymentOnly
<1>8. CASE k = 7
  <2>1. PICK q \in Requests : q.type = "payment" /\ q.op = "transfer" /\ q.amount = {60000}
        BY TransferRequests
  <2> QED BY <1>8, <2>1, PaymentOnly
<1>9. CASE k = 20
  <2>1. PICK q \in Requests : q.type = "payment" /\ q.op = "refund" /\ q.tool = "plain"
        BY <1>1, OperationsAre DEF Types
  <2> QED BY <1>9, <2>1, PaymentOnly
<1>10. CASE k = 8
  <2>1. PICK q \in Requests : q.type = "api" /\ q.op = "GET" /\ q.tool = "plain"
        BY <1>1, OperationsAre DEF Types
  <2> QED BY <1>10, <2>1, ApiOnly
<1>11. CASE k = 9
  <2>1. PICK q \in Requests : q.type = "api" /\ q.op = "POST" /\ q.tool = "plain"
        BY <1>1, OperationsAre DEF Types
  <2> QED BY <1>11, <2>1, ApiOnly
<1>12. CASE k = 10
  <2>1. PICK q \in Requests : q.type = "api" /\ q.op = "DELETE" /\ q.tool = "plain"
        BY <1>1, OperationsAre DEF Types
  <2> QED BY <1>12, <2>1, ApiOnly
<1>13. CASE k = 21
  <2>1. PICK q \in Requests : q.type = "api" /\ q.op = "PUT" /\ q.tool = "plain"
        BY <1>1, OperationsAre DEF Types
  <2> QED BY <1>13, <2>1, ApiOnly
<1>14. CASE k = 22
  <2>1. PICK q \in Requests : q.type = "api" /\ q.op = "PATCH" /\ q.tool = "plain"
        BY <1>1, OperationsAre DEF Types
  <2> QED BY <1>14, <2>1, ApiOnly
<1>15. CASE k = 11
  <2>1. PICK q \in Requests : q.type = "database" /\ q.op = "SELECT" /\ q.tool = "plain"
        BY <1>1, OperationsAre DEF Types
  <2> QED BY <1>15, <2>1, DatabaseOnly
<1>16. CASE k = 12
  <2>1. PICK q \in Requests : q.type = "database" /\ q.op = "INSERT" /\ q.tool = "plain"
        BY <1>1, OperationsAre DEF Types
  <2> QED BY <1>16, <2>1, DatabaseOnly
<1>17. CASE k = 13
  <2>1. PICK q \in Requests : q.type = "database" /\ q.op = "UPDATE" /\ q.tool = "plain"
        BY <1>1, OperationsAre DEF Types
  <2> QED BY <1>17, <2>1, DatabaseOnly
<1>18. CASE k = 14
  <2>1. PICK q \in Requests : q.type = "database" /\ q.op = "DELETE" /\ q.tool = "plain"
        BY <1>1, OperationsAre DEF Types
  <2> QED BY <1>18, <2>1, DatabaseOnly
<1>19. CASE k = 15
  <2>1. PICK q \in Requests : q.type = "database" /\ q.op = "DROP" /\ q.tool = "plain"
        BY <1>1, OperationsAre DEF Types
  <2> QED BY <1>19, <2>1, DatabaseOnly
<1>20. CASE k = 16
  <2>1. PICK q \in Requests :
           q.type = "email" /\ q.op = "send" /\ q.external = {FALSE}
        BY MailRequests, Zenon
  <2>2. OnlyAsks(16, q)
        BY <2>1, EmailOnly, Zenon
  <2> QED BY <1>20, <2>2
<1>21. CASE k = 17
  <2>1. PICK q \in Requests :
           q.type = "email" /\ q.op = "send" /\ q.external = {TRUE}
        BY MailRequests, Zenon
  <2>2. OnlyAsks(17, q)
        BY <2>1, EmailOnly, Zenon
  <2> QED BY <1>21, <2>2
<1>22. CASE k = 18
  <2>1. PICK q \in Requests : q.type = "security_scan" /\ q.op = "run_scan" /\ q.tool = "plain"
        BY <1>1, OperationsAre DEF Types
  <2> QED BY <1>22, <2>1, ScanOnly
<1>23. CASE k = 19
  <2>1. PICK q \in Requests : q.type = "security_scan" /\ q.op = "access_results" /\ q.tool = "plain"
        BY <1>1, OperationsAre DEF Types
  <2> QED BY <1>23, <2>1, ScanOnly
<1> QED BY <1>2, <1>3, <1>4, <1>5, <1>6, <1>7, <1>8, <1>9, <1>10, <1>11, <1>12,
            <1>13, <1>14, <1>15, <1>16, <1>17, <1>18, <1>19, <1>20, <1>21, <1>22, <1>23

\* With the whole file in force every rule of it decides some request, but the one that
\* quarantines production INSERTs: the rule that asks about every INSERT precedes it.
THEOREM DefaultRulesDecideAlways == Spec => []DefaultRulesDecide
<1>1. PolicyInv => DefaultRulesDecide
  <2> SUFFICES ASSUME PolicyInv, added = DefaultPolicies
               PROVE  {rules[Winner(q)].name : q \in {q \in Requests : Winner(q) # 0}}
                         = Names(DefaultPolicies) \ {"database_insert_production"}
      BY DEF DefaultRulesDecide
  <2>1. \A q : MatchingRules(added, q) = {i \in 1 .. 23 : Asks(i, q)}
        BY DefaultsType, DefaultDecisions DEF MatchingRules, Asks
  <2>2. Names(DefaultPolicies) = {DefaultPolicies[i].name : i \in 1 .. 23}
        BY DefaultsType DEF Names
  <2>3. ASSUME NEW q \in Requests, Winner(q) # 0
        PROVE  \E k \in 1 .. 22 : rules[Winner(q)].name = DefaultPolicies[k].name
    <3>1. MatchingRules(added, q) # {}
          BY <2>3, FirstWins
    <3>2. PICK k \in MatchingRules(added, q) :
             /\ rules[Winner(q)] = added[k]
             /\ \A j \in MatchingRules(added, q) : Precedes(k, j)
          BY <3>1, FirstWins
    <3>3. k \in 1 .. 23 /\ Asks(k, q)
          BY <2>1, <3>2
    <3>4. ASSUME k = 23 PROVE FALSE
      <4>1. Asks(12, q)
            BY <3>3, <3>4, DatabaseRules
      <4>2. Precedes(23, 12)
            BY <2>1, <3>2, <3>4, <4>1
      <4> QED BY <4>2, DefaultDecisions DEF Precedes
    <3> QED BY <3>2, <3>3, <3>4
  <2>4. ASSUME NEW k \in 1 .. 22
        PROVE  \E q \in Requests :
                  Winner(q) # 0 /\ rules[Winner(q)].name = DefaultPolicies[k].name
    <3>1. PICK q \in Requests : OnlyAsks(k, q)
          BY EachIsAsked
    <3>2. MatchingRules(added, q) = {k}
          BY <2>1, <3>1 DEF OnlyAsks
    <3>3. PICK i \in {k} : Winner(q) # 0 /\ rules[Winner(q)] = added[i]
          BY <3>2, FirstWins
    <3> QED BY <3>3
  <2>5. Names(DefaultPolicies) \ {"database_insert_production"}
           = {DefaultPolicies[k].name : k \in 1 .. 22}
    <3>1. \A i \in 1 .. 23 : i \in 1 .. 22 \/ i = 23
          OBVIOUS
    <3>2. \A i \in 1 .. 22 : i \in 1 .. 23
          OBVIOUS
    <3> QED BY <2>2, <3>1, <3>2, DefaultNames
  <2> QED BY <2>3, <2>4, <2>5
<1> QED BY <1>1, PolicyAlways, PTL

=============================================================================
