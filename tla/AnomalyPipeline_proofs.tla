----------------------- MODULE AnomalyPipeline_proofs -----------------------
(***************************************************************************)
(* The rolling window, the delivery guarantee and the repetitions of       *)
(* AnomalyDetection, for every window size, threshold, batch size and feed *)
(* of events; then what it promises together with the Diagnosis Service.   *)
(***************************************************************************)
EXTENDS AnomalyPipeline, FiniteSetTheorems, WellFoundedInduction, TLAPS

-----------------------------------------------------------------------------
(* Sums over finite sets.  The recursive function behind MapThenSumSet is  *)
(* a CHOOSE: that it satisfies its equation, and then what it computes,    *)
(* follows from a least counterexample, which WFMin provides.              *)

LEMMA MinimalElement ==
    ASSUME NEW Less, IsWellFoundedOn(Less, Nat), NEW T, T \subseteq Nat, T # {}
    PROVE  \E n \in T : \A k \in T : ~ (<<k, n>> \in Less)
  BY WFMin, Zenon

LEMMA LeastNatural ==
    ASSUME NEW T \in SUBSET Nat, T # {}
    PROVE  \E n \in T : \A k \in T : n <= k
<1> DEFINE Less == {pair \in Nat \X Nat : pair[1] < pair[2]}
<1>1. IsWellFoundedOn(Less, Nat)
  BY NatLessThanWellFounded, Zenon DEF OpToRel
<1>2. \A k, n \in Nat : k < n => <<k, n>> \in Less
  OBVIOUS
<1> HIDE DEF Less
<1>3. T \subseteq Nat
  OBVIOUS
<1>4. \E n \in T : \A k \in T : ~ (<<k, n>> \in Less)
  BY <1>1, <1>3, MinimalElement
<1>5. PICK n \in T : \A k \in T : ~ (<<k, n>> \in Less)
  BY <1>4
<1>6. \A k \in T : n <= k
  <2> SUFFICES ASSUME NEW k \in T PROVE n <= k
    OBVIOUS
  <2>1. k \in Nat /\ n \in Nat
    OBVIOUS
  <2>2. ~ (<<k, n>> \in Less)
    BY <1>5
  <2>3. ~ (k < n)
    BY <1>2, <2>1, <2>2, Zenon
  <2>4. QED
    BY <2>1, <2>3
<1>7. QED
  BY <1>6

(* The element of s that MapThenSumSet adds first. *)
Pick(s) == CHOOSE x \in s : TRUE

LEMMA PickIsElement == \A s : s # {} => Pick(s) \in s
  BY DEF Pick

(* A weighted sum over the subsets of S can be defined by recursion.       *)
LEMMA SumExists ==
    ASSUME NEW S, IsFiniteSet(S), NEW w \in [S -> Int]
    PROVE  \E f : f = [s \in SUBSET S |->
                         IF s = {} THEN 0 ELSE w[Pick(s)] + f[s \ {Pick(s)}]]
<1> DEFINE Small(n) == {s \in SUBSET S : Cardinality(s) <= n}
           Step(f, s) == IF s = {} THEN 0 ELSE w[Pick(s)] + f[s \ {Pick(s)}]
           Bad == {n \in Nat : ~ \E f : f = [s \in Small(n) |-> Step(f, s)]}
<1>1. \A s \in SUBSET S : /\ IsFiniteSet(s) /\ Cardinality(s) \in Nat
                          /\ Cardinality(s) <= Cardinality(S)
                          /\ (s = {} <=> Cardinality(s) = 0)
  BY FS_Subset, FS_CardinalityType, FS_EmptySet
<1>2. \A s \in SUBSET S : s # {} =>
          /\ Pick(s) \in s /\ s \ {Pick(s)} \in SUBSET S
          /\ Cardinality(s \ {Pick(s)}) = Cardinality(s) - 1
  BY <1>1, PickIsElement, FS_RemoveElement
<1>3. ASSUME Bad # {} PROVE FALSE
  <2>1. PICK n \in Bad : \A k \in Bad : n <= k
    BY <1>3, LeastNatural
  <2>2. n \in Nat
    OBVIOUS
  <2>3. CASE n = 0
    <3>1. Small(0) = {{}}
      BY <1>1, FS_EmptySet
    <3> DEFINE f == [s \in Small(0) |-> 0]
    <3>2. f = [s \in Small(0) |-> Step(f, s)]
      BY <3>1
    <3> HIDE DEF f, Step
    <3>3. n \notin Bad
      BY <2>3, <3>2, Zenon
    <3>4. QED
      BY <2>1, <3>3, Zenon
  <2>4. CASE n # 0
    <3>1. n - 1 \in Nat /\ n - 1 \notin Bad
      <4>1. n - 1 \in Nat /\ ~ (n <= n - 1)
        BY <2>2, <2>4
      <4> HIDE DEF Bad
      <4>2. QED
        BY <2>1, <4>1
    <3>2. PICK g : g = [s \in Small(n - 1) |-> Step(g, s)]
      BY <3>1
    <3> DEFINE f == [s \in Small(n) |-> Step(g, s)]
    <3>3. Small(n - 1) \subseteq Small(n)
      BY <1>1, <2>2
    <3>4. \A s \in Small(n - 1) : f[s] = g[s]
      <4>1. \A s \in Small(n - 1) : g[s] = Step(g, s)
        BY <3>2, Zenon
      <4>2. QED
        BY <3>3, <4>1, Zenon
    <3>5. \A s \in Small(n) : s # {} => s \ {Pick(s)} \in Small(n - 1)
      BY <1>1, <1>2, <2>2
    <3>6. \A s \in Small(n) : Step(g, s) = Step(f, s)
      BY <3>4, <3>5
    <3>7. f = [s \in Small(n) |-> Step(f, s)]
      BY <3>6
    <3>8. QED
      BY <3>7
  <2>5. QED
    BY <2>3, <2>4
<1>4. Small(Cardinality(S)) = SUBSET S
  BY <1>1
<1>5. Cardinality(S) \in Nat
  BY FS_CardinalityType
<1>6. \E f : f = [s \in SUBSET S |-> Step(f, s)]
  <2> HIDE DEF Step, Small
  <2>1. Cardinality(S) \notin Bad
    BY <1>3
  <2>2. \E f : f = [s \in Small(Cardinality(S)) |-> Step(f, s)]
    BY <1>5, <2>1, Zenon
  <2>3. QED
    BY <1>4, <2>2, Zenon
<1>7. QED
  BY <1>6, Zenon
(* Sum is such a sum, of the values ...                                    *)
LEMMA SumEquation ==
    ASSUME NEW S \in SUBSET Readings, IsFiniteSet(S)
    PROVE  \E f : /\ f = [s \in SUBSET S |->
                             IF s = {} THEN 0 ELSE Pick(s).value + f[s \ {Pick(s)}]]
                  /\ f[S] = Sum(S)
<1> DEFINE Step(f, s) == IF s = {} THEN 0 ELSE Pick(s).value + f[s \ {Pick(s)}]
           w == [m \in S |-> m.value]
<1>1. \A m \in S : m.value \in Int
  <2>1. Values \subseteq Int
    BY AnomalyDetectionAssumption
  <2>2. \A m \in Readings : m.value \in Values
    BY DEF Readings
  <2>3. QED
    BY <2>1, <2>2
<1>2. \A s \in SUBSET S : s # {} => w[Pick(s)] = Pick(s).value
  BY PickIsElement
<1>3. \E f : f = [s \in SUBSET S |-> IF s = {} THEN 0 ELSE w[Pick(s)] + f[s \ {Pick(s)}]]
  <2>1. w \in [S -> Int]
    BY <1>1
  <2>2. \A v \in [S -> Int] : \E f : f = [s \in SUBSET S |->
                                 IF s = {} THEN 0 ELSE v[Pick(s)] + f[s \ {Pick(s)}]]
    BY SumExists, Zenon
  <2> HIDE DEF w
  <2>3. QED
    BY <2>1, <2>2, Zenon
<1>4. \E f : f = [s \in SUBSET S |-> Step(f, s)]
  <2>1. PICK f : f = [s \in SUBSET S |-> IF s = {} THEN 0 ELSE w[Pick(s)] + f[s \ {Pick(s)}]]
    BY <1>3, Zenon
  <2>2. f = [s \in SUBSET S |-> Step(f, s)]
    BY <1>2, <2>1
  <2> HIDE DEF Step
  <2>3. QED
    BY <2>2, Zenon
<1> DEFINE sum == CHOOSE f : f = [s \in SUBSET S |-> Step(f, s)]
<1>5. sum = [s \in SUBSET S |-> Step(sum, s)]
  <2> HIDE DEF Step
  <2>1. QED
    BY <1>4, Zenon
<1>6. sum[S] = Sum(S)
  BY Zenon DEF Sum, MapThenSumSet, MapThenFoldSet, Pick
<1>7. QED
  BY <1>5, <1>6, Zenon

(* ... and Squares of their squares.                                       *)
LEMMA SquaresEquation ==
    ASSUME NEW S \in SUBSET Readings, IsFiniteSet(S)
    PROVE  \E f : /\ f = [s \in SUBSET S |->
                             IF s = {} THEN 0 ELSE Pick(s).value * Pick(s).value + f[s \ {Pick(s)}]]
                  /\ f[S] = Squares(S)
<1> DEFINE Step(f, s) == IF s = {} THEN 0 ELSE Pick(s).value * Pick(s).value + f[s \ {Pick(s)}]
           w == [m \in S |-> m.value * m.value]
<1>1. \A m \in S : m.value \in Int
  <2>1. Values \subseteq Int
    BY AnomalyDetectionAssumption
  <2>2. \A m \in Readings : m.value \in Values
    BY DEF Readings
  <2>3. QED
    BY <2>1, <2>2
<1>2. \A s \in SUBSET S : s # {} => w[Pick(s)] = Pick(s).value * Pick(s).value
  BY PickIsElement
<1>3. \E f : f = [s \in SUBSET S |-> IF s = {} THEN 0 ELSE w[Pick(s)] + f[s \ {Pick(s)}]]
  <2>1. w \in [S -> Int]
    BY <1>1
  <2>2. \A v \in [S -> Int] : \E f : f = [s \in SUBSET S |->
                                 IF s = {} THEN 0 ELSE v[Pick(s)] + f[s \ {Pick(s)}]]
    BY SumExists, Zenon
  <2> HIDE DEF w
  <2>3. QED
    BY <2>1, <2>2, Zenon
<1>4. \E f : f = [s \in SUBSET S |-> Step(f, s)]
  <2>1. PICK f : f = [s \in SUBSET S |-> IF s = {} THEN 0 ELSE w[Pick(s)] + f[s \ {Pick(s)}]]
    BY <1>3, Zenon
  <2>2. f = [s \in SUBSET S |-> Step(f, s)]
    BY <1>2, <2>1
  <2> HIDE DEF Step
  <2>3. QED
    BY <2>2, Zenon
<1> DEFINE squares == CHOOSE f : f = [s \in SUBSET S |-> Step(f, s)]
<1>5. squares = [s \in SUBSET S |-> Step(squares, s)]
  <2> HIDE DEF Step
  <2>1. QED
    BY <1>4, Zenon
<1>6. squares[S] = Squares(S)
  BY Zenon DEF Squares, MapThenSumSet, MapThenFoldSet, Pick
<1>7. QED
  BY <1>5, <1>6, Zenon

-----------------------------------------------------------------------------
LEMMA SquareNonNegative == \A i \in Int : i * i \in Nat
  OBVIOUS

LEMMA CancelFactor ==
    ASSUME NEW k \in Nat, k # 0, NEW i \in Int, NEW j \in Int, k * i <= k * j
    PROVE  i <= j
<1>1. CASE i > j
  <2>1. i - j - 1 \in Nat
    BY <1>1
  <2>2. k * (i - j - 1) \in Nat
    BY <2>1
  <2>3. k * (i - j - 1) = k * i - k * j - k
    OBVIOUS
  <2>4. QED
    BY <2>2, <2>3
<1>2. QED
  BY <1>1

(* If a^2 <= k * b, one more term d keeps it so with k + 1: the step of the *)
(* Cauchy-Schwarz inequality for a sum a of k terms with squares b.        *)
LEMMA OneMoreTerm ==
    ASSUME NEW k \in Nat, NEW a \in Int, NEW b \in Int, NEW d \in Int,
           0 <= b, a * a <= k * b
    PROVE  (a + d) * (a + d) <= (k + 1) * (b + d * d)
<1> DEFINE z == k * (d * d) + b - 2 * (a * d)
<1>1. (k + 1) * (b + d * d) - (a + d) * (a + d) = (k * b - a * a) + z
  OBVIOUS
<1>2. z \in Int
  OBVIOUS
<1>3. 0 <= z
  <2>1. CASE k = 0
    <3>1. k * (d * d) = 0 /\ k * b = 0
      BY <2>1
    <3>2. a * a = 0
      BY <3>1, SquareNonNegative
    <3>3. a = 0
      <4>1. a > 0 => a * a > 0
        OBVIOUS
      <4>2. a < 0 => a * a > 0
        OBVIOUS
      <4>3. QED
        BY <3>2, <4>1, <4>2
    <3>4. QED
      BY <3>1, <3>3
  <2>2. CASE k # 0
    <3>1. k * z - (k * b - a * a) = (k * d - a) * (k * d - a)
      OBVIOUS
    <3>2. k * z \in Int /\ k * b \in Int /\ a * a \in Int
      OBVIOUS
    <3>3. k * 0 <= k * z
      <4>1. k * d - a \in Int
        OBVIOUS
      <4>2. (k * d - a) * (k * d - a) \in Nat
        BY <4>1, SquareNonNegative
      <4> HIDE DEF z
      <4>3. QED
        BY <3>1, <3>2, <4>2
    <3>4. QED
      BY <1>2, <2>2, <3>3, CancelFactor
  <2>3. QED
    BY <2>1, <2>2
<1>4. k * b \in Int /\ a * a \in Int /\ (k + 1) * (b + d * d) \in Int /\ (a + d) * (a + d) \in Int
  OBVIOUS
<1> HIDE DEF z
<1>5. QED
  BY <1>1, <1>2, <1>3, <1>4

(* The z-score of calculate_zscore (detector.py) is bounded: a reading x   *)
(* of the window differs from the mean by at most sqrt(n - 1) standard     *)
(* deviations (Samuelson).  Over s, A sums the differences from x,         *)
(* B their squares, and at most K = |s \ {x}| of them are not zero.        *)
THEOREM DeviationBound ==
    ASSUME NEW S \in SUBSET Readings, IsFiniteSet(S), NEW x \in S
    PROVE  /\ Deviation(x.value, S) \in Int /\ Spread(S) \in Int
           /\ Deviation(x.value, S) * Deviation(x.value, S) <= (Cardinality(S) - 1) * Spread(S)
           /\ 0 <= Spread(S)
<1> DEFINE v == x.value
<1>1. \A m \in S : m.value \in Int
  <2>1. Values \subseteq Int
    BY AnomalyDetectionAssumption
  <2>2. \A m \in Readings : m.value \in Values
    BY DEF Readings
  <2>3. QED
    BY <2>1, <2>2
<1>2. PICK f : /\ f = [s \in SUBSET S |-> IF s = {} THEN 0 ELSE Pick(s).value + f[s \ {Pick(s)}]]
               /\ f[S] = Sum(S)
  BY SumEquation, Zenon
<1>3. PICK g : /\ g = [s \in SUBSET S |->
                          IF s = {} THEN 0 ELSE Pick(s).value * Pick(s).value + g[s \ {Pick(s)}]]
               /\ g[S] = Squares(S)
  BY SquaresEquation, Zenon
<1>4. f[{}] = 0 /\ g[{}] = 0
  BY <1>2, <1>3
<1>5. \A s \in SUBSET S : s # {} =>
          /\ f[s] = Pick(s).value + f[s \ {Pick(s)}]
          /\ g[s] = Pick(s).value * Pick(s).value + g[s \ {Pick(s)}]
  BY <1>2, <1>3
<1>6. \A s \in SUBSET S : IsFiniteSet(s) /\ Cardinality(s) \in Nat /\ (s = {} <=> Cardinality(s) = 0)
  BY FS_Subset, FS_CardinalityType, FS_EmptySet
<1>7. \A s \in SUBSET S : \A m \in s :
          s \ {m} \in SUBSET S /\ Cardinality(s \ {m}) = Cardinality(s) - 1
  BY <1>6, FS_RemoveElement
<1> DEFINE A(s) == f[s] - Cardinality(s) * v
           B(s) == g[s] - 2 * (v * f[s]) + Cardinality(s) * (v * v)
           K(s) == Cardinality(s \ {x})
           Good(s) == /\ f[s] \in Int /\ g[s] \in Int
                      /\ 0 <= B(s) /\ A(s) * A(s) <= K(s) * B(s)
           Bad == {n \in Nat : \E s \in SUBSET S : Cardinality(s) = n /\ ~ Good(s)}
<1>8. Good({})
  BY <1>1, <1>4, FS_EmptySet
<1>9. ASSUME NEW s \in SUBSET S, s # {}, Good(s \ {Pick(s)}) PROVE Good(s)
  <2> DEFINE y == Pick(s)
             t == s \ {y}
             d == y.value - v
  <2>1. y \in s /\ y \in S /\ t \in SUBSET S /\ Cardinality(t) = Cardinality(s) - 1
    BY <1>7, <1>9, PickIsElement
  <2>2. v \in Int /\ y.value \in Int /\ d \in Int
    BY <1>1, <2>1
  <2>3. f[s] = y.value + f[t] /\ g[s] = y.value * y.value + g[t]
    BY <1>5, <1>9
  <2>4. f[t] \in Int /\ g[t] \in Int /\ 0 <= B(t) /\ A(t) * A(t) <= K(t) * B(t)
    BY <1>9
  <2>5. Cardinality(s) \in Nat /\ Cardinality(t) \in Nat /\ K(t) \in Nat /\ K(s) \in Nat
    BY <1>6, <2>1
  <2>6. f[s] \in Int /\ g[s] \in Int
    BY <2>2, <2>3, <2>4
  <2>7. A(s) = A(t) + d
    BY <2>1, <2>2, <2>3, <2>4, <2>5
  <2>8. B(s) = B(t) + d * d
    BY <2>1, <2>2, <2>3, <2>4, <2>5
  <2>9. A(t) \in Int /\ B(t) \in Int
    BY <2>2, <2>4, <2>5
  <2>10. d * d \in Nat
    BY <2>2, SquareNonNegative
  <2>11. CASE y = x
    <3>1. t \ {x} = t /\ s \ {x} = t
      BY <2>11
    <3>2. d = 0
      BY <2>2, <2>11
    <3>3. K(s) = K(t)
      BY <3>1
    <3>4. A(s) = A(t) /\ B(s) = B(t)
      <4> HIDE DEF A, B, d
      <4>1. QED
        BY <2>7, <2>8, <2>9, <3>2
    <3> HIDE DEF A, B, K
    <3>5. QED
      BY <2>4, <2>6, <3>3, <3>4
  <2>12. CASE y # x
    <3>1. y \in s \ {x} /\ t \ {x} = (s \ {x}) \ {y}
      BY <2>1, <2>12
    <3>2. K(s) = K(t) + 1
      <4>1. s \ {x} \in SUBSET S
        OBVIOUS
      <4>2. Cardinality((s \ {x}) \ {y}) = Cardinality(s \ {x}) - 1
        BY <1>7, <3>1, <4>1
      <4>3. QED
        BY <2>5, <3>1, <4>2
    <3> HIDE DEF A, B, K, d
    <3>3. (A(t) + d) * (A(t) + d) <= (K(t) + 1) * (B(t) + d * d)
      BY <2>2, <2>4, <2>5, <2>9, OneMoreTerm
    <3>4. 0 <= B(t) + d * d
      BY <2>4, <2>9, <2>10
    <3>5. QED
      BY <2>6, <2>7, <2>8, <3>2, <3>3, <3>4
  <2>13. QED
    BY <2>11, <2>12
<1>10. ASSUME Bad # {} PROVE FALSE
  <2> HIDE DEF Good
  <2>1. PICK n \in Bad : \A k \in Bad : n <= k
    BY <1>10, LeastNatural
  <2>2. PICK s \in SUBSET S : Cardinality(s) = n /\ ~ Good(s)
    BY <2>1
  <2>3. s # {}
    BY <1>8, <2>2
  <2>4. Pick(s) \in s
    BY <2>3, PickIsElement
  <2>5. PICK k : k = Cardinality(s \ {Pick(s)})
    OBVIOUS
  <2>6. s \ {Pick(s)} \in SUBSET S /\ k \in Nat /\ k = n - 1 /\ n \in Nat
    BY <1>6, <1>7, <2>2, <2>4, <2>5
  <2>7. ~ Good(s \ {Pick(s)})
    BY <1>9, <2>2, <2>3, Zenon
  <2>8. k \in Bad
    BY <2>5, <2>6, <2>7, Zenon
  <2> HIDE DEF Bad
  <2>9. n <= k
    BY <2>1, <2>8, Zenon
  <2>10. QED
    BY <2>6, <2>9
<1>11. Good(S)
  <2> HIDE DEF Good
  <2>1. Cardinality(S) \in Nat
    BY <1>6
  <2>2. QED
    BY <1>10, <2>1
<1> DEFINE n == Cardinality(S)
           a == A(S)
           b == B(S)
<1>12. n \in Nat /\ K(S) = n - 1 /\ n - 1 \in Nat
  BY <1>6, <1>7
<1>13. v \in Int /\ f[S] \in Int /\ g[S] \in Int
  BY <1>1, <1>11
<1>14. Deviation(v, S) = -a
  BY <1>2, <1>12, <1>13 DEF Deviation
<1>15. Spread(S) = n * b - a * a
  <2>1. Spread(S) = n * g[S] - f[S] * f[S]
    BY <1>2, <1>3 DEF Spread
  <2>2. n * b - a * a = n * g[S] - f[S] * f[S]
    BY <1>12, <1>13
  <2>3. QED
    BY <2>1, <2>2
<1>16. a \in Int /\ b \in Int /\ 0 <= b /\ a * a <= (n - 1) * b
  BY <1>11, <1>12, <1>13
<1> HIDE DEF a, b, n
<1>17. Deviation(v, S) * Deviation(v, S) = a * a /\ Deviation(v, S) \in Int /\ Spread(S) \in Int
  BY <1>12, <1>14, <1>15, <1>16
<1>18. (n - 1) * (n * b - a * a) - a * a = n * ((n - 1) * b - a * a)
  BY <1>12, <1>16
<1>19. n * ((n - 1) * b - a * a) \in Nat
  BY <1>12, <1>16
<1>20. a * a <= (n - 1) * Spread(S)
  BY <1>12, <1>15, <1>16, <1>18, <1>19
<1>21. 0 <= Spread(S)
  <2>1. n * b - a * a = ((n - 1) * b - a * a) + b
    BY <1>12, <1>16
  <2>2. QED
    BY <1>12, <1>15, <1>16, <2>1
<1>22. QED
  BY <1>17, <1>20, <1>21 DEF n

-----------------------------------------------------------------------------
(* Anomaly Detection                                                       *)

USE AnomalyDetectionAssumption, MalformedAssumption

Processing == {"batch", "record", "publish"}

(* Nothing that the last cutoff should have trimmed is in the window.      *)
TrimmedInv ==
    /\ IsFiniteSet(window)
    /\ \A m \in window : m.time + WindowSize > last.time
    /\ seen # {} => last \in seen

(* Where the loop stands, everything before has been examined.  With a     *)
(* batch in hand the next offset to fetch is the end of the batch, or the  *)
(* committed offset again if the partition was reassigned meanwhile.       *)
LoopInv ==
    /\ pc \notin Processing => 0..(position - 1) \subseteq examined
    /\ pc \in Processing => /\ 0..(cursor - 1) \subseteq examined
                            /\ position \in {end, committed}

DetectionInv == TypeOK /\ TrimmedInv /\ RecentKept /\ LoopInv /\ CommittedIsExamined

-----------------------------------------------------------------------------
(* Among the severities reached there is a most severe one.                *)
LEMMA MostSevereType ==
    ASSUME NEW reached \in SUBSET Severities, reached # {}
    PROVE  MostSevere(reached) \in reached
<1>1. \E s \in reached : \A other \in reached : QuarterSquares[other] <= QuarterSquares[s]
  <2>1. \A s \in Severities : QuarterSquares[s] \in Nat
    OBVIOUS
  <2>2. CASE "critical" \in reached
    BY <2>1, <2>2 DEF Severities
  <2>3. CASE "critical" \notin reached /\ "high" \in reached
    BY <2>1, <2>3 DEF Severities
  <2>4. CASE "critical" \notin reached /\ "high" \notin reached /\ "medium" \in reached
    BY <2>1, <2>4 DEF Severities
  <2>5. CASE "critical" \notin reached /\ "high" \notin reached /\ "medium" \notin reached
    <3>1. reached = {"low"}
      BY <2>5 DEF Severities
    <3>2. QED
      BY <2>1, <3>1
  <2>6. QED
    BY <2>2, <2>3, <2>4, <2>5
<1>2. QED
  BY <1>1 DEF MostSevere

LEMMA InitDetectionInv == Init => DetectionInv
  BY FS_EmptySet DEF Init, DetectionInv, TypeOK, TrimmedInv, RecentKept, LoopInv, CommittedIsExamined,
     Processing, NoReading, NoAnomaly, Anomaly, Severities

-----------------------------------------------------------------------------
(* The pipeline adds a reading and trims by its cutoff.                    *)

LEMMA EventIsReading ==
    ASSUME TypeOK, InHand, Event # Malformed
    PROVE  Event \in Readings
  BY DEF TypeOK, InHand, Event

LEMMA AddReadingKeepsWindow ==
    ASSUME DetectionInv, InHand, Event # Malformed, AddReading
    PROVE  /\ window' \subseteq seen' /\ seen' \subseteq Readings /\ last' \in Readings
           /\ TrimmedInv' /\ RecentKept'
<1>1. Event \in Readings
  BY EventIsReading DEF DetectionInv
<1>2. \A m \in Readings : m.time \in Nat
  BY DEF Readings
<1>3. window \subseteq seen /\ seen \subseteq Readings
  BY DEF DetectionInv, TypeOK
<1>4. window' \subseteq window \cup {Event}
  BY DEF AddReading, Trimmed
<1>5. window' \subseteq seen' /\ seen' \subseteq Readings /\ last' \in Readings
  BY <1>1, <1>3, <1>4 DEF AddReading
<1>6. TrimmedInv'
  <2>1. IsFiniteSet(window \cup {Event})
    BY FS_AddElement DEF DetectionInv, TrimmedInv
  <2>2. IsFiniteSet(window')
    BY <1>4, <2>1, FS_Subset
  <2>3. QED
    BY <2>2 DEF AddReading, Trimmed, TrimmedInv
<1>7. RecentKept'
  <2> SUFFICES ASSUME NEW m \in seen', \A n \in seen' : m.time + WindowSize > n.time
               PROVE  m \in window'
    BY DEF RecentKept
  <2>1. m.time + WindowSize > Event.time
    BY DEF AddReading
  <2>2. m \in window \cup {Event}
    BY DEF AddReading, DetectionInv, RecentKept
  <2>3. QED
    BY <2>1, <2>2 DEF AddReading, Trimmed
<1>8. QED
  BY <1>5, <1>6, <1>7

(* process_event returns: one more offset is examined.                     *)
LEMMA ReturnKeepsLoop ==
    ASSUME DetectionInv, pc \in Processing, cursor < end, Return
    PROVE  /\ LoopInv' /\ CommittedIsExamined'
           /\ enriched' = enriched /\ committed' \in 0..Len(enriched')
           /\ pc' = "batch" /\ position' \in 0..Len(enriched') /\ cursor' \in Nat
           /\ end' \in 0..Len(enriched') /\ cursor' <= end'
           /\ found' \in Anomaly /\ generation' \in Nat /\ examined' \subseteq Nat
           /\ member' \in {"member", "evicted"}
<1> USE DEF DetectionInv, TypeOK, Return, groupVars
<1>1. Len(enriched) \in Nat
  OBVIOUS
<1>2. found' \in Anomaly
  BY DEF NoAnomaly, Anomaly, Severities
<1>3. 0..(cursor' - 1) \subseteq examined'
  BY DEF LoopInv
<1>4. LoopInv'
  BY <1>3 DEF LoopInv, Processing
<1>m. member' \in {"member", "evicted"}
  BY DEF Processing
<1>5. CommittedIsExamined'
  BY DEF CommittedIsExamined
<1>6. QED
  BY <1>1, <1>2, <1>4, <1>m, <1>5

(* Steps that leave the window alone.                                      *)
LEMMA WindowUntouched ==
    ASSUME DetectionInv, UNCHANGED windowVars
    PROVE  /\ window' \subseteq seen' /\ seen' \subseteq Readings
           /\ last' \in Readings \cup {NoReading} /\ TrimmedInv' /\ RecentKept'
  BY DEF DetectionInv, TypeOK, windowVars, TrimmedInv, RecentKept

-----------------------------------------------------------------------------
LEMMA LoopStep ==
    ASSUME DetectionInv,
           \/ Start \/ Crash \/ Rebalance \/ Evict \/ Poll \/ Commit \/ CommitFails
           \/ \E event \in Readings \cup {Malformed} : Ingest(event)
    PROVE  DetectionInv'
<1> USE DEF groupVars, serviceVars, storeVars, Processing
<1>0. UNCHANGED windowVars
  BY DEF Start, Crash, Leave, Rebalance, Evict, Poll, Commit, CommitFails, Ingest
<1>1. window' \subseteq seen' /\ seen' \subseteq Readings /\ last' \in Readings \cup {NoReading}
      /\ TrimmedInv' /\ RecentKept'
  BY <1>0, WindowUntouched
<1>2. Len(enriched) \in Nat /\ faults \in Nat /\ committed \in 0..Len(enriched)
  BY DEF DetectionInv, TypeOK
<1>3. ASSUME Start PROVE DetectionInv'
  BY <1>1, <1>2, <1>3 DEF Start, DetectionInv, TypeOK, LoopInv, CommittedIsExamined
<1>4. ASSUME Crash PROVE DetectionInv'
  BY <1>1, <1>2, <1>4
     DEF Crash, Leave, Fault, DetectionInv, TypeOK, LoopInv, CommittedIsExamined, NoAnomaly, Anomaly,
         Severities
<1>5. ASSUME Poll PROVE DetectionInv'
  <2>1. end' \in (position + 1)..Len(enriched)
    <3>1. end' \in (position + 1)..Min({Len(enriched), position + MaxRecords})
      BY <1>5 DEF Poll
    <3>2. Min({Len(enriched), position + MaxRecords}) <= Len(enriched)
      <4>1. position + MaxRecords \in Nat
        BY DEF DetectionInv, TypeOK
      <4>2. \E x \in {Len(enriched), position + MaxRecords} :
               \A y \in {Len(enriched), position + MaxRecords} : x <= y
        BY <1>2, <4>1
      <4>3. QED
        BY <1>2, <4>1, <4>2 DEF Min
    <3>3. Min({Len(enriched), position + MaxRecords}) \in Int
      <4>1. position + MaxRecords \in Nat
        BY DEF DetectionInv, TypeOK
      <4>2. \E x \in {Len(enriched), position + MaxRecords} :
               \A y \in {Len(enriched), position + MaxRecords} : x <= y
        BY <1>2, <4>1
      <4>3. QED
        BY <1>2, <4>1, <4>2 DEF Min
    <3>4. QED
      BY <1>2, <3>1, <3>2, <3>3 DEF DetectionInv, TypeOK
  <2>2. QED
    BY <1>1, <1>2, <1>5, <2>1 DEF Poll, DetectionInv, TypeOK, LoopInv, CommittedIsExamined
<1>6. ASSUME Commit PROVE DetectionInv'
  BY <1>1, <1>2, <1>6 DEF Commit, DetectionInv, TypeOK, LoopInv, CommittedIsExamined
<1>r. ASSUME Rebalance PROVE DetectionInv'
  BY <1>1, <1>2, <1>r
     DEF Rebalance, StartOffset, DetectionInv, TypeOK, LoopInv, CommittedIsExamined
<1>e. ASSUME Evict PROVE DetectionInv'
  BY <1>1, <1>2, <1>e DEF Evict, Fault, DetectionInv, TypeOK, LoopInv, CommittedIsExamined
<1>7. ASSUME CommitFails PROVE DetectionInv'
  <2>1. committed' \in 0..Len(enriched) /\ 0..(committed' - 1) \subseteq examined
    BY <1>2, <1>7 DEF CommitFails, DetectionInv, TypeOK, LoopInv, CommittedIsExamined
  <2>2. NoAnomaly \in Anomaly
    BY DEF NoAnomaly, Anomaly, Severities
  <2>3. TypeOK'
    BY <1>1, <1>2, <1>7, <2>1, <2>2 DEF CommitFails, Leave, Fault, DetectionInv, TypeOK
  <2>4. pc' = "down" /\ position' = 0 /\ examined' = examined
    BY <1>7 DEF CommitFails, Leave
  <2>5. LoopInv'
    BY <2>4 DEF LoopInv
  <2>6. CommittedIsExamined'
    BY <2>1, <2>4 DEF CommittedIsExamined
  <2>7. QED
    BY <1>1, <2>3, <2>5, <2>6 DEF DetectionInv
<1>8. ASSUME NEW event \in Readings \cup {Malformed}, Ingest(event) PROVE DetectionInv'
  <2>1. enriched' \in Seq(Readings \cup {Malformed}) /\ Len(enriched') = Len(enriched) + 1
    BY <1>8 DEF Ingest, DetectionInv, TypeOK
  <2>2. QED
    BY <1>1, <1>2, <1>8, <2>1 DEF Ingest, DetectionInv, TypeOK, LoopInv, CommittedIsExamined
<1>9. QED
  BY <1>3, <1>4, <1>5, <1>6, <1>r, <1>e, <1>7, <1>8

LEMMA LoseWindowStep == ASSUME DetectionInv, LoseWindow PROVE DetectionInv'
  BY FS_EmptySet
     DEF LoseWindow, Fault, groupVars, storeVars, serviceVars, DetectionInv, TypeOK, TrimmedInv, RecentKept, LoopInv,
         CommittedIsExamined

LEMMA SkipStep ==
    ASSUME DetectionInv, SkipMalformed \/ Normal \/ WindowFails
    PROVE  DetectionInv'
<1>0. InHand /\ Return /\ UNCHANGED storeVars /\ pc \in Processing /\ cursor < end
  BY DEF SkipMalformed, Normal, WindowFails, InHand, Processing
<1>1. UNCHANGED windowVars \/ (Event # Malformed /\ AddReading)
  BY DEF SkipMalformed, Normal, WindowFails
<1>2. window' \subseteq seen' /\ seen' \subseteq Readings /\ last' \in Readings \cup {NoReading}
      /\ TrimmedInv' /\ RecentKept'
  BY <1>0, <1>1, WindowUntouched, AddReadingKeepsWindow
<1>3. faults' \in Nat
  BY DEF SkipMalformed, Normal, WindowFails, Fault, DetectionInv, TypeOK
<1>4. anomalies' \subseteq Anomaly /\ published' \in Seq(Anomaly) /\ nextId' \in Nat
  BY <1>0 DEF storeVars, DetectionInv, TypeOK
<1>5. /\ LoopInv' /\ CommittedIsExamined'
      /\ enriched' = enriched /\ committed' \in 0..Len(enriched')
      /\ pc' = "batch" /\ position' \in 0..Len(enriched') /\ cursor' \in Nat
      /\ end' \in 0..Len(enriched') /\ cursor' <= end'
      /\ found' \in Anomaly /\ generation' \in Nat /\ examined' \subseteq Nat
      /\ member' \in {"member", "evicted"}
  BY <1>0, ReturnKeepsLoop
<1>6. enriched' \in Seq(Readings \cup {Malformed})
  BY <1>5 DEF DetectionInv, TypeOK
<1>7. TypeOK'
  BY <1>2, <1>3, <1>4, <1>5, <1>6 DEF TypeOK
<1>8. QED
  BY <1>2, <1>5, <1>7 DEF DetectionInv

LEMMA DetectStep == ASSUME DetectionInv, Detect PROVE DetectionInv'
<1>1. window' \subseteq seen' /\ seen' \subseteq Readings /\ last' \in Readings
      /\ TrimmedInv' /\ RecentKept'
  BY AddReadingKeepsWindow DEF Detect
<1>2. MostSevere(Reached(Event.value, window')) \in Severities
  <2>1. Reached(Event.value, window') \subseteq Severities
    BY DEF Reached
  <2>2. QED
    BY <2>1, MostSevereType DEF Detect
<1>3. Cardinality(window') \in Nat
  BY <1>1, FS_CardinalityType DEF TrimmedInv
<1>4. found' \in Anomaly
  BY <1>2, <1>3 DEF Detect, Anomaly, DetectionInv, TypeOK
<1>5. /\ pc = "batch" /\ cursor < end /\ pc' = "record" /\ nextId' \in Nat
      /\ UNCHANGED <<enriched, committed, member, generation, anomalies, published, position,
                     cursor, end, examined, faults>>
  BY DEF Detect, InHand, groupVars, DetectionInv, TypeOK
<1>6. TypeOK'
  BY <1>1, <1>4, <1>5 DEF DetectionInv, TypeOK
<1>7. LoopInv' /\ CommittedIsExamined'
  BY <1>5 DEF DetectionInv, LoopInv, CommittedIsExamined, Processing
<1>8. QED
  BY <1>1, <1>6, <1>7 DEF DetectionInv

LEMMA RecordStep == ASSUME DetectionInv, Record PROVE DetectionInv'
<1>1. window' \subseteq seen' /\ seen' \subseteq Readings /\ last' \in Readings \cup {NoReading}
      /\ TrimmedInv' /\ RecentKept'
  BY WindowUntouched DEF Record
<1>2. anomalies' \subseteq Anomaly /\ faults' \in Nat
  BY DEF Record, Fault, DetectionInv, TypeOK
<1>3. TypeOK'
  BY <1>1, <1>2 DEF Record, groupVars, DetectionInv, TypeOK
<1>4. LoopInv' /\ CommittedIsExamined'
  BY DEF Record, DetectionInv, LoopInv, CommittedIsExamined, Processing
<1>5. QED
  BY <1>1, <1>3, <1>4 DEF DetectionInv

LEMMA PublishStep == ASSUME DetectionInv, Publish PROVE DetectionInv'
<1>0. Return /\ UNCHANGED <<windowVars, anomalies, nextId>> /\ pc \in Processing /\ cursor < end
  BY DEF Publish, Processing, DetectionInv, TypeOK
<1>1. window' \subseteq seen' /\ seen' \subseteq Readings /\ last' \in Readings \cup {NoReading}
      /\ TrimmedInv' /\ RecentKept'
  BY <1>0, WindowUntouched
<1>2. published' \in Seq(Anomaly) /\ faults' \in Nat
  <2>1. published \in Seq(Anomaly) /\ found \in Anomaly /\ faults \in Nat
    BY DEF DetectionInv, TypeOK
  <2>2. Append(published, found) \in Seq(Anomaly)
    BY <2>1
  <2>3. published' = published \/ published' = Append(published, found)
    BY DEF Publish
  <2>4. faults' = faults \/ faults' = faults + 1
    BY DEF Publish, Fault
  <2>5. faults' \in Nat
    BY <2>1, <2>4
  <2>6. CASE published' = published
    BY <2>1, <2>5, <2>6
  <2>7. CASE published' = Append(published, found)
    BY <2>2, <2>5, <2>7, Zenon
  <2>8. QED
    BY <2>3, <2>6, <2>7
<1>3. anomalies' \subseteq Anomaly /\ nextId' \in Nat
  BY <1>0 DEF DetectionInv, TypeOK
<1>4. /\ LoopInv' /\ CommittedIsExamined'
      /\ enriched' = enriched /\ committed' \in 0..Len(enriched')
      /\ pc' = "batch" /\ position' \in 0..Len(enriched') /\ cursor' \in Nat
      /\ end' \in 0..Len(enriched') /\ cursor' <= end'
      /\ found' \in Anomaly /\ generation' \in Nat /\ examined' \subseteq Nat
      /\ member' \in {"member", "evicted"}
  BY <1>0, ReturnKeepsLoop
<1>5. enriched' \in Seq(Readings \cup {Malformed})
  BY <1>4 DEF DetectionInv, TypeOK
<1>6. TypeOK'
  BY <1>1, <1>2, <1>3, <1>4, <1>5 DEF TypeOK
<1>7. QED
  BY <1>1, <1>4, <1>6 DEF DetectionInv

LEMMA NextDetectionInv == DetectionInv /\ [Next]_vars => DetectionInv'
<1> SUFFICES ASSUME DetectionInv, [Next]_vars PROVE DetectionInv'
  OBVIOUS
<1>1. ASSUME UNCHANGED vars PROVE DetectionInv'
  BY <1>1 DEF vars, groupVars, windowVars, storeVars, serviceVars, DetectionInv, TypeOK, TrimmedInv,
     RecentKept, LoopInv, CommittedIsExamined
<1>2. QED
  BY <1>1, LoopStep, LoseWindowStep, SkipStep, DetectStep, RecordStep, PublishStep
     DEF Next, Service, ProcessEvent, PollEmpty

LEMMA DetectionInvariant == Spec => []DetectionInv
  BY InitDetectionInv, NextDetectionInv, PTL DEF Spec

-----------------------------------------------------------------------------
(* Every variable holds a value the program can hold.                      *)
THEOREM DetectionTypeCorrect == Spec => []TypeOK
<1>1. DetectionInv => TypeOK
  BY DEF DetectionInv
<1>2. QED
  BY <1>1, DetectionInvariant, PTL

(* Whenever the newest reading has just been added, the sorted set holds   *)
(* exactly the readings of the last WindowSize seconds.                    *)
THEOREM RollingWindowIsExact == Spec => []WindowIsExact
<1>1. DetectionInv => WindowIsExact
  <2> SUFFICES ASSUME DetectionInv, seen # {}, \A m \in seen : m.time <= last.time
               PROVE  window = {m \in seen : m.time + WindowSize > last.time}
    BY DEF WindowIsExact
  <2>1. \A m \in window : m \in seen /\ m.time + WindowSize > last.time
    BY DEF DetectionInv, TypeOK, TrimmedInv
  <2>2. ASSUME NEW m \in seen, m.time + WindowSize > last.time PROVE m \in window
    <3>1. \A n \in seen : n.time \in Nat
      BY DEF DetectionInv, TypeOK, Readings
    <3>2. last.time \in Nat
      BY <3>1 DEF DetectionInv, TrimmedInv
    <3>3. \A n \in seen : m.time + WindowSize > n.time
      BY <2>2, <3>1, <3>2
    <3>4. QED
      BY <3>3 DEF DetectionInv, RecentKept
  <2>3. QED
    BY <2>1, <2>2
<1>2. QED
  BY <1>1, DetectionInvariant, PTL

(* No late or redelivered reading makes the window forget a recent one.    *)
THEOREM RecentReadingsKept == Spec => []RecentKept
<1>1. DetectionInv => RecentKept
  BY DEF DetectionInv
<1>2. QED
  BY <1>1, DetectionInvariant, PTL

(* An event is examined before its offset is committed.                    *)
THEOREM DetectionAtLeastOnce == Spec => []CommittedIsExamined
<1>1. DetectionInv => CommittedIsExamined
  BY DEF DetectionInv
<1>2. QED
  BY <1>1, DetectionInvariant, PTL
-----------------------------------------------------------------------------
(* The refinement: what a step means for the log, for what is settled and  *)
(* for what is acknowledged.                                               *)

(* The service never fetches behind its committed offset.                  *)
NotBehind == member # "none" => committed <= position

LEMMA NextNotBehind == DetectionInv /\ NotBehind /\ [Next]_vars => NotBehind'
<1> SUFFICES ASSUME DetectionInv, NotBehind, [Next]_vars PROVE NotBehind'
  OBVIOUS
<1> USE DEF groupVars, serviceVars, storeVars
<1>1. committed \in Nat /\ position \in Nat
  BY DEF DetectionInv, TypeOK
<1>2. CASE Poll
  BY <1>1, <1>2 DEF Poll, NotBehind
<1>3. CASE Rebalance \/ Evict \/ Commit \/ Crash \/ CommitFails
  BY <1>1, <1>3 DEF Rebalance, StartOffset, Evict, Commit, Crash, CommitFails, Leave, NotBehind
<1>4. CASE ~ (Poll \/ Rebalance \/ Evict \/ Commit \/ Crash \/ CommitFails)
  <2>1. UNCHANGED <<committed, position, member>>
    BY <1>4 DEF Next, Service, ProcessEvent, Ingest, LoseWindow, Start, PollEmpty, SkipMalformed, Normal,
                Detect, WindowFails, Record, Publish, Return, InHand, vars
  <2>2. QED
    BY <2>1 DEF NotBehind
<1>5. QED
  BY <1>2, <1>3, <1>4

LEMMA DetectionSimulation ==
    DetectionInv /\ NotBehind /\ [Next]_vars => [Delivery!Next]_(Delivery!vars)
<1> SUFFICES ASSUME DetectionInv, NotBehind, [Next]_vars
             PROVE  [Delivery!Next]_(Delivery!vars)
  OBVIOUS
<1> USE DEF serviceVars, storeVars
<1>1. ASSUME NEW event \in Readings \cup {Malformed}, Ingest(event) PROVE Delivery!Next
  <2>1. Delivery!Append1(0, event)
    BY <1>1 DEF Ingest, Delivery!Append1
  <2>2. QED
    BY <2>1 DEF Delivery!Next
<1>2. ASSUME Return, pc \in Processing, cursor < end PROVE Delivery!Next
  <2>1. cursor \in 0..(Len(enriched) - 1) /\ cursor < Len(enriched)
    BY <1>2 DEF DetectionInv, TypeOK
  <2>2. 0..(cursor - 1) \subseteq examined
    BY <1>2 DEF DetectionInv, LoopInv
  <2>3. Delivery!Settle(0, cursor)
    BY <1>2, <2>1, <2>2 DEF Return, Delivery!Settle
  <2>4. QED
    BY <2>1, <2>3 DEF Delivery!Next
<1>3. ASSUME Commit \/ CommitFails PROVE Delivery!Next
  <2>1. /\ pc = "batch" /\ cursor = end /\ committed' \in {committed, position}
        /\ member # "none" /\ UNCHANGED <<enriched, examined>>
    BY <1>3 DEF Commit, CommitFails, Leave
  <2>2. 0..(position - 1) \subseteq examined /\ committed <= position
    BY <2>1 DEF DetectionInv, LoopInv, CommittedIsExamined, NotBehind, Processing
  <2>3. 0..(committed - 1) \subseteq examined
    BY Zenon DEF DetectionInv, CommittedIsExamined
  <2>4. committed' >= committed /\ 0..(committed' - 1) \subseteq examined
    <3>1. committed \in Nat /\ position \in Nat
      BY DEF DetectionInv, TypeOK
    <3>2. committed' >= committed
      BY <2>1, <2>2, <3>1
    <3>3. 0..(committed' - 1) \subseteq examined
      <4>1. CASE committed' = committed
        BY <2>3, <4>1
      <4>2. CASE committed' = position
        BY <2>2, <4>2
      <4>3. QED
        BY <2>1, <4>1, <4>2
    <3>4. QED
      BY <3>2, <3>3
  <2>5. Delivery!Acknowledge
    BY <2>1, <2>4 DEF Delivery!Acknowledge
  <2>6. QED
    BY <2>5 DEF Delivery!Next
<1>4. ASSUME UNCHANGED <<enriched, examined, committed>> PROVE UNCHANGED Delivery!vars
  BY <1>4 DEF Delivery!vars
<1>5. SkipMalformed \/ Normal \/ WindowFails \/ Publish => Return /\ pc \in Processing /\ cursor < end
  BY DEF SkipMalformed, Normal, WindowFails, Publish, InHand, Processing, DetectionInv, TypeOK
<1>6. ASSUME \/ LoseWindow \/ Start \/ Crash \/ Rebalance \/ Evict \/ Poll \/ PollEmpty
             \/ Detect \/ Record \/ UNCHANGED vars
      PROVE  UNCHANGED <<enriched, examined, committed>>
  BY <1>6 DEF LoseWindow, Start, Crash, Leave, Rebalance, Evict, Poll, PollEmpty, Detect, Record, vars
<1>7. QED
  BY <1>1, <1>2, <1>3, <1>4, <1>5, <1>6 DEF Next, Service, ProcessEvent

(* Batches, crashes, failed commits and repeated examinations are a way to *)
(* deliver each event at least once and in order.                          *)
THEOREM DetectionDelivers == Spec => ImplementsDelivery
<1>1. Init => Delivery!Init /\ NotBehind
  BY DEF Init, Delivery!Init, NotBehind
<1>2. QED
  BY <1>1, NextNotBehind, DetectionSimulation, DetectionInvariant, PTL
     DEF Spec, ImplementsDelivery, Delivery!Spec

-----------------------------------------------------------------------------
(* Repetitions.  What an event has so far, the row it may still get from   *)
(* the batch in hand, and the one it may get once it is fetched again,     *)
(* need an assignment of the partition each.                               *)
RowsAt(o) == {a \in anomalies : a.at = o}

AtMostOnce(b) == IF b THEN 1 ELSE 0

ToFetch(o) == AtMostOnce(member # "none" /\ position <= o)

ToRecord(o) ==
    AtMostOnce(/\ o < end
               /\ \/ pc \in {"batch", "record"} /\ cursor <= o
                  \/ pc = "publish" /\ cursor < o)

Expected(o) == ToFetch(o) + ToRecord(o)

RepeatsInv ==
    /\ pc = "record" => found.at = cursor
    /\ \A o \in Nat : /\ IsFiniteSet(RowsAt(o))
                      /\ Cardinality(RowsAt(o)) + Expected(o) <= generation

LEMMA ExpectedType == \A o : ToFetch(o) \in 0..1 /\ ToRecord(o) \in 0..1 /\ Expected(o) \in 0..2
  BY DEF ToFetch, ToRecord, Expected, AtMostOnce

(* A step that adds no row, and lets no event expect more, keeps the count *)
(* of each event.                                                          *)
LEMMA NoRowStep ==
    ASSUME TypeOK, RepeatsInv, NEW o \in Nat, UNCHANGED <<anomalies, generation>>,
           Expected(o)' <= Expected(o)
    PROVE  /\ IsFiniteSet(RowsAt(o))'
           /\ Cardinality(RowsAt(o)') + Expected(o)' <= generation'
<1>1. RowsAt(o)' = RowsAt(o) /\ Cardinality(RowsAt(o)) \in Nat /\ generation \in Nat
  BY FS_CardinalityType DEF RowsAt, RepeatsInv, TypeOK
<1>2. Expected(o) \in 0..2 /\ Expected(o)' \in 0..2
  BY DEF ToFetch, ToRecord, Expected, AtMostOnce
<1>3. QED
  BY <1>1, <1>2 DEF RepeatsInv

(* The INSERT adds a row for the event at the cursor, once.                *)
LEMMA RecordRepeats == ASSUME DetectionInv, RepeatsInv, Record PROVE RepeatsInv'
<1>1. /\ pc = "record" /\ pc' = "publish" /\ found.at = cursor /\ cursor < end
      /\ UNCHANGED <<cursor, end, position, member, generation>>
      /\ cursor \in Nat /\ end \in Nat /\ generation \in Nat /\ TypeOK
  BY DEF Record, groupVars, RepeatsInv, DetectionInv, TypeOK
<1>2. anomalies' = anomalies \/ anomalies' = anomalies \cup {found}
  BY DEF Record
<1>3. ASSUME NEW o \in Nat
      PROVE  /\ IsFiniteSet(RowsAt(o))'
             /\ Cardinality(RowsAt(o)') + Expected(o)' <= generation'
  <2>1. Expected(o)' <= Expected(o) /\ Expected(o)' \in Nat /\ Expected(o) \in Nat
    BY <1>1 DEF Expected, ToFetch, ToRecord, AtMostOnce
  <2>2. CASE anomalies' = anomalies
    BY <1>1, <2>1, <2>2, NoRowStep
  <2>3. CASE anomalies' = anomalies \cup {found} /\ o # cursor
    <3>1. RowsAt(o)' = RowsAt(o)
      BY <1>1, <2>3 DEF RowsAt
    <3>2. IsFiniteSet(RowsAt(o)) /\ Cardinality(RowsAt(o)) \in Nat
      BY FS_CardinalityType DEF RepeatsInv
    <3>3. QED
      BY <1>1, <2>1, <3>1, <3>2 DEF RepeatsInv
  <2>4. CASE anomalies' = anomalies \cup {found} /\ o = cursor
    <3>1. RowsAt(o)' = RowsAt(o) \cup {found}
      BY <1>1, <2>4 DEF RowsAt
    <3>2. IsFiniteSet(RowsAt(o)) /\ Cardinality(RowsAt(o)) \in Nat
      BY FS_CardinalityType DEF RepeatsInv
    <3>3. /\ IsFiniteSet(RowsAt(o) \cup {found})
          /\ Cardinality(RowsAt(o) \cup {found}) \in {Cardinality(RowsAt(o)), Cardinality(RowsAt(o)) + 1}
      BY <3>2, FS_AddElement
    <3>4. Expected(o)' = Expected(o) - 1
      BY <1>1, <2>4 DEF Expected, ToFetch, ToRecord, AtMostOnce
    <3>5. Cardinality(RowsAt(o)) + Expected(o) <= generation
      BY DEF RepeatsInv
    <3>6. QED
      BY <1>1, <2>1, <3>1, <3>2, <3>3, <3>4, <3>5
  <2>5. QED
    BY <1>2, <2>2, <2>3, <2>4
<1>4. QED
  BY <1>1, <1>3 DEF RepeatsInv

(* Every step keeps the counts: a batch takes over what was to be fetched, *)
(* and only an assignment has events fetched again.                        *)
LEMMA NextRepeatsInv == DetectionInv /\ RepeatsInv /\ [Next]_vars => RepeatsInv'
<1> SUFFICES ASSUME DetectionInv, RepeatsInv, [Next]_vars PROVE RepeatsInv'
  OBVIOUS
<1> USE DEF groupVars, serviceVars, storeVars
<1>1. TypeOK /\ cursor \in Nat /\ position \in Nat /\ end \in Nat /\ generation \in Nat
  BY DEF DetectionInv, TypeOK
<1>2. ASSUME UNCHANGED <<anomalies, generation>>, pc' = "record" => found'.at = cursor',
             \A o \in Nat : Expected(o)' <= Expected(o)
      PROVE  RepeatsInv'
  <2>1. \A o \in Nat : /\ IsFiniteSet(RowsAt(o))'
                       /\ Cardinality(RowsAt(o)') + Expected(o)' <= generation'
    BY <1>1, <1>2, NoRowStep
  <2>2. QED
    BY <1>2, <2>1 DEF RepeatsInv
<1>3. CASE Rebalance
  <2>1. /\ generation' = generation + 1 /\ UNCHANGED <<anomalies, pc, cursor, end, found>>
    BY <1>3 DEF Rebalance
  <2>2. ASSUME NEW o \in Nat
        PROVE  /\ IsFiniteSet(RowsAt(o))'
               /\ Cardinality(RowsAt(o)') + Expected(o)' <= generation'
    <3>1. RowsAt(o)' = RowsAt(o) /\ ToRecord(o)' = ToRecord(o)
      BY <2>1 DEF RowsAt, ToRecord, AtMostOnce
    <3>2. ToFetch(o)' \in 0..1 /\ ToFetch(o) \in 0..1 /\ ToRecord(o) \in 0..1
      BY DEF ToFetch, ToRecord, AtMostOnce
    <3>3. IsFiniteSet(RowsAt(o)) /\ Cardinality(RowsAt(o)) \in Nat
      BY FS_CardinalityType DEF RepeatsInv
    <3>4. Cardinality(RowsAt(o)) + (ToFetch(o) + ToRecord(o)) <= generation
      BY DEF RepeatsInv, Expected
    <3>5. QED
      BY <1>1, <2>1, <3>1, <3>2, <3>3, <3>4 DEF Expected
  <2>3. QED
    BY <2>1, <2>2 DEF RepeatsInv
<1>4. CASE (\E event \in Readings \cup {Malformed} : Ingest(event)) \/ LoseWindow \/ UNCHANGED vars
  <2>1. UNCHANGED <<anomalies, generation, member, pc, position, cursor, end, found>>
    BY <1>4 DEF Ingest, LoseWindow, vars
  <2>2. QED
    BY <1>2, <2>1 DEF Expected, ToFetch, ToRecord, AtMostOnce, RepeatsInv
<1>5. CASE Crash \/ CommitFails
  <2>1. UNCHANGED <<anomalies, generation>> /\ pc' = "down" /\ member' = "none"
    BY <1>5 DEF Crash, CommitFails, Leave
  <2>2. QED
    BY <1>2, <2>1 DEF Expected, ToFetch, ToRecord, AtMostOnce
<1>6. CASE Start
  <2>1. UNCHANGED <<anomalies, generation, member, position>> /\ pc = "down" /\ pc' = "poll"
    BY <1>6 DEF Start
  <2>2. QED
    BY <1>2, <2>1 DEF Expected, ToFetch, ToRecord, AtMostOnce
<1>7. CASE Evict
  <2>1. /\ UNCHANGED <<anomalies, generation, pc, position, cursor, end, found>>
        /\ member = "member" /\ member' = "evicted"
    BY <1>7 DEF Evict
  <2>2. QED
    BY <1>2, <2>1 DEF Expected, ToFetch, ToRecord, AtMostOnce, RepeatsInv
<1>8. CASE Poll
  <2>1. /\ UNCHANGED <<anomalies, generation, member>> /\ pc = "poll" /\ pc' = "batch"
        /\ cursor' = position /\ position' = end' /\ member # "none"
    BY <1>8 DEF Poll
  <2>2. end' \in Int /\ position < end'
    BY <1>1, <1>8 DEF Poll
  <2>3. QED
    BY <1>1, <1>2, <2>1, <2>2 DEF Expected, ToFetch, ToRecord, AtMostOnce
<1>9. CASE Commit
  <2>1. UNCHANGED <<anomalies, generation, member, position>> /\ pc = "batch" /\ pc' = "poll"
    BY <1>9 DEF Commit
  <2>2. QED
    BY <1>1, <1>2, <2>1 DEF Expected, ToFetch, ToRecord, AtMostOnce
<1>10. CASE SkipMalformed \/ Normal \/ WindowFails \/ Publish
  <2>1. /\ UNCHANGED <<anomalies, generation, member, position, end>> /\ cursor' = cursor + 1
        /\ pc \in {"batch", "publish"} /\ pc' = "batch"
    BY <1>10 DEF SkipMalformed, Normal, WindowFails, Publish, Return, InHand
  <2>2. QED
    BY <1>1, <1>2, <2>1 DEF Expected, ToFetch, ToRecord, AtMostOnce
<1>11. CASE Detect
  <2>1. /\ UNCHANGED <<anomalies, generation, member, position, cursor, end>>
        /\ pc = "batch" /\ pc' = "record" /\ found'.at = cursor
    BY <1>11 DEF Detect, InHand
  <2>2. QED
    BY <1>2, <2>1 DEF Expected, ToFetch, ToRecord, AtMostOnce
<1>12. CASE Record
  BY <1>12, RecordRepeats
<1>13. QED
  BY <1>3, <1>4, <1>5, <1>6, <1>7, <1>8, <1>9, <1>10, <1>11, <1>12
     DEF Next, Service, ProcessEvent, PollEmpty

(* An event has no more rows than its partition has had assignments: no    *)
(* other step makes process_event run for it again.                        *)
THEOREM DetectionOncePerAssignment == Spec => []DuplicatesBoundedByAssignments
<1>1. Init => RepeatsInv
  <2>1. ASSUME Init, NEW o \in Nat
        PROVE  RowsAt(o) = {} /\ Expected(o) = 0 /\ generation = 0 /\ pc = "down"
    BY <2>1 DEF Init, RowsAt, Expected, ToFetch, ToRecord, AtMostOnce
  <2>2. ASSUME Init, NEW o \in Nat
        PROVE  /\ IsFiniteSet(RowsAt(o))
               /\ Cardinality(RowsAt(o)) + Expected(o) <= generation
    <3>1. IsFiniteSet(RowsAt(o)) /\ Cardinality(RowsAt(o)) = 0
      BY <2>1, <2>2, FS_EmptySet
    <3>2. QED
      BY <2>1, <2>2, <3>1
  <2>3. QED
    BY <2>2 DEF RepeatsInv, Init
<1>2. DetectionInv /\ RepeatsInv => DuplicatesBoundedByAssignments
  <2>1. ASSUME DetectionInv, RepeatsInv, NEW a \in anomalies
        PROVE  Cardinality({b \in anomalies : b.at = a.at}) <= generation
    <3>1. a.at \in Nat /\ generation \in Nat
      BY <2>1 DEF DetectionInv, TypeOK, Anomaly
    <3>2. Cardinality(RowsAt(a.at)) \in Nat
      BY <2>1, <3>1, FS_CardinalityType DEF RepeatsInv
    <3>3. Cardinality(RowsAt(a.at)) + Expected(a.at) <= generation /\ Expected(a.at) \in 0..2
      BY <2>1, <3>1, ExpectedType DEF RepeatsInv
    <3>4. Cardinality(RowsAt(a.at)) <= generation
      BY <3>1, <3>2, <3>3
    <3>5. QED
      BY <3>4 DEF RowsAt
  <2>2. QED
    BY <2>1 DEF DuplicatesBoundedByAssignments
<1>3. QED
  BY <1>1, <1>2, NextRepeatsInv, DetectionInvariant, PTL DEF Spec

-----------------------------------------------------------------------------
(* The severity of the anomaly in hand is one its samples can reach, too.  *)

Reachable(a) == QuarterSquares[a.severity] <= 4 * (a.count - 1)

SeverityInv ==
    /\ SeverityNeedsSamples
    /\ pc \in {"record", "publish"} => Reachable(found)

(* What Reached lets through satisfies the bound of the deviation.         *)
LEMMA ReachedIsReachable ==
    ASSUME NEW S \in SUBSET Readings, IsFiniteSet(S), NEW x \in S, NEW s \in Reached(x.value, S)
    PROVE  QuarterSquares[s] <= 4 * (Cardinality(S) - 1)
<1> DEFINE D == Deviation(x.value, S)
           V == Spread(S)
           q == QuarterSquares[s]
           n == Cardinality(S)
<1>1. D \in Int /\ V \in Int /\ D * D <= (n - 1) * V /\ 0 <= V
  BY DeviationBound
<1>2. V # 0 /\ 4 * D * D >= q * V /\ s \in Severities
  BY DEF Reached
<1>3. n \in Nat /\ q \in Nat
  BY <1>2, FS_CardinalityType
<1> HIDE DEF D, V, q, n
<1>4. 4 * D * D = 4 * (D * D) /\ D * D \in Int /\ (n - 1) * V \in Int /\ q * V \in Int
  BY <1>1, <1>3
<1>5. q * V <= 4 * ((n - 1) * V)
  BY <1>1, <1>2, <1>4
<1>6. 4 * ((n - 1) * V) = V * (4 * (n - 1)) /\ q * V = V * q
  BY <1>1, <1>3
<1>7. q <= 4 * (n - 1)
  <2>1. V \in Nat /\ 4 * (n - 1) \in Int /\ q \in Int
    BY <1>1, <1>3
  <2>2. V * q <= V * (4 * (n - 1))
    BY <1>5, <1>6
  <2>3. QED
    BY <1>2, <2>1, <2>2, CancelFactor
<1>8. QED
  BY <1>7 DEF q, n

LEMMA DetectReachable == ASSUME DetectionInv, Detect PROVE Reachable(found)'
<1>1. window' \subseteq Readings /\ IsFiniteSet(window')
  BY AddReadingKeepsWindow DEF Detect, TrimmedInv
<1>2. Event \in window'
  <2>1. Event \in Readings
    BY EventIsReading DEF DetectionInv, Detect
  <2>2. Event.time \in Nat
    BY <2>1 DEF Readings
  <2>3. QED
    BY <2>2 DEF Detect, AddReading, Trimmed
<1>3. MostSevere(Reached(Event.value, window')) \in Reached(Event.value, window')
  <2>1. Reached(Event.value, window') \subseteq Severities
    BY DEF Reached
  <2>2. QED
    BY <2>1, MostSevereType DEF Detect
<1>4. QuarterSquares[MostSevere(Reached(Event.value, window'))] <= 4 * (Cardinality(window') - 1)
  BY <1>1, <1>2, <1>3, ReachedIsReachable
<1>5. QED
  BY <1>4 DEF Detect, Reachable

LEMMA NextSeverityInv == DetectionInv /\ SeverityInv /\ [Next]_vars => SeverityInv'
<1> SUFFICES ASSUME DetectionInv, SeverityInv, [Next]_vars PROVE SeverityInv'
  OBVIOUS
<1>1. CASE Detect
  BY <1>1, DetectReachable DEF Detect, SeverityInv, SeverityNeedsSamples
<1>2. CASE Record
  BY <1>2 DEF Record, SeverityInv, SeverityNeedsSamples, Reachable
<1>3. CASE ~ Detect /\ ~ Record
  <2>1. anomalies' = anomalies
    BY <1>3 DEF Next, Service, ProcessEvent, Ingest, LoseWindow, Start, Crash, CommitFails, Leave, Poll,
                PollEmpty, Commit, Rebalance, Evict, SkipMalformed, Normal, WindowFails, Publish,
                storeVars, vars
  <2>2. pc' \in {"record", "publish"} => pc' = pc /\ found' = found
    BY <1>3 DEF Next, Service, ProcessEvent, Ingest, LoseWindow, Start, Crash, CommitFails, Leave, Poll,
                PollEmpty, Commit, Rebalance, Evict, SkipMalformed, Normal, WindowFails, Publish,
                Return, serviceVars, vars
  <2>3. QED
    BY <2>1, <2>2 DEF SeverityInv, SeverityNeedsSamples, Reachable
<1>4. QED
  BY <1>1, <1>2, <1>3

(* No row has a severity that its samples cannot reach: a reading counts   *)
(* among its own samples, so |z| <= sqrt(count - 1), for every window,     *)
(* every set of values and every choice of thresholds.                     *)
THEOREM SeverityReachable == Spec => []SeverityNeedsSamples
<1>1. Init => SeverityInv
  BY DEF Init, SeverityInv, SeverityNeedsSamples
<1>2. SeverityInv => SeverityNeedsSamples
  BY DEF SeverityInv
<1>3. QED
  BY <1>1, <1>2, NextSeverityInv, DetectionInvariant, PTL DEF Spec

-----------------------------------------------------------------------------
(* The Diagnosis Service beside Anomaly Detection.  Its loop stays within  *)
(* what has been published, and Anomaly Detection sees nothing of it.      *)

DiagnosisLoop ==
    /\ dCommitted \in 0..Len(published) /\ dPosition \in 0..Len(published)
    /\ dEnd \in 0..Len(published) /\ dCursor \in 0..dEnd
    /\ dPc \in {"down", "exited", "poll", "batch", "persist"}
    /\ dPc = "persist" => dCursor < dEnd
    /\ dPc \in {"batch", "persist"} => dPosition \in {dEnd, dCommitted} /\ dMember # "none"
    /\ dGeneration \in Nat

(* The topic is that of the messages' ids.                                 *)
LEMMA AnnouncedIds ==
    ASSUME TypeOK
    PROVE  /\ Announced \in Seq(Nat) /\ Len(Announced) = Len(published)
           /\ \A k \in 1..Len(published) : Announced[k] = published[k].id
<1>1. published \in Seq(Anomaly) /\ DOMAIN published = 1..Len(published) /\ Len(published) \in Nat
  BY DEF TypeOK
<1>2. \A k \in 1..Len(published) : published[k] \in Anomaly
  BY <1>1
<1>3. \A k \in 1..Len(published) : published[k].id \in Nat
  BY <1>2 DEF Anomaly
<1>4. Announced = [k \in 1..Len(published) |-> published[k].id]
  BY <1>1 DEF Announced
<1>5. QED
  BY <1>1, <1>3, <1>4

(* No step of Anomaly Detection takes a message or a row back.             *)
LEMMA DetectionGrows ==
    ASSUME DetectionInv, Next
    PROVE  /\ \/ published' = published
              \/ pc = "publish" /\ published' = Append(published, found)
           /\ Len(published') \in Nat /\ Len(published) <= Len(published')
           /\ \A k \in 1..Len(published) : published'[k] = published[k]
<1>1. \/ published' = published
      \/ pc = "publish" /\ published' = Append(published, found)
  BY DEF Next, Service, ProcessEvent, Ingest, LoseWindow, Start, Crash, Rebalance, Evict, CommitFails, Leave,
         Poll, PollEmpty, Commit, SkipMalformed, Normal, Detect, WindowFails, Record, Publish, storeVars, vars
<1>2. published \in Seq(Anomaly) /\ found \in Anomaly
  BY DEF DetectionInv, TypeOK
<1>3. CASE published' = published
  BY <1>2, <1>3
<1>4. CASE pc = "publish" /\ published' = Append(published, found)
  BY <1>2, <1>4
<1>5. QED
  BY <1>1, <1>3, <1>4

LEMMA DetectionKeepsDiagnosisLoop ==
    ASSUME DetectionInv, DiagnosisLoop, DetectionStep PROVE DiagnosisLoop'
<1>1. Len(published) \in Nat /\ Len(published') \in Nat /\ Len(published) <= Len(published')
  BY DetectionGrows DEF DetectionStep, DetectionInv, TypeOK
<1>2. QED
  BY <1>1 DEF DetectionStep, diagnosisVars, DiagnosisLoop

LEMMA DiagnosisLoopStep ==
    ASSUME DetectionInv, DiagnosisLoop, DiagnosisStep PROVE DiagnosisLoop'
<1> USE DEF Diagnosing!groupVars
<1>1. TypeOK /\ Len(published) \in Nat /\ Len(Announced) = Len(published) /\ published' = published
  BY AnnouncedIds DEF DetectionInv, TypeOK, DiagnosisStep, storeVars
<1>2. CASE Diagnosing!Start
  BY <1>1, <1>2 DEF Diagnosing!Start, DiagnosisLoop
<1>3. CASE Diagnosing!Crash \/ Diagnosing!LoopEnds \/ Diagnosing!CommitFails
  BY <1>1, <1>3 DEF Diagnosing!Crash, Diagnosing!LoopEnds, Diagnosing!CommitFails, Diagnosing!Leave,
                    DiagnosisLoop
<1>4. CASE Diagnosing!Rebalance
  BY <1>1, <1>4 DEF Diagnosing!Rebalance, Diagnosing!StartOffset, DiagnosisLoop
<1>5. CASE Diagnosing!Evict
  BY <1>1, <1>5 DEF Diagnosing!Evict, Diagnosing!serviceVars, DiagnosisLoop
<1>6. CASE Diagnosing!Poll
  BY <1>1, <1>6 DEF Diagnosing!Poll, DiagnosisLoop
<1>7. CASE Diagnosing!PollEmpty
  BY <1>1, <1>7 DEF Diagnosing!PollEmpty, Diagnosing!vars, Diagnosing!serviceVars, DiagnosisLoop
<1>8. CASE Diagnosing!Commit
  BY <1>1, <1>8 DEF Diagnosing!Commit, DiagnosisLoop
<1>9. CASE Diagnosing!ProcessMessage
  <2>1. \/ Diagnosing!Return /\ dPc \in {"batch", "persist"} /\ dCursor < dEnd
        \/ /\ dPc = "batch" /\ dCursor < dEnd /\ dPc' = "persist"
           /\ UNCHANGED <<dCommitted, dPosition, dCursor, dEnd, dMember, dGeneration>>
    BY <1>9 DEF Diagnosing!ProcessMessage, Diagnosing!SkipUnreadable, Diagnosing!Generate,
                Diagnosing!GenerateFails, Diagnosing!Persist, DiagnosisLoop
  <2>2. QED
    BY <1>1, <2>1 DEF Diagnosing!Return, DiagnosisLoop
<1>10. QED
  BY <1>2, <1>3, <1>4, <1>5, <1>6, <1>7, <1>8, <1>9 DEF DiagnosisStep, Diagnosing!Service

(* DetectionInv speaks of Anomaly Detection only.                          *)
LEMMA PipelineDetectionInv == DetectionInv /\ [PipelineNext]_pipelineVars => DetectionInv'
<1>1. DiagnosisStep /\ DetectionInv => DetectionInv'
  <2>1. ASSUME DiagnosisStep, DetectionInv PROVE DetectionInv'
    <3>1. faults' \in Nat
      BY <2>1 DEF DiagnosisStep, Diagnosing!Service, Diagnosing!Start, Diagnosing!Crash, Diagnosing!LoopEnds,
                  Diagnosing!CommitFails, Diagnosing!Rebalance, Diagnosing!Evict, Diagnosing!Poll,
                  Diagnosing!PollEmpty, Diagnosing!Commit, Diagnosing!ProcessMessage, Diagnosing!SkipUnreadable, Diagnosing!Generate, Diagnosing!GenerateFails, Diagnosing!Persist,
                  Diagnosing!Fault, Diagnosing!vars, DetectionInv, TypeOK
    <3>2. UNCHANGED <<enriched, committed, groupVars, windowVars, storeVars, serviceVars, examined>>
      BY <2>1 DEF DiagnosisStep
    <3>3. QED
      BY <2>1, <3>1, <3>2 DEF groupVars, windowVars, storeVars, serviceVars, DetectionInv, TypeOK,
                              TrimmedInv, RecentKept, LoopInv, CommittedIsExamined
  <2>2. QED
    BY <2>1
<1>2. QED
  BY <1>1, NextDetectionInv DEF PipelineNext, DetectionStep, pipelineVars

-----------------------------------------------------------------------------
(* The foreign key.  An anomaly is published after its INSERT has ended,   *)
(* so that no INSERT can follow a message.                                 *)

PublishedIds == {published[k].id : k \in 1..Len(published)}

IdsInv ==
    /\ \A id \in PublishedIds : id < nextId
    /\ pc \in {"record", "publish"} => found.id < nextId /\ found.id \notin PublishedIds
    /\ rejected \subseteq PublishedIds
    /\ ForeignKeyNeverRaces

LEMMA DetectionKeepsIds ==
    ASSUME DetectionInv, IdsInv, DetectionStep PROVE IdsInv'
<1>t. /\ TypeOK /\ nextId \in Nat /\ published \in Seq(Anomaly) /\ found \in Anomaly /\ found.id \in Nat
      /\ \A id \in PublishedIds : id \in Nat
  <2>1. TypeOK /\ nextId \in Nat /\ published \in Seq(Anomaly) /\ found \in Anomaly
    BY DEF DetectionInv, TypeOK
  <2>2. \A k \in 1..Len(published) : published[k] \in Anomaly
    BY <2>1
  <2>3. QED
    BY <2>1, <2>2 DEF Anomaly, PublishedIds
<1>r. rejected' = rejected
  BY DEF DetectionStep, diagnosisVars
<1>1. CASE Detect
  <2>1. /\ UNCHANGED <<anomalies, published>> /\ nextId' = nextId + 1 /\ found'.id = nextId
    BY <1>1 DEF Detect
  <2>2. PublishedIds' = PublishedIds /\ StoredIds' = StoredIds
    BY <2>1 DEF PublishedIds, StoredIds
  <2>3. QED
    BY <1>t, <1>r, <2>1, <2>2 DEF IdsInv, ForeignKeyNeverRaces
<1>2. CASE Record
  <2>1. /\ pc = "record" /\ UNCHANGED <<published, nextId, found>>
        /\ anomalies' \subseteq anomalies \cup {found}
    BY <1>2 DEF Record
  <2>2. PublishedIds' = PublishedIds /\ StoredIds' \subseteq StoredIds \cup {found.id}
    BY <2>1 DEF PublishedIds, StoredIds
  <2>3. QED
    BY <1>t, <1>r, <2>1, <2>2 DEF IdsInv, ForeignKeyNeverRaces
<1>3. CASE Publish
  <2>1. /\ pc = "publish" /\ pc' = "batch" /\ UNCHANGED <<anomalies, nextId>>
        /\ published' = published \/ published' = Append(published, found)
    BY <1>3 DEF Publish, Return
  <2>2. PublishedIds \subseteq PublishedIds' /\ PublishedIds' \subseteq PublishedIds \cup {found.id}
    <3>1. CASE published' = published
      BY <3>1 DEF PublishedIds
    <3>2. CASE published' = Append(published, found)
      <4>1. /\ Len(published') = Len(published) + 1 /\ published'[Len(published) + 1] = found
            /\ \A k \in 1..Len(published) : published'[k] = published[k]
            /\ Len(published) \in Nat
        BY <1>t, <3>2
      <4>2. QED
        BY <4>1 DEF PublishedIds
    <3>3. QED
      BY <2>1, <3>1, <3>2
  <2>3. StoredIds' = StoredIds
    BY <2>1 DEF StoredIds
  <2>4. QED
    BY <1>t, <1>r, <2>1, <2>2, <2>3 DEF IdsInv, ForeignKeyNeverRaces
<1>4. CASE /\ UNCHANGED <<anomalies, published, nextId>>
           /\ pc' \in {"record", "publish"} => pc = pc' /\ found' = found
  <2>1. PublishedIds' = PublishedIds /\ StoredIds' = StoredIds
    BY <1>4 DEF PublishedIds, StoredIds
  <2>2. QED
    BY <1>r, <1>4, <2>1 DEF IdsInv, ForeignKeyNeverRaces
<1>5. QED
  <2>1. ASSUME ~Detect, ~Record, ~Publish
        PROVE  /\ UNCHANGED <<anomalies, published, nextId>>
               /\ pc' \in {"record", "publish"} => pc = pc' /\ found' = found
    BY <2>1 DEF DetectionStep, Next, Service, ProcessEvent, Ingest, LoseWindow, Start, Crash, Rebalance,
                Evict, CommitFails, Leave, Poll, PollEmpty, Commit, SkipMalformed, Normal, WindowFails, Return, storeVars,
                serviceVars, vars
  <2>2. QED
    BY <1>1, <1>2, <1>3, <1>4, <2>1

LEMMA DiagnosisKeepsIds ==
    ASSUME DetectionInv, DiagnosisLoop, IdsInv, DiagnosisStep PROVE IdsInv'
<1>1. UNCHANGED <<anomalies, published, nextId, pc, found>>
  BY DEF DiagnosisStep, storeVars, serviceVars
<1>2. PublishedIds' = PublishedIds /\ StoredIds' = StoredIds
  BY <1>1 DEF PublishedIds, StoredIds
<1>3. CASE rejected' = rejected
  BY <1>1, <1>2, <1>3 DEF IdsInv, ForeignKeyNeverRaces
<1>4. CASE Diagnosing!Persist /\ rejected' # rejected
  <2>1. /\ dPc = "persist" /\ Diagnosing!Message \notin StoredIds
        /\ rejected' = rejected \cup {Diagnosing!Message}
    BY <1>4 DEF Diagnosing!Persist, Diagnosing!InsertDiagnosis, Diagnosing!storeVars
  <2>2. dCursor + 1 \in 1..Len(published) /\ Diagnosing!Message = Announced[dCursor + 1]
    BY <2>1 DEF DetectionInv, TypeOK, DiagnosisLoop, Diagnosing!Message
  <2>3. Diagnosing!Message \in PublishedIds
    BY <2>2, AnnouncedIds DEF DetectionInv, PublishedIds
  <2>4. QED
    BY <1>1, <1>2, <2>1, <2>3 DEF IdsInv, ForeignKeyNeverRaces
<1>5. QED
  BY <1>3, <1>4
     DEF DiagnosisStep, Diagnosing!Service, Diagnosing!Start, Diagnosing!Crash, Diagnosing!LoopEnds,
         Diagnosing!CommitFails, Diagnosing!Rebalance, Diagnosing!Evict, Diagnosing!Poll, Diagnosing!PollEmpty, Diagnosing!Commit, Diagnosing!ProcessMessage,
         Diagnosing!SkipUnreadable, Diagnosing!Generate, Diagnosing!GenerateFails, Diagnosing!storeVars,
         Diagnosing!vars

-----------------------------------------------------------------------------
(* Repetitions along the pipeline.  Like the rows, the messages of an      *)
(* event, those still to come included, need an assignment each of the     *)
(* partition to Anomaly Detection, and the diagnoses of a message an       *)
(* assignment to the Diagnosis Service.                                    *)

MessagesAt(o)  == {k \in 1..Len(published) : published[k].at = o}
DiagnosesAt(k) == {d \in diagnoses : d.at = k}

ToTell(o) == AtMostOnce(pc \in Processing /\ cursor <= o /\ o < end)

ToRefetch(k)  == AtMostOnce(dMember # "none" /\ dPosition <= k)
ToDiagnose(k) == AtMostOnce(dPc \in {"batch", "persist"} /\ dCursor <= k /\ k < dEnd)

MessagesToCome(o)  == ToFetch(o) + ToTell(o)
DiagnosesToCome(k) == ToRefetch(k) + ToDiagnose(k)

MessagesInv ==
    /\ pc \in {"record", "publish"} => found.at = cursor
    /\ \A o \in Nat : /\ IsFiniteSet(MessagesAt(o))
                      /\ Cardinality(MessagesAt(o)) + MessagesToCome(o) <= generation

DiagnosesInv ==
    /\ \A d \in diagnoses : d.at \in 0..(Len(published) - 1)
    /\ \A k \in Nat : /\ IsFiniteSet(DiagnosesAt(k))
                      /\ Cardinality(DiagnosesAt(k)) + DiagnosesToCome(k) <= dGeneration

(* A count S stays within its bound n, with r still to come, if one more   *)
(* in it is one less to come, and one more to come a bound larger by one.  *)
LEMMA Room ==
    ASSUME NEW S, NEW T, NEW x, IsFiniteSet(S), NEW n \in Nat, NEW m \in Nat,
           NEW r \in 0..2, NEW q \in 0..2, Cardinality(S) + r <= n,
           \/ T = S /\ q + n <= r + m
           \/ T \subseteq S \cup {x} /\ q + 1 + n <= r + m
    PROVE  IsFiniteSet(T) /\ Cardinality(T) + q <= m
<1>1. Cardinality(S) \in Nat
  BY FS_CardinalityType
<1>2. CASE T = S /\ q + n <= r + m
  BY <1>1, <1>2
<1>3. CASE T \subseteq S \cup {x} /\ q + 1 + n <= r + m
  <2>1. /\ IsFiniteSet(S \cup {x})
        /\ Cardinality(S \cup {x}) \in {Cardinality(S), Cardinality(S) + 1}
    BY FS_AddElement
  <2>2. /\ IsFiniteSet(T) /\ Cardinality(T) <= Cardinality(S \cup {x})
        /\ Cardinality(T) \in Nat
    BY <1>3, <2>1, FS_Subset, FS_CardinalityType
  <2>3. QED
    BY <1>1, <1>3, <2>1, <2>2
<1>4. QED
  BY <1>2, <1>3

LEMMA DetectionKeepsMessages ==
    ASSUME DetectionInv, MessagesInv, Next PROVE MessagesInv'
<1> USE DEF groupVars, serviceVars, storeVars
<1>t. /\ TypeOK /\ cursor \in Nat /\ position \in Nat /\ end \in Nat /\ generation \in Nat
      /\ published \in Seq(Anomaly) /\ found \in Anomaly
  BY DEF DetectionInv, TypeOK
<1>c. ASSUME NEW o \in Nat
      PROVE  /\ IsFiniteSet(MessagesAt(o)) /\ Cardinality(MessagesAt(o)) + MessagesToCome(o) <= generation
             /\ MessagesToCome(o) \in 0..2 /\ MessagesToCome(o)' \in 0..2
  <2>1. IsFiniteSet(MessagesAt(o)) /\ Cardinality(MessagesAt(o)) + MessagesToCome(o) <= generation
    BY DEF MessagesInv
  <2>2. MessagesToCome(o) \in 0..2 /\ MessagesToCome(o)' \in 0..2
    BY DEF MessagesToCome, ToFetch, ToTell, AtMostOnce
  <2>3. QED
    BY <2>1, <2>2
<1>s. ASSUME NEW o \in Nat, NEW x, generation' \in Nat,
             \/ MessagesAt(o)' = MessagesAt(o) /\ MessagesToCome(o)' + generation <= MessagesToCome(o) + generation'
             \/ /\ MessagesAt(o)' \subseteq MessagesAt(o) \cup {x}
                /\ MessagesToCome(o)' + 1 + generation <= MessagesToCome(o) + generation'
      PROVE  /\ IsFiniteSet(MessagesAt(o)')
             /\ Cardinality(MessagesAt(o)') + MessagesToCome(o)' <= generation'
  BY <1>c, <1>s, <1>t, Room
<1>1. ASSUME UNCHANGED <<published, generation>>,
             pc' \in {"record", "publish"} => found'.at = cursor',
             \A o \in Nat : MessagesToCome(o)' <= MessagesToCome(o)
      PROVE  MessagesInv'
  <2>1. ASSUME NEW o \in Nat
        PROVE  /\ IsFiniteSet(MessagesAt(o)')
               /\ Cardinality(MessagesAt(o)') + MessagesToCome(o)' <= generation'
    <3>1. MessagesAt(o)' = MessagesAt(o)
      BY <1>1 DEF MessagesAt
    <3>2. MessagesToCome(o)' + generation <= MessagesToCome(o) + generation'
      BY <1>1, <1>c, <1>t
    <3>3. QED
      BY <1>1, <1>s, <1>t, <3>1, <3>2
  <2>2. QED
    BY <1>1, <2>1 DEF MessagesInv
<1>2. CASE Rebalance
  <2>1. generation' = generation + 1 /\ UNCHANGED <<published, pc, cursor, end, found>>
    BY <1>2 DEF Rebalance
  <2>2. ASSUME NEW o \in Nat
        PROVE  /\ IsFiniteSet(MessagesAt(o)')
               /\ Cardinality(MessagesAt(o)') + MessagesToCome(o)' <= generation'
    <3>1. MessagesAt(o)' = MessagesAt(o)
      BY <2>1 DEF MessagesAt
    <3>2. MessagesToCome(o)' <= MessagesToCome(o) + 1
      BY <2>1 DEF MessagesToCome, ToFetch, ToTell, AtMostOnce
    <3>3. MessagesToCome(o)' + generation <= MessagesToCome(o) + generation' /\ generation' \in Nat
      BY <1>c, <1>t, <2>1, <3>2
    <3>4. QED
      BY <1>s, <3>1, <3>3
  <2>3. QED
    BY <2>1, <2>2 DEF MessagesInv
<1>3. CASE Publish
  <2>1. /\ pc = "publish" /\ pc' = "batch" /\ cursor' = cursor + 1
        /\ UNCHANGED <<generation, member, position, end>>
        /\ published' = published \/ published' = Append(published, found)
    BY <1>3 DEF Publish, Return
  <2>2. \A o \in Nat : MessagesToCome(o)' <= MessagesToCome(o)
    BY <1>t, <2>1 DEF MessagesToCome, ToFetch, ToTell, AtMostOnce, Processing
  <2>3. CASE published' = published
    BY <1>1, <2>1, <2>2, <2>3
  <2>4. CASE published' = Append(published, found)
    <3>1. /\ Len(published') = Len(published) + 1 /\ published'[Len(published) + 1] = found
          /\ \A k \in 1..Len(published) : published'[k] = published[k]
          /\ Len(published) \in Nat /\ found.at = cursor
      BY <1>t, <2>1, <2>4 DEF MessagesInv
    <3>2. ASSUME NEW o \in Nat, o # cursor
          PROVE  /\ IsFiniteSet(MessagesAt(o)')
                 /\ Cardinality(MessagesAt(o)') + MessagesToCome(o)' <= generation'
      <4>1. MessagesAt(o)' = MessagesAt(o)
        <5>1. 1..Len(published') = (1..Len(published)) \cup {Len(published) + 1}
          BY <3>1
        <5>2. QED
          BY <3>1, <3>2, <5>1 DEF MessagesAt
      <4>2. MessagesToCome(o)' + generation <= MessagesToCome(o) + generation' /\ generation' \in Nat
        BY <1>c, <1>t, <2>1, <2>2
      <4>3. QED
        BY <1>s, <4>1, <4>2
    <3>3. ASSUME NEW o \in Nat, o = cursor
          PROVE  /\ IsFiniteSet(MessagesAt(o)')
                 /\ Cardinality(MessagesAt(o)') + MessagesToCome(o)' <= generation'
      <4>1. MessagesAt(o)' \subseteq MessagesAt(o) \cup {Len(published) + 1}
        BY <3>1 DEF MessagesAt
      <4>2. cursor < end
        BY <2>1 DEF DetectionInv, TypeOK
      <4>3. MessagesToCome(o)' = MessagesToCome(o) - 1
        BY <1>t, <2>1, <3>3, <4>2 DEF MessagesToCome, ToFetch, ToTell, AtMostOnce, Processing
      <4>4. MessagesToCome(o)' + 1 + generation <= MessagesToCome(o) + generation' /\ generation' \in Nat
        BY <1>c, <1>t, <2>1, <4>3
      <4>5. QED
        BY <1>s, <4>1, <4>4
    <3>4. QED
      BY <2>1, <3>2, <3>3 DEF MessagesInv
  <2>5. QED
    BY <2>1, <2>3, <2>4
<1>4. CASE (\E event \in Readings \cup {Malformed} : Ingest(event)) \/ LoseWindow \/ PollEmpty
  <2>1. UNCHANGED <<published, generation, member, pc, position, cursor, end, found>>
    BY <1>4 DEF Ingest, LoseWindow, PollEmpty, vars
  <2>2. QED
    BY <1>1, <1>c, <2>1 DEF MessagesToCome, ToFetch, ToTell, AtMostOnce, MessagesInv
<1>5. CASE Crash \/ CommitFails
  <2>1. UNCHANGED <<published, generation>> /\ pc' = "down" /\ member' = "none"
    BY <1>5 DEF Crash, CommitFails, Leave
  <2>2. QED
    BY <1>1, <2>1 DEF MessagesToCome, ToFetch, ToTell, AtMostOnce, Processing
<1>6. CASE Start
  <2>1. UNCHANGED <<published, generation, member, position>> /\ pc = "down" /\ pc' = "poll"
    BY <1>6 DEF Start
  <2>2. QED
    BY <1>1, <2>1 DEF MessagesToCome, ToFetch, ToTell, AtMostOnce, Processing
<1>7. CASE Evict
  <2>1. /\ UNCHANGED <<published, generation, pc, position, cursor, end, found>>
        /\ member = "member" /\ member' = "evicted"
    BY <1>7 DEF Evict
  <2>2. QED
    BY <1>1, <1>c, <2>1 DEF MessagesToCome, ToFetch, ToTell, AtMostOnce, MessagesInv
<1>8. CASE Poll
  <2>1. /\ UNCHANGED <<published, generation, member>> /\ pc = "poll" /\ pc' = "batch"
        /\ cursor' = position /\ position' = end' /\ member # "none"
    BY <1>8 DEF Poll
  <2>2. end' \in Int /\ position < end'
    BY <1>t, <1>8 DEF Poll
  <2>3. QED
    BY <1>1, <1>t, <2>1, <2>2 DEF MessagesToCome, ToFetch, ToTell, AtMostOnce, Processing
<1>9. CASE Commit
  <2>1. UNCHANGED <<published, generation, member, position>> /\ pc = "batch" /\ pc' = "poll"
    BY <1>9 DEF Commit
  <2>2. QED
    BY <1>1, <2>1 DEF MessagesToCome, ToFetch, ToTell, AtMostOnce, Processing
<1>10. CASE SkipMalformed \/ Normal \/ WindowFails
  <2>1. /\ UNCHANGED <<published, generation, member, position, end>> /\ cursor' = cursor + 1
        /\ pc = "batch" /\ pc' = "batch"
    BY <1>10 DEF SkipMalformed, Normal, WindowFails, Return, InHand
  <2>2. QED
    BY <1>1, <1>t, <2>1 DEF MessagesToCome, ToFetch, ToTell, AtMostOnce, Processing
<1>11. CASE Detect \/ Record
  <2>1. /\ UNCHANGED <<published, generation, member, position, cursor, end>>
        /\ pc \in Processing /\ pc' \in {"record", "publish"} /\ found'.at = cursor
    BY <1>11 DEF Detect, Record, InHand, MessagesInv, Processing
  <2>2. QED
    BY <1>1, <2>1 DEF MessagesToCome, ToFetch, ToTell, AtMostOnce, Processing
<1>12. QED
  BY <1>2, <1>3, <1>4, <1>5, <1>6, <1>7, <1>8, <1>9, <1>10, <1>11 DEF Next, Service, ProcessEvent

LEMMA PipelineMessages ==
    DetectionInv /\ MessagesInv /\ [PipelineNext]_pipelineVars => MessagesInv'
<1> DEFINE Seen == <<published, generation, member, pc, position, cursor, end, found>>
<1>1. ASSUME MessagesInv, UNCHANGED Seen PROVE MessagesInv'
  BY <1>1 DEF MessagesInv, MessagesAt, MessagesToCome, ToFetch, ToTell, AtMostOnce
<1>2. DiagnosisStep \/ UNCHANGED pipelineVars => UNCHANGED Seen
  BY DEF DiagnosisStep, pipelineVars, vars, groupVars, storeVars, serviceVars
<1> HIDE DEF Seen
<1>3. QED
  BY <1>1, <1>2, DetectionKeepsMessages DEF PipelineNext, DetectionStep

LEMMA DiagnosisKeepsDiagnoses ==
    ASSUME DetectionInv, DiagnosisLoop, DiagnosesInv, DiagnosisStep PROVE DiagnosesInv'
<1> USE DEF Diagnosing!groupVars, Diagnosing!storeVars
<1>t. /\ Len(published) \in Nat /\ published' = published /\ dCursor \in Nat /\ dPosition \in Nat
      /\ dEnd \in Nat /\ dGeneration \in Nat
  BY DEF DetectionInv, TypeOK, DiagnosisLoop, DiagnosisStep, storeVars
<1>c. ASSUME NEW k \in Nat
      PROVE  /\ IsFiniteSet(DiagnosesAt(k)) /\ Cardinality(DiagnosesAt(k)) + DiagnosesToCome(k) <= dGeneration
             /\ DiagnosesToCome(k) \in 0..2 /\ DiagnosesToCome(k)' \in 0..2
  <2>1. IsFiniteSet(DiagnosesAt(k)) /\ Cardinality(DiagnosesAt(k)) + DiagnosesToCome(k) <= dGeneration
    BY DEF DiagnosesInv
  <2>2. DiagnosesToCome(k) \in 0..2 /\ DiagnosesToCome(k)' \in 0..2
    BY DEF DiagnosesToCome, ToRefetch, ToDiagnose, AtMostOnce
  <2>3. QED
    BY <2>1, <2>2
<1>s. ASSUME NEW k \in Nat, NEW x, dGeneration' \in Nat,
             \/ DiagnosesAt(k)' = DiagnosesAt(k) /\ DiagnosesToCome(k)' + dGeneration <= DiagnosesToCome(k) + dGeneration'
             \/ /\ DiagnosesAt(k)' \subseteq DiagnosesAt(k) \cup {x}
                /\ DiagnosesToCome(k)' + 1 + dGeneration <= DiagnosesToCome(k) + dGeneration'
      PROVE  /\ IsFiniteSet(DiagnosesAt(k)')
             /\ Cardinality(DiagnosesAt(k)') + DiagnosesToCome(k)' <= dGeneration'
  BY <1>c, <1>s, <1>t, Room
<1>1. ASSUME UNCHANGED <<diagnoses, dGeneration>>,
             \A k \in Nat : DiagnosesToCome(k)' <= DiagnosesToCome(k)
      PROVE  DiagnosesInv'
  <2>1. ASSUME NEW k \in Nat
        PROVE  /\ IsFiniteSet(DiagnosesAt(k)')
               /\ Cardinality(DiagnosesAt(k)') + DiagnosesToCome(k)' <= dGeneration'
    <3>1. DiagnosesAt(k)' = DiagnosesAt(k)
      BY <1>1 DEF DiagnosesAt
    <3>2. DiagnosesToCome(k)' + dGeneration <= DiagnosesToCome(k) + dGeneration'
      BY <1>1, <1>c, <1>t
    <3>3. QED
      BY <1>1, <1>s, <1>t, <3>1, <3>2
  <2>2. \A d \in diagnoses' : d.at \in 0..(Len(published') - 1)
    BY <1>1, <1>t DEF DiagnosesInv
  <2>3. QED
    BY <2>1, <2>2 DEF DiagnosesInv
<1>2. CASE Diagnosing!Rebalance
  <2>1. dGeneration' = dGeneration + 1 /\ UNCHANGED <<diagnoses, dPc, dCursor, dEnd>>
    BY <1>2 DEF Diagnosing!Rebalance
  <2>2. ASSUME NEW k \in Nat
        PROVE  /\ IsFiniteSet(DiagnosesAt(k)')
               /\ Cardinality(DiagnosesAt(k)') + DiagnosesToCome(k)' <= dGeneration'
    <3>1. DiagnosesAt(k)' = DiagnosesAt(k)
      BY <2>1 DEF DiagnosesAt
    <3>2. DiagnosesToCome(k)' <= DiagnosesToCome(k) + 1
      BY <2>1 DEF DiagnosesToCome, ToRefetch, ToDiagnose, AtMostOnce
    <3>3. /\ DiagnosesToCome(k)' + dGeneration <= DiagnosesToCome(k) + dGeneration'
          /\ dGeneration' \in Nat
      BY <1>c, <1>t, <2>1, <3>2
    <3>4. QED
      BY <1>s, <3>1, <3>3
  <2>3. \A d \in diagnoses' : d.at \in 0..(Len(published') - 1)
    BY <1>t, <2>1 DEF DiagnosesInv
  <2>4. QED
    BY <2>2, <2>3 DEF DiagnosesInv
<1>3. CASE Diagnosing!Crash \/ Diagnosing!LoopEnds \/ Diagnosing!CommitFails
  <2>1. UNCHANGED <<diagnoses, dGeneration>> /\ dPc' \in {"down", "exited"} /\ dMember' = "none"
    BY <1>3 DEF Diagnosing!Crash, Diagnosing!LoopEnds, Diagnosing!CommitFails, Diagnosing!Leave
  <2>2. QED
    BY <1>1, <2>1 DEF DiagnosesToCome, ToRefetch, ToDiagnose, AtMostOnce
<1>4. CASE Diagnosing!Start
  <2>1. /\ UNCHANGED <<diagnoses, dGeneration, dMember, dPosition>>
        /\ dPc \in {"down", "exited"} /\ dPc' = "poll"
    BY <1>4 DEF Diagnosing!Start
  <2>2. QED
    BY <1>1, <2>1 DEF DiagnosesToCome, ToRefetch, ToDiagnose, AtMostOnce
<1>5. CASE Diagnosing!Evict
  <2>1. /\ UNCHANGED <<diagnoses, dGeneration, dPc, dPosition, dCursor, dEnd>>
        /\ dMember = "member" /\ dMember' = "evicted"
    BY <1>5 DEF Diagnosing!Evict, Diagnosing!serviceVars
  <2>2. QED
    BY <1>1, <2>1 DEF DiagnosesToCome, ToRefetch, ToDiagnose, AtMostOnce
<1>6. CASE Diagnosing!Poll
  <2>1. /\ UNCHANGED <<diagnoses, dGeneration, dMember>> /\ dPc = "poll" /\ dPc' = "batch"
        /\ dCursor' = dPosition /\ dPosition' = dEnd' /\ dMember # "none"
    BY <1>6 DEF Diagnosing!Poll
  <2>2. dEnd' \in Int /\ dPosition < dEnd'
    BY <1>t, <1>6 DEF Diagnosing!Poll
  <2>3. QED
    BY <1>1, <1>t, <2>1, <2>2 DEF DiagnosesToCome, ToRefetch, ToDiagnose, AtMostOnce
<1>7. CASE Diagnosing!PollEmpty
  BY <1>1, <1>7 DEF Diagnosing!PollEmpty, Diagnosing!vars, Diagnosing!serviceVars, DiagnosesToCome,
                    ToRefetch, ToDiagnose, AtMostOnce
<1>8. CASE Diagnosing!Commit
  <2>1. UNCHANGED <<diagnoses, dGeneration, dMember, dPosition>> /\ dPc = "batch" /\ dPc' = "poll"
    BY <1>8 DEF Diagnosing!Commit
  <2>2. QED
    BY <1>1, <2>1 DEF DiagnosesToCome, ToRefetch, ToDiagnose, AtMostOnce
<1>9. CASE Diagnosing!SkipUnreadable \/ Diagnosing!Generate \/ Diagnosing!GenerateFails
  <2>1. /\ UNCHANGED <<diagnoses, dGeneration, dMember, dPosition, dEnd>>
        /\ dPc = "batch" /\ dPc' \in {"batch", "persist"} /\ dCursor' \in {dCursor, dCursor + 1}
    BY <1>9 DEF Diagnosing!SkipUnreadable, Diagnosing!Generate, Diagnosing!GenerateFails, Diagnosing!Return
  <2>2. QED
    BY <1>1, <1>t, <2>1 DEF DiagnosesToCome, ToRefetch, ToDiagnose, AtMostOnce
<1>10. CASE Diagnosing!Persist
  <2>1. /\ dPc = "persist" /\ dPc' = "batch" /\ dCursor' = dCursor + 1
        /\ UNCHANGED <<dGeneration, dMember, dPosition, dEnd>>
        /\ diagnoses' = diagnoses \/ diagnoses' = diagnoses \cup {Diagnosing!Diagnosis}
    BY <1>10 DEF Diagnosing!Persist, Diagnosing!Return, Diagnosing!InsertDiagnosis
  <2>2. /\ Diagnosing!Diagnosis.at = dCursor /\ dCursor \in 0..(Len(published) - 1)
        /\ dCursor < dEnd
    BY <1>t, <2>1 DEF Diagnosing!Diagnosis, DiagnosisLoop
  <2>3. \A d \in diagnoses' : d.at \in 0..(Len(published') - 1)
    BY <1>t, <2>1, <2>2 DEF DiagnosesInv
  <2>4. ASSUME NEW k \in Nat, k # dCursor
        PROVE  /\ IsFiniteSet(DiagnosesAt(k)')
               /\ Cardinality(DiagnosesAt(k)') + DiagnosesToCome(k)' <= dGeneration'
    <3>1. DiagnosesAt(k)' = DiagnosesAt(k)
      BY <2>1, <2>2, <2>4 DEF DiagnosesAt
    <3>2. DiagnosesToCome(k)' <= DiagnosesToCome(k)
      BY <1>t, <2>1 DEF DiagnosesToCome, ToRefetch, ToDiagnose, AtMostOnce
    <3>3. /\ DiagnosesToCome(k)' + dGeneration <= DiagnosesToCome(k) + dGeneration'
          /\ dGeneration' \in Nat
      BY <1>c, <1>t, <2>1, <3>2
    <3>4. QED
      BY <1>s, <3>1, <3>3
  <2>5. ASSUME NEW k \in Nat, k = dCursor
        PROVE  /\ IsFiniteSet(DiagnosesAt(k)')
               /\ Cardinality(DiagnosesAt(k)') + DiagnosesToCome(k)' <= dGeneration'
    <3>1. DiagnosesAt(k)' \subseteq DiagnosesAt(k) \cup {Diagnosing!Diagnosis}
      BY <2>1 DEF DiagnosesAt
    <3>2. ToDiagnose(k) = 1 /\ ToDiagnose(k)' = 0
      BY <1>t, <2>1, <2>2, <2>5 DEF ToDiagnose, AtMostOnce
    <3>3. ToRefetch(k)' = ToRefetch(k) /\ ToRefetch(k) \in 0..1
      BY <2>1 DEF ToRefetch, AtMostOnce
    <3>4. /\ DiagnosesToCome(k)' + 1 + dGeneration <= DiagnosesToCome(k) + dGeneration'
          /\ dGeneration' \in Nat
      BY <1>t, <2>1, <3>2, <3>3 DEF DiagnosesToCome
    <3>5. QED
      BY <1>s, <3>1, <3>4
  <2>6. QED
    BY <2>1, <2>3, <2>4, <2>5 DEF DiagnosesInv
<1>11. QED
  BY <1>2, <1>3, <1>4, <1>5, <1>6, <1>7, <1>8, <1>9, <1>10
     DEF DiagnosisStep, Diagnosing!Service, Diagnosing!ProcessMessage

LEMMA DetectionKeepsDiagnoses ==
    ASSUME DetectionInv, DiagnosesInv, DetectionStep PROVE DiagnosesInv'
<1>1. Len(published) \in Nat /\ Len(published') \in Nat /\ Len(published) <= Len(published')
  BY DetectionGrows DEF DetectionStep, DetectionInv, TypeOK
<1>2. UNCHANGED <<diagnoses, dPc, dPosition, dCursor, dEnd, dMember, dGeneration>>
  BY DEF DetectionStep, diagnosisVars
<1>3. \A k : DiagnosesAt(k)' = DiagnosesAt(k) /\ DiagnosesToCome(k)' = DiagnosesToCome(k)
  BY <1>2 DEF DiagnosesAt, DiagnosesToCome, ToRefetch, ToDiagnose, AtMostOnce
<1>4. \A d \in diagnoses' : d.at \in 0..(Len(published') - 1)
  BY <1>1, <1>2 DEF DiagnosesInv
<1>5. QED
  BY <1>2, <1>3, <1>4 DEF DiagnosesInv

(* If "at" sends the elements of S to at most m places, and n of them at   *)
(* most to each, S has at most m * n elements.                             *)
LEMMA ProductBound ==
    ASSUME NEW S, NEW K, NEW at \in [S -> K], NEW m \in Nat, NEW n \in Nat,
           IsFiniteSet(K), Cardinality(K) <= m,
           \A k \in K : LET fibre == {s \in S : at[s] = k}
                        IN  IsFiniteSet(fibre) /\ Cardinality(fibre) <= n
    PROVE  IsFiniteSet(S) /\ Cardinality(S) <= m * n
<1> DEFINE Fibre(k) == {s \in S : at[s] = k}
           Rank(k)  == CHOOSE f : f \in Injection(Fibre(k), 1..n)
<1>1. ASSUME NEW T, NEW b \in Nat, IsFiniteSet(T), Cardinality(T) <= b
      PROVE  \E f : f \in Injection(T, 1..b)
  <2>1. Cardinality(T) \in Nat /\ ExistsBijection(1..Cardinality(T), T)
    BY <1>1, FS_CardinalityType
  <2>2. IsFiniteSet(1..Cardinality(T)) /\ Cardinality(1..Cardinality(T)) = Cardinality(T)
    BY <2>1, FS_Interval
  <2>3. ExistsBijection(T, 1..Cardinality(T))
    BY <1>1, <2>2, FS_SameCardinalityBij
  <2>4. PICK f : f \in Bijection(T, 1..Cardinality(T))
    BY <2>3 DEF ExistsBijection
  <2>5. f \in [T -> 1..Cardinality(T)] /\ IsInjective(f)
    BY <2>4 DEF Bijection, Injection
  <2>6. 1..Cardinality(T) \subseteq 1..b
    BY <1>1, <2>1
  <2>7. f \in Injection(T, 1..b)
    BY <2>5, <2>6 DEF Injection
  <2>8. QED
    BY <2>7
<1>2. PICK place : place \in Injection(K, 1..m)
  BY <1>1
<1>3. \A k \in K : Rank(k) \in Injection(Fibre(k), 1..n)
  <2>1. ASSUME NEW k \in K PROVE \E f : f \in Injection(Fibre(k), 1..n)
    BY <1>1
  <2>2. QED
    BY <2>1
<1> DEFINE pair == [s \in S |-> <<place[at[s]], Rank(at[s])[s]>>]
<1>4. pair \in [S -> (1..m) \X (1..n)]
  <2>1. ASSUME NEW s \in S PROVE place[at[s]] \in 1..m /\ Rank(at[s])[s] \in 1..n
    <3>1. at[s] \in K /\ s \in Fibre(at[s])
      OBVIOUS
    <3>2. place \in [K -> 1..m] /\ Rank(at[s]) \in [Fibre(at[s]) -> 1..n]
      BY <1>2, <1>3, <3>1 DEF Injection
    <3>3. QED
      BY <3>1, <3>2
  <2>2. QED
    BY <2>1
<1>5. ASSUME NEW s \in S, NEW t \in S, pair[s] = pair[t] PROVE s = t
  <2>1. place[at[s]] = place[at[t]] /\ Rank(at[s])[s] = Rank(at[t])[t]
    BY <1>5
  <2>2. at[s] = at[t]
    BY <1>2, <2>1 DEF Injection, IsInjective
  <2>3. s \in Fibre(at[s]) /\ t \in Fibre(at[s]) /\ at[s] \in K
    BY <2>2
  <2>4. Rank(at[s])[s] = Rank(at[s])[t]
    BY <2>1, <2>2
  <2>5. QED
    BY <1>3, <2>3, <2>4 DEF Injection, IsInjective
<1>6. pair \in Injection(S, (1..m) \X (1..n))
  <2>1. IsInjective(pair)
    <3>1. DOMAIN pair = S
      OBVIOUS
    <3> HIDE DEF pair
    <3>2. QED
      BY <1>5, <3>1 DEF IsInjective
  <2> HIDE DEF pair
  <2>2. QED
    BY <1>4, <2>1 DEF Injection
<1>7. IsFiniteSet((1..m) \X (1..n)) /\ Cardinality((1..m) \X (1..n)) = m * n
  <2>1. ASSUME NEW b \in Nat PROVE IsFiniteSet(1..b) /\ Cardinality(1..b) = b
    <3>1. 1 \in Int /\ b \in Int
      OBVIOUS
    <3>2. IsFiniteSet(1..b) /\ Cardinality(1..b) = IF 1 > b THEN 0 ELSE b - 1 + 1
      BY <3>1, FS_Interval, Zenon
    <3>3. QED
      BY <3>2
  <2>2. /\ IsFiniteSet((1..m) \X (1..n))
        /\ Cardinality((1..m) \X (1..n)) = Cardinality(1..m) * Cardinality(1..n)
    BY <2>1, FS_Product, Zenon
  <2>3. QED
    BY <2>1, <2>2
<1>8. QED
  BY <1>6, <1>7, FS_Injection

-----------------------------------------------------------------------------
PipelineInv == DetectionInv /\ DiagnosisLoop /\ IdsInv /\ MessagesInv /\ DiagnosesInv

LEMMA InitPipelineInv == PipelineInit => PipelineInv
<1> SUFFICES ASSUME PipelineInit PROVE PipelineInv
  OBVIOUS
<1>1. Init /\ published = <<>> /\ anomalies = {} /\ generation = 0 /\ pc = "down" /\ nextId = 1
      /\ member = "none"
  BY DEF PipelineInit, Init
<1>2. /\ PublishedIds = {}
      /\ \A o : MessagesAt(o) = {} /\ DiagnosesAt(o) = {} /\ MessagesToCome(o) = 0 /\ DiagnosesToCome(o) = 0
  BY <1>1 DEF PipelineInit, PublishedIds, MessagesAt, DiagnosesAt, MessagesToCome, DiagnosesToCome, ToFetch,
              ToTell, ToRefetch, ToDiagnose, AtMostOnce, Processing
<1>3. DiagnosisLoop
  BY <1>1 DEF PipelineInit, DiagnosisLoop
<1>4. IdsInv
  <2>1. rejected = {}
    BY DEF PipelineInit
  <2>2. QED
    BY <1>1, <1>2, <2>1 DEF IdsInv, ForeignKeyNeverRaces
<1>5. MessagesInv
  <2>1. \A o : IsFiniteSet(MessagesAt(o)) /\ Cardinality(MessagesAt(o)) = 0
    BY <1>2, FS_EmptySet
  <2>2. QED
    BY <1>1, <1>2, <2>1 DEF MessagesInv
<1>6. DiagnosesInv
  <2>1. \A k : IsFiniteSet(DiagnosesAt(k)) /\ Cardinality(DiagnosesAt(k)) = 0
    BY <1>2, FS_EmptySet
  <2>2. QED
    BY <1>2, <2>1 DEF PipelineInit, DiagnosesInv
<1>7. QED
  BY <1>1, <1>3, <1>4, <1>5, <1>6, InitDetectionInv DEF PipelineInv

LEMMA NextPipelineInv == PipelineInv /\ [PipelineNext]_pipelineVars => PipelineInv'
<1> SUFFICES ASSUME PipelineInv, [PipelineNext]_pipelineVars PROVE PipelineInv'
  OBVIOUS
<1>1. DetectionInv' /\ MessagesInv'
  BY PipelineDetectionInv, PipelineMessages DEF PipelineInv
<1>2. CASE DetectionStep
  BY <1>1, <1>2, DetectionKeepsDiagnosisLoop, DetectionKeepsIds, DetectionKeepsDiagnoses DEF PipelineInv
<1>3. CASE DiagnosisStep
  BY <1>1, <1>3, DiagnosisLoopStep, DiagnosisKeepsIds, DiagnosisKeepsDiagnoses DEF PipelineInv
<1>4. CASE UNCHANGED pipelineVars
  BY <1>1, <1>4 DEF pipelineVars, vars, storeVars, serviceVars, diagnosisVars, PipelineInv, DiagnosisLoop,
     IdsInv, PublishedIds, StoredIds, ForeignKeyNeverRaces, DiagnosesInv, DiagnosesAt, DiagnosesToCome,
     ToRefetch, ToDiagnose, AtMostOnce
<1>5. QED
  BY <1>2, <1>3, <1>4 DEF PipelineNext

LEMMA PipelineInvariant == PipelineSpec => []PipelineInv
  BY InitPipelineInv, NextPipelineInv, PTL DEF PipelineSpec

(* An anomaly whose diagnosis the foreign key has rejected never gets a    *)
(* row: its INSERT ended, without one, before its message was published.   *)
THEOREM ForeignKeyRejectsForGood == PipelineSpec => []ForeignKeyNeverRaces
<1>1. PipelineInv => ForeignKeyNeverRaces
  BY DEF PipelineInv, IdsInv
<1>2. QED
  BY <1>1, PipelineInvariant, PTL

(* An event is diagnosed at most once per pair of an assignment of its      *)
(* partition to Anomaly Detection, which publishes it, and an assignment   *)
(* of the anomalies' partition to the Diagnosis Service.                   *)
THEOREM DiagnosesMultiplyWithAssignments == PipelineSpec => []DiagnosesPerEvent
<1>1. ASSUME PipelineInv, NEW d \in diagnoses
      PROVE  Cardinality({e \in diagnoses : EventOf(e) = EventOf(d)}) <= generation * dGeneration
  <2> DEFINE o == EventOf(d)
             S == {e \in diagnoses : EventOf(e) = o}
             at == [e \in S |-> e.at + 1]
  <2>1. published \in Seq(Anomaly) /\ Len(published) \in Nat /\ generation \in Nat
        /\ dGeneration \in Nat
    BY <1>1 DEF PipelineInv, DetectionInv, TypeOK, DiagnosisLoop
  <2>2. \A e \in diagnoses : e.at \in Nat /\ e.at + 1 \in 1..Len(published)
    BY <1>1, <2>1 DEF PipelineInv, DiagnosesInv
  <2>3. o \in Nat
    <3>1. published[d.at + 1] \in Anomaly
      BY <2>1, <2>2
    <3>2. QED
      BY <3>1 DEF EventOf, Anomaly
  <2>4. at \in [S -> MessagesAt(o)]
    BY <2>2 DEF EventOf, MessagesAt
  <2>5. IsFiniteSet(MessagesAt(o)) /\ Cardinality(MessagesAt(o)) <= generation
    <3>1. /\ IsFiniteSet(MessagesAt(o))
          /\ Cardinality(MessagesAt(o)) + MessagesToCome(o) <= generation
          /\ MessagesToCome(o) \in 0..2
      BY <1>1, <2>3 DEF PipelineInv, MessagesInv, MessagesToCome, ToFetch, ToTell, AtMostOnce
    <3>2. Cardinality(MessagesAt(o)) \in Nat
      BY <3>1, FS_CardinalityType
    <3>3. QED
      BY <2>1, <3>1, <3>2
  <2>6. ASSUME NEW k \in MessagesAt(o)
        PROVE  /\ IsFiniteSet({e \in S : at[e] = k})
               /\ Cardinality({e \in S : at[e] = k}) <= dGeneration
    <3>1. k - 1 \in Nat
      BY <2>1 DEF MessagesAt
    <3>2. /\ IsFiniteSet(DiagnosesAt(k - 1))
          /\ Cardinality(DiagnosesAt(k - 1)) + DiagnosesToCome(k - 1) <= dGeneration
          /\ DiagnosesToCome(k - 1) \in 0..2
      BY <1>1, <3>1 DEF PipelineInv, DiagnosesInv, DiagnosesToCome, ToRefetch, ToDiagnose, AtMostOnce
    <3>3. {e \in S : at[e] = k} \subseteq DiagnosesAt(k - 1)
      BY <2>2, <3>1 DEF DiagnosesAt
    <3>4. /\ IsFiniteSet({e \in S : at[e] = k}) /\ Cardinality({e \in S : at[e] = k}) \in Nat
          /\ Cardinality({e \in S : at[e] = k}) <= Cardinality(DiagnosesAt(k - 1))
          /\ Cardinality(DiagnosesAt(k - 1)) \in Nat
      BY <3>2, <3>3, FS_Subset, FS_CardinalityType
    <3>5. QED
      BY <2>1, <3>2, <3>4
  <2> HIDE DEF S, at, o
  <2>7. Cardinality(S) <= generation * dGeneration
    BY <2>1, <2>4, <2>5, <2>6, ProductBound
  <2>8. QED
    BY <2>7 DEF S, o
<1>2. PipelineInv => DiagnosesPerEvent
  BY <1>1 DEF DiagnosesPerEvent
<1>3. QED
  BY <1>2, PipelineInvariant, PTL

-----------------------------------------------------------------------------
(* What the Diagnosis Service assumes of Anomaly Detection, granted.       *)

LEMMA MessageIdsPublished == DetectionInv => MessageIds = PublishedIds
  BY DEF DetectionInv, TypeOK, MessageIds, PublishedIds

LEMMA AnnouncingStep ==
    ASSUME DetectionInv, DetectionInv', IdsInv, DetectionStep
    PROVE  \/ UNCHANGED <<Announced, KnownRows>>
           \/ \E a \in MessageIds' :
                 /\ Announced' = Append(Announced, a)
                 /\ KnownRows' \in {KnownRows, KnownRows \cup {a}}
<1>t. TypeOK /\ TypeOK' /\ published \in Seq(Anomaly) /\ found \in Anomaly
  BY DEF DetectionInv, TypeOK
<1>i. MessageIds = PublishedIds
  BY MessageIdsPublished
<1>1. CASE Record
  <2>1. /\ pc = "record" /\ published' = published
        /\ anomalies' = anomalies \/ anomalies' = anomalies \cup {found}
    BY <1>1 DEF Record
  <2>2. Announced' = Announced /\ MessageIds' = MessageIds
    BY <2>1 DEF Announced, MessageIds
  <2>3. StoredIds' = StoredIds \/ StoredIds' = StoredIds \cup {found.id}
    BY <2>1 DEF StoredIds
  <2>4. found.id \notin MessageIds
    BY <1>i, <2>1 DEF IdsInv
  <2>5. KnownRows' = KnownRows
    BY <2>2, <2>3, <2>4 DEF KnownRows
  <2>6. QED
    BY <2>2, <2>5
<1>2. CASE Publish /\ published' = Append(published, found)
  <2>1. anomalies' = anomalies
    BY <1>2 DEF Publish
  <2>2. /\ DOMAIN published = 1..Len(published) /\ DOMAIN published' = 1..(Len(published) + 1)
        /\ published'[Len(published) + 1] = found /\ Len(published) \in Nat
        /\ \A k \in 1..Len(published) : published'[k] = published[k]
    BY <1>t, <1>2
  <2>3. MessageIds' = MessageIds \cup {found.id}
    <3>1. DOMAIN published' = DOMAIN published \cup {Len(published) + 1}
      BY <2>2
    <3>2. QED
      BY <2>2, <3>1 DEF MessageIds
  <2>4. Announced' = Append(Announced, found.id)
    <3>1. /\ Announced = [k \in 1..Len(published) |-> published[k].id]
          /\ Announced' = [k \in 1..(Len(published) + 1) |-> published'[k].id]
      BY <2>2 DEF Announced
    <3>2. Announced \in Seq(Nat) /\ Len(Announced) = Len(published)
      BY <1>t, AnnouncedIds
    <3>3. Append(Announced, found.id) =
            [k \in 1..(Len(published) + 1) |-> IF k = Len(published) + 1 THEN found.id ELSE Announced[k]]
      BY <3>2
    <3>4. \A k \in 1..(Len(published) + 1) :
             published'[k].id = IF k = Len(published) + 1 THEN found.id ELSE Announced[k]
      BY <2>2, <3>1
    <3>5. QED
      BY <3>1, <3>3, <3>4
  <2>5. StoredIds' = StoredIds
    BY <2>1 DEF StoredIds
  <2>6. KnownRows' \in {KnownRows, KnownRows \cup {found.id}}
    BY <2>3, <2>5 DEF KnownRows
  <2>7. QED
    BY <2>3, <2>4, <2>6
<1>3. CASE UNCHANGED <<anomalies, published>>
  BY <1>3 DEF Announced, KnownRows, StoredIds, MessageIds
<1>4. QED
  <2>1. ~ Record /\ ~ Publish => UNCHANGED <<anomalies, published>>
    BY DEF DetectionStep, Next, Service, ProcessEvent, Ingest, LoseWindow, Start, Crash, Rebalance,
           Evict, CommitFails, Leave, Poll, PollEmpty, Commit, SkipMalformed, Normal, Detect,
           WindowFails, storeVars, vars
  <2>2. Publish => anomalies' = anomalies /\ (published' = published \/ published' = Append(published, found))
    BY DEF Publish
  <2>3. QED
    BY <1>1, <1>2, <1>3, <2>1, <2>2

(* Anomaly Detection announces anomalies the way DiagnosisService assumes: *)
(* a row is there with the message, or it never comes.                     *)
THEOREM AnnouncementsAsAssumed == PipelineSpec => AnnouncesAsAssumed
<1>1. PipelineInv /\ PipelineInv' /\ [PipelineNext]_pipelineVars
        => [\E a \in MessageIds' :
               /\ Announced' = Append(Announced, a)
               /\ KnownRows' \in {KnownRows, KnownRows \cup {a}}]_<<Announced, KnownRows>>
  <2>1. DiagnosisStep \/ UNCHANGED pipelineVars => UNCHANGED <<Announced, KnownRows>>
    BY DEF DiagnosisStep, pipelineVars, vars, storeVars, Announced, KnownRows, StoredIds, MessageIds
  <2>2. QED
    BY <2>1, AnnouncingStep DEF PipelineInv, PipelineNext
<1>2. QED
  BY <1>1, PipelineInvariant, PTL DEF PipelineSpec, AnnouncesAsAssumed

-----------------------------------------------------------------------------
(* Losses.  What is handled has a message, and a draft in hand is the      *)
(* useful reply.  An anomaly in hand counts as lost when its INSERT has    *)
(* failed: with that, each step loses one anomaly at most, and only if it  *)
(* is a failure or a crash.                                                *)

Lost(id) == IF Held(id) THEN pc = "publish" /\ id \notin StoredIds ELSE ~ Complete(id)

LostIds == {id \in 1..(nextId - 1) : Lost(id)}

HandledInv ==
    /\ handled \subseteq 0..(Len(published) - 1)
    /\ dPc = "persist" => draft.misfit = {} /\ draft.confidence = 5

LossInv == HandledInv /\ Cardinality(LostIds) <= faults

LEMMA UsefulDraft ==
    LET parsed == Diagnosing!ParseReply(UsefulReply)
    IN  parsed.misfit = {} /\ parsed.confidence = 5
<1>1. Diagnosing!ClampConfidence(5) = 5
  <2>1. Diagnosing!Min({10, 5}) = 5
    BY DEF Diagnosing!Min
  <2>2. Diagnosing!Max({0, 5}) = 5
    BY DEF Diagnosing!Max
  <2>3. QED
    BY <2>1, <2>2 DEF Diagnosing!ClampConfidence
<1>2. UsefulReply.form # "prose" /\ UsefulReply.misfit = {} /\ "confidence" \in UsefulReply.has
      /\ UsefulReply.confidence = 5
  BY DEF UsefulReply
<1>3. QED
  BY <1>1, <1>2 DEF Diagnosing!ParseReply

(* The message that the Diagnosis Service has in hand.                     *)
LEMMA MessageInHand ==
    ASSUME DetectionInv, DiagnosisLoop, dPc \in {"batch", "persist"}, dCursor < dEnd
    PROVE  /\ dCursor + 1 \in DOMAIN published /\ dCursor \in 0..(Len(published) - 1)
           /\ Diagnosing!Message = published[dCursor + 1].id
           /\ Diagnosing!Message \in PublishedIds /\ Diagnosing!Message # Unreadable
<1>1. TypeOK /\ published \in Seq(Anomaly) /\ DOMAIN published = 1..Len(published) /\ Len(published) \in Nat
  BY DEF DetectionInv, TypeOK
<1>2. dCursor + 1 \in 1..Len(published) /\ dCursor \in 0..(Len(published) - 1)
  BY <1>1 DEF DiagnosisLoop
<1>3. Diagnosing!Message = published[dCursor + 1].id
  BY <1>1, <1>2, AnnouncedIds DEF Diagnosing!Message
<1>4. published[dCursor + 1] \in Anomaly
  BY <1>1, <1>2
<1>5. published[dCursor + 1].id \in Nat
  BY <1>4 DEF Anomaly
<1>6. QED
  BY <1>1, <1>2, <1>3, <1>5, AnomalyPipelineAssumption DEF PublishedIds

LEMMA HandledStep ==
    ASSUME DetectionInv, DiagnosisLoop, HandledInv, DetectionStep \/ DiagnosisStep
    PROVE  HandledInv'
<1>t. Len(published) \in Nat
  BY DEF DetectionInv, TypeOK
<1>1. CASE DetectionStep
  <2>1. Len(published') \in Nat /\ Len(published) <= Len(published')
    BY <1>1, DetectionGrows DEF DetectionStep
  <2>2. UNCHANGED <<handled, dPc, draft>>
    BY <1>1 DEF DetectionStep, diagnosisVars
  <2>3. QED
    BY <1>t, <2>1, <2>2 DEF HandledInv
<1>2. CASE DiagnosisStep
  <2>p. published' = published
    BY <1>2 DEF DiagnosisStep, storeVars
  <2>1. CASE handled' = handled /\ dPc' # "persist"
    BY <2>1, <2>p DEF HandledInv
  <2>2. CASE Diagnosing!Return /\ dPc \in {"batch", "persist"} /\ dCursor < dEnd
    <3>1. handled' = handled \cup {dCursor} /\ dPc' = "batch"
      BY <2>2 DEF Diagnosing!Return
    <3>2. dCursor \in 0..(Len(published) - 1)
      BY <2>2, MessageInHand
    <3>3. QED
      BY <2>p, <3>1, <3>2 DEF HandledInv
  <2>3. CASE Diagnosing!Generate /\ ~ Diagnosing!Return
    <3>1. /\ handled' = handled
          /\ draft'.misfit = Diagnosing!ParseReply(UsefulReply).misfit
          /\ draft'.confidence = Diagnosing!ParseReply(UsefulReply).confidence
      BY <2>3 DEF Diagnosing!Generate
    <3>2. QED
      BY <2>p, <3>1, UsefulDraft DEF HandledInv
  <2>4. CASE Diagnosing!PollEmpty \/ Diagnosing!Rebalance \/ Diagnosing!Evict
    BY <2>4, <2>p DEF Diagnosing!PollEmpty, Diagnosing!Rebalance, Diagnosing!Evict, Diagnosing!vars,
                      Diagnosing!serviceVars, HandledInv
  <2>5. ASSUME \/ Diagnosing!Start \/ Diagnosing!Crash \/ Diagnosing!LoopEnds
               \/ Diagnosing!Poll \/ Diagnosing!Commit \/ Diagnosing!CommitFails
        PROVE  handled' = handled /\ dPc' # "persist"
    BY <2>5 DEF Diagnosing!Start, Diagnosing!Crash, Diagnosing!LoopEnds, Diagnosing!Leave,
                Diagnosing!Poll, Diagnosing!Commit, Diagnosing!CommitFails
  <2>6. Diagnosing!SkipUnreadable \/ Diagnosing!GenerateFails \/ Diagnosing!Persist
          => Diagnosing!Return /\ dPc \in {"batch", "persist"} /\ dCursor < dEnd
    BY DEF Diagnosing!SkipUnreadable, Diagnosing!GenerateFails, Diagnosing!Persist, DiagnosisLoop
  <2>7. Diagnosing!Generate => dPc \in {"batch", "persist"} /\ dCursor < dEnd
    BY DEF Diagnosing!Generate
  <2>8. QED
    BY <1>2, <2>1, <2>2, <2>3, <2>4, <2>5, <2>6, <2>7
       DEF DiagnosisStep, Diagnosing!Service, Diagnosing!ProcessMessage
<1>3. QED
  BY <1>1, <1>2

(* A step that loses nothing, and a failure that loses one anomaly.        *)
LEMMA LossCounted ==
    ASSUME DetectionInv, DetectionInv', LossInv, NEW x,
           \/ LostIds' \subseteq LostIds /\ faults' \in {faults, faults + 1}
           \/ LostIds' \subseteq LostIds \cup {x} /\ faults' = faults + 1
    PROVE  Cardinality(LostIds') <= faults'
<1>1. nextId \in Nat /\ faults \in Nat /\ Cardinality(LostIds) <= faults
  BY DEF DetectionInv, TypeOK, LossInv
<1>2. IsFiniteSet(LostIds)
  <2>1. LostIds \subseteq 1..(nextId - 1)
    BY DEF LostIds
  <2>2. IsFiniteSet(1..(nextId - 1))
    BY <1>1, FS_Interval
  <2>3. QED
    BY <2>1, <2>2, FS_Subset
<1>3. Cardinality(LostIds) \in Nat
  BY <1>2, FS_CardinalityType
<1>4. CASE LostIds' \subseteq LostIds /\ faults' \in {faults, faults + 1}
  <2>1. Cardinality(LostIds') <= Cardinality(LostIds) /\ Cardinality(LostIds') \in Nat
    BY <1>2, <1>4, FS_Subset, FS_CardinalityType
  <2>2. QED
    BY <1>1, <1>3, <1>4, <2>1
<1>5. CASE LostIds' \subseteq LostIds \cup {x} /\ faults' = faults + 1
  <2>1. PICK n \in Nat : n = faults + 1
    BY <1>1
  <2>2. Cardinality(LostIds) + 1 <= n /\ 0 + 1 + n <= 1 + n /\ 0 \in 0..2 /\ 1 \in 0..2
    BY <1>1, <1>3, <2>1
  <2>3. IsFiniteSet(LostIds') /\ Cardinality(LostIds') + 0 <= n
    BY <1>2, <1>5, <2>2, Room
  <2>4. Cardinality(LostIds') \in Nat
    BY <2>3, FS_CardinalityType
  <2>5. QED
    BY <1>5, <2>1, <2>3, <2>4
<1>6. QED
  BY <1>4, <1>5

(* What is complete stays so while rows, messages and diagnoses are added, *)
(* unless its message is handled in this step.                             *)
LEMMA CompleteStays ==
    ASSUME NEW id, Complete(id), StoredIds \subseteq StoredIds', diagnoses \subseteq diagnoses',
           DOMAIN published \subseteq DOMAIN published',
           \A k \in DOMAIN published : published'[k] = published[k],
           \A k \in DOMAIN published :
               published[k].id = id /\ k - 1 \in handled' => k - 1 \in handled
    PROVE  Complete(id)'
  BY DEF Complete

(* What the steps of Anomaly Detection do to rows, messages and the        *)
(* anomaly in hand.                                                        *)
LEMMA DetectionLosses ==
    ASSUME DetectionInv, DetectionInv', HandledInv, DetectionStep
    PROVE  \/ LostIds' \subseteq LostIds /\ faults' \in {faults, faults + 1}
           \/ LostIds' \subseteq LostIds \cup {found.id} /\ faults' = faults + 1
<1>u. UNCHANGED <<diagnoses, handled>>
  BY DEF DetectionStep, diagnosisVars
<1>n. nextId \in Nat /\ faults \in Nat /\ published \in Seq(Anomaly) /\ published' \in Seq(Anomaly)
  BY DEF DetectionInv, TypeOK
<1>t. /\ DOMAIN published = 1..Len(published) /\ Len(published) \in Nat
      /\ DOMAIN published' = 1..Len(published') /\ Len(published') \in Nat
  BY <1>n
<1>p. /\ DOMAIN published \subseteq DOMAIN published'
      /\ \A k \in DOMAIN published : published'[k] = published[k]
  <2>1. /\ Len(published) <= Len(published')
        /\ \A k \in 1..Len(published) : published'[k] = published[k]
    BY DetectionGrows DEF DetectionStep
  <2>2. DOMAIN published \subseteq DOMAIN published'
    BY <1>t, <2>1
  <2>3. QED
    BY <1>t, <2>1, <2>2
<1>s. StoredIds \subseteq StoredIds'
  <2>1. anomalies \subseteq anomalies'
    BY DEF DetectionStep, Next, Service, ProcessEvent, Ingest, LoseWindow, Start, Crash, Rebalance,
           Evict, CommitFails, Leave, Poll, PollEmpty, Commit, SkipMalformed, Normal, Detect, WindowFails,
           Record, Publish, storeVars, vars
  <2>2. QED
    BY <2>1 DEF StoredIds
<1>c. \A id : Complete(id) => Complete(id)'
  BY <1>u, <1>p, <1>s, CompleteStays
<1>f. faults' \in {faults, faults + 1}
  BY DEF DetectionStep, Next, Service, ProcessEvent, Ingest, LoseWindow, Start, Crash, Rebalance, Evict,
         CommitFails, Leave, Poll, PollEmpty, Commit, SkipMalformed, Normal, Detect, WindowFails, Record,
         Publish, Fault, vars
<1>1. CASE Detect
  <2>1. /\ pc = "batch" /\ pc' = "record" /\ nextId' = nextId + 1 /\ found'.id = nextId
    BY <1>1 DEF Detect, InHand
  <2>2. ASSUME NEW id \in LostIds' PROVE id \in LostIds
    <3>1. id \in 1..nextId /\ Lost(id)'
      BY <1>n, <2>1, <2>2 DEF LostIds
    <3>2. id # nextId /\ ~ Held(id)'
      BY <2>1, <3>1 DEF Lost, Held
    <3>3. ~ Held(id) /\ ~ Complete(id)
      BY <1>c, <2>1, <3>1, <3>2 DEF Lost, Held
    <3>4. QED
      BY <1>n, <3>1, <3>2, <3>3 DEF LostIds, Lost
  <2>3. QED
    BY <1>f, <2>2
<1>2. CASE Record
  <2>1. /\ pc = "record" /\ pc' = "publish" /\ nextId' = nextId /\ found' = found
        /\ \/ anomalies' = anomalies \cup {found}
           \/ faults' = faults + 1
    BY <1>2 DEF Record, Fault
  <2>2. ASSUME NEW id \in LostIds', id # found.id PROVE id \in LostIds
    BY <1>c, <2>1, <2>2 DEF LostIds, Lost, Held
  <2>3. CASE anomalies' = anomalies \cup {found}
    <3>1. found.id \in StoredIds'
      BY <2>3 DEF StoredIds
    <3>2. found.id \notin LostIds'
      BY <2>1, <3>1 DEF LostIds, Lost, Held
    <3>3. QED
      BY <1>f, <2>2, <3>2
  <2>4. CASE faults' = faults + 1
    BY <2>2, <2>4
  <2>5. QED
    BY <2>1, <2>3, <2>4
<1>3. CASE Publish
  <2>1. /\ pc = "publish" /\ pc' = "batch" /\ nextId' = nextId /\ anomalies' = anomalies
        /\ \/ published' = Append(published, found)
           \/ faults' = faults + 1
    BY <1>3 DEF Publish, Return, Fault
  <2>2. ASSUME NEW id \in LostIds', id # found.id PROVE id \in LostIds
    BY <1>c, <2>1, <2>2 DEF LostIds, Lost, Held
  <2>3. CASE published' = Append(published, found)
    <3> DEFINE k == Len(published) + 1
    <3>1. Len(published') = k
      BY <1>n, <1>t, <2>3
    <3>2. k \in DOMAIN published' /\ published'[k] = found
      BY <1>n, <1>t, <2>3, <3>1
    <3>3. k - 1 = Len(published)
      BY <1>t
    <3>4. Len(published) \notin handled
      BY <1>t DEF HandledInv
    <3>5. k - 1 \notin handled'
      BY <1>u, <3>3, <3>4
    <3> HIDE DEF k
    <3>6. ASSUME NEW id, id = found.id, id \in StoredIds PROVE Complete(id)'
      <4>1. id \in StoredIds' /\ k \in DOMAIN published' /\ published'[k].id = id
        BY <1>s, <3>2, <3>6
      <4>2. QED
        BY <3>5, <4>1, Zenon DEF Complete
    <3>7. ASSUME NEW id \in LostIds', id = found.id PROVE id \in LostIds
      BY <2>1, <3>6, <3>7 DEF LostIds, Lost, Held
    <3>8. QED
      BY <1>f, <2>2, <3>7
  <2>4. CASE faults' = faults + 1
    BY <2>2, <2>4
  <2>5. QED
    BY <2>1, <2>3, <2>4
<1>4. CASE Crash
  <2>1. pc' = "down" /\ nextId' = nextId /\ faults' = faults + 1
    BY <1>4 DEF Crash, Leave, Fault, storeVars
  <2>2. ASSUME NEW id \in LostIds', id # found.id PROVE id \in LostIds
    BY <1>c, <2>1, <2>2 DEF LostIds, Lost, Held
  <2>3. QED
    BY <2>1, <2>2
<1>5. CASE ~ Detect /\ ~ Record /\ ~ Publish /\ ~ Crash
  <2>1. /\ UNCHANGED <<nextId, anomalies>>
        /\ \/ UNCHANGED <<pc, found>>
           \/ pc \notin {"record", "publish"} /\ pc' \notin {"record", "publish"}
    BY <1>5 DEF DetectionStep, Next, Service, ProcessEvent, Ingest, LoseWindow, Start, Rebalance, Evict,
                CommitFails, Leave, Poll, PollEmpty, Commit, SkipMalformed, Normal, WindowFails, Return,
                InHand, storeVars, serviceVars, vars
  <2>2. \A id : Held(id)' = Held(id)
    BY <2>1 DEF Held
  <2>3. StoredIds' = StoredIds
    BY <2>1 DEF StoredIds
  <2>4. ASSUME NEW id \in LostIds' PROVE id \in LostIds
    BY <1>c, <2>1, <2>2, <2>3, <2>4 DEF LostIds, Lost, Held
  <2>5. QED
    BY <1>f, <2>4
<1>6. QED
  BY <1>1, <1>2, <1>3, <1>4, <1>5

(* What the steps of the Diagnosis Service do to diagnoses.                *)
LEMMA DiagnosisLosses ==
    ASSUME DetectionInv, DiagnosisLoop, HandledInv, DiagnosisStep
    PROVE  \/ LostIds' \subseteq LostIds /\ faults' \in {faults, faults + 1}
           \/ LostIds' \subseteq LostIds \cup {Diagnosing!Message} /\ faults' = faults + 1
<1>t. UNCHANGED <<published, anomalies, nextId, pc, found>> /\ StoredIds' = StoredIds
  BY DEF DiagnosisStep, storeVars, serviceVars, StoredIds
<1>h. \A id : Held(id)' = Held(id)
  BY <1>t DEF Held
<1>f. faults' \in {faults, faults + 1}
  BY DEF DiagnosisStep, Diagnosing!Service, Diagnosing!Start, Diagnosing!Crash, Diagnosing!LoopEnds,
         Diagnosing!Rebalance, Diagnosing!Evict, Diagnosing!CommitFails, Diagnosing!Poll,
         Diagnosing!PollEmpty, Diagnosing!Commit, Diagnosing!ProcessMessage,
         Diagnosing!SkipUnreadable, Diagnosing!Generate, Diagnosing!GenerateFails, Diagnosing!Persist,
         Diagnosing!Fault, Diagnosing!vars
<1>l. ASSUME NEW id, id \in LostIds', Complete(id) => Complete(id)' PROVE id \in LostIds
  BY <1>h, <1>l, <1>t DEF LostIds, Lost
<1>1. ASSUME handled' = handled, diagnoses' = diagnoses PROVE LostIds' \subseteq LostIds
  <2>1. \A id : Complete(id) => Complete(id)'
    BY <1>1, <1>t DEF Complete
  <2>2. QED
    BY <1>l, <2>1
<1>2. ASSUME dPc \in {"batch", "persist"}, dCursor < dEnd, handled' = handled \cup {dCursor},
             diagnoses \subseteq diagnoses',
             NEW id \in LostIds', id # Diagnosing!Message
      PROVE  id \in LostIds
  <2>1. dCursor + 1 \in DOMAIN published /\ Diagnosing!Message = published[dCursor + 1].id
    BY <1>2, MessageInHand
  <2>2. dCursor \in Nat /\ DOMAIN published = 1..Len(published)
    BY DEF DiagnosisLoop, DetectionInv, TypeOK
  <2>3. \A k \in DOMAIN published : published[k].id = id /\ k - 1 \in handled' => k - 1 \in handled
    BY <1>2, <2>1, <2>2
  <2>4. Complete(id) => Complete(id)'
    BY <1>2, <1>t, <2>3, CompleteStays
  <2>5. QED
    BY <1>2, <1>l, <2>4
<1>3. CASE Diagnosing!GenerateFails
  <2>1. /\ dPc = "batch" /\ dCursor < dEnd /\ handled' = handled \cup {dCursor}
        /\ diagnoses' = diagnoses /\ faults' = faults + 1
    BY <1>3 DEF Diagnosing!GenerateFails, Diagnosing!Return, Diagnosing!Fault, Diagnosing!storeVars
  <2>2. QED
    BY <1>2, <2>1
<1>4. CASE Diagnosing!Persist
  <2>1. /\ dPc = "persist" /\ dCursor < dEnd /\ handled' = handled \cup {dCursor}
        /\ diagnoses' = diagnoses \/ diagnoses' = diagnoses \cup {Diagnosing!Diagnosis}
    BY <1>4 DEF Diagnosing!Persist, Diagnosing!Return, Diagnosing!InsertDiagnosis, Diagnosing!storeVars,
                DiagnosisLoop
  <2>2. Diagnosing!DraftIsAccepted
    BY <2>1 DEF HandledInv, Diagnosing!DraftIsAccepted
  <2>3. CASE faults' = faults + 1
    BY <1>2, <2>1, <2>3
  <2>4. CASE Diagnosing!Message \in StoredIds /\ diagnoses' = diagnoses \cup {Diagnosing!Diagnosis}
    <3>a. Diagnosing!Diagnosis.anomaly = Diagnosing!Message
      BY DEF Diagnosing!Diagnosis
    <3>1. \E d \in diagnoses' : d.anomaly = Diagnosing!Message
      BY <2>4, <3>a, Zenon
    <3>2. ASSUME NEW id, id = Diagnosing!Message, Complete(id) PROVE Complete(id)'
      <4>1. \E d \in diagnoses' : d.anomaly = id
        BY <3>1, <3>2
      <4>2. QED
        BY <1>t, <3>2, <4>1, Zenon DEF Complete
    <3>3. ASSUME NEW id \in LostIds', id = Diagnosing!Message PROVE id \in LostIds
      BY <1>l, <3>2, <3>3
    <3>4. LostIds' \subseteq LostIds
      BY <1>2, <2>1, <3>3
    <3>5. QED
      BY <1>f, <3>4
  <2>5. CASE Diagnosing!Message \notin StoredIds
    <3>1. ~ Complete(Diagnosing!Message)
      BY <2>5 DEF Complete
    <3>2. Diagnosing!Message \in LostIds' => Diagnosing!Message \in LostIds
      BY <1>l, <3>1
    <3>3. LostIds' \subseteq LostIds
      BY <1>2, <2>1, <3>2
    <3>4. QED
      BY <1>f, <3>3
  <2>6. QED
    BY <1>4, <2>2, <2>3, <2>4, <2>5
       DEF Diagnosing!Persist, Diagnosing!InsertDiagnosis, Diagnosing!Fault
<1>5. CASE ~ Diagnosing!GenerateFails /\ ~ Diagnosing!Persist
  <2>1. ~ Diagnosing!SkipUnreadable
    BY MessageInHand DEF Diagnosing!SkipUnreadable
  <2>2. Diagnosing!Generate => handled' = handled /\ diagnoses' = diagnoses
    BY DEF Diagnosing!Generate, Diagnosing!storeVars, UsefulReply
  <2>3. handled' = handled /\ diagnoses' = diagnoses
    BY <1>5, <2>1, <2>2
       DEF DiagnosisStep, Diagnosing!Service, Diagnosing!ProcessMessage, Diagnosing!Start,
           Diagnosing!Crash, Diagnosing!LoopEnds, Diagnosing!Rebalance, Diagnosing!Evict,
           Diagnosing!CommitFails, Diagnosing!Leave, Diagnosing!Poll, Diagnosing!PollEmpty, Diagnosing!Commit, Diagnosing!storeVars, Diagnosing!vars
  <2>4. QED
    BY <1>1, <1>f, <2>3
<1>6. QED
  BY <1>3, <1>4, <1>5

LEMMA NextLossInv ==
    PipelineInv /\ PipelineInv' /\ LossInv /\ [PipelineNext]_pipelineVars => LossInv'
<1> SUFFICES ASSUME PipelineInv, PipelineInv', LossInv, [PipelineNext]_pipelineVars PROVE LossInv'
  OBVIOUS
<1>t. DetectionInv /\ DetectionInv' /\ DiagnosisLoop /\ HandledInv
  BY DEF PipelineInv, LossInv
<1>1. CASE DetectionStep
  BY <1>1, <1>t, HandledStep, DetectionLosses, LossCounted DEF LossInv
<1>2. CASE DiagnosisStep
  BY <1>2, <1>t, HandledStep, DiagnosisLosses, LossCounted DEF LossInv
<1>3. CASE UNCHANGED pipelineVars
  <2>1. UNCHANGED <<published, handled, dPc, draft, faults>>
    BY <1>3 DEF pipelineVars, vars, storeVars, diagnosisVars
  <2>2. LostIds' = LostIds
    BY <1>3 DEF pipelineVars, vars, storeVars, serviceVars, diagnosisVars, LostIds, Lost, Held, Complete,
                StoredIds
  <2>3. QED
    BY <2>1, <2>2 DEF LossInv, HandledInv
<1>4. QED
  BY <1>1, <1>2, <1>3 DEF PipelineNext

(* Each anomaly found has its row, its message and its diagnosis in the    *)
(* end of its processing, but for one per failure or crash of the two      *)
(* services: failures do not cascade, and no interleaving loses one.       *)
THEOREM LossesBounded == PipelineSpec => []LossesAreFailures
<1>1. PipelineInit => LossInv
  <2> SUFFICES ASSUME PipelineInit PROVE LossInv
    OBVIOUS
  <2>1. nextId = 1 /\ faults = 0 /\ handled = {} /\ dPc = "down"
    BY DEF PipelineInit, Init
  <2>2. LostIds = {}
    BY <2>1 DEF LostIds
  <2>3. QED
    BY <2>1, <2>2, FS_EmptySet DEF LossInv, HandledInv
<1>2. PipelineInv /\ LossInv => LossesAreFailures
  <2> SUFFICES ASSUME PipelineInv, LossInv PROVE LossesAreFailures
    OBVIOUS
  <2> DEFINE Shown == {id \in 1..(nextId - 1) : ~Held(id) /\ ~Complete(id)}
  <2>1. nextId \in Nat /\ faults \in Nat /\ Cardinality(LostIds) <= faults
    BY DEF PipelineInv, DetectionInv, TypeOK, LossInv
  <2>2. Shown \subseteq LostIds /\ LostIds \subseteq 1..(nextId - 1)
    BY DEF LostIds, Lost
  <2>3. IsFiniteSet(LostIds)
    <3>1. IsFiniteSet(1..(nextId - 1))
      BY <2>1, FS_Interval
    <3>2. QED
      BY <2>2, <3>1, FS_Subset
  <2>4. Cardinality(Shown) <= Cardinality(LostIds) /\ Cardinality(Shown) \in Nat
        /\ Cardinality(LostIds) \in Nat
    BY <2>2, <2>3, FS_Subset, FS_CardinalityType
  <2>5. Cardinality(Shown) <= faults
    BY <2>1, <2>4
  <2>6. QED
    BY <2>5 DEF LossesAreFailures
<1>3. QED
  BY <1>1, <1>2, NextLossInv, PipelineInvariant, PTL DEF PipelineSpec

-----------------------------------------------------------------------------
(* The refinement, for both services at once: neither Delivery sees the    *)
(* steps of the other service but the growth of its own log.               *)

InOrderInv ==
    /\ 0..(dCommitted - 1) \subseteq handled
    /\ dPc \notin {"batch", "persist"} => 0..(dPosition - 1) \subseteq handled
    /\ dPc \in {"batch", "persist"} => 0..(dCursor - 1) \subseteq handled
    /\ dMember # "none" => dCommitted <= dPosition

LEMMA InOrderStep ==
    ASSUME DetectionInv, DiagnosisLoop, InOrderInv, DiagnosisStep PROVE InOrderInv'
<1> USE DEF Diagnosing!groupVars
<1>t. /\ dCommitted \in Nat /\ dPosition \in Nat /\ dCursor \in Nat /\ dEnd \in Nat
      /\ dPc \in {"down", "exited", "poll", "batch", "persist"}
  BY DEF DetectionInv, TypeOK, DiagnosisLoop
<1>1. CASE Diagnosing!Start
  BY <1>1 DEF Diagnosing!Start, InOrderInv
<1>2. CASE Diagnosing!Crash \/ Diagnosing!LoopEnds
  <2>1. /\ dCommitted' = dCommitted /\ handled' = handled /\ dPc' \in {"down", "exited"}
        /\ dPosition' = 0 /\ dMember' = "none"
    BY <1>2 DEF Diagnosing!Crash, Diagnosing!LoopEnds, Diagnosing!Leave
  <2>2. 0..(dPosition' - 1) = {}
    BY <2>1
  <2>3. QED
    BY <2>1, <2>2 DEF InOrderInv
<1>3. CASE Diagnosing!Poll
  <2>1. /\ UNCHANGED <<dCommitted, handled, dMember>> /\ dPc = "poll" /\ dPc' = "batch"
        /\ dCursor' = dPosition /\ dPosition' = dEnd' /\ dMember # "none"
    BY <1>3 DEF Diagnosing!Poll
  <2>2. dEnd' \in Int /\ dPosition < dEnd'
    BY <1>t, <1>3 DEF Diagnosing!Poll
  <2>3. dCommitted' <= dPosition'
    BY <1>t, <2>1, <2>2 DEF InOrderInv
  <2>4. QED
    BY <2>1, <2>3 DEF InOrderInv
<1>4. CASE Diagnosing!PollEmpty \/ Diagnosing!Evict
  BY <1>4 DEF Diagnosing!PollEmpty, Diagnosing!Evict, Diagnosing!vars, Diagnosing!serviceVars, InOrderInv
<1>5. CASE Diagnosing!Commit \/ Diagnosing!CommitFails
  <2>1. /\ dPc = "batch" /\ dCursor = dEnd /\ handled' = handled /\ dPosition \in {dEnd, dCommitted}
        /\ dCommitted' \in {dCommitted, dPosition}
        /\ \/ dPc' = "poll" /\ dPosition' = dPosition /\ dCommitted' = dPosition
           \/ dPc' = "exited" /\ dPosition' = 0 /\ dMember' = "none"
    BY <1>5 DEF Diagnosing!Commit, Diagnosing!CommitFails, Diagnosing!Leave, DiagnosisLoop
  <2>2. 0..(dCursor - 1) \subseteq handled' /\ 0..(dCommitted - 1) \subseteq handled'
    BY <2>1 DEF InOrderInv
  <2>3. 0..(dPosition - 1) \subseteq handled'
    <3>1. dPosition = dCursor \/ dPosition = dCommitted
      BY <2>1
    <3>2. QED
      BY <2>2, <3>1, Zenon
  <2>4. 0..(dCommitted' - 1) \subseteq handled'
    BY <2>1, <2>2, <2>3
  <2>5. CASE dPc' = "poll" /\ dPosition' = dPosition /\ dCommitted' = dPosition
    BY <1>t, <2>3, <2>4, <2>5 DEF InOrderInv
  <2>6. CASE dPc' = "exited" /\ dPosition' = 0 /\ dMember' = "none"
    <3>1. 0..(dPosition' - 1) = {}
      BY <2>6
    <3>2. QED
      BY <2>4, <2>6, <3>1 DEF InOrderInv
  <2>7. QED
    BY <2>1, <2>5, <2>6
<1>6. CASE Diagnosing!ProcessMessage
  <2>1. \/ Diagnosing!Return /\ dPc \in {"batch", "persist"} /\ dCursor < dEnd
        \/ /\ dPc = "batch" /\ dPc' = "persist"
           /\ UNCHANGED <<dCommitted, dMember, dPosition, dCursor, handled>>
    BY <1>6 DEF Diagnosing!ProcessMessage, Diagnosing!SkipUnreadable, Diagnosing!Generate,
                Diagnosing!GenerateFails, Diagnosing!Persist, DiagnosisLoop
  <2>2. CASE Diagnosing!Return /\ dPc \in {"batch", "persist"} /\ dCursor < dEnd
    <3>1. /\ dPc' = "batch" /\ dCursor' = dCursor + 1 /\ handled' = handled \cup {dCursor}
          /\ UNCHANGED <<dCommitted, dMember, dPosition>>
      BY <2>2 DEF Diagnosing!Return
    <3>2. \A o \in 0..(dCursor' - 1) : o \in 0..(dCursor - 1) \/ o = dCursor
      BY <1>t, <3>1
    <3>3. QED
      BY <2>2, <3>1, <3>2 DEF InOrderInv
  <2>3. CASE /\ dPc = "batch" /\ dPc' = "persist"
             /\ UNCHANGED <<dCommitted, dMember, dPosition, dCursor, handled>>
    BY <2>3 DEF InOrderInv
  <2>4. QED
    BY <2>1, <2>2, <2>3
<1>7. CASE Diagnosing!Rebalance
  <2>1. dPosition' = dCommitted /\ UNCHANGED <<dCommitted, dPc, dCursor, handled>>
    BY <1>7 DEF Diagnosing!Rebalance, Diagnosing!StartOffset
  <2>2. QED
    BY <1>t, <2>1 DEF InOrderInv
<1>8. QED
  BY <1>1, <1>2, <1>3, <1>4, <1>5, <1>6, <1>7 DEF DiagnosisStep, Diagnosing!Service

LEMMA AnnouncedDelivery ==
    ASSUME DetectionInv, DetectionInv', IdsInv, DetectionStep
    PROVE  [Diagnosing!Delivery!Next]_(Diagnosing!Delivery!vars)
<1>u. UNCHANGED <<handled, dCommitted>>
  BY DEF DetectionStep, diagnosisVars
<1>1. CASE Announced' = Announced
  BY <1>u, <1>1 DEF Diagnosing!Delivery!vars
<1>2. CASE \E a \in Nat : Announced' = Append(Announced, a)
  <2>1. PICK a \in Nat : Announced' = Append(Announced, a)
    BY <1>2
  <2>2. Diagnosing!Delivery!Append1(0, a)
    BY <1>u, <2>1 DEF Diagnosing!Delivery!Append1
  <2>3. QED
    BY <2>2 DEF Diagnosing!Delivery!Next
<1>3. MessageIds' \subseteq Nat
  <2>1. published' \in Seq(Anomaly)
    BY DEF DetectionInv, TypeOK
  <2>2. \A k \in DOMAIN published' : published'[k] \in Anomaly
    BY <2>1
  <2>3. QED
    BY <2>2 DEF MessageIds, Anomaly
<1>4. QED
  BY <1>1, <1>2, <1>3, AnnouncingStep

LEMMA DiagnosisDelivery ==
    ASSUME DetectionInv, DiagnosisLoop, InOrderInv, DiagnosisStep
    PROVE  [Diagnosing!Delivery!Next]_(Diagnosing!Delivery!vars)
<1>t. /\ Announced' = Announced /\ Len(Announced) = Len(published)
      /\ Len(published) \in Nat
  BY AnnouncedIds DEF DiagnosisStep, storeVars, Announced, DetectionInv, TypeOK
<1>1. ASSUME Diagnosing!Return, dPc \in {"batch", "persist"}, dCursor < dEnd PROVE Diagnosing!Delivery!Next
  <2>1. dCursor \in 0..(Len(Announced) - 1) /\ dCursor < Len(Announced)
    BY <1>t, <1>1 DEF DiagnosisLoop
  <2>2. 0..(dCursor - 1) \subseteq handled
    BY <1>1, Zenon DEF InOrderInv
  <2>3. Diagnosing!Delivery!Settle(0, dCursor)
    BY <1>t, <1>1, <2>1, <2>2 DEF Diagnosing!Return, Diagnosing!Delivery!Settle
  <2>4. QED
    BY <2>1, <2>3 DEF Diagnosing!Delivery!Next
<1>2. ASSUME Diagnosing!Commit \/ Diagnosing!CommitFails PROVE Diagnosing!Delivery!Next
  <2>1. /\ dPc = "batch" /\ dCursor = dEnd /\ dPosition \in {dEnd, dCommitted}
        /\ dMember # "none" /\ dCommitted' \in {dCommitted, dPosition} /\ handled' = handled
    BY <1>2 DEF Diagnosing!Commit, Diagnosing!CommitFails, Diagnosing!Leave, DiagnosisLoop
  <2>2. dCommitted <= dPosition /\ dCommitted \in Nat /\ dPosition \in Nat
    BY <1>t, <2>1 DEF DiagnosisLoop, InOrderInv
  <2>3. dCommitted' >= dCommitted
    BY <2>1, <2>2
  <2>4. 0..(dCommitted' - 1) \subseteq handled
    <3>1. CASE dCommitted' = dCommitted
      BY <3>1, Zenon DEF InOrderInv
    <3>2. CASE dCommitted' = dCursor
      BY <2>1, <3>2, Zenon DEF InOrderInv
    <3>3. QED
      BY <2>1, <3>1, <3>2
  <2>5. Diagnosing!Delivery!Acknowledge
    BY <1>t, <2>1, <2>3, <2>4 DEF Diagnosing!Delivery!Acknowledge
  <2>6. QED
    BY <2>5 DEF Diagnosing!Delivery!Next
<1>3. ASSUME UNCHANGED <<handled, dCommitted>> PROVE UNCHANGED Diagnosing!Delivery!vars
  BY <1>t, <1>3 DEF Diagnosing!Delivery!vars
<1>4. ASSUME Diagnosing!ProcessMessage
      PROVE  \/ Diagnosing!Return /\ dPc \in {"batch", "persist"} /\ dCursor < dEnd
             \/ UNCHANGED <<handled, dCommitted>>
  BY <1>4 DEF Diagnosing!ProcessMessage, Diagnosing!SkipUnreadable, Diagnosing!Generate,
              Diagnosing!GenerateFails, Diagnosing!Persist, DiagnosisLoop
<1>5. ASSUME \/ Diagnosing!Start \/ Diagnosing!Crash \/ Diagnosing!LoopEnds \/ Diagnosing!Rebalance
             \/ Diagnosing!Evict \/ Diagnosing!Poll \/ Diagnosing!PollEmpty
      PROVE  UNCHANGED <<handled, dCommitted>>
  BY <1>5 DEF Diagnosing!Start, Diagnosing!Crash, Diagnosing!LoopEnds, Diagnosing!Leave,
              Diagnosing!Rebalance, Diagnosing!Evict, Diagnosing!Poll, Diagnosing!PollEmpty,
              Diagnosing!vars
<1>6. QED
  BY <1>1, <1>2, <1>3, <1>4, <1>5 DEF DiagnosisStep, Diagnosing!Service

(* What Delivery of Anomaly Detection sees of a step of the pipeline.      *)
LEMMA PipelineDetectionDelivery ==
    DetectionInv /\ NotBehind /\ [PipelineNext]_pipelineVars
        => NotBehind' /\ [Delivery!Next]_(Delivery!vars)
<1> SUFFICES ASSUME DetectionInv, NotBehind, [PipelineNext]_pipelineVars
             PROVE  NotBehind' /\ [Delivery!Next]_(Delivery!vars)
  OBVIOUS
<1>1. CASE DiagnosisStep
  BY <1>1 DEF DiagnosisStep, groupVars, serviceVars, NotBehind, Delivery!vars
<1>2. CASE [Next]_vars
  BY <1>2, NextNotBehind, DetectionSimulation
<1>3. QED
  BY <1>1, <1>2 DEF PipelineNext, DetectionStep, pipelineVars

(* Both services deliver each of their messages at least once and in       *)
(* order, whatever the other does, fails or repeats meanwhile              *)
(* (anomaly_detection and diagnosis_service, consumer.py and main.py).     *)
THEOREM PipelineDelivers == PipelineSpec => ImplementsDelivery /\ Diagnosing!ImplementsDelivery
<1>1. PipelineInit => Delivery!Init /\ NotBehind /\ Diagnosing!Delivery!Init /\ InOrderInv
  <2> SUFFICES ASSUME PipelineInit
               PROVE  Delivery!Init /\ NotBehind /\ Diagnosing!Delivery!Init /\ InOrderInv
    OBVIOUS
  <2>1. Delivery!Init /\ NotBehind
    BY DEF PipelineInit, Init, Delivery!Init, NotBehind
  <2>2. /\ dCommitted = 0 /\ handled = {} /\ dPc = "down" /\ dMember = "none" /\ dPosition = 0
        /\ Announced = <<>>
    BY DEF PipelineInit, Init, Announced
  <2>3. Diagnosing!Delivery!Init /\ InOrderInv
    BY <2>2 DEF Diagnosing!Delivery!Init, InOrderInv
  <2>4. QED
    BY <2>1, <2>3
<1>2. PipelineInv /\ PipelineInv' /\ InOrderInv /\ [PipelineNext]_pipelineVars
          => InOrderInv' /\ [Diagnosing!Delivery!Next]_(Diagnosing!Delivery!vars)
  <2> SUFFICES ASSUME PipelineInv, PipelineInv', InOrderInv, [PipelineNext]_pipelineVars
               PROVE  InOrderInv' /\ [Diagnosing!Delivery!Next]_(Diagnosing!Delivery!vars)
    OBVIOUS
  <2>t. DetectionInv /\ DetectionInv' /\ DiagnosisLoop /\ IdsInv
    BY DEF PipelineInv
  <2>1. CASE DetectionStep
    <3>1. InOrderInv'
      BY <2>1 DEF DetectionStep, diagnosisVars, InOrderInv
    <3>2. QED
      BY <2>1, <2>t, <3>1, AnnouncedDelivery
  <2>2. CASE DiagnosisStep
    BY <2>2, <2>t, InOrderStep, DiagnosisDelivery
  <2>3. CASE UNCHANGED pipelineVars
    <3>1. UNCHANGED <<published, handled, dCommitted, dMember, dPc, dPosition, dCursor>>
      BY <2>3 DEF pipelineVars, vars, storeVars, diagnosisVars
    <3>2. Announced' = Announced
      BY <3>1 DEF Announced
    <3>3. QED
      BY <3>1, <3>2 DEF InOrderInv, Diagnosing!Delivery!vars
  <2>4. QED
    BY <2>1, <2>2, <2>3 DEF PipelineNext
<1>3. PipelineInv => DetectionInv
  BY DEF PipelineInv
<1>4. QED
  BY <1>1, <1>2, <1>3, PipelineDetectionDelivery, PipelineInvariant, PTL
     DEF PipelineSpec, ImplementsDelivery, Delivery!Spec, Diagnosing!ImplementsDelivery,
         Diagnosing!Delivery!Spec
=============================================================================
