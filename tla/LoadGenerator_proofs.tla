------------------------ MODULE LoadGenerator_proofs ------------------------
(***************************************************************************)
(* Proofs about LoadGenerator, for every number of instances and tiers and *)
(* every rate, duration and limit: the reports of the SDK scripts account  *)
(* for every request of their tier, no tier exceeds its limit, and         *)
(* workload.json counts the last tier of every instance whole.             *)
(*                                                                         *)
(* Total is a recursive function.  That the function it names exists, and  *)
(* what its values add up to, is shown by induction on the size of a set,  *)
(* in the form of a least counterexample.                                  *)
(***************************************************************************)
EXTENDS LoadGenerator, FiniteSetTheorems, WellFoundedInduction, TLAPS

\* A set of numbers that is not empty has a least member.
LEMMA LeastNat ==
  ASSUME NEW T, T \subseteq Nat, T # {}
  PROVE  \E n \in T : \A m \in T : n <= m
<1>1. PICK n \in T : \A m \in T : ~(<<m, n>> \in OpToRel(<, Nat))
  BY NatLessThanWellFounded, WFMin
<1>2. \A m \in T : ~(m < n)
  BY <1>1 DEF OpToRel
<1>3. \A a, b \in Nat : ~(b < a) => a <= b
  OBVIOUS
<1> QED
  BY <1>1, <1>2, <1>3

\* The sum of f over F, written as Total is.
SumOver(F, f) ==
  LET sum[S \in SUBSET F] ==
        IF S = {} THEN 0
        ELSE LET i == CHOOSE j \in S : TRUE IN f[i] + sum[S \ {i}]
  IN sum[F]

\* What a function must satisfy to be the one SumOver is defined by.
Sums(F, f, sum) ==
  sum = [S \in SUBSET F |-> IF S = {} THEN 0
                            ELSE LET i == CHOOSE j \in S : TRUE IN f[i] + sum[S \ {i}]]

LEMMA SumOverIsSum ==
  ASSUME NEW F, NEW f, \E sum : Sums(F, f, sum)
  PROVE  \E sum : Sums(F, f, sum) /\ SumOver(F, f) = sum[F]
<1> DEFINE s == CHOOSE sum : Sums(F, f, sum)
<1>1. Sums(F, f, s)
  OBVIOUS
<1>2. SumOver(F, f) = s[F]
  BY Zenon DEF SumOver, Sums
<1> QED
  BY <1>1, <1>2

\* What is summed up, as a set of things to count.
Counted(S, f) == UNION {{i} \X (1..f[i]) : i \in S}

LEMMA BlockSize ==
  ASSUME NEW i, NEW n \in Nat
  PROVE  IsFiniteSet({i} \X (1..n)) /\ Cardinality({i} \X (1..n)) = n
<1>1. IsFiniteSet(1..n) /\ Cardinality(1..n) = n
  BY FS_Interval
<1>2. IsFiniteSet({i}) /\ Cardinality({i}) = 1
  BY FS_Singleton
<1>3. IsFiniteSet({i} \X (1..n)) /\ Cardinality({i} \X (1..n)) = Cardinality({i}) * Cardinality(1..n)
  BY <1>1, <1>2, FS_Product, Zenon
<1> QED
  BY <1>1, <1>2, <1>3

LEMMA CountedSplits ==
  ASSUME NEW S, NEW f, NEW i \in S
  PROVE  /\ Counted(S, f) = ({i} \X (1..f[i])) \cup Counted(S \ {i}, f)
         /\ ({i} \X (1..f[i])) \cap Counted(S \ {i}, f) = {}
  BY DEF Counted

LEMMA CountedIsFinite ==
  ASSUME NEW F, IsFiniteSet(F), NEW f \in [F -> Nat], NEW S \in SUBSET F
  PROVE  IsFiniteSet(Counted(S, f))
<1> DEFINE Bad == {n \in Nat : \E T \in SUBSET F : Cardinality(T) = n /\ ~IsFiniteSet(Counted(T, f))}
<1>1. \A T \in SUBSET F : IsFiniteSet(T) /\ Cardinality(T) \in Nat
  BY FS_Subset, FS_CardinalityType
<1>2. \A T : \A i \in T : Counted(T, f) = ({i} \X (1..f[i])) \cup Counted(T \ {i}, f)
  BY CountedSplits
<1>3. ASSUME Bad # {} PROVE FALSE
  <2>1. PICK n \in Bad : \A m \in Bad : n <= m
    BY <1>3, LeastNat
  <2>2. PICK T \in SUBSET F : Cardinality(T) = n /\ ~IsFiniteSet(Counted(T, f))
    BY <2>1
  <2>3. T # {}
    <3>1. Counted({}, f) = {}
      BY DEF Counted
    <3> QED
      BY <2>2, <3>1, FS_EmptySet
  <2>4. PICK i \in T : TRUE
    BY <2>3
  <2>5. T \ {i} \in SUBSET F /\ Cardinality(T \ {i}) = n - 1 /\ n - 1 \in Nat
    <3>1. T \ {i} \in SUBSET F /\ IsFiniteSet(T) /\ Cardinality(T) = n /\ n \in Nat
      BY <1>1, <2>2
    <3>2. Cardinality(T \ {i}) = n - 1
      BY <2>4, <3>1, FS_RemoveElement
    <3>3. Cardinality(T \ {i}) \in Nat
      BY <1>1, <3>1
    <3> QED
      BY <3>1, <3>2, <3>3
  <2>6. IsFiniteSet(Counted(T \ {i}, f))
    <3>1. n - 1 \notin Bad
      BY <2>1, <2>5
    <3> QED
      BY <2>5, <3>1
  <2>7. IsFiniteSet({i} \X (1..f[i]))
    <3>1. f[i] \in Nat
      BY <2>4
    <3> QED
      BY <3>1, BlockSize
  <2>8. Counted(T, f) = ({i} \X (1..f[i])) \cup Counted(T \ {i}, f)
    BY <2>4, <1>2
  <2>9. IsFiniteSet(({i} \X (1..f[i])) \cup Counted(T \ {i}, f))
    BY <2>6, <2>7, FS_Union, Zenon
  <2> QED
    BY <2>2, <2>8, <2>9
<1> QED
  BY <1>1, <1>3

LEMMA CountedGrows ==
  ASSUME NEW F, IsFiniteSet(F), NEW f \in [F -> Nat], NEW S \in SUBSET F, NEW i \in S
  PROVE  Cardinality(Counted(S, f)) = f[i] + Cardinality(Counted(S \ {i}, f))
<1> DEFINE B == {i} \X (1..f[i])
           C == Counted(S \ {i}, f)
<1>1. f[i] \in Nat /\ S \ {i} \in SUBSET F
  OBVIOUS
<1>2. IsFiniteSet(B) /\ Cardinality(B) = f[i]
  BY <1>1, BlockSize
<1>3. IsFiniteSet(C)
  BY <1>1, CountedIsFinite
<1>4. Cardinality(C) \in Nat
  BY <1>3, FS_CardinalityType
<1>5. Counted(S, f) = B \cup C /\ B \cap C = {}
  BY CountedSplits, Zenon
<1> HIDE DEF B, C
<1>6. Cardinality(B \cup C) = Cardinality(B) + Cardinality(C) - Cardinality(B \cap C)
  BY <1>2, <1>3, FS_Union
<1>7. Cardinality({}) = 0
  BY FS_EmptySet
<1>8. Cardinality(Counted(S, f)) = f[i] + Cardinality(C)
  <2>1. Cardinality(Counted(S, f)) = f[i] + Cardinality(C) - 0
    BY <1>2, <1>5, <1>6, <1>7
  <2> QED
    BY <1>1, <1>4, <2>1
<1> QED
  BY <1>8 DEF C

LEMMA SumExists ==
  ASSUME NEW F, IsFiniteSet(F), NEW f \in [F -> Nat]
  PROVE  \E sum : Sums(F, f, sum)
<1> DEFINE sum == [S \in SUBSET F |-> Cardinality(Counted(S, f))]
<1>1. sum[{}] = 0
  <2>1. Counted({}, f) = {}
    BY DEF Counted
  <2> QED
    BY <2>1, FS_EmptySet
<1>2. ASSUME NEW S \in SUBSET F, S # {}
      PROVE  sum[S] = LET i == CHOOSE j \in S : TRUE IN f[i] + sum[S \ {i}]
  <2> DEFINE i == CHOOSE j \in S : TRUE
  <2>1. i \in S
    BY <1>2
  <2> HIDE DEF i
  <2>2. sum[S] = f[i] + sum[S \ {i}]
    BY <2>1, CountedGrows
  <2> QED
    BY <2>2 DEF i
<1>3. Sums(F, f, sum)
  <2> HIDE DEF sum
  <2>1. sum = [S \in SUBSET F |-> sum[S]]
    BY DEF sum
  <2> QED
    BY <1>1, <1>2, <2>1 DEF Sums
<1> QED
  BY <1>3

\* Three sums of parts that make c everywhere.
LEMMA SumOfThree ==
  ASSUME NEW F, IsFiniteSet(F), NEW c \in Nat,
         NEW f \in [F -> Nat], NEW g \in [F -> Nat], NEW h \in [F -> Nat],
         \A i \in F : f[i] + g[i] + h[i] = c
  PROVE  SumOver(F, f) + SumOver(F, g) + SumOver(F, h) = Cardinality(F) * c
<1>1. PICK sf : Sums(F, f, sf) /\ SumOver(F, f) = sf[F]
  BY SumExists, SumOverIsSum
<1>2. PICK sg : Sums(F, g, sg) /\ SumOver(F, g) = sg[F]
  BY SumExists, SumOverIsSum
<1>3. PICK sh : Sums(F, h, sh) /\ SumOver(F, h) = sh[F]
  BY SumExists, SumOverIsSum
<1> DEFINE Good(S) == /\ sf[S] \in Nat /\ sg[S] \in Nat /\ sh[S] \in Nat
                      /\ sf[S] + sg[S] + sh[S] = Cardinality(S) * c
           Bad == {n \in Nat : \E S \in SUBSET F : Cardinality(S) = n /\ ~Good(S)}
<1>4. \A S \in SUBSET F : IsFiniteSet(S) /\ Cardinality(S) \in Nat
  BY FS_Subset, FS_CardinalityType
<1>5. ASSUME Bad # {} PROVE FALSE
  <2>1. PICK n \in Bad : \A m \in Bad : n <= m
    BY <1>5, LeastNat
  <2>2. PICK S \in SUBSET F : Cardinality(S) = n /\ ~Good(S)
    BY <2>1
  <2>3. S # {}
    <3>1. sf[{}] = 0 /\ sg[{}] = 0 /\ sh[{}] = 0
      BY <1>1, <1>2, <1>3 DEF Sums
    <3>2. Cardinality({}) = 0 /\ 0 * c = 0
      BY FS_EmptySet
    <3>3. Good({})
      BY <3>1, <3>2
    <3> QED
      BY <2>2, <3>3
  <2> DEFINE i == CHOOSE j \in S : TRUE
             R == S \ {i}
  <2>4. i \in S
    BY <2>3
  <2>5. sf[S] = f[i] + sf[R] /\ sg[S] = g[i] + sg[R] /\ sh[S] = h[i] + sh[R]
    BY <1>1, <1>2, <1>3, <2>3 DEF Sums
  <2> HIDE DEF i
  <2>6. R \in SUBSET F /\ Cardinality(R) = n - 1 /\ n \in Nat
    BY <1>4, <2>2, <2>4, FS_RemoveElement
  <2> HIDE DEF R
  <2>7. Good(R)
    BY <1>4, <2>1, <2>6
  <2>8. f[i] \in Nat /\ g[i] \in Nat /\ h[i] \in Nat /\ f[i] + g[i] + h[i] = c
    BY <2>4
  <2>9. (n - 1) * c + c = n * c /\ (n - 1) * c \in Nat
    <3>1. n - 1 \in Nat
      BY <1>4, <2>6
    <3>2. \A a \in Nat : a * c \in Nat /\ a * c + c = (a + 1) * c
      OBVIOUS
    <3>3. (n - 1) + 1 = n
      BY <2>6
    <3> QED
      BY <3>1, <3>2, <3>3
  <2>10. Good(S)
    <3>1. sf[R] + sg[R] + sh[R] = (n - 1) * c
      BY <2>6, <2>7
    <3>2. \A a, b, d, x, y, z \in Nat : (x + a) + (y + b) + (z + d) = (x + y + z) + (a + b + d)
      OBVIOUS
    <3>3. sf[S] + sg[S] + sh[S] = (f[i] + g[i] + h[i]) + (sf[R] + sg[R] + sh[R])
      <4>1. sf[R] \in Nat /\ sg[R] \in Nat /\ sh[R] \in Nat
        BY <2>7
      <4>2. (f[i] + sf[R]) + (g[i] + sg[R]) + (h[i] + sh[R])
              = (f[i] + g[i] + h[i]) + (sf[R] + sg[R] + sh[R])
        BY <2>8, <3>2, <4>1
      <4> QED
        BY ONLY <2>5, <4>2
    <3>4. sf[S] + sg[S] + sh[S] = n * c
      BY <2>8, <2>9, <3>1, <3>3
    <3>5. sf[S] \in Nat /\ sg[S] \in Nat /\ sh[S] \in Nat
      BY <2>5, <2>7, <2>8
    <3> QED
      BY <2>2, <3>4, <3>5
  <2> QED
    BY <2>2, <2>10
<1>6. Good(F)
  BY <1>4, <1>5
<1> QED
  BY <1>1, <1>2, <1>3, <1>6

LEMMA Constants ==
  /\ MaxConcurrency \in Nat \ {0} /\ Capacity \in Nat /\ MaxRaw \in Nat
  /\ TicksPerSecond \in Nat \ {0} /\ Duration \in Nat \ {0} /\ Len(Tiers) \in Nat \ {0}
  BY LoadGeneratorAssumption

LEMMA MaxIsNat == MaxConcurrency \in Nat
  BY Constants

USE Constants

LEMMA TotalType == \A t \in TierNumbers : Tiers[t] \in Nat /\ TotalRequests(t) \in Nat
<1> TAKE t \in TierNumbers
<1>1. Tiers[t] \in Nat
  BY LoadGeneratorAssumption DEF TierNumbers
<1>2. \A a, b \in Nat : a * b \in Nat
  OBVIOUS
<1> QED  BY <1>1, <1>2 DEF TotalRequests

LEMMA Division ==
  \A a \in Nat, b \in Nat \ {0} : a \div b \in Nat /\ a % b \in 0..(b - 1)
  OBVIOUS

LEMMA Positive ==
  \A c, t \in Nat, p \in Nat \ {0} :
    c + t \in Nat /\ 2 * t + p \in Nat /\ 2 * p \in Nat \ {0}
  OBVIOUS

LEMMA ZeroSum == \A s, f, d, n \in Nat : s + f + d + n = 0 => s = 0 /\ f = 0 /\ d = 0
  OBVIOUS

\* A running tier is one of the tiers.
LEMMA TierRuns ==
  ASSUME IInv, NEW i \in Instances, pc[i] \notin {"preflight", "crashed"}
  PROVE  tier[i] \in TierNumbers
  BY DEF IInv, TypeOK, MainTypeOK, TierProgress, TierNumbers

\* What a tick dispatches and what it carries over.
LEMMA BatchType ==
  ASSUME IInv, NEW i \in Instances, pc[i] = "dispatch"
  PROVE  Batch(i) \in Nat /\ NextCarry(i) \in 0..(TicksPerSecond - 1)
<1>0. tier[i] \in TierNumbers
  BY TierRuns
<1>1. Tiers[tier[i]] \in Nat /\ carry[i] \in Nat
  BY <1>0, TotalType DEF IInv, TypeOK, MainTypeOK
<1>2. carry[i] + Tiers[tier[i]] \in Nat /\ 2 * Tiers[tier[i]] + TicksPerSecond \in Nat
      /\ 2 * TicksPerSecond \in Nat \ {0}
  BY <1>1, Positive
<1>3. /\ (carry[i] + Tiers[tier[i]]) \div TicksPerSecond \in Nat
      /\ (carry[i] + Tiers[tier[i]]) % TicksPerSecond \in 0..(TicksPerSecond - 1)
      /\ (2 * Tiers[tier[i]] + TicksPerSecond) \div (2 * TicksPerSecond) \in Nat
  BY <1>2, Division
<1> QED
  BY <1>3 DEF Batch, NextCarry, Greater

\* A report that accounts for its tier keeps the reports accounted for.
LEMMA ReportWritten ==
  ASSUME IInv, NEW i \in Instances, NEW f \in Nat, WriteReport(i, f), script' = script,
         tier[i] \in TierNumbers,
         script # "raw_http" => successful[i] + f + dropped[i] = TotalRequests(tier[i])
  PROVE  results' \in [Instances -> Seq(Report)] /\ ReportAddsUp'
<1> DEFINE r == [tier |-> tier[i], successful |-> successful[i], failed |-> f,
                 dropped |-> dropped[i], samples |-> samples[i]]
<1>1. r \in Report
  BY DEF IInv, TypeOK, CountersTypeOK, Report
<1>2. results' = [results EXCEPT ![i] = IF script = "sdk_distributed" THEN <<r>> ELSE Append(@, r)]
  BY DEF WriteReport
<1>3. results \in [Instances -> Seq(Report)] /\ results[i] \in Seq(Report)
  BY DEF IInv, TypeOK
<1> HIDE DEF r
<1>4. results' \in [Instances -> Seq(Report)]
  BY <1>1, <1>2, <1>3
<1>5. script # "raw_http" => Requests(r) = TotalRequests(r.tier)
  BY DEF r, Requests
<1>6. ASSUME script # "raw_http", NEW j \in Instances, NEW k \in 1..Len(results'[j])
      PROVE  results'[j][k] = r \/ (k \in 1..Len(results[j]) /\ results'[j][k] = results[j][k])
  BY <1>1, <1>2, <1>3
<1>7. ReportAddsUp'
  <2> SUFFICES ASSUME script # "raw_http", NEW j \in Instances, NEW k \in 1..Len(results'[j])
               PROVE  Requests(results'[j][k]) = TotalRequests(results'[j][k].tier)
    BY DEF ReportAddsUp, Requests, TotalRequests
  <2>1. CASE results'[j][k] = r
    BY <2>1, <1>5
  <2>2. CASE k \in 1..Len(results[j]) /\ results'[j][k] = results[j][k]
    BY <2>2 DEF IInv, ReportAddsUp
  <2> QED
    BY <1>6, <2>1, <2>2
<1> QED  BY <1>4, <1>7

\* The counters of one instance, and a step that changes those only.
CounterTypes(i) ==
  /\ requested[i] \in Nat /\ successful[i] \in Nat /\ failed[i] \in Nat
  /\ dropped[i] \in Nat /\ inFlight[i] \in Nat /\ samples[i] \in Nat

CountersAt(i) ==
  /\ requested[i] = successful[i] + failed[i] + dropped[i] + inFlight[i]
  /\ samples[i] = Lesser(successful[i], Capacity)

CountersSetAt(i) ==
  /\ requested' = [requested EXCEPT ![i] = requested'[i]]
  /\ successful' = [successful EXCEPT ![i] = successful'[i]]
  /\ failed' = [failed EXCEPT ![i] = failed'[i]]
  /\ dropped' = [dropped EXCEPT ![i] = dropped'[i]]
  /\ inFlight' = [inFlight EXCEPT ![i] = inFlight'[i]]
  /\ samples' = [samples EXCEPT ![i] = samples'[i]]

LEMMA CounterFacts ==
  ASSUME IInv, NEW i \in Instances
  PROVE  CounterTypes(i) /\ CountersAt(i)
  BY DEF IInv, TypeOK, CountersTypeOK, CountersAddUp, CounterTypes, CountersAt

LEMMA CountersSet ==
  ASSUME IInv, NEW i \in Instances, CountersSetAt(i), CounterTypes(i)', CountersAt(i)'
  PROVE  CountersTypeOK' /\ CountersAddUp'
<1>1. CountersTypeOK'
  BY DEF IInv, TypeOK, CountersTypeOK, CountersSetAt, CounterTypes
<1>2. ASSUME NEW j \in Instances PROVE CountersAt(j)'
  <2>1. CASE j = i
    BY <2>1
  <2>2. CASE j # i
    <3>1. /\ requested'[j] = requested[j] /\ successful'[j] = successful[j]
          /\ failed'[j] = failed[j] /\ dropped'[j] = dropped[j]
          /\ inFlight'[j] = inFlight[j] /\ samples'[j] = samples[j]
      BY <2>2 DEF IInv, TypeOK, CountersTypeOK, CountersSetAt
    <3>2. CountersAt(j)
      BY CounterFacts
    <3> QED
      BY <3>1, <3>2 DEF CountersAt
  <2> QED
    BY <2>1, <2>2
<1> QED
  BY <1>1, <1>2 DEF CountersAddUp, CountersAt

LEMMA InitIInv == Init => IInv
  BY DEF Init, IInv, TypeOK, Zero, MainTypeOK, CountersTypeOK, CountersAddUp, TierProgress, 
         FilesAreOfEnded, ReportAddsUp, StaysBelowLimit, Lesser, TierNumbers, Scripts

LEMMA TickStep ==
  ASSUME IInv, NEW i \in Instances, Tick(i)
  PROVE  IInv'
<1> DEFINE rest == TotalRequests(tier[i]) - requested[i]
           batch == Lesser(Batch(i), rest)
           free == MaxConcurrency - inFlight[i]
           new == Lesser(batch, free)
<1>1. tier[i] \in TierNumbers /\ TotalRequests(tier[i]) \in Nat
  BY TierRuns, TotalType DEF Tick
<1>2. requested[i] \in Nat /\ inFlight[i] \in Nat /\ dropped[i] \in Nat
  BY DEF IInv, TypeOK, CountersTypeOK
<1>3. rest \in Nat /\ requested[i] + rest = TotalRequests(tier[i])
  BY <1>1, <1>2 DEF Tick
<1>4. free \in Nat /\ inFlight[i] + free = MaxConcurrency
  BY <1>2 DEF IInv, StaysBelowLimit
<1>5. Batch(i) \in Nat
  BY BatchType DEF Tick
<1>6. batch \in Nat /\ batch <= rest
  BY <1>3, <1>5 DEF Lesser
<1>7. new \in Nat /\ new <= batch /\ new <= free
  BY <1>4, <1>6 DEF Lesser
<1>8. /\ requested' = [requested EXCEPT ![i] = @ + batch]
      /\ dropped' = [dropped EXCEPT ![i] = @ + (batch - new)]
      /\ inFlight' = [inFlight EXCEPT ![i] = @ + new]
      /\ carry' = [carry EXCEPT ![i] = NextCarry(i)]
      /\ pc[i] = "dispatch"
      /\ UNCHANGED <<script, pc, tier, late, log, results, successful, failed, samples, wrapper>>
  BY DEF Tick, Admitted
<1> HIDE DEF batch, new, rest, free
<1>9. NextCarry(i) \in 0..(TicksPerSecond - 1)
  BY <1>8, BatchType
<1>10. CountersTypeOK' /\ CountersAddUp'
  <2>1. CounterTypes(i) /\ CountersAt(i)
    BY CounterFacts
  <2>2. CountersSetAt(i)
    BY <1>8 DEF IInv, TypeOK, CountersTypeOK, CountersSetAt
  <2>3. /\ requested'[i] = requested[i] + batch /\ dropped'[i] = dropped[i] + (batch - new)
        /\ inFlight'[i] = inFlight[i] + new /\ successful'[i] = successful[i]
        /\ failed'[i] = failed[i] /\ samples'[i] = samples[i]
    BY <1>8 DEF IInv, TypeOK, CountersTypeOK
  <2>4. CounterTypes(i)' /\ CountersAt(i)'
    <3>1. requested[i] + batch \in Nat /\ dropped[i] + (batch - new) \in Nat
          /\ inFlight[i] + new \in Nat
      BY <1>6, <1>7, <2>1 DEF CounterTypes
    <3>2. CounterTypes(i)'
      BY <2>1, <2>3, <3>1 DEF CounterTypes
    <3>3. requested[i] + batch = successful[i] + failed[i] + (dropped[i] + (batch - new)) + (inFlight[i] + new)
      <4>1. /\ requested[i] \in Nat /\ successful[i] \in Nat /\ failed[i] \in Nat
            /\ dropped[i] \in Nat /\ inFlight[i] \in Nat
        BY <2>1 DEF CounterTypes
      <4>2. requested[i] = successful[i] + failed[i] + dropped[i] + inFlight[i]
        BY <2>1 DEF CountersAt
      <4>3. batch \in Nat /\ new \in Nat /\ new <= batch
        BY <1>6, <1>7
      <4>4. (successful[i] + failed[i] + dropped[i] + inFlight[i]) + batch
              = successful[i] + failed[i] + (dropped[i] + (batch - new)) + (inFlight[i] + new)
        <5> DEFINE s == successful[i]
                   f == failed[i]
                   d == dropped[i]
                   n == inFlight[i]
        <5>1. s \in Nat /\ f \in Nat /\ d \in Nat /\ n \in Nat
          BY <4>1
        <5> HIDE DEF s, f, d, n
        <5>2. (s + f + d + n) + batch = s + f + (d + (batch - new)) + (n + new)
          BY <4>3, <5>1
        <5> QED
          BY <5>2 DEF s, f, d, n
      <4> QED
        BY <4>2, <4>4, Zenon
    <3> QED
      BY <2>1, <2>3, <3>2, <3>3 DEF CountersAt
  <2> QED
    BY <2>2, <2>4, CountersSet
<1>11. TypeOK'
  BY <1>8, <1>9, <1>10 DEF IInv, TypeOK, MainTypeOK, wrapper
<1>13. TierProgress'
  <2> SUFFICES ASSUME NEW j \in Instances
               PROVE  TierProgress!(j)'
    BY DEF TierProgress
  <2>1. TierProgress!(j)
    BY DEF IInv, TierProgress
  <2>2. requested'[i] = requested[i] + batch /\ (j # i => requested'[j] = requested[j])
    BY <1>8 DEF IInv, TypeOK, CountersTypeOK
  <2>3. requested'[i] <= TotalRequests(tier[i])
    BY <1>1, <1>2, <1>3, <1>6, <2>2
  <2> QED
    BY <1>8, <2>1, <2>2, <2>3 DEF TotalRequests
<1>14. FilesAreOfEnded' /\ ReportAddsUp'
  BY <1>8 DEF IInv, FilesAreOfEnded, ReportAddsUp, TotalRequests, wrapper
<1>15. StaysBelowLimit'
  <2>1. inFlight'[i] = inFlight[i] + new /\ \A j \in Instances : j # i => inFlight'[j] = inFlight[j]
    BY <1>8 DEF IInv, TypeOK, CountersTypeOK
  <2>2. inFlight'[i] <= MaxConcurrency
    BY <1>2, <1>4, <1>7, <2>1
  <2> QED
    BY <1>8, <2>1, <2>2 DEF IInv, StaysBelowLimit
<1> QED
  BY <1>10, <1>11, <1>13, <1>14, <1>15 DEF IInv

LEMMA PreflightStep ==
  ASSUME IInv, NEW i \in Instances, Preflight(i)
  PROVE  IInv'
<1> USE DEF IInv, TypeOK
<1>2. results' \in [Instances -> Seq(Report)] /\ ReportAddsUp'
  BY DEF ReportAddsUp, TotalRequests, Preflight, StartTier, ResetCounters, process, counters, wrapper
<1>3. CountersTypeOK' /\ CountersAddUp'
  <2>1. CounterTypes(i) /\ CountersAt(i)
    BY CounterFacts
  <2>2. CountersSetAt(i) /\ CounterTypes(i)' /\ CountersAt(i)'
    BY <2>1 DEF CountersTypeOK, CountersSetAt, CounterTypes, CountersAt, Lesser, Preflight, StartTier, ResetCounters, process, counters, wrapper
  <2> QED
    BY <2>2, CountersSet
<1>4. MainTypeOK' /\ script' \in Scripts
  BY DEF MainTypeOK, TierNumbers, Preflight, StartTier, ResetCounters, process, counters, wrapper
<1>5. TypeOK'
  BY <1>2, <1>3, <1>4 DEF Preflight, StartTier, ResetCounters, process, counters, wrapper
<1>7. TierProgress'
  <2> SUFFICES ASSUME NEW j \in Instances
               PROVE  TierProgress!(j)'
    BY DEF TierProgress
  <2>1. TierProgress!(j)
    BY DEF TierProgress
  <2> QED
    <3>1. 1 \in TierNumbers
      BY DEF MainTypeOK, TierNumbers, Preflight
    <3>2. /\ tier'[i] = 1 /\ pc'[i] = "dispatch" /\ requested'[i] = 0
          /\ j # i => tier'[j] = tier[j] /\ pc'[j] = pc[j] /\ requested'[j] = requested[j]
          /\ script' = script
      BY DEF MainTypeOK, CountersTypeOK, Preflight, StartTier, ResetCounters, process, counters, wrapper
    <3>3. TotalRequests(1) \in Nat /\ 1 # 0
      BY <3>1, TotalType DEF TierNumbers
    <3> QED
      BY <2>1, <3>2, <3>3 DEF TotalRequests
<1>8. FilesAreOfEnded'
  BY DEF FilesAreOfEnded, MainTypeOK, Preflight, StartTier, ResetCounters, process, counters, wrapper
<1>9. StaysBelowLimit'
  BY DEF StaysBelowLimit, CountersTypeOK, Preflight, StartTier, ResetCounters, process, counters, wrapper
<1> QED  BY <1>2, <1>5, <1>3, <1>7, <1>8, <1>9

LEMMA PreflightFailsStep ==
  ASSUME IInv, NEW i \in Instances, PreflightFails(i)
  PROVE  IInv'
<1> USE DEF IInv, TypeOK
<1>2. results' \in [Instances -> Seq(Report)] /\ ReportAddsUp'
  BY DEF ReportAddsUp, TotalRequests, PreflightFails, process, counters, wrapper
<1>3. CountersTypeOK'
  BY DEF CountersTypeOK, Lesser, PreflightFails, process, counters, wrapper
<1>4. MainTypeOK' /\ script' \in Scripts
  BY DEF MainTypeOK, TierNumbers, PreflightFails, process, counters, wrapper
<1>5. TypeOK'
  BY <1>2, <1>3, <1>4 DEF PreflightFails, process, counters, wrapper
<1>6. CountersAddUp'
  BY DEF CountersAddUp, CountersTypeOK, Lesser, PreflightFails, process, counters, wrapper
<1>7. TierProgress'
  BY TotalType DEF TierProgress, MainTypeOK, CountersTypeOK, TierNumbers, TotalRequests, PreflightFails, process, counters, wrapper
<1>8. FilesAreOfEnded'
  BY DEF FilesAreOfEnded, MainTypeOK, PreflightFails, process, counters, wrapper
<1>9. StaysBelowLimit'
  BY DEF StaysBelowLimit, CountersTypeOK, PreflightFails, process, counters, wrapper
<1> QED  BY <1>2, <1>5, <1>6, <1>7, <1>8, <1>9

LEMMA DispatchEndsStep ==
  ASSUME IInv, NEW i \in Instances, DispatchEnds(i)
  PROVE  IInv'
<1> USE DEF IInv, TypeOK
<1>2. results' \in [Instances -> Seq(Report)] /\ ReportAddsUp'
  BY DEF ReportAddsUp, TotalRequests, DispatchEnds, process, counters, wrapper
<1>3. CountersTypeOK'
  BY DEF CountersTypeOK, Lesser, DispatchEnds, process, counters, wrapper
<1>4. MainTypeOK' /\ script' \in Scripts
  BY DEF MainTypeOK, TierNumbers, DispatchEnds, process, counters, wrapper
<1>5. TypeOK'
  BY <1>2, <1>3, <1>4 DEF DispatchEnds, process, counters, wrapper
<1>6. CountersAddUp'
  BY DEF CountersAddUp, CountersTypeOK, Lesser, DispatchEnds, process, counters, wrapper
<1>7. TierProgress'
  <2> SUFFICES ASSUME NEW j \in Instances
               PROVE  TierProgress!(j)'
    BY DEF TierProgress
  <2>1. TierProgress!(j)
    BY DEF TierProgress
  <2> QED
    <3>1. j = i => tier[j] \in TierNumbers /\ requested[j] \in Nat /\ TotalRequests(tier[j]) \in Nat
      BY TierRuns, TotalType DEF CountersTypeOK, DispatchEnds
    <3>2. j = i => requested[j] = TotalRequests(tier[j])
      BY <2>1, <3>1 DEF DispatchEnds
    <3> QED
      BY <2>1, <3>2 DEF MainTypeOK, TotalRequests, DispatchEnds, counters
<1>8. FilesAreOfEnded'
  BY DEF FilesAreOfEnded, MainTypeOK, DispatchEnds, process, counters, wrapper
<1>9. StaysBelowLimit'
  BY DEF StaysBelowLimit, CountersTypeOK, DispatchEnds, process, counters, wrapper
<1> QED  BY <1>2, <1>5, <1>6, <1>7, <1>8, <1>9

LEMMA AnswerStep ==
  ASSUME IInv, NEW i \in Instances, NEW answer \in {"success", "error"}, Answer(i, answer)
  PROVE  IInv'
<1> USE DEF IInv, TypeOK
<1>2. results' \in [Instances -> Seq(Report)] /\ ReportAddsUp'
  BY DEF ReportAddsUp, TotalRequests, Answer, Sample, process, counters, wrapper
<1>3. CountersTypeOK' /\ CountersAddUp'
  <2>1. CounterTypes(i) /\ CountersAt(i)
    BY CounterFacts
  <2>2. CountersSetAt(i)
    BY DEF CountersTypeOK, CountersSetAt, Answer, Sample, process, counters, wrapper
  <2>3. /\ successful'[i] = IF answer = "success" THEN successful[i] + 1 ELSE successful[i]
        /\ failed'[i] = IF answer = "success" THEN failed[i] ELSE failed[i] + 1
        /\ samples'[i] = IF answer = "success" THEN Sample(samples[i]) ELSE samples[i]
        /\ dropped'[i] = dropped[i] /\ inFlight[i] > 0
        /\ \/ requested'[i] = requested[i] /\ inFlight'[i] = inFlight[i] - 1
           \/ requested'[i] = requested[i] + 1 /\ inFlight'[i] = inFlight[i]
        /\ script # "raw_http" => requested'[i] = requested[i]
    BY DEF CountersTypeOK, Answer
  <2> DEFINE r == requested[i]
             s == successful[i]
             f == failed[i]
             d == dropped[i]
             n == inFlight[i]
  <2>a. /\ r \in Nat /\ s \in Nat /\ f \in Nat /\ d \in Nat /\ n \in Nat /\ samples[i] \in Nat
        /\ r = s + f + d + n /\ n > 0
    BY <2>1, <2>3 DEF CounterTypes, CountersAt
  <2> HIDE DEF r, s, f, d, n
  <2>b. /\ n - 1 \in Nat
        /\ r = (s + 1) + f + d + (n - 1) /\ r = s + (f + 1) + d + (n - 1)
        /\ r + 1 = (s + 1) + f + d + n /\ r + 1 = s + (f + 1) + d + n
    BY <2>a
  <2> USE DEF r, s, f, d, n
  <2>c. \A a \in Nat : a + 1 \in Nat /\ Sample(a) \in Nat
    BY DEF Sample, Lesser
  <2>4. CounterTypes(i)'
    BY <2>a, <2>b, <2>c, <2>3 DEF CounterTypes
  <2>5. samples'[i] = Lesser(successful'[i], Capacity)
    BY <2>1, <2>3 DEF CounterTypes, CountersAt, Sample, Lesser
  <2>6. requested'[i] = successful'[i] + failed'[i] + dropped'[i] + inFlight'[i]
    <3>1. CASE answer = "success"
      BY <2>b, <2>3, <3>1
    <3>2. CASE answer # "success"
      BY <2>b, <2>3, <3>2
    <3> QED
      BY <3>1, <3>2
  <2> QED
    BY <2>2, <2>4, <2>5, <2>6, CountersSet DEF CountersAt
<1>4. MainTypeOK' /\ script' \in Scripts
  BY DEF MainTypeOK, TierNumbers, Answer, Sample, process, counters, wrapper
<1>5. TypeOK'
  BY <1>2, <1>3, <1>4 DEF Answer, Sample, process, counters, wrapper
<1>7. TierProgress'
  BY TotalType DEF TierProgress, MainTypeOK, CountersTypeOK, TierNumbers, TotalRequests, Answer, Sample, process, counters, wrapper
<1>8. FilesAreOfEnded'
  BY DEF FilesAreOfEnded, MainTypeOK, Answer, Sample, process, counters, wrapper
<1>9. StaysBelowLimit'
  <2>1. \A j \in Instances : inFlight'[j] \in Nat /\ inFlight'[j] <= inFlight[j]
    <3>1. inFlight[i] - 1 <= inFlight[i] /\ inFlight[i] <= inFlight[i]
      BY DEF CountersTypeOK
    <3>2. inFlight' = [inFlight EXCEPT ![i] = inFlight[i] - 1] \/ inFlight' = inFlight
      BY DEF Answer
    <3>3. \A j \in Instances : inFlight'[j] = inFlight[j] \/ (j = i /\ inFlight'[j] = inFlight[i] - 1)
      BY <3>2 DEF CountersTypeOK
    <3>4. \A j \in Instances : inFlight[j] <= inFlight[j]
      BY DEF CountersTypeOK
    <3> QED
      BY <1>3, <3>1, <3>3, <3>4 DEF CountersTypeOK
  <2>2. \A j \in Instances, u \in TierNumbers : late'[j][u] \in Nat /\ late'[j][u] <= late[j][u]
    BY DEF Answer, Sample, process, counters, wrapper
  <2>3. \A j \in Instances : inFlight[j] \in Nat /\ \A u \in TierNumbers : late[j][u] \in Nat
    BY DEF CountersTypeOK
  <2>4. \A j \in Instances : inFlight'[j] <= MaxConcurrency
    <3>1. \A a, b, c \in Nat : a <= b /\ b <= c => a <= c
      OBVIOUS
    <3>2. \A j \in Instances : inFlight[j] <= MaxConcurrency
      BY DEF StaysBelowLimit
    <3> QED
      BY <2>1, <2>3, <3>1, <3>2
  <2>5. \A j \in Instances, u \in TierNumbers : late'[j][u] <= MaxConcurrency
    BY <2>2, <2>3 DEF StaysBelowLimit
  <2>6. script # "sdk_distributed" => \A j \in Instances, u \in TierNumbers : late'[j][u] = 0
    BY <2>2, <2>3 DEF StaysBelowLimit
  <2>7. script' = script
    BY DEF Answer, process
  <2> QED
    BY <2>4, <2>5, <2>6, <2>7 DEF StaysBelowLimit
<1> QED  BY <1>2, <1>5, <1>3, <1>7, <1>8, <1>9

LEMMA RawAnswerStep ==
  ASSUME IInv, NEW i \in Instances, NEW answer \in {"success", "error"}, RawAnswer(i, answer)
  PROVE  IInv'
<1> USE DEF IInv, TypeOK
<1>2. results' \in [Instances -> Seq(Report)] /\ ReportAddsUp'
  BY DEF ReportAddsUp, TotalRequests, RawAnswer, Sample, process, counters, wrapper
<1>3. CountersTypeOK' /\ CountersAddUp'
  <2>1. CounterTypes(i) /\ CountersAt(i)
    BY CounterFacts
  <2>2. CountersSetAt(i)
    BY DEF CountersTypeOK, CountersSetAt, RawAnswer, Sample, process, counters, wrapper
  <2>3. /\ successful'[i] = IF answer = "success" THEN successful[i] + 1 ELSE successful[i]
        /\ failed'[i] = IF answer = "success" THEN failed[i] ELSE failed[i] + 1
        /\ samples'[i] = IF answer = "success" THEN Sample(samples[i]) ELSE samples[i]
        /\ dropped'[i] = dropped[i] /\ inFlight[i] > 0
        /\ \/ requested'[i] = requested[i] /\ inFlight'[i] = inFlight[i] - 1
           \/ requested'[i] = requested[i] + 1 /\ inFlight'[i] = inFlight[i]
        /\ script # "raw_http" => requested'[i] = requested[i]
    BY DEF CountersTypeOK, RawAnswer
  <2> DEFINE r == requested[i]
             s == successful[i]
             f == failed[i]
             d == dropped[i]
             n == inFlight[i]
  <2>a. /\ r \in Nat /\ s \in Nat /\ f \in Nat /\ d \in Nat /\ n \in Nat /\ samples[i] \in Nat
        /\ r = s + f + d + n /\ n > 0
    BY <2>1, <2>3 DEF CounterTypes, CountersAt
  <2> HIDE DEF r, s, f, d, n
  <2>b. /\ n - 1 \in Nat
        /\ r = (s + 1) + f + d + (n - 1) /\ r = s + (f + 1) + d + (n - 1)
        /\ r + 1 = (s + 1) + f + d + n /\ r + 1 = s + (f + 1) + d + n
    BY <2>a
  <2> USE DEF r, s, f, d, n
  <2>c. \A a \in Nat : a + 1 \in Nat /\ Sample(a) \in Nat
    BY DEF Sample, Lesser
  <2>4. CounterTypes(i)'
    BY <2>a, <2>b, <2>c, <2>3 DEF CounterTypes
  <2>5. samples'[i] = Lesser(successful'[i], Capacity)
    BY <2>1, <2>3 DEF CounterTypes, CountersAt, Sample, Lesser
  <2>6. requested'[i] = successful'[i] + failed'[i] + dropped'[i] + inFlight'[i]
    <3>1. CASE answer = "success"
      BY <2>b, <2>3, <3>1
    <3>2. CASE answer # "success"
      BY <2>b, <2>3, <3>2
    <3> QED
      BY <3>1, <3>2
  <2> QED
    BY <2>2, <2>4, <2>5, <2>6, CountersSet DEF CountersAt
<1>4. MainTypeOK' /\ script' \in Scripts
  BY DEF MainTypeOK, TierNumbers, RawAnswer, Sample, process, counters, wrapper
<1>5. TypeOK'
  BY <1>2, <1>3, <1>4 DEF RawAnswer, Sample, process, counters, wrapper
<1>7. TierProgress'
  BY TotalType DEF TierProgress, MainTypeOK, CountersTypeOK, TierNumbers, TotalRequests, RawAnswer, Sample, process, counters, wrapper
<1>8. FilesAreOfEnded'
  BY DEF FilesAreOfEnded, MainTypeOK, RawAnswer, Sample, process, counters, wrapper
<1>9. StaysBelowLimit'
  <2>1. \A j \in Instances : inFlight'[j] \in Nat /\ inFlight'[j] <= inFlight[j]
    <3>1. inFlight[i] - 1 <= inFlight[i] /\ inFlight[i] <= inFlight[i]
      BY DEF CountersTypeOK
    <3>2. inFlight' = [inFlight EXCEPT ![i] = inFlight[i] - 1] \/ inFlight' = inFlight
      BY DEF RawAnswer
    <3>3. \A j \in Instances : inFlight'[j] = inFlight[j] \/ (j = i /\ inFlight'[j] = inFlight[i] - 1)
      BY <3>2 DEF CountersTypeOK
    <3>4. \A j \in Instances : inFlight[j] <= inFlight[j]
      BY DEF CountersTypeOK
    <3> QED
      BY <1>3, <3>1, <3>3, <3>4 DEF CountersTypeOK
  <2>2. \A j \in Instances, u \in TierNumbers : late'[j][u] \in Nat /\ late'[j][u] <= late[j][u]
    BY DEF RawAnswer, Sample, process, counters, wrapper
  <2>3. \A j \in Instances : inFlight[j] \in Nat /\ \A u \in TierNumbers : late[j][u] \in Nat
    BY DEF CountersTypeOK
  <2>4. \A j \in Instances : inFlight'[j] <= MaxConcurrency
    <3>1. \A a, b, c \in Nat : a <= b /\ b <= c => a <= c
      OBVIOUS
    <3>2. \A j \in Instances : inFlight[j] <= MaxConcurrency
      BY DEF StaysBelowLimit
    <3> QED
      BY <2>1, <2>3, <3>1, <3>2
  <2>5. \A j \in Instances, u \in TierNumbers : late'[j][u] <= MaxConcurrency
    BY <2>2, <2>3 DEF StaysBelowLimit
  <2>6. script # "sdk_distributed" => \A j \in Instances, u \in TierNumbers : late'[j][u] = 0
    BY <2>2, <2>3 DEF StaysBelowLimit
  <2>7. script' = script
    BY DEF RawAnswer, process
  <2> QED
    BY <2>4, <2>5, <2>6, <2>7 DEF StaysBelowLimit
<1> QED  BY <1>2, <1>5, <1>3, <1>7, <1>8, <1>9

LEMMA DrainedStep ==
  ASSUME IInv, NEW i \in Instances, Drained(i)
  PROVE  IInv'
<1> USE DEF IInv, TypeOK
<1>0. tier[i] \in TierNumbers /\ WriteReport(i, failed[i]) /\ script' = script
  BY TierRuns DEF Drained
<1>1. failed[i] \in Nat /\ (script # "raw_http" =>
         successful[i] + (failed[i]) + dropped[i] = TotalRequests(tier[i]))
  BY DEF Drained, CountersTypeOK, CountersAddUp, TierProgress
<1>2. results' \in [Instances -> Seq(Report)] /\ ReportAddsUp'
  BY <1>0, <1>1, ReportWritten
<1>3. CountersTypeOK'
  BY DEF CountersTypeOK, Lesser, Drained, EndLog, process, counters, wrapper
<1>4. MainTypeOK' /\ script' \in Scripts
  BY <1>0, TierRuns DEF MainTypeOK, TierNumbers, Drained, EndLog, process, counters, wrapper
<1>5. TypeOK'
  BY <1>0, <1>2, <1>3, <1>4 DEF Drained, EndLog, process, counters, wrapper
<1>6. CountersAddUp'
  BY DEF CountersAddUp, CountersTypeOK, Lesser, Drained, EndLog, process, counters, wrapper
<1>7. TierProgress'
  BY TotalType DEF TierProgress, MainTypeOK, CountersTypeOK, TierNumbers, TotalRequests, Drained, EndLog, process, counters, wrapper
<1>8. FilesAreOfEnded'
  BY DEF FilesAreOfEnded, MainTypeOK, Drained, EndLog, process, counters, wrapper
<1>9. StaysBelowLimit'
  BY <1>0 DEF StaysBelowLimit, CountersTypeOK, Drained, EndLog, process, counters, wrapper
<1> QED  BY <1>2, <1>5, <1>6, <1>7, <1>8, <1>9

LEMMA DrainDeadlineStep ==
  ASSUME IInv, NEW i \in Instances, DrainDeadline(i)
  PROVE  IInv'
<1> USE DEF IInv, TypeOK
<1>0. tier[i] \in TierNumbers /\ WriteReport(i, failed[i] + inFlight[i]) /\ script' = script
  BY TierRuns DEF DrainDeadline
<1>1. failed[i] + inFlight[i] \in Nat /\ (script # "raw_http" =>
         successful[i] + (failed[i] + inFlight[i]) + dropped[i] = TotalRequests(tier[i]))
  BY DEF DrainDeadline, CountersTypeOK, CountersAddUp, TierProgress
<1>2. results' \in [Instances -> Seq(Report)] /\ ReportAddsUp'
  BY <1>0, <1>1, ReportWritten
<1>3. CountersTypeOK' /\ CountersAddUp'
  <2>1. CounterTypes(i) /\ CountersAt(i)
    BY CounterFacts
  <2>2. CountersSetAt(i) /\ CounterTypes(i)' /\ CountersAt(i)'
    BY <2>1 DEF CountersTypeOK, CountersSetAt, CounterTypes, CountersAt, Lesser, DrainDeadline, EndLog, process, counters, wrapper
  <2> QED
    BY <2>2, CountersSet
<1>4. MainTypeOK' /\ script' \in Scripts
  BY <1>0, TierRuns DEF MainTypeOK, TierNumbers, DrainDeadline, EndLog, process, counters, wrapper
<1>5. TypeOK'
  <2>1. inFlight[i] \in Nat
    BY DEF CountersTypeOK
  <2> QED
    BY <2>1, <1>0, <1>2, <1>3, <1>4 DEF DrainDeadline, EndLog, process, counters, wrapper
<1>7. TierProgress'
  BY TotalType DEF TierProgress, MainTypeOK, CountersTypeOK, TierNumbers, TotalRequests, DrainDeadline, EndLog, process, counters, wrapper
<1>8. FilesAreOfEnded'
  BY DEF FilesAreOfEnded, MainTypeOK, DrainDeadline, EndLog, process, counters, wrapper
<1>9. StaysBelowLimit'
  BY <1>0 DEF StaysBelowLimit, CountersTypeOK, DrainDeadline, EndLog, process, counters, wrapper
<1> QED  BY <1>2, <1>5, <1>3, <1>7, <1>8, <1>9

LEMMA NextTierStep ==
  ASSUME IInv, NEW i \in Instances, NextTier(i)
  PROVE  IInv'
<1> USE DEF IInv, TypeOK
<1>2. results' \in [Instances -> Seq(Report)] /\ ReportAddsUp'
  BY DEF ReportAddsUp, TotalRequests, NextTier, StartTier, ResetCounters, process, counters, wrapper
<1>3. CountersTypeOK' /\ CountersAddUp'
  <2>1. CounterTypes(i) /\ CountersAt(i)
    BY CounterFacts
  <2>2. CountersSetAt(i) /\ CounterTypes(i)' /\ CountersAt(i)'
    BY <2>1 DEF CountersTypeOK, CountersSetAt, CounterTypes, CountersAt, Lesser, NextTier, StartTier, ResetCounters, process, counters, wrapper
  <2> QED
    BY <2>2, CountersSet
<1>4. MainTypeOK' /\ script' \in Scripts
  BY TierRuns DEF MainTypeOK, TierNumbers, NextTier, StartTier, ResetCounters, process, counters, wrapper
<1>5. TypeOK'
  BY <1>2, <1>3, <1>4 DEF NextTier, StartTier, ResetCounters, process, counters, wrapper
<1>7. TierProgress'
  <2> SUFFICES ASSUME NEW j \in Instances
               PROVE  TierProgress!(j)'
    BY DEF TierProgress
  <2>1. TierProgress!(j)
    BY DEF TierProgress
  <2> QED
    <3>1. tier[i] + 1 \in TierNumbers
      BY DEF MainTypeOK, TierNumbers, NextTier
    <3>2. /\ tier'[i] = tier[i] + 1 /\ pc'[i] = "dispatch" /\ requested'[i] = 0
          /\ j # i => tier'[j] = tier[j] /\ pc'[j] = pc[j] /\ requested'[j] = requested[j]
          /\ script' = script
      BY DEF MainTypeOK, CountersTypeOK, NextTier, StartTier, ResetCounters, process, counters, wrapper
    <3>3. TotalRequests(tier[i] + 1) \in Nat /\ tier[i] + 1 # 0
      BY <3>1, TotalType DEF TierNumbers
    <3> QED
      BY <2>1, <3>2, <3>3 DEF TotalRequests
<1>8. FilesAreOfEnded'
  BY DEF FilesAreOfEnded, MainTypeOK, NextTier, StartTier, ResetCounters, process, counters, wrapper
<1>9. StaysBelowLimit'
  BY DEF StaysBelowLimit, CountersTypeOK, NextTier, StartTier, ResetCounters, process, counters, wrapper
<1> QED  BY <1>2, <1>5, <1>3, <1>7, <1>8, <1>9

LEMMA MainEndsStep ==
  ASSUME IInv, NEW i \in Instances, MainEnds(i)
  PROVE  IInv'
<1> USE DEF IInv, TypeOK
<1>2. results' \in [Instances -> Seq(Report)] /\ ReportAddsUp'
  BY DEF ReportAddsUp, TotalRequests, MainEnds, process, counters, wrapper
<1>3. CountersTypeOK'
  BY DEF CountersTypeOK, Lesser, MainEnds, process, counters, wrapper
<1>4. MainTypeOK' /\ script' \in Scripts
  BY DEF MainTypeOK, TierNumbers, MainEnds, process, counters, wrapper
<1>5. TypeOK'
  BY <1>2, <1>3, <1>4 DEF MainEnds, process, counters, wrapper
<1>6. CountersAddUp'
  BY DEF CountersAddUp, CountersTypeOK, Lesser, MainEnds, process, counters, wrapper
<1>7. TierProgress'
  BY TotalType DEF TierProgress, MainTypeOK, CountersTypeOK, TierNumbers, TotalRequests, MainEnds, process, counters, wrapper
<1>8. FilesAreOfEnded'
  BY DEF FilesAreOfEnded, MainTypeOK, MainEnds, process, counters, wrapper
<1>9. StaysBelowLimit'
  BY DEF StaysBelowLimit, CountersTypeOK, MainEnds, process, counters, wrapper
<1> QED  BY <1>2, <1>5, <1>6, <1>7, <1>8, <1>9

LEMMA ExitStep ==
  ASSUME IInv, NEW i \in Instances, Exit(i)
  PROVE  IInv'
<1> USE DEF IInv, TypeOK
<1>2. results' \in [Instances -> Seq(Report)] /\ ReportAddsUp'
  BY DEF ReportAddsUp, TotalRequests, Exit, process, counters, wrapper
<1>3. CountersTypeOK'
  BY DEF CountersTypeOK, Lesser, Exit, process, counters, wrapper
<1>4. MainTypeOK' /\ script' \in Scripts
  BY DEF MainTypeOK, TierNumbers, Exit, process, counters, wrapper
<1>5. TypeOK'
  BY <1>2, <1>3, <1>4 DEF Exit, process, counters, wrapper
<1>6. CountersAddUp'
  BY DEF CountersAddUp, CountersTypeOK, Lesser, Exit, process, counters, wrapper
<1>7. TierProgress'
  BY TotalType DEF TierProgress, MainTypeOK, CountersTypeOK, TierNumbers, TotalRequests, Exit, process, counters, wrapper
<1>8. FilesAreOfEnded'
  BY DEF FilesAreOfEnded, MainTypeOK, Exit, process, counters, wrapper
<1>9. StaysBelowLimit'
  BY DEF StaysBelowLimit, CountersTypeOK, Exit, process, counters, wrapper
<1> QED  BY <1>2, <1>5, <1>6, <1>7, <1>8, <1>9

LEMMA LogClosesStep ==
  ASSUME IInv, NEW i \in Instances, NEW t \in TierNumbers, LogCloses(i, t)
  PROVE  IInv'
<1> USE DEF IInv, TypeOK
<1>2. results' \in [Instances -> Seq(Report)] /\ ReportAddsUp'
  BY DEF ReportAddsUp, TotalRequests, LogCloses, process, counters, wrapper
<1>3. CountersTypeOK'
  BY DEF CountersTypeOK, Lesser, LogCloses, process, counters, wrapper
<1>4. MainTypeOK' /\ script' \in Scripts
  BY DEF MainTypeOK, TierNumbers, LogCloses, process, counters, wrapper
<1>5. TypeOK'
  BY <1>2, <1>3, <1>4 DEF LogCloses, process, counters, wrapper
<1>6. CountersAddUp'
  BY DEF CountersAddUp, CountersTypeOK, Lesser, LogCloses, process, counters, wrapper
<1>7. TierProgress'
  BY TotalType DEF TierProgress, MainTypeOK, CountersTypeOK, TierNumbers, TotalRequests, LogCloses, process, counters, wrapper
<1>8. FilesAreOfEnded'
  BY DEF FilesAreOfEnded, MainTypeOK, LogCloses, process, counters, wrapper
<1>9. StaysBelowLimit'
  BY DEF StaysBelowLimit, CountersTypeOK, LogCloses, process, counters, wrapper
<1> QED  BY <1>2, <1>5, <1>6, <1>7, <1>8, <1>9

LEMMA LateAnswerStep ==
  ASSUME IInv, NEW i \in Instances, NEW t \in TierNumbers, LateAnswer(i, t)
  PROVE  IInv'
<1> USE DEF IInv, TypeOK
<1>2. results' \in [Instances -> Seq(Report)] /\ ReportAddsUp'
  BY DEF ReportAddsUp, TotalRequests, LateAnswer, process, counters, wrapper
<1>3. CountersTypeOK'
  BY DEF CountersTypeOK, Lesser, LateAnswer, process, counters, wrapper
<1>4. MainTypeOK' /\ script' \in Scripts
  BY DEF MainTypeOK, TierNumbers, LateAnswer, process, counters, wrapper
<1>5. TypeOK'
  BY <1>2, <1>3, <1>4 DEF LateAnswer, process, counters, wrapper
<1>6. CountersAddUp'
  BY DEF CountersAddUp, CountersTypeOK, Lesser, LateAnswer, process, counters, wrapper
<1>7. TierProgress'
  BY TotalType DEF TierProgress, MainTypeOK, CountersTypeOK, TierNumbers, TotalRequests, LateAnswer, process, counters, wrapper
<1>8. FilesAreOfEnded'
  BY DEF FilesAreOfEnded, MainTypeOK, LateAnswer, process, counters, wrapper
<1>9. StaysBelowLimit'
  <2>1. \A j \in Instances : inFlight'[j] \in Nat /\ inFlight'[j] <= inFlight[j]
    BY <1>3 DEF CountersTypeOK, LateAnswer, process, counters, wrapper
  <2>2. \A j \in Instances, u \in TierNumbers : late'[j][u] \in Nat /\ late'[j][u] <= late[j][u]
    BY DEF LateAnswer, process, counters, wrapper
  <2>3. \A j \in Instances : inFlight[j] \in Nat /\ \A u \in TierNumbers : late[j][u] \in Nat
    BY DEF CountersTypeOK
  <2>4. \A j \in Instances : inFlight'[j] <= MaxConcurrency
    <3>1. \A a, b, c \in Nat : a <= b /\ b <= c => a <= c
      OBVIOUS
    <3>2. \A j \in Instances : inFlight[j] <= MaxConcurrency
      BY DEF StaysBelowLimit
    <3> QED
      BY <2>1, <2>3, <3>1, <3>2
  <2>5. \A j \in Instances, u \in TierNumbers : late'[j][u] <= MaxConcurrency
    BY <2>2, <2>3 DEF StaysBelowLimit
  <2>6. script # "sdk_distributed" => \A j \in Instances, u \in TierNumbers : late'[j][u] = 0
    BY <2>2, <2>3 DEF StaysBelowLimit
  <2>7. script' = script
    BY DEF LateAnswer, process
  <2> QED
    BY <2>4, <2>5, <2>6, <2>7 DEF StaysBelowLimit
<1> QED  BY <1>2, <1>5, <1>6, <1>7, <1>8, <1>9

LEMMA RawStartStep ==
  ASSUME IInv, NEW i \in Instances, RawStart(i)
  PROVE  IInv'
<1> USE DEF IInv, TypeOK
<1>2. results' \in [Instances -> Seq(Report)] /\ ReportAddsUp'
  BY DEF ReportAddsUp, TotalRequests, RawStart, process, counters, wrapper
<1>3. CountersTypeOK' /\ CountersAddUp'
  <2>1. CounterTypes(i) /\ CountersAt(i)
    BY CounterFacts
  <2>2. CountersSetAt(i) /\ CounterTypes(i)' /\ CountersAt(i)'
    <3>1. successful[i] = 0 /\ failed[i] = 0 /\ dropped[i] = 0
      <4>1. requested[i] = 0
        BY DEF TierProgress, RawStart
      <4> QED
        <5>1. /\ successful[i] \in Nat /\ failed[i] \in Nat /\ dropped[i] \in Nat /\ inFlight[i] \in Nat
              /\ successful[i] + failed[i] + dropped[i] + inFlight[i] = 0
          BY <2>1, <4>1 DEF CounterTypes, CountersAt
        <5> QED
          BY <5>1, ZeroSum, Zenon
    <3> QED
      BY <2>1, <3>1
      DEF CountersTypeOK, CountersSetAt, CounterTypes, CountersAt, RawStart, wrapper
  <2> QED
    BY <2>2, CountersSet
<1>4. MainTypeOK' /\ script' \in Scripts
  BY DEF MainTypeOK, TierNumbers, RawStart, process, counters, wrapper
<1>5. TypeOK'
  BY <1>2, <1>3, <1>4 DEF RawStart, process, counters, wrapper
<1>7. TierProgress'
  BY TotalType DEF TierProgress, MainTypeOK, CountersTypeOK, TierNumbers, TotalRequests, RawStart, process, counters, wrapper
<1>8. FilesAreOfEnded'
  BY DEF FilesAreOfEnded, MainTypeOK, RawStart, process, counters, wrapper
<1>9. StaysBelowLimit'
  BY DEF StaysBelowLimit, CountersTypeOK, RawStart, process, counters, wrapper
<1> QED  BY <1>2, <1>5, <1>3, <1>7, <1>8, <1>9

LEMMA RawTimeUpStep ==
  ASSUME IInv, NEW i \in Instances, RawTimeUp(i)
  PROVE  IInv'
<1> USE DEF IInv, TypeOK
<1>2. results' \in [Instances -> Seq(Report)] /\ ReportAddsUp'
  BY DEF ReportAddsUp, TotalRequests, RawTimeUp, process, counters, wrapper
<1>3. CountersTypeOK'
  BY DEF CountersTypeOK, Lesser, RawTimeUp, process, counters, wrapper
<1>4. MainTypeOK' /\ script' \in Scripts
  BY DEF MainTypeOK, TierNumbers, RawTimeUp, process, counters, wrapper
<1>5. TypeOK'
  BY <1>2, <1>3, <1>4 DEF RawTimeUp, process, counters, wrapper
<1>6. CountersAddUp'
  BY DEF CountersAddUp, CountersTypeOK, Lesser, RawTimeUp, process, counters, wrapper
<1>7. TierProgress'
  BY TotalType DEF TierProgress, MainTypeOK, CountersTypeOK, TierNumbers, TotalRequests, RawTimeUp, process, counters, wrapper
<1>8. FilesAreOfEnded'
  BY DEF FilesAreOfEnded, MainTypeOK, RawTimeUp, process, counters, wrapper
<1>9. StaysBelowLimit'
  BY DEF StaysBelowLimit, CountersTypeOK, RawTimeUp, process, counters, wrapper
<1> QED  BY <1>2, <1>5, <1>6, <1>7, <1>8, <1>9

LEMMA RawReportStep ==
  ASSUME IInv, NEW i \in Instances, RawReport(i)
  PROVE  IInv'
<1> USE DEF IInv, TypeOK
<1>0. tier[i] \in TierNumbers /\ WriteReport(i, failed[i]) /\ script' = script
  BY TierRuns DEF RawReport
<1>1. failed[i] \in Nat /\ (script # "raw_http" =>
         successful[i] + (failed[i]) + dropped[i] = TotalRequests(tier[i]))
  BY DEF RawReport, CountersTypeOK, CountersAddUp, TierProgress
<1>2. results' \in [Instances -> Seq(Report)] /\ ReportAddsUp'
  BY <1>0, <1>1, ReportWritten
<1>3. CountersTypeOK'
  BY DEF CountersTypeOK, Lesser, RawReport, process, counters, wrapper
<1>4. MainTypeOK' /\ script' \in Scripts
  BY <1>0, TierRuns DEF MainTypeOK, TierNumbers, RawReport, process, counters, wrapper
<1>5. TypeOK'
  BY <1>0, <1>2, <1>3, <1>4 DEF RawReport, process, counters, wrapper
<1>6. CountersAddUp'
  BY DEF CountersAddUp, CountersTypeOK, Lesser, RawReport, process, counters, wrapper
<1>7. TierProgress'
  BY TotalType DEF TierProgress, MainTypeOK, CountersTypeOK, TierNumbers, TotalRequests, RawReport, process, counters, wrapper
<1>8. FilesAreOfEnded'
  BY DEF FilesAreOfEnded, MainTypeOK, RawReport, process, counters, wrapper
<1>9. StaysBelowLimit'
  BY <1>0 DEF StaysBelowLimit, CountersTypeOK, RawReport, process, counters, wrapper
<1> QED  BY <1>2, <1>5, <1>6, <1>7, <1>8, <1>9

LEMMA FetchStep ==
  ASSUME IInv, NEW i \in Instances, Fetch(i)
  PROVE  IInv'
<1> USE DEF IInv, TypeOK
<1>2. results' \in [Instances -> Seq(Report)] /\ ReportAddsUp'
  BY DEF ReportAddsUp, TotalRequests, Fetch, process, counters, wrapper
<1>3. CountersTypeOK'
  BY DEF CountersTypeOK, Lesser, Fetch, process, counters, wrapper
<1>4. MainTypeOK' /\ script' \in Scripts
  BY DEF MainTypeOK, TierNumbers, Fetch, process, counters, wrapper
<1>5. TypeOK'
  BY <1>2, <1>3, <1>4 DEF Fetch, process, counters, wrapper
<1>6. CountersAddUp'
  BY DEF CountersAddUp, CountersTypeOK, Lesser, Fetch, process, counters, wrapper
<1>7. TierProgress'
  BY TotalType DEF TierProgress, MainTypeOK, CountersTypeOK, TierNumbers, TotalRequests, Fetch, process, counters, wrapper
<1>8. FilesAreOfEnded'
  BY DEF FilesAreOfEnded, MainTypeOK, Fetch, process, counters, wrapper
<1>9. StaysBelowLimit'
  BY DEF StaysBelowLimit, CountersTypeOK, Fetch, process, counters, wrapper
<1> QED  BY <1>2, <1>5, <1>6, <1>7, <1>8, <1>9

LEMMA WrapperStep ==
  ASSUME IInv, GiveUp \/ WriteWorkload
  PROVE  IInv'
<1>1. /\ UNCHANGED <<process, counters, fetched>>
      /\ \/ outcome' = "failed"
         \/ outcome' = "reported" /\ \A i \in Instances : fetched[i] # "no"
  BY DEF GiveUp, WriteWorkload
<1>2. TypeOK' /\ FilesAreOfEnded'
  BY <1>1 DEF IInv, TypeOK, MainTypeOK, CountersTypeOK, FilesAreOfEnded, process, counters
<1>3. CountersAddUp' /\ TierProgress' /\ ReportAddsUp' /\ StaysBelowLimit'
  BY <1>1 DEF IInv, CountersAddUp, TierProgress, ReportAddsUp, StaysBelowLimit, TotalRequests,
              process, counters
<1> QED
  BY <1>2, <1>3 DEF IInv

LEMMA NextIInv == IInv /\ [Next]_vars => IInv'
<1> SUFFICES ASSUME IInv, [Next]_vars PROVE IInv'
  OBVIOUS
<1>1. ASSUME NEW i \in Instances, Step(i) PROVE IInv'
  BY <1>1, PreflightStep, PreflightFailsStep, TickStep, DispatchEndsStep, AnswerStep, RawAnswerStep,
     DrainedStep, DrainDeadlineStep, NextTierStep, MainEndsStep, ExitStep, LogClosesStep,
     LateAnswerStep, RawStartStep, RawTimeUpStep, RawReportStep DEF Step
<1>2. CASE \E i \in Instances : Fetch(i)
  BY <1>2, FetchStep
<1>3. CASE GiveUp \/ WriteWorkload
  BY <1>3, WrapperStep
<1>4. CASE UNCHANGED vars
  BY <1>4 DEF IInv, TypeOK, MainTypeOK, CountersTypeOK, CountersAddUp, TierProgress, FilesAreOfEnded,
              ReportAddsUp, StaysBelowLimit, TotalRequests, vars, process, counters, wrapper
<1> QED
  BY <1>1, <1>2, <1>3, <1>4 DEF Next

\* The inductive invariant holds for every instance of the constants.
THEOREM Inductive == Spec => []IInv
  BY InitIInv, NextIInv, PTL DEF Spec

\* Every report of the SDK scripts accounts for every request of its tier,
\* whether it was answered, dropped, or given up at the drain deadline.
THEOREM ReportsAddUp == Spec => []ReportAddsUp
<1>1. IInv => ReportAddsUp
  BY DEF IInv
<1> QED
  BY <1>1, Inductive, PTL

\* No tier has more than MaxConcurrency requests open, nor the hot-key script.
THEOREM LimitHolds == Spec => []StaysBelowLimit
<1>1. IInv => StaysBelowLimit
  BY DEF IInv
<1> QED
  BY <1>1, Inductive, PTL
-----------------------------------------------------------------------------
LEMMA InitWorkload == Init => WorkloadIInv
  BY DEF Init, WorkloadIInv, LastReport, WorkloadIsWhole

\* The steps that leave every main where it is, or send it on without a report.
LEMMA LastReportStays ==
  ASSUME IInv, LastReport, NEW i \in Instances,
         UNCHANGED <<script, results>>,
         \/ pc' = pc
         \/ \E p \in {"preflight", "dispatch", "drain", "crashed"} : pc' = [pc EXCEPT ![i] = p]
         \/ pc[i] \in {"pause", "finished"} /\ tier[i] = Len(Tiers)
              /\ \E p \in {"finished", "exited"} : pc' = [pc EXCEPT ![i] = p],
         tier' = tier \/ (pc'[i] = "dispatch" /\ \E t \in TierNumbers : tier' = [tier EXCEPT ![i] = t])
  PROVE  LastReport'
  BY DEF IInv, TypeOK, MainTypeOK, LastReport

LEMMA ReportIsLast ==
  ASSUME IInv, LastReport, NEW i \in Instances, NEW f \in Nat, WriteReport(i, f),
         script' = script, tier' = tier, pc' = [pc EXCEPT ![i] = "pause"],
         pc[i] \notin {"finished", "exited"}
  PROVE  LastReport'
<1> SUFFICES ASSUME script = "sdk_distributed" PROVE LastReport'
  BY DEF LastReport
<1> DEFINE r == [tier |-> tier[i], successful |-> successful[i], failed |-> f,
                 dropped |-> dropped[i], samples |-> samples[i]]
<1>1. results' = [results EXCEPT ![i] = <<r>>]
  BY DEF WriteReport
<1>2. r.tier = tier[i]
  OBVIOUS
<1> HIDE DEF r
<1>3. \A j \in Instances : results'[j] = IF j = i THEN <<r>> ELSE results[j]
  BY <1>1 DEF IInv, TypeOK
<1>4. \A j \in Instances : pc'[j] = IF j = i THEN "pause" ELSE pc[j]
  BY DEF IInv, TypeOK, MainTypeOK
<1>5. Len(<<r>>) = 1 /\ <<r>>[1] = r
  OBVIOUS
<1> QED
  BY <1>2, <1>3, <1>4, <1>5 DEF LastReport

LEMMA StepLastReport ==
  ASSUME IInv, LastReport, NEW i \in Instances, Step(i)
  PROVE  LastReport'
<1>1. CASE Preflight(i) \/ NextTier(i)
  <2>1. \E t \in TierNumbers : StartTier(i, t)
    BY <1>1 DEF Preflight, NextTier, IInv, TypeOK, MainTypeOK, TierNumbers
  <2> QED
    BY <2>1, LastReportStays DEF StartTier, IInv, TypeOK, MainTypeOK
<1>2. CASE PreflightFails(i) \/ DispatchEnds(i) \/ RawTimeUp(i)
  BY <1>2, LastReportStays DEF PreflightFails, DispatchEnds, RawTimeUp
<1>3. CASE \/ Tick(i)
           \/ \E answer \in {"success", "error"} : Answer(i, answer) \/ RawAnswer(i, answer)
           \/ \E t \in TierNumbers : LogCloses(i, t) \/ LateAnswer(i, t)
  BY <1>3, LastReportStays DEF Tick, Answer, RawAnswer, LogCloses, LateAnswer, process
<1>4. CASE MainEnds(i) \/ Exit(i)
  BY <1>4, LastReportStays DEF MainEnds, Exit, LastReport, IInv, TypeOK, MainTypeOK
<1>5. CASE Drained(i) \/ DrainDeadline(i)
  <2>1. failed[i] \in Nat /\ failed[i] + inFlight[i] \in Nat
    BY DEF IInv, TypeOK, CountersTypeOK
  <2> QED
    BY <1>5, <2>1, ReportIsLast DEF Drained, DrainDeadline
<1>6. CASE RawStart(i) \/ RawReport(i)
  BY <1>6 DEF RawStart, RawReport, LastReport
<1> QED
  BY <1>1, <1>2, <1>3, <1>4, <1>5, <1>6 DEF Step

\* The fetched file of a distributed instance accounts for the last tier.
LEMMA FileIsWhole ==
  ASSUME IInv, LastReport, script = "sdk_distributed", NEW i \in Fetched
  PROVE  /\ results[i][1] \in Report
         /\ Requests(results[i][1]) = TotalRequests(Len(Tiers))
<1>1. i \in Instances /\ pc[i] = "exited"
  BY DEF Fetched, IInv, FilesAreOfEnded
<1>2. results[i] \in Seq(Report) /\ Len(results[i]) = 1 /\ results[i][1].tier = Len(Tiers)
  BY <1>1 DEF IInv, TypeOK, LastReport
<1>3. Requests(results[i][1]) = TotalRequests(results[i][1].tier)
  BY <1>1, <1>2 DEF IInv, ReportAddsUp
<1> QED
  BY <1>2, <1>3

LEMMA WorkloadWritten ==
  ASSUME IInv, LastReport, WriteWorkload
  PROVE  WorkloadIsWhole'
<1> SUFFICES ASSUME outcome' = "reported" PROVE WorkloadIsWhole'
  BY DEF WorkloadIsWhole
<1>1. /\ script = "sdk_distributed" /\ workload' = Aggregate
      /\ \A i \in Instances : fetched[i] # "no"
      /\ pc' = pc /\ fetched' = fetched
  BY DEF WriteWorkload, process
<1>2. \A i \in Instances : pc'[i] = "exited" /\ fetched'[i] # "no"
  BY <1>1 DEF IInv, FilesAreOfEnded
<1> DEFINE f == [i \in Fetched |-> results[i][1].successful]
           g == [i \in Fetched |-> results[i][1].failed]
           h == [i \in Fetched |-> results[i][1].dropped]
           c == TotalRequests(Len(Tiers))
<1>3. /\ workload'.successful = SumOver(Fetched, f)
      /\ workload'.failed = SumOver(Fetched, g)
      /\ workload'.dropped = SumOver(Fetched, h)
  <2>1. \A x : Total(x) = SumOver(Fetched, x)
    BY Zenon DEF Total, SumOver
  <2>2. workload'.successful = Total(f) /\ workload'.failed = Total(g) /\ workload'.dropped = Total(h)
    BY <1>1 DEF Aggregate
  <2> QED
    BY <2>1, <2>2
<1>4. \A i \in Fetched : /\ f[i] \in Nat /\ g[i] \in Nat /\ h[i] \in Nat
                         /\ f[i] + g[i] + h[i] = c
  BY <1>1, FileIsWhole DEF Report, Requests
<1>5. f \in [Fetched -> Nat] /\ g \in [Fetched -> Nat] /\ h \in [Fetched -> Nat]
  BY <1>4
<1>6. IsFiniteSet(Fetched)
  BY LoadGeneratorAssumption, FS_Subset DEF Fetched
<1>7. c \in Nat
  BY TotalType DEF TierNumbers
<1>a. \A i \in Fetched : f[i] + g[i] + h[i] = c
  BY <1>4
<1> HIDE DEF f, g, h, c
<1>8. SumOver(Fetched, f) + SumOver(Fetched, g) + SumOver(Fetched, h) = Cardinality(Fetched) * c
  BY ONLY <1>a, <1>5, <1>6, <1>7, SumOfThree
<1>9. Requests(workload') = Cardinality(Fetched') * c
  BY <1>1, <1>3, <1>8 DEF Requests, Fetched
<1> QED
  BY <1>2, <1>9 DEF WorkloadIsWhole, Requests, TotalRequests, c

LEMMA NextWorkload == IInv /\ WorkloadIInv /\ [Next]_vars => WorkloadIInv'
<1> SUFFICES ASSUME IInv, WorkloadIInv, [Next]_vars PROVE WorkloadIInv'
  OBVIOUS
<1>1. LastReport /\ WorkloadIsWhole
  BY DEF WorkloadIInv
<1>2. ASSUME NEW i \in Instances, Step(i) PROVE WorkloadIInv'
  <2>1. /\ fetched' = fetched /\ outcome' = outcome /\ workload' = workload
        /\ pc[i] = "exited" => pc' = pc
    BY <1>2 DEF Step, Preflight, PreflightFails, Tick, DispatchEnds, Answer, Drained, DrainDeadline,
                LogCloses, LateAnswer, NextTier, StartTier, MainEnds, Exit, RawStart, RawAnswer,
                RawTimeUp, RawReport, wrapper, process
  <2>2. WorkloadIsWhole'
    BY <1>1, <1>2, <2>1 DEF WorkloadIsWhole, Requests, TotalRequests, Fetched
  <2> QED
    BY <1>1, <1>2, <2>2, StepLastReport DEF WorkloadIInv
<1>3. CASE (\E i \in Instances : Fetch(i)) \/ GiveUp
  BY <1>1, <1>3 DEF Fetch, GiveUp, WorkloadIInv, WorkloadIsWhole, LastReport, process
<1>4. CASE WriteWorkload
  BY <1>1, <1>4, WorkloadWritten DEF WriteWorkload, WorkloadIInv, LastReport, process
<1>5. CASE UNCHANGED vars
  BY <1>1, <1>5 DEF WorkloadIInv, WorkloadIsWhole, LastReport, Requests, TotalRequests, Fetched,
                    vars, process, wrapper
<1> QED
  BY <1>2, <1>3, <1>4, <1>5 DEF Next

THEOREM WorkloadInductive == Spec => []WorkloadIInv
  BY Inductive, InitWorkload, NextWorkload, PTL DEF Spec

\* workload.json counts, for every instance whose file arrived, every request of
\* its last tier once, and is written only when all instances ended well.
THEOREM WorkloadWhole == Spec => []WorkloadIsWhole
<1>1. WorkloadIInv => WorkloadIsWhole
  BY DEF WorkloadIInv
<1> QED
  BY <1>1, WorkloadInductive, PTL
=============================================================================
