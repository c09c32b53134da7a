------------------------ MODULE ArithmeticTheorems ------------------------
(***************************************************************************)
(* The arithmetic that the proofs share.  First what the release schedule  *)
(* guarantees for every schedule and every timestamp: the division lemmas  *)
(* are the only place where \div is taken apart.  Then how the sum of the  *)
(* values of a function changes with the function: the models add up       *)
(* balances and amounts with SumFunction of Functions.tla.                 *)
(***************************************************************************)
EXTENDS LockSchedule, FiniteSets, Functions, TLAPS,
        FiniteSetTheorems, WellFoundedInduction

(* Division rounds down. *)
LEMMA DivBounds ==
  ASSUME NEW a \in Nat, NEW b \in Nat, b > 0
  PROVE  /\ a \div b \in Nat
         /\ b * (a \div b) <= a
         /\ a < b * ((a \div b) + 1)
  BY SMT

(* Division is monotone in the dividend. *)
LEMMA DivMonotone ==
  ASSUME NEW a \in Nat, NEW c \in Nat, NEW b \in Nat, b > 0, a <= c
  PROVE  a \div b <= c \div b
  BY DivBounds

(* Multiplication by a natural number is monotone. *)
LEMMA TimesMonotone ==
  ASSUME NEW a \in Nat, NEW b \in Nat, NEW c \in Nat, a <= b
  PROVE  a * c <= b * c /\ a * c \in Nat /\ b * c \in Nat
  OBVIOUS

(* A multiple of b divided by b. *)
LEMMA DivExact ==
  ASSUME NEW a \in Nat, NEW b \in Nat, b > 0, a % b = 0
  PROVE  a = b * (a \div b)
  BY SMT

-----------------------------------------------------------------------------
(* The schedule's derived values are natural numbers. *)
LEMMA ScheduleTypes ==
  ASSUME NEW s \in Schedule, ValidSchedule(s), NEW t \in Nat
  PROVE  /\ s.managedAmount \in Nat /\ s.periods \in Nat /\ s.periods > 0
         /\ s.startTime \in Nat /\ s.endTime \in Nat
         /\ Duration(s) \in Nat
         /\ SinceStartTime(s, t) \in Nat
         /\ PeriodDuration(s) \in Nat
         /\ AmountPerPeriod(s) \in Nat
<1>1. /\ s.managedAmount \in Nat /\ s.periods \in Nat /\ s.periods > 0
      /\ s.startTime \in Nat /\ s.endTime \in Nat
  BY DEF Schedule, ValidSchedule
<1>2. Duration(s) \in Nat /\ SinceStartTime(s, t) \in Nat
  BY <1>1 DEF ValidSchedule, Duration, SinceStartTime
<1>3. PeriodDuration(s) \in Nat /\ AmountPerPeriod(s) \in Nat
  BY <1>1, <1>2, DivBounds DEF PeriodDuration, AmountPerPeriod
<1> QED
  BY <1>1, <1>2, <1>3

(* Where availableAmount() does not revert it returns a natural number. *)
LEMMA AvailableType ==
  ASSUME NEW s \in Schedule, ValidSchedule(s), NEW t \in Nat,
         ~AvailableReverts(s, t)
  PROVE  AvailableAmount(s, t) \in Nat
<1>1. CASE t < s.startTime \/ t > s.endTime
  BY <1>1, ScheduleTypes DEF AvailableAmount
<1>2. CASE ~(t < s.startTime) /\ ~(t > s.endTime)
  <2>1. PeriodDuration(s) > 0
    BY <1>2, ScheduleTypes DEF AvailableReverts
  <2>2. PassedPeriods(s, t) \in Nat
    BY <2>1, ScheduleTypes, DivBounds DEF PassedPeriods
  <2> QED
    BY <1>2, <2>2, ScheduleTypes, TimesMonotone DEF AvailableAmount
<1> QED
  BY <1>1, <1>2

(* vestedAmount() too. *)
LEMMA VestedType ==
  ASSUME NEW s \in Schedule, ValidSchedule(s), NEW t \in Nat,
         ~VestedReverts(s, t)
  PROVE  VestedAmount(s, t) \in Nat
  BY ScheduleTypes, AvailableType DEF VestedReverts, VestedAmount

(* A proportioned schedule never makes a call divide by zero. *)
LEMMA ProportionedNeverReverts ==
  ASSUME NEW s \in Schedule, Proportioned(s), NEW t \in Nat
  PROVE  ~AvailableReverts(s, t) /\ ~VestedReverts(s, t)
<1>1. ~AvailableReverts(s, t)
  BY ScheduleTypes DEF Proportioned, AvailableReverts
<1> QED
  BY <1>1 DEF VestedReverts

(* The periods of a proportioned schedule: between start and end no more   *)
(* pass than there are, and never fewer later.                             *)
LEMMA PassedPeriodsBounds ==
  ASSUME NEW s \in Schedule, Proportioned(s),
         NEW t \in Nat, NEW u \in Nat, t <= u, u <= s.endTime
  PROVE  /\ PassedPeriods(s, t) \in Nat
         /\ PassedPeriods(s, u) \in Nat
         /\ PassedPeriods(s, t) <= PassedPeriods(s, u)
         /\ PassedPeriods(s, u) <= s.periods
<1>1. /\ SinceStartTime(s, t) \in Nat /\ SinceStartTime(s, u) \in Nat
      /\ Duration(s) \in Nat /\ PeriodDuration(s) \in Nat
  BY ScheduleTypes DEF Proportioned
<1>2. /\ SinceStartTime(s, t) <= SinceStartTime(s, u)
      /\ SinceStartTime(s, u) <= Duration(s)
  BY ScheduleTypes DEF Proportioned, ValidSchedule, SinceStartTime, Duration
<1> QED
  BY <1>1, <1>2, DivBounds, DivMonotone DEF Proportioned, PassedPeriods

(* The whole of the periods together never exceeds the managed amount. *)
LEMMA PeriodsWithinManaged ==
  ASSUME NEW s \in Schedule, ValidSchedule(s), NEW n \in Nat, n <= s.periods
  PROVE  n * AmountPerPeriod(s) <= s.managedAmount
<1>1. s.periods * AmountPerPeriod(s) <= s.managedAmount
  BY ScheduleTypes, DivBounds DEF AmountPerPeriod
<1>2. n * AmountPerPeriod(s) <= s.periods * AmountPerPeriod(s)
  BY ScheduleTypes, TimesMonotone
<1> QED
  BY <1>1, <1>2, ScheduleTypes, TimesMonotone

(* availableAmount() of a proportioned schedule is at most the managed     *)
(* amount, and never decreases.                                            *)
THEOREM AvailableMonotone ==
  ASSUME NEW s \in Schedule, Proportioned(s),
         NEW t \in Nat, NEW u \in Nat, t <= u
  PROVE  /\ AvailableAmount(s, t) \in Nat
         /\ AvailableAmount(s, u) \in Nat
         /\ AvailableAmount(s, t) <= AvailableAmount(s, u)
         /\ AvailableAmount(s, u) <= s.managedAmount
<1> USE ScheduleTypes DEF Proportioned
<1>1. AvailableAmount(s, t) \in Nat /\ AvailableAmount(s, u) \in Nat
  BY ProportionedNeverReverts, AvailableType
<1>2. ASSUME NEW x \in Nat PROVE AvailableAmount(s, x) <= s.managedAmount
  <2>1. CASE x < s.startTime \/ x > s.endTime
    BY <2>1 DEF AvailableAmount
  <2>2. CASE ~(x < s.startTime) /\ ~(x > s.endTime)
    <3>1. PassedPeriods(s, x) \in Nat /\ PassedPeriods(s, x) <= s.periods
      BY <2>2, PassedPeriodsBounds
    <3> QED
      BY <2>2, <3>1, PeriodsWithinManaged DEF AvailableAmount
  <2> QED
    BY <2>1, <2>2
<1>3. CASE t < s.startTime
  BY <1>1, <1>2, <1>3 DEF AvailableAmount
<1>4. CASE u > s.endTime
  BY <1>1, <1>2, <1>4 DEF AvailableAmount, ValidSchedule
<1>5. CASE ~(t < s.startTime) /\ ~(u > s.endTime)
  <2>1. /\ PassedPeriods(s, t) \in Nat /\ PassedPeriods(s, u) \in Nat
        /\ PassedPeriods(s, t) <= PassedPeriods(s, u)
    BY <1>5, PassedPeriodsBounds
  <2>2. /\ AvailableAmount(s, t) = PassedPeriods(s, t) * AmountPerPeriod(s)
        /\ AvailableAmount(s, u) = PassedPeriods(s, u) * AmountPerPeriod(s)
    BY <1>5 DEF AvailableAmount
  <2>3. AvailableAmount(s, t) <= AvailableAmount(s, u)
    BY <2>1, <2>2, TimesMonotone
  <2> QED
    BY <1>1, <1>2, <2>3
<1> QED
  BY <1>1, <1>2, <1>3, <1>4, <1>5

(* vestedAmount() likewise, across the cliff and the end. *)
THEOREM VestedMonotone ==
  ASSUME NEW s \in Schedule, Proportioned(s),
         NEW t \in Nat, NEW u \in Nat, t <= u
  PROVE  /\ VestedAmount(s, t) \in Nat
         /\ VestedAmount(s, u) \in Nat
         /\ VestedAmount(s, t) <= VestedAmount(s, u)
         /\ VestedAmount(s, u) <= s.managedAmount
<1>1. s.vestingCliffTime \in Nat /\ s.managedAmount \in Nat
  BY DEF Schedule
<1>2. BeforeCliff(s, u) => BeforeCliff(s, t)
  BY <1>1 DEF BeforeCliff
<1> QED
  BY <1>1, <1>2, AvailableMonotone DEF VestedAmount

(* And so does what the schedule has unlocked for release. *)
THEOREM UnlockedMonotone ==
  ASSUME NEW s \in Schedule, Proportioned(s),
         NEW t \in Nat, NEW u \in Nat, t <= u
  PROVE  /\ UnlockedAmount(s, t) \in Nat
         /\ UnlockedAmount(s, u) \in Nat
         /\ UnlockedAmount(s, t) <= UnlockedAmount(s, u)
         /\ UnlockedAmount(s, u) <= s.managedAmount
<1>1. /\ s.vestingCliffTime \in Nat /\ s.releaseStartTime \in Nat
      /\ s.managedAmount \in Nat
  BY DEF Schedule
<1>2. ReleaseBlocked(s, u) => ReleaseBlocked(s, t)
  BY <1>1 DEF ReleaseBlocked, BeforeRelease, BeforeCliff
<1> QED
  BY <1>1, <1>2, AvailableMonotone DEF UnlockedAmount

(* The condition that a deployer can check by hand: if the periods divide  *)
(* the duration evenly, the schedule is proportioned, so all of the above  *)
(* holds of it.                                                            *)
THEOREM WholePeriods ==
  ASSUME NEW s \in Schedule, ValidSchedule(s), Duration(s) % s.periods = 0
  PROVE  Proportioned(s)
<1>1. /\ s.periods \in Nat /\ s.periods > 0 /\ Duration(s) \in Nat
      /\ PeriodDuration(s) \in Nat
  BY ScheduleTypes
<1>2. Duration(s) = s.periods * PeriodDuration(s)
  BY <1>1, DivExact DEF PeriodDuration
<1>3. Duration(s) > 0
  BY DEF Schedule, ValidSchedule, Duration
<1>4. PeriodDuration(s) > 0
  <2>1. CASE PeriodDuration(s) = 0
    BY <1>1, <1>2, <1>3, <2>1
  <2> QED
    BY <1>1, <2>1
<1>5. Duration(s) \div PeriodDuration(s) = s.periods
  <2> DEFINE d == PeriodDuration(s)
             q == Duration(s) \div PeriodDuration(s)
             p == s.periods
  <2>1. q \in Nat /\ d * q <= p * d /\ p * d < d * (q + 1)
    BY <1>1, <1>2, <1>4, DivBounds
  <2>2. d \in Nat /\ d > 0 /\ p \in Nat
    BY <1>1, <1>4
  <2> HIDE DEF d, q, p
  <2>3. ~(q > p)
    <3> SUFFICES ASSUME q >= p + 1 PROVE FALSE
      BY <2>1, <2>2
    <3>1. d * q >= d * p + d
      BY <2>1, <2>2, TimesMonotone
    <3> QED
      BY <2>1, <2>2, <3>1
  <2>4. ~(q < p)
    <3> SUFFICES ASSUME p >= q + 1 PROVE FALSE
      BY <2>1, <2>2
    <3>1. p * d >= (q + 1) * d
      BY <2>1, <2>2, TimesMonotone
    <3> QED
      BY <2>1, <2>2, <3>1
  <2> QED
    BY <2>1, <2>2, <2>3, <2>4 DEF d, q, p
<1> QED
  BY <1>4, <1>5 DEF Proportioned

-----------------------------------------------------------------------------
(* Sums.  A fold is a recursive function, and the proofs about it are by a *)
(* smallest counterexample, a number or a finite set.                      *)

(* A set of naturals has a least element. *)
LEMMA LeastNat ==
  ASSUME NEW B \in SUBSET Nat, B # {}
  PROVE  \E n \in B : \A m \in B : n <= m
<1>1. IsWellFoundedOn(OpToRel(<, Nat), Nat)
  BY NatLessThanWellFounded
<1>2. \E n \in B : \A m \in B : ~ (<<m, n>> \in OpToRel(<, Nat))
  BY <1>1, WFMin
<1>3. PICK n \in B : \A m \in B : ~ (<<m, n>> \in OpToRel(<, Nat))
  BY <1>2
<1>4. ASSUME NEW m \in B PROVE n <= m
  <2>1. ~ (<<m, n>> \in OpToRel(<, Nat))
    BY <1>3
  <2>2. ~ (m < n)
    BY <2>1 DEF OpToRel
  <2> QED
    BY <2>2
<1> QED
  BY <1>4

FoldPick(s) == CHOOSE x \in s : TRUE

(* What a fold that sums f adds for the set s, with partial sums g. *)
FoldStep(f, g, s) == IF s = {} THEN 0 ELSE f[FoldPick(s)] + g[s \ {FoldPick(s)}]

PartialSum(f, g, S) == \A s \in SUBSET S : g[s] = FoldStep(f, g, s)

LEMMA PickMember == \A s : s # {} => FoldPick(s) \in s
  BY DEF FoldPick

LEMMA PartialSums ==
  ASSUME NEW S, IsFiniteSet(S), NEW f, \A x \in S : f[x] \in Int
  PROVE  \E g \in [SUBSET S -> Int] : PartialSum(f, g, S)
<1> DEFINE Small(n) == {s \in SUBSET S : Cardinality(s) <= n}
           Good(n) == \E g \in [Small(n) -> Int] :
                        \A s \in Small(n) : g[s] = FoldStep(f, g, s)
<1>1. \A s \in SUBSET S : IsFiniteSet(s) /\ Cardinality(s) \in Nat
  BY FS_Subset, FS_CardinalityType
<1>2. ASSUME NEW n \in Nat, n > 0 => Good(n - 1) PROVE Good(n)
  <2>1. CASE n = 0
    <3> DEFINE g == [s \in Small(0) |-> 0]
    <3>1. \A s \in Small(0) : s = {}
      BY <1>1, FS_EmptySet
    <3>2. g \in [Small(0) -> Int] /\ \A s \in Small(0) : g[s] = FoldStep(f, g, s)
      BY <3>1 DEF FoldStep
    <3> QED
      BY <2>1, <3>2
  <2>2. CASE n > 0
    <3>1. PICK g \in [Small(n - 1) -> Int] :
            \A s \in Small(n - 1) : g[s] = FoldStep(f, g, s)
      BY <1>2, <2>2
    <3> DEFINE h == [s \in Small(n) |-> FoldStep(f, g, s)]
    <3>2. ASSUME NEW s \in Small(n), s # {}
          PROVE  FoldPick(s) \in S /\ s \ {FoldPick(s)} \in Small(n - 1)
      <4>1. FoldPick(s) \in s
        BY <3>2, PickMember
      <4>2. Cardinality(s \ {FoldPick(s)}) = Cardinality(s) - 1
        BY <1>1, <4>1, FS_RemoveElement
      <4> QED
        BY <1>1, <4>1, <4>2
    <3>3. Small(n - 1) \subseteq Small(n)
      BY <1>1
    <3>4. \A s \in Small(n - 1) : h[s] = g[s]
      BY <3>1, <3>3
    <3>5. \A s \in Small(n) : h[s] = FoldStep(f, h, s)
      BY <3>2, <3>4 DEF FoldStep
    <3>6. h \in [Small(n) -> Int]
      BY <3>1, <3>2 DEF FoldStep
    <3> QED
      BY <3>5, <3>6
  <2>3. n = 0 \/ n > 0
    OBVIOUS
  <2> QED
    BY <2>1, <2>2, <2>3, Zenon
<1>3. \A n \in Nat : Good(n)
  <2> SUFFICES ASSUME {n \in Nat : ~Good(n)} # {} PROVE FALSE
    OBVIOUS
  <2> DEFINE B == {n \in Nat : ~Good(n)}
  <2>1. PICK n \in B : \A m \in B : n <= m
    BY LeastNat
  <2>2. n > 0 => Good(n - 1)
    <3> HIDE DEF Good
    <3> QED
      BY <2>1
  <2> HIDE DEF Good
  <2> QED
    BY <1>2, <2>1, <2>2
<1>4. Cardinality(S) \in Nat /\ Small(Cardinality(S)) = SUBSET S
  BY FS_CardinalityType, FS_Subset
<1>5. Good(Cardinality(S))
  BY <1>3, <1>4
<1> QED
  BY <1>4, <1>5 DEF PartialSum

(* Partial sums are unique. *)
LEMMA PartialSumsAgree ==
  ASSUME NEW S, IsFiniteSet(S), NEW f, NEW g, NEW h,
         PartialSum(f, g, S), PartialSum(f, h, S)
  PROVE  g[S] = h[S]
<1> DEFINE B == {s \in SUBSET S : g[s] # h[s]}
           N == {n \in Nat : \E s \in B : n = Cardinality(s)}
<1>1. \A s \in SUBSET S : IsFiniteSet(s) /\ Cardinality(s) \in Nat
  BY FS_Subset, FS_CardinalityType
<1> SUFFICES ASSUME g[S] # h[S] PROVE FALSE
  OBVIOUS
<1>2. Cardinality(S) \in N
  BY <1>1
<1>3. PICK n \in N : \A m \in N : n <= m
  BY <1>2, LeastNat
<1>4. PICK s \in B : n = Cardinality(s)
  BY <1>3
<1>5. s # {}
  BY <1>4 DEF FoldStep, PartialSum
<1>6. FoldPick(s) \in s
  BY <1>5, PickMember
<1>7. s \ {FoldPick(s)} \in SUBSET S /\ Cardinality(s \ {FoldPick(s)}) = n - 1
  BY <1>1, <1>4, <1>6, FS_RemoveElement
<1>8. n - 1 \notin N
  BY <1>3
<1>9. g[s \ {FoldPick(s)}] = h[s \ {FoldPick(s)}]
  BY <1>1, <1>7, <1>8
<1> QED
  BY <1>4, <1>5, <1>9 DEF FoldStep, PartialSum

(* The sum over a finite set is a step of the fold on the sum over the     *)
(* rest.                                                                   *)
LEMMA SumOnSetDef ==
  ASSUME NEW S, IsFiniteSet(S), NEW f, \A x \in S : f[x] \in Int
  PROVE  \E g \in [SUBSET S -> Int] :
           /\ PartialSum(f, g, S)
           /\ SumFunctionOnSet(f, S) = g[S]
<1> DEFINE E(g) == [s \in SUBSET S |->
                      IF s = {} THEN 0
                      ELSE LET x == CHOOSE x \in s : TRUE IN f[x] + g[s \ {x}]]
           it == CHOOSE g : g = E(g)
<1>1. PICK g \in [SUBSET S -> Int] : PartialSum(f, g, S)
  BY PartialSums
<1>2. g = E(g)
  BY <1>1 DEF FoldStep, FoldPick, PartialSum
<1>3. it = E(it)
  <2> HIDE DEF E
  <2> QED
    BY <1>2
<1>4. PartialSum(f, it, S)
  BY <1>3 DEF FoldStep, FoldPick, PartialSum
<1>5. SumFunctionOnSet(f, S) = it[S]
  BY DEF SumFunctionOnSet, FoldFunctionOnSet, MapThenFoldSet
<1>6. it[S] = g[S]
  <2> HIDE DEF it, E
  <2> QED
    BY <1>1, <1>4, PartialSumsAgree, Zenon
<1> QED
  BY <1>1, <1>5, <1>6

(* A sum over a nonempty set, in terms of the element that the fold picks. *)
LEMMA SumOnSetPick ==
  ASSUME NEW S, IsFiniteSet(S), NEW f, \A x \in S : f[x] \in Int
  PROVE  /\ SumFunctionOnSet(f, S) \in Int
         /\ S = {} => SumFunctionOnSet(f, S) = 0
         /\ S # {} => SumFunctionOnSet(f, S)
                        = f[FoldPick(S)] + SumFunctionOnSet(f, S \ {FoldPick(S)})
<1>1. PICK g \in [SUBSET S -> Int] :
           /\ PartialSum(f, g, S)
           /\ SumFunctionOnSet(f, S) = g[S]
  BY SumOnSetDef
<1>2. ASSUME S # {} PROVE SumFunctionOnSet(f, S \ {FoldPick(S)}) = g[S \ {FoldPick(S)}]
  <2> DEFINE R == S \ {FoldPick(S)}
  <2>1. IsFiniteSet(R) /\ R \in SUBSET S
    BY FS_RemoveElement
  <2>2. PICK h \in [SUBSET R -> Int] :
           /\ PartialSum(f, h, R)
           /\ SumFunctionOnSet(f, R) = h[R]
    BY <2>1, SumOnSetDef
  <2>3. PartialSum(f, g, R)
    BY <1>1, <2>1 DEF PartialSum
  <2>4. h[R] = g[R]
    <3> HIDE DEF R
    <3> QED
      BY <2>1, <2>2, <2>3, PartialSumsAgree, Zenon
  <2> QED
    BY <2>2, <2>4
<1> QED
  BY <1>1, <1>2 DEF FoldStep, PartialSum

(* ... and in terms of any element. *)
LEMMA SumOnSetRemove ==
  ASSUME NEW S, IsFiniteSet(S), NEW f, \A y \in S : f[y] \in Int, NEW x \in S
  PROVE  SumFunctionOnSet(f, S) = f[x] + SumFunctionOnSet(f, S \ {x})
<1> DEFINE Total(s) == SumFunctionOnSet(f, s)
           Holds(s) == \A y \in s : Total(s) = f[y] + Total(s \ {y})
           B == {s \in SUBSET S : ~Holds(s)}
           N == {n \in Nat : \E s \in B : n = Cardinality(s)}
<1> HIDE DEF Total
<1>1. \A s \in SUBSET S : IsFiniteSet(s) /\ Cardinality(s) \in Nat
  BY FS_Subset, FS_CardinalityType
<1>2. \A s \in SUBSET S : /\ Total(s) \in Int
                          /\ s # {} => Total(s) = f[FoldPick(s)] + Total(s \ {FoldPick(s)})
  BY <1>1, SumOnSetPick DEF Total
<1> SUFFICES ASSUME ~Holds(S) PROVE FALSE
  BY DEF Total
<1>3. Cardinality(S) \in N
  BY <1>1
<1>4. PICK n \in N : \A m \in N : n <= m
  BY <1>3, LeastNat
<1>5. PICK s \in B : n = Cardinality(s)
  BY <1>4
<1>6. PICK y \in s : Total(s) # f[y] + Total(s \ {y})
  BY <1>5
<1> DEFINE p == FoldPick(s)
<1>7. p \in s
  BY <1>6, PickMember
<1>8. Total(s) = f[p] + Total(s \ {p})
  BY <1>2, <1>6
<1>9. p # y
  BY <1>6, <1>8
<1>10. ASSUME NEW z \in s PROVE Holds(s \ {z})
  <2>1. s \ {z} \in SUBSET S /\ Cardinality(s \ {z}) = n - 1
    BY <1>1, <1>5, FS_RemoveElement
  <2>2. n - 1 \notin N
    BY <1>4
  <2> HIDE DEF Holds
  <2> QED
    BY <1>1, <2>1, <2>2
<1>11. Total(s \ {p}) = f[y] + Total((s \ {p}) \ {y})
  <2> HIDE DEF p
  <2> QED
    BY <1>6, <1>7, <1>9, <1>10
<1>12. Total(s \ {y}) = f[p] + Total((s \ {y}) \ {p})
  <2> HIDE DEF p
  <2> QED
    BY <1>6, <1>7, <1>9, <1>10
<1>13. (s \ {p}) \ {y} = (s \ {y}) \ {p}
  OBVIOUS
<1> DEFINE rest == (s \ {y}) \ {p}
<1>14. f[p] \in Int /\ f[y] \in Int /\ Total(rest) \in Int
  BY <1>2, <1>5, <1>6, <1>7
<1>15. /\ Total(s) = f[p] + (f[y] + Total(rest))
       /\ Total(s) # f[y] + (f[p] + Total(rest))
  BY <1>6, <1>8, <1>11, <1>12, <1>13, Zenon
<1> HIDE DEF p, rest
<1> QED
  BY <1>14, <1>15

(* Functions with the same values have the same sum. *)
LEMMA SumOnSetAgree ==
  ASSUME NEW S, IsFiniteSet(S), NEW f, NEW h, \A x \in S : f[x] \in Int,
         \A x \in S : h[x] = f[x]
  PROVE  SumFunctionOnSet(h, S) = SumFunctionOnSet(f, S)
<1>1. PICK g \in [SUBSET S -> Int] :
        PartialSum(f, g, S) /\ SumFunctionOnSet(f, S) = g[S]
  BY SumOnSetDef
<1>2. PICK k \in [SUBSET S -> Int] :
        PartialSum(h, k, S) /\ SumFunctionOnSet(h, S) = k[S]
  BY SumOnSetDef
<1>3. \A s \in SUBSET S : s # {} => h[FoldPick(s)] = f[FoldPick(s)]
  BY PickMember
<1>4. PartialSum(f, k, S)
  BY <1>2, <1>3 DEF PartialSum, FoldStep
<1> QED
  BY <1>1, <1>2, <1>4, PartialSumsAgree

(* Larger values have a larger sum. *)
LEMMA SumOnSetMonotone ==
  ASSUME NEW S, IsFiniteSet(S), NEW f, NEW h,
         \A x \in S : f[x] \in Int /\ h[x] \in Int /\ f[x] <= h[x]
  PROVE  SumFunctionOnSet(f, S) <= SumFunctionOnSet(h, S)
<1> DEFINE Ft(s) == SumFunctionOnSet(f, s)
           Ht(s) == SumFunctionOnSet(h, s)
           B == {s \in SUBSET S : ~(Ft(s) <= Ht(s))}
           N == {n \in Nat : \E s \in B : n = Cardinality(s)}
<1> HIDE DEF Ft, Ht
<1>1. \A s \in SUBSET S : IsFiniteSet(s) /\ Cardinality(s) \in Nat
  BY FS_Subset, FS_CardinalityType
<1>2. \A s \in SUBSET S :
        /\ Ft(s) \in Int /\ Ht(s) \in Int
        /\ s = {} => Ft(s) = 0 /\ Ht(s) = 0
        /\ s # {} => /\ Ft(s) = f[FoldPick(s)] + Ft(s \ {FoldPick(s)})
                     /\ Ht(s) = h[FoldPick(s)] + Ht(s \ {FoldPick(s)})
  BY <1>1, SumOnSetPick DEF Ft, Ht
<1> SUFFICES ASSUME ~(Ft(S) <= Ht(S)) PROVE FALSE
  BY DEF Ft, Ht
<1>3. Cardinality(S) \in N
  BY <1>1
<1>4. PICK n \in N : \A m \in N : n <= m
  BY <1>3, LeastNat
<1>5. PICK s \in B : n = Cardinality(s)
  BY <1>4
<1> DEFINE p == FoldPick(s)
           rest == s \ {p}
<1>6. s # {} /\ p \in s
  BY <1>2, <1>5, PickMember
<1>7. rest \in SUBSET S /\ Cardinality(rest) = n - 1
  BY <1>1, <1>5, <1>6, FS_RemoveElement
<1>8. n - 1 \notin N
  BY <1>4
<1>9. Ft(rest) <= Ht(rest)
  <2> HIDE DEF rest
  <2> QED
    BY <1>1, <1>7, <1>8
<1>10. /\ Ft(s) = f[p] + Ft(rest) /\ Ht(s) = h[p] + Ht(rest)
       /\ f[p] \in Int /\ h[p] \in Int /\ f[p] <= h[p]
       /\ Ft(rest) \in Int /\ Ht(rest) \in Int
       /\ ~(Ft(s) <= Ht(s))
  BY <1>2, <1>5, <1>6
<1> HIDE DEF p, rest
<1> QED
  BY <1>9, <1>10

-----------------------------------------------------------------------------
(* The sum over a whole function. *)
LEMMA SumType ==
  ASSUME NEW f, IsFiniteSet(DOMAIN f), \A x \in DOMAIN f : f[x] \in Int
  PROVE  SumFunction(f) \in Int
BY SumOnSetPick DEF SumFunction

(* A sum over nothing is zero, and so is a sum of zeros. *)
LEMMA SumEmpty ==
  ASSUME NEW f, DOMAIN f = {}
  PROVE  SumFunction(f) = 0
BY SumOnSetPick, FS_EmptySet DEF SumFunction

LEMMA SumOfZeros ==
  ASSUME NEW S, IsFiniteSet(S)
  PROVE  SumFunction([x \in S |-> 0]) = 0
<1> DEFINE f == [x \in S |-> 0]
           N == {n \in Nat : \E s \in SUBSET S :
                               n = Cardinality(s) /\ SumFunctionOnSet(f, s) # 0}
<1>1. \A s \in SUBSET S : IsFiniteSet(s) /\ Cardinality(s) \in Nat
  BY FS_Subset, FS_CardinalityType
<1> SUFFICES ASSUME SumFunctionOnSet(f, S) # 0 PROVE FALSE
  BY DEF SumFunction
<1>2. Cardinality(S) \in N
  BY <1>1
<1>3. PICK n \in N : \A m \in N : n <= m
  BY <1>2, LeastNat
<1>4. PICK s \in SUBSET S : n = Cardinality(s) /\ SumFunctionOnSet(f, s) # 0
  BY <1>3
<1>5. s # {} /\ SumFunctionOnSet(f, s) = f[FoldPick(s)] + SumFunctionOnSet(f, s \ {FoldPick(s)})
  BY <1>1, <1>4, SumOnSetPick
<1>6. FoldPick(s) \in s
  BY <1>5, PickMember
<1>7. /\ s \ {FoldPick(s)} \in SUBSET S /\ Cardinality(s \ {FoldPick(s)}) = n - 1
      /\ SumFunctionOnSet(f, s \ {FoldPick(s)}) \in Int
  BY <1>1, <1>4, <1>6, FS_RemoveElement, SumOnSetPick
<1>8. n - 1 \notin N
  BY <1>3
<1>9. SumFunctionOnSet(f, s \ {FoldPick(s)}) = 0
  BY <1>1, <1>7, <1>8
<1>10. f[FoldPick(s)] = 0
  BY <1>6
<1> HIDE DEF f
<1> QED
  BY <1>4, <1>5, <1>9, <1>10

(* A sum of naturals is a natural. *)
LEMMA SumNat ==
  ASSUME NEW f, IsFiniteSet(DOMAIN f), \A x \in DOMAIN f : f[x] \in Nat
  PROVE  SumFunction(f) \in Nat
<1> DEFINE zero == [x \in DOMAIN f |-> 0]
<1>1. SumFunctionOnSet(zero, DOMAIN f) = 0
  BY SumOfZeros DEF SumFunction
<1>2. \A x \in DOMAIN f : zero[x] \in Int /\ f[x] \in Int /\ zero[x] <= f[x]
  OBVIOUS
<1>3. SumFunctionOnSet(zero, DOMAIN f) <= SumFunctionOnSet(f, DOMAIN f)
  <2> HIDE DEF zero
  <2> QED
    BY <1>2, SumOnSetMonotone
<1>4. SumFunction(f) \in Int
  BY SumType
<1> QED
  BY <1>1, <1>3, <1>4 DEF SumFunction

(* A sum of larger terms is larger. *)
LEMMA SumMonotone ==
  ASSUME NEW f, NEW h, IsFiniteSet(DOMAIN f), DOMAIN h = DOMAIN f,
         \A x \in DOMAIN f : f[x] \in Int /\ h[x] \in Int /\ f[x] <= h[x]
  PROVE  SumFunction(f) <= SumFunction(h)
BY SumOnSetMonotone DEF SumFunction

(* One more summand. *)
LEMMA SumAdd ==
  ASSUME NEW f, NEW h, NEW x, IsFiniteSet(DOMAIN f), x \notin DOMAIN f,
         DOMAIN h = DOMAIN f \cup {x}, h[x] \in Int,
         \A y \in DOMAIN f : f[y] \in Int /\ h[y] = f[y]
  PROVE  SumFunction(h) = SumFunction(f) + h[x]
<1>1. IsFiniteSet(DOMAIN h) /\ DOMAIN h \ {x} = DOMAIN f
  BY FS_AddElement
<1>2. \A y \in DOMAIN h : h[y] \in Int
  OBVIOUS
<1>3. SumFunctionOnSet(h, DOMAIN h) = h[x] + SumFunctionOnSet(h, DOMAIN f)
  BY <1>1, <1>2, SumOnSetRemove
<1>4. SumFunctionOnSet(h, DOMAIN f) = SumFunctionOnSet(f, DOMAIN f)
  BY SumOnSetAgree
<1>5. SumFunctionOnSet(f, DOMAIN f) \in Int
  BY SumOnSetPick
<1> QED
  BY <1>3, <1>4, <1>5 DEF SumFunction

(* One summand changed. *)
LEMMA SumUpdate ==
  ASSUME NEW f, NEW h, NEW x \in DOMAIN f, IsFiniteSet(DOMAIN f),
         DOMAIN h = DOMAIN f, h[x] \in Int, \A y \in DOMAIN f : f[y] \in Int,
         \A y \in DOMAIN f \ {x} : h[y] = f[y]
  PROVE  SumFunction(h) = SumFunction(f) - f[x] + h[x]
<1> DEFINE R == DOMAIN f \ {x}
<1>1. IsFiniteSet(R)
  BY FS_RemoveElement
<1>2. \A y \in DOMAIN f : h[y] \in Int
  OBVIOUS
<1>3. /\ SumFunctionOnSet(h, DOMAIN f) = h[x] + SumFunctionOnSet(h, R)
      /\ SumFunctionOnSet(f, DOMAIN f) = f[x] + SumFunctionOnSet(f, R)
  BY <1>2, SumOnSetRemove
<1>4. SumFunctionOnSet(h, R) = SumFunctionOnSet(f, R)
  BY <1>1, SumOnSetAgree
<1>5. SumFunctionOnSet(f, R) \in Int
  BY <1>1, SumOnSetPick
<1> HIDE DEF R
<1> QED
  BY <1>3, <1>4, <1>5 DEF SumFunction

(* A summand is part of the sum. *)
LEMMA SumAtLeast ==
  ASSUME NEW f, IsFiniteSet(DOMAIN f), \A x \in DOMAIN f : f[x] \in Nat,
         NEW x \in DOMAIN f
  PROVE  f[x] <= SumFunction(f)
<1> DEFINE h == [f EXCEPT ![x] = 0]
<1>1. SumFunction(h) \in Nat
  BY SumNat
<1>2. SumFunction(h) = SumFunction(f) - f[x] + h[x]
  BY SumUpdate
<1>3. SumFunction(f) \in Int
  BY SumType
<1> QED
  BY <1>1, <1>2, <1>3

-----------------------------------------------------------------------------
(* Sums over lines that name entries: of what every line names, and of the *)
(* entries themselves, when several lines may name one entry.              *)
ImageOf(g, S) == {g[x] : x \in S}

(* Lines that name every entry of a set sum up to at least its sum. *)
LEMMA SumCovered ==
  ASSUME NEW L, IsFiniteSet(L), NEW g, NEW v,
         \A l \in L : v[g[l]] \in Nat,
         NEW U \in SUBSET ImageOf(g, L)
  PROVE  SumFunction([e \in U |-> v[e]]) <= SumFunction([l \in L |-> v[g[l]]])
<1> DEFINE f == [l \in L |-> v[g[l]]]
           Of(V) == SumFunctionOnSet(v, V)
           Fs(s) == SumFunctionOnSet(f, s)
           Bad(s) == \E V \in SUBSET ImageOf(g, s) : ~(Of(V) <= Fs(s))
           N == {n \in Nat : \E s \in SUBSET L : n = Cardinality(s) /\ Bad(s)}
<1>1. \A s \in SUBSET L : IsFiniteSet(s) /\ Cardinality(s) \in Nat
  BY FS_Subset, FS_CardinalityType
<1>2. \A V \in SUBSET ImageOf(g, L) :
        /\ IsFiniteSet(V)
        /\ \A e \in V : v[e] \in Nat
  <2>1. IsFiniteSet(ImageOf(g, L))
    <3> DEFINE h == [l \in L |-> g[l]]
    <3>1. h \in Surjection(L, ImageOf(g, L))
      BY DEF Surjection, ImageOf
    <3> QED
      BY <3>1, FS_Surjection
  <2> QED
    BY <2>1, FS_Subset DEF ImageOf
<1>3. \A s \in SUBSET L : Fs(s) \in Int
  <2>1. \A x \in L : f[x] \in Int
    OBVIOUS
  <2> HIDE DEF f
  <2> QED
    BY <1>1, <2>1, SumOnSetPick
<1>4. \A V \in SUBSET ImageOf(g, L) : Of(V) \in Int
  <2>1. \A V \in SUBSET ImageOf(g, L) : \A e \in V : v[e] \in Int
    BY <1>2
  <2> QED
    BY <1>2, <2>1, SumOnSetPick
<1>5. SumFunction([e \in U |-> v[e]]) = Of(U) /\ SumFunction(f) = Fs(L)
  <2> DEFINE h == [e \in U |-> v[e]]
  <2>1. DOMAIN h = U /\ \A e \in U : h[e] = v[e] /\ v[e] \in Int
    BY <1>2
  <2>2. SumFunctionOnSet(h, U) = SumFunctionOnSet(v, U)
    <3> HIDE DEF h
    <3> QED
      BY <1>2, <2>1, SumOnSetAgree
  <2> QED
    BY <2>1, <2>2 DEF SumFunction
<1> SUFFICES ASSUME Bad(L) PROVE FALSE
  BY <1>5
<1>6. Cardinality(L) \in N
  BY <1>1
<1>7. PICK n \in N : \A m \in N : n <= m
  BY <1>6, LeastNat
<1>8. PICK s \in SUBSET L : n = Cardinality(s) /\ Bad(s)
  BY <1>7
<1>9. PICK V \in SUBSET ImageOf(g, s) : ~(Of(V) <= Fs(s))
  BY <1>8
<1>10. V \in SUBSET ImageOf(g, L)
  BY DEF ImageOf
<1>11. s # {}
  <2> SUFFICES ASSUME s = {} PROVE FALSE
    OBVIOUS
  <2>1. V = {} /\ IsFiniteSet({})
    BY FS_EmptySet DEF ImageOf
  <2>2. Of({}) = 0 /\ Fs({}) = 0
    BY FS_EmptySet, SumOnSetPick
  <2> QED
    BY <1>9, <2>1, <2>2
<1>12. PICK l : l \in s
  BY <1>11
<1> DEFINE s0 == s \ {l}
           V0 == V \ {g[l]}
<1>13. s0 \in SUBSET L /\ Cardinality(s0) = n - 1
  BY <1>1, <1>8, <1>12, FS_RemoveElement
<1>14. V0 \in SUBSET ImageOf(g, s0) /\ V0 \in SUBSET ImageOf(g, L)
  BY <1>10 DEF ImageOf
<1>15. Of(V0) <= Fs(s0)
  <2>1. n - 1 \notin N
    BY <1>7
  <2>2. n - 1 \in Nat
    BY <1>1, <1>13
  <2> HIDE DEF Of, Fs, s0, V0
  <2> QED
    BY <1>13, <1>14, <2>1, <2>2
<1>16. Fs(s) = f[l] + Fs(s0) /\ f[l] = v[g[l]] /\ v[g[l]] \in Nat
  <2>1. \A x \in s : f[x] \in Int
    OBVIOUS
  <2>2. f[l] = v[g[l]] /\ v[g[l]] \in Nat
    BY <1>12
  <2>3. Fs(s) = f[l] + Fs(s0)
    <3> HIDE DEF f
    <3> QED
      BY <1>1, <1>12, <2>1, SumOnSetRemove
  <2> QED
    BY <2>2, <2>3
<1>17. Of(V) = Of(V0) \/ Of(V) = v[g[l]] + Of(V0)
  <2>1. CASE g[l] \in V
    <3>1. \A e \in V : v[e] \in Int
      BY <1>2, <1>10
    <3> QED
      BY <1>2, <1>10, <2>1, <3>1, SumOnSetRemove
  <2>2. CASE g[l] \notin V
    BY <2>2
  <2> QED
    BY <2>1, <2>2
<1>18. Of(V) \in Int /\ Of(V0) \in Int /\ Fs(s0) \in Int /\ Fs(s) \in Int
  BY <1>3, <1>4, <1>10, <1>13, <1>14
<1> HIDE DEF Of, Fs, s0, V0, f
<1> QED
  BY <1>9, <1>15, <1>16, <1>17, <1>18

(* Lines, with their amounts f, that each name another entry of a set take *)
(* their sum out of that of the set.                                       *)
Takes(g, f, all, left) ==
  /\ \A e \in DOMAIN all : all[e] \in Int
  /\ \A l \in DOMAIN f : g[l] \in DOMAIN all /\ f[l] = all[g[l]]
  /\ \A k, l \in DOMAIN f : g[k] = g[l] => k = l
  /\ DOMAIN left = DOMAIN all \ ImageOf(g, DOMAIN f)
  /\ \A e \in DOMAIN left : left[e] = all[e]

LEMMA SumTaken ==
  ASSUME NEW g, NEW all, NEW f, NEW left,
         IsFiniteSet(DOMAIN all), IsFiniteSet(DOMAIN f), Takes(g, f, all, left)
  PROVE  SumFunction(all) = SumFunction(left) + SumFunction(f)
<1> DEFINE L == DOMAIN f
           U == DOMAIN all
           Of(V) == SumFunctionOnSet(all, V)
           Fs(s) == SumFunctionOnSet(f, s)
           Left(s) == U \ ImageOf(g, s)
           Bad(s) == Of(U) # Of(Left(s)) + Fs(s)
           N == {n \in Nat : \E s \in SUBSET L : n = Cardinality(s) /\ Bad(s)}
<1>0. /\ \A e \in U : all[e] \in Int
      /\ \A l \in L : g[l] \in U /\ f[l] = all[g[l]]
      /\ \A k, l \in L : g[k] = g[l] => k = l
      /\ DOMAIN left = U \ ImageOf(g, L)
      /\ \A e \in DOMAIN left : left[e] = all[e]
  BY DEF Takes
<1>1. \A s \in SUBSET L : IsFiniteSet(s) /\ Cardinality(s) \in Nat
  BY FS_Subset, FS_CardinalityType
<1>2. \A V \in SUBSET U : IsFiniteSet(V) /\ \A e \in V : all[e] \in Int
  BY <1>0, FS_Subset
<1>3. \A s \in SUBSET L : Fs(s) \in Int
  BY <1>0, <1>1, SumOnSetPick
<1>4. \A V \in SUBSET U : Of(V) \in Int
  BY <1>2, SumOnSetPick
<1>5. SumFunction(left) = Of(Left(L))
  <2>1. /\ DOMAIN left = Left(L) /\ IsFiniteSet(Left(L))
        /\ \A e \in Left(L) : all[e] \in Int /\ left[e] = all[e]
    BY <1>0, <1>2
  <2> HIDE DEF Left, L
  <2> QED
    BY <2>1, SumOnSetAgree DEF SumFunction
<1>6. SumFunction(f) = Fs(L) /\ SumFunction(all) = Of(U)
  BY DEF SumFunction
<1> SUFFICES ASSUME Bad(L) PROVE FALSE
  BY <1>5, <1>6
<1>7. Cardinality(L) \in N
  BY <1>1
<1>8. PICK n \in N : \A m \in N : n <= m
  BY <1>7, LeastNat
<1>9. PICK s \in SUBSET L : n = Cardinality(s) /\ Bad(s)
  BY <1>8
<1>10. s # {}
  <2> SUFFICES ASSUME s = {} PROVE FALSE
    OBVIOUS
  <2>1. Left({}) = U /\ Fs({}) = 0
    BY FS_EmptySet, SumOnSetPick DEF ImageOf
  <2>2. Of(U) \in Int
    BY <1>4
  <2> HIDE DEF Of, Fs, Left
  <2> QED
    BY <1>9, <2>1, <2>2
<1>11. PICK l : l \in s
  BY <1>10
<1> DEFINE s0 == s \ {l}
<1>12. s0 \in SUBSET L /\ Cardinality(s0) = n - 1
  BY <1>1, <1>9, <1>11, FS_RemoveElement
<1>13. Of(U) = Of(Left(s0)) + Fs(s0)
  <2>1. n - 1 \notin N
    <3>1. n \in Nat
      OBVIOUS
    <3> HIDE DEF N
    <3> QED
      BY <1>8, <3>1
  <2>2. n - 1 \in Nat
    BY <1>1, <1>12
  <2> HIDE DEF Of, Fs, s0, Left
  <2> QED
    BY <1>12, <2>1, <2>2
<1>14. g[l] \in Left(s0) /\ Left(s) = Left(s0) \ {g[l]} /\ l \in L
  BY <1>0, <1>11 DEF ImageOf
<1>15. Of(Left(s0)) = all[g[l]] + Of(Left(s))
  <2>1. Left(s0) \in SUBSET U
    OBVIOUS
  <2>2. IsFiniteSet(Left(s0)) /\ \A e \in Left(s0) : all[e] \in Int
    BY <1>2, <2>1
  <2> HIDE DEF Left, s0
  <2> QED
    BY <1>14, <2>2, SumOnSetRemove
<1>16. Fs(s) = all[g[l]] + Fs(s0)
  <2>1. (\A x \in s : f[x] \in Int) /\ f[l] = all[g[l]] /\ IsFiniteSet(s)
    BY <1>0, <1>1, <1>14
  <2> QED
    BY <1>1, <1>11, <2>1, SumOnSetRemove
<1>17. /\ Of(Left(s)) \in Int /\ Of(U) \in Int /\ Fs(s0) \in Int /\ all[g[l]] \in Int
  BY <1>0, <1>3, <1>4, <1>12, <1>14
<1> HIDE DEF Of, Fs, Left, s0
<1> QED
  BY <1>9, <1>13, <1>15, <1>16, <1>17
=============================================================================
