------------------- MODULE GraphTokenDistributorTheorems -------------------
(***************************************************************************)
(* Theorems about GraphTokenDistributor, for every set of accounts, every  *)
(* amount, and arrays of every length.                                     *)
(***************************************************************************)
EXTENDS GraphTokenDistributor, ArithmeticTheorems

(* The accounts that a batch may name. *)
IsBatch(batch) ==
  /\ IsFiniteSet(DOMAIN batch)
  /\ \E n \in Nat : DOMAIN batch = 1 .. n
  /\ \A i \in DOMAIN batch : batch[i][1] \in AnyAddress /\ batch[i][2] \in Nat

(* What the rounds s of a batch name for the account a. *)
Named(batch, s, a) ==
  SumFunction([i \in {j \in s : batch[j][1] = a} |-> batch[i][2]])

LEMMA BatchesAreBatches == \A batch \in Batches : IsBatch(batch)
<1> SUFFICES ASSUME NEW n \in 0 .. MaxBatch,
                    NEW batch \in [1 .. n -> AnyAddress \X (0 .. MaxAmount)]
             PROVE  IsBatch(batch)
  BY DEF Batches
<1>1. IsFiniteSet(1 .. n)
  BY FS_Interval
<1> QED
  BY <1>1, DistributorBoundsAssumption DEF IsBatch

(* The last round of a set of rounds. *)
LEMMA LastRound ==
  ASSUME NEW batch, IsBatch(batch), NEW s \in SUBSET DOMAIN batch, s # {}
  PROVE  Max(s) \in s
<1>1. PICK n \in Nat : s \subseteq 1 .. n
  BY DEF IsBatch
<1> DEFINE Bounds == {m \in Nat : \A y \in s : y <= m}
<1>2. n \in Bounds
  BY <1>1
<1>3. PICK m \in Bounds : \A k \in Bounds : m <= k
  BY <1>2, LeastNat
<1>4. m \in s
  <2> SUFFICES ASSUME m \notin s PROVE FALSE
    OBVIOUS
  <2>1. \A y \in s : y \in Nat /\ y >= 1 /\ y < m
    BY <1>1, <1>3
  <2>2. m - 1 \in Bounds
    BY <1>3, <2>1
  <2> QED
    BY <1>3, <2>2
<1>5. \A y \in s : m >= y
  BY <1>1, <1>3
<1> QED
  BY <1>4, <1>5 DEF Max

LEMMA NamedEmpty ==
  ASSUME NEW batch, NEW a
  PROVE  Named(batch, {}, a) = 0
<1> DEFINE f == [i \in {j \in {} : batch[j][1] = a} |-> batch[i][2]]
<1>1. DOMAIN f = {}
  OBVIOUS
<1> QED
  BY <1>1, SumEmpty DEF Named

LEMMA NamedType ==
  ASSUME NEW batch, IsBatch(batch), NEW s \in SUBSET DOMAIN batch, NEW a
  PROVE  Named(batch, s, a) \in Nat
<1> DEFINE f == [i \in {j \in s : batch[j][1] = a} |-> batch[i][2]]
<1>1. IsFiniteSet(DOMAIN f) /\ \A i \in DOMAIN f : f[i] \in Nat
  BY FS_Subset DEF IsBatch
<1> HIDE DEF f
<1>2. SumFunction(f) \in Nat
  BY <1>1, SumNat
<1> QED
  BY <1>2 DEF Named, f

(* One more round. *)
LEMMA NamedStep ==
  ASSUME NEW batch, IsBatch(batch), NEW s \in SUBSET DOMAIN batch, NEW x \in s, NEW a
  PROVE  Named(batch, s, a)
           = IF batch[x][1] = a THEN Named(batch, s \ {x}, a) + batch[x][2]
             ELSE Named(batch, s \ {x}, a)
<1> DEFINE D == {j \in s : batch[j][1] = a}
           R == {j \in s \ {x} : batch[j][1] = a}
           f == [i \in D |-> batch[i][2]]
           r == [i \in R |-> batch[i][2]]
<1>1. CASE batch[x][1] = a
  <2>1. /\ IsFiniteSet(DOMAIN r) /\ x \notin DOMAIN r
        /\ DOMAIN f = DOMAIN r \cup {x} /\ f[x] \in Int
        /\ \A y \in DOMAIN r : r[y] \in Int /\ f[y] = r[y]
    BY <1>1, FS_Subset DEF IsBatch
  <2>2. f[x] = batch[x][2]
    BY <1>1
  <2> HIDE DEF f, r
  <2>3. SumFunction(f) = SumFunction(r) + f[x]
    BY <2>1, SumAdd
  <2> QED
    BY <1>1, <2>2, <2>3 DEF Named, f, r
<1>2. CASE batch[x][1] # a
  <2>1. D = R
    BY <1>2
  <2> QED
    BY <1>2, <2>1 DEF Named
<1> QED
  BY <1>1, <1>2

(* Two loops over the rounds D agree if they begin alike, and each round   *)
(* does the same in both.                                                  *)
LoopsStepAlike(g, h, D) ==
  /\ g[{}] = h[{}]
  /\ \A s \in SUBSET D :
       s # {} => /\ Max(s) \in s
                 /\ g[s \ {Max(s)}] = h[s \ {Max(s)}] => g[s] = h[s]

LEMMA LoopsAgree ==
  ASSUME NEW D, IsFiniteSet(D), NEW g, NEW h, LoopsStepAlike(g, h, D)
  PROVE  g[D] = h[D]
<1> DEFINE N == {n \in Nat : \E s \in SUBSET D : g[s] # h[s] /\ n = Cardinality(s)}
<1>1. \A s \in SUBSET D : IsFiniteSet(s) /\ Cardinality(s) \in Nat
  BY FS_Subset, FS_CardinalityType
<1> SUFFICES ASSUME g[D] # h[D] PROVE FALSE
  OBVIOUS
<1>2. Cardinality(D) \in N
  BY <1>1
<1>3. PICK n \in N : \A m \in N : n <= m
  BY <1>2, LeastNat
<1>4. PICK s \in SUBSET D : g[s] # h[s] /\ n = Cardinality(s)
  BY <1>3
<1>5. Max(s) \in s
  BY <1>4 DEF LoopsStepAlike
<1>6. s \ {Max(s)} \in SUBSET D /\ Cardinality(s \ {Max(s)}) = n - 1
  BY <1>1, <1>4, <1>5, FS_RemoveElement
<1>7. n - 1 \notin N
  BY <1>3
<1>8. g[s \ {Max(s)}] = h[s \ {Max(s)}]
  BY <1>1, <1>6, <1>7
<1> QED
  BY <1>4, <1>5, <1>8 DEF LoopsStepAlike

(* The loop that adds: each account gets all that the batch names for it.  *)
PlusRound(acc, pair) == [acc EXCEPT ![pair[1]] = @ + pair[2]]

LEMMA PlusTotal ==
  ASSUME NEW amounts \in [AnyAddress -> Int], NEW batch, IsBatch(batch)
  PROVE  Plus(amounts, batch) = [a \in AnyAddress |-> amounts[a] + Total(batch)[a]]
<1> DEFINE D == DOMAIN batch
           E(h) == [s \in SUBSET D |->
                      IF s = {} THEN amounts
                      ELSE PlusRound(h[s \ {Max(s)}], batch[Max(s)])]
           it == CHOOSE h : h = E(h)
           So(s) == [a \in AnyAddress |-> amounts[a] + Named(batch, s, a)]
           g == [s \in SUBSET D |-> So(s)]
<1>1. Plus(amounts, batch) = it[D]
  BY DEF Plus, FoldLeft, MapThenFoldSet, PlusRound
<1>2. So({}) = amounts
  BY NamedEmpty
<1>3. ASSUME NEW s \in SUBSET D, s # {}
      PROVE  So(s) = PlusRound(So(s \ {Max(s)}), batch[Max(s)])
  <2>1. PICK x : x = Max(s) /\ x \in s
    BY <1>3, LastRound
  <2>2. batch[x][1] \in AnyAddress /\ batch[x][2] \in Nat
    BY <2>1 DEF IsBatch
  <2>3. \A a \in AnyAddress :
          /\ Named(batch, s \ {x}, a) \in Nat
          /\ amounts[a] \in Int
          /\ batch[x][1] = a => Named(batch, s, a) = Named(batch, s \ {x}, a) + batch[x][2]
          /\ batch[x][1] # a => Named(batch, s, a) = Named(batch, s \ {x}, a)
    BY <2>1, NamedStep, NamedType
  <2>4. PICK r \in [AnyAddress -> Int] : r = So(s \ {x})
    <3>1. \A a \in AnyAddress : amounts[a] + Named(batch, s \ {x}, a) \in Int
      BY <2>3
    <3>2. So(s \ {x}) \in [AnyAddress -> Int]
      BY <3>1
    <3> HIDE DEF So
    <3> QED
      BY <3>2
  <2>5. So(s) = [r EXCEPT ![batch[x][1]] = r[batch[x][1]] + batch[x][2]]
    <3>1. So(s) \in [AnyAddress -> Int]
      BY <2>2, <2>3
    <3>2. \A a \in AnyAddress :
            So(s)[a] = IF a = batch[x][1] THEN r[a] + batch[x][2] ELSE r[a]
      BY <2>2, <2>3, <2>4
    <3> HIDE DEF So
    <3> QED
      BY <2>2, <3>1, <3>2
  <2>6. So(s) = PlusRound(So(s \ {x}), batch[x])
    BY <2>4, <2>5 DEF PlusRound
  <2> QED
    BY <2>1, <2>6
<1> HIDE DEF So
<1>4. g = E(g)
  BY <1>2, <1>3
<1>5. it = E(it)
  <2> HIDE DEF E, g
  <2> QED
    BY <1>4
<1>6. LoopsStepAlike(it, g, D)
  <2> HIDE DEF it, g
  <2>1. it[{}] = g[{}]
    BY <1>4, <1>5
  <2>2. ASSUME NEW s \in SUBSET D, s # {}
        PROVE  /\ Max(s) \in s
               /\ it[s \ {Max(s)}] = g[s \ {Max(s)}] => it[s] = g[s]
    BY <1>4, <1>5, <2>2, LastRound
  <2> QED
    BY <2>1, <2>2 DEF LoopsStepAlike
<1>7. it[D] = So(D)
  <2> HIDE DEF it
  <2> QED
    BY <1>6, LoopsAgree DEF IsBatch
<1>8. \A a \in AnyAddress : Named(batch, D, a) = Total(batch)[a]
  BY DEF Named, Total
<1> QED
  BY <1>1, <1>7, <1>8 DEF So

(* The loop that subtracts takes as much. *)
MinusRound(acc, pair) == [acc EXCEPT ![pair[1]] = @ - pair[2]]

LEMMA MinusTotal ==
  ASSUME NEW amounts \in [AnyAddress -> Int], NEW batch, IsBatch(batch)
  PROVE  Minus(amounts, batch) = [a \in AnyAddress |-> amounts[a] - Total(batch)[a]]
<1> DEFINE D == DOMAIN batch
           E(h) == [s \in SUBSET D |->
                      IF s = {} THEN amounts
                      ELSE MinusRound(h[s \ {Max(s)}], batch[Max(s)])]
           it == CHOOSE h : h = E(h)
           So(s) == [a \in AnyAddress |-> amounts[a] - Named(batch, s, a)]
           g == [s \in SUBSET D |-> So(s)]
<1>1. Minus(amounts, batch) = it[D]
  BY DEF Minus, FoldLeft, MapThenFoldSet, MinusRound
<1>2. So({}) = amounts
  BY NamedEmpty
<1>3. ASSUME NEW s \in SUBSET D, s # {}
      PROVE  So(s) = MinusRound(So(s \ {Max(s)}), batch[Max(s)])
  <2>1. PICK x : x = Max(s) /\ x \in s
    BY <1>3, LastRound
  <2>2. batch[x][1] \in AnyAddress /\ batch[x][2] \in Nat
    BY <2>1 DEF IsBatch
  <2>3. \A a \in AnyAddress :
          /\ Named(batch, s \ {x}, a) \in Nat
          /\ amounts[a] \in Int
          /\ batch[x][1] = a => Named(batch, s, a) = Named(batch, s \ {x}, a) + batch[x][2]
          /\ batch[x][1] # a => Named(batch, s, a) = Named(batch, s \ {x}, a)
    BY <2>1, NamedStep, NamedType
  <2>4. PICK r \in [AnyAddress -> Int] : r = So(s \ {x})
    <3>1. \A a \in AnyAddress : amounts[a] - Named(batch, s \ {x}, a) \in Int
      BY <2>3
    <3>2. So(s \ {x}) \in [AnyAddress -> Int]
      BY <3>1
    <3> HIDE DEF So
    <3> QED
      BY <3>2
  <2>5. So(s) = [r EXCEPT ![batch[x][1]] = r[batch[x][1]] - batch[x][2]]
    <3>1. So(s) \in [AnyAddress -> Int]
      BY <2>2, <2>3
    <3>2. \A a \in AnyAddress :
            So(s)[a] = IF a = batch[x][1] THEN r[a] - batch[x][2] ELSE r[a]
      <4> TAKE a \in AnyAddress
      <4>1. r[a] = amounts[a] - Named(batch, s \ {x}, a)
        BY <2>4
      <4>2. So(s)[a] = amounts[a] - Named(batch, s, a)
        OBVIOUS
      <4>3. PICK n \in Nat, m \in Int, b \in Nat :
              n = Named(batch, s \ {x}, a) /\ m = amounts[a] /\ b = batch[x][2]
        BY <2>2, <2>3
      <4>4. CASE a = batch[x][1]
        <5>1. So(s)[a] = m - (n + b) /\ r[a] = m - n
          BY <2>3, <4>1, <4>2, <4>3, <4>4
        <5> HIDE DEF So
        <5> QED
          BY <4>3, <4>4, <5>1
      <4>5. CASE a # batch[x][1]
        <5>1. So(s)[a] = m - n /\ r[a] = m - n
          BY <2>3, <4>1, <4>2, <4>3, <4>5
        <5> HIDE DEF So
        <5> QED
          BY <4>5, <5>1
      <4> HIDE DEF So
      <4> QED
        BY <4>4, <4>5
    <3> HIDE DEF So
    <3> QED
      BY <2>2, <3>1, <3>2
  <2>6. So(s) = MinusRound(So(s \ {x}), batch[x])
    BY <2>4, <2>5 DEF MinusRound
  <2> QED
    BY <2>1, <2>6
<1> HIDE DEF So
<1>4. g = E(g)
  BY <1>2, <1>3
<1>5. it = E(it)
  <2> HIDE DEF E, g
  <2> QED
    BY <1>4
<1>6. LoopsStepAlike(it, g, D)
  <2> HIDE DEF it, g
  <2>1. it[{}] = g[{}]
    BY <1>4, <1>5
  <2>2. ASSUME NEW s \in SUBSET D, s # {}
        PROVE  /\ Max(s) \in s
               /\ it[s \ {Max(s)}] = g[s \ {Max(s)}] => it[s] = g[s]
    BY <1>4, <1>5, <2>2, LastRound
  <2> QED
    BY <2>1, <2>2 DEF LoopsStepAlike
<1>7. it[D] = So(D)
  <2> HIDE DEF it
  <2> QED
    BY <1>6, LoopsAgree DEF IsBatch
<1>8. \A a \in AnyAddress : Named(batch, D, a) = Total(batch)[a]
  BY DEF Named, Total
<1> QED
  BY <1>1, <1>7, <1>8 DEF So

LEMMA TotalType == \A batch : IsBatch(batch) => Total(batch) \in [AnyAddress -> Nat]
<1> SUFFICES ASSUME NEW batch, IsBatch(batch)
             PROVE  Total(batch) \in [AnyAddress -> Nat]
  OBVIOUS
<1>1. Total(batch) = [a \in AnyAddress |-> Named(batch, DOMAIN batch, a)]
  BY DEF Total, Named
<1>2. \A a \in AnyAddress : Named(batch, DOMAIN batch, a) \in Nat
  BY NamedType
<1> QED
  BY <1>1, <1>2

-----------------------------------------------------------------------------
DistributorTypeOK ==
  /\ beneficiaries \in [AnyAddress -> Nat]
  /\ added \in [AnyAddress -> Nat]
  /\ subtracted \in [AnyAddress -> Nat]
  /\ claimed \in [AnyAddress -> Nat]
  /\ balance \in Nat
  /\ deposited \in Nat
  /\ withdrawn \in Nat
  /\ kept \in Nat

(* The inductive invariant. *)
DistributorInv == DistributorTypeOK /\ AssignedOnce /\ PoolAccounted

LEMMA AccountsFinite == IsFiniteSet(AnyAddress)
BY DistributorAssumption, FS_AddElement DEF AnyAddress

LEMMA DistributorInvInitially == Init => DistributorInv
<1> SUFFICES ASSUME Init PROVE DistributorInv
  OBVIOUS
<1>1. DistributorTypeOK /\ AssignedOnce
  BY DEF Init, DistributorTypeOK, AssignedOnce
<1>2. SumFunction(claimed) = 0
  BY AccountsFinite, SumOfZeros DEF Init
<1> QED
  BY <1>1, <1>2 DEF Init, DistributorInv, PoolAccounted

(* A step that does not touch the assignments, or not the tokens. *)
LEMMA SameAssignments ==
  ASSUME DistributorInv, UNCHANGED assignments,
         balance' \in Nat, deposited' \in Nat, withdrawn' \in Nat, UNCHANGED kept,
         balance' + withdrawn' + deposited = balance + withdrawn + deposited'
  PROVE  DistributorInv'
<1>1. DistributorTypeOK' /\ AssignedOnce'
  BY DEF DistributorInv, DistributorTypeOK, AssignedOnce, assignments
<1>2. SumFunction(claimed) \in Int /\ claimed' = claimed
  BY AccountsFinite, SumType DEF DistributorInv, DistributorTypeOK, assignments
<1>3. PICK c \in Int : c = SumFunction(claimed) /\ c = SumFunction(claimed)'
  BY <1>2
<1>4. balance + withdrawn + c = deposited + kept
  BY <1>3 DEF DistributorInv, PoolAccounted
<1>5. balance' + withdrawn' + c = deposited' + kept'
  <2>1. /\ balance \in Nat /\ deposited \in Nat /\ withdrawn \in Nat /\ kept \in Nat
        /\ kept' = kept
    BY DEF DistributorInv, DistributorTypeOK
  <2>2. ASSUME NEW b \in Nat, NEW w \in Nat, NEW d \in Nat,
               b + w + deposited = balance + withdrawn + d
        PROVE  b + w + c = d + kept
    BY <1>4, <2>1, <2>2
  <2>3. balance' \in Nat /\ deposited' \in Nat /\ withdrawn' \in Nat
    OBVIOUS
  <2>4. balance' + withdrawn' + deposited = balance + withdrawn + deposited'
    OBVIOUS
  <2>5. balance' + withdrawn' + c = deposited' + kept
    BY <2>2, <2>3, <2>4
  <2> QED
    BY <2>1, <2>5
<1>6. PoolAccounted'
  BY <1>1, <1>3, <1>5 DEF DistributorTypeOK, PoolAccounted
<1> QED
  BY <1>1, <1>6 DEF DistributorInv

LEMMA SameFunds ==
  ASSUME DistributorInv, UNCHANGED funds, UNCHANGED claimed, AssignedOnce',
         beneficiaries' \in [AnyAddress -> Nat],
         added' \in [AnyAddress -> Nat], subtracted' \in [AnyAddress -> Nat]
  PROVE  DistributorInv'
<1>1. DistributorTypeOK'
  BY DEF DistributorInv, DistributorTypeOK, funds
<1>2. PoolAccounted'
  BY DEF DistributorInv, PoolAccounted, funds
<1> QED
  BY <1>1, <1>2 DEF DistributorInv

LEMMA AddStep ==
  ASSUME DistributorInv, NEW caller, NEW batch \in Batches,
         AddBeneficiaryTokens(caller, batch)
  PROVE  DistributorInv'
<1>1. PICK total \in [AnyAddress -> Nat] : total = Total(batch)
  BY BatchesAreBatches, TotalType
<1>2. /\ beneficiaries \in [AnyAddress -> Nat] /\ added \in [AnyAddress -> Nat]
      /\ subtracted \in [AnyAddress -> Nat] /\ claimed \in [AnyAddress -> Nat]
      /\ AssignedOnce
  BY DEF DistributorInv, DistributorTypeOK
<1>3. /\ beneficiaries' = [a \in AnyAddress |-> beneficiaries[a] + total[a]]
      /\ added' = [a \in AnyAddress |-> added[a] + total[a]]
      /\ UNCHANGED <<subtracted, claimed, funds>>
  <2>1. beneficiaries \in [AnyAddress -> Int]
    BY <1>2
  <2>2. Plus(beneficiaries, batch) = [a \in AnyAddress |-> beneficiaries[a] + total[a]]
    BY <1>1, <2>1, BatchesAreBatches, PlusTotal
  <2> QED
    BY <1>1, <2>2 DEF AddBeneficiaryTokens
<1>4. /\ beneficiaries' \in [AnyAddress -> Nat] /\ added' \in [AnyAddress -> Nat]
      /\ subtracted' \in [AnyAddress -> Nat]
  BY <1>2, <1>3
<1>5. AssignedOnce'
  BY <1>2, <1>3 DEF AssignedOnce
<1> QED
  BY <1>3, <1>4, <1>5, SameFunds

LEMMA SubStep ==
  ASSUME DistributorInv, NEW caller, NEW batch \in Batches,
         SubBeneficiaryTokens(caller, batch)
  PROVE  DistributorInv'
<1>1. PICK total \in [AnyAddress -> Nat] : total = Total(batch)
  BY BatchesAreBatches, TotalType
<1>2. /\ beneficiaries \in [AnyAddress -> Nat] /\ added \in [AnyAddress -> Nat]
      /\ subtracted \in [AnyAddress -> Nat] /\ claimed \in [AnyAddress -> Nat]
      /\ AssignedOnce
  BY DEF DistributorInv, DistributorTypeOK
<1>3. /\ beneficiaries' = [a \in AnyAddress |-> beneficiaries[a] - total[a]]
      /\ \A a \in AnyAddress : beneficiaries[a] - total[a] >= 0
      /\ subtracted' = [a \in AnyAddress |-> subtracted[a] + total[a]]
      /\ UNCHANGED <<added, claimed, funds>>
  <2>1. beneficiaries \in [AnyAddress -> Int]
    BY <1>2
  <2>2. Minus(beneficiaries, batch) = [a \in AnyAddress |-> beneficiaries[a] - total[a]]
    BY <1>1, <2>1, BatchesAreBatches, MinusTotal
  <2> QED
    BY <1>1, <2>2 DEF SubBeneficiaryTokens
<1>4. /\ beneficiaries' \in [AnyAddress -> Nat] /\ added' \in [AnyAddress -> Nat]
      /\ subtracted' \in [AnyAddress -> Nat]
  BY <1>2, <1>3
<1>5. AssignedOnce'
  BY <1>2, <1>3 DEF AssignedOnce
<1> QED
  BY <1>3, <1>4, <1>5, SameFunds

LEMMA ClaimStep ==
  ASSUME DistributorInv, NEW caller \in Address, NEW to, ClaimTo(caller, to)
  PROVE  DistributorInv'
<1> DEFINE amount == beneficiaries[caller]
<1>1. /\ beneficiaries \in [AnyAddress -> Nat] /\ added \in [AnyAddress -> Nat]
      /\ subtracted \in [AnyAddress -> Nat] /\ claimed \in [AnyAddress -> Nat]
      /\ balance \in Nat /\ kept \in Nat /\ deposited \in Nat /\ withdrawn \in Nat
      /\ AssignedOnce /\ PoolAccounted
  BY DEF DistributorInv, DistributorTypeOK
<1>2. caller \in AnyAddress
  BY DEF AnyAddress
<1>3. /\ beneficiaries' = [beneficiaries EXCEPT ![caller] = 0]
      /\ claimed' = [claimed EXCEPT ![caller] = claimed[caller] + amount]
      /\ amount <= balance
      /\ \/ kept' = kept + amount /\ balance' = balance
         \/ balance' = balance - amount /\ kept' = kept
      /\ UNCHANGED <<added, subtracted, deposited, withdrawn>>
  BY DEF ClaimTo
<1>4. DistributorTypeOK'
  BY <1>1, <1>2, <1>3 DEF DistributorTypeOK
<1>5. AssignedOnce'
  BY <1>1, <1>2, <1>3 DEF AssignedOnce
<1>6. PoolAccounted'
  <2>1. SumFunction(claimed') = SumFunction(claimed) - claimed[caller] + claimed'[caller]
    <3>1. /\ caller \in DOMAIN claimed /\ IsFiniteSet(DOMAIN claimed)
          /\ DOMAIN claimed' = DOMAIN claimed /\ claimed'[caller] \in Int
          /\ \A y \in DOMAIN claimed : claimed[y] \in Int
          /\ \A y \in DOMAIN claimed \ {caller} : claimed'[y] = claimed[y]
      BY <1>1, <1>2, <1>3, AccountsFinite
    <3> QED
      BY <3>1, SumUpdate
  <2>2. claimed'[caller] = claimed[caller] + amount
    BY <1>1, <1>2, <1>3
  <2>3. SumFunction(claimed) \in Int
    BY <1>1, AccountsFinite, SumType
  <2>4. amount \in Nat /\ claimed[caller] \in Nat
    BY <1>1, <1>2
  <2> HIDE DEF amount
  <2>5. SumFunction(claimed') = SumFunction(claimed) + amount
    BY <2>1, <2>2, <2>3, <2>4
  <2>6. PICK c \in Int, d \in Int :
          c = SumFunction(claimed) /\ d = SumFunction(claimed') /\ d = c + amount
    BY <2>3, <2>4, <2>5
  <2>7. balance + withdrawn + c = deposited + kept
    BY <1>1, <2>6 DEF PoolAccounted
  <2>8. balance' + withdrawn' + d = deposited' + kept'
    BY <1>1, <1>3, <2>4, <2>6, <2>7
  <2>9. balance' >= 0
    BY <1>4 DEF DistributorTypeOK
  <2> QED
    BY <2>6, <2>8, <2>9 DEF PoolAccounted
<1> QED
  BY <1>4, <1>5, <1>6 DEF DistributorInv

LEMMA DistributorStep == DistributorInv /\ [Next]_vars => DistributorInv'
<1> SUFFICES ASSUME DistributorInv, [Next]_vars PROVE DistributorInv'
  OBVIOUS
<1>1. balance \in Nat /\ deposited \in Nat /\ withdrawn \in Nat /\ kept \in Nat
  BY DEF DistributorInv, DistributorTypeOK
<1>2. ASSUME NEW caller \in Address, NEW batch \in Batches,
             AddBeneficiaryTokens(caller, batch)
      PROVE  DistributorInv'
  BY <1>2, AddStep
<1>3. ASSUME NEW caller \in Address, NEW batch \in Batches,
             SubBeneficiaryTokens(caller, batch)
      PROVE  DistributorInv'
  BY <1>3, SubStep
<1>4. ASSUME UNCHANGED <<assignments, funds>> PROVE DistributorInv'
  BY <1>1, <1>4, SameAssignments DEF funds
<1>5. ASSUME NEW caller \in Address, NEW amount \in 0 .. MaxAmount, Withdraw(caller, amount)
      PROVE  DistributorInv'
  <2>1. /\ amount \in Nat /\ amount <= balance /\ balance' = balance - amount
        /\ withdrawn' = withdrawn + amount
        /\ UNCHANGED <<assignments, deposited, kept>>
    BY <1>5, DistributorBoundsAssumption DEF Withdraw
  <2> QED
    BY <1>1, <2>1, SameAssignments
<1>6. ASSUME NEW caller \in Address, NEW to, ClaimTo(caller, to)
      PROVE  DistributorInv'
  BY <1>6, ClaimStep
<1>7. ASSUME NEW amount \in 0 .. MaxAmount, Deposit(amount)
      PROVE  DistributorInv'
  <2>1. /\ amount \in Nat /\ balance' = balance + amount
        /\ deposited' = deposited + amount
        /\ UNCHANGED <<assignments, withdrawn, kept>>
    BY <1>7, DistributorBoundsAssumption DEF Deposit
  <2> QED
    BY <1>1, <2>1, SameAssignments
<1>8. CASE UNCHANGED vars
  BY <1>4, <1>8 DEF vars
<1>9. CASE Next
  <2>1. ASSUME NEW caller \in Address, NEW newLocked, SetLocked(caller, newLocked)
        PROVE  DistributorInv'
    BY <1>4, <2>1 DEF SetLocked
  <2>2. ASSUME NEW caller \in Address, ChangeOwner(caller)
        PROVE  DistributorInv'
    BY <1>4, <2>2 DEF ChangeOwner
  <2> QED
    BY <1>2, <1>3, <1>5, <1>6, <1>7, <1>9, <2>1, <2>2 DEF Next
<1> QED
  BY <1>8, <1>9

(* The invariant holds for any accounts, amounts and arrays. *)
LEMMA DistributorInvariant == Spec => []DistributorInv
BY DistributorInvInitially, DistributorStep, PTL DEF Spec

(* GraphTokenDistributor.sol: an amount assigned to an account is claimed  *)
(* once, taken back once, or still to be claimed, also when the arrays of  *)
(* the Multi calls name the account more than once.                        *)
THEOREM AssignedSafety == Spec => []AssignedOnce
<1>1. DistributorInv => AssignedOnce
  BY DEF DistributorInv
<1> QED
  BY <1>1, DistributorInvariant, PTL

(* No token leaves twice: what claims and withdrawals have taken from the  *)
(* balance, and what is left there, is what was deposited.                 *)
THEOREM PoolSafety == Spec => []PoolAccounted
<1>1. DistributorInv => PoolAccounted
  BY DEF DistributorInv
<1> QED
  BY <1>1, DistributorInvariant, PTL
=============================================================================
