--------------------------- MODULE FindingsProofs ---------------------------
(***************************************************************************)
(* What holds of every finding, for any machines, rows, readings and       *)
(* figures the columns allow: the capacity is the most that can be made,   *)
(* the cause is the larger one, the account of a shortfall balances, worse *)
(* readings never help, the composed answer passes the check.              *)
(*                                                                         *)
(* The engines' sums, sorts and maxima range over sets of any size.  What  *)
(* is claimed of all of them is proved by way of a smallest set for which  *)
(* it would fail: taking an element out leaves a set for which it holds.   *)
(***************************************************************************)
EXTENDS Findings, FiniteSetTheorems, TLAPS

(***************************************************************************)
(* Finite sets and sums over them.  Every argument by induction takes a    *)
(* smallest set for which the claim fails.                                 *)
(***************************************************************************)

\* A set of subsets of a finite set has a smallest member, one that contains no
\* other.
LEMMA Smallest ==
    ASSUME NEW S, IsFiniteSet(S), NEW Bad \in SUBSET (SUBSET S), Bad # {}
    PROVE  \E T \in Bad : \A U \in Bad : U \subseteq T => U = T
<1>1. IsWellFoundedOn(StrictSubsetOrdering(S), SUBSET S)
  BY FS_StrictSubsetOrderingWellFounded, FS_FiniteSubsetsOfFinite
<1>2. \E T \in Bad : \A U \in Bad : ~(<< U, T >> \in StrictSubsetOrdering(S))
  <2> DEFINE R == StrictSubsetOrdering(S)
             D == SUBSET S
  <2>1. IsWellFoundedOn(R, D) /\ Bad \subseteq D
    BY <1>1
  <2> HIDE DEF R, D
  <2>2. \E T \in Bad : \A U \in Bad : ~(<< U, T >> \in R)
    BY <2>1, WFMin
  <2> QED BY <2>2 DEF R
<1> QED BY <1>2 DEF StrictSubsetOrdering

AnElement(s) == CHOOSE x \in s : TRUE

\* h is the running sum of g over the subsets of S.
IsSum(h, S, g) ==
    h = [s \in SUBSET S |-> IF s = {} THEN 0
                            ELSE g[AnElement(s)] + h[s \ {AnElement(s)}]]

\* There is one running sum.
LEMMA SumIsUnique ==
    ASSUME NEW S, IsFiniteSet(S), NEW T, NEW g, NEW h, NEW k,
           IsSum(h, S, g), IsSum(k, T, g)
    PROVE  \A s \in SUBSET S : s \subseteq T => h[s] = k[s]
<1> DEFINE Bad == { s \in SUBSET S : s \subseteq T /\ h[s] # k[s] }
<1> SUFFICES ASSUME Bad # {} PROVE FALSE
  OBVIOUS
<1>1. PICK t \in Bad : \A u \in Bad : u \subseteq t => u = t
  <2>1. Bad \in SUBSET (SUBSET S)
    OBVIOUS
  <2> HIDE DEF Bad
  <2> QED BY <2>1, Smallest
<1>2. t # {}
  BY DEF IsSum
<1> DEFINE rest == t \ {AnElement(t)}
<1>3. rest \in SUBSET S /\ rest \subseteq T /\ rest # t
  BY <1>2 DEF AnElement
<1>4. h[rest] = k[rest]
  BY <1>1, <1>3
<1>5. h[t] = g[AnElement(t)] + h[rest] /\ k[t] = g[AnElement(t)] + k[rest]
  BY <1>2 DEF IsSum
<1> QED BY <1>4, <1>5

\* And there is one for every finite set.
LEMMA SumExists ==
    ASSUME NEW S, IsFiniteSet(S), NEW g
    PROVE  \E h : IsSum(h, S, g)
<1> DEFINE Bad == { T \in SUBSET S : ~\E h : IsSum(h, T, g) }
<1> SUFFICES ASSUME Bad # {} PROVE FALSE
  OBVIOUS
<1>1. PICK T \in Bad : \A U \in Bad : U \subseteq T => U = T
  <2>1. Bad \in SUBSET (SUBSET S)
    OBVIOUS
  <2> HIDE DEF Bad
  <2> QED BY <2>1, Smallest
<1> DEFINE Sum(U) == CHOOSE h : IsSum(h, U, g)
           e == AnElement(T)
           h == [s \in SUBSET T |-> IF s = {} THEN 0
                                    ELSE IF s = T THEN g[e] + Sum(T \ {e})[T \ {e}]
                                    ELSE Sum(s)[s]]
<1>2. \A U \in SUBSET T : U # T => IsFiniteSet(U) /\ IsSum(Sum(U), U, g)
  BY <1>1, FS_Subset
<1>3. ASSUME NEW U \in SUBSET T, U # T PROVE h[U] = Sum(U)[U]
  <2>1. IsSum(Sum(U), U, g)
    BY <1>2, <1>3
  <2> HIDE DEF Sum
  <2>2. U = {} => Sum(U)[U] = 0
    BY <2>1 DEF IsSum
  <2> QED BY <1>3, <2>2
<1>4. ASSUME NEW s \in SUBSET T, s # {}
      PROVE  h[s] = g[AnElement(s)] + h[s \ {AnElement(s)}]
  <2> DEFINE rest == s \ {AnElement(s)}
  <2>1. AnElement(s) \in s /\ rest \in SUBSET T /\ rest # T /\ rest # s
    BY <1>4 DEF AnElement
  <2>2. h[rest] = Sum(rest)[rest]
    BY <2>1, <1>3
  <2>3. CASE s = T
    BY <1>4, <2>2, <2>3
  <2>4. CASE s # T
    <3>1. h[s] = Sum(s)[s]
      BY <1>3, <2>4
    <3>2. Sum(s)[s] = g[AnElement(s)] + Sum(s)[rest]
      <4>1. IsSum(Sum(s), s, g)
        BY <1>2, <2>4
      <4> HIDE DEF Sum
      <4> QED BY <1>4, <4>1 DEF IsSum
    <3>3. Sum(s)[rest] = Sum(rest)[rest]
      BY <1>2, <2>1, <2>4, SumIsUnique
    <3> QED BY <2>2, <3>1, <3>2, <3>3
  <2> QED BY <2>3, <2>4
<1>5. IsSum(h, T, g)
  <2>1. h = [s \in SUBSET T |-> h[s]] /\ h[{}] = 0
    OBVIOUS
  <2> HIDE DEF h
  <2> QED BY <1>4, <2>1 DEF IsSum
<1> QED BY <1>1, <1>5

\* The sum over S is what a running sum comes to.
LEMMA SumOverIsSum ==
    ASSUME NEW S, IsFiniteSet(S), NEW g
    PROVE  \E h : IsSum(h, S, g) /\ SumOver(S, g) = h[S]
<1>1. SumOver(S, g) =
        (CHOOSE h : h = [s \in SUBSET S |->
            IF s = {} THEN 0 ELSE g[CHOOSE x \in s : TRUE] + h[s \ {CHOOSE x \in s : TRUE}]])[S]
  BY DEF SumOver, MapThenSumSet, MapThenFoldSet
<1>2. \E h : h = [s \in SUBSET S |->
            IF s = {} THEN 0 ELSE g[CHOOSE x \in s : TRUE] + h[s \ {CHOOSE x \in s : TRUE}]]
  <2>1. PICK h : IsSum(h, S, g)
    BY SumExists
  <2> QED BY <2>1 DEF IsSum, AnElement
<1> QED BY <1>1, <1>2 DEF IsSum, AnElement

\* The sum over no elements is nothing.
LEMMA SumOfNone == ASSUME NEW g PROVE SumOver({}, g) = 0
<1>1. IsFiniteSet({})
  BY FS_EmptySet
<1>2. PICK h : IsSum(h, {}, g) /\ SumOver({}, g) = h[{}]
  BY <1>1, SumOverIsSum
<1> QED BY <1>2 DEF IsSum

\* Any subset of a sum's terms has the sum the function says.
LEMMA SumOfPart ==
    ASSUME NEW S, IsFiniteSet(S), NEW g, NEW h, IsSum(h, S, g), NEW T \in SUBSET S
    PROVE  SumOver(T, g) = h[T]
<1>1. IsFiniteSet(T)
  BY FS_Subset
<1>2. PICK k : IsSum(k, T, g) /\ SumOver(T, g) = k[T]
  BY <1>1, SumOverIsSum
<1> QED BY <1>1, <1>2, SumIsUnique

\* A sum of integers is one.
LEMMA SumIsInt ==
    ASSUME NEW S, IsFiniteSet(S), NEW g, \A x \in S : g[x] \in Int
    PROVE  SumOver(S, g) \in Int
<1>1. PICK h : IsSum(h, S, g)
  BY SumExists
<1> DEFINE Bad == { T \in SUBSET S : h[T] \notin Int }
<1> SUFFICES ASSUME Bad # {} PROVE FALSE
  BY <1>1, SumOfPart
<1>2. PICK T \in Bad : \A U \in Bad : U \subseteq T => U = T
  <2>1. Bad \in SUBSET (SUBSET S)
    OBVIOUS
  <2> HIDE DEF Bad
  <2> QED BY <2>1, Smallest
<1>3. T # {}
  BY <1>1 DEF IsSum
<1> DEFINE rest == T \ {AnElement(T)}
<1>4. AnElement(T) \in T /\ rest \in SUBSET S /\ rest # T /\ rest \subseteq T
  BY <1>3 DEF AnElement
<1>5. h[rest] \in Int
  BY <1>2, <1>4
<1>6. h[T] = g[AnElement(T)] + h[rest]
  BY <1>1, <1>3 DEF IsSum
<1>7. g[AnElement(T)] \in Int
  BY <1>4
<1> QED BY <1>5, <1>6, <1>7

\* Any element may be taken out of a sum first.
LEMMA SumPeels ==
    ASSUME NEW S, IsFiniteSet(S), NEW g, \A x \in S : g[x] \in Int, NEW x \in S
    PROVE  SumOver(S, g) = g[x] + SumOver(S \ {x}, g)
<1>1. PICK h : IsSum(h, S, g)
  BY SumExists
<1>2. \A T \in SUBSET S : h[T] \in Int /\ SumOver(T, g) = h[T]
  BY <1>1, SumOfPart, SumIsInt, FS_Subset
<1> DEFINE Bad == { T \in SUBSET S : \E y \in T : h[T] # g[y] + h[T \ {y}] }
<1> SUFFICES ASSUME Bad # {} PROVE FALSE
  <2> SUFFICES ASSUME Bad = {} PROVE SumOver(S, g) = g[x] + SumOver(S \ {x}, g)
    OBVIOUS
  <2>1. h[S] = g[x] + h[S \ {x}]
    <3>1. S \in SUBSET S /\ S \notin Bad
      OBVIOUS
    <3> QED BY <3>1
  <2> HIDE DEF Bad
  <2>2. SumOver(S, g) = h[S] /\ SumOver(S \ {x}, g) = h[S \ {x}]
    BY <1>2
  <2> QED BY <2>1, <2>2
<1>3. PICK T \in Bad : \A U \in Bad : U \subseteq T => U = T
  <2>1. Bad \in SUBSET (SUBSET S)
    OBVIOUS
  <2> HIDE DEF Bad
  <2> QED BY <2>1, Smallest
<1>4. PICK y \in T : h[T] # g[y] + h[T \ {y}]
  BY <1>3
<1> DEFINE e == AnElement(T)
<1>5. e \in T /\ h[T] = g[e] + h[T \ {e}]
  BY <1>1, <1>4 DEF IsSum, AnElement
<1>6. e # y
  BY <1>4, <1>5
<1>7. h[T \ {e}] = g[y] + h[(T \ {e}) \ {y}]
  BY <1>3, <1>4, <1>5, <1>6
<1>8. h[T \ {y}] = g[e] + h[(T \ {y}) \ {e}]
  BY <1>3, <1>4, <1>5, <1>6
<1>9. (T \ {e}) \ {y} = (T \ {y}) \ {e}
  OBVIOUS
<1>10. g[e] \in Int /\ g[y] \in Int /\ h[(T \ {y}) \ {e}] \in Int
  BY <1>2, <1>4, <1>5
<1>11. h[T] = g[e] + (g[y] + h[(T \ {y}) \ {e}]) /\ h[T] # g[y] + (g[e] + h[(T \ {y}) \ {e}])
  BY <1>4, <1>5, <1>7, <1>8, <1>9
<1> HIDE DEF e
<1> QED BY <1>10, <1>11

\* Sums keep the order of their terms.
LEMMA SumGrows ==
    ASSUME NEW S, IsFiniteSet(S), NEW f, NEW g,
           \A x \in S : f[x] \in Int /\ g[x] \in Int /\ f[x] <= g[x]
    PROVE  SumOver(S, f) <= SumOver(S, g)
<1> DEFINE Bad == { T \in SUBSET S : ~(SumOver(T, f) <= SumOver(T, g)) }
<1> SUFFICES ASSUME Bad # {} PROVE FALSE
  OBVIOUS
<1>1. PICK T \in Bad : \A U \in Bad : U \subseteq T => U = T
  <2>1. Bad \in SUBSET (SUBSET S)
    OBVIOUS
  <2> HIDE DEF Bad
  <2> QED BY <2>1, Smallest
<1>2. T # {}
  BY SumOfNone
<1>3. PICK x \in T : TRUE
  BY <1>2
<1>4. IsFiniteSet(T) /\ IsFiniteSet(T \ {x})
  BY FS_Subset
<1>5. SumOver(T \ {x}, f) <= SumOver(T \ {x}, g)
  BY <1>1
<1>6. /\ SumOver(T, f) = f[x] + SumOver(T \ {x}, f)
      /\ SumOver(T, g) = g[x] + SumOver(T \ {x}, g)
  BY <1>4, SumPeels
<1>7. SumOver(T \ {x}, f) \in Int /\ SumOver(T \ {x}, g) \in Int
  BY <1>4, SumIsInt
<1>8. f[x] \in Int /\ g[x] \in Int /\ f[x] <= g[x]
  OBVIOUS
<1>9. SumOver(T, f) <= SumOver(T, g)
  BY <1>5, <1>6, <1>7, <1>8
<1> QED BY <1>9

\* What grows by one at most at each element grows by their number at most.
LEMMA SumGrowsByOnes ==
    ASSUME NEW S, IsFiniteSet(S), NEW f, NEW g,
           \A x \in S : f[x] \in Int /\ g[x] \in Int /\ f[x] <= g[x] + 1
    PROVE  SumOver(S, f) <= SumOver(S, g) + Cardinality(S)
<1> DEFINE Bad == { T \in SUBSET S : ~(SumOver(T, f) <= SumOver(T, g) + Cardinality(T)) }
<1> SUFFICES ASSUME Bad # {} PROVE FALSE
  OBVIOUS
<1>1. PICK T \in Bad : \A U \in Bad : U \subseteq T => U = T
  <2>1. Bad \in SUBSET (SUBSET S)
    OBVIOUS
  <2> HIDE DEF Bad
  <2> QED BY <2>1, Smallest
<1>2. T # {}
  <2>1. SumOver({}, f) = 0 /\ SumOver({}, g) = 0 /\ Cardinality({}) = 0
    BY SumOfNone, FS_EmptySet
  <2>2. SumOver({}, f) <= SumOver({}, g) + Cardinality({})
    BY <2>1
  <2> QED BY <2>2
<1>3. PICK x \in T : TRUE
  BY <1>2
<1> DEFINE rest == T \ {x}
<1>4. IsFiniteSet(T) /\ IsFiniteSet(rest)
  BY FS_Subset
<1>5. SumOver(rest, f) <= SumOver(rest, g) + Cardinality(rest)
  BY <1>1
<1>6. /\ SumOver(T, f) = f[x] + SumOver(rest, f)
      /\ SumOver(T, g) = g[x] + SumOver(rest, g)
  BY <1>4, SumPeels
<1>7. SumOver(rest, f) \in Int /\ SumOver(rest, g) \in Int
  BY <1>4, SumIsInt
<1>8. Cardinality(rest) \in Int /\ Cardinality(T) = Cardinality(rest) + 1
  <2>1. Cardinality(rest) = Cardinality(T) - 1
    BY <1>4, FS_RemoveElement
  <2>2. Cardinality(T) \in Nat
    BY <1>4, FS_CardinalityType
  <2> QED BY <2>1, <2>2
<1>9. f[x] \in Int /\ g[x] \in Int /\ f[x] <= g[x] + 1
  OBVIOUS
<1> HIDE DEF rest
<1>10. SumOver(T, f) <= SumOver(T, g) + Cardinality(T)
  BY <1>5, <1>6, <1>7, <1>8, <1>9
<1> QED BY <1>10

\* A sum is of the values at its elements and of nothing else.
LEMMA SumSame ==
    ASSUME NEW S, IsFiniteSet(S), NEW f, NEW g,
           \A x \in S : f[x] \in Int /\ f[x] = g[x]
    PROVE  SumOver(S, f) = SumOver(S, g)
<1>1. SumOver(S, f) <= SumOver(S, g) /\ SumOver(S, g) <= SumOver(S, f)
  BY SumGrows
<1>2. SumOver(S, f) \in Int /\ SumOver(S, g) \in Int
  BY SumIsInt
<1> QED BY <1>1, <1>2

\* Of natural numbers, a sum is one, and none of them is larger.
LEMMA SumOfNats ==
    ASSUME NEW S, IsFiniteSet(S), NEW f, \A x \in S : f[x] \in Nat
    PROVE  SumOver(S, f) \in Nat /\ \A x \in S : f[x] <= SumOver(S, f)
<1> DEFINE Bad == { T \in SUBSET S : ~(SumOver(T, f) >= 0) }
<1>1. \A T \in SUBSET S : SumOver(T, f) >= 0
  <2> SUFFICES ASSUME Bad # {} PROVE FALSE
    OBVIOUS
  <2>1. PICK T \in Bad : \A U \in Bad : U \subseteq T => U = T
    <3>1. Bad \in SUBSET (SUBSET S)
      OBVIOUS
    <3> HIDE DEF Bad
    <3> QED BY <3>1, Smallest
  <2>2. PICK x \in T : TRUE
    BY SumOfNone
  <2>3. IsFiniteSet(T) /\ IsFiniteSet(T \ {x})
    BY FS_Subset
  <2>4. SumOver(T \ {x}, f) >= 0 /\ SumOver(T \ {x}, f) \in Int
    BY <2>1, <2>3, SumIsInt
  <2>5. SumOver(T, f) = f[x] + SumOver(T \ {x}, f)
    BY <2>3, SumPeels
  <2>6. f[x] \in Nat
    OBVIOUS
  <2>7. SumOver(T, f) >= 0
    BY <2>4, <2>5, <2>6
  <2> QED BY <2>7
<1>2. SumOver(S, f) \in Nat
  BY <1>1, SumIsInt
<1>3. ASSUME NEW x \in S PROVE f[x] <= SumOver(S, f)
  <2>1. SumOver(S, f) = f[x] + SumOver(S \ {x}, f)
    BY SumPeels
  <2>2. SumOver(S \ {x}, f) >= 0 /\ SumOver(S \ {x}, f) \in Int
    BY <1>1, SumIsInt, FS_Subset
  <2>3. f[x] \in Nat
    OBVIOUS
  <2> QED BY <2>1, <2>2, <2>3
<1> QED BY <1>2, <1>3

\* Any total up to the sum of what each can take can be shared out among them.
LEMMA SharesOut ==
    ASSUME NEW S, IsFiniteSet(S), NEW g, \A x \in S : g[x] \in Nat,
           NEW n \in Nat, n <= SumOver(S, g)
    PROVE  \E share \in [S -> Nat] : /\ \A x \in S : share[x] <= g[x]
                                     /\ SumOver(S, share) = n
<1> DEFINE Shared(T, k) == \E share \in [T -> Nat] :
                              /\ \A x \in T : share[x] <= g[x]
                              /\ SumOver(T, share) = k
           Bad == { T \in SUBSET S : \E k \in Nat : k <= SumOver(T, g) /\ ~Shared(T, k) }
<1> SUFFICES ASSUME Bad # {} PROVE FALSE
  OBVIOUS
<1>1. PICK T \in Bad : \A U \in Bad : U \subseteq T => U = T
  <2>1. Bad \in SUBSET (SUBSET S)
    OBVIOUS
  <2> HIDE DEF Bad
  <2> QED BY <2>1, Smallest
<1>2. PICK k \in Nat : k <= SumOver(T, g) /\ ~Shared(T, k)
  OBVIOUS
<1>3. T # {}
  <2> SUFFICES ASSUME T = {} PROVE FALSE
    OBVIOUS
  <2>1. k = 0
    BY <1>2, SumOfNone
  <2>2. [y \in {} |-> 0] \in [T -> Nat] /\ SumOver(T, [y \in {} |-> 0]) = 0
    BY SumOfNone
  <2> QED BY <1>2, <2>1, <2>2
<1>4. PICK x \in T : TRUE
  BY <1>3
<1> DEFINE rest == T \ {x}
<1>5. IsFiniteSet(T) /\ IsFiniteSet(rest)
  BY FS_Subset
<1>6. /\ SumOver(T, g) = g[x] + SumOver(rest, g)
      /\ g[x] \in Nat /\ SumOver(rest, g) \in Nat
  BY <1>5, SumPeels, SumOfNats
<1> DEFINE own == IF k <= SumOver(rest, g) THEN 0 ELSE k - SumOver(rest, g)
<1>7. own \in Nat /\ own <= g[x] /\ k - own \in Nat /\ k - own <= SumOver(rest, g)
  BY <1>2, <1>6
<1> HIDE DEF own
<1>8. Shared(rest, k - own)
  BY <1>1, <1>7
<1>9. PICK part \in [rest -> Nat] : /\ \A y \in rest : part[y] <= g[y]
                                    /\ SumOver(rest, part) = k - own
  BY <1>8
<1> DEFINE share == [y \in T |-> IF y = x THEN own ELSE part[y]]
<1>10. share \in [T -> Nat] /\ \A y \in T : share[y] <= g[y]
  BY <1>7, <1>9
<1>11. SumOver(T, share) = share[x] + SumOver(rest, share)
  BY <1>5, <1>10, SumPeels
<1>12. SumOver(rest, share) = SumOver(rest, part)
  <2>1. \A y \in rest : part[y] \in Int /\ part[y] = share[y]
    BY <1>9
  <2> HIDE DEF share
  <2> QED BY <1>5, <2>1, SumSame
<1>13. SumOver(T, share) = k
  BY <1>7, <1>9, <1>11, <1>12
<1> QED BY <1>2, <1>10, <1>13

-----------------------------------------------------------------------------
(***************************************************************************)
(* The capacity.                                                           *)
(***************************************************************************)

\* The machines of a question are some of those of the MES.
LEMMA MachinesAreFew ==
    ASSUME NEW S, S \subseteq Machine
    PROVE  IsFiniteSet(S) /\ S \subseteq Nat
  BY MachineAssumption, FS_Subset

\* Quotient and remainder.
LEMMA DivMod ==
    ASSUME NEW a \in Nat, NEW b \in Nat \ {0}
    PROVE  /\ a \div b \in Nat /\ a % b \in 0..(b - 1)
           /\ a = b * (a \div b) + (a % b)
  OBVIOUS

\* What a floor promises: n times b fit into a exactly when n is at most a \div b.
LEMMA Quotient ==
    ASSUME NEW a \in Nat, NEW b \in Nat \ {0}, NEW n \in Nat
    PROVE  n * b <= a <=> n <= a \div b
<1> DEFINE q == a \div b
           r == a % b
<1>0. q \in Nat /\ r \in 0..(b - 1) /\ a = b * q + r
  BY DivMod
<1> HIDE DEF q, r
<1>1. q \in Nat /\ r \in 0..(b - 1) /\ a = q * b + r
  BY <1>0
<1>2. CASE n <= q
  <2>1. n * b <= q * b
    BY <1>1, <1>2
  <2> QED BY <1>1, <1>2, <2>1
<1>3. CASE n >= q + 1
  <2>1. n * b >= (q + 1) * b /\ (q + 1) * b = q * b + b
    BY <1>1, <1>3
  <2>2. q * b \in Nat /\ n * b \in Nat
    BY <1>1
  <2> QED BY <1>1, <1>3, <2>1, <2>2
<1> QED BY <1>1, <1>2, <1>3 DEF q

\* What each machine can make, as a function.
Shares(rows, cycle) == [m \in DOMAIN rows |-> PartsPossible(rows[m], cycle)]

\* The capacity of the machines is the sum of their shares.
LEMMA CapacityIsASum ==
    ASSUME NEW rows, NEW cycle, IsFiniteSet(DOMAIN rows)
    PROVE  MachineCapacity(rows, cycle) = SumOver(Eligible(rows), Shares(rows, cycle))
<1> DEFINE E == Eligible(rows)
           g == Shares(rows, cycle)
           Running(h) == [s \in SUBSET E |->
               IF s = {} THEN 0
               ELSE PartsPossible(rows[CHOOSE x \in s : TRUE], cycle)
                      + h[s \ {CHOOSE x \in s : TRUE}]]
<1>1. MachineCapacity(rows, cycle) = (CHOOSE h : h = Running(h))[E]
  BY DEF MachineCapacity, MapThenSumSet, MapThenFoldSet
<1>2. ASSUME NEW h PROVE h = Running(h) <=> IsSum(h, E, g)
  <2>1. \A s \in SUBSET E : s # {} =>
           g[AnElement(s)] = PartsPossible(rows[AnElement(s)], cycle)
    BY DEF Eligible, AnElement, Shares
  <2> HIDE DEF E, g
  <2>2. Running(h) = [s \in SUBSET E |-> IF s = {} THEN 0
                        ELSE g[AnElement(s)] + h[s \ {AnElement(s)}]]
    BY <2>1 DEF AnElement
  <2> HIDE DEF Running
  <2> QED BY <2>2 DEF IsSum
<1>3. IsFiniteSet(E)
  BY FS_Subset DEF Eligible
<1> HIDE DEF E, g, Running
<1>4. \E h : h = Running(h)
  BY <1>2, <1>3, SumExists
<1>5. PICK k : k = Running(k) /\ MachineCapacity(rows, cycle) = k[E]
  BY <1>1, <1>4
<1>6. SumOver(E, g) = k[E]
  BY <1>2, <1>3, <1>5, SumOfPart
<1> QED BY <1>5, <1>6 DEF E, g

\* Hours are not negative.
LEMMA WholeIsNat ==
    ASSUME NEW row, row.planned \in Nat, row.maintenance \in Nat
    PROVE  Whole(row) \in Nat
  BY DEF Whole

\* Each machine makes what its time allows and not one more.
LEMMA SharesFit ==
    ASSUME NEW f, CapacityFacts(f), ExactHours(f.rows), NEW m \in Eligible(f.rows)
    PROVE  /\ Shares(f.rows, f.cycle)[m] \in Nat
           /\ \A n \in Nat : n * f.cycle <= Whole(f.rows[m]) * 60
                               <=> n <= Shares(f.rows, f.cycle)[m]
<1> DEFINE row == f.rows[m]
           time == Whole(row) * 60
<1>1. m \in DOMAIN f.rows /\ row.eligible /\ Off(row) = 0
  BY DEF Eligible, ExactHours
<1>2. row.planned \in Nat /\ row.maintenance \in Nat /\ f.cycle \in Nat \ {0}
  BY <1>1 DEF CapacityFacts
<1>3. time \in Nat
  BY <1>2, WholeIsNat
<1>4. Shares(f.rows, f.cycle)[m] = time \div f.cycle
  BY <1>1 DEF Shares, PartsPossible
<1> HIDE DEF time
<1>5. time \div f.cycle \in Nat /\ \A n \in Nat : n * f.cycle <= time <=> n <= time \div f.cycle
  BY <1>2, <1>3, DivMod, Quotient
<1> QED BY <1>4, <1>5 DEF time

\* The smaller of two figures is one of them and above neither.
LEMMA SmallerOfTwo ==
    ASSUME NEW a \in Int, NEW b \in Int
    PROVE  Min({a, b}) = IF a <= b THEN a ELSE b
<1>1. CASE a <= b
  <2>1. \A x \in {a, b} : (\A y \in {a, b} : x <= y) <=> x = a
    BY <1>1
  <2> QED BY <1>1, <2>1 DEF Min
<1>2. CASE ~(a <= b)
  <2>1. \A x \in {a, b} : (\A y \in {a, b} : x <= y) <=> x = b
    BY <1>2
  <2> QED BY <1>2, <2>1 DEF Min
<1> QED BY <1>1, <1>2

\* The minimum of the sum of floors and the floor of the stock can be made, and not
\* one part more.
LEMMA TheFigureIsTheMost ==
    ASSUME NEW f, CapacityFacts(f), ExactHours(f.rows)
    PROVE  TheMost(f, Min({MachineCapacity(f.rows, f.cycle), MaterialCapacity(f.stock, f.qty)}))
<1> DEFINE E == Eligible(f.rows)
           g == Shares(f.rows, f.cycle)
           machine == MachineCapacity(f.rows, f.cycle)
           material == MaterialCapacity(f.stock, f.qty)
           n == Min({machine, material})
<1>1. IsFiniteSet(E)
  BY MachinesAreFew, FS_Subset DEF CapacityFacts, Eligible
<1>2. \A m \in E : g[m] \in Nat
  BY SharesFit
<1>3. \A m \in E : \A k \in Nat : k * f.cycle <= Whole(f.rows[m]) * 60 <=> k <= g[m]
  BY SharesFit
<1>4. machine = SumOver(E, g)
  BY MachinesAreFew, CapacityIsASum DEF CapacityFacts
<1>5. f.qty \in Nat \ {0} /\ f.stock \in Nat
  BY DEF CapacityFacts
<1>6. /\ material \in Nat
      /\ \A k \in Nat : k * f.qty <= f.stock <=> k <= material
  BY <1>5, DivMod, Quotient DEF MaterialCapacity
<1> HIDE DEF E, g, machine, material
<1>7. machine \in Nat
  BY <1>1, <1>2, <1>4, SumOfNats
<1>8. n = IF machine <= material THEN machine ELSE material
  BY <1>6, <1>7, SmallerOfTwo
<1> HIDE DEF n
<1>9. n \in Nat /\ n <= machine /\ n <= material /\ (n = machine \/ n = material)
  BY <1>6, <1>7, <1>8
<1>10. Makeable(f.rows, f.cycle, f.qty, f.stock, n)
  <2>1. n * f.qty <= f.stock
    BY <1>6, <1>9
  <2>2. PICK share \in [E -> Nat] : (\A m \in E : share[m] <= g[m]) /\ SumOver(E, share) = n
    BY <1>1, <1>2, <1>4, <1>9, SharesOut
  <2>3. \A m \in E : share[m] * f.cycle <= Whole(f.rows[m]) * 60
    BY <1>3, <2>2
  <2>4. \A m \in E : share[m] \in Nat /\ share[m] <= n
    BY <1>1, <2>2, SumOfNats
  <2>5. share \in [E -> 0..n]
    BY <1>9, <2>2, <2>4
  <2> QED BY <2>1, <2>2, <2>3, <2>5 DEF Makeable, E
<1>11. ~Makeable(f.rows, f.cycle, f.qty, f.stock, n + 1)
  <2> SUFFICES ASSUME Makeable(f.rows, f.cycle, f.qty, f.stock, n + 1) PROVE FALSE
    OBVIOUS
  <2>1. (n + 1) * f.qty <= f.stock
    BY DEF Makeable
  <2>2. n + 1 <= material
    BY <1>6, <1>9, <2>1
  <2>3. PICK share \in [E -> 0..(n + 1)] :
           /\ \A m \in E : share[m] * f.cycle <= Whole(f.rows[m]) * 60
           /\ SumOver(E, share) = n + 1
    BY DEF Makeable, E
  <2>4. \A m \in E : share[m] \in Int /\ g[m] \in Int /\ share[m] <= g[m]
    BY <1>2, <1>3, <1>9, <2>3
  <2>5. SumOver(E, share) <= SumOver(E, g)
    BY <1>1, <2>4, SumGrows
  <2> QED BY <1>4, <1>6, <1>7, <1>9, <2>2, <2>3, <2>5
<1> QED BY <1>10, <1>11 DEF TheMost, n, machine, material

\* Wherever the double of its hours lies, a machine has the time for the parts it is
\* said to make, and for one more at most.
LEMMA SharesNearlyFit ==
    ASSUME NEW f, CapacityFacts(f), NEW m \in Eligible(f.rows)
    PROVE  /\ Shares(f.rows, f.cycle)[m] \in Nat
           /\ \A n \in Nat : n <= Shares(f.rows, f.cycle)[m]
                               => n * f.cycle <= Whole(f.rows[m]) * 60
           /\ \A n \in Nat : n * f.cycle <= Whole(f.rows[m]) * 60
                               => n <= Shares(f.rows, f.cycle)[m] + 1
<1> DEFINE row == f.rows[m]
           time == Whole(row) * 60
           c == f.cycle
           share == Shares(f.rows, c)[m]
<1>1. m \in DOMAIN f.rows /\ row.eligible
  BY DEF Eligible
<1>2. row.planned \in Nat /\ row.maintenance \in Nat /\ c \in Nat \ {0}
  BY <1>1 DEF CapacityFacts
<1>3. time \in Nat
  BY <1>2, WholeIsNat
<1>4. CASE Off(row) # -1
  <2>1. share = time \div c
    BY <1>1, <1>4 DEF Shares, PartsPossible
  <2> HIDE DEF time, c, share
  <2>2. time \div c \in Nat /\ \A n \in Nat : n * c <= time <=> n <= time \div c
    BY <1>2, <1>3, DivMod, Quotient
  <2>3. share \in Nat /\ (\A n \in Nat : n <= share => n * c <= time)
                      /\ (\A n \in Nat : n * c <= time => n <= share + 1)
    BY <2>1, <2>2
  <2> QED BY <2>3 DEF time, c, share
<1>5. CASE Off(row) = -1
  <2>1. share = (time - 1) \div c
    BY <1>1, <1>5 DEF Shares, PartsPossible
  <2>2. time - 1 \in Nat
    <3>1. row.planned > row.maintenance /\ Whole(row) = row.planned - row.maintenance
      BY <1>5 DEF Off, Whole
    <3> QED BY <1>2, <3>1
  <2> HIDE DEF time, c, share
  <2>3. /\ (time - 1) \div c \in Nat
        /\ \A n \in Nat : n * c <= time - 1 <=> n <= (time - 1) \div c
    BY <1>2, <2>2, DivMod, Quotient
  <2>4. ASSUME NEW n \in Nat, n * c <= time PROVE n <= share + 1
    <3>1. CASE n = 0
      BY <2>1, <2>3, <3>1
    <3>2. CASE n > 0
      <4>1. n - 1 \in Nat /\ (n - 1) * c = n * c - c /\ n * c \in Nat
        BY <1>2, <3>2
      <4>2. (n - 1) * c <= time - 1
        BY <1>2, <1>3, <2>4, <4>1
      <4>3. n - 1 <= share
        BY <2>1, <2>3, <4>1, <4>2
      <4> QED BY <2>1, <2>3, <4>3
    <3> QED BY <3>1, <3>2
  <2>5. ASSUME NEW n \in Nat, n <= share PROVE n * c <= time
    <3>1. n * c <= time - 1 /\ n * c \in Nat
      BY <1>2, <2>1, <2>3, <2>5
    <3> QED BY <1>3, <3>1
  <2>6. share \in Nat /\ (\A n \in Nat : n <= share => n * c <= time)
                      /\ (\A n \in Nat : n * c <= time => n <= share + 1)
    BY <2>1, <2>3, <2>4, <2>5
  <2> QED BY <2>6 DEF time, c, share
<1> QED BY <1>4, <1>5

\* The figure can be made, and it is short of what can be made by one part for each
\* eligible machine at most.
Attainable(f, figure) ==
    /\ Makeable(f.rows, f.cycle, f.qty, f.stock, figure)
    /\ \A n \in Nat : Makeable(f.rows, f.cycle, f.qty, f.stock, n) =>
                        n <= figure + Cardinality(Eligible(f.rows))

\* So it is of every capacity.
LEMMA TheFigureIsAttainable ==
    ASSUME NEW f, CapacityFacts(f)
    PROVE  Attainable(f, Min({MachineCapacity(f.rows, f.cycle), MaterialCapacity(f.stock, f.qty)}))
<1> DEFINE E == Eligible(f.rows)
           g == Shares(f.rows, f.cycle)
           machine == MachineCapacity(f.rows, f.cycle)
           material == MaterialCapacity(f.stock, f.qty)
           n == Min({machine, material})
<1>1. IsFiniteSet(E)
  BY MachinesAreFew, FS_Subset DEF CapacityFacts, Eligible
<1>2. \A m \in E : g[m] \in Nat
  BY SharesNearlyFit
<1>3. \A m \in E : \A k \in Nat : k <= g[m] => k * f.cycle <= Whole(f.rows[m]) * 60
  BY SharesNearlyFit
<1>4. \A m \in E : \A k \in Nat : k * f.cycle <= Whole(f.rows[m]) * 60 => k <= g[m] + 1
  BY SharesNearlyFit
<1>5. machine = SumOver(E, g)
  BY MachinesAreFew, CapacityIsASum DEF CapacityFacts
<1>6. /\ material \in Nat
      /\ \A k \in Nat : k * f.qty <= f.stock <=> k <= material
  <2>1. f.qty \in Nat \ {0} /\ f.stock \in Nat
    BY DEF CapacityFacts
  <2> QED BY <2>1, DivMod, Quotient DEF MaterialCapacity
<1>7. Cardinality(E) \in Nat
  BY <1>1, FS_CardinalityType
<1> HIDE DEF E, g, machine, material
<1>8. machine \in Nat
  BY <1>1, <1>2, <1>5, SumOfNats
<1>9. n = IF machine <= material THEN machine ELSE material
  BY <1>6, <1>8, SmallerOfTwo
<1> HIDE DEF n
<1>10. n \in Nat /\ n <= machine /\ n <= material /\ (n = machine \/ n = material)
  BY <1>6, <1>8, <1>9
<1>11. Makeable(f.rows, f.cycle, f.qty, f.stock, n)
  <2>1. n * f.qty <= f.stock
    BY <1>6, <1>10
  <2>2. PICK share \in [E -> Nat] : (\A m \in E : share[m] <= g[m]) /\ SumOver(E, share) = n
    BY <1>1, <1>2, <1>5, <1>10, SharesOut
  <2>3. \A m \in E : share[m] * f.cycle <= Whole(f.rows[m]) * 60
    BY <1>3, <2>2
  <2>4. \A m \in E : share[m] \in Nat /\ share[m] <= n
    BY <1>1, <2>2, SumOfNats
  <2>5. share \in [E -> 0..n]
    BY <1>10, <2>2, <2>4
  <2> QED BY <2>1, <2>2, <2>3, <2>5 DEF Makeable, E
<1>12. ASSUME NEW k \in Nat, Makeable(f.rows, f.cycle, f.qty, f.stock, k)
       PROVE  k <= n + Cardinality(E)
  <2>1. k <= material
    BY <1>6, <1>12 DEF Makeable
  <2>2. PICK share \in [E -> 0..k] :
           /\ \A m \in E : share[m] * f.cycle <= Whole(f.rows[m]) * 60
           /\ SumOver(E, share) = k
    BY <1>12 DEF Makeable, E
  <2>3. \A m \in E : share[m] \in Int /\ g[m] \in Int /\ share[m] <= g[m] + 1
    BY <1>2, <1>4, <2>2
  <2>4. SumOver(E, share) <= SumOver(E, g) + Cardinality(E)
    BY <1>1, <2>3, SumGrowsByOnes
  <2> QED BY <1>5, <1>6, <1>7, <1>8, <1>10, <2>1, <2>2, <2>4
<1> QED BY <1>11, <1>12 DEF Attainable, n, machine, material, E

-----------------------------------------------------------------------------
(***************************************************************************)
(* What limits it.                                                         *)
(***************************************************************************)

\* Of finitely many values one is the greatest.
LEMMA Biggest ==
    ASSUME NEW S, IsFiniteSet(S), S # {}, NEW g, \A x \in S : g[x] \in Int
    PROVE  \E x \in S : \A y \in S : g[y] <= g[x]
<1> DEFINE Tops(T, x) == \A y \in T : g[y] <= g[x]
           Bad == { T \in SUBSET S : T # {} /\ ~\E x \in T : Tops(T, x) }
<1> SUFFICES ASSUME Bad # {} PROVE FALSE
  OBVIOUS
<1>1. PICK T \in Bad : \A U \in Bad : U \subseteq T => U = T
  <2>1. Bad \in SUBSET (SUBSET S)
    OBVIOUS
  <2> HIDE DEF Bad
  <2> QED BY <2>1, Smallest
<1>2. PICK x \in T : TRUE
  OBVIOUS
<1>3. CASE T \ {x} = {}
  <2>1. Tops(T, x)
    BY <1>3
  <2> QED BY <2>1
<1>4. CASE T \ {x} # {}
  <2>0. T \ {x} \in SUBSET S /\ T \ {x} \notin Bad
    BY <1>1
  <2>1. PICK z \in T \ {x} : Tops(T \ {x}, z)
    BY <1>4, <2>0
  <2>2. Tops(T, x) \/ Tops(T, z)
    <3>1. g[x] \in Int /\ g[z] \in Int /\ \A y \in T : g[y] \in Int
      OBVIOUS
    <3> QED BY <2>1, <3>1
  <2> QED BY <2>2
<1> QED BY <1>3, <1>4

\* The maximum of finitely many values is one of them.
LEMMA LargestOf ==
    ASSUME NEW S, IsFiniteSet(S), S # {}, NEW g, \A x \in S : g[x] \in Int
    PROVE  Max({ g[x] : x \in S }) \in { g[x] : x \in S }
  BY Biggest DEF Max

\* A machine's shortfall against the best-staffed other is not negative.
LEMMA ShortfallIsNat ==
    ASSUME NEW f, CapacityFacts(f), NEW m \in Eligible(f.rows)
    PROVE  Shortfall(f.rows, m) \in Nat
<1> DEFINE rest == Eligible(f.rows) \ {m}
           g == [o \in DOMAIN f.rows |-> f.rows[o].planned]
           others == { f.rows[o].planned : o \in rest }
           best == IF others = {} THEN f.rows[m].planned ELSE Max(others)
<1>1. IsFiniteSet(rest)
  BY MachinesAreFew, FS_Subset DEF CapacityFacts, Eligible
<1>2. rest \subseteq DOMAIN f.rows /\ \A o \in DOMAIN f.rows : f.rows[o].planned \in Nat
  BY DEF Eligible, CapacityFacts
<1>3. others = { g[o] : o \in rest } /\ others \subseteq Nat
  BY <1>2
<1>4. others # {} => Max(others) \in others
  <2>1. rest # {} => Max({ g[o] : o \in rest }) \in { g[o] : o \in rest }
    <3>1. \A o \in rest : g[o] \in Int
      BY <1>2
    <3> HIDE DEF rest, g
    <3> QED BY <1>1, <3>1, LargestOf
  <2>2. others # {} => rest # {}
    OBVIOUS
  <2> QED BY <1>3, <2>1, <2>2
<1>5. best \in Nat
  BY <1>2, <1>3, <1>4 DEF Eligible
<1>6. Shortfall(f.rows, m) = IF best > f.rows[m].planned THEN best - f.rows[m].planned ELSE 0
  BY DEF Shortfall
<1>7. f.rows[m].planned \in Nat
  BY <1>2 DEF Eligible
<1> HIDE DEF best
<1> QED BY <1>5, <1>6, <1>7

\* Where the hours are exact, the fewest hours are the fewest whole units.
LEMMA FewestAreFewest ==
    ASSUME NEW f, CapacityFacts(f), ExactHours(f.rows)
    PROVE  FewestHours(f.rows) =
             { m \in Eligible(f.rows) :
                 \A o \in Eligible(f.rows) : Whole(f.rows[m]) <= Whole(f.rows[o]) }
<1>1. \A m \in Eligible(f.rows) : Whole(f.rows[m]) \in Nat /\ Hours(f.rows[m]) = 3 * Whole(f.rows[m])
  <2> SUFFICES ASSUME NEW m \in Eligible(f.rows)
               PROVE  Whole(f.rows[m]) \in Nat /\ Hours(f.rows[m]) = 3 * Whole(f.rows[m])
    OBVIOUS
  <2>1. m \in DOMAIN f.rows
    BY DEF Eligible
  <2>2. Whole(f.rows[m]) \in Nat /\ Off(f.rows[m]) = 0
    BY <2>1, WholeIsNat DEF CapacityFacts, ExactHours
  <2> QED BY <2>2 DEF Hours
<1> QED BY <1>1 DEF FewestHours

\* The reason that is named is none, the larger one, or the one listed first of two
\* that tie.
LEMMA Reasons ==
    ASSUME NEW p \in Nat, NEW s \in Nat, NEW t \in Nat
    PROVE  \/ (p = 0 \/ (s = 0 /\ t = 0)) /\ LargerReason(p, s, t) = None
           \/ p # 0 /\ t > s /\ LargerReason(p, s, t) = "maintenance"
           \/ p # 0 /\ t <= s /\ LargerReason(p, s, t) = "shift pattern"
<1>1. CASE p = 0 \/ (s = 0 /\ t = 0)
  BY <1>1 DEF LargerReason
<1>2. CASE ~(p = 0 \/ (s = 0 /\ t = 0)) /\ t > s
  BY <1>2 DEF LargerReason
<1>3. CASE ~(p = 0 \/ (s = 0 /\ t = 0)) /\ ~(t > s)
  <2>1. p # 0 /\ t <= s
    BY <1>3
  <2>2. LargerReason(p, s, t) = "shift pattern"
    BY <1>3 DEF LargerReason
  <2> QED BY <2>1, <2>2
<1> QED BY <1>1, <1>2, <1>3

\* The larger of two reasons is the one that gives more hours back.
LEMMA TheReasonIsTheLarger ==
    ASSUME NEW f, CapacityFacts(f), NEW m \in Eligible(f.rows)
    PROVE  LET served  == WithoutMaintenance(f.rows, m)
               staffed == WithFullShifts(f.rows, m)
               cause   == MainCause(f.rows, m)
           IN  /\ cause = "maintenance"   => served >= staffed
               /\ cause = "shift pattern" => staffed >= served
               /\ cause = None => \/ f.rows[m].planned = 0
                                  \/ served = Whole(f.rows[m]) /\ staffed = Whole(f.rows[m])
<1> DEFINE p == f.rows[m].planned
           t == f.rows[m].maintenance
           s == Shortfall(f.rows, m)
<1>1. m \in DOMAIN f.rows /\ p \in Nat /\ t \in Nat
  BY DEF Eligible, CapacityFacts
<1>2. s \in Nat
  BY ShortfallIsNat
<1>3. WithoutMaintenance(f.rows, m) = p /\ Whole(f.rows[m]) = IF p > t THEN p - t ELSE 0
  BY DEF WithoutMaintenance, Whole
<1>4. WithFullShifts(f.rows, m) = IF p + s > t THEN p + s - t ELSE 0
  <2> DEFINE staffed == [f.rows[m] EXCEPT !.planned = @ + s]
  <2>1. WithFullShifts(f.rows, m) = Whole(staffed)
    BY DEF WithFullShifts
  <2>2. staffed.planned = p + s /\ staffed.maintenance = t
    BY <1>1 DEF CapacityFacts
  <2> HIDE DEF staffed, p, s, t
  <2>3. Whole(staffed) = IF p + s > t THEN p + s - t ELSE 0
    BY <1>1, <1>2, <2>2 DEF Whole
  <2> QED BY <2>1, <2>3
<1>5. MainCause(f.rows, m) = LargerReason(p, s, t)
  BY DEF MainCause
<1> HIDE DEF p, t, s
<1>6. CASE (p = 0 \/ (s = 0 /\ t = 0)) /\ LargerReason(p, s, t) = None
  <2>1. MainCause(f.rows, m) = None /\ None # "maintenance" /\ None # "shift pattern"
    BY <1>5, <1>6 DEF None
  <2>2. p = 0 \/ (WithoutMaintenance(f.rows, m) = Whole(f.rows[m])
                    /\ WithFullShifts(f.rows, m) = Whole(f.rows[m]))
    BY <1>1, <1>2, <1>3, <1>4, <1>6
  <2> QED BY <2>1, <2>2 DEF p
<1>7. CASE p # 0 /\ t > s /\ LargerReason(p, s, t) = "maintenance"
  BY <1>1, <1>2, <1>3, <1>4, <1>5, <1>7 DEF None
<1>8. CASE p # 0 /\ t <= s /\ LargerReason(p, s, t) = "shift pattern"
  <2>1. MainCause(f.rows, m) = "shift pattern" /\ "shift pattern" # None
    BY <1>5, <1>8 DEF None
  <2>2. (IF p + s > t THEN p + s - t ELSE 0) >= p
    <3>1. p \in Nat /\ s \in Nat /\ t \in Nat /\ p # 0 /\ t <= s
      BY <1>1, <1>2, <1>8
    <3>2. p + s > t /\ p + s - t >= p
      BY <3>1
    <3> QED BY <3>2
  <2> QED BY <1>3, <1>4, <2>1, <2>2
<1> QED BY <1>1, <1>2, <1>6, <1>7, <1>8, Reasons

-----------------------------------------------------------------------------
(***************************************************************************)
(* The finding, and the text that is made of it.                           *)
(***************************************************************************)

\* Until the engine has concluded there is nothing to read; from then on the run is
\* what it concluded, the text is the composed one or a draft about that run, and a
\* verdict is the validator's on that text.
FindingInv ==
    /\ case \in Cases
    /\ \/ run = Unconcluded /\ author = "data" /\ verdict = "unread"
       \/ /\ run # Unconcluded /\ run = Derive(case)
          /\ \/ author = "data" /\ text = DataOnly(run)
             \/ author = "model" /\ text \in ModelDrafts(run)
          /\ \/ verdict = "unread"
             \/ verdict = "grounded" /\ Grounded(text, run)
             \/ verdict = "rejected" /\ ~Grounded(text, run)

\* Concluding, proposing and validating keep the invariant.
LEMMA FindingStep == FindingInv /\ [Next]_fvars => FindingInv'
<1> SUFFICES ASSUME FindingInv, [Next]_fvars PROVE FindingInv'
  OBVIOUS
<1>1. CASE Conclude
  BY <1>1 DEF Conclude, FindingInv
<1>2. CASE Propose
  BY <1>2 DEF Propose, FindingInv
<1>3. CASE Validate
  BY <1>3 DEF Validate, FindingInv
<1>4. CASE UNCHANGED fvars
  BY <1>4 DEF fvars, FindingInv
<1> QED BY <1>1, <1>2, <1>3, <1>4 DEF Next

\* The inductive invariant: what is concluded, written and judged belong together
\* (executor.py, PlanExecutor._conclude; answering.py, write_and_validate).
THEOREM FindingsInOrder == Spec => []FindingInv
<1>1. Init => FindingInv
  BY DEF Init, FindingInv
<1> QED BY <1>1, FindingStep, PTL DEF Spec

\* A capacity that was concluded is the engine's, of facts the columns allow.
LEMMA FactsOfACapacity ==
    ASSUME FindingInv, JustConcluded("capacity")
    PROVE  /\ CapacityFacts(case.facts)
           /\ run = DeriveCapacity(case)
<1>1. case \in Cases /\ case.kind = "capacity" /\ run = Derive(case)
  BY DEF FindingInv, JustConcluded
<1>2. Derive(case) = DeriveCapacity(case)
  BY <1>1 DEF Derive
<1> QED BY <1>1, <1>2, CasesAssumption

\* The capacity is the most that can be made, for any machines with any hours, any
\* cycle time and any stock, where the doubles are exact: no other way to share
\* the parts out among the machines makes one more (capacity.py:136-184).
THEOREM CapacityIsMost == Spec => []CapacityIsTheMost
<1>1. FindingInv => CapacityIsTheMost
  <2> SUFFICES ASSUME FindingInv, JustConcluded("capacity"), ExactHours(case.facts.rows)
               PROVE  TheMost(case.facts, run.found.final)
    BY DEF CapacityIsTheMost
  <2> DEFINE f == case.facts
  <2>1. CapacityFacts(f) /\ run = DeriveCapacity(case)
    BY FactsOfACapacity
  <2>2. run.found.final = Min({MachineCapacity(f.rows, f.cycle), MaterialCapacity(f.stock, f.qty)})
    BY <2>1 DEF DeriveCapacity, Calculate
  <2> QED BY <2>1, <2>2, TheFigureIsTheMost
<1> QED BY <1>1, FindingsInOrder, PTL

\* Doubles are off to one side: whatever a subtraction of hours comes to, the figure
\* never promises a part too many, and it withholds one part for each machine at most
\* (mes_repository.py:136, capacity.py:136-184).
FigureIsAttainable ==
    JustConcluded("capacity") => Attainable(case.facts, run.found.final)

\* It is, for any rounding of the differences.
THEOREM NoPartTooMany == Spec => []FigureIsAttainable
<1>1. FindingInv => FigureIsAttainable
  <2> SUFFICES ASSUME FindingInv, JustConcluded("capacity")
               PROVE  Attainable(case.facts, run.found.final)
    BY DEF FigureIsAttainable
  <2> DEFINE f == case.facts
  <2>1. CapacityFacts(f) /\ run = DeriveCapacity(case)
    BY FactsOfACapacity
  <2>2. run.found.final = Min({MachineCapacity(f.rows, f.cycle), MaterialCapacity(f.stock, f.qty)})
    BY <2>1 DEF DeriveCapacity, Calculate
  <2> QED BY <2>1, <2>2, TheFigureIsAttainable
<1> QED BY <1>1, FindingsInOrder, PTL

\* The machine that is named is the only one with the fewest hours, material comes
\* before any machine, and the cause that is named is the one whose removal gives
\* the machine the most hours (bottleneck.py:80-110, 130-179).
THEOREM LimitIsRight == Spec => []ConstraintIsRight
<1>1. FindingInv => ConstraintIsRight
  <2> SUFFICES ASSUME FindingInv, JustConcluded("capacity"), ExactHours(case.facts.rows)
               PROVE  LET rows  == case.facts.rows
                          least == { m \in Eligible(rows) :
                                       \A o \in Eligible(rows) : Whole(rows[m]) <= Whole(rows[o]) }
                          short == run.found.material < run.found.machine
                          named == run.constraint.bottleneck
                      IN  /\ named = IF ~short /\ Cardinality(least) = 1 THEN least ELSE {}
                          /\ \A m \in named :
                               LET served  == WithoutMaintenance(rows, m)
                                   staffed == WithFullShifts(rows, m)
                               IN  /\ run.constraint.cause = "maintenance"   => served >= staffed
                                   /\ run.constraint.cause = "shift pattern" => staffed >= served
                                   /\ run.constraint.cause = None =>
                                        \/ rows[m].planned = 0
                                        \/ served = Whole(rows[m]) /\ staffed = Whole(rows[m])
    BY DEF ConstraintIsRight
  <2> DEFINE f == case.facts
             least == FewestHours(f.rows)
             found == Calculate(f.rows, f.cycle, f.qty, f.stock)
             limit == Constraint(f.rows, found)
  <2>1. CapacityFacts(f) /\ run = DeriveCapacity(case)
    BY FactsOfACapacity
  <2>2. run.found = found /\ run.constraint = limit
    BY <2>1 DEF DeriveCapacity
  <2>3. least = { m \in Eligible(f.rows) :
                    \A o \in Eligible(f.rows) : Whole(f.rows[m]) <= Whole(f.rows[o]) }
    BY <2>1, FewestAreFewest
  <2>4. found.binding = IF found.material < found.machine THEN "material" ELSE "machine"
    BY DEF Calculate
  <2>5. IsFiniteSet(least) /\ least \subseteq Eligible(f.rows)
    BY <2>1, MachinesAreFew, FS_Subset DEF CapacityFacts, Eligible, FewestHours
  <2> HIDE DEF found, least
  <2>6. CASE found.material < found.machine
    <3>1. limit = [kind |-> "material", bottleneck |-> {}, cause |-> None]
      BY <2>4, <2>6 DEF Constraint
    <3> QED BY <2>2, <2>6, <3>1
  <2>7. CASE ~(found.material < found.machine) /\ Cardinality(least) # 1
    <3>1. limit = [kind |-> None, bottleneck |-> {}, cause |-> None]
      BY <2>4, <2>7 DEF Constraint, least
    <3> QED BY <2>2, <2>3, <2>7, <3>1
  <2>8. CASE ~(found.material < found.machine) /\ Cardinality(least) = 1
    <3>1. PICK m : least = {m}
      BY <2>5, <2>8, FS_Singleton
    <3>2. limit = [kind |-> "machine", bottleneck |-> {m}, cause |-> MainCause(f.rows, m)]
      <4>1. (CHOOSE x \in {m} : TRUE) = m
        OBVIOUS
      <4> QED BY <2>4, <2>8, <3>1, <4>1 DEF Constraint, least
    <3>3. m \in Eligible(f.rows)
      BY <2>5, <3>1
    <3> HIDE DEF limit
    <3>4. limit.bottleneck = {m} /\ limit.cause = MainCause(f.rows, m)
      BY <3>2
    <3> QED BY <2>1, <2>2, <2>3, <2>8, <3>1, <3>3, <3>4, TheReasonIsTheLarger, ZenonT(30)
  <2> QED BY <2>6, <2>7, <2>8
<1> QED BY <1>1, FindingsInOrder, PTL

-----------------------------------------------------------------------------
(***************************************************************************)
(* Sorting.                                                                *)
(***************************************************************************)

\* R says which of any two different elements goes first.
Decides(R, S) ==
    /\ \A x \in S : << x, x >> \notin R
    /\ \A x, y \in S : x # y => << x, y >> \in R \/ << y, x >> \in R
    /\ \A x, y, z \in S : << x, y >> \in R /\ << y, z >> \in R => << x, z >> \in R

InOrder(seq, S, R) ==
    /\ seq \in [1..Cardinality(S) -> S]
    /\ \A i, j \in 1..Cardinality(S) : i < j => << seq[i], seq[j] >> \in R

\* Some element goes after all others.
LEMMA LastOf ==
    ASSUME NEW S, IsFiniteSet(S), S # {}, NEW R, Decides(R, S)
    PROVE  \E x \in S : \A y \in S \ {x} : << y, x >> \in R
<1> DEFINE Last(T, x) == \A y \in T \ {x} : << y, x >> \in R
           Bad == { T \in SUBSET S : T # {} /\ ~\E x \in T : Last(T, x) }
<1> SUFFICES ASSUME Bad # {} PROVE FALSE
  OBVIOUS
<1>1. PICK T \in Bad : \A U \in Bad : U \subseteq T => U = T
  <2>1. Bad \in SUBSET (SUBSET S)
    OBVIOUS
  <2> HIDE DEF Bad
  <2> QED BY <2>1, Smallest
<1>2. PICK x \in T : TRUE
  OBVIOUS
<1>3. CASE T \ {x} = {}
  <2>1. Last(T, x)
    BY <1>3
  <2> QED BY <2>1
<1>4. CASE T \ {x} # {}
  <2>0. T \ {x} \in SUBSET S /\ T \ {x} \notin Bad
    BY <1>1
  <2>1. PICK z \in T \ {x} : Last(T \ {x}, z)
    BY <1>4, <2>0
  <2>2. CASE << x, z >> \in R
    <3>1. Last(T, z)
      BY <2>1, <2>2
    <3> QED BY <3>1
  <2>3. CASE << z, x >> \in R
    <3>1. Last(T, x)
      BY <2>1, <2>3 DEF Decides
    <3> QED BY <3>1
  <2> QED BY <2>2, <2>3 DEF Decides
<1> QED BY <1>3, <1>4

\* A finite set that an order decides can be put in that order.
LEMMA CanBeSorted ==
    ASSUME NEW S, IsFiniteSet(S), NEW R, Decides(R, S)
    PROVE  \E seq : InOrder(seq, S, R)
<1> DEFINE Bad == { T \in SUBSET S : ~\E seq : InOrder(seq, T, R) }
<1> SUFFICES ASSUME Bad # {} PROVE FALSE
  OBVIOUS
<1>1. PICK T \in Bad : \A U \in Bad : U \subseteq T => U = T
  <2>1. Bad \in SUBSET (SUBSET S)
    OBVIOUS
  <2> HIDE DEF Bad
  <2> QED BY <2>1, Smallest
<1>2. IsFiniteSet(T) /\ Decides(R, T)
  BY FS_Subset DEF Decides
<1>3. T # {}
  <2> SUFFICES ASSUME T = {} PROVE FALSE
    OBVIOUS
  <2>1. Cardinality(T) = 0
    BY FS_EmptySet
  <2>2. InOrder([i \in {} |-> i], T, R)
    BY <2>1 DEF InOrder
  <2> QED BY <2>2
<1>4. PICK x \in T : \A y \in T \ {x} : << y, x >> \in R
  BY <1>2, <1>3, LastOf
<1> DEFINE rest == T \ {x}
           n == Cardinality(rest)
<1>5. PICK seq : InOrder(seq, rest, R)
  <2>1. rest \in SUBSET S /\ rest \notin Bad
    BY <1>1
  <2> QED BY <2>1
<1>6. n \in Nat /\ Cardinality(T) = n + 1
  <2>1. IsFiniteSet(rest) /\ Cardinality(rest) = Cardinality(T) - 1
    BY <1>2, FS_RemoveElement
  <2>2. Cardinality(T) \in Nat /\ Cardinality(rest) \in Nat
    BY <1>2, <2>1, FS_CardinalityType
  <2> QED BY <2>1, <2>2
<1> DEFINE longer == [i \in 1..(n + 1) |-> IF i = n + 1 THEN x ELSE seq[i]]
<1>7. /\ \A i \in 1..n : longer[i] = seq[i] /\ seq[i] \in rest
      /\ longer[n + 1] = x
      /\ \A i \in 1..(n + 1) : i \in 1..n \/ i = n + 1
  <2>1. n \in Nat /\ seq \in [1..n -> rest]
    BY <1>5, <1>6 DEF InOrder
  <2> HIDE DEF n
  <2>2. \A i \in 1..n : i \in 1..(n + 1) /\ i # n + 1
    BY <2>1
  <2>3. n + 1 \in 1..(n + 1) /\ \A i \in 1..(n + 1) : i \in 1..n \/ i = n + 1
    BY <2>1
  <2> QED BY <2>1, <2>2, <2>3
<1>8. longer \in [1..(n + 1) -> T]
  BY <1>7
<1>9. ASSUME NEW i \in 1..(n + 1), NEW j \in 1..(n + 1), i < j
      PROVE  << longer[i], longer[j] >> \in R
  <2>1. i \in 1..n
    BY <1>6, <1>9
  <2>2. CASE j \in 1..n
    BY <1>5, <1>7, <1>9, <2>1, <2>2 DEF InOrder
  <2>3. CASE j = n + 1
    BY <1>4, <1>7, <2>1, <2>3
  <2> QED BY <1>7, <2>2, <2>3
<1>10. InOrder(longer, T, R)
  <2> HIDE DEF longer, n
  <2> QED BY <1>6, <1>8, <1>9 DEF InOrder
<1> QED BY <1>10

\* A sequence in order has each element once.
LEMMA OrderedIsWhole ==
    ASSUME NEW S, IsFiniteSet(S), NEW R, Decides(R, S), NEW seq, InOrder(seq, S, R)
    PROVE  /\ \A i, j \in 1..Cardinality(S) : seq[i] = seq[j] => i = j
           /\ \A x \in S : \E i \in 1..Cardinality(S) : seq[i] = x
<1> DEFINE n == Cardinality(S)
<1>1. n \in Nat
  BY FS_CardinalityType
<1>2. ASSUME NEW i \in 1..n, NEW j \in 1..n, seq[i] = seq[j] PROVE i = j
  <2>1. ~(i < j) /\ ~(j < i)
    BY <1>2 DEF InOrder, Decides
  <2> QED BY <1>1, <2>1
<1>3. seq \in [1..n -> S]
  BY DEF InOrder
<1> HIDE DEF n
<1>4. seq \in Injection(1..n, S)
  BY <1>2, <1>3 DEF Injection, IsInjective
<1>5. IsFiniteSet(1..n) /\ Cardinality(1..n) = n
  BY <1>1, FS_Interval
<1>6. seq \in Surjection(1..n, S)
  BY <1>4, <1>5, FS_Injection DEF n
<1>7. \A x \in S : \E i \in 1..n : seq[i] = x
  BY <1>6 DEF Surjection
<1> QED BY <1>2, <1>7 DEF n

-----------------------------------------------------------------------------
(***************************************************************************)
(* The account of a shortfall.                                             *)
(***************************************************************************)

\* Sums over two sets without a common element add up.
LEMMA SumOfUnion ==
    ASSUME NEW A, IsFiniteSet(A), NEW B, IsFiniteSet(B), A \cap B = {}, NEW g,
           \A x \in A \cup B : g[x] \in Int
    PROVE  SumOver(A \cup B, g) = SumOver(A, g) + SumOver(B, g)
<1> DEFINE Bad == { T \in SUBSET A : SumOver(T \cup B, g) # SumOver(T, g) + SumOver(B, g) }
<1> SUFFICES ASSUME Bad # {} PROVE FALSE
  OBVIOUS
<1>1. PICK T \in Bad : \A U \in Bad : U \subseteq T => U = T
  <2>1. Bad \in SUBSET (SUBSET A)
    OBVIOUS
  <2> HIDE DEF Bad
  <2> QED BY <2>1, Smallest
<1>2. SumOver(B, g) \in Int
  BY SumIsInt
<1>3. T # {}
  <2> SUFFICES ASSUME T = {} PROVE FALSE
    OBVIOUS
  <2>1. T \cup B = B /\ SumOver(T, g) = 0
    BY SumOfNone
  <2> QED BY <1>2, <2>1
<1>4. PICK x \in T : TRUE
  BY <1>3
<1>5. /\ IsFiniteSet(T) /\ IsFiniteSet(T \ {x})
      /\ IsFiniteSet(T \cup B) /\ IsFiniteSet((T \ {x}) \cup B)
  BY FS_Subset, FS_Union
<1>6. SumOver((T \ {x}) \cup B, g) = SumOver(T \ {x}, g) + SumOver(B, g)
  BY <1>1
<1>7. (T \cup B) \ {x} = (T \ {x}) \cup B
  OBVIOUS
<1>8. SumOver(T, g) = g[x] + SumOver(T \ {x}, g)
  BY <1>5, SumPeels
<1>9. SumOver(T \cup B, g) = g[x] + SumOver((T \ {x}) \cup B, g)
  BY <1>5, <1>7, SumPeels
<1>10. g[x] \in Int /\ SumOver(T \ {x}, g) \in Int
  BY <1>5, SumIsInt
<1>11. SumOver(T \cup B, g) = SumOver(T, g) + SumOver(B, g)
  BY <1>2, <1>6, <1>8, <1>9, <1>10
<1> QED BY <1>11

\* The sum of differences is the difference of the sums.
LEMMA SumOfDifference ==
    ASSUME NEW S, IsFiniteSet(S), NEW f, NEW g, NEW h,
           \A x \in S : f[x] \in Int /\ g[x] \in Int /\ h[x] = f[x] - g[x]
    PROVE  SumOver(S, h) = SumOver(S, f) - SumOver(S, g)
<1> DEFINE Bad == { T \in SUBSET S : SumOver(T, h) # SumOver(T, f) - SumOver(T, g) }
<1> SUFFICES ASSUME Bad # {} PROVE FALSE
  OBVIOUS
<1>1. PICK T \in Bad : \A U \in Bad : U \subseteq T => U = T
  <2>1. Bad \in SUBSET (SUBSET S)
    OBVIOUS
  <2> HIDE DEF Bad
  <2> QED BY <2>1, Smallest
<1>2. T # {}
  <2>1. SumOver({}, h) = 0 /\ SumOver({}, f) = 0 /\ SumOver({}, g) = 0
    BY SumOfNone
  <2>2. SumOver({}, h) = SumOver({}, f) - SumOver({}, g)
    BY <2>1
  <2> QED BY <2>2
<1>3. PICK x \in T : TRUE
  BY <1>2
<1>4. IsFiniteSet(T) /\ IsFiniteSet(T \ {x})
  BY FS_Subset
<1>5. SumOver(T \ {x}, h) = SumOver(T \ {x}, f) - SumOver(T \ {x}, g)
  BY <1>1
<1>6. \A y \in T : f[y] \in Int /\ g[y] \in Int /\ h[y] \in Int
  OBVIOUS
<1>7. /\ SumOver(T, f) = f[x] + SumOver(T \ {x}, f)
      /\ SumOver(T, g) = g[x] + SumOver(T \ {x}, g)
      /\ SumOver(T, h) = h[x] + SumOver(T \ {x}, h)
  BY <1>4, <1>6, SumPeels
<1>8. SumOver(T \ {x}, f) \in Int /\ SumOver(T \ {x}, g) \in Int
  BY <1>4, <1>6, SumIsInt
<1>9. f[x] \in Int /\ g[x] \in Int /\ h[x] = f[x] - g[x]
  OBVIOUS
<1>10. SumOver(T, h) = SumOver(T, f) - SumOver(T, g)
  BY <1>5, <1>7, <1>8, <1>9
<1> QED BY <1>10

\* A sum may be taken group by group.
LEMMA SumOfGroups ==
    ASSUME NEW S, IsFiniteSet(S), NEW M, IsFiniteSet(M), NEW of, \A k \in S : of[k] \in M,
           NEW g, \A k \in S : g[k] \in Int
    PROVE  SumOver(S, g) = SumOver(M, [m \in M |-> SumOver({ k \in S : of[k] = m }, g)])
<1> DEFINE Group(m) == { k \in S : of[k] = m }
           In(T) == { k \in S : of[k] \in T }
           each == [m \in M |-> SumOver(Group(m), g)]
           Bad == { T \in SUBSET M : SumOver(In(T), g) # SumOver(T, each) }
<1>0. SUFFICES Bad = {}
  <2>1. M \notin Bad /\ In(M) = S
    BY <1>0
  <2> QED BY <2>1
<1> SUFFICES ASSUME Bad # {} PROVE FALSE
  OBVIOUS
<1>1. PICK T \in Bad : \A U \in Bad : U \subseteq T => U = T
  <2>1. Bad \in SUBSET (SUBSET M)
    OBVIOUS
  <2> HIDE DEF Bad
  <2> QED BY <2>1, Smallest
<1>2. T # {}
  <2> SUFFICES ASSUME T = {} PROVE FALSE
    OBVIOUS
  <2>1. In(T) = {}
    OBVIOUS
  <2>2. SumOver(In(T), g) = SumOver(T, each)
    BY <2>1, SumOfNone
  <2> QED BY <2>2
<1>3. PICK m \in T : TRUE
  BY <1>2
<1>4. T \ {m} \in SUBSET M /\ T \ {m} # T /\ IsFiniteSet(T)
  BY FS_Subset
<1>5. SumOver(In(T \ {m}), g) = SumOver(T \ {m}, each)
  BY <1>1, <1>4
<1>6. /\ In(T) = Group(m) \cup In(T \ {m}) /\ Group(m) \cap In(T \ {m}) = {}
      /\ Group(m) \in SUBSET S /\ In(T \ {m}) \in SUBSET S
  OBVIOUS
<1>7. \A n \in M : each[n] = SumOver(Group(n), g) /\ Group(n) \in SUBSET S
  OBVIOUS
<1> HIDE DEF Group, In, each
<1>8. SumOver(In(T), g) = SumOver(Group(m), g) + SumOver(In(T \ {m}), g)
  <2>1. IsFiniteSet(Group(m)) /\ IsFiniteSet(In(T \ {m}))
    BY <1>6, FS_Subset
  <2>2. \A x \in Group(m) \cup In(T \ {m}) : g[x] \in Int
    BY <1>6
  <2>3. SumOver(Group(m) \cup In(T \ {m}), g) = SumOver(Group(m), g) + SumOver(In(T \ {m}), g)
    <3> DEFINE A == Group(m)
               B == In(T \ {m})
    <3>1. IsFiniteSet(A) /\ IsFiniteSet(B) /\ A \cap B = {} /\ \A x \in A \cup B : g[x] \in Int
      BY <1>6, <2>1, <2>2
    <3> HIDE DEF A, B
    <3>2. SumOver(A \cup B, g) = SumOver(A, g) + SumOver(B, g)
      BY <3>1, SumOfUnion
    <3> QED BY <3>2 DEF A, B
  <2> QED BY <1>6, <2>3
<1>9. \A n \in T : each[n] \in Int
  BY <1>7, SumIsInt, FS_Subset
<1>10. SumOver(T, each) = each[m] + SumOver(T \ {m}, each)
  BY <1>4, <1>9, SumPeels
<1>11. SumOver(In(T), g) = SumOver(T, each)
  BY <1>5, <1>7, <1>8, <1>10
<1> QED BY <1>11 DEF In

Column(rows, field) == [k \in DOMAIN rows |-> rows[k][field]]

\* A column's total is the sum over its rows,
LEMMA TotalIsASum ==
    ASSUME NEW rows, NEW field, IsFiniteSet(DOMAIN rows)
    PROVE  Total(rows, field) = SumOver(DOMAIN rows, Column(rows, field))
<1> DEFINE E == DOMAIN rows
           g == Column(rows, field)
           Running(h) == [s \in SUBSET E |->
               IF s = {} THEN 0
               ELSE rows[CHOOSE x \in s : TRUE][field] + h[s \ {CHOOSE x \in s : TRUE}]]
<1>1. Total(rows, field) = (CHOOSE h : h = Running(h))[E]
  BY DEF Total, MapThenSumSet, MapThenFoldSet
<1>2. ASSUME NEW h PROVE h = Running(h) <=> IsSum(h, E, g)
  <2>1. \A s \in SUBSET E : s # {} => g[AnElement(s)] = rows[AnElement(s)][field]
    BY DEF AnElement, Column
  <2> HIDE DEF E, g
  <2>2. Running(h) = [s \in SUBSET E |-> IF s = {} THEN 0
                        ELSE g[AnElement(s)] + h[s \ {AnElement(s)}]]
    BY <2>1 DEF AnElement
  <2> HIDE DEF Running
  <2> QED BY <2>2 DEF IsSum
<1>3. IsFiniteSet(E)
  OBVIOUS
<1> HIDE DEF E, g, Running
<1>4. PICK k : k = Running(k) /\ Total(rows, field) = k[E]
  BY <1>1, <1>2, <1>3, SumExists
<1>5. SumOver(E, g) = k[E]
  BY <1>2, <1>3, <1>4, SumOfPart
<1> QED BY <1>4, <1>5 DEF E, g

\* and a machine's total the sum over the rows of that machine.
LEMMA TotalOfIsASum ==
    ASSUME NEW rows, NEW m, NEW field, IsFiniteSet(DOMAIN rows)
    PROVE  TotalOf(rows, m, field) = SumOver(RowsOf(rows, m), Column(rows, field))
<1> DEFINE E == RowsOf(rows, m)
           g == Column(rows, field)
           Running(h) == [s \in SUBSET E |->
               IF s = {} THEN 0
               ELSE rows[CHOOSE x \in s : TRUE][field] + h[s \ {CHOOSE x \in s : TRUE}]]
<1>1. TotalOf(rows, m, field) = (CHOOSE h : h = Running(h))[E]
  BY DEF TotalOf, MapThenSumSet, MapThenFoldSet
<1>2. ASSUME NEW h PROVE h = Running(h) <=> IsSum(h, E, g)
  <2>1. \A s \in SUBSET E : s # {} => g[AnElement(s)] = rows[AnElement(s)][field]
    BY DEF AnElement, Column, RowsOf
  <2> HIDE DEF E, g
  <2>2. Running(h) = [s \in SUBSET E |-> IF s = {} THEN 0
                        ELSE g[AnElement(s)] + h[s \ {AnElement(s)}]]
    BY <2>1 DEF AnElement
  <2> HIDE DEF Running
  <2> QED BY <2>2 DEF IsSum
<1>3. IsFiniteSet(E)
  BY FS_Subset DEF RowsOf
<1> HIDE DEF E, g, Running
<1>4. PICK k : k = Running(k) /\ TotalOf(rows, m, field) = k[E]
  BY <1>1, <1>2, <1>3, SumExists
<1>5. SumOver(E, g) = k[E]
  BY <1>2, <1>3, <1>4, SumOfPart
<1> QED BY <1>4, <1>5 DEF E, g

Deltas(rows) == [m \in Machines(rows) |-> Delta(rows, m)]

Above(rows) == { m \in Machines(rows) : Delta(rows, m) > 0 }

\* What was gained is the sum over the machines above their plan.
LEMMA GainedIsASum ==
    ASSUME NEW rows, IsFiniteSet(Machines(rows))
    PROVE  Gained(rows) = SumOver(Above(rows), Deltas(rows))
<1> DEFINE E == Above(rows)
           g == Deltas(rows)
           Running(h) == [s \in SUBSET E |->
               IF s = {} THEN 0
               ELSE Delta(rows, CHOOSE x \in s : TRUE) + h[s \ {CHOOSE x \in s : TRUE}]]
<1>1. Gained(rows) = (CHOOSE h : h = Running(h))[E]
  BY DEF Gained, Above, MapThenSumSet, MapThenFoldSet
<1>2. ASSUME NEW h PROVE h = Running(h) <=> IsSum(h, E, g)
  <2>1. \A s \in SUBSET E : s # {} => g[AnElement(s)] = Delta(rows, AnElement(s))
    BY DEF AnElement, Deltas, Above
  <2> HIDE DEF E, g
  <2>2. Running(h) = [s \in SUBSET E |-> IF s = {} THEN 0
                        ELSE g[AnElement(s)] + h[s \ {AnElement(s)}]]
    BY <2>1 DEF AnElement
  <2> HIDE DEF Running
  <2> QED BY <2>2 DEF IsSum
<1>3. IsFiniteSet(E)
  BY FS_Subset DEF Above
<1> HIDE DEF E, g, Running
<1>4. PICK k : k = Running(k) /\ Gained(rows) = k[E]
  BY <1>1, <1>2, <1>3, SumExists
<1>5. SumOver(E, g) = k[E]
  BY <1>2, <1>3, <1>4, SumOfPart
<1> QED BY <1>4, <1>5 DEF E, g

Recorded == {"planned", "produced", "rejected", "downtime"}

\* Totals of a column, of the window and of a machine, are not negative.
LEMMA ColumnsAreNat ==
    ASSUME NEW f, HistoryFacts(f), NEW field \in Recorded
    PROVE  /\ \A k \in DOMAIN f.rows : Column(f.rows, field)[k] \in Nat
           /\ Total(f.rows, field) \in Nat
<1>1. ASSUME NEW k \in DOMAIN f.rows PROVE Column(f.rows, field)[k] \in Nat
  <2>1. f.rows[k] \in [planned : Nat, produced : Nat, rejected : Nat, downtime : Nat]
    BY DEF HistoryFacts
  <2>2. f.rows[k][field] \in Nat
    BY <2>1 DEF Recorded
  <2> QED BY <2>2 DEF Column
<1>2. IsFiniteSet(DOMAIN f.rows)
  BY DEF HistoryFacts
<1>3. Total(f.rows, field) \in Nat
  BY <1>1, <1>2, TotalIsASum, SumOfNats
<1> QED BY <1>1, <1>3

\* A column, by machine.
ByMachine(rows, field) == [m \in Machines(rows) |-> TotalOf(rows, m, field)]

\* What is recorded of the machines adds up to what is recorded.
LEMMA MachinesAddUp ==
    ASSUME NEW f, HistoryFacts(f), NEW field \in Recorded
    PROVE  /\ IsFiniteSet(Machines(f.rows))
           /\ \A m \in Machines(f.rows) : ByMachine(f.rows, field)[m] \in Nat
           /\ Total(f.rows, field) = SumOver(Machines(f.rows), ByMachine(f.rows, field))
<1> DEFINE K == DOMAIN f.rows
           M == Machines(f.rows)
           of == [k \in K |-> k[2]]
           g == Column(f.rows, field)
           each == [m \in M |-> SumOver({ k \in K : of[k] = m }, g)]
<1>1. IsFiniteSet(K)
  BY DEF HistoryFacts
<1>2. \A k \in K : of[k] \in M
  BY DEF Machines
<1>3. IsFiniteSet(M)
  <2>1. of \in Surjection(K, M)
    BY DEF Surjection, Machines
  <2> HIDE DEF of, K, M
  <2> QED BY <1>1, <2>1, FS_Surjection
<1>4. \A k \in K : g[k] \in Nat
  BY ColumnsAreNat
<1>5. SumOver(K, g) = SumOver(M, each)
  <2>1. \A k \in K : g[k] \in Int
    BY <1>4
  <2> HIDE DEF g, K, M, of
  <2> QED BY <1>1, <1>2, <1>3, <2>1, SumOfGroups
<1>6. ASSUME NEW m \in M
      PROVE  each[m] = TotalOf(f.rows, m, field) /\ each[m] \in Nat
  <2>1. { k \in K : of[k] = m } = RowsOf(f.rows, m)
    BY DEF RowsOf
  <2>2. each[m] = SumOver(RowsOf(f.rows, m), g)
    BY <2>1
  <2>3. IsFiniteSet(RowsOf(f.rows, m)) /\ RowsOf(f.rows, m) \subseteq K
    BY <1>1, FS_Subset DEF RowsOf
  <2>4. SumOver(RowsOf(f.rows, m), g) \in Nat
    <3> HIDE DEF g
    <3> QED BY <1>4, <2>3, SumOfNats
  <2> QED BY <1>1, <2>2, <2>4, TotalOfIsASum
<1>7. each = ByMachine(f.rows, field)
  <2>1. \A m \in M : each[m] = TotalOf(f.rows, m, field)
    BY <1>6
  <2> QED BY <2>1 DEF ByMachine
<1>8. Total(f.rows, field) = SumOver(K, g)
  BY <1>1, TotalIsASum
<1> HIDE DEF each, g, K
<1> QED BY <1>3, <1>5, <1>6, <1>7, <1>8

\* What the machines are off their plans adds up to what production is off its own.
LEMMA DeltasAddUp ==
    ASSUME NEW f, HistoryFacts(f)
    PROVE  /\ IsFiniteSet(Machines(f.rows))
           /\ \A m \in Machines(f.rows) : Delta(f.rows, m) \in Int
           /\ SumOver(Machines(f.rows), Deltas(f.rows)) = -Short(f.rows)
<1> DEFINE M == Machines(f.rows)
           Each(field) == ByMachine(f.rows, field)
<1>1. IsFiniteSet(M)
  BY MachinesAddUp DEF Recorded
<1>2. ASSUME NEW field \in Recorded
      PROVE  /\ Total(f.rows, field) = SumOver(M, Each(field))
             /\ \A m \in M : Each(field)[m] = TotalOf(f.rows, m, field) /\ Each(field)[m] \in Int
  <2>1. \A m \in M : Each(field)[m] \in Nat
    BY MachinesAddUp
  <2>2. \A m \in M : Each(field)[m] = TotalOf(f.rows, m, field)
    BY DEF ByMachine
  <2> QED BY <2>1, <2>2, MachinesAddUp
<1> HIDE DEF Each
<1>3. \A m \in M : Deltas(f.rows)[m] = Each("produced")[m] - Each("planned")[m]
  BY <1>2 DEF Deltas, Delta, Recorded
<1>4. \A m \in M : Each("produced")[m] \in Int /\ Each("planned")[m] \in Int
  BY <1>2 DEF Recorded
<1>5. SumOver(M, Deltas(f.rows)) = SumOver(M, Each("produced")) - SumOver(M, Each("planned"))
  BY <1>1, <1>3, <1>4, SumOfDifference
<1>6. /\ Total(f.rows, "produced") = SumOver(M, Each("produced"))
      /\ Total(f.rows, "planned") = SumOver(M, Each("planned"))
  BY <1>2 DEF Recorded
<1>7. Total(f.rows, "produced") \in Nat /\ Total(f.rows, "planned") \in Nat
  BY ColumnsAreNat DEF Recorded
<1>8. SumOver(M, Deltas(f.rows)) = -Short(f.rows)
  BY <1>5, <1>6, <1>7 DEF Short
<1>9. \A m \in M : Delta(f.rows, m) \in Int
  BY <1>3, <1>4 DEF Deltas
<1> QED BY <1>1, <1>8, <1>9

\* What the machines below their plans lost is the shortfall and what was made up.
LEMMA LossesAndGains ==
    ASSUME NEW f, HistoryFacts(f)
    PROVE  LET deltas == Deltas(f.rows)
               below  == { m \in DOMAIN deltas : deltas[m] < 0 }
           IN  /\ Gained(f.rows) \in Nat
               /\ -SumOver(below, deltas) = Short(f.rows) + Gained(f.rows)
               /\ SumOver(below, deltas) \in Int
<1> DEFINE M == Machines(f.rows)
           deltas == Deltas(f.rows)
           below == { m \in M : deltas[m] < 0 }
           above == { m \in M : deltas[m] > 0 }
           level == { m \in M : deltas[m] = 0 }
<1>1. /\ IsFiniteSet(M) /\ \A m \in M : deltas[m] \in Int
      /\ SumOver(M, deltas) = -Short(f.rows)
  BY DeltasAddUp DEF Deltas
<1>2. DOMAIN deltas = M /\ Above(f.rows) = above
  BY DEF Deltas, Above
<1>3. Gained(f.rows) = SumOver(above, deltas)
  BY <1>1, <1>2, GainedIsASum
<1> HIDE DEF M, deltas
<1>4. /\ IsFiniteSet(below) /\ IsFiniteSet(above) /\ IsFiniteSet(level)
      /\ IsFiniteSet(above \cup level)
  BY <1>1, FS_Subset
<1>5. SumOver(above, deltas) \in Nat /\ SumOver(below, deltas) \in Int
  <2>1. \A m \in above : deltas[m] \in Nat
    BY <1>1
  <2>2. \A m \in below : deltas[m] \in Int
    BY <1>1
  <2> HIDE DEF above, below
  <2> QED BY <1>4, <2>1, <2>2, SumOfNats, SumIsInt
<1>6. SumOver(level, deltas) = 0
  <2> DEFINE none == [m \in level |-> 0]
  <2>1. \A m \in level : deltas[m] \in Int /\ deltas[m] = none[m]
    BY <1>1
  <2>2. \A m \in level : none[m] \in Int /\ none[m] \in Int /\ none[m] = none[m] - none[m]
    OBVIOUS
  <2> HIDE DEF level, none
  <2>3. SumOver(level, deltas) = SumOver(level, none)
    BY <1>4, <2>1, SumSame
  <2>4. SumOver(level, none) = SumOver(level, none) - SumOver(level, none)
    BY <1>4, <2>2, SumOfDifference
  <2>5. SumOver(level, none) \in Int
    BY <1>4, <2>2, SumIsInt
  <2> QED BY <2>3, <2>4, <2>5
<1>7. SumOver(above \cup level, deltas) = SumOver(above, deltas) + SumOver(level, deltas)
  <2>1. above \cap level = {} /\ \A m \in above \cup level : deltas[m] \in Int
    BY <1>1
  <2> HIDE DEF above, level
  <2> QED BY <1>4, <2>1, SumOfUnion
<1>8. M = below \cup (above \cup level)
  BY <1>1
<1>9. SumOver(M, deltas) = SumOver(below, deltas) + SumOver(above \cup level, deltas)
  <2> DEFINE others == above \cup level
  <2>1. below \cap others = {} /\ \A m \in below \cup others : deltas[m] \in Int
    BY <1>1
  <2> HIDE DEF below, others
  <2>2. SumOver(below \cup others, deltas) = SumOver(below, deltas) + SumOver(others, deltas)
    BY <1>4, <2>1, SumOfUnion DEF others
  <2> QED BY <1>8, <2>2 DEF others
<1>10. Total(f.rows, "planned") \in Nat /\ Total(f.rows, "produced") \in Nat
  BY ColumnsAreNat DEF Recorded
<1>11. Short(f.rows) \in Int
  BY <1>10 DEF Short
<1>12. -SumOver(below, deltas) = Short(f.rows) + Gained(f.rows)
  <2> HIDE DEF below, above, level
  <2> QED BY <1>1, <1>3, <1>5, <1>6, <1>7, <1>9, <1>11
<1> QED BY <1>2, <1>3, <1>5, <1>12 DEF deltas

\* Parts lost to downtime, where the cycle time gives it a size.
LostTo(f) == IF f.cycle = NoCycle THEN 0 ELSE Lost(Total(f.rows, "downtime"), f.cycle)

\* It is a whole number of parts, and none without downtime.
LEMMA LostIsNat ==
    ASSUME NEW f, HistoryFacts(f)
    PROVE  LostTo(f) \in Nat /\ (LostTo(f) > 0 => Total(f.rows, "downtime") # 0)
<1>1. Total(f.rows, "downtime") \in Nat
  BY ColumnsAreNat DEF Recorded
<1>2. CASE f.cycle = NoCycle
  BY <1>2 DEF LostTo
<1>3. CASE f.cycle # NoCycle
  <2>1. f.cycle \in Nat /\ f.cycle # 0
    BY <1>3 DEF HistoryFacts, NoCycle
  <2> DEFINE d == Total(f.rows, "downtime") * 60
  <2>2. 2 * d + f.cycle \in Nat /\ 2 * f.cycle \in Nat \ {0}
    BY <1>1, <2>1
  <2>3. LostTo(f) = (2 * d + f.cycle) \div (2 * f.cycle)
    BY <1>3 DEF LostTo, Lost, HalfUp
  <2>4. LostTo(f) \in Nat
    <3> HIDE DEF d
    <3> QED BY <2>2, <2>3, DivMod
  <2>5. Total(f.rows, "downtime") = 0 => LostTo(f) = 0
    <3> SUFFICES ASSUME Total(f.rows, "downtime") = 0 PROVE LostTo(f) = 0
      OBVIOUS
    <3>1. d = 0
      OBVIOUS
    <3>2. LostTo(f) = f.cycle \div (2 * f.cycle)
      <4> HIDE DEF d
      <4> QED BY <2>1, <2>3, <3>1
    <3> DEFINE c == f.cycle
               b == 2 * c
               q == c \div b
               m == (c % b)
    <3>3. c \in Nat /\ b \in Nat \ {0}
      BY <2>1
    <3>4. c = b * q + m /\ m \in Nat /\ q \in Nat
      <4> HIDE DEF c, b
      <4> QED BY <3>3, DivMod
    <3>5. q = 0
      <4>1. b = 2 * c /\ c # 0
        BY <2>1
      <4> HIDE DEF c, b, q, m
      <4>2. q >= 1 => b * q >= b
        BY <3>3, <3>4
      <4> QED BY <3>3, <3>4, <4>1, <4>2
    <3> QED BY <3>2, <3>5
  <2> QED BY <2>4, <2>5
<1> QED BY <1>2, <1>3

\* The factors that are found: each cause that was recorded is one, with its size,
\* and what other machines made up of a shortfall is an offset.
LEMMA WhatIsFound ==
    ASSUME NEW f, HistoryFacts(f)
    PROVE  LET found == Found(f.rows, f.cycle) IN
           /\ \E n \in Nat : DOMAIN found = 1..n
           /\ \A j \in DOMAIN found : found[j].impact \in Int
           /\ \A j \in DOMAIN found :
                \/ found[j].kind = "downtime" /\ found[j].impact = LostTo(f)
                \/ found[j].kind = "rejects" /\ found[j].impact = Total(f.rows, "rejected")
                \/ /\ found[j].kind = "offset" /\ found[j].impact = -Gained(f.rows)
                   /\ Gained(f.rows) # 0
           /\ Total(f.rows, "downtime") # 0 =>
                \E j \in DOMAIN found : found[j] = Factor("downtime", LostTo(f))
           /\ Total(f.rows, "rejected") # 0 =>
                \E j \in DOMAIN found : found[j] = Factor("rejects", Total(f.rows, "rejected"))
           /\ Gained(f.rows) # 0 /\ Short(f.rows) > 0 =>
                \E j \in DOMAIN found : found[j] = Factor("offset", -Gained(f.rows))
<1> DEFINE lost == LostTo(f)
           rejects == Total(f.rows, "rejected")
           gained == Gained(f.rows)
           a == IF Total(f.rows, "downtime") = 0 THEN << >>
                ELSE << Factor("downtime", lost) >>
           b == IF rejects = 0 THEN << >> ELSE << Factor("rejects", rejects) >>
           c == IF gained = 0 \/ Short(f.rows) <= 0 THEN << >>
                ELSE << Factor("offset", -gained) >>
           found == Found(f.rows, f.cycle)
<1>1. found = (a \o b) \o c
  BY DEF Found, LostTo
<1>2. lost \in Int /\ rejects \in Int /\ -gained \in Int /\ Short(f.rows) \in Int
  <2>1. rejects \in Nat /\ Short(f.rows) \in Int
    BY ColumnsAreNat DEF Recorded, Short
  <2>2. gained \in Nat
    BY LossesAndGains
  <2>3. lost \in Nat
    BY LostIsNat
  <2> HIDE DEF lost, rejects, gained
  <2> QED BY <2>1, <2>2, <2>3
<1> HIDE DEF lost, rejects, gained
<1> DEFINE F == [kind : {"downtime", "rejects", "offset"}, impact : Int]
<1>3. ASSUME NEW kind \in {"downtime", "rejects", "offset"}, NEW n \in Int
      PROVE  /\ << Factor(kind, n) >> \in Seq(F) /\ Len(<< Factor(kind, n) >>) = 1
             /\ << Factor(kind, n) >>[1] = Factor(kind, n)
  <2>1. Factor(kind, n) \in F
    BY DEF Factor
  <2> HIDE DEF F
  <2> QED BY <2>1
<1>4. << >> \in Seq(F)
  <2> HIDE DEF F
  <2> QED OBVIOUS
<1>5. /\ a \in Seq(F)
      /\ \/ a = << >> /\ Total(f.rows, "downtime") = 0
         \/ Len(a) = 1 /\ a[1] = Factor("downtime", lost)
  <2> HIDE DEF F
  <2> QED BY <1>2, <1>3, <1>4
<1>6. /\ b \in Seq(F)
      /\ \/ b = << >> /\ rejects = 0
         \/ Len(b) = 1 /\ b[1] = Factor("rejects", rejects)
  <2> HIDE DEF F
  <2>1. CASE rejects = 0
    <3>1. b = << >>
      BY <2>1
    <3> HIDE DEF b
    <3> QED BY <1>4, <2>1, <3>1
  <2>2. CASE rejects # 0
    <3>1. b = << Factor("rejects", rejects) >>
      BY <2>2
    <3> HIDE DEF b
    <3> QED BY <1>2, <1>3, <3>1
  <2> QED BY <2>1, <2>2
<1>7. /\ c \in Seq(F)
      /\ \/ c = << >> /\ ~(gained # 0 /\ Short(f.rows) > 0)
         \/ Len(c) = 1 /\ c[1] = Factor("offset", -gained) /\ gained # 0
  <2> HIDE DEF F
  <2>1. CASE gained = 0 \/ Short(f.rows) <= 0
    <3>1. c = << >>
      BY <2>1
    <3>2. ~(gained # 0 /\ Short(f.rows) > 0)
      BY <1>2, <2>1
    <3> HIDE DEF c
    <3> QED BY <1>4, <3>1, <3>2
  <2>2. CASE ~(gained = 0 \/ Short(f.rows) <= 0)
    <3>1. c = << Factor("offset", -gained) >>
      BY <2>2
    <3> HIDE DEF c
    <3> QED BY <1>2, <1>3, <2>2, <3>1
  <2> QED BY <2>1, <2>2
<1> HIDE DEF a, b, c, found
<1>8. /\ found \in Seq(F) /\ Len(found) = Len(a) + Len(b) + Len(c)
      /\ \A j \in DOMAIN found :
           \/ j \in DOMAIN a /\ found[j] = a[j]
           \/ j - Len(a) \in DOMAIN b /\ found[j] = b[j - Len(a)]
           \/ j - Len(a) - Len(b) \in DOMAIN c /\ found[j] = c[j - Len(a) - Len(b)]
      /\ \A j \in DOMAIN a : j \in DOMAIN found /\ found[j] = a[j]
      /\ \A j \in DOMAIN b : Len(a) + j \in DOMAIN found /\ found[Len(a) + j] = b[j]
      /\ \A j \in DOMAIN c : /\ Len(a) + Len(b) + j \in DOMAIN found
                             /\ found[Len(a) + Len(b) + j] = c[j]
  <2> HIDE DEF F
  <2>1. /\ a \o b \in Seq(F) /\ Len(a \o b) = Len(a) + Len(b)
        /\ \A j \in DOMAIN a : j \in DOMAIN (a \o b) /\ (a \o b)[j] = a[j]
        /\ \A j \in DOMAIN b : Len(a) + j \in DOMAIN (a \o b) /\ (a \o b)[Len(a) + j] = b[j]
        /\ \A j \in DOMAIN (a \o b) : \/ j \in DOMAIN a /\ (a \o b)[j] = a[j]
                                      \/ j - Len(a) \in DOMAIN b /\ (a \o b)[j] = b[j - Len(a)]
    BY <1>5, <1>6
  <2> DEFINE d == a \o b
  <2>2. d \in Seq(F) /\ found = d \o c
    BY <1>1, <2>1
  <2> HIDE DEF d
  <2>3. /\ found \in Seq(F) /\ Len(found) = Len(d) + Len(c)
        /\ \A j \in DOMAIN d : j \in DOMAIN found /\ found[j] = d[j]
        /\ \A j \in DOMAIN c : Len(d) + j \in DOMAIN found /\ found[Len(d) + j] = c[j]
        /\ \A j \in DOMAIN found : \/ j \in DOMAIN d /\ found[j] = d[j]
                                   \/ j - Len(d) \in DOMAIN c /\ found[j] = c[j - Len(d)]
    BY <1>7, <2>2
  <2>4. Len(a) \in Nat /\ Len(b) \in Nat /\ Len(c) \in Nat
    BY <1>5, <1>6, <1>7
  <2>5. /\ Len(d) = Len(a) + Len(b)
        /\ \A j \in DOMAIN a : j \in DOMAIN d /\ d[j] = a[j]
        /\ \A j \in DOMAIN b : Len(a) + j \in DOMAIN d /\ d[Len(a) + j] = b[j]
        /\ \A j \in DOMAIN d : \/ j \in DOMAIN a /\ d[j] = a[j]
                               \/ j - Len(a) \in DOMAIN b /\ d[j] = b[j - Len(a)]
    BY <2>1 DEF d
  <2>6. ASSUME NEW j \in DOMAIN found
        PROVE  \/ j \in DOMAIN a /\ found[j] = a[j]
               \/ j - Len(a) \in DOMAIN b /\ found[j] = b[j - Len(a)]
               \/ j - Len(a) - Len(b) \in DOMAIN c /\ found[j] = c[j - Len(a) - Len(b)]
    <3>1. CASE j \in DOMAIN d /\ found[j] = d[j]
      BY <2>5, <3>1
    <3>2. CASE j - Len(d) \in DOMAIN c /\ found[j] = c[j - Len(d)]
      <4>1. j \in Int
        BY <2>3
      <4>2. j - Len(d) = j - Len(a) - Len(b)
        BY <2>4, <2>5, <4>1
      <4> QED BY <3>2, <4>2
    <3> QED BY <2>3, <3>1, <3>2
  <2>7. \A j \in DOMAIN a : j \in DOMAIN found /\ found[j] = a[j]
    BY <2>3, <2>5
  <2>8. \A j \in DOMAIN b : Len(a) + j \in DOMAIN found /\ found[Len(a) + j] = b[j]
    BY <2>3, <2>5
  <2>9. \A j \in DOMAIN c : /\ Len(a) + Len(b) + j \in DOMAIN found
                            /\ found[Len(a) + Len(b) + j] = c[j]
    BY <2>3, <2>5
  <2>10. found \in Seq(F) /\ Len(found) = Len(a) + Len(b) + Len(c)
    BY <2>3, <2>5
  <2> QED BY <2>6, <2>7, <2>8, <2>9, <2>10
<1>9. DOMAIN found = 1..Len(found) /\ Len(found) \in Nat
  BY <1>8
<1>10. \A j \in DOMAIN found : found[j].impact \in Int
  <2>1. \A j \in DOMAIN found : found[j] \in F
    <3> HIDE DEF F
    <3> QED BY <1>8
  <2> QED BY <2>1
<1> HIDE DEF F
<1>11. ASSUME NEW j \in DOMAIN found
       PROVE  \/ found[j] = Factor("downtime", lost)
              \/ found[j] = Factor("rejects", rejects)
              \/ found[j] = Factor("offset", -gained) /\ gained # 0
  <2>1. CASE j \in DOMAIN a /\ found[j] = a[j]
    BY <1>5, <2>1
  <2>2. CASE j - Len(a) \in DOMAIN b /\ found[j] = b[j - Len(a)]
    <3> DEFINE i == j - Len(a)
    <3>1. i \in DOMAIN b /\ found[j] = b[i]
      BY <2>2
    <3> HIDE DEF i
    <3> QED BY <1>6, <3>1
  <2>3. CASE j - Len(a) - Len(b) \in DOMAIN c /\ found[j] = c[j - Len(a) - Len(b)]
    <3> DEFINE i == j - Len(a) - Len(b)
    <3>1. i \in DOMAIN c /\ found[j] = c[i]
      BY <2>3
    <3> HIDE DEF i
    <3> QED BY <1>7, <3>1
  <2> QED BY <1>8, <2>1, <2>2, <2>3
<1>12. \A j \in DOMAIN found :
         \/ found[j].kind = "downtime" /\ found[j].impact = lost
         \/ found[j].kind = "rejects" /\ found[j].impact = rejects
         \/ found[j].kind = "offset" /\ found[j].impact = -gained /\ gained # 0
  BY <1>11 DEF Factor
<1>13. Total(f.rows, "downtime") # 0 =>
         \E j \in DOMAIN found : found[j] = Factor("downtime", lost)
  BY <1>5, <1>8
<1>14. rejects # 0 => \E j \in DOMAIN found : found[j] = Factor("rejects", rejects)
  BY <1>6, <1>8
<1>15. gained # 0 /\ Short(f.rows) > 0 =>
         \E j \in DOMAIN found : found[j] = Factor("offset", -gained)
  BY <1>7, <1>8
<1> QED BY <1>9, <1>10, <1>12, <1>13, <1>14, <1>15 DEF found, lost, rejects, gained

\* Every entry of xs is one of ys.
Within(xs, ys) == \A k \in DOMAIN xs : \E i \in DOMAIN ys : xs[k] = ys[i]

\* No factor comes before a larger one.
LargestFirst(xs) == \A i, j \in DOMAIN xs : i < j => Size(xs[i]) >= Size(xs[j])

\* The factors are those found, put in order: none is lost and none is added.
LEMMA FactorsAreFound ==
    ASSUME NEW rows, NEW cycle, NEW n \in Nat,
           DOMAIN Found(rows, cycle) = 1..n,
           \A j \in DOMAIN Found(rows, cycle) : Found(rows, cycle)[j].impact \in Int
    PROVE  /\ DOMAIN Factors(rows, cycle) = DOMAIN Found(rows, cycle)
           /\ Within(Factors(rows, cycle), Found(rows, cycle))
           /\ Within(Found(rows, cycle), Factors(rows, cycle))
           /\ LargestFirst(Factors(rows, cycle))
<1> DEFINE found == Found(rows, cycle)
           D == DOMAIN found
           R == { p \in D \X D : Outweighs(found, p[1], p[2]) }
           order == Sorted(D, LAMBDA i, j : Outweighs(found, i, j))
<1>1. D = 1..n
  OBVIOUS
<1>2. IsFiniteSet(D) /\ Cardinality(D) = n
  BY <1>1, FS_Interval
<1>3. \A i \in D : i \in Int /\ Size(found[i]) \in Int
  BY <1>1 DEF Size
<1> HIDE DEF found, D
<1>4. Decides(R, D)
  <2>1. \A i, j \in D : << i, j >> \in R <=> \/ Size(found[i]) > Size(found[j])
                                             \/ Size(found[i]) = Size(found[j]) /\ i < j
    BY DEF Outweighs
  <2> HIDE DEF R
  <2>2. \A i \in D : << i, i >> \notin R
    BY <1>3, <2>1
  <2>3. \A i, j \in D : i # j => << i, j >> \in R \/ << j, i >> \in R
    BY <1>3, <2>1
  <2>4. \A i, j, k \in D : << i, j >> \in R /\ << j, k >> \in R => << i, k >> \in R
    BY <1>3, <2>1
  <2> QED BY <2>2, <2>3, <2>4 DEF Decides
<1>5. order = CHOOSE seq \in [1..Cardinality(D) -> D] :
                \A i, j \in 1..Cardinality(D) : i < j => Outweighs(found, seq[i], seq[j])
  BY DEF Sorted
<1>6. ASSUME NEW seq \in [1..Cardinality(D) -> D]
      PROVE  (\A i, j \in 1..Cardinality(D) : i < j => Outweighs(found, seq[i], seq[j]))
                <=> InOrder(seq, D, R)
  BY DEF InOrder
<1>7. \E seq \in [1..Cardinality(D) -> D] :
          \A i, j \in 1..Cardinality(D) : i < j => Outweighs(found, seq[i], seq[j])
  <2>1. PICK seq : InOrder(seq, D, R)
    BY <1>2, <1>4, CanBeSorted
  <2> QED BY <1>6, <2>1 DEF InOrder
<1>8. InOrder(order, D, R)
  <2> HIDE DEF order, R
  <2> QED BY <1>5, <1>6, <1>7
<1> HIDE DEF order, R
<1>9. order \in [D -> D] /\ \A x \in D : \E i \in D : order[i] = x
  <2>1. order \in [1..Cardinality(D) -> D]
    BY <1>8 DEF InOrder
  <2>2. \A x \in D : \E i \in 1..Cardinality(D) : order[i] = x
    BY <1>2, <1>4, <1>8, OrderedIsWhole
  <2> QED BY <1>1, <1>2, <2>1, <2>2
<1>10. Factors(rows, cycle) = [j \in D |-> found[order[j]]]
  BY DEF Factors, found, D, order
<1>11. DOMAIN Factors(rows, cycle) = D /\ \A j \in D : Factors(rows, cycle)[j] = found[order[j]]
  BY <1>10
<1>12. \A j \in D : \E i \in D : Factors(rows, cycle)[j] = found[i]
  BY <1>9, <1>11
<1>13. \A i \in D : \E j \in D : Factors(rows, cycle)[j] = found[i]
  BY <1>9, <1>11
<1>14. \A i, j \in D : i < j => Size(Factors(rows, cycle)[i]) >= Size(Factors(rows, cycle)[j])
  <2>1. \A i, j \in D : i < j => Outweighs(found, order[i], order[j])
    BY <1>1, <1>2, <1>8, <1>6 DEF InOrder
  <2>2. ASSUME NEW i \in D, NEW j \in D, i < j
        PROVE  Size(found[order[i]]) >= Size(found[order[j]])
    <3>1. order[i] \in D /\ order[j] \in D
      BY <1>9
    <3>2. Size(found[order[i]]) \in Int /\ Size(found[order[j]]) \in Int
      BY <1>3, <3>1
    <3>3. \/ Size(found[order[i]]) > Size(found[order[j]])
          \/ Size(found[order[i]]) = Size(found[order[j]])
      BY <2>1, <2>2 DEF Outweighs
    <3> QED BY <3>2, <3>3
  <2> QED BY <1>11, <2>2
<1> QED BY <1>11, <1>12, <1>13, <1>14 DEF found, D, Within, LargestFirst

\* The sum over one element is its value.
LEMMA SumOfOne ==
    ASSUME NEW x, NEW g, g[x] \in Int
    PROVE  SumOver({x}, g) = g[x]
<1>1. IsFiniteSet({x})
  BY FS_Singleton
<1>2. SumOver({x}, g) = g[x] + SumOver({x} \ {x}, g)
  BY <1>1, SumPeels
<1>3. {x} \ {x} = {}
  OBVIOUS
<1> QED BY <1>2, <1>3, SumOfNone

\* The account balances, over any days and machines: the parts lost by the machines
\* below their plans are the net shortfall and the one offset named for it
\* (analysis.py:89-129, 183-197).
THEOREM AccountBalances == Spec => []LossesReconcile
<1>1. FindingInv => LossesReconcile
  <2> SUFFICES ASSUME FindingInv, JustConcluded("history"), run.found.short > 0
               PROVE  LET deltas == run.found.deltas
                          below  == { m \in DOMAIN deltas : deltas[m] < 0 }
                          made   == { x.impact : x \in { run.found.factors[j] :
                                        j \in { i \in DOMAIN run.found.factors :
                                                 run.found.factors[i].kind = "offset" } } }
                      IN  -SumOver(below, deltas)
                            = run.found.short - SumOver(made, [impact \in made |-> impact])
    BY DEF LossesReconcile
  <2> DEFINE f == case.facts
             deltas == Deltas(f.rows)
             below == { m \in DOMAIN deltas : deltas[m] < 0 }
             factors == Factors(f.rows, f.cycle)
             found == Found(f.rows, f.cycle)
             gained == Gained(f.rows)
             made == { x.impact : x \in { factors[j] :
                         j \in { i \in DOMAIN factors : factors[i].kind = "offset" } } }
  <2>1. HistoryFacts(f) /\ run = DeriveAnalysis(case)
    <3>1. case \in Cases /\ case.kind = "history" /\ run = Derive(case)
      BY DEF FindingInv, JustConcluded
    <3>2. Derive(case) = DeriveAnalysis(case)
      BY <3>1 DEF Derive
    <3> QED BY <3>1, <3>2, CasesAssumption
  <2>2. run.found = Analyse(f.rows, f.cycle)
    BY <2>1 DEF DeriveAnalysis
  <2>3. run.found.short = Short(f.rows) /\ run.found.deltas = deltas /\ run.found.factors = factors
    BY <2>2 DEF Analyse, Deltas
  <2>4. /\ gained \in Nat
        /\ -SumOver(below, deltas) = Short(f.rows) + gained
    BY <2>1, LossesAndGains
  <2>5. Short(f.rows) \in Int
    BY <2>1, ColumnsAreNat DEF Recorded, Short
  <2>6. /\ \A j \in DOMAIN found : found[j].kind = "offset" => found[j].impact = -gained /\ gained # 0
        /\ gained # 0 => \E j \in DOMAIN found : found[j] = Factor("offset", -gained)
    <3>1. Short(f.rows) > 0
      BY <2>3
    <3> QED BY <2>1, <3>1, WhatIsFound
  <2>7. /\ \A j \in DOMAIN factors : \E i \in DOMAIN found : factors[j] = found[i]
        /\ \A i \in DOMAIN found : \E j \in DOMAIN factors : factors[j] = found[i]
    <3>1. /\ \E n \in Nat : DOMAIN found = 1..n
          /\ \A j \in DOMAIN found : found[j].impact \in Int
      BY <2>1, <2>3, WhatIsFound
    <3>2. PICK n \in Nat : DOMAIN found = 1..n
      BY <3>1
    <3>3. \A j \in DOMAIN Found(f.rows, f.cycle) : Found(f.rows, f.cycle)[j].impact \in Int
      BY <3>1
    <3>4. DOMAIN Found(f.rows, f.cycle) = 1..n
      BY <3>2
    <3> HIDE DEF found, factors
    <3>5. /\ Within(Factors(f.rows, f.cycle), Found(f.rows, f.cycle))
          /\ Within(Found(f.rows, f.cycle), Factors(f.rows, f.cycle))
      BY <3>3, <3>4, FactorsAreFound
    <3> QED BY <3>5 DEF found, factors, Within
  <2> HIDE DEF gained, factors, found
  <2>8. made = IF gained = 0 THEN {} ELSE {-gained}
    <3>1. \A i \in DOMAIN factors :
             factors[i].kind = "offset" => factors[i].impact = -gained /\ gained # 0
      BY <2>6, <2>7
    <3>2. gained # 0 => \E i \in DOMAIN factors : factors[i] = Factor("offset", -gained)
      BY <2>6, <2>7
    <3>3. Factor("offset", -gained).kind = "offset" /\ Factor("offset", -gained).impact = -gained
      BY DEF Factor
    <3> QED BY <3>1, <3>2, <3>3
  <2> HIDE DEF made
  <2>9. SumOver(made, [impact \in made |-> impact]) = -gained
    <3>1. CASE gained = 0
      BY <2>8, <3>1, SumOfNone
    <3>2. CASE gained # 0
      <4> DEFINE same == [impact \in made |-> impact]
      <4>1. made = {-gained} /\ same[-gained] = -gained
        BY <2>8, <3>2
      <4> HIDE DEF same
      <4>2. SumOver({-gained}, same) = same[-gained]
        BY <2>4, <4>1, SumOfOne
      <4> QED BY <4>1, <4>2 DEF same
    <3> QED BY <3>1, <3>2
  <2>10. -SumOver(below, deltas) = Short(f.rows) - SumOver(made, [impact \in made |-> impact])
    <3> HIDE DEF below, deltas
    <3> QED BY <2>4, <2>5, <2>9
  <2> QED BY <2>3, <2>10 DEF made
<1> QED BY <1>1, FindingsInOrder, PTL

-----------------------------------------------------------------------------
(***************************************************************************)
(* The condition of a machine.                                             *)
(***************************************************************************)

Limit == [warning : (1..Finest) \cup {Null}, critical : Nat \cup {Null}]

\* When a reading counts as critical, as assessed, as a breach.
LEMMA Levels ==
    ASSUME NEW a \in Nat \cup {Null}, NEW limit \in Limit
    PROVE  /\ Level(a, limit) = "critical" <=>
                /\ a # Null /\ limit.warning # Null
                /\ limit.critical # Null /\ a >= limit.critical
           /\ Level(a, limit) = "not_assessable" <=> a = Null \/ limit.warning = Null
           /\ Level(a, limit) \in {"warning", "critical"} <=>
                /\ a # Null /\ limit.warning # Null
                /\ \/ limit.critical # Null /\ a >= limit.critical
                   \/ a >= limit.warning
<1>1. limit.warning \in Nat \cup {Null} /\ limit.critical \in Nat \cup {Null}
  <2>1. limit.warning \in (1..Finest) \cup {Null} /\ limit.critical \in Nat \cup {Null}
    BY DEF Limit
  <2>2. 1..Finest \subseteq Nat
    BY DEF Finest
  <2> QED BY <2>1, <2>2
<1>2. CASE a = Null \/ limit.warning = Null
  BY <1>2 DEF Level
<1>3. CASE /\ a # Null /\ limit.warning # Null
           /\ limit.critical # Null /\ a >= limit.critical
  BY <1>3 DEF Level
<1>4. CASE /\ a # Null /\ limit.warning # Null
           /\ ~(limit.critical # Null /\ a >= limit.critical)
  BY <1>4 DEF Level
<1> QED BY <1>2, <1>3, <1>4

\* What keeps a machine from going on.
LEMMA Stopped ==
    ASSUME NEW machine, machine.serviced \in BOOLEAN, NEW limits
    PROVE  ~Health(machine, limits).produces <=>
               \/ machine.status \in {"maintenance", "down"}
               \/ machine.serviced
               \/ \E r \in Rules : LevelOf(machine, limits, r) = "critical"
<1>1. Health(machine, limits).produces = (Reason(machine, limits) \in {"warned", "fine"})
  BY DEF Health
<1>2. CASE machine.status \in {"maintenance", "down"}
  <2>1. Reason(machine, limits) = "status"
    BY <1>2 DEF Reason
  <2> QED BY <1>1, <1>2, <2>1
<1>3. CASE machine.status \notin {"maintenance", "down"} /\ machine.serviced
  <2>1. Reason(machine, limits) = "maintenance"
    BY <1>3 DEF Reason
  <2> QED BY <1>1, <1>3, <2>1
<1>4. CASE machine.status \notin {"maintenance", "down"} /\ ~machine.serviced
  <2>1. Reason(machine, limits) =
          IF \E r \in Rules : LevelOf(machine, limits, r) = "critical" THEN "stop_limit"
          ELSE IF Breaching(machine, limits) # {} THEN "warned" ELSE "fine"
    BY <1>4 DEF Reason
  <2> QED BY <1>1, <1>4, <2>1
<1> QED BY <1>2, <1>3, <1>4

\* A stopped machine stays stopped when a reading rises.
LEMMA RisingStopsNothing ==
    ASSUME NEW f, HealthFacts(f), NEW x \in DOMAIN f.machines, NEW k \in Rules,
           f.machines[x].reading[k] # Null,
           ~Health(f.machines[x], f.limits).produces
    PROVE  ~Health([f.machines[x] EXCEPT !.reading[k] = @ + 1], f.limits).produces
<1> DEFINE machine == f.machines[x]
           hotter  == [machine EXCEPT !.reading[k] = @ + 1]
<1>1. /\ machine \in [status : STRING, serviced : BOOLEAN,
                      reading : [Rules -> Nat \cup {Null}]]
      /\ f.limits \in [Rules -> Limit]
  BY DEF HealthFacts, Limit
<1>2. /\ hotter.status = machine.status /\ hotter.serviced = machine.serviced
      /\ hotter.reading = [machine.reading EXCEPT ![k] = @ + 1]
  BY <1>1
<1>3. /\ hotter.reading[k] = machine.reading[k] + 1 /\ machine.reading[k] \in Nat
      /\ \A r \in Rules : r # k => hotter.reading[r] = machine.reading[r]
      /\ \A r \in Rules : /\ machine.reading[r] \in Nat \cup {Null}
                          /\ f.limits[r] \in Limit
  BY <1>1, <1>2
<1>4. \/ machine.status \in {"maintenance", "down"}
      \/ machine.serviced
      \/ \E r \in Rules : LevelOf(machine, f.limits, r) = "critical"
  BY <1>1, Stopped
<1>5. ASSUME NEW r \in Rules, LevelOf(machine, f.limits, r) = "critical"
      PROVE  LevelOf(hotter, f.limits, r) = "critical"
  <2> HIDE DEF machine, hotter
  <2> DEFINE a == machine.reading[r]
             b == hotter.reading[r]
             limit == f.limits[r]
  <2>1. a \in Nat \cup {Null} /\ limit \in Limit /\ (b = a \/ (b = a + 1 /\ a # Null))
    <3>1. a \in Nat \cup {Null} /\ limit \in Limit
      BY <1>3
    <3>2. CASE r = k
      <4>1. b = a + 1 /\ a = machine.reading[k]
        BY <1>3, <3>2
      <4>2. a # Null
        BY <1>3, <4>1 DEF Null
      <4> QED BY <3>1, <4>1, <4>2
    <3>3. CASE r # k
      <4>1. b = a
        BY <1>3, <3>3
      <4> QED BY <3>1, <4>1
    <3> QED BY <3>2, <3>3
  <2>2. b \in Nat \cup {Null} /\ (a # Null => (b # Null /\ b >= a))
    BY <2>1 DEF Null
  <2>3. Level(a, limit) = "critical"
    BY <1>5 DEF LevelOf
  <2> HIDE DEF a, b, limit
  <2>4. a # Null /\ limit.warning # Null /\ limit.critical # Null /\ a >= limit.critical
    BY <2>1, <2>3, Levels
  <2>5. limit.critical \in Nat
    BY <2>1, <2>4 DEF Limit
  <2>6. b >= limit.critical
    BY <2>1, <2>2, <2>4, <2>5 DEF Null
  <2>7. Level(b, limit) = "critical"
    BY <2>1, <2>2, <2>4, <2>6, Levels
  <2> QED BY <2>7 DEF LevelOf, b, limit
<1> HIDE DEF machine, hotter
<1>6. \/ hotter.status \in {"maintenance", "down"}
      \/ hotter.serviced
      \/ \E r \in Rules : LevelOf(hotter, f.limits, r) = "critical"
  BY <1>2, <1>4, <1>5
<1>7. hotter.serviced \in BOOLEAN
  BY <1>1, <1>2
<1>8. ~Health(hotter, f.limits).produces
  BY <1>6, <1>7, Stopped
<1> QED BY <1>8 DEF hotter, machine

\* Readings that differ have breaches that differ, and in the same order.
LEMMA BreachesAreFine ==
    ASSUME NEW a \in Nat, NEW b \in Nat, a > b, NEW w \in 1..Finest
    PROVE  /\ TenThousandths(a - w, w) \in Int /\ TenThousandths(b - w, w) \in Int
           /\ TenThousandths(a - w, w) > TenThousandths(b - w, w)
           /\ TenThousandths(b - w, w) >= Unmeasured
<1>1. w \in Nat \ {0} /\ w <= 10000
  BY DEF Finest
<1> DEFINE p == 20000 * (a - w) + w
           q == 20000 * (b - w) + w
           d == 2 * w
<1>2. p \in Int /\ q \in Int /\ d \in Nat \ {0} /\ d <= 20000 /\ p >= q + 20000
  BY <1>1
<1>3. q >= d * Unmeasured
  BY <1>1 DEF Unmeasured
<1> HIDE DEF p, q, d
<1>4. /\ p \div d \in Int /\ q \div d \in Int
      /\ p = d * (p \div d) + (p % d) /\ p % d \in 0..(d - 1)
      /\ q = d * (q \div d) + (q % d) /\ q % d \in 0..(d - 1)
  BY <1>2
<1> DEFINE x == p \div d
           y == q \div d
           r == p % d
           s == q % d
<1>5. /\ x \in Int /\ y \in Int /\ r \in 0..(d - 1) /\ s \in 0..(d - 1)
      /\ p = d * x + r /\ q = d * y + s
  BY <1>4
<1> HIDE DEF x, y, r, s
<1>6. x > y
  <2> SUFFICES ASSUME x <= y PROVE FALSE
    BY <1>5
  <2>1. d * x <= d * y /\ d * x \in Int /\ d * y \in Int
    BY <1>2, <1>5
  <2> QED BY <1>2, <1>5, <2>1
<1>7. y >= Unmeasured
  <2> SUFFICES ASSUME y <= Unmeasured - 1 PROVE FALSE
    BY <1>5 DEF Unmeasured
  <2>1. d * y <= d * (Unmeasured - 1)
    BY <1>2, <1>5 DEF Unmeasured
  <2>2. d * (Unmeasured - 1) = d * Unmeasured - d
    BY <1>2 DEF Unmeasured
  <2>3. d * Unmeasured \in Int /\ d * y \in Int
    BY <1>2, <1>5 DEF Unmeasured
  <2> QED BY <1>2, <1>3, <1>5, <2>1, <2>2, <2>3
<1>8. TenThousandths(a - w, w) = x /\ TenThousandths(b - w, w) = y
  BY DEF TenThousandths, x, y, p, q, d
<1> QED BY <1>5, <1>6, <1>7, <1>8

\* Hotter and shaking more.
Worse(f, x, y) == \A k \in Rules :
    /\ LevelOf(f.machines[y], f.limits, k) # "not_assessable"
    /\ f.machines[x].reading[k] > f.machines[y].reading[k]

\* The worst breach is the largest of those assessed, or that of a machine without
\* any.
LEMMA WorstIsAnInt ==
    ASSUME NEW machine, NEW limits,
           \A r \in Assessed(machine, limits) : RelativeBreach(machine, limits, r) \in Int
    PROVE  /\ Worst(machine, limits) \in Int
           /\ Worst(machine, limits) >= Unmeasured
           /\ \A r \in Assessed(machine, limits) :
                 Worst(machine, limits) >= RelativeBreach(machine, limits, r)
           /\ \/ Worst(machine, limits) = Unmeasured
              \/ \E r \in Assessed(machine, limits) :
                    Worst(machine, limits) = RelativeBreach(machine, limits, r)
<1> DEFINE on == Assessed(machine, limits)
           over == { RelativeBreach(machine, limits, r) : r \in on }
           all == {Unmeasured} \cup over
<1>1. on \in SUBSET {"temperature", "vibration"}
  BY DEF Assessed, Rules, Rule
<1>2. IsFiniteSet(all)
  <2> DEFINE t == RelativeBreach(machine, limits, "temperature")
             v == RelativeBreach(machine, limits, "vibration")
  <2>1. IsFiniteSet({Unmeasured} \cup {t} \cup {v})
    <3> HIDE DEF t, v
    <3> QED BY FS_Singleton, FS_Union
  <2>2. all \subseteq {Unmeasured} \cup {t} \cup {v}
    BY <1>1
  <2> HIDE DEF all, t, v
  <2> QED BY <2>1, <2>2, FS_Subset
<1>3. \E top \in all : \A y \in all : top >= y
  <2> DEFINE g == [z \in all |-> z]
  <2>1. IsFiniteSet(all) /\ all # {} /\ all \subseteq Int
    BY <1>2 DEF Unmeasured
  <2>2. \A z \in all : g[z] = z /\ g[z] \in Int
    BY <2>1
  <2> HIDE DEF all, g
  <2>3. \E z \in all : \A y \in all : g[y] <= g[z]
    BY <2>1, <2>2, Biggest
  <2> QED BY <2>1, <2>2, <2>3
<1>4. Worst(machine, limits) = Max(all)
  BY DEF Worst
<1>5. Max(all) \in all /\ \A y \in all : Max(all) >= y
  <2> HIDE DEF all
  <2> QED BY <1>3 DEF Max
<1>6. Unmeasured \in all /\ all \subseteq Int
  BY DEF Unmeasured
<1> HIDE DEF on
<1> QED BY <1>4, <1>5, <1>6 DEF on

\* What the rules say of any machine that can be read.
LEMMA HealthIsMeasured ==
    ASSUME NEW f, HealthFacts(f), NEW x \in DOMAIN f.machines
    PROVE  LET h == Health(f.machines[x], f.limits) IN
           /\ h.breaches = Cardinality(Breaching(f.machines[x], f.limits))
           /\ h.breaches \in Nat
           /\ h.assessable = (Assessed(f.machines[x], f.limits) = Rules)
           /\ h.worst = Worst(f.machines[x], f.limits)
           /\ h.worst \in Int
           /\ IsFiniteSet(Breaching(f.machines[x], f.limits))
<1> DEFINE machine == f.machines[x]
           on == Breaching(machine, f.limits)
<1>1. /\ machine.reading \in [Rules -> Nat \cup {Null}]
      /\ f.limits \in [Rules -> Limit]
  BY DEF HealthFacts, Limit
<1>2. IsFiniteSet(on) /\ Cardinality(on) \in Nat
  <2>1. on \subseteq {"temperature"} \cup {"vibration"}
    BY DEF Breaching, Rules, Rule
  <2>2. IsFiniteSet({"temperature"} \cup {"vibration"})
    BY FS_Singleton, FS_Union
  <2> QED BY <2>1, <2>2, FS_Subset, FS_CardinalityType
<1>3. ASSUME NEW r \in Assessed(machine, f.limits)
      PROVE  RelativeBreach(machine, f.limits, r) \in Int
  <2> DEFINE a == machine.reading[r]
             limit == f.limits[r]
  <2>1. r \in Rules /\ Level(a, limit) # "not_assessable"
    BY DEF Assessed, LevelOf
  <2>2. a \in Nat \cup {Null} /\ limit \in Limit
    BY <1>1, <2>1
  <2> HIDE DEF a, limit
  <2>3. a # Null /\ limit.warning # Null
    BY <2>1, <2>2, Levels
  <2>4. a \in Nat /\ limit.warning \in 1..Finest
    BY <2>2, <2>3 DEF Limit
  <2>5. a + 1 \in Nat /\ a + 1 > a
    BY <2>4
  <2>6. TenThousandths(a - limit.warning, limit.warning) \in Int
    BY <2>4, <2>5, BreachesAreFine
  <2> QED BY <2>6 DEF RelativeBreach, a, limit
<1>4. Worst(machine, f.limits) \in Int
  <2> HIDE DEF machine
  <2> QED BY <1>3, WorstIsAnInt
<1> QED BY <1>2, <1>4 DEF Health

\* Such a machine has as many breaches at least, and a worse one.
LEMMA WorseIsGreater ==
    ASSUME NEW f, HealthFacts(f), NEW x \in DOMAIN f.machines, NEW y \in DOMAIN f.machines,
           Worse(f, x, y)
    PROVE  LET hx == Health(f.machines[x], f.limits)
               hy == Health(f.machines[y], f.limits)
           IN  /\ hx.assessable /\ hy.assessable
               /\ hx.breaches >= hy.breaches
               /\ hx.worst > hy.worst
<1> DEFINE mx == f.machines[x]
           my == f.machines[y]
           over(m, r) == RelativeBreach(m, f.limits, r)
<1>1. \A r \in Rules : /\ mx.reading[r] \in Nat \cup {Null}
                       /\ my.reading[r] \in Nat \cup {Null}
                       /\ f.limits[r] \in Limit
  BY DEF HealthFacts, Limit
<1>2. \A r \in Rules : /\ Level(my.reading[r], f.limits[r]) # "not_assessable"
                       /\ mx.reading[r] > my.reading[r]
  BY DEF Worse, LevelOf
<1> HIDE DEF mx, my
<1>3. \A r \in Rules : /\ mx.reading[r] \in Nat /\ my.reading[r] \in Nat
                       /\ f.limits[r].warning \in 1..Finest
  <2> SUFFICES ASSUME NEW r \in Rules
               PROVE  /\ mx.reading[r] \in Nat /\ my.reading[r] \in Nat
                      /\ f.limits[r].warning \in 1..Finest
    OBVIOUS
  <2> DEFINE a == mx.reading[r]
             b == my.reading[r]
             limit == f.limits[r]
  <2>1. /\ a \in Nat \cup {Null} /\ b \in Nat \cup {Null} /\ limit \in Limit
        /\ Level(b, limit) # "not_assessable" /\ a > b
    BY <1>1, <1>2
  <2> HIDE DEF a, b, limit
  <2>2. b # Null /\ limit.warning # Null
    BY <2>1, Levels
  <2>3. b \in Nat /\ limit.warning \in 1..Finest
    BY <2>1, <2>2 DEF Limit
  <2>4. a \in Nat
    BY <2>1, <2>3 DEF Null
  <2> QED BY <2>3, <2>4 DEF a, b, limit
<1>4. \A r \in Rules : r \in Assessed(mx, f.limits) /\ r \in Assessed(my, f.limits)
  <2> SUFFICES ASSUME NEW r \in Rules
               PROVE  r \in Assessed(mx, f.limits) /\ r \in Assessed(my, f.limits)
    OBVIOUS
  <2> DEFINE a == mx.reading[r]
             limit == f.limits[r]
  <2>1. a \in Nat \cup {Null} /\ limit \in Limit /\ a # Null /\ limit.warning # Null
    <3>1. -1 \notin Nat /\ -1 \notin 1..Finest
      BY DEF Finest
    <3> QED BY <1>1, <1>3, <3>1 DEF Null
  <2> HIDE DEF a, limit
  <2>2. Level(a, limit) # "not_assessable"
    BY <2>1, Levels
  <2> QED BY <1>2, <2>2 DEF Assessed, LevelOf, a, limit
<1>5. Assessed(mx, f.limits) = Rules /\ Assessed(my, f.limits) = Rules
  BY <1>4 DEF Assessed
<1>6. \A r \in Rules : /\ over(mx, r) \in Int /\ over(my, r) \in Int
                       /\ over(mx, r) > over(my, r) /\ over(my, r) >= Unmeasured
  <2> SUFFICES ASSUME NEW r \in Rules
               PROVE  /\ over(mx, r) \in Int /\ over(my, r) \in Int
                      /\ over(mx, r) > over(my, r) /\ over(my, r) >= Unmeasured
    OBVIOUS
  <2> DEFINE a == mx.reading[r]
             b == my.reading[r]
             w == f.limits[r].warning
  <2>1. a \in Nat /\ b \in Nat /\ a > b /\ w \in 1..Finest
    BY <1>2, <1>3
  <2> HIDE DEF a, b, w
  <2>2. /\ TenThousandths(a - w, w) \in Int /\ TenThousandths(b - w, w) \in Int
        /\ TenThousandths(a - w, w) > TenThousandths(b - w, w)
        /\ TenThousandths(b - w, w) >= Unmeasured
    BY <2>1, BreachesAreFine
  <2> QED BY <2>2 DEF RelativeBreach, a, b, w
<1>7. Worst(mx, f.limits) > Worst(my, f.limits)
  <2> HIDE DEF over
  <2>1. \A r \in Rules : over(mx, r) = RelativeBreach(mx, f.limits, r)
                           /\ over(my, r) = RelativeBreach(my, f.limits, r)
    BY DEF over
  <2>2. /\ Worst(mx, f.limits) \in Int
        /\ \A r \in Rules : Worst(mx, f.limits) >= RelativeBreach(mx, f.limits, r)
    BY <1>5, <1>6, <2>1, WorstIsAnInt
  <2>3. /\ Worst(my, f.limits) \in Int
        /\ \/ Worst(my, f.limits) = Unmeasured
           \/ \E r \in Rules : Worst(my, f.limits) = RelativeBreach(my, f.limits, r)
    BY <1>5, <1>6, <2>1, WorstIsAnInt
  <2>4. "temperature" \in Rules /\ Unmeasured \in Int
    BY DEF Rules, Rule, Unmeasured
  <2>5. CASE Worst(my, f.limits) = Unmeasured
    BY <1>6, <2>1, <2>2, <2>4, <2>5
  <2>6. CASE \E r \in Rules : Worst(my, f.limits) = RelativeBreach(my, f.limits, r)
    BY <1>6, <2>1, <2>2, <2>6
  <2> QED BY <2>3, <2>5, <2>6
<1>8. Breaching(my, f.limits) \subseteq Breaching(mx, f.limits)
  <2> SUFFICES ASSUME NEW r \in Breaching(my, f.limits)
               PROVE  r \in Breaching(mx, f.limits)
    OBVIOUS
  <2> DEFINE a == mx.reading[r]
             b == my.reading[r]
             limit == f.limits[r]
  <2>1. r \in Rules /\ Level(b, limit) \in {"warning", "critical"}
    BY DEF Breaching, LevelOf
  <2>2. a \in Nat /\ b \in Nat /\ limit \in Limit /\ a > b
    BY <1>1, <1>2, <1>3, <2>1
  <2> HIDE DEF a, b, limit
  <2>3. a \in Nat \cup {Null} /\ b \in Nat \cup {Null} /\ a # Null
    BY <2>2 DEF Null
  <2>4. /\ limit.warning # Null
        /\ \/ limit.critical # Null /\ b >= limit.critical
           \/ b >= limit.warning
    BY <2>1, <2>2, <2>3, Levels
  <2>5. /\ limit.warning \in Int
        /\ limit.critical # Null => limit.critical \in Int
    BY <2>2, <2>4 DEF Limit
  <2>6. \/ limit.critical # Null /\ a >= limit.critical
        \/ a >= limit.warning
    BY <2>2, <2>4, <2>5
  <2>7. Level(a, limit) \in {"warning", "critical"}
    BY <2>2, <2>3, <2>4, <2>6, Levels
  <2> QED BY <2>1, <2>7 DEF Breaching, LevelOf, a, limit
<1>9. Cardinality(Breaching(mx, f.limits)) >= Cardinality(Breaching(my, f.limits))
  <2>1. IsFiniteSet(Breaching(mx, f.limits))
    BY HealthIsMeasured DEF mx
  <2>2. /\ Cardinality(Breaching(mx, f.limits)) \in Nat
        /\ Cardinality(Breaching(my, f.limits)) \in Nat
        /\ Cardinality(Breaching(my, f.limits)) <= Cardinality(Breaching(mx, f.limits))
    BY <1>8, <2>1, FS_Subset, FS_CardinalityType
  <2> QED BY <2>2
<1> QED BY <1>5, <1>7, <1>9 DEF Health, mx, my

\* Which machine goes before which.
Before(f) == { p \in (DOMAIN f.machines) \X (DOMAIN f.machines) :
                 Outranks(Healths(f), p[1], p[2]) }

\* Keys of three parts are compared part by part.
LEMMA GreaterOfThree ==
    ASSUME NEW a1 \in Int, NEW a2 \in Int, NEW a3 \in Int,
           NEW b1 \in Int, NEW b2 \in Int, NEW b3 \in Int
    PROVE  Greater(<< a1, a2, a3 >>, << b1, b2, b3 >>) <=>
               \/ a1 > b1
               \/ a1 = b1 /\ a2 > b2
               \/ a1 = b1 /\ a2 = b2 /\ a3 > b3
<1> DEFINE a == << a1, a2, a3 >>
           b == << b1, b2, b3 >>
           Over(j) == a[j] > b[j] /\ \A i \in 1..(j - 1) : a[i] = b[i]
<1>1. /\ DOMAIN a = 1..3
      /\ a[1] = a1 /\ a[2] = a2 /\ a[3] = a3
      /\ b[1] = b1 /\ b[2] = b2 /\ b[3] = b3
  OBVIOUS
<1>2. Greater(a, b) <=> \E j \in DOMAIN a : Over(j)
  BY DEF Greater
<1> HIDE DEF a, b
<1>3. Over(1) <=> a1 > b1
  BY <1>1
<1>4. Over(2) <=> a1 = b1 /\ a2 > b2
  BY <1>1
<1>5. Over(3) <=> a1 = b1 /\ a2 = b2 /\ a3 > b3
  <2>1. \A i \in 1..2 : i = 1 \/ i = 2
    OBVIOUS
  <2> QED BY <1>1, <2>1
<1> HIDE DEF Over
<1>6. (\E j \in DOMAIN a : Over(j)) <=> Over(1) \/ Over(2) \/ Over(3)
  <2>1. \A j \in 1..3 : j = 1 \/ j = 2 \/ j = 3
    OBVIOUS
  <2> QED BY <1>1, <2>1
<1> QED BY <1>2, <1>3, <1>4, <1>5, <1>6 DEF a, b

\* One machine goes before another by breaches, then by what is not known of it,
\* then by its worst breach, then by its place.
LEMMA WhichGoesFirst ==
    ASSUME NEW f, HealthFacts(f), NEW x \in DOMAIN f.machines, NEW y \in DOMAIN f.machines
    PROVE  LET hx == Health(f.machines[x], f.limits)
               hy == Health(f.machines[y], f.limits)
               cx == IF hx.assessable THEN 0 ELSE 1
               cy == IF hy.assessable THEN 0 ELSE 1
           IN  << x, y >> \in Before(f) <=>
                 \/ hx.breaches > hy.breaches
                 \/ hx.breaches = hy.breaches /\ cx > cy
                 \/ hx.breaches = hy.breaches /\ cx = cy /\ hx.worst > hy.worst
                 \/ hx.breaches = hy.breaches /\ cx = cy /\ hx.worst = hy.worst /\ x < y
<1> DEFINE hx == Health(f.machines[x], f.limits)
           hy == Health(f.machines[y], f.limits)
           cx == IF hx.assessable THEN 0 ELSE 1
           cy == IF hy.assessable THEN 0 ELSE 1
<1>1. << x, y >> \in Before(f) <=> \/ Greater(Key(hx), Key(hy))
                                   \/ Key(hx) = Key(hy) /\ x < y
  BY DEF Before, Outranks, Healths
<1>2. hx.breaches \in Int /\ hx.worst \in Int /\ hy.breaches \in Int /\ hy.worst \in Int
  BY HealthIsMeasured
<1> HIDE DEF hx, hy
<1>3. cx \in Int /\ cy \in Int
  OBVIOUS
<1>4. /\ Key(hx) = << hx.breaches, cx, hx.worst >>
      /\ Key(hy) = << hy.breaches, cy, hy.worst >>
  BY DEF Key
<1> HIDE DEF cx, cy
<1>5. Greater(Key(hx), Key(hy)) <=>
          \/ hx.breaches > hy.breaches
          \/ hx.breaches = hy.breaches /\ cx > cy
          \/ hx.breaches = hy.breaches /\ cx = cy /\ hx.worst > hy.worst
  <2> DEFINE a1 == hx.breaches
             a3 == hx.worst
             b1 == hy.breaches
             b3 == hy.worst
  <2>1. a1 \in Int /\ a3 \in Int /\ b1 \in Int /\ b3 \in Int
    BY <1>2
  <2>2. Key(hx) = << a1, cx, a3 >> /\ Key(hy) = << b1, cy, b3 >>
    BY <1>4
  <2> HIDE DEF a1, a3, b1, b3
  <2>3. Greater(<< a1, cx, a3 >>, << b1, cy, b3 >>) <=>
            \/ a1 > b1
            \/ a1 = b1 /\ cx > cy
            \/ a1 = b1 /\ cx = cy /\ a3 > b3
    BY <1>3, <2>1, GreaterOfThree
  <2> QED BY <2>2, <2>3 DEF a1, a3, b1, b3
<1>6. Key(hx) = Key(hy) <=>
          hx.breaches = hy.breaches /\ cx = cy /\ hx.worst = hy.worst
  BY <1>4
<1>7. << x, y >> \in Before(f) <=>
          \/ hx.breaches > hy.breaches
          \/ hx.breaches = hy.breaches /\ cx > cy
          \/ hx.breaches = hy.breaches /\ cx = cy /\ hx.worst > hy.worst
          \/ hx.breaches = hy.breaches /\ cx = cy /\ hx.worst = hy.worst /\ x < y
  BY <1>1, <1>5, <1>6
<1> QED BY <1>7 DEF hx, hy, cx, cy

\* The sort leaves no two machines undecided.
LEMMA AttentionDecides ==
    ASSUME NEW f, HealthFacts(f)
    PROVE  Decides(Before(f), DOMAIN f.machines)
<1> DEFINE D == DOMAIN f.machines
           b == [m \in D |-> Health(f.machines[m], f.limits).breaches]
           c == [m \in D |-> IF Health(f.machines[m], f.limits).assessable THEN 0 ELSE 1]
           w == [m \in D |-> Health(f.machines[m], f.limits).worst]
<1>1. \A x, y \in D : << x, y >> \in Before(f) <=>
          \/ b[x] > b[y]
          \/ b[x] = b[y] /\ c[x] > c[y]
          \/ b[x] = b[y] /\ c[x] = c[y] /\ w[x] > w[y]
          \/ b[x] = b[y] /\ c[x] = c[y] /\ w[x] = w[y] /\ x < y
  <2> SUFFICES ASSUME NEW x \in D, NEW y \in D
               PROVE  << x, y >> \in Before(f) <=>
                        \/ b[x] > b[y]
                        \/ b[x] = b[y] /\ c[x] > c[y]
                        \/ b[x] = b[y] /\ c[x] = c[y] /\ w[x] > w[y]
                        \/ b[x] = b[y] /\ c[x] = c[y] /\ w[x] = w[y] /\ x < y
    OBVIOUS
  <2> QED BY WhichGoesFirst
<1>2. \A x \in D : x \in Int /\ b[x] \in Int /\ c[x] \in Int /\ w[x] \in Int
  <2>1. D \subseteq Int
    <3>1. D \subseteq Machine
      BY DEF HealthFacts
    <3> QED BY <3>1, MachinesAreFew
  <2> QED BY <2>1, HealthIsMeasured
<1> HIDE DEF D, b, c, w
<1>3. \A x \in D : << x, x >> \notin Before(f)
  BY <1>1, <1>2
<1>4. \A x, y \in D : x # y => << x, y >> \in Before(f) \/ << y, x >> \in Before(f)
  BY <1>1, <1>2
<1>5. \A x, y, z \in D :
          << x, y >> \in Before(f) /\ << y, z >> \in Before(f) => << x, z >> \in Before(f)
  BY <1>1, <1>2
<1> QED BY <1>3, <1>4, <1>5 DEF Decides, D

\* So the ranking is in that order, and has each machine once.
LEMMA RankingIsInOrder ==
    ASSUME NEW f, HealthFacts(f)
    PROVE  InOrder(Ranking(Healths(f)), DOMAIN f.machines, Before(f))
<1> DEFINE D == DOMAIN f.machines
           n == Cardinality(D)
           rank == Ranking(Healths(f))
           Right(seq) == \A i, j \in 1..n : i < j => Outranks(Healths(f), seq[i], seq[j])
<1>1. DOMAIN Healths(f) = D
  BY DEF Healths
<1>2. rank = CHOOSE seq \in [1..n -> D] : Right(seq)
  BY <1>1 DEF Ranking, Sorted
<1>3. ASSUME NEW seq \in [1..n -> D]
      PROVE  Right(seq) <=> InOrder(seq, D, Before(f))
  BY DEF InOrder, Before
<1>4. \E seq \in [1..n -> D] : Right(seq)
  <2>1. IsFiniteSet(D)
    BY MachinesAreFew DEF HealthFacts
  <2>2. PICK seq : InOrder(seq, D, Before(f))
    BY <2>1, AttentionDecides, CanBeSorted
  <2> QED BY <1>3, <2>2 DEF InOrder
<1> HIDE DEF rank, Right
<1>5. rank \in [1..n -> D] /\ Right(rank)
  BY <1>2, <1>4
<1> QED BY <1>3, <1>5 DEF rank

\* For any machines and any readings: no reading that rises lets a stopped machine
\* go on, and the machine that is hotter and shakes more is never ranked behind
\* (rules.py:77-167, 170-189).
THEOREM WorseNeverHelps == Spec => []WorseIsNeverBetter
<1>1. FindingInv => WorseIsNeverBetter
  <2> SUFFICES ASSUME FindingInv, JustConcluded("health")
               PROVE  WorseIsNeverBetter
    BY DEF WorseIsNeverBetter
  <2> DEFINE f == case.facts
             rank == Ranking(run.found)
             worse(x, y) == \A k \in Rules :
                /\ LevelOf(f.machines[y], f.limits, k) # "not_assessable"
                /\ f.machines[x].reading[k] > f.machines[y].reading[k]
  <2>1. HealthFacts(f) /\ run.found = Healths(f)
    <3>1. case \in Cases /\ case.kind = "health" /\ run = Derive(case)
      BY DEF FindingInv, JustConcluded
    <3>2. Derive(case) = DeriveHealth(case)
      BY <3>1 DEF Derive
    <3>3. DeriveHealth(case).found = Healths(f)
      BY DEF DeriveHealth
    <3> QED BY <3>1, <3>2, <3>3, CasesAssumption
  <2>2. ASSUME NEW x \in DOMAIN f.machines, NEW k \in Rules,
               ~run.found[x].produces, f.machines[x].reading[k] # Null
        PROVE  ~Health([f.machines[x] EXCEPT !.reading[k] = @ + 1], f.limits).produces
    <3>1. ~Health(f.machines[x], f.limits).produces
      BY <2>1, <2>2 DEF Healths
    <3> QED BY <2>1, <2>2, <3>1, RisingStopsNothing
  <2>3. InOrder(rank, DOMAIN f.machines, Before(f))
    BY <2>1, RankingIsInOrder
  <2>4. ASSUME NEW i \in DOMAIN rank, NEW j \in DOMAIN rank, worse(rank[i], rank[j])
        PROVE  i < j
    <3> DEFINE x == rank[i]
               y == rank[j]
               n == Cardinality(DOMAIN f.machines)
    <3>1. n \in Nat
      BY <2>1, MachinesAreFew, FS_CardinalityType DEF HealthFacts
    <3>2. /\ i \in 1..n /\ j \in 1..n
          /\ x \in DOMAIN f.machines /\ y \in DOMAIN f.machines
          /\ j < i => << y, x >> \in Before(f)
      BY <2>3 DEF InOrder
    <3>3. Worse(f, x, y)
      BY <2>4 DEF Worse
    <3> HIDE DEF x, y, n, f
    <3>4. << y, x >> \notin Before(f)
      <4> DEFINE hx == Health(f.machines[x], f.limits)
                 hy == Health(f.machines[y], f.limits)
      <4>1. /\ hx.breaches \in Int /\ hx.worst \in Int
            /\ hy.breaches \in Int /\ hy.worst \in Int
        BY <2>1, <3>2, HealthIsMeasured
      <4>2. /\ hx.assessable /\ hy.assessable
            /\ hx.breaches >= hy.breaches /\ hx.worst > hy.worst
        BY <2>1, <3>2, <3>3, WorseIsGreater
      <4>3. << y, x >> \in Before(f) <=>
              \/ hy.breaches > hx.breaches
              \/ /\ hy.breaches = hx.breaches
                 /\ (IF hy.assessable THEN 0 ELSE 1) > (IF hx.assessable THEN 0 ELSE 1)
              \/ /\ hy.breaches = hx.breaches
                 /\ (IF hy.assessable THEN 0 ELSE 1) = (IF hx.assessable THEN 0 ELSE 1)
                 /\ hy.worst > hx.worst
              \/ /\ hy.breaches = hx.breaches
                 /\ (IF hy.assessable THEN 0 ELSE 1) = (IF hx.assessable THEN 0 ELSE 1)
                 /\ hy.worst = hx.worst /\ y < x
        BY <2>1, <3>2, WhichGoesFirst
      <4> HIDE DEF hx, hy
      <4> QED BY <4>1, <4>2, <4>3
    <3>5. i # j
      <4>1. \A k \in Rules : f.machines[y].reading[k] \in Int
        BY <2>1, <3>2 DEF HealthFacts, Null
      <4>2. "temperature" \in Rules
        BY DEF Rules, Rule
      <4>3. x = y => FALSE
        BY <3>3, <4>1, <4>2 DEF Worse
      <4> QED BY <4>3 DEF x, y
    <3> QED BY <3>1, <3>2, <3>4, <3>5
  <2> QED BY <2>2, <2>4 DEF WorseIsNeverBetter
<1> QED BY <1>1, FindingsInOrder, PTL

-----------------------------------------------------------------------------
(***************************************************************************)
(* What the check demands, and what it objects to.                         *)
(***************************************************************************)

\* Nothing is missing when each part of the finding is stated.
LEMMA NothingMissing ==
    ASSUME NEW t, NEW r
    PROVE  MissingClaims(t, r) = {} <=>
             /\ \/ r.headline.value = Null \/ r.intent \in NamesAMachine
                \/ Near(r.headline.value, { f.v : f \in t.figures })
             /\ r.headline.machine \subseteq t.names
             /\ ~(r.headline.verdict = "cannot" /\ ~t.denies)
             /\ ~(r.headline.verdict = "can" /\ t.denies)
             /\ IsCapacity(r) => r.constraint.bottleneck \subseteq t.names
             /\ IsCapacity(r) => t.blames = {} \/ r.found.binding \in t.blames
             /\ IsCapacity(r) => \/ r.constraint.bottleneck # {} \/ t.names = {}
                                 \/ ~t.limits \/ t.level
  BY DEF MissingClaims

\* Nothing is wrong when none of the rules objects.
LEMMA NothingWrong ==
    ASSUME NEW t, NEW r
    PROVE  WrongClaims(t, r) = {} <=>
             /\ \A f \in t.figures : ~WrongUnit(f, r)
             /\ IsCapacity(r) => t.totals \subseteq EngineTotals(r)
             /\ IsCapacity(r) => ~(r.constraint.bottleneck # {} /\ t.asHours)
             /\ IsCapacity(r) => ~BlamesSmaller(t, r)
             /\ IsHealth(r) => \A s \in t.stops :
                    Limits(r, s[1]) = {} \/ Near(s[2], Limits(r, s[1]))
             /\ IsHealth(r) => (t.active =>
                    \A m \in t.names \cap DOMAIN r.found : ~r.found[m].produces)
             /\ IsAnalysis(r) => ~(r.found.rejected > 0 /\ WrongRejects(t, r))
             /\ IsAnalysis(r) => ~(r.found.rejected > 0 /\ t.offsets)
             /\ IsAnalysis(r) => ~WrongMain(t, r)
  BY DEF WrongClaims

\* A machine's share is not negative, wherever the double of its hours lies.
LEMMA SharesAreNat ==
    ASSUME NEW f, CapacityFacts(f)
    PROVE  /\ \A m \in DOMAIN f.rows : PartsPossible(f.rows[m], f.cycle) \in Nat
           /\ MachineCapacity(f.rows, f.cycle) \in Nat
           /\ MaterialCapacity(f.stock, f.qty) \in Nat
<1>1. IsFiniteSet(DOMAIN f.rows) /\ IsFiniteSet(Eligible(f.rows))
  <2>1. IsFiniteSet(DOMAIN f.rows)
    BY MachinesAreFew DEF CapacityFacts
  <2>2. Eligible(f.rows) \subseteq DOMAIN f.rows
    BY DEF Eligible
  <2> QED BY <2>1, <2>2, FS_Subset
<1>2. ASSUME NEW m \in DOMAIN f.rows
      PROVE  PartsPossible(f.rows[m], f.cycle) \in Nat
  <2> DEFINE row == f.rows[m]
             c == f.cycle
             w == Whole(row)
  <2>1. /\ row.planned \in Nat /\ row.maintenance \in Nat
        /\ Off(row) \in {-1, 0, 1} /\ c \in Nat \ {0}
    BY DEF CapacityFacts
  <2>2. w \in Nat
    BY <2>1, WholeIsNat
  <2>3. Off(row) = -1 => w >= 1
    BY <2>1 DEF Off, Whole
  <2>4. PartsPossible(row, c) = IF ~row.eligible THEN 0
                                ELSE IF Off(row) = -1 THEN (w * 60 - 1) \div c
                                ELSE (w * 60) \div c
    BY DEF PartsPossible
  <2> HIDE DEF row, c, w
  <2>5. (w * 60) \div c \in Nat
    BY <2>1, <2>2
  <2>6. Off(row) = -1 => (w * 60 - 1) \div c \in Nat
    <3>1. Off(row) = -1 => w * 60 - 1 \in Nat
      BY <2>2, <2>3
    <3> QED BY <2>1, <3>1, DivMod
  <2> QED BY <2>4, <2>5, <2>6 DEF row, c
<1>3. MachineCapacity(f.rows, f.cycle) \in Nat
  <2> DEFINE E == Eligible(f.rows)
             g == Shares(f.rows, f.cycle)
  <2>1. \A m \in E : g[m] \in Nat
    BY <1>2 DEF Eligible, Shares
  <2>2. MachineCapacity(f.rows, f.cycle) = SumOver(E, g)
    BY <1>1, CapacityIsASum
  <2> HIDE DEF E, g
  <2> QED BY <1>1, <2>1, <2>2, SumOfNats DEF E
<1>4. MaterialCapacity(f.stock, f.qty) \in Nat
  BY DEF MaterialCapacity, CapacityFacts
<1> QED BY <1>2, <1>3, <1>4

\* Figures that count whole parts are near only when they are equal.
LEMMA NearIsEqual ==
    ASSUME NEW a \in Nat, NEW b \in Nat, Near(Hundredths(a), {Hundredths(b)})
    PROVE  a = b
  BY DEF Near, Hundredths, Abs

\* What a draft about a capacity says.
LEMMA CapacityDraftSays ==
    ASSUME NEW r, NEW t \in NamingDrafts(r) \cup BlamingDrafts(r)
    PROVE  \E n \in Amounts(r) :
             /\ t.figures = {Figure(n, "parts")} /\ t.totals = {Hundredths(n)}
             /\ t.limits = TRUE /\ t.level = FALSE
             /\ \/ \E m \in DOMAIN r.facts.rows : t.names = {m} /\ t.blames = {}
                \/ \E what \in {"machine", "material"} : t.names = {} /\ t.blames = {what}
<1>1. CASE t \in NamingDrafts(r)
  <2>1. PICK n \in Amounts(r), m \in DOMAIN r.facts.rows, why \in Grounds :
               t = NamingDraft(n, m, why)
    BY <1>1 DEF NamingDrafts
  <2>2. /\ t.figures = {Figure(n, "parts")} /\ t.totals = {Hundredths(n)}
        /\ t.limits = TRUE /\ t.level = FALSE
        /\ t.names = {m} /\ t.blames = {}
    BY <2>1 DEF NamingDraft, Silent
  <2> QED BY <2>1, <2>2
<1>2. CASE t \in BlamingDrafts(r)
  <2>1. PICK n \in Amounts(r), what \in {"machine", "material"} : t = BlamingDraft(n, what)
    BY <1>2 DEF BlamingDrafts
  <2>2. /\ t.figures = {Figure(n, "parts")} /\ t.totals = {Hundredths(n)}
        /\ t.limits = TRUE /\ t.level = FALSE
        /\ t.names = {} /\ t.blames = {what}
    BY <2>1 DEF BlamingDraft, Silent
  <2> QED BY <2>1, <2>2
<1> QED BY <1>1, <1>2

\* The run of a capacity holds what the engine computed.
LEMMA CapacityRun ==
    ASSUME NEW c, CapacityFacts(c.facts)
    PROVE  LET f == c.facts
               r == DeriveCapacity(c)
               byMachine  == MachineCapacity(f.rows, f.cycle)
               byMaterial == MaterialCapacity(f.stock, f.qty)
           IN  /\ r.facts = f /\ r.kind = c.kind /\ r.intent = c.intent
               /\ r.found.machine = byMachine /\ r.found.material = byMaterial
               /\ byMachine \in Nat /\ byMaterial \in Nat
               /\ r.found.final = Min({byMachine, byMaterial})
               /\ r.found.final = IF byMachine <= byMaterial THEN byMachine ELSE byMaterial
               /\ r.found.binding = IF byMaterial < byMachine THEN "material" ELSE "machine"
               /\ r.found.shares = [m \in DOMAIN f.rows |-> PartsPossible(f.rows[m], f.cycle)]
               /\ \A m \in DOMAIN f.rows : r.found.shares[m] \in Nat
               /\ r.constraint = Constraint(f.rows, r.found)
<1> DEFINE f == c.facts
           byMachine  == MachineCapacity(f.rows, f.cycle)
           byMaterial == MaterialCapacity(f.stock, f.qty)
           r == DeriveCapacity(c)
<1>1. /\ r.facts = f /\ r.kind = c.kind /\ r.intent = c.intent
      /\ r.found = Calculate(f.rows, f.cycle, f.qty, f.stock)
      /\ r.constraint = Constraint(f.rows, r.found)
  BY DEF DeriveCapacity
<1>2. /\ byMachine \in Nat /\ byMaterial \in Nat
      /\ \A m \in DOMAIN f.rows : PartsPossible(f.rows[m], f.cycle) \in Nat
  BY SharesAreNat
<1> HIDE DEF r
<1>3. /\ r.found.machine = byMachine /\ r.found.material = byMaterial
      /\ r.found.final = Min({byMachine, byMaterial})
      /\ r.found.binding = IF byMaterial < byMachine THEN "material" ELSE "machine"
      /\ r.found.shares = [m \in DOMAIN f.rows |-> PartsPossible(f.rows[m], f.cycle)]
  BY <1>1 DEF Calculate
<1>4. Min({byMachine, byMaterial}) = IF byMachine <= byMaterial THEN byMachine ELSE byMaterial
  <2> HIDE DEF byMachine, byMaterial
  <2> QED BY <1>2, SmallerOfTwo
<1> QED BY <1>1, <1>2, <1>3, <1>4 DEF r

\* Its amounts are whole, and none is negative.
LEMMA AmountsAreNat ==
    ASSUME NEW c, CapacityFacts(c.facts), NEW n \in Amounts(DeriveCapacity(c))
    PROVE  n \in Nat
<1> DEFINE f == c.facts
           r == DeriveCapacity(c)
<1>1. /\ r.facts = f /\ r.found.machine \in Nat /\ r.found.material \in Nat
      /\ r.found.final \in Nat
      /\ DOMAIN r.found.shares = DOMAIN f.rows
      /\ \A m \in DOMAIN f.rows : r.found.shares[m] \in Nat
  BY CapacityRun
<1>2. \A m \in DOMAIN f.rows : Whole(f.rows[m]) \in Nat
  BY WholeIsNat DEF CapacityFacts
<1> HIDE DEF r
<1>3. n \in Amounts(r)
  BY DEF r
<1> QED BY <1>1, <1>2, <1>3 DEF Amounts

\* The machine that is named is alone in having the fewest hours, is no more than
\* the material, and the cause is the larger one.
LEMMA TheOneNamed ==
    ASSUME NEW c, CapacityFacts(c.facts), DeriveCapacity(c).constraint.bottleneck # {}
    PROVE  \E m \in Eligible(c.facts.rows) :
             /\ DeriveCapacity(c).constraint.bottleneck = {m}
             /\ DeriveCapacity(c).constraint.cause = MainCause(c.facts.rows, m)
             /\ FewestHours(c.facts.rows) = {m}
             /\ DeriveCapacity(c).found.binding = "machine"
<1> DEFINE f == c.facts
           r == DeriveCapacity(c)
           least == FewestHours(f.rows)
<1>1. /\ r.constraint = Constraint(f.rows, r.found) /\ r.constraint.bottleneck # {}
      /\ r.found.binding \in {"material", "machine"}
  BY CapacityRun
<1>2. IsFiniteSet(least) /\ least \subseteq Eligible(f.rows)
  BY MachinesAreFew, FS_Subset DEF CapacityFacts, Eligible, FewestHours
<1> HIDE DEF r
<1>3. r.found.binding = "machine"
  <2>1. r.found.binding = "material" =>
          r.constraint = [kind |-> "material", bottleneck |-> {}, cause |-> None]
    BY <1>1 DEF Constraint
  <2> QED BY <1>1, <2>1
<1>4. Cardinality(least) = 1
  <2>1. Cardinality(least) # 1 =>
          r.constraint = [kind |-> None, bottleneck |-> {}, cause |-> None]
    BY <1>1, <1>3 DEF Constraint
  <2> QED BY <1>1, <2>1
<1> HIDE DEF least
<1>5. PICK m : least = {m}
  BY <1>2, <1>4, FS_Singleton
<1>6. r.constraint = [kind |-> "machine", bottleneck |-> {m}, cause |-> MainCause(f.rows, m)]
  <2>1. (CHOOSE x \in {m} : TRUE) = m
    OBVIOUS
  <2> QED BY <1>1, <1>3, <1>4, <1>5, <2>1 DEF Constraint, least
<1> QED BY <1>2, <1>3, <1>5, <1>6 DEF r, least

\* A draft about a capacity that passes the check is so (validator.py:414-474).
LEMMA AcceptedCapacity ==
    ASSUME NEW c, CapacityFacts(c.facts), c.kind = "capacity",
           c.intent \in {"production_capacity", "bottleneck"},
           NEW t \in NamingDrafts(DeriveCapacity(c)) \cup BlamingDrafts(DeriveCapacity(c)),
           Grounded(t, DeriveCapacity(c))
    PROVE  CapacityIsSo(c.facts, c.intent, t)
<1> DEFINE f == c.facts
           r == DeriveCapacity(c)
           byMachine  == MachineCapacity(f.rows, f.cycle)
           byMaterial == MaterialCapacity(f.stock, f.qty)
<1>1. PICK n \in Amounts(r) :
         /\ t.figures = {Figure(n, "parts")} /\ t.totals = {Hundredths(n)}
         /\ t.limits = TRUE /\ t.level = FALSE
         /\ \/ \E m \in DOMAIN r.facts.rows : t.names = {m} /\ t.blames = {}
            \/ \E what \in {"machine", "material"} : t.names = {} /\ t.blames = {what}
  BY CapacityDraftSays
<1>2. n \in Nat
  BY AmountsAreNat
<1>3. /\ byMachine \in Nat /\ byMaterial \in Nat
      /\ r.found.machine = byMachine /\ r.found.material = byMaterial
      /\ r.found.final = Min({byMachine, byMaterial})
      /\ r.found.final = IF byMachine <= byMaterial THEN byMachine ELSE byMaterial
      /\ r.found.binding = IF byMaterial < byMachine THEN "material" ELSE "machine"
      /\ r.kind = "capacity" /\ r.intent = c.intent
  BY CapacityRun
<1>4. /\ \/ r.headline.value = Null \/ r.intent \in NamesAMachine
         \/ Near(r.headline.value, { x.v : x \in t.figures })
      /\ r.constraint.bottleneck \subseteq t.names
      /\ t.blames = {} \/ r.found.binding \in t.blames
      /\ r.constraint.bottleneck # {} \/ t.names = {}
      /\ t.totals \subseteq EngineTotals(r)
      /\ ~BlamesSmaller(t, r)
  <2>1. MissingClaims(t, r) = {} /\ WrongClaims(t, r) = {} /\ IsCapacity(r)
    BY <1>3 DEF Grounded, IsCapacity
  <2> HIDE DEF r
  <2>2. /\ \/ r.headline.value = Null \/ r.intent \in NamesAMachine
           \/ Near(r.headline.value, { x.v : x \in t.figures })
        /\ r.constraint.bottleneck \subseteq t.names
        /\ t.blames = {} \/ r.found.binding \in t.blames
        /\ r.constraint.bottleneck # {} \/ t.names = {} \/ ~t.limits \/ t.level
    BY <2>1, NothingMissing
  <2>3. t.totals \subseteq EngineTotals(r) /\ ~BlamesSmaller(t, r)
    BY <2>1, NothingWrong
  <2> QED BY <1>1, <2>2, <2>3
<1>5. c.intent # "bottleneck" => n = Min({byMachine, byMaterial})
  <2> SUFFICES ASSUME c.intent = "production_capacity" PROVE n = Min({byMachine, byMaterial})
    OBVIOUS
  <2>1. r.headline.value = Hundredths(r.found.final)
    BY DEF DeriveCapacity, Headline
  <2>2. r.found.final \in Nat
    BY <1>3
  <2>3. { x.v : x \in t.figures } = {Hundredths(n)}
    BY <1>1, <1>2 DEF Figure, Abs
  <2>4. Hundredths(r.found.final) # Null
    BY <2>2 DEF Hundredths, Null
  <2>5. Near(Hundredths(r.found.final), {Hundredths(n)})
    BY <1>3, <1>4, <2>1, <2>3, <2>4 DEF NamesAMachine
  <2>6. r.found.final = n
    <3> HIDE DEF r
    <3> QED BY <1>2, <2>2, <2>5, NearIsEqual
  <2> QED BY <1>3, <2>6
<1>6. c.intent = "bottleneck" => n \in {byMachine, byMaterial}
  <2>1. Hundredths(n) \in EngineTotals(r)
    BY <1>1, <1>4
  <2>2. PICK k \in {r.found.final, r.found.machine, r.found.material} : Hundredths(n) = Hundredths(k)
    BY <2>1 DEF EngineTotals
  <2>3. k \in {byMachine, byMaterial}
    BY <1>3, <2>2
  <2>4. k \in Nat
    BY <1>3, <2>3
  <2>5. n = k
    BY <1>2, <2>2, <2>4 DEF Hundredths
  <2> QED BY <2>3, <2>5
<1>7. t.totals \subseteq { Hundredths(k) : k \in IF c.intent = "bottleneck" THEN {byMachine, byMaterial}
                                                 ELSE {Min({byMachine, byMaterial})} }
  <2> HIDE DEF byMachine, byMaterial
  <2> QED BY <1>1, <1>5, <1>6
<1>8. ASSUME NEW m \in t.names
      PROVE  /\ m \in Eligible(f.rows) /\ FewestHours(f.rows) = {m}
             /\ r.constraint.bottleneck = {m} /\ r.constraint.cause = MainCause(f.rows, m)
             /\ r.found.binding = "machine"
  <2>1. r.constraint.bottleneck # {}
    BY <1>4, <1>8
  <2>2. t.names = {m}
    BY <1>1, <1>8
  <2>3. PICK x \in Eligible(f.rows) :
          /\ r.constraint.bottleneck = {x} /\ r.constraint.cause = MainCause(f.rows, x)
          /\ FewestHours(f.rows) = {x} /\ r.found.binding = "machine"
    BY <2>1, TheOneNamed
  <2>4. x = m
    BY <1>4, <2>2, <2>3
  <2> QED BY <2>3, <2>4
<1>9. ASSUME NEW m \in t.names, NEW o \in Eligible(f.rows) \ {m}
      PROVE  Hours(f.rows[m]) < Hours(f.rows[o])
  <2>1. \A x \in Eligible(f.rows) : Hours(f.rows[x]) \in Int
    <3>1. \A x \in Eligible(f.rows) : Whole(f.rows[x]) \in Nat /\ Off(f.rows[x]) \in Int
      BY WholeIsNat DEF CapacityFacts, Eligible
    <3> QED BY <3>1 DEF Hours
  <2>2. \A x \in Eligible(f.rows) : Hours(f.rows[m]) <= Hours(f.rows[x])
    BY <1>8 DEF FewestHours
  <2>3. ~(\A x \in Eligible(f.rows) : Hours(f.rows[o]) <= Hours(f.rows[x]))
    BY <1>8 DEF FewestHours
  <2>4. PICK x \in Eligible(f.rows) : ~(Hours(f.rows[o]) <= Hours(f.rows[x]))
    BY <2>3
  <2>5. Hours(f.rows[m]) <= Hours(f.rows[x]) /\ m \in Eligible(f.rows)
    BY <1>8, <2>2
  <2> QED BY <2>1, <2>4, <2>5
<1>10. ASSUME NEW m \in t.names, f.rows[m].planned > 0, f.rows[m].maintenance > 0,
              Shortfall(f.rows, m) > 0
       PROVE  /\ t.reasons = {"maintenance"} =>
                   WithoutMaintenance(f.rows, m) >= WithFullShifts(f.rows, m)
              /\ t.reasons = {"shift pattern"} =>
                   WithFullShifts(f.rows, m) >= WithoutMaintenance(f.rows, m)
  <2> DEFINE p == f.rows[m].planned
             s == Shortfall(f.rows, m)
             x == f.rows[m].maintenance
  <2>1. m \in Eligible(f.rows) /\ m \in DOMAIN f.rows
    BY <1>8 DEF Eligible
  <2>2. p \in Nat /\ x \in Nat /\ s \in Nat
    BY <2>1, ShortfallIsNat DEF CapacityFacts
  <2>3. MainCause(f.rows, m) \in {"maintenance", "shift pattern"}
    <3>1. MainCause(f.rows, m) = LargerReason(p, s, x)
      BY DEF MainCause
    <3>2. p > 0 /\ s > 0 /\ x > 0
      BY <1>10
    <3> HIDE DEF p, s, x
    <3>3. p # 0 /\ ~(s = 0 /\ x = 0)
      BY <2>2, <3>2
    <3>4. LargerReason(p, s, x) \in {"maintenance", "shift pattern"}
      BY <2>2, <3>3, Reasons
    <3> QED BY <3>1, <3>4
  <2>4. t.reasons # {} => MainCause(f.rows, m) \in t.reasons
    <3>1. r.facts = f
      BY CapacityRun
    <3>2. "maintenance" # None /\ "shift pattern" # None
      BY DEF None
    <3> QED BY <1>4, <1>8, <1>10, <2>3, <3>1, <3>2 DEF BlamesSmaller
  <2>5. /\ MainCause(f.rows, m) = "maintenance" =>
             WithoutMaintenance(f.rows, m) >= WithFullShifts(f.rows, m)
        /\ MainCause(f.rows, m) = "shift pattern" =>
             WithFullShifts(f.rows, m) >= WithoutMaintenance(f.rows, m)
    BY <2>1, TheReasonIsTheLarger
  <2> QED BY <2>4, <2>5
<1>11. /\ t.names # {} => byMachine <= byMaterial
       /\ "machine" \in t.blames  => byMachine <= byMaterial
       /\ "material" \in t.blames => byMaterial < byMachine
  <2>1. t.names # {} => r.found.binding = "machine"
    BY <1>8
  <2>2. t.blames # {} => t.blames = {r.found.binding}
    BY <1>1, <1>4
  <2> HIDE DEF r
  <2> QED BY <1>3, <2>1, <2>2
<1> QED BY <1>7, <1>9, <1>10, <1>11 DEF CapacityIsSo

\* What a draft about a machine says.
LEMMA HealthDraftSays ==
    ASSUME NEW r, NEW t \in HealthDrafts(r)
    PROVE  \E m \in DOMAIN r.found : /\ t.names = {m}
                                     /\ t.denies \in BOOLEAN /\ t.active \in BOOLEAN
<1>1. PICK m \in DOMAIN r.found, k \in Rules, no \in BOOLEAN, on \in BOOLEAN :
         t = HealthDraft(r, m, k, no, on)
  BY DEF HealthDrafts
<1> QED BY <1>1 DEF HealthDraft, Silent

\* The first of one machine is that machine.
LEMMA FirstOfOne ==
    ASSUME NEW f, HealthFacts(f), NEW m, DOMAIN f.machines = {m}
    PROVE  Ranking(Healths(f))[1] = m
<1> DEFINE seq == Ranking(Healths(f))
<1>1. InOrder(seq, DOMAIN f.machines, Before(f))
  BY RankingIsInOrder
<1>2. Cardinality({m}) = 1
  BY FS_Singleton
<1> HIDE DEF seq
<1>3. seq \in [1..1 -> {m}]
  BY <1>1, <1>2 DEF InOrder
<1> QED BY <1>3 DEF seq

\* A draft about a machine that passes the check is so (validator.py:636-689).
LEMMA AcceptedHealth ==
    ASSUME NEW c, HealthFacts(c.facts), c.kind = "health",
           c.intent = "machine_health" => \E m \in Machine : DOMAIN c.facts.machines = {m},
           NEW t \in HealthDrafts(DeriveHealth(c)), Grounded(t, DeriveHealth(c))
    PROVE  HealthIsSo(c.facts, c.intent, t)
<1> DEFINE f == c.facts
           r == DeriveHealth(c)
           found == Healths(f)
<1>1. r.found = found /\ r.kind = "health" /\ DOMAIN found = DOMAIN f.machines
  BY DEF DeriveHealth, Healths
<1>2. PICK m \in DOMAIN found : /\ t.names = {m}
                                /\ t.denies \in BOOLEAN /\ t.active \in BOOLEAN
  BY <1>1, HealthDraftSays
<1>3. found[m] = Health(f.machines[m], f.limits)
  BY <1>1 DEF Healths
<1>4. /\ ~(r.headline.verdict = "cannot" /\ ~t.denies)
      /\ ~(r.headline.verdict = "can" /\ t.denies)
      /\ t.active => \A x \in t.names \cap DOMAIN r.found : ~r.found[x].produces
  <2>1. MissingClaims(t, r) = {} /\ WrongClaims(t, r) = {} /\ IsHealth(r)
    BY <1>1 DEF Grounded, IsHealth
  <2> HIDE DEF r
  <2> QED BY <2>1, NothingMissing, NothingWrong
<1>5. t.active => ~Health(f.machines[m], f.limits).produces
  BY <1>1, <1>2, <1>3, <1>4
<1>6. c.intent = "machine_health" =>
        (t.denies <=> ~Health(f.machines[m], f.limits).produces)
  <2> SUFFICES ASSUME c.intent = "machine_health"
               PROVE  t.denies <=> ~found[m].produces
    BY <1>3
  <2>1. Ranking(found)[1] = m
    BY <1>1, FirstOfOne
  <2>2. r.headline.verdict = IF found[Ranking(found)[1]].produces THEN "can" ELSE "cannot"
    BY DEF DeriveHealth, Headline
  <2> HIDE DEF r, found
  <2> QED BY <1>2, <1>4, <2>1, <2>2
<1> QED BY <1>2, <1>5, <1>6 DEF HealthIsSo

\* Each factor is a cause with its size, each cause that was recorded is among
\* them, the largest first.
Accounted(f, xs) ==
    /\ \E n \in Nat : DOMAIN xs = 1..n
    /\ \A j \in DOMAIN xs :
         /\ xs[j].impact \in Int
         /\ \/ xs[j].kind = "downtime" /\ xs[j].impact = LostTo(f)
            \/ xs[j].kind = "rejects" /\ xs[j].impact = Total(f.rows, "rejected")
            \/ /\ xs[j].kind = "offset" /\ xs[j].impact = -Gained(f.rows)
               /\ Gained(f.rows) # 0
    /\ Total(f.rows, "downtime") # 0 => \E j \in DOMAIN xs : xs[j].kind = "downtime"
    /\ Total(f.rows, "rejected") # 0 => \E j \in DOMAIN xs : xs[j].kind = "rejects"
    /\ LargestFirst(xs)

\* The factors of an analysis are.
LEMMA FactorsAreAccounted ==
    ASSUME NEW f, HistoryFacts(f)
    PROVE  Accounted(f, Factors(f.rows, f.cycle))
<1> DEFINE found == Found(f.rows, f.cycle)
           xs == Factors(f.rows, f.cycle)
<1>1. /\ \E n \in Nat : DOMAIN found = 1..n
      /\ \A j \in DOMAIN found : found[j].impact \in Int
      /\ \A j \in DOMAIN found :
           \/ found[j].kind = "downtime" /\ found[j].impact = LostTo(f)
           \/ found[j].kind = "rejects" /\ found[j].impact = Total(f.rows, "rejected")
           \/ /\ found[j].kind = "offset" /\ found[j].impact = -Gained(f.rows)
              /\ Gained(f.rows) # 0
      /\ Total(f.rows, "downtime") # 0 => \E j \in DOMAIN found : found[j].kind = "downtime"
      /\ Total(f.rows, "rejected") # 0 => \E j \in DOMAIN found : found[j].kind = "rejects"
  <2>1. /\ Factor("downtime", LostTo(f)).kind = "downtime"
        /\ Factor("rejects", Total(f.rows, "rejected")).kind = "rejects"
    BY DEF Factor
  <2> QED BY <2>1, WhatIsFound
<1>2. PICK n \in Nat : DOMAIN found = 1..n
  BY <1>1
<1>3. /\ DOMAIN xs = DOMAIN found /\ Within(xs, found) /\ Within(found, xs)
      /\ LargestFirst(xs)
  <2>1. /\ \A j \in DOMAIN Found(f.rows, f.cycle) : Found(f.rows, f.cycle)[j].impact \in Int
        /\ DOMAIN Found(f.rows, f.cycle) = 1..n
    BY <1>1, <1>2
  <2>2. /\ DOMAIN Factors(f.rows, f.cycle) = DOMAIN Found(f.rows, f.cycle)
        /\ Within(Factors(f.rows, f.cycle), Found(f.rows, f.cycle))
        /\ Within(Found(f.rows, f.cycle), Factors(f.rows, f.cycle))
        /\ LargestFirst(Factors(f.rows, f.cycle))
    <3> HIDE DEF found, xs
    <3> QED BY <2>1, FactorsAreFound
  <2> QED BY <2>2
<1> HIDE DEF found, xs
<1>4. /\ \A j \in DOMAIN xs : \E i \in DOMAIN found : xs[j] = found[i]
      /\ \A i \in DOMAIN found : \E j \in DOMAIN xs : xs[j] = found[i]
  BY <1>3 DEF Within
<1>5. Accounted(f, xs)
  <2>1. \E k \in Nat : DOMAIN xs = 1..k
    BY <1>2, <1>3
  <2>2. ASSUME NEW j \in DOMAIN xs
        PROVE  /\ xs[j].impact \in Int
               /\ \/ xs[j].kind = "downtime" /\ xs[j].impact = LostTo(f)
                  \/ xs[j].kind = "rejects" /\ xs[j].impact = Total(f.rows, "rejected")
                  \/ /\ xs[j].kind = "offset" /\ xs[j].impact = -Gained(f.rows)
                     /\ Gained(f.rows) # 0
    <3>1. PICK i \in DOMAIN found : xs[j] = found[i]
      BY <1>4
    <3> QED BY <1>1, <3>1
  <2>3. Total(f.rows, "downtime") # 0 => \E j \in DOMAIN xs : xs[j].kind = "downtime"
    BY <1>1, <1>4
  <2>4. Total(f.rows, "rejected") # 0 => \E j \in DOMAIN xs : xs[j].kind = "rejects"
    BY <1>1, <1>4
  <2> QED BY <1>3, <2>1, <2>2, <2>3, <2>4 DEF Accounted
<1> QED BY <1>5 DEF xs

\* What a draft about a window says.
LEMMA AnalysisDraftSays ==
    ASSUME NEW r, NEW t \in AnalysisDrafts(r)
    PROVE  t.main \in {{}, {"downtime"}, {"rejects"}}
<1>1. PICK main \in {{}, {"downtime"}, {"rejects"}},
           of \in {{}} \cup { {m} : m \in Machines(r.facts.rows) } :
         t = AnalysisDraft(r, main, of)
  BY DEF AnalysisDrafts
<1> QED BY <1>1 DEF AnalysisDraft, Silent

\* The places of the factors that cost anything.
Costly(xs) == { j \in DOMAIN xs : xs[j].impact > 0 }

\* A cause is called the main one only if it is no smaller than any other.
LEMMA TheMainIsTheLargest ==
    ASSUME NEW f, HistoryFacts(f), NEW xs, Accounted(f, xs),
           NEW i \in Costly(xs), NEW j \in Costly(xs), xs[i].kind # xs[j].kind,
           ~(Cardinality(Costly(xs)) >= 2 /\ {xs[i].kind} \ {xs[Min(Costly(xs))].kind} # {})
    PROVE  /\ Min(Costly(xs)) \in Costly(xs) /\ xs[Min(Costly(xs))].kind = xs[i].kind
           /\ xs[Min(Costly(xs))].impact >= xs[j].impact
<1> DEFINE costly == Costly(xs)
           x == xs[i].kind
<1>0. costly \subseteq DOMAIN xs
  BY DEF Costly
<1>0a. /\ i \in costly /\ j \in costly /\ x # xs[j].kind
       /\ ~(Cardinality(costly) >= 2 /\ {x} \ {xs[Min(costly)].kind} # {})
  OBVIOUS
<1> HIDE DEF costly, x
<1>1. PICK n \in Nat : DOMAIN xs = 1..n
  BY DEF Accounted
<1>2. IsFiniteSet(costly) /\ costly \subseteq 1..n
  <2>1. IsFiniteSet(1..n)
    BY FS_Interval
  <2> QED BY <1>0, <1>1, <2>1, FS_Subset
<1>3. Cardinality(costly) >= 2
  <2>1. i # j
    BY <1>0a DEF x
  <2>2. Cardinality({i, j}) = 2 /\ {i, j} \subseteq costly
    <3>1. IsFiniteSet({i}) /\ Cardinality({i}) = 1
      BY FS_Singleton
    <3>2. Cardinality({i} \cup {j}) = Cardinality({i}) + 1
      BY <2>1, <3>1, FS_AddElement
    <3>3. {i} \cup {j} = {i, j} /\ {i, j} \subseteq costly
      BY <1>0a
    <3>4. Cardinality({i, j}) = 1 + 1
      BY <3>1, <3>2, <3>3
    <3> QED BY <3>3, <3>4
  <2>3. Cardinality({i, j}) <= Cardinality(costly)
    BY <1>2, <2>2, FS_Subset
  <2>4. Cardinality(costly) \in Nat
    BY <1>2, FS_CardinalityType
  <2> QED BY <2>2, <2>3, <2>4
<1>4. xs[Min(costly)].kind = x
  <2> DEFINE k == xs[Min(costly)].kind
  <2>1. {x} \ {k} = {}
    BY <1>0a, <1>3
  <2> HIDE DEF k
  <2>2. k = x
    BY <2>1
  <2> QED BY <2>2 DEF k
<1>5. /\ Min(costly) \in costly /\ \A k \in costly : Min(costly) <= k
  <2> DEFINE least(k) == k \in costly /\ \A q \in costly : k <= q
  <2>1. \E k \in costly : \A q \in costly : k <= q
    <3> DEFINE g == [q \in costly |-> -q]
    <3>1. \A q \in costly : g[q] \in Int
      BY <1>2
    <3>2. PICK k \in costly : \A q \in costly : g[q] <= g[k]
      <4> HIDE DEF g
      <4> QED BY <1>0a, <1>2, <3>1, Biggest
    <3>3. ASSUME NEW q \in costly PROVE k <= q
      <4>1. g[q] = -q /\ g[k] = -k /\ g[q] <= g[k]
        BY <3>2
      <4>2. q \in Int /\ k \in Int
        BY <1>2
      <4> HIDE DEF g
      <4> QED BY <4>1, <4>2
    <3> QED BY <3>3
  <2> QED BY <2>1 DEF Min
<1>6. Min(costly) # j /\ Min(costly) < j
  <2> DEFINE k == Min(costly)
  <2>1. k \in 1..n /\ j \in 1..n /\ k <= j /\ k # j
    BY <1>0a, <1>2, <1>4, <1>5
  <2> HIDE DEF k
  <2> QED BY <2>1 DEF k
<1>7. Size(xs[Min(costly)]) >= Size(xs[j])
  BY <1>0, <1>0a, <1>5, <1>6 DEF Accounted, LargestFirst
<1>8. \A k \in costly : xs[k].impact \in Int /\ Size(xs[k]) = xs[k].impact
  BY DEF Accounted, Size, costly, Costly
<1> QED BY <1>0a, <1>4, <1>5, <1>7, <1>8 DEF costly, x

\* A draft about a window that passes the check is so (validator.py:527-634, 692-734).
LEMMA AcceptedHistory ==
    ASSUME NEW c, HistoryFacts(c.facts), c.kind = "history",
           NEW t \in AnalysisDrafts(DeriveAnalysis(c)), Grounded(t, DeriveAnalysis(c))
    PROVE  HistoryIsSo(c.facts, t)
<1> DEFINE f == c.facts
           r == DeriveAnalysis(c)
           xs == Factors(f.rows, f.cycle)
           lost == Lost(Total(f.rows, "downtime"), f.cycle)
           rejects == Total(f.rows, "rejected")
           costly == Costly(xs)
           had == { o \in Machines(f.rows) : TotalOf(f.rows, o, "rejected") > 0 }
<1>1. r.found = Analyse(f.rows, f.cycle) /\ r.kind = "history" /\ r.facts = f
  BY DEF DeriveAnalysis
<1>2. r.found.factors = xs /\ r.found.rejected = rejects
  BY <1>1 DEF Analyse
<1>3. Accounted(f, xs)
  BY FactorsAreAccounted
<1>4. t.main \in {{}, {"downtime"}, {"rejects"}}
  BY AnalysisDraftSays
<1>5. rejects \in Nat
  BY ColumnsAreNat DEF Recorded
<1> HIDE DEF r
<1>6. ~(r.found.rejected > 0 /\ WrongRejects(t, r)) /\ ~WrongMain(t, r)
  <2>1. WrongClaims(t, r) = {} /\ IsAnalysis(r)
    BY <1>1 DEF Grounded, IsAnalysis, r
  <2> QED BY <2>1, NothingWrong
<1>7. ~(Cardinality(costly) >= 2 /\ t.main \ {xs[Min(costly)].kind} # {})
  BY <1>2, <1>6 DEF WrongMain, Costly
<1>8. ASSUME f.cycle # NoCycle, lost > 0, rejects > 0
      PROVE  /\ "downtime" \in t.main => lost >= rejects
             /\ "rejects" \in t.main  => rejects >= lost
  <2>1. LostTo(f) = lost
    BY <1>8 DEF LostTo
  <2>2. Total(f.rows, "downtime") # 0 /\ rejects # 0
    BY <1>8, <1>5, <2>1, LostIsNat
  <2>3. PICK d \in DOMAIN xs : xs[d].kind = "downtime"
    BY <1>3, <2>2 DEF Accounted
  <2>4. PICK q \in DOMAIN xs : xs[q].kind = "rejects"
    BY <1>3, <2>2 DEF Accounted
  <2> HIDE DEF lost, rejects, xs, costly
  <2>5. /\ \A j \in DOMAIN xs : /\ xs[j].kind = "downtime" => xs[j].impact = lost
                                /\ xs[j].kind = "rejects" => xs[j].impact = rejects
    BY <1>3, <2>1 DEF Accounted, rejects
  <2>6. d \in costly /\ q \in costly
    BY <1>8, <2>3, <2>4, <2>5 DEF costly, Costly
  <2>7. t.main = {"downtime"} => lost >= rejects
    <3> SUFFICES ASSUME t.main = {"downtime"} PROVE lost >= rejects
      OBVIOUS
    <3>1. ~(Cardinality(costly) >= 2 /\ {xs[d].kind} \ {xs[Min(costly)].kind} # {})
      BY <1>7, <2>3, <2>4
    <3>2. d \in costly /\ q \in costly /\ xs[d].kind # xs[q].kind
      BY <2>3, <2>4, <2>6
    <3>3. /\ Min(costly) \in costly /\ xs[Min(costly)].kind = xs[d].kind
          /\ xs[Min(costly)].impact >= xs[q].impact
      BY <1>3, <3>1, <3>2, TheMainIsTheLargest DEF costly
    <3> QED BY <2>3, <2>4, <2>5, <3>3 DEF costly, Costly
  <2>8. t.main = {"rejects"} => rejects >= lost
    <3> SUFFICES ASSUME t.main = {"rejects"} PROVE rejects >= lost
      OBVIOUS
    <3>1. ~(Cardinality(costly) >= 2 /\ {xs[q].kind} \ {xs[Min(costly)].kind} # {})
      BY <1>7, <2>3, <2>4
    <3>2. d \in costly /\ q \in costly /\ xs[d].kind # xs[q].kind
      BY <2>3, <2>4, <2>6
    <3>3. /\ Min(costly) \in costly /\ xs[Min(costly)].kind = xs[q].kind
          /\ xs[Min(costly)].impact >= xs[d].impact
      BY <1>3, <3>1, <3>2, TheMainIsTheLargest DEF costly
    <3> QED BY <2>3, <2>4, <2>5, <3>3 DEF costly, Costly
  <2> QED BY <1>4, <2>7, <2>8
<1>9. ASSUME NEW m \in t.rejectsOf, Cardinality(had) > 1
      PROVE  TotalOf(f.rows, m, "rejected") = rejects
  <2>1. rejects > 0
    <3>1. had # {}
      BY <1>9, FS_EmptySet
    <3>2. PICK o \in Machines(f.rows) : TotalOf(f.rows, o, "rejected") > 0
      BY <3>1
    <3> DEFINE M == Machines(f.rows)
               g == ByMachine(f.rows, "rejected")
    <3>3. /\ IsFiniteSet(M) /\ \A x \in M : g[x] \in Nat
          /\ rejects = SumOver(M, g)
      BY MachinesAddUp DEF Recorded
    <3>4. g[o] = TotalOf(f.rows, o, "rejected") /\ g[o] \in Nat
      BY <3>2, <3>3 DEF ByMachine
    <3>5. g[o] <= SumOver(M, g)
      <4> HIDE DEF g
      <4> QED BY <3>2, <3>3, SumOfNats
    <3> HIDE DEF g, M, rejects
    <3> QED BY <1>5, <3>2, <3>3, <3>4, <3>5
  <2>2. ~WrongRejects(t, r)
    BY <1>2, <1>6, <2>1
  <2> QED BY <1>1, <1>2, <1>9, <2>2 DEF WrongRejects
<1> QED BY <1>8, <1>9 DEF HistoryIsSo

\* A draft that is accepted says what is so, for any facts and whichever of their
\* figures, names and causes it puts together: what the validator does not object
\* to is a true sentence, of the ones drafts are made of here (validator.py:770-824).
THEOREM AcceptedMeansSo == Spec => []AcceptedIsSo
<1>1. FindingInv => AcceptedIsSo
  <2> SUFFICES ASSUME FindingInv, author = "model", verdict = "grounded"
               PROVE  AcceptedIsSo
    BY DEF AcceptedIsSo
  <2>1. case \in Cases /\ run = Derive(case) /\ text \in ModelDrafts(run) /\ Grounded(text, run)
    BY DEF FindingInv
  <2>2. CASE case.kind = "capacity"
    <3>1. /\ CapacityFacts(case.facts)
          /\ case.intent \in {"production_capacity", "bottleneck"}
      BY <2>1, <2>2, CasesAssumption
    <3>2. run = DeriveCapacity(case) /\ run.kind = "capacity"
      BY <2>1, <2>2 DEF Derive, DeriveCapacity
    <3>3. text \in NamingDrafts(run) \cup BlamingDrafts(run)
      BY <2>1, <3>2 DEF ModelDrafts
    <3>4. CapacityIsSo(case.facts, case.intent, text)
      BY <2>1, <2>2, <3>1, <3>2, <3>3, AcceptedCapacity
    <3> QED BY <2>2, <3>4 DEF AcceptedIsSo
  <2>3. CASE case.kind = "health"
    <3>1. /\ HealthFacts(case.facts)
          /\ case.intent = "machine_health" => \E m \in Machine : DOMAIN case.facts.machines = {m}
      BY <2>1, <2>3, CasesAssumption
    <3>2. run = DeriveHealth(case) /\ run.kind = "health"
      BY <2>1, <2>3 DEF Derive, DeriveHealth
    <3>3. text \in HealthDrafts(run)
      BY <2>1, <3>2 DEF ModelDrafts
    <3>4. HealthIsSo(case.facts, case.intent, text)
      BY <2>1, <2>3, <3>1, <3>2, <3>3, AcceptedHealth
    <3> QED BY <2>3, <3>4 DEF AcceptedIsSo
  <2>4. CASE case.kind = "history"
    <3>1. HistoryFacts(case.facts)
      BY <2>1, <2>4, CasesAssumption
    <3>2. run = DeriveAnalysis(case) /\ run.kind = "history"
      BY <2>1, <2>4 DEF Derive, DeriveAnalysis
    <3>3. text \in AnalysisDrafts(run)
      BY <2>1, <3>2 DEF ModelDrafts
    <3>4. HistoryIsSo(case.facts, text)
      BY <2>1, <2>4, <3>1, <3>2, <3>3, AcceptedHistory
    <3> QED BY <2>4, <3>4 DEF AcceptedIsSo
  <2>5. case.kind \in {"capacity", "health", "history"}
    BY <2>1, CasesAssumption
  <2> QED BY <2>2, <2>3, <2>4, <2>5
<1> QED BY <1>1, FindingsInOrder, PTL

-----------------------------------------------------------------------------
(***************************************************************************)
(* The composed answer.                                                    *)
(***************************************************************************)

\* A figure that is among what the run holds, and under its own unit.
Stands(fig, r) ==
    /\ fig.v \in Int /\ fig.v \in Allowed(r)
    /\ fig.unit \in {"parts", "hours", "none"}
    /\ fig.unit = "parts" => fig.v \in UNION { Rounded(v) : v \in PartsIn(r) }
    /\ fig.unit = "hours" => fig.v \in UNION { Rounded(v) : v \in HoursIn(r) }

\* No rule objects to it.
LEMMA StandingFigure ==
    ASSUME NEW fig, NEW r, Stands(fig, r)
    PROVE  Near(fig.v, Allowed(r)) /\ ~WrongUnit(fig, r)
<1> DEFINE v == fig.v
<1>1. v \in Int /\ Abs(v - v) <= 5
  <2>1. v \in Int
    BY DEF Stands
  <2> HIDE DEF v
  <2> QED BY <2>1 DEF Abs
<1>2. \A pool : v \in pool => Near(v, pool)
  BY <1>1 DEF Near
<1> QED BY <1>2 DEF Stands, WrongUnit

\* What is held is allowed, as it stands.
LEMMA HeldIsAllowed ==
    ASSUME NEW r, NEW v \in HoursIn(r) \cup PartsIn(r) \cup OthersIn(r)
    PROVE  Abs(v) \in Allowed(r)
<1>1. Abs(v) \in Rounded(v)
  BY DEF Rounded
<1> QED BY <1>1 DEF Allowed

\* A number that is held stands, written down without its sign.
LEMMA HeldFigureStands ==
    ASSUME NEW r, NEW n \in Int
    PROVE  /\ Hundredths(Abs(n)) \in PartsIn(r) =>
                Stands(Figure(n, "parts"), r) /\ Stands(Figure(n, "none"), r)
           /\ Hundredths(n) \in HoursIn(r) => Stands(Figure(n, "hours"), r)
           /\ Hundredths(n) \in OthersIn(r) => Stands(Figure(n, "none"), r)
<1> DEFINE v == Hundredths(Abs(n))
<1>1. v \in Int /\ Abs(v) = v /\ Abs(Hundredths(n)) = v
  BY DEF Hundredths, Abs
<1>2. \A unit : Figure(n, unit).v = v /\ Figure(n, unit).unit = unit
  BY DEF Figure
<1> HIDE DEF v
<1>3. /\ v \in PartsIn(r) => v \in UNION { Rounded(x) : x \in PartsIn(r) }
      /\ Hundredths(n) \in HoursIn(r) => v \in UNION { Rounded(x) : x \in HoursIn(r) }
  BY <1>1 DEF Rounded
<1>4. /\ v \in PartsIn(r) => v \in Allowed(r)
      /\ Hundredths(n) \in HoursIn(r) => v \in Allowed(r)
      /\ Hundredths(n) \in OthersIn(r) => v \in Allowed(r)
  BY <1>1, HeldIsAllowed
<1>5. v \in PartsIn(r) => Stands(Figure(n, "parts"), r) /\ Stands(Figure(n, "none"), r)
  BY <1>1, <1>2, <1>3, <1>4 DEF Stands
<1>6. Hundredths(n) \in HoursIn(r) => Stands(Figure(n, "hours"), r)
  BY <1>1, <1>2, <1>3, <1>4 DEF Stands
<1>7. Hundredths(n) \in OthersIn(r) => Stands(Figure(n, "none"), r)
  BY <1>1, <1>2, <1>4 DEF Stands
<1> QED BY <1>5, <1>6, <1>7 DEF v

\* A composed text gives no totals, no reasons and no scaffolding, and is not empty.
Plain(t) ==
    /\ t # Silent /\ t.totals = {} /\ t.reasons = {} /\ t.rejectsOf = {}
    /\ t.asHours = FALSE /\ t.offsets = FALSE /\ t.labels = FALSE

\* Such a text passes when it states the finding, its figures stand, and its limits,
\* its maintenance and its main cause are those of the run.
LEMMA PlainTextPasses ==
    ASSUME NEW t, NEW r, Plain(t), \A fig \in t.figures : Stands(fig, r),
           t.names \subseteq Machine, MissingClaims(t, r) = {},
           IsHealth(r) => \A s \in t.stops : Near(s[2], Limits(r, s[1])),
           IsHealth(r) => (t.active => \A m \in t.names \cap DOMAIN r.found : ~r.found[m].produces),
           IsAnalysis(r) => ~WrongMain(t, r)
    PROVE  Grounded(t, r)
<1>1. Unsupported(t, r) = {} /\ \A fig \in t.figures : ~WrongUnit(fig, r)
  BY StandingFigure DEF Unsupported
<1>2. Strangers(t) = {}
  BY DEF Strangers
<1>3. /\ t.totals \subseteq EngineTotals(r) /\ ~t.asHours /\ ~t.offsets /\ ~t.labels
      /\ ~BlamesSmaller(t, r) /\ ~WrongRejects(t, r)
  BY DEF Plain, BlamesSmaller, WrongRejects
<1>4. WrongClaims(t, r) = {}
  BY <1>1, <1>3, NothingWrong
<1> QED BY <1>1, <1>2, <1>3, <1>4 DEF Grounded, Plain

\* Nothing has to be stated but the headline and, of a capacity, what limits it.
LEMMA StatesTheFinding ==
    ASSUME NEW t, NEW r,
           \/ r.headline.value = Null \/ r.intent \in NamesAMachine
           \/ \E fig \in t.figures : fig.v \in Int /\ fig.v = r.headline.value,
           r.headline.machine \subseteq t.names,
           r.headline.verdict # "cannot", t.denies = FALSE,
           IsCapacity(r) => r.constraint.bottleneck \subseteq t.names,
           IsCapacity(r) => t.blames = {} \/ r.found.binding \in t.blames,
           IsCapacity(r) => r.constraint.bottleneck # {} \/ t.names = {} \/ t.level = TRUE
    PROVE  MissingClaims(t, r) = {}
<1>1. ASSUME NEW fig \in t.figures, fig.v \in Int, fig.v = r.headline.value
      PROVE  Near(r.headline.value, { x.v : x \in t.figures })
  <2> DEFINE v == fig.v
             pool == { x.v : x \in t.figures }
  <2>1. v \in pool /\ v \in Int
    BY <1>1
  <2> HIDE DEF v, pool
  <2>2. Near(v, pool)
    BY <2>1 DEF Near, Abs
  <2> QED BY <1>1, <2>2 DEF v, pool
<1> QED BY <1>1, NothingMissing

\* The answer put together from a capacity passes (executor.py:393-438).
LEMMA CapacityPasses ==
    ASSUME NEW c, CapacityFacts(c.facts), c.kind = "capacity",
           c.intent \in {"production_capacity", "bottleneck"}
    PROVE  Grounded(SayCapacity(DeriveCapacity(c)), DeriveCapacity(c))
<1> DEFINE f == c.facts
           r == DeriveCapacity(c)
           t == SayCapacity(r)
           tied == IF r.found.binding = "material" THEN {} ELSE FewestHours(f.rows)
<1>1. /\ r.facts = f /\ r.kind = "capacity" /\ r.intent = c.intent
      /\ r.found.machine \in Nat /\ r.found.material \in Nat /\ r.found.final \in Nat
      /\ r.found.binding \in {"material", "machine"}
      /\ DOMAIN r.found.shares = DOMAIN f.rows
      /\ \A m \in DOMAIN f.rows : r.found.shares[m] \in Nat
  BY CapacityRun
<1>2. IsCapacity(r) /\ ~IsHealth(r) /\ ~IsAnalysis(r)
  BY <1>1 DEF IsCapacity, IsHealth, IsAnalysis
<1>3. /\ t.figures = { Figure(n, "parts") : n \in {r.found.final, r.found.machine,
                                                   r.found.material} }
                     \cup { Figure(r.found.shares[m], "none") : m \in Eligible(f.rows) }
                     \cup { Figure(n, "none") : n \in {f.stock, f.qty} }
                     \cup { Figure(h, "hours") : h \in { Whole(f.rows[m]) : m \in tied } }
      /\ t.names = tied /\ t.limits = TRUE /\ t.level = (r.constraint.bottleneck = {})
      /\ t.blames = IF r.found.binding = "material" THEN {"material"}
                    ELSE IF r.constraint.bottleneck = {} THEN {"machine"} ELSE {}
      /\ t.denies = FALSE
  <2> HIDE DEF r
  <2> QED BY <1>1 DEF SayCapacity, Silent
<1>4. Plain(t)
  <2> HIDE DEF r
  <2>1. t.limits = TRUE /\ Silent.limits = FALSE
    BY DEF SayCapacity, Silent
  <2>2. t # Silent
    BY <2>1
  <2>3. /\ t.totals = {} /\ t.reasons = {} /\ t.rejectsOf = {}
        /\ t.asHours = FALSE /\ t.offsets = FALSE /\ t.labels = FALSE
    BY DEF SayCapacity, Silent
  <2> QED BY <2>2, <2>3 DEF Plain
<1> HIDE DEF t
<1>5. tied \subseteq Eligible(f.rows) /\ Eligible(f.rows) \subseteq DOMAIN f.rows
      /\ DOMAIN f.rows \subseteq Machine
  BY DEF FewestHours, Eligible, CapacityFacts
<1>6. /\ \A n \in {r.found.final, r.found.machine, r.found.material, f.stock} :
           n \in Nat /\ Hundredths(Abs(n)) \in PartsIn(r)
      /\ \A m \in Eligible(f.rows) : /\ r.found.shares[m] \in Nat
                                     /\ Hundredths(Abs(r.found.shares[m])) \in PartsIn(r)
      /\ f.qty \in Nat /\ Hundredths(f.qty) \in OthersIn(r)
      /\ \A m \in tied : /\ Whole(f.rows[m]) \in Nat
                         /\ Hundredths(Whole(f.rows[m])) \in HoursIn(r)
  <2> HIDE DEF r, tied
  <2>1. f.stock \in Nat /\ f.qty \in Nat
    BY DEF CapacityFacts
  <2>2. \A m \in tied : Whole(f.rows[m]) \in Nat /\ f.rows[m] \in Rows(r)
    BY <1>1, <1>5, WholeIsNat DEF CapacityFacts, Rows
  <2>3. \A n \in {r.found.final, r.found.machine, r.found.material, f.stock} :
           Hundredths(Abs(n)) \in PartsIn(r)
    BY <1>1, <1>2 DEF PartsIn
  <2>4. \A m \in Eligible(f.rows) : Hundredths(Abs(r.found.shares[m])) \in PartsIn(r)
    BY <1>1, <1>2, <1>5 DEF PartsIn
  <2>5. Hundredths(f.qty) \in OthersIn(r)
    BY <1>1, <1>2 DEF OthersIn
  <2>6. ASSUME NEW m \in tied PROVE Hundredths(Whole(f.rows[m])) \in HoursIn(r)
    <3> DEFINE all == UNION { { x.planned, x.maintenance, Whole(x) } : x \in Rows(r) }
    <3>1. Whole(f.rows[m]) \in all
      BY <2>2
    <3>2. \A h \in all : Hundredths(h) \in HoursIn(r)
      BY <1>2 DEF HoursIn
    <3> HIDE DEF all
    <3> QED BY <3>1, <3>2
  <2> QED BY <1>1, <1>5, <2>1, <2>2, <2>3, <2>4, <2>5, <2>6
<1>7. ASSUME NEW fig \in t.figures PROVE Stands(fig, r)
  <2>1. ASSUME NEW n \in {r.found.final, r.found.machine, r.found.material}, fig = Figure(n, "parts")
        PROVE  Stands(fig, r)
    BY <1>6, <2>1, HeldFigureStands
  <2>2. ASSUME NEW m \in Eligible(f.rows), fig = Figure(r.found.shares[m], "none")
        PROVE  Stands(fig, r)
    BY <1>6, <2>2, HeldFigureStands
  <2>3. ASSUME fig = Figure(f.stock, "none") PROVE Stands(fig, r)
    BY <1>6, <2>3, HeldFigureStands
  <2>4. ASSUME fig = Figure(f.qty, "none") PROVE Stands(fig, r)
    BY <1>6, <2>4, HeldFigureStands
  <2>5. ASSUME NEW m \in tied, fig = Figure(Whole(f.rows[m]), "hours") PROVE Stands(fig, r)
    BY <1>6, <2>5, HeldFigureStands
  <2> HIDE DEF r, tied
  <2> QED BY <1>3, <2>1, <2>2, <2>3, <2>4, <2>5
<1>8. MissingClaims(t, r) = {}
  <2>1. \E fig \in t.figures : fig.v \in Int /\ fig.v = Hundredths(r.found.final)
    <3> DEFINE fig == Figure(r.found.final, "parts")
    <3>1. fig \in t.figures
      BY <1>3
    <3>2. fig.v = Hundredths(Abs(r.found.final))
      BY DEF Figure
    <3>3. Abs(r.found.final) = r.found.final /\ Hundredths(r.found.final) \in Int
      <4> HIDE DEF r
      <4> QED BY <1>1 DEF Abs, Hundredths
    <3> HIDE DEF fig, r
    <3> QED BY <3>1, <3>2, <3>3
  <2>2. r.headline = IF c.intent = "bottleneck" THEN Headline(Null, r.constraint.bottleneck, None)
                     ELSE Headline(Hundredths(r.found.final), {}, None)
    BY DEF DeriveCapacity
  <2>3. r.constraint.bottleneck # {} =>
          r.constraint.bottleneck = tied /\ r.found.binding = "machine"
    BY TheOneNamed
  <2> HIDE DEF r, tied
  <2>4. /\ r.headline.value \in {Null, Hundredths(r.found.final)}
        /\ r.headline.machine \subseteq r.constraint.bottleneck
        /\ r.headline.verdict # "cannot"
    BY <2>2 DEF Headline, None
  <2>5. r.constraint.bottleneck \subseteq t.names
    BY <1>3, <2>3
  <2>6. t.blames = {} \/ r.found.binding \in t.blames
    BY <1>1, <1>3
  <2>7. r.constraint.bottleneck # {} \/ t.level = TRUE
    BY <1>3
  <2>8. \/ r.headline.value = Null
        \/ \E fig \in t.figures : fig.v \in Int /\ fig.v = r.headline.value
    BY <2>1, <2>4
  <2> QED BY <1>3, <2>4, <2>5, <2>6, <2>7, <2>8, StatesTheFinding
<1>9. t.names \subseteq Machine
  <2> HIDE DEF tied
  <2> QED BY <1>3, <1>5
<1> HIDE DEF r
<1> QED BY <1>2, <1>4, <1>7, <1>8, <1>9, PlainTextPasses DEF t, r

\* A reading that was assessed, its limit and its breach are held.
LEMMA AssessedIsHeld ==
    ASSUME NEW r, r.kind = "health", HealthFacts(r.facts), NEW m \in DOMAIN r.facts.machines,
           NEW k \in Assessed(r.facts.machines[m], r.facts.limits)
    PROVE  /\ r.facts.machines[m].reading[k] \in Nat
           /\ Hundredths(r.facts.machines[m].reading[k]) \in OthersIn(r)
           /\ r.facts.limits[k].warning \in 1..Finest
           /\ Hundredths(r.facts.limits[k].warning) \in Limits(r, k)
           /\ Hundredths(r.facts.limits[k].warning) \in OthersIn(r)
           /\ AsPercent(RelativeBreach(r.facts.machines[m], r.facts.limits, k)) \subseteq OthersIn(r)
<1> DEFINE row == r.facts.machines[m]
           limit == r.facts.limits[k]
           a == row.reading[k]
<1>1. ~IsCapacity(r) /\ ~IsAnalysis(r) /\ k \in Rules
  BY DEF IsCapacity, IsAnalysis, Assessed
<1>2. a \in Nat \cup {Null} /\ limit \in Limit
  BY <1>1 DEF HealthFacts, Limit
<1>3. a # Null /\ limit.warning # Null
  <2>1. Level(a, limit) # "not_assessable"
    BY DEF Assessed, LevelOf
  <2> HIDE DEF a, limit
  <2> QED BY <1>2, <2>1, Levels
<1>4. a \in Nat /\ limit.warning \in 1..Finest
  <2> HIDE DEF a, limit
  <2> QED BY <1>2, <1>3 DEF Limit
<1>5. OthersIn(r) = (UNION { Limits(r, q) : q \in Rules }) \cup Readings(r) \cup Breaches(r)
  BY <1>1 DEF OthersIn
<1>6. Hundredths(a) \in OthersIn(r)
  <2>1. Hundredths(a) \in Readings(r)
    <3>1. a \in ReadingsOf(row)
      BY <1>1, <1>3 DEF ReadingsOf
    <3>2. Hundredths(a) \in { Hundredths(n) : n \in ReadingsOf(row) }
      BY <3>1
    <3> QED BY <3>2 DEF Readings
  <2> QED BY <1>5, <2>1
<1>7. Hundredths(limit.warning) \in Limits(r, k)
  BY <1>3 DEF Limits
<1>8. Hundredths(limit.warning) \in OthersIn(r)
  BY <1>1, <1>5, <1>7
<1>9. AsPercent(RelativeBreach(row, r.facts.limits, k)) \subseteq OthersIn(r)
  <2>1. AsPercent(RelativeBreach(row, r.facts.limits, k)) \subseteq BreachesOf(row, r.facts.limits)
    BY DEF BreachesOf
  <2>2. BreachesOf(row, r.facts.limits) \subseteq Breaches(r)
    BY DEF Breaches
  <2> QED BY <1>5, <2>1, <2>2
<1> QED BY <1>4, <1>6, <1>7, <1>8, <1>9

\* The answer put together about one machine passes, unless it says that the
\* machine may not run: the patterns miss that (executor.py:393-438).
LEMMA HealthPasses ==
    ASSUME NEW c, HealthFacts(c.facts), c.kind = "health",
           c.intent \in {"machine_health", "machine_status"},
           NEW m \in Machine, DOMAIN c.facts.machines = {m},
           DeriveHealth(c).headline.verdict # "cannot"
    PROVE  Grounded(SayHealth(DeriveHealth(c)), DeriveHealth(c))
<1> DEFINE f == c.facts
           r == DeriveHealth(c)
           t == SayHealth(r)
           row == f.machines[m]
           on == Assessed(row, f.limits)
<1>1. /\ r.facts = f /\ r.kind = "health" /\ r.found = Healths(f)
      /\ r.headline.verdict # "cannot"
  BY DEF DeriveHealth
<1>2. r.headline.value = Null /\ r.headline.machine = {}
  BY DEF DeriveHealth, Headline
<1> HIDE DEF r
<1>3. IsHealth(r) /\ ~IsCapacity(r) /\ ~IsAnalysis(r)
  BY <1>1 DEF IsCapacity, IsHealth, IsAnalysis
<1>4. DOMAIN r.found = {m} /\ r.found[m] = Health(row, f.limits)
  BY <1>1 DEF Healths
<1>5. (CHOOSE x \in DOMAIN r.found : TRUE) = m
  BY <1>4
<1>6. /\ t.figures = { Figure(row.reading[k], "none") : k \in on }
                     \cup { Figure(f.limits[k].warning, "none") : k \in on }
      /\ t.names = {m} /\ t.denies = FALSE
      /\ t.stops = { << k, Hundredths(f.limits[k].warning) >> : k \in on }
      /\ t.active = (Health(row, f.limits).reason = "maintenance")
  BY <1>1, <1>4, <1>5 DEF SayHealth, Silent
<1>7. Plain(t)
  <2>1. /\ t.totals = {} /\ t.reasons = {} /\ t.rejectsOf = {}
        /\ t.asHours = FALSE /\ t.offsets = FALSE /\ t.labels = FALSE /\ Silent.names = {}
    BY DEF SayHealth, Silent
  <2> HIDE DEF t
  <2>2. t # Silent
    BY <1>6, <2>1
  <2> QED BY <2>1, <2>2 DEF Plain
<1> HIDE DEF t
<1>8. ASSUME NEW k \in on
      PROVE  /\ Stands(Figure(row.reading[k], "none"), r)
             /\ Stands(Figure(f.limits[k].warning, "none"), r)
             /\ Near(Hundredths(f.limits[k].warning), Limits(r, k))
  <2>1. /\ row.reading[k] \in Nat /\ Hundredths(row.reading[k]) \in OthersIn(r)
        /\ f.limits[k].warning \in 1..Finest
        /\ Hundredths(f.limits[k].warning) \in Limits(r, k)
        /\ Hundredths(f.limits[k].warning) \in OthersIn(r)
    BY <1>1, AssessedIsHeld
  <2> DEFINE w == f.limits[k].warning
             a == row.reading[k]
  <2>2. w \in Int /\ a \in Int
    BY <2>1
  <2> HIDE DEF w, a
  <2>3. /\ Stands(Figure(a, "none"), r) /\ Stands(Figure(w, "none"), r)
    BY <2>1, <2>2, HeldFigureStands DEF w, a
  <2>4. Near(Hundredths(w), Limits(r, k))
    BY <2>1, <2>2 DEF Near, Abs, Hundredths, w
  <2> QED BY <2>3, <2>4 DEF w, a
<1>9. \A fig \in t.figures : Stands(fig, r)
  <2> HIDE DEF row, on
  <2> QED BY <1>6, <1>8
<1>10. \A s \in t.stops : Near(s[2], Limits(r, s[1]))
  <2> HIDE DEF row, on
  <2> QED BY <1>6, <1>8
<1>11. t.active => \A x \in t.names \cap DOMAIN r.found : ~r.found[x].produces
  <2>1. Health(row, f.limits).reason = "maintenance" => ~Health(row, f.limits).produces
    BY DEF Health
  <2> HIDE DEF row
  <2> QED BY <1>4, <1>6, <2>1
<1>12. MissingClaims(t, r) = {}
  BY <1>1, <1>2, <1>3, <1>6, StatesTheFinding
<1>13. t.names \subseteq Machine
  BY <1>6
<1> QED BY <1>3, <1>7, <1>9, <1>10, <1>11, <1>12, <1>13, PlainTextPasses DEF t, r

\* Rounding a percentage half to the even side or half up is the same but for halves,
\* on either side of zero.
LEMMA PercentIsRounded ==
    ASSUME NEW over \in Int, (over % 100) # 50
    PROVE  Percent(over) \in Int /\ Abs(Percent(over)) = HalfUp(Abs(over), 100)
<1> DEFINE q == over \div 100
           s == (over % 100)
<1>1. q \in Int /\ s \in 0..99 /\ over = 100 * q + s /\ s # 50
  OBVIOUS
<1>2. Percent(over) = IF s > 50 THEN q + 1 ELSE q
  BY <1>1 DEF Percent
<1>3. \A a \in Int : HalfUp(a, 100) = (2 * a + 100) \div 200
  BY DEF HalfUp
<1> HIDE DEF q, s
<1>4. CASE over >= 0 /\ s > 50
  <2>1. q >= 0 /\ Percent(over) = q + 1 /\ Abs(over) = over /\ Abs(q + 1) = q + 1
    BY <1>1, <1>2, <1>4 DEF Abs
  <2>2. (2 * over + 100) \div 200 = q + 1
    BY <1>1, <1>4
  <2> QED BY <1>1, <1>3, <2>1, <2>2
<1>5. CASE over >= 0 /\ s < 50
  <2>1. q >= 0 /\ Percent(over) = q /\ Abs(over) = over /\ Abs(q) = q
    BY <1>1, <1>2, <1>5 DEF Abs
  <2>2. (2 * over + 100) \div 200 = q
    BY <1>1, <1>5
  <2> QED BY <1>1, <1>3, <2>1, <2>2
<1>6. CASE over < 0 /\ s > 50
  <2>1. q + 1 <= 0 /\ Percent(over) = q + 1 /\ Abs(over) = -over /\ Abs(q + 1) = -(q + 1)
    BY <1>1, <1>2, <1>6 DEF Abs
  <2>2. (2 * (-over) + 100) \div 200 = -(q + 1)
    BY <1>1, <1>6
  <2> QED BY <1>1, <1>3, <2>1, <2>2
<1>7. CASE over < 0 /\ s < 50
  <2>1. q < 0 /\ Percent(over) = q /\ Abs(over) = -over /\ Abs(q) = -q
    BY <1>1, <1>2, <1>7 DEF Abs
  <2>2. (2 * (-over) + 100) \div 200 = -q
    BY <1>1, <1>7
  <2> QED BY <1>1, <1>3, <2>1, <2>2
<1> QED BY <1>1, <1>4, <1>5, <1>6, <1>7

\* The breach that is noted is one.
LEMMA NotedIsABreach ==
    ASSUME NEW f, HealthFacts(f), NEW x \in DOMAIN f.machines,
           Health(f.machines[x], f.limits).breaches # 0
    PROVE  /\ Noted(f.machines[x], f.limits) \in Assessed(f.machines[x], f.limits)
           /\ RelativeBreach(f.machines[x], f.limits, Noted(f.machines[x], f.limits)) \in Int
           /\ RelativeBreach(f.machines[x], f.limits, Noted(f.machines[x], f.limits)) >= Unmeasured
<1> DEFINE row == f.machines[x]
           S == Breaching(row, f.limits)
           g == [k \in S |-> RelativeBreach(row, f.limits, k)]
<1>1. IsFiniteSet(S) /\ S # {}
  BY HealthIsMeasured, FS_EmptySet
<1>2. S \subseteq Assessed(row, f.limits) /\ S \subseteq Rules
  BY DEF Breaching, Assessed
<1>3. ASSUME NEW k \in Assessed(row, f.limits)
      PROVE  /\ RelativeBreach(row, f.limits, k) \in Int
             /\ RelativeBreach(row, f.limits, k) >= Unmeasured
  <2> DEFINE a == row.reading[k]
             limit == f.limits[k]
             w == limit.warning
  <2>1. k \in Rules /\ Level(a, limit) # "not_assessable"
    BY DEF Assessed, LevelOf
  <2>2. a \in Nat \cup {Null} /\ limit \in Limit
    BY <2>1 DEF HealthFacts, Limit
  <2>3. RelativeBreach(row, f.limits, k) = TenThousandths(a - w, w)
    BY DEF RelativeBreach
  <2> HIDE DEF a, limit
  <2>4. a # Null /\ w # Null
    BY <2>1, <2>2, Levels
  <2>5. a \in Nat /\ w \in 1..Finest
    BY <2>2, <2>4 DEF Limit
  <2>6. a + 1 \in Nat /\ a + 1 > a
    BY <2>5
  <2> HIDE DEF w
  <2>7. TenThousandths(a - w, w) \in Int /\ TenThousandths(a - w, w) >= Unmeasured
    BY <2>5, <2>6, BreachesAreFine
  <2> QED BY <2>3, <2>7
<1>4. \E k \in S : \A q \in S : g[q] <= g[k]
  <2>1. \A k \in S : g[k] \in Int
    BY <1>2, <1>3
  <2> HIDE DEF g, S
  <2> QED BY <1>1, <2>1, Biggest
<1> DEFINE worst == { k \in S : \A q \in S : RelativeBreach(row, f.limits, q)
                                               <= RelativeBreach(row, f.limits, k) }
<1>5. worst # {} /\ worst \subseteq S
  BY <1>4
<1>6. Rules = {Rule[1], Rule[2]}
  BY DEF Rules, Rule
<1>7. Noted(row, f.limits) = IF Rule[1] \in worst THEN Rule[1] ELSE Rule[2]
  BY DEF Noted
<1> HIDE DEF worst, S
<1>8. Noted(row, f.limits) \in worst
  BY <1>2, <1>5, <1>6, <1>7
<1> QED BY <1>2, <1>3, <1>5, <1>8

\* The first of the ranking is one of the machines.
LEMMA FirstIsRanked ==
    ASSUME NEW f, HealthFacts(f), DOMAIN f.machines # {}
    PROVE  Ranking(Healths(f))[1] \in DOMAIN f.machines
<1> DEFINE seq == Ranking(Healths(f))
           D == DOMAIN f.machines
<1>1. InOrder(seq, D, Before(f)) /\ IsFiniteSet(D) /\ D # {}
  BY RankingIsInOrder, MachinesAreFew DEF HealthFacts
<1> HIDE DEF seq, D
<1>2. Cardinality(D) \in Nat /\ Cardinality(D) # 0
  BY <1>1, FS_EmptySet, FS_CardinalityType
<1>3. seq[1] \in D
  BY <1>1, <1>2 DEF InOrder
<1> QED BY <1>3 DEF seq, D

\* A percentage of the breach of a machine stands, but for one above a hundred or one
\* with a half: the validator expands no value above one, and rounds halves up.
LEMMA PercentStands ==
    ASSUME NEW r, NEW over \in Int, over >= Unmeasured, over <= 10000, (over % 100) # 50,
           AsPercent(over) \subseteq OthersIn(r)
    PROVE  Stands(Figure(Percent(over), "none"), r)
<1> DEFINE v == 100 * HalfUp(Abs(over), 100)
           p == Percent(over)
<1>1. p \in Int /\ Abs(p) = HalfUp(Abs(over), 100)
  BY PercentIsRounded
<1>2. ~(Abs(over) > 10000)
  BY DEF Abs, Unmeasured
<1>3. v \in AsPercent(over)
  BY <1>2 DEF AsPercent
<1>4. v \in OthersIn(r)
  BY <1>3
<1>5. Hundredths(Abs(p)) = v
  BY <1>1 DEF Hundredths
<1> HIDE DEF p, v
<1>6. v \in Int /\ Abs(v) = v
  BY <1>1, <1>5 DEF Hundredths, Abs
<1>7. v \in Allowed(r)
  BY <1>4, <1>6, HeldIsAllowed
<1>8. Figure(p, "none").v = v /\ Figure(p, "none").unit = "none"
  BY <1>5 DEF Figure
<1>9. Stands(Figure(p, "none"), r)
  BY <1>6, <1>7, <1>8 DEF Stands
<1> QED BY <1>9 DEF p

\* The breach an answer about a machine writes as a percentage.
BreachOf(f, m) == RelativeBreach(f.machines[m], f.limits, Noted(f.machines[m], f.limits))

\* It is one the validator can read.
Legible(f, r) == \A m \in r.headline.machine :
                     BreachOf(f, m) <= 10000 /\ (BreachOf(f, m) % 100) # 50

\* The answer that says which machine needs attention passes, unless its percentage
\* is one the validator does not know (executor.py:393-438, derive.py:190-218).
LEMMA AttentionPasses ==
    ASSUME NEW c, HealthFacts(c.facts), c.kind = "health", c.intent = "maintenance_attention",
           DOMAIN c.facts.machines # {},
           Legible(c.facts, DeriveHealth(c))
    PROVE  Grounded(SayAttention(DeriveHealth(c)), DeriveHealth(c))
<1> DEFINE f == c.facts
           r == DeriveHealth(c)
           t == SayAttention(r)
           first == Ranking(Healths(f))[1]
<1>1. /\ r.facts = f /\ r.kind = "health" /\ r.found = Healths(f)
      /\ r.headline = Headline(Null, IF Healths(f)[first].breaches = 0 THEN {} ELSE {first}, None)
  BY DEF DeriveHealth
<1>2. first \in DOMAIN f.machines
  BY FirstIsRanked
<1>3. DOMAIN r.found = DOMAIN f.machines /\ DOMAIN f.machines \subseteq Machine
  <2>1. DOMAIN Healths(f) = DOMAIN f.machines
    BY DEF Healths
  <2>2. DOMAIN f.machines \subseteq Machine
    BY DEF HealthFacts
  <2> HIDE DEF r
  <2> QED BY <1>1, <2>1, <2>2
<1>4. Legible(f, r)
  OBVIOUS
<1> HIDE DEF r, first
<1>5. IsHealth(r) /\ ~IsCapacity(r) /\ ~IsAnalysis(r)
  BY <1>1 DEF IsCapacity, IsHealth, IsAnalysis
<1>6. /\ r.headline.value = Null /\ r.headline.verdict = None
      /\ r.headline.machine = IF Healths(f)[first].breaches = 0 THEN {} ELSE {first}
  BY <1>1 DEF Headline
<1>7. /\ t.totals = {} /\ t.reasons = {} /\ t.rejectsOf = {} /\ t.denies = FALSE
      /\ t.asHours = FALSE /\ t.offsets = FALSE /\ t.labels = FALSE /\ t.active = FALSE
  BY DEF SayAttention, SayBreach, Silent
<1>8. CASE r.headline.machine = {}
  <2>1. /\ t.figures = {} /\ t.stops = {} /\ t.level = TRUE
        /\ t.names = { m \in DOMAIN r.found : ~r.found[m].assessable }
    BY <1>8 DEF SayAttention, Silent
  <2>2. Silent.level = FALSE
    BY DEF Silent
  <2> HIDE DEF t
  <2>3. Plain(t)
    <3>1. t # Silent
      BY <2>1, <2>2
    <3> QED BY <1>7, <3>1 DEF Plain
  <2>4. MissingClaims(t, r) = {}
    <3>1. /\ r.headline.verdict # "cannot" /\ r.headline.machine \subseteq t.names
          /\ r.headline.value = Null /\ t.denies = FALSE
      BY <1>7, <1>6, <1>8 DEF None
    <3>2. ~IsCapacity(r)
      BY <1>5
    <3> QED BY <3>1, <3>2, StatesTheFinding
  <2>5. t.names \subseteq Machine
    BY <1>3, <2>1
  <2> QED BY <1>5, <1>7, <2>1, <2>3, <2>4, <2>5, PlainTextPasses DEF t, r
<1>9. CASE r.headline.machine # {}
  <2> DEFINE row == f.machines[first]
             k == Noted(row, f.limits)
             over == RelativeBreach(row, f.limits, k)
             w == f.limits[k].warning
             a == row.reading[k]
  <2>1. r.headline.machine = {first} /\ Healths(f)[first].breaches # 0
    BY <1>6, <1>9
  <2>2. Foremost(r) = first
    BY <2>1 DEF Foremost
  <2>3. /\ t.figures = {Figure(a, "none"), Figure(w, "none"), Figure(Percent(over), "none")}
        /\ t.names = {first} /\ t.stops = {<< k, Hundredths(w) >>}
    <3>1. SayAttention(r) =
            [Silent EXCEPT !.figures = {Figure(a, "none"), Figure(w, "none"),
                                        Figure(Percent(over), "none")},
                           !.names = {first}, !.stops = {<< k, Hundredths(w) >>}]
      <4>1. SayAttention(r) = SayBreach(r, first)
        BY <1>9, <2>2 DEF SayAttention
      <4>2. SayBreach(r, first) =
              [Silent EXCEPT !.figures = {Figure(a, "none"), Figure(w, "none"),
                                          Figure(Percent(over), "none")},
                             !.names = {first}, !.stops = {<< k, Hundredths(w) >>}]
        BY <1>1 DEF SayBreach
      <4> QED BY <4>1, <4>2
    <3> HIDE DEF a, w, over, k
    <3> QED BY <3>1 DEF Silent
  <2>4. Silent.names = {}
    BY DEF Silent
  <2> HIDE DEF t
  <2>5. Plain(t)
    <3>1. t # Silent
      BY <2>3, <2>4
    <3> QED BY <1>7, <3>1 DEF Plain
  <2>6. Health(row, f.limits).breaches # 0
    BY <1>2, <2>1 DEF Healths
  <2>7. k \in Assessed(row, f.limits) /\ over \in Int /\ over >= Unmeasured
    BY <1>2, <2>6, NotedIsABreach
  <2>8. over <= 10000 /\ (over % 100) # 50
    BY <1>4, <2>1 DEF Legible, BreachOf
  <2> HIDE DEF k
  <2>9. /\ a \in Nat /\ Hundredths(a) \in OthersIn(r)
        /\ w \in 1..Finest /\ Hundredths(w) \in Limits(r, k) /\ Hundredths(w) \in OthersIn(r)
        /\ AsPercent(over) \subseteq OthersIn(r)
    BY <1>1, <1>2, <2>7, AssessedIsHeld
  <2> HIDE DEF a, w, over, row
  <2>10. a \in Int /\ w \in Int
    BY <2>9
  <2>11. Stands(Figure(a, "none"), r) /\ Stands(Figure(w, "none"), r)
    BY <2>9, <2>10, HeldFigureStands
  <2>12. Stands(Figure(Percent(over), "none"), r)
    BY <2>7, <2>8, <2>9, PercentStands
  <2>13. Near(Hundredths(w), Limits(r, k))
    BY <2>9, <2>10 DEF Near, Abs, Hundredths
  <2>14. MissingClaims(t, r) = {}
    <3>1. /\ r.headline.verdict # "cannot" /\ r.headline.machine \subseteq t.names
          /\ r.headline.value = Null /\ t.denies = FALSE
      BY <1>7, <1>6, <2>1, <2>3 DEF None
    <3>2. ~IsCapacity(r)
      BY <1>5
    <3> QED BY <3>1, <3>2, StatesTheFinding
  <2>15. t.names \subseteq Machine
    BY <1>2, <1>3, <2>3
  <2>16. \A fig \in t.figures : Stands(fig, r)
    BY <2>3, <2>11, <2>12
  <2>17. \A s \in t.stops : Near(s[2], Limits(r, s[1]))
    BY <2>3, <2>13
  <2> QED BY <1>5, <1>7, <2>5, <2>14, <2>15, <2>16, <2>17, PlainTextPasses DEF t, r
<1> QED BY <1>8, <1>9

\* Percentages of an analysis are not negative.
LEMMA TenthsAreNat ==
    ASSUME NEW a \in Nat, NEW b \in Nat
    PROVE  Tenths(a, b) \in Nat
<1>1. CASE b = 0
  BY <1>1 DEF Tenths
<1>2. CASE b # 0
  <2> DEFINE n == 2 * (1000 * a) + b
             d == 2 * b
  <2>1. n \in Nat /\ d \in Nat \ {0}
    BY <1>2
  <2>2. Tenths(a, b) = n \div d
    BY <1>2 DEF Tenths, HalfUp
  <2> HIDE DEF n, d
  <2> QED BY <2>1, <2>2, DivMod
<1> QED BY <1>1, <1>2

\* Held figures that are written as they are stored stand.
LEMMA HeldNumberStands ==
    ASSUME NEW r, NEW v \in Nat, v \in OthersIn(r)
    PROVE  Stands([v |-> v, unit |-> "none"], r)
<1>1. Abs(v) = v /\ v \in Allowed(r)
  <2>1. Abs(v) = v
    BY DEF Abs
  <2> QED BY <2>1, HeldIsAllowed
<1> QED BY <1>1 DEF Stands

\* The main cause that is named first among those that cost anything is the first.
LEMMA TheFirstIsMain ==
    ASSUME NEW f, HistoryFacts(f), NEW xs, Accounted(f, xs), xs # << >>,
           1 \in DOMAIN xs, xs[1].kind # "offset", Cardinality(Costly(xs)) >= 2
    PROVE  Min(Costly(xs)) = 1
<1> DEFINE costly == Costly(xs)
<1>1. PICK n \in Nat : DOMAIN xs = 1..n
  BY DEF Accounted
<1>2. costly \subseteq 1..n
  BY <1>1 DEF Costly
<1>3. PICK j \in costly : TRUE
  <2>1. Cardinality(costly) # 0
    OBVIOUS
  <2> HIDE DEF costly
  <2>2. costly # {}
    BY <2>1, FS_EmptySet
  <2> QED BY <2>2
<1>4. xs[1].impact \in Nat
  <2>1. LostTo(f) \in Nat /\ Total(f.rows, "rejected") \in Nat
    BY LostIsNat, ColumnsAreNat DEF Recorded
  <2> QED BY <2>1 DEF Accounted
<1>5. xs[1].impact > 0
  <2>1. CASE j = 1
    BY <1>3, <2>1 DEF Costly
  <2>2. CASE j # 1
    <3>1. 1 < j /\ j \in DOMAIN xs
      BY <1>1, <1>2, <1>3, <2>2
    <3>2. Size(xs[1]) >= Size(xs[j])
      BY <3>1 DEF Accounted, LargestFirst
    <3>3. xs[j].impact > 0 /\ xs[j].impact \in Int
      BY <1>3, <3>1 DEF Costly, Accounted
    <3>4. Size(xs[j]) = xs[j].impact /\ Size(xs[1]) = xs[1].impact
      BY <1>4, <3>3 DEF Size
    <3> QED BY <1>4, <3>2, <3>3, <3>4
  <2> QED BY <2>1, <2>2
<1>6. 1 \in costly
  BY <1>5 DEF Costly
<1>7. \A k \in costly : 1 <= k
  BY <1>2
<1> HIDE DEF costly
<1>8. \A k \in costly : (\A q \in costly : k <= q) => k = 1
  BY <1>2, <1>6
<1>9. Min(costly) \in costly /\ \A q \in costly : Min(costly) <= q
  BY <1>6, <1>7 DEF Min
<1> QED BY <1>8, <1>9 DEF costly

\* What an analysis holds.
LEMMA AnalysisHolds ==
    ASSUME NEW c, HistoryFacts(c.facts), c.kind = "history"
    PROVE  LET f == c.facts
               r == DeriveAnalysis(c)
           IN  /\ r.facts = f /\ r.kind = "history" /\ r.intent = c.intent
               /\ r.found = Analyse(f.rows, f.cycle)
               /\ r.found.factors = Factors(f.rows, f.cycle)
               /\ Accounted(f, r.found.factors)
               /\ r.found.short = Short(f.rows) /\ r.found.short \in Int
               /\ r.found.produced \in Nat /\ r.found.planned \in Nat
               /\ r.found.rejected \in Nat /\ r.found.downtime \in Nat
               /\ r.found.below \in Nat /\ r.found.rate \in Nat
               /\ f.cycle \in Nat
<1> DEFINE f == c.facts
           r == DeriveAnalysis(c)
           planned == Total(f.rows, "planned")
           produced == Total(f.rows, "produced")
           rejected == Total(f.rows, "rejected")
<1>1. /\ r.facts = f /\ r.kind = "history" /\ r.intent = c.intent
      /\ r.found = Analyse(f.rows, f.cycle)
  BY DEF DeriveAnalysis
<1>2. /\ planned \in Nat /\ produced \in Nat /\ rejected \in Nat
      /\ Total(f.rows, "downtime") \in Nat
  BY ColumnsAreNat DEF Recorded
<1>3. Short(f.rows) \in Int /\ (Short(f.rows) > 0 => Short(f.rows) \in Nat)
  BY <1>2 DEF Short
<1>4. Short(f.rows) > 0 => Tenths(Short(f.rows), planned) \in Nat
  BY <1>2, <1>3, TenthsAreNat
<1>5. Tenths(rejected, produced + rejected) \in Nat
  <2> HIDE DEF produced, rejected
  <2>1. produced + rejected \in Nat
    BY <1>2
  <2> QED BY <1>2, <2>1, TenthsAreNat
<1> HIDE DEF r
<1>6. /\ r.found.factors = Factors(f.rows, f.cycle) /\ r.found.short = Short(f.rows)
      /\ r.found.produced = produced /\ r.found.planned = planned
      /\ r.found.rejected = rejected /\ r.found.downtime = Total(f.rows, "downtime")
      /\ r.found.below = (IF Short(f.rows) > 0 THEN Tenths(Short(f.rows), planned) ELSE 0)
      /\ r.found.rate = Tenths(rejected, produced + rejected)
  BY <1>1 DEF Analyse
<1>7. Accounted(f, r.found.factors)
  BY <1>6, FactorsAreAccounted
<1>8. f.cycle \in Nat
  BY DEF HistoryFacts
<1>9. r.found.below \in Nat
  BY <1>4, <1>6
<1> HIDE DEF planned, produced, rejected
<1> QED BY <1>1, <1>2, <1>3, <1>5, <1>6, <1>7, <1>8, <1>9 DEF r

\* The answer put together from an analysis passes (executor.py:393-438).
LEMMA AnalysisPasses ==
    ASSUME NEW c, HistoryFacts(c.facts), c.kind = "history", c.intent = "production_analysis"
    PROVE  Grounded(SayAnalysis(DeriveAnalysis(c)), DeriveAnalysis(c))
<1> DEFINE f == c.facts
           r == DeriveAnalysis(c)
           t == SayAnalysis(r)
           xs == r.found.factors
<1>1. /\ r.facts = f /\ r.kind = "history" /\ r.found = Analyse(f.rows, f.cycle)
      /\ Accounted(f, xs)
      /\ r.found.short \in Int
      /\ r.found.produced \in Nat /\ r.found.planned \in Nat
      /\ r.found.rejected \in Nat /\ r.found.downtime \in Nat
      /\ r.found.below \in Nat /\ r.found.rate \in Nat
      /\ f.cycle \in Nat
  BY AnalysisHolds
<1>2. r.headline = IF r.found.short > 0 THEN Headline(10 * r.found.below, {}, None)
                   ELSE Headline(Null, {}, None)
  BY DEF DeriveAnalysis
<1> HIDE DEF r
<1>3. IsAnalysis(r) /\ ~IsCapacity(r) /\ ~IsHealth(r)
  BY <1>1 DEF IsCapacity, IsHealth, IsAnalysis
<1>4. /\ r.headline.value = IF r.found.short > 0 THEN 10 * r.found.below ELSE Null
      /\ r.headline.machine = {} /\ r.headline.verdict # "cannot"
  BY <1>2 DEF Headline, None
<1> DEFINE downtime == Impacts(xs, "downtime")
           rejects == Impacts(xs, "rejects")
           offset == Impacts(xs, "offset")
<1>5. /\ t.figures = { Figure(n, "none") : n \in {r.found.produced, r.found.planned} }
                     \cup { Figure(f.cycle, "none") : n \in downtime \ {0} }
                     \cup { Figure(r.found.produced + r.found.rejected, "none") : n \in rejects }
                     \cup (IF r.found.short > 0
                           THEN {[v |-> 10 * r.found.below, unit |-> "none"]} ELSE {})
                     \cup { Figure(r.found.downtime, "hours") : n \in downtime }
                     \cup { Figure(n, "parts") : n \in (downtime \ {0}) \cup rejects }
                     \cup { [v |-> 10 * r.found.rate, unit |-> "none"] : n \in rejects }
                     \cup { Figure(n, "none") : n \in offset }
      /\ t.main = IF r.found.short > 0 /\ xs # << >> /\ xs[1].kind # "offset"
                  THEN {xs[1].kind} ELSE {}
      /\ t.names = {} /\ t.denies = FALSE
  <2> HIDE DEF downtime, rejects, offset
  <2> QED BY <1>1 DEF SayAnalysis, Silent, downtime, rejects, offset
<1>6. Plain(t)
  <2>1. /\ t.totals = {} /\ t.reasons = {} /\ t.rejectsOf = {}
        /\ t.asHours = FALSE /\ t.offsets = FALSE /\ t.labels = FALSE /\ Silent.figures = {}
    BY DEF SayAnalysis, Silent
  <2> HIDE DEF t
  <2>2. Figure(r.found.produced, "none") \in t.figures
    BY <1>5
  <2>3. t # Silent
    BY <2>1, <2>2
  <2> QED BY <2>1, <2>3 DEF Plain
<1> HIDE DEF t
<1>7. \A n \in downtime \cup rejects \cup offset :
        n \in Int /\ Hundredths(Abs(n)) \in PartsIn(r)
  <2>1. \A j \in DOMAIN xs : xs[j].impact \in Int
    BY <1>1 DEF Accounted
  <2>2. \A j \in DOMAIN xs : Hundredths(Abs(xs[j].impact)) \in PartsIn(r)
    BY <1>3 DEF PartsIn
  <2>3. \A n \in downtime \cup rejects \cup offset : \E j \in DOMAIN xs : n = xs[j].impact
    BY DEF Impacts
  <2> HIDE DEF downtime, rejects, offset, xs
  <2> QED BY <2>1, <2>2, <2>3
<1> HIDE DEF downtime, rejects, offset
<1>8. /\ \A n \in {r.found.produced, r.found.planned, r.found.produced + r.found.rejected} :
            n \in Int /\ Hundredths(Abs(n)) \in PartsIn(r)
      /\ f.cycle \in Int /\ Hundredths(f.cycle) \in OthersIn(r)
      /\ r.found.downtime \in Int /\ Hundredths(r.found.downtime) \in HoursIn(r)
      /\ 10 * r.found.below \in Nat /\ 10 * r.found.below \in OthersIn(r)
      /\ 10 * r.found.rate \in Nat /\ 10 * r.found.rate \in OthersIn(r)
  <2>1. \A n \in {r.found.produced, r.found.planned, r.found.produced + r.found.rejected} :
           n \in Int
    BY <1>1
  <2>2. \A n \in {r.found.produced, r.found.planned, r.found.produced + r.found.rejected} :
           Hundredths(Abs(n)) \in PartsIn(r)
    BY <1>3 DEF PartsIn
  <2>3. Hundredths(r.found.downtime) \in HoursIn(r)
    BY <1>3 DEF HoursIn
  <2>4. OthersIn(r) = {10 * r.found.below, 10 * r.found.rate, Hundredths(f.cycle)}
    BY <1>1, <1>3 DEF OthersIn
  <2> QED BY <1>1, <2>1, <2>2, <2>3, <2>4
<1>9. /\ \A n \in {r.found.produced, r.found.planned, r.found.produced + r.found.rejected} :
            Stands(Figure(n, "none"), r)
      /\ Stands(Figure(f.cycle, "none"), r)
      /\ Stands(Figure(r.found.downtime, "hours"), r)
      /\ Stands([v |-> 10 * r.found.below, unit |-> "none"], r)
      /\ Stands([v |-> 10 * r.found.rate, unit |-> "none"], r)
      /\ \A n \in downtime \cup rejects \cup offset :
            Stands(Figure(n, "parts"), r) /\ Stands(Figure(n, "none"), r)
  <2>1. \A n \in {r.found.produced, r.found.planned, r.found.produced + r.found.rejected} :
           Stands(Figure(n, "none"), r)
    BY <1>8, HeldFigureStands
  <2>2. Stands(Figure(f.cycle, "none"), r)
    BY <1>8, HeldFigureStands
  <2>3. Stands(Figure(r.found.downtime, "hours"), r)
    BY <1>8, HeldFigureStands
  <2>4. Stands([v |-> 10 * r.found.below, unit |-> "none"], r)
    BY <1>8, HeldNumberStands
  <2>5. Stands([v |-> 10 * r.found.rate, unit |-> "none"], r)
    BY <1>8, HeldNumberStands
  <2>6. \A n \in downtime \cup rejects \cup offset :
           Stands(Figure(n, "parts"), r) /\ Stands(Figure(n, "none"), r)
    BY <1>7, HeldFigureStands
  <2> QED BY <2>1, <2>2, <2>3, <2>4, <2>5, <2>6
<1>10. \A fig \in t.figures : Stands(fig, r)
  BY <1>5, <1>9
<1>11. ~WrongMain(t, r)
  <2>1. r.found.short > 0 /\ xs # << >> /\ xs[1].kind # "offset" /\ Cardinality(Costly(xs)) >= 2
          => Min(Costly(xs)) = 1
    <3>1. \E n \in Nat : DOMAIN xs = 1..n
      BY <1>1 DEF Accounted
    <3>2. Cardinality(Costly(xs)) >= 2 => 1 \in DOMAIN xs
      <4>1. Cardinality(Costly(xs)) >= 2 => Costly(xs) # {}
        BY FS_EmptySet
      <4>2. Costly(xs) \subseteq DOMAIN xs
        BY DEF Costly
      <4>3. DOMAIN xs # {} => 1 \in DOMAIN xs
        BY <3>1
      <4> QED BY <4>1, <4>2, <4>3
    <3> HIDE DEF xs
    <3> QED BY <1>1, <3>2, TheFirstIsMain
  <2>2. WrongMain(t, r) <=> /\ Cardinality(Costly(xs)) >= 2
                            /\ t.main \ {xs[Min(Costly(xs))].kind} # {}
    BY DEF WrongMain, Costly
  <2> HIDE DEF xs
  <2>3. t.main # {} => /\ r.found.short > 0 /\ xs # << >> /\ xs[1].kind # "offset"
                       /\ t.main = {xs[1].kind}
    BY <1>5
  <2>4. SUFFICES ASSUME WrongMain(t, r) PROVE FALSE
    OBVIOUS
  <2>5. t.main # {}
    BY <2>2, <2>4
  <2>6. Min(Costly(xs)) = 1 /\ t.main = {xs[1].kind}
    BY <2>1, <2>2, <2>3, <2>4, <2>5
  <2>7. t.main \ {xs[1].kind} # {}
    BY <2>2, <2>4, <2>6
  <2> QED BY <2>6, <2>7
<1>12. MissingClaims(t, r) = {}
  <2>1. r.found.short > 0 =>
          \E fig \in t.figures : fig.v \in Int /\ fig.v = 10 * r.found.below
    <3> DEFINE fig == [v |-> 10 * r.found.below, unit |-> "none"]
    <3>1. r.found.short > 0 => fig \in t.figures
      BY <1>5
    <3>2. fig.v = 10 * r.found.below /\ fig.v \in Int
      BY <1>8
    <3> HIDE DEF fig
    <3> QED BY <3>1, <3>2
  <2>2. \/ r.headline.value = Null
        \/ \E fig \in t.figures : fig.v \in Int /\ fig.v = r.headline.value
    BY <1>4, <2>1
  <2>3. r.headline.machine \subseteq t.names /\ r.headline.verdict # "cannot" /\ t.denies = FALSE
    BY <1>4, <1>5
  <2>4. ~IsCapacity(r)
    BY <1>3
  <2> QED BY <2>2, <2>3, <2>4, StatesTheFinding
<1>13. t.names \subseteq Machine
  BY <1>5
<1> QED BY <1>3, <1>6, <1>10, <1>11, <1>12, <1>13, PlainTextPasses DEF t, r

\* The machine that is foremost is one of those that were ranked, and its breach is a
\* number.
LEMMA TheForemost ==
    ASSUME NEW c, HealthFacts(c.facts), c.intent = "maintenance_attention",
           DOMAIN c.facts.machines # {}, NEW m \in DeriveHealth(c).headline.machine
    PROVE  /\ Foremost(DeriveHealth(c)) = m /\ m \in DOMAIN c.facts.machines
           /\ BreachOf(c.facts, m) \in Int
<1> DEFINE f == c.facts
           r == DeriveHealth(c)
           first == Ranking(Healths(f))[1]
<1>1. first \in DOMAIN f.machines
  BY FirstIsRanked
<1>2. r.headline.machine = IF Healths(f)[first].breaches = 0 THEN {} ELSE {first}
  BY DEF DeriveHealth, Headline
<1>3. m \in r.headline.machine
  OBVIOUS
<1> HIDE DEF r, first
<1>4. r.headline.machine = {first} /\ m = first /\ Healths(f)[first].breaches # 0
  BY <1>2, <1>3
<1>5. Foremost(r) = m
  BY <1>4 DEF Foremost
<1>6. Health(f.machines[m], f.limits).breaches # 0
  BY <1>1, <1>4 DEF Healths
<1>7. BreachOf(f, m) \in Int
  BY <1>1, <1>4, <1>6, NotedIsABreach DEF BreachOf
<1> QED BY <1>1, <1>4, <1>5, <1>7 DEF r

\* The answer put together from the finding is always accepted, but for the two its
\* patterns misread: falling back to it never shows an answer that is marked as not
\* grounded (executor.py:393-438, answering.py, validator.py:770).
THEOREM FallingBackIsSafe == Spec => []DataOnlyIsAccepted
<1>1. FindingInv => DataOnlyIsAccepted
  <2> SUFFICES ASSUME FindingInv, author = "data", verdict # "unread", ~MisreadByPatterns
               PROVE  verdict = "grounded"
    BY DEF DataOnlyIsAccepted
  <2>1. /\ case \in Cases /\ run = Derive(case) /\ text = DataOnly(run)
        /\ verdict = "grounded" \/ ~Grounded(text, run)
    BY DEF FindingInv
  <2> SUFFICES Grounded(DataOnly(run), run)
    BY <2>1
  <2>2. CASE case.kind = "capacity"
    <3>1. /\ CapacityFacts(case.facts)
          /\ case.intent \in {"production_capacity", "bottleneck"}
      BY <2>1, <2>2, CasesAssumption
    <3>2. run = DeriveCapacity(case) /\ run.kind = "capacity" /\ run.intent = case.intent
      BY <2>1, <2>2 DEF Derive, DeriveCapacity
    <3>3. DataOnly(run) = SayCapacity(run)
      BY <3>1, <3>2 DEF DataOnly
    <3> QED BY <2>2, <3>1, <3>2, <3>3, CapacityPasses
  <2>3. CASE case.kind = "health" /\ case.intent \in {"machine_health", "machine_status"}
    <3>1. PICK m \in Machine : DOMAIN case.facts.machines = {m}
      BY <2>1, <2>3, CasesAssumption
    <3>2. HealthFacts(case.facts)
      BY <2>1, <2>3, CasesAssumption
    <3>3. run = DeriveHealth(case) /\ run.kind = "health" /\ run.intent = case.intent
      BY <2>1, <2>3 DEF Derive, DeriveHealth
    <3>4. DataOnly(run) = SayHealth(run)
      BY <2>3, <3>3 DEF DataOnly
    <3>5. run.headline.verdict # "cannot"
      BY DEF MisreadByPatterns
    <3> QED BY <2>3, <3>1, <3>2, <3>3, <3>4, <3>5, HealthPasses
  <2>4. CASE case.kind = "health" /\ case.intent = "maintenance_attention"
    <3>1. HealthFacts(case.facts) /\ DOMAIN case.facts.machines # {}
      BY <2>1, <2>4, CasesAssumption
    <3>2. run = DeriveHealth(case) /\ run.kind = "health" /\ run.intent = case.intent
      BY <2>1, <2>4 DEF Derive, DeriveHealth
    <3>3. DataOnly(run) = SayAttention(run)
      BY <2>4, <3>2 DEF DataOnly
    <3>4. Legible(case.facts, run)
      <4> SUFFICES ASSUME NEW m \in run.headline.machine
                   PROVE  BreachOf(case.facts, m) <= 10000 /\ (BreachOf(case.facts, m) % 100) # 50
        BY DEF Legible
      <4> DEFINE over == BreachOf(case.facts, Foremost(run))
      <4>1. ~(over > 10000) /\ (over % 100) # 50
        BY <2>4, <3>2 DEF MisreadByPatterns, BreachOf
      <4>2. Foremost(run) = m /\ m \in DOMAIN case.facts.machines /\ over \in Int
        BY <2>4, <3>1, <3>2, TheForemost
      <4> QED BY <4>1, <4>2
    <3> QED BY <2>4, <3>1, <3>2, <3>3, <3>4, AttentionPasses
  <2>5. CASE case.kind = "history"
    <3>1. HistoryFacts(case.facts) /\ case.intent = "production_analysis"
      BY <2>1, <2>5, CasesAssumption
    <3>2. run = DeriveAnalysis(case) /\ run.kind = "history" /\ run.intent = case.intent
      BY <2>1, <2>5 DEF Derive, DeriveAnalysis
    <3>3. DataOnly(run) = SayAnalysis(run)
      BY <3>1, <3>2 DEF DataOnly
    <3> QED BY <2>5, <3>1, <3>2, <3>3, AnalysisPasses
  <2> QED BY <2>1, <2>2, <2>3, <2>4, <2>5, CasesAssumption
<1> QED BY <1>1, FindingsInOrder, PTL

=============================================================================
