-------------------------------- MODULE Sums --------------------------------
(***************************************************************************)
(* What SumFunctionOnSet computes, for every finite set of indices.  The   *)
(* library defines it by a recursive function on subsets.  Induction is    *)
(* taken from the fact that strict inclusion is well-founded on the        *)
(* subsets of a finite set: a smallest counterexample is one to nothing.   *)
(***************************************************************************)
EXTENDS Integers, FiniteSets, Functions, FiniteSetTheorems, TLAPS

\* Any family of subsets of a finite set has a smallest member.
LEMMA SmallestSubset ==
  ASSUME NEW S, IsFiniteSet(S), NEW F, F \subseteq SUBSET S, F # {}
  PROVE  \E T \in F : \A U \in F : U \subseteq T => U = T
  <1>1. FiniteSubsetsOf(S) = SUBSET S
    BY FS_FiniteSubsetsOfFinite
  <1>2. IsWellFoundedOn(StrictSubsetOrdering(S), SUBSET S)
    BY <1>1, FS_StrictSubsetOrderingWellFounded
  <1>3. PICK T \in F : \A U \in F : ~ (<<U, T>> \in StrictSubsetOrdering(S))
    BY <1>2, WFMin
  <1>4. \A U \in F : U \subseteq T => U = T
    BY <1>3 DEF StrictSubsetOrdering
  <1>5. QED
    BY <1>4

-----------------------------------------------------------------------------
(* The function of the library: g adds f over every subset of S.           *)

Picked(s) == CHOOSE x \in s : TRUE
Added(f, g, s) == IF s = {} THEN 0 ELSE f[Picked(s)] + g[s \ {Picked(s)}]
Adds(f, g, S) == g = [s \in SUBSET S |-> Added(f, g, s)]
Adder(f, S) == CHOOSE g : Adds(f, g, S)

LEMMA SumByAdder ==
  ASSUME NEW f, NEW S
  PROVE  SumFunctionOnSet(f, S) = Adder(f, S)[S]
  BY DEF SumFunctionOnSet, FoldFunctionOnSet, MapThenFoldSet, Adder, Adds, Added, Picked

LEMMA PickedIn ==
  ASSUME NEW s, s # {}
  PROVE  Picked(s) \in s
  BY DEF Picked

\* Such functions agree wherever both are defined.
LEMMA AddersAgree ==
  ASSUME NEW f, NEW A, NEW B, NEW g, NEW h, Adds(f, g, A), Adds(f, h, B),
         NEW S, S \subseteq A, S \subseteq B, IsFiniteSet(S)
  PROVE  g[S] = h[S]
  <1> DEFINE Bad == {s \in SUBSET S : g[s] # h[s]}
  <1> SUFFICES ASSUME g[S] # h[S] PROVE FALSE
    OBVIOUS
  <1>1. S \in Bad
    OBVIOUS
  <1>2. PICK T \in Bad : \A U \in Bad : U \subseteq T => U = T
    <2>1. Bad # {} /\ Bad \subseteq SUBSET S
      BY <1>1
    <2> HIDE DEF Bad
    <2>2. QED
      BY <2>1, SmallestSubset
  <1>3. g[T] = Added(f, g, T) /\ h[T] = Added(f, h, T)
    BY <1>2 DEF Adds
  <1>4. CASE T = {}
    BY <1>2, <1>3, <1>4 DEF Added
  <1>5. CASE T # {}
    <2> DEFINE U == T \ {Picked(T)}
    <2>1. U \subseteq T /\ U # T
      BY <1>5, PickedIn
    <2>2. g[U] = h[U]
      BY <1>2, <2>1
    <2>3. QED
      BY <1>2, <1>3, <1>5, <2>2 DEF Added
  <1>6. QED
    BY <1>4, <1>5

\* One exists for every finite set.
LEMMA AdderExists ==
  ASSUME NEW f, NEW S, IsFiniteSet(S)
  PROVE  Adds(f, Adder(f, S), S)
  <1> DEFINE Bad == {s \in SUBSET S : ~ \E g : Adds(f, g, s)}
  <1> SUFFICES ASSUME ~ \E g : Adds(f, g, S) PROVE FALSE
    BY DEF Adder
  <1>1. S \in Bad
    OBVIOUS
  <1>2. PICK T \in Bad : \A U \in Bad : U \subseteq T => U = T
    <2>1. Bad # {} /\ Bad \subseteq SUBSET S
      BY <1>1
    <2> HIDE DEF Bad
    <2>2. QED
      BY <2>1, SmallestSubset
  <1>3. \A U \in SUBSET T : U # T => Adds(f, Adder(f, U), U)
    BY <1>2 DEF Adder
  <1> DEFINE low == [s \in SUBSET T |-> Adder(f, s)[s]]
             g == [s \in SUBSET T |-> Added(f, low, s)]
  <1>4. \A s \in SUBSET T : s # T => g[s] = low[s]
    <2> SUFFICES ASSUME NEW s \in SUBSET T, s # T PROVE Added(f, low, s) = Adder(f, s)[s]
      OBVIOUS
    <2>1. Adds(f, Adder(f, s), s)
      BY <1>3
    <2>2. Adder(f, s)[s] = Added(f, Adder(f, s), s)
      BY <2>1 DEF Adds
    <2>3. CASE s = {}
      BY <2>2, <2>3 DEF Added
    <2>4. CASE s # {}
      <3> DEFINE u == s \ {Picked(s)}
      <3>1. u \subseteq s /\ u \subseteq T /\ u # T
        BY <2>4, PickedIn
      <3>2. Adds(f, Adder(f, u), u)
        BY <1>3, <3>1
      <3>3. IsFiniteSet(u)
        BY <3>1, FS_Subset
      <3>4. Adder(f, s)[u] = Adder(f, u)[u]
        BY <2>1, <3>1, <3>2, <3>3, AddersAgree
      <3>5. low[u] = Adder(f, s)[u]
        BY <3>1, <3>4
      <3>6. QED
        BY <2>2, <2>4, <3>5 DEF Added
    <2>5. QED
      BY <2>3, <2>4
  <1>5. \A s \in SUBSET T : Added(f, low, s) = Added(f, g, s)
    <2> SUFFICES ASSUME NEW s \in SUBSET T, s # {}
                 PROVE  low[s \ {Picked(s)}] = g[s \ {Picked(s)}]
      BY DEF Added
    <2>1. s \ {Picked(s)} \in SUBSET T /\ s \ {Picked(s)} # T
      BY PickedIn
    <2> HIDE DEF low, g
    <2>2. QED
      BY <1>4, <2>1
  <1>6. Adds(f, g, T)
    BY <1>5 DEF Adds
  <1> HIDE DEF g
  <1>7. QED
    BY <1>2, <1>6

\* The step of the recursion.
LEMMA SumStep ==
  ASSUME NEW f, NEW S, IsFiniteSet(S)
  PROVE  SumFunctionOnSet(f, S) =
           IF S = {} THEN 0
           ELSE f[Picked(S)] + SumFunctionOnSet(f, S \ {Picked(S)})
  <1>1. Adds(f, Adder(f, S), S)
    BY AdderExists
  <1>2. Adder(f, S)[S] = Added(f, Adder(f, S), S)
    BY <1>1 DEF Adds
  <1>3. CASE S = {}
    BY <1>2, <1>3, SumByAdder DEF Added
  <1>4. CASE S # {}
    <2> DEFINE U == S \ {Picked(S)}
    <2>1. U \subseteq S /\ IsFiniteSet(U)
      BY FS_Subset
    <2>2. Adds(f, Adder(f, U), U)
      BY <2>1, AdderExists
    <2>3. Adder(f, S)[U] = Adder(f, U)[U]
      BY <1>1, <2>1, <2>2, AddersAgree
    <2>4. QED
      BY <1>2, <1>4, <2>3, SumByAdder DEF Added
  <1>5. QED
    BY <1>3, <1>4

-----------------------------------------------------------------------------
(* Sums of integers.                                                       *)

LEMMA SumOfNone ==
  ASSUME NEW f
  PROVE  SumFunctionOnSet(f, {}) = 0
  BY SumStep, FS_EmptySet

LEMMA SumIsInt ==
  ASSUME NEW f, NEW S, IsFiniteSet(S), \A x \in S : f[x] \in Int
  PROVE  SumFunctionOnSet(f, S) \in Int
  <1> DEFINE Bad == {T \in SUBSET S : SumFunctionOnSet(f, T) \notin Int}
  <1> SUFFICES ASSUME S \in Bad PROVE FALSE
    OBVIOUS
  <1>1. PICK T \in Bad : \A U \in Bad : U \subseteq T => U = T
    <2>1. Bad # {} /\ Bad \subseteq SUBSET S
      OBVIOUS
    <2> HIDE DEF Bad
    <2>2. QED
      BY <2>1, SmallestSubset
  <1>2. IsFiniteSet(T)
    BY FS_Subset
  <1>3. T # {}
    <2>1. SumFunctionOnSet(f, {}) \in Int
      BY SumOfNone
    <2>2. SumFunctionOnSet(f, T) \notin Int
      BY <1>1
    <2>3. QED
      BY <2>1, <2>2
  <1>4. Picked(T) \in T
    BY <1>3, PickedIn
  <1>5. SumFunctionOnSet(f, T \ {Picked(T)}) \in Int
    BY <1>1, <1>4
  <1>6. SumFunctionOnSet(f, T) = f[Picked(T)] + SumFunctionOnSet(f, T \ {Picked(T)})
    BY <1>2, <1>3, SumStep
  <1>7. QED
    BY <1>1, <1>4, <1>5, <1>6

LEMMA SumIsNat ==
  ASSUME NEW f, NEW S, IsFiniteSet(S), \A x \in S : f[x] \in Nat
  PROVE  SumFunctionOnSet(f, S) \in Nat
  <1> DEFINE Bad == {T \in SUBSET S : SumFunctionOnSet(f, T) \notin Nat}
  <1> SUFFICES ASSUME S \in Bad PROVE FALSE
    OBVIOUS
  <1>1. PICK T \in Bad : \A U \in Bad : U \subseteq T => U = T
    <2>1. Bad # {} /\ Bad \subseteq SUBSET S
      OBVIOUS
    <2> HIDE DEF Bad
    <2>2. QED
      BY <2>1, SmallestSubset
  <1>2. IsFiniteSet(T)
    BY FS_Subset
  <1>3. T # {}
    BY <1>1, SumOfNone
  <1>4. Picked(T) \in T
    BY <1>3, PickedIn
  <1>5. SumFunctionOnSet(f, T \ {Picked(T)}) \in Nat
    BY <1>1, <1>4
  <1>6. SumFunctionOnSet(f, T) = f[Picked(T)] + SumFunctionOnSet(f, T \ {Picked(T)})
    BY <1>2, <1>3, SumStep
  <1>7. QED
    BY <1>1, <1>4, <1>5, <1>6

\* Any element may be added last.
LEMMA SumWithout ==
  ASSUME NEW f, NEW S, IsFiniteSet(S), \A y \in S : f[y] \in Int, NEW x \in S
  PROVE  SumFunctionOnSet(f, S) = f[x] + SumFunctionOnSet(f, S \ {x})
  <1> DEFINE Good(T) ==
        \A y \in T : SumFunctionOnSet(f, T) = f[y] + SumFunctionOnSet(f, T \ {y})
      Bad == {T \in SUBSET S : ~ Good(T)}
  <1> SUFFICES ASSUME S \in Bad PROVE FALSE
    OBVIOUS
  <1>1. PICK T \in Bad : \A U \in Bad : U \subseteq T => U = T
    <2>1. Bad # {} /\ Bad \subseteq SUBSET S
      OBVIOUS
    <2> HIDE DEF Bad
    <2>2. QED
      BY <2>1, SmallestSubset
  <1>2. \A U \in SUBSET S : IsFiniteSet(U) /\ SumFunctionOnSet(f, U) \in Int
    BY FS_Subset, SumIsInt
  <1>3. PICK y \in T : SumFunctionOnSet(f, T) # f[y] + SumFunctionOnSet(f, T \ {y})
    BY <1>1
  <1> DEFINE p == Picked(T)
             rest == T \ {p, y}
  <1>4. p \in T /\ SumFunctionOnSet(f, T) = f[p] + SumFunctionOnSet(f, T \ {p})
    BY <1>1, <1>2, <1>3, PickedIn, SumStep
  <1>5. p # y
    BY <1>3, <1>4
  <1> HIDE DEF p
  <1>6. SumFunctionOnSet(f, T \ {p}) = f[y] + SumFunctionOnSet(f, rest)
    <2>1. Good(T \ {p})
      BY <1>1, <1>4
    <2>2. y \in T \ {p} /\ (T \ {p}) \ {y} = rest
      BY <1>5
    <2>3. QED
      BY <2>1, <2>2
  <1>7. SumFunctionOnSet(f, T \ {y}) = f[p] + SumFunctionOnSet(f, rest)
    <2>1. Good(T \ {y})
      BY <1>1
    <2>2. p \in T \ {y} /\ (T \ {y}) \ {p} = rest
      BY <1>4, <1>5
    <2>3. QED
      BY <2>1, <2>2
  <1>8. SumFunctionOnSet(f, rest) \in Int /\ f[p] \in Int /\ f[y] \in Int
    BY <1>1, <1>2, <1>4
  <1>9. QED
    BY <1>3, <1>4, <1>6, <1>7, <1>8

\* The sum depends on nothing but the values added.
LEMMA SumAgrees ==
  ASSUME NEW f, NEW g, NEW S, IsFiniteSet(S), \A x \in S : f[x] = g[x]
  PROVE  SumFunctionOnSet(f, S) = SumFunctionOnSet(g, S)
  <1> DEFINE Bad == {T \in SUBSET S : SumFunctionOnSet(f, T) # SumFunctionOnSet(g, T)}
  <1> SUFFICES ASSUME S \in Bad PROVE FALSE
    OBVIOUS
  <1>1. PICK T \in Bad : \A U \in Bad : U \subseteq T => U = T
    <2>1. Bad # {} /\ Bad \subseteq SUBSET S
      OBVIOUS
    <2> HIDE DEF Bad
    <2>2. QED
      BY <2>1, SmallestSubset
  <1>2. IsFiniteSet(T)
    BY FS_Subset
  <1>3. T # {}
    BY <1>1, SumOfNone
  <1>4. Picked(T) \in T
    BY <1>3, PickedIn
  <1>5. SumFunctionOnSet(f, T \ {Picked(T)}) = SumFunctionOnSet(g, T \ {Picked(T)})
    BY <1>1, <1>4
  <1>6. /\ SumFunctionOnSet(f, T) = f[Picked(T)] + SumFunctionOnSet(f, T \ {Picked(T)})
        /\ SumFunctionOnSet(g, T) = g[Picked(T)] + SumFunctionOnSet(g, T \ {Picked(T)})
    BY <1>2, <1>3, SumStep
  <1>7. QED
    BY <1>1, <1>4, <1>5, <1>6

\* One value changes.
LEMMA SumChanged ==
  ASSUME NEW f, NEW g, NEW S, IsFiniteSet(S), NEW x \in S,
         \A y \in S : f[y] \in Int /\ g[y] \in Int,
         \A y \in S \ {x} : f[y] = g[y]
  PROVE  SumFunctionOnSet(g, S) = SumFunctionOnSet(f, S) + (g[x] - f[x])
  <1>1. IsFiniteSet(S \ {x})
    BY FS_Subset
  <1>2. SumFunctionOnSet(f, S \ {x}) = SumFunctionOnSet(g, S \ {x})
    BY <1>1, SumAgrees
  <1>3. /\ SumFunctionOnSet(f, S) = f[x] + SumFunctionOnSet(f, S \ {x})
        /\ SumFunctionOnSet(g, S) = g[x] + SumFunctionOnSet(g, S \ {x})
    BY SumWithout
  <1>4. SumFunctionOnSet(f, S \ {x}) \in Int
    BY <1>1, SumIsInt
  <1>5. QED
    BY <1>2, <1>3, <1>4

\* Zeros add nothing.
LEMMA SumOfZeros ==
  ASSUME NEW f, NEW S, IsFiniteSet(S), NEW U \in SUBSET S,
         \A x \in S : f[x] \in Int, \A x \in S \ U : f[x] = 0
  PROVE  SumFunctionOnSet(f, S) = SumFunctionOnSet(f, U)
  <1> DEFINE Bad == {T \in SUBSET S : /\ U \subseteq T
                                      /\ SumFunctionOnSet(f, T) # SumFunctionOnSet(f, U)}
  <1> SUFFICES ASSUME S \in Bad PROVE FALSE
    OBVIOUS
  <1>1. PICK T \in Bad : \A V \in Bad : V \subseteq T => V = T
    <2>1. Bad # {} /\ Bad \subseteq SUBSET S
      OBVIOUS
    <2> HIDE DEF Bad
    <2>2. QED
      BY <2>1, SmallestSubset
  <1>2. PICK x \in T : x \notin U
    <2>1. U \subseteq T /\ U # T
      BY <1>1
    <2> HIDE DEF Bad
    <2>2. QED
      BY <2>1
  <1>3. SumFunctionOnSet(f, T) = f[x] + SumFunctionOnSet(f, T \ {x})
    BY <1>1, FS_Subset, SumWithout
  <1>4. SumFunctionOnSet(f, T \ {x}) = SumFunctionOnSet(f, U)
    BY <1>1, <1>2
  <1>5. SumFunctionOnSet(f, U) \in Int
    BY FS_Subset, SumIsInt
  <1>6. QED
    BY <1>1, <1>2, <1>3, <1>4, <1>5

\* Prefixes of a sequence of numbers.
LEMMA SumOfPrefix ==
  ASSUME NEW f, NEW n \in Nat, \A i \in 0 .. n : f[i] \in Int
  PROVE  SumFunctionOnSet(f, 0 .. n) = SumFunctionOnSet(f, 0 .. n - 1) + f[n]
  <1>1. IsFiniteSet(0 .. n) /\ IsFiniteSet(0 .. n - 1) /\ n \in 0 .. n
    BY FS_Interval
  <1>2. (0 .. n) \ {n} = 0 .. n - 1
    OBVIOUS
  <1>3. SumFunctionOnSet(f, 0 .. n) = f[n] + SumFunctionOnSet(f, 0 .. n - 1)
    BY <1>1, <1>2, SumWithout
  <1>4. SumFunctionOnSet(f, 0 .. n - 1) \in Int
    BY <1>1, SumIsInt
  <1>5. QED
    BY <1>3, <1>4

\* Any bounded set of numbers that is not empty has a least one.
LEMMA LeastNumber ==
  ASSUME NEW n \in Nat, NEW N \in SUBSET (0 .. n), N # {}
  PROVE  \E k \in N : \A j \in N : k <= j
  <1> DEFINE F == {0 .. k : k \in N}
  <1>1. PICK T \in F : \A U \in F : U \subseteq T => U = T
    <2> DEFINE S == 0 .. n
    <2>1. F \subseteq SUBSET S /\ F # {}
      <3>1. \A k \in N : 0 .. k \subseteq 0 .. n
        OBVIOUS
      <3>2. PICK k : k \in N
        OBVIOUS
      <3>3. 0 .. k \in F
        BY <3>2
      <3>4. QED
        BY <3>1, <3>3
    <2>2. IsFiniteSet(S)
      BY FS_Interval
    <2> HIDE DEF F, S
    <2>3. QED
      BY <2>1, <2>2, SmallestSubset
  <1>2. PICK k \in N : T = 0 .. k
    BY <1>1
  <1>3. ASSUME NEW j \in N, j < k PROVE FALSE
    <2>1. 0 .. j \subseteq 0 .. k /\ k \in 0 .. k /\ k \notin 0 .. j
      BY <1>3
    <2>2. 0 .. j \in F
      OBVIOUS
    <2>3. QED
      BY <1>1, <1>2, <2>1, <2>2
  <1>4. QED
    BY <1>3

\* Every number below the sum falls to one place of the sequence: the sum of
\* the values before it is at most that number, and with its own value more.
LEMMA PrefixOwner ==
  ASSUME NEW n \in Nat, NEW f, \A i \in 0 .. n - 1 : f[i] \in Nat,
         NEW target \in Nat, target < SumFunctionOnSet(f, 0 .. n - 1)
  PROVE  \E b \in 0 .. n - 1 :
           /\ SumFunctionOnSet(f, 0 .. b - 1) <= target
           /\ target < SumFunctionOnSet(f, 0 .. b + 1 - 1)
           /\ f[b] > 0
  <1> DEFINE Sum(k) == SumFunctionOnSet(f, 0 .. k - 1)
             Above == {j \in 0 .. n : target < Sum(j)}
  <1>1. n \in Above
    OBVIOUS
  <1>2. \A j \in 0 .. n : IsFiniteSet(0 .. j - 1)
    BY FS_Interval
  <1>3. PICK k \in Above : \A j \in Above : k <= j
    <2>1. Above \in SUBSET (0 .. n) /\ Above # {}
      BY <1>1
    <2> HIDE DEF Above
    <2>2. QED
      BY <2>1, LeastNumber
  <1>4. k \in 0 .. n /\ target < Sum(k)
    BY <1>3
  <1>5. k # 0
    <2>1. k = 0 => 0 .. k - 1 = {}
      OBVIOUS
    <2>2. k = 0 => Sum(k) = 0
      BY <2>1, SumOfNone
    <2> HIDE DEF Sum
    <2>3. QED
      BY <1>4, <2>2
  <1> DEFINE b == k - 1
  <1>6. b \in 0 .. n - 1 /\ b \in Nat /\ b + 1 = k /\ b \in 0 .. n /\ b < k
    BY <1>4, <1>5
  <1>7. ~ (target < Sum(b))
    <2>1. ~ (k <= b)
      BY <1>4, <1>6
    <2> HIDE DEF Sum, b
    <2>2. QED
      BY <1>3, <1>6, <2>1
  <1>10. \A j \in 0 .. n : Sum(j) \in Nat
    <2> SUFFICES ASSUME NEW j \in 0 .. n PROVE Sum(j) \in Nat
      OBVIOUS
    <2>1. IsFiniteSet(0 .. j - 1) /\ \A i \in 0 .. j - 1 : f[i] \in Nat
      BY <1>2
    <2>2. QED
      BY <2>1, SumIsNat
  <1>11. Sum(b + 1) = Sum(b) + f[b]
    <2>1. \A i \in 0 .. b : f[i] \in Int
      BY <1>6
    <2>2. (b + 1) - 1 = b
      BY <1>6
    <2>3. SumFunctionOnSet(f, 0 .. b) = SumFunctionOnSet(f, 0 .. b - 1) + f[b]
      BY <1>6, <2>1, SumOfPrefix
    <2>4. QED
      BY <2>2, <2>3
  <1>12. target < Sum(b + 1)
    BY <1>4, <1>6
  <1>13. Sum(b) \in Nat /\ Sum(b + 1) \in Nat /\ f[b] \in Nat
    BY <1>4, <1>6, <1>10
  <1> HIDE DEF b, Sum
  <1>14. Sum(b) <= target /\ f[b] > 0
    BY <1>7, <1>11, <1>12, <1>13
  <1>15. QED
    BY <1>6, <1>12, <1>14 DEF Sum

\* A function that starts at 0 and grows by f is the running sum of f.
LEMMA RunningSum ==
  ASSUME NEW f, NEW g, NEW n \in Nat, g[0] = 0,
         \A i \in 0 .. n - 1 : f[i] \in Int /\ g[i + 1] = g[i] + f[i]
  PROVE  SumFunctionOnSet(f, 0 .. n - 1) = g[n]
  <1> DEFINE Bad == {k \in 0 .. n : SumFunctionOnSet(f, 0 .. k - 1) # g[k]}
  <1> SUFFICES ASSUME n \in Bad PROVE FALSE
    OBVIOUS
  <1>1. PICK k \in Bad : \A j \in Bad : k <= j
    <2>1. Bad \in SUBSET (0 .. n)
      OBVIOUS
    <2> HIDE DEF Bad
    <2>2. QED
      BY <2>1, LeastNumber
  <1>2. k # 0
    <2>1. 0 .. 0 - 1 = {}
      OBVIOUS
    <2>2. SumFunctionOnSet(f, 0 .. 0 - 1) = g[0]
      BY <2>1, SumOfNone
    <2>3. QED
      BY <1>1, <2>2
  <1>3. PICK j \in 0 .. n - 1 : k = j + 1 /\ k - 1 = j /\ j \in Nat
    <2>1. k - 1 \in 0 .. n - 1 /\ k = (k - 1) + 1 /\ k - 1 \in Nat
      BY <1>1, <1>2
    <2>2. QED
      BY <2>1
  <1>4. j \notin Bad /\ j \in 0 .. n
    BY <1>1, <1>3
  <1>5. SumFunctionOnSet(f, 0 .. j - 1) = g[j]
    BY <1>4
  <1>6. SumFunctionOnSet(f, 0 .. j) = SumFunctionOnSet(f, 0 .. j - 1) + f[j]
    <2>1. \A i \in 0 .. j : f[i] \in Int
      BY <1>3
    <2>2. QED
      BY <1>3, <2>1, SumOfPrefix
  <1>7. g[j + 1] = g[j] + f[j]
    BY <1>3
  <1>8. SumFunctionOnSet(f, 0 .. k - 1) = g[k]
    BY <1>3, <1>5, <1>6, <1>7
  <1>9. QED
    BY <1>1, <1>8

\* A finite set has an element of the largest number.
LEMMA LargestExists ==
  ASSUME NEW S, IsFiniteSet(S), S # {}, NEW f, \A i \in S : f[i] \in Int
  PROVE  \E i \in S : \A j \in S : f[j] <= f[i]
<1> DEFINE above == [i \in S |-> {j \in S : f[j] >= f[i]}]
           family == {above[i] : i \in S}
<1>1. family \subseteq SUBSET S /\ family # {}
  OBVIOUS
<1>2. \A i \in S, j \in S : j \in above[i] <=> f[j] >= f[i]
  OBVIOUS
<1>3. \A i \in S : above[i] \in family /\ above[i] \subseteq S
  OBVIOUS
<1>4. \A U \in family : \E i \in S : U = above[i]
  OBVIOUS
<1> HIDE DEF above, family
<1>5. PICK U \in family : \A V \in family : V \subseteq U => V = U
  BY <1>1, SmallestSubset
<1>6. PICK i \in S : U = above[i]
  BY <1>4
<1>7. ASSUME NEW j \in S, ~ (f[j] <= f[i]) PROVE FALSE
  <2>1. above[j] \subseteq above[i]
    BY <1>2, <1>3, <1>7
  <2>2. i \in above[i] /\ i \notin above[j]
    BY <1>2, <1>7
  <2> QED
    BY <1>3, <1>5, <1>6, <2>1, <2>2
<1> QED
  BY <1>7
=============================================================================
