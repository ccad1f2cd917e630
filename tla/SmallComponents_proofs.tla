------------------------- MODULE SmallComponents_proofs -------------------------
(***************************************************************************)
(* Proofs about the smaller components: the initialiser, the vault, the       *)
(* throttler, the event stream and the parser of plans.  They come after what  *)
(* several of them need: sequences, greatest elements of sets, and sums over   *)
(* finite sets.                                                            *)
(***************************************************************************)
EXTENDS InitRun, VaultSync, ChatThrottle, RunEvents, PlanParser, Integers,
        FiniteSetTheorems, SequenceTheorems, WellFoundedInduction, TLAPS

(***************************************************************************)
(* Sequences, smallest subsets and greatest elements.                      *)
(***************************************************************************)
LEMMA Elements ==
  ASSUME NEW S, NEW s \in Seq(S)
  PROVE  /\ Len(s) \in Nat /\ DOMAIN s = 1..Len(s)
         /\ \A i \in DOMAIN s : s[i] \in S
         /\ ToSet(s) \in SUBSET S
BY LenProperties, ElementOfSeq DEF ToSet

LEMMA AppendedTo ==
  ASSUME NEW S, NEW s \in Seq(S), NEW e \in S
  PROVE  /\ Append(s, e) \in Seq(S) /\ Len(Append(s, e)) = Len(s) + 1
         /\ DOMAIN Append(s, e) = DOMAIN s \cup {Len(s) + 1} /\ Len(s) + 1 \notin DOMAIN s
         /\ \A i \in DOMAIN s : Append(s, e)[i] = s[i]
         /\ Append(s, e)[Len(s) + 1] = e
         /\ ToSet(Append(s, e)) = ToSet(s) \cup {e}
<1>1. /\ Append(s, e) \in Seq(S) /\ Len(Append(s, e)) = Len(s) + 1
      /\ DOMAIN Append(s, e) = DOMAIN s \cup {Len(s) + 1} /\ Len(s) + 1 \notin DOMAIN s
      /\ \A i \in DOMAIN s : Append(s, e)[i] = s[i]
      /\ Append(s, e)[Len(s) + 1] = e
  BY AppendProperties, LenProperties
<1> QED
  BY <1>1 DEF ToSet

LEMMA SmallestSubset ==
  ASSUME NEW S, IsFiniteSet(S), NEW Bad \in SUBSET SUBSET S, Bad # {}
  PROVE  \E T \in Bad : \A U \in SUBSET T : U # T => U \notin Bad
<1>1. IsWellFoundedOn(StrictSubsetOrdering(S), SUBSET S)
  BY FS_FiniteSubsetsOfFinite, FS_StrictSubsetOrderingWellFounded
<1>2. PICK T \in Bad : \A U \in Bad : <<U, T>> \notin StrictSubsetOrdering(S)
  <2>1. \E T \in Bad : \A U \in Bad : ~(<<U, T>> \in StrictSubsetOrdering(S))
    BY <1>1, WFMin
  <2> QED
    BY <2>1
<1>3. ASSUME NEW U \in SUBSET T, U # T PROVE U \notin Bad
  <2>1. U \in SUBSET S /\ T \in SUBSET S
    BY <1>2
  <2>2. <<U, T>> \in StrictSubsetOrdering(S)
    BY <1>3, <2>1 DEF StrictSubsetOrdering
  <2> QED
    BY <1>2, <2>2
<1> QED
  BY <1>2, <1>3

LEMMA GreatestExists ==
  ASSUME NEW S \in SUBSET Int, IsFiniteSet(S), S # {}
  PROVE  Max(S) \in S /\ \A x \in S : x <= Max(S)
<1> DEFINE Bad == {T \in SUBSET S : T # {} /\ ~ \E m \in T : \A x \in T : m >= x}
<1>1. Bad = {}
  <2>1. SUFFICES ASSUME Bad # {} PROVE FALSE
    OBVIOUS
  <2>2. PICK T \in Bad : \A U \in SUBSET T : U # T => U \notin Bad
    <3>1. Bad \in SUBSET SUBSET S
      OBVIOUS
    <3> HIDE DEF Bad
    <3> QED
      BY <2>1, <3>1, SmallestSubset
  <2>3. PICK t \in T : T \in SUBSET S /\ \A m \in T : \E x \in T : ~(m >= x)
    BY <2>2
  <2>4. T \ {t} \in SUBSET S /\ T \ {t} \notin Bad
    BY <2>2, <2>3
  <2>5. T \ {t} # {}
    BY <2>3
  <2>6. PICK m \in T \ {t} : \A x \in T \ {t} : m >= x
    BY <2>4, <2>5
  <2>7. CASE m >= t
    BY <2>3, <2>6, <2>7
  <2>8. CASE ~(m >= t)
    <3>1. \A x \in T : t >= x
      BY <2>3, <2>6, <2>8
    <3> QED
      BY <2>3, <3>1
  <2> QED
    BY <2>7, <2>8
<1>2. PICK m \in S : \A x \in S : m >= x
  <2>1. S \in SUBSET S
    OBVIOUS
  <2> QED
    BY <1>1, <2>1
<1>3. Max(S) \in S /\ \A x \in S : Max(S) >= x
  BY <1>2, Zenon DEF Max
<1> QED
  BY <1>3

LEMMA GreatestIs ==
  ASSUME NEW S \in SUBSET Int, NEW m \in S, \A x \in S : x <= m
  PROVE  Max(S) = m
<1>1. \A x \in S : m >= x
  OBVIOUS
<1>2. Max(S) \in S /\ \A x \in S : Max(S) >= x
  BY <1>1, Zenon DEF Max
<1>3. Max(S) \in Int /\ m \in Int /\ Max(S) >= m /\ Max(S) <= m
  BY <1>2
<1> HIDE DEF Max
<1> QED
  BY <1>3

LEMMA GreatestOfSome ==
  ASSUME NEW n \in Nat, NEW S \in SUBSET (1..n), S # {}
  PROVE  IsFiniteSet(S) /\ Max(S) \in S /\ \A x \in S : x <= Max(S)
<1>1. IsFiniteSet(S)
  <2>1. IsFiniteSet(1..n)
    BY FS_Interval
  <2> QED
    BY <2>1, FS_Subset
<1>2. S \in SUBSET Int
  OBVIOUS
<1> QED
  BY <1>1, <1>2, GreatestExists

(***************************************************************************)
(* Sums.                                                                   *)
(***************************************************************************)
One(T) == CHOOSE x \in T : TRUE

LEMMA OneOf ==
  ASSUME NEW T, T # {}
  PROVE  One(T) \in T
BY DEF One

\* g sums f over the subsets of S.
Sums(g, f, S) ==
  g = [T \in SUBSET S |-> IF T = {} THEN 0 ELSE f[One(T)] + g[T \ {One(T)}]]

LEMMA SumOverIs ==
  ASSUME NEW S, NEW f
  PROVE  SumOver(f, S) = (CHOOSE g : Sums(g, f, S))[S]
BY DEF SumOver, FoldFunctionOnSet, MapThenFoldSet, Sums, One

LEMMA SumsAt ==
  ASSUME NEW S, NEW f, NEW g, Sums(g, f, S)
  PROVE  /\ g[{}] = 0
         /\ \A T \in SUBSET S : T # {} => g[T] = f[One(T)] + g[T \ {One(T)}]
<1>1. \A T \in SUBSET S : g[T] = IF T = {} THEN 0 ELSE f[One(T)] + g[T \ {One(T)}]
  BY DEF Sums
<1> QED
  BY <1>1

LEMMA SumsAgree ==
  ASSUME NEW S, IsFiniteSet(S), NEW R, NEW f, NEW h, \A x \in S : f[x] = h[x],
         NEW g, Sums(g, f, S), NEW k, Sums(k, h, R), S \in SUBSET R
  PROVE  \A T \in SUBSET S : g[T] = k[T]
<1> DEFINE Bad == {T \in SUBSET S : g[T] # k[T]}
<1>1. SUFFICES ASSUME Bad # {} PROVE FALSE
  OBVIOUS
<1>2. PICK T \in Bad : \A U \in SUBSET T : U # T => U \notin Bad
  <2>1. Bad \in SUBSET SUBSET S
    OBVIOUS
  <2> HIDE DEF Bad
  <2> QED
    BY <1>1, <2>1, SmallestSubset
<1>3. T # {} /\ T \in SUBSET S /\ g[T] # k[T]
  <2>1. g[{}] = 0
    BY SumsAt
  <2>2. k[{}] = 0
    BY SumsAt
  <2>3. T \in SUBSET S /\ g[T] # k[T]
    BY <1>2
  <2> QED
    BY <2>1, <2>2, <2>3
<1>4. T \ {One(T)} \in SUBSET T /\ T \ {One(T)} # T /\ One(T) \in S
  BY <1>3, OneOf
<1>5. g[T \ {One(T)}] = k[T \ {One(T)}]
  BY <1>2, <1>4
<1>6. g[T] = f[One(T)] + g[T \ {One(T)}] /\ k[T] = h[One(T)] + k[T \ {One(T)}]
  <2>1. T \in SUBSET R
    BY <1>3
  <2> HIDE DEF Bad
  <2>2. \A U \in SUBSET S : U # {} => g[U] = f[One(U)] + g[U \ {One(U)}]
    BY DEF Sums
  <2>3. \A U \in SUBSET R : U # {} => k[U] = h[One(U)] + k[U \ {One(U)}]
    BY DEF Sums
  <2> QED
    BY <1>3, <2>1, <2>2, <2>3
<1> QED
  BY <1>3, <1>4, <1>5, <1>6

LEMMA SumsExist ==
  ASSUME NEW S, IsFiniteSet(S), NEW f
  PROVE  \E g : Sums(g, f, S)
<1> DEFINE Bad == {T \in SUBSET S : ~ \E g : Sums(g, f, T)}
<1>1. SUFFICES ASSUME Bad # {} PROVE FALSE
  OBVIOUS
<1>2. PICK T \in Bad : \A U \in SUBSET T : U # T => U \notin Bad
  <2>1. Bad \in SUBSET SUBSET S
    OBVIOUS
  <2> HIDE DEF Bad
  <2> QED
    BY <1>1, <2>1, SmallestSubset
<1> DEFINE gOf(U) == CHOOSE g : Sums(g, f, U)
           g == [U \in SUBSET T |-> IF U = {} THEN 0 ELSE f[One(U)] + gOf(U \ {One(U)})[U \ {One(U)}]]
<1>3. \A U \in SUBSET T : U # T => Sums(gOf(U), f, U)
  BY <1>2
<1>4. ASSUME NEW U \in SUBSET T, U # T
      PROVE  g[U] = gOf(U)[U]
  <2>1. CASE U = {}
    BY <1>3, <1>4, <2>1, SumsAt
  <2>2. CASE U # {}
    <3> DEFINE V == U \ {One(U)}
    <3>1. One(U) \in U /\ V \in SUBSET U /\ V \in SUBSET T /\ V # T
      BY <1>4, <2>2, OneOf
    <3>2. Sums(gOf(U), f, U) /\ Sums(gOf(V), f, V)
      BY <1>3, <1>4, <3>1
    <3>3. IsFiniteSet(V)
      BY <1>2, <3>1, FS_Subset
    <3>4. gOf(V)[V] = gOf(U)[V]
      <4>1. V \in SUBSET V
        OBVIOUS
      <4> HIDE DEF gOf, V
      <4> QED
        BY <3>1, <3>2, <3>3, <4>1, SumsAgree
    <3>5. gOf(U)[U] = f[One(U)] + gOf(U)[V]
      <4>1. U \in SUBSET U
        OBVIOUS
      <4> HIDE DEF gOf
      <4> QED
        BY <2>2, <3>2, <4>1, SumsAt
    <3>6. g[U] = f[One(U)] + gOf(V)[V]
      BY <2>2
    <3> QED
      BY <3>4, <3>5, <3>6
  <2> QED
    BY <2>1, <2>2
<1>5. Sums(g, f, T)
  <2>1. ASSUME NEW U \in SUBSET T, U # {}
        PROVE  g[U] = f[One(U)] + g[U \ {One(U)}]
    <3>1. U \ {One(U)} \in SUBSET T /\ U \ {One(U)} # T
      BY <2>1, OneOf
    <3>2. g[U \ {One(U)}] = gOf(U \ {One(U)})[U \ {One(U)}]
      <4> HIDE DEF g, gOf
      <4> QED
        BY <1>4, <3>1
    <3>3. g[U] = f[One(U)] + gOf(U \ {One(U)})[U \ {One(U)}]
      BY <2>1
    <3> QED
      BY <3>2, <3>3
  <2>2. g[{}] = 0
    OBVIOUS
  <2>3. g = [U \in SUBSET T |-> g[U]]
    OBVIOUS
  <2> HIDE DEF g
  <2>4. [U \in SUBSET T |-> g[U]] = [U \in SUBSET T |-> IF U = {} THEN 0 ELSE f[One(U)] + g[U \ {One(U)}]]
    BY <2>1, <2>2
  <2> QED
    BY <2>3, <2>4 DEF Sums
<1>6. T \notin Bad
  <2> HIDE DEF g
  <2> QED
    BY <1>5
<1> QED
  BY <1>2, <1>6

LEMMA SumsSum ==
  ASSUME NEW S, IsFiniteSet(S), NEW f
  PROVE  \E g : Sums(g, f, S) /\ SumOver(f, S) = g[S]
<1> DEFINE g == CHOOSE h : Sums(h, f, S)
<1>1. Sums(g, f, S)
  BY SumsExist
<1> HIDE DEF g
<1>2. SumOver(f, S) = g[S]
  BY SumOverIs DEF g
<1> QED
  BY <1>1, <1>2

\* A sum of numbers is a number, whichever is taken first.
LEMMA SumsAny ==
  ASSUME NEW S, IsFiniteSet(S), NEW f, \A x \in S : f[x] \in Int, NEW g, Sums(g, f, S)
  PROVE  \A T \in SUBSET S : g[T] \in Int /\ \A x \in T : g[T] = f[x] + g[T \ {x}]
<1> DEFINE Bad == {T \in SUBSET S : ~(g[T] \in Int /\ \A x \in T : g[T] = f[x] + g[T \ {x}])}
<1>1. SUFFICES ASSUME Bad # {} PROVE FALSE
  OBVIOUS
<1>2. PICK T \in Bad : \A U \in SUBSET T : U # T => U \notin Bad
  <2>1. Bad \in SUBSET SUBSET S
    OBVIOUS
  <2> HIDE DEF Bad
  <2> QED
    BY <1>1, <2>1, SmallestSubset
<1>3. T # {} /\ T \in SUBSET S
  <2>1. g[{}] = 0
    BY SumsAt
  <2>2. T \in SUBSET S /\ ~(g[T] \in Int /\ \A x \in T : g[T] = f[x] + g[T \ {x}])
    BY <1>2
  <2> QED
    <3> HIDE DEF Bad
    <3>1. T = {} => g[T] \in Int
      BY <2>1
    <3> QED
      BY <2>2, <3>1
<1> HIDE DEF Bad
<1> DEFINE y == One(T)
<1>4. y \in T /\ g[T] = f[y] + g[T \ {y}]
  <2>1. \A U \in SUBSET S : U # {} => g[U] = f[One(U)] + g[U \ {One(U)}]
    BY DEF Sums
  <2> QED
    BY <1>3, <2>1, OneOf
<1> HIDE DEF y
<1>5. ASSUME NEW U \in SUBSET T, U # T
      PROVE  g[U] \in Int /\ \A x \in U : g[U] = f[x] + g[U \ {x}]
  BY <1>2, <1>3, <1>5 DEF Bad
<1>6. g[T] \in Int
  <2>1. g[T \ {y}] \in Int
    BY <1>4, <1>5
  <2> QED
    BY <1>3, <1>4, <2>1
<1>7. ASSUME NEW x \in T PROVE g[T] = f[x] + g[T \ {x}]
  <2>1. CASE x = y
    BY <1>4, <2>1
  <2>2. CASE x # y
    <3>1. g[T \ {y}] = f[x] + g[(T \ {y}) \ {x}]
      BY <1>4, <1>5, <2>2
    <3>2. g[T \ {x}] = f[y] + g[(T \ {x}) \ {y}]
      BY <1>4, <1>5, <2>2
    <3>3. (T \ {x}) \ {y} = (T \ {y}) \ {x}
      OBVIOUS
    <3>4. g[(T \ {y}) \ {x}] \in Int /\ f[x] \in Int /\ f[y] \in Int
      <4>1. (T \ {y}) \ {x} \in SUBSET T /\ (T \ {y}) \ {x} # T
        BY <1>4
      <4>2. g[(T \ {y}) \ {x}] \in Int
        BY <1>5, <4>1
      <4>3. x \in S /\ y \in S
        BY <1>3, <1>4
      <4> QED
        BY <4>2, <4>3
    <3> QED
      <4> DEFINE rest == g[(T \ {y}) \ {x}]
      <4>1. g[T] = f[y] + (f[x] + rest) /\ g[T \ {x}] = f[y] + rest
        BY <1>4, <3>1, <3>2, <3>3
      <4>2. rest \in Int /\ f[x] \in Int /\ f[y] \in Int
        BY <3>4
      <4> HIDE DEF rest
      <4>3. \A a, b, d \in Int : a + (b + d) = b + (a + d)
        OBVIOUS
      <4> QED
        BY <4>1, <4>2, <4>3
  <2> QED
    BY <2>1, <2>2
<1> QED
  BY <1>2, <1>6, <1>7 DEF Bad

LEMMA SumOfNone ==
  ASSUME NEW f
  PROVE  SumOver(f, {}) = 0
<1>1. PICK g : Sums(g, f, {}) /\ SumOver(f, {}) = g[{}]
  BY SumsSum, FS_EmptySet
<1> QED
  BY <1>1, SumsAt

LEMMA SumOfEqual ==
  ASSUME NEW S, IsFiniteSet(S), NEW f, NEW h, \A x \in S : f[x] = h[x]
  PROVE  SumOver(f, S) = SumOver(h, S)
<1>1. PICK g : Sums(g, f, S) /\ SumOver(f, S) = g[S]
  BY SumsSum
<1>2. PICK k : Sums(k, h, S) /\ SumOver(h, S) = k[S]
  BY SumsSum
<1>3. S \in SUBSET S
  OBVIOUS
<1>4. g[S] = k[S]
  BY <1>1, <1>2, <1>3, SumsAgree
<1> QED
  BY <1>1, <1>2, <1>4

LEMMA SumWith ==
  ASSUME NEW S, IsFiniteSet(S), NEW f, \A x \in S : f[x] \in Int, NEW x \in S
  PROVE  /\ SumOver(f, S) = f[x] + SumOver(f, S \ {x})
         /\ SumOver(f, S) \in Int /\ SumOver(f, S \ {x}) \in Int
<1>1. PICK g : Sums(g, f, S) /\ SumOver(f, S) = g[S]
  BY SumsSum
<1>2. IsFiniteSet(S \ {x})
  BY FS_Subset
<1>3. PICK k : Sums(k, f, S \ {x}) /\ SumOver(f, S \ {x}) = k[S \ {x}]
  BY <1>2, SumsSum
<1>4. S \in SUBSET S /\ S \ {x} \in SUBSET S /\ S \ {x} \in SUBSET (S \ {x})
  OBVIOUS
<1>5. k[S \ {x}] = g[S \ {x}]
  BY <1>1, <1>2, <1>3, <1>4, SumsAgree
<1>6. g[S] \in Int /\ g[S \ {x}] \in Int /\ g[S] = f[x] + g[S \ {x}]
  BY <1>1, <1>4, SumsAny
<1> QED
  BY <1>1, <1>3, <1>5, <1>6

LEMMA SumWithout ==
  ASSUME NEW S, IsFiniteSet(S), NEW x, x \notin S,
         NEW f, \A y \in S : f[y] \in Int, NEW h, \A y \in S : h[y] = f[y], h[x] \in Int
  PROVE  SumOver(h, S \cup {x}) = SumOver(f, S) + h[x]
<1> DEFINE T == S \cup {x}
<1>1. IsFiniteSet(T) /\ x \in T /\ T \ {x} = S /\ \A y \in T : h[y] \in Int
  BY FS_AddElement
<1> HIDE DEF T
<1>2. SumOver(h, T) = h[x] + SumOver(h, T \ {x}) /\ SumOver(h, T \ {x}) \in Int
  BY <1>1, SumWith
<1>3. SumOver(h, S) = SumOver(f, S)
  BY SumOfEqual
<1>4. SumOver(f, S) \in Int
  BY <1>1, <1>2, <1>3
<1>5. SumOver(h, T) = SumOver(f, S) + h[x]
  <2>1. \A a, b \in Int : a + b = b + a
    OBVIOUS
  <2> QED
    BY <1>1, <1>2, <1>3, <1>4, <2>1
<1> QED
  BY <1>5 DEF T

LEMMA SumWithChange ==
  ASSUME NEW S, IsFiniteSet(S), NEW x \in S,
         NEW f, \A y \in S : f[y] \in Int, NEW h, \A y \in S : h[y] \in Int,
         \A y \in S : y # x => h[y] = f[y]
  PROVE  SumOver(h, S) = (SumOver(f, S) + h[x]) - f[x]
<1>1. SumOver(h, S) = h[x] + SumOver(h, S \ {x}) /\ SumOver(h, S \ {x}) \in Int
  BY SumWith
<1>2. SumOver(f, S) = f[x] + SumOver(f, S \ {x}) /\ SumOver(f, S \ {x}) \in Int
  BY SumWith
<1>3. SumOver(h, S \ {x}) = SumOver(f, S \ {x})
  <2>1. IsFiniteSet(S \ {x}) /\ \A y \in S \ {x} : h[y] = f[y]
    BY FS_Subset
  <2> QED
    BY <2>1, SumOfEqual
<1> DEFINE rest == SumOver(f, S \ {x})
<1>4. /\ SumOver(h, S) = h[x] + rest /\ SumOver(f, S) = f[x] + rest
      /\ f[x] \in Int /\ h[x] \in Int /\ rest \in Int
  BY <1>1, <1>2, <1>3
<1> HIDE DEF rest
<1>5. \A a, b, r \in Int : a + r = ((b + r) + a) - b
  OBVIOUS
<1> QED
  BY <1>4, <1>5

LEMMA SumIsNatural ==
  ASSUME NEW S, IsFiniteSet(S), NEW f, \A x \in S : f[x] \in Nat
  PROVE  SumOver(f, S) \in Nat
<1> DEFINE Bad == {T \in SUBSET S : SumOver(f, T) \notin Nat}
<1>1. SUFFICES ASSUME Bad # {} PROVE FALSE
  <2>1. S \in SUBSET S
    OBVIOUS
  <2> QED
    BY <2>1
<1>2. PICK T \in Bad : \A U \in SUBSET T : U # T => U \notin Bad
  <2>1. Bad \in SUBSET SUBSET S
    OBVIOUS
  <2> HIDE DEF Bad
  <2> QED
    BY <1>1, <2>1, SmallestSubset
<1>3. T \in SUBSET S /\ SumOver(f, T) \notin Nat
  BY <1>2
<1>4. PICK x : x \in T
  <2>1. T # {}
    BY <1>3, SumOfNone
  <2> QED
    BY <2>1
<1>5. SumOver(f, T \ {x}) \in Nat
  BY <1>2, <1>3, <1>4
<1>6. SumOver(f, T) = f[x] + SumOver(f, T \ {x})
  <2>1. IsFiniteSet(T) /\ \A y \in T : f[y] \in Int
    BY <1>3, FS_Subset
  <2> QED
    BY <1>4, <2>1, SumWith
<1>7. f[x] \in Nat
  BY <1>3, <1>4
<1> QED
  BY <1>3, <1>5, <1>6, <1>7

LEMMA SumOfZeros ==
  ASSUME NEW S, IsFiniteSet(S), NEW f, \A x \in S : f[x] = 0
  PROVE  SumOver(f, S) = 0
<1> DEFINE Bad == {T \in SUBSET S : SumOver(f, T) # 0}
<1>1. SUFFICES ASSUME Bad # {} PROVE FALSE
  <2>1. S \in SUBSET S
    OBVIOUS
  <2> QED
    BY <2>1
<1>2. PICK T \in Bad : \A U \in SUBSET T : U # T => U \notin Bad
  <2>1. Bad \in SUBSET SUBSET S
    OBVIOUS
  <2> HIDE DEF Bad
  <2> QED
    BY <1>1, <2>1, SmallestSubset
<1>3. T \in SUBSET S /\ SumOver(f, T) # 0
  BY <1>2
<1>4. PICK x : x \in T
  <2>1. T # {}
    BY <1>3, SumOfNone
  <2> QED
    BY <2>1
<1>5. SumOver(f, T \ {x}) = 0
  BY <1>2, <1>3, <1>4
<1>6. SumOver(f, T) = f[x] + SumOver(f, T \ {x})
  <2>1. IsFiniteSet(T) /\ \A y \in T : f[y] \in Int
    BY <1>3, FS_Subset
  <2> QED
    BY <1>4, <2>1, SumWith
<1>7. f[x] = 0
  BY <1>3, <1>4
<1> QED
  BY <1>3, <1>5, <1>6, <1>7

----------------------------------------------------------------------------
(***************************************************************************)
(* InitRun: for any research sessions, configurations and bounds.          *)
(***************************************************************************)

(***************************************************************************)
(* The inductive invariant.                                                *)
(***************************************************************************)
Sequential == {"setup", "config", "project", "synthesis", "requirements", "roadmap"}
AfterResearch == {"synthesis", "requirements", "roadmap"}

\* The steps that have succeeded when step s is open.
Earlier(s) ==
  CASE s = "config" -> {"setup"}
    [] s = "project" -> {"setup", "config"}
    [] s = "synthesis" -> {"setup", "config", "project"}
    [] s = "requirements" -> {"setup", "config", "project", "synthesis"}
    [] s = "roadmap" -> {"setup", "config", "project", "synthesis", "requirements"}
    [] OTHER -> {}

\* One step is open, at one of its awaits, or the research sessions that go on.
OpenStep(s) ==
  /\ openSteps = {s}
  /\ CASE s = "setup" -> initRun.pc = "step"
       [] s = "config" -> initRun.pc \in {"git", "write", "set", "commit"}
       [] OTHER -> initRun.pc \in {"step", "commit"}
  /\ \A t \in Earlier(s) : stepResults[t] = "ok"
  /\ s \in AfterResearch => \A r \in ResearchTypes : stepResults[r] \in {"ok", "failed"}

Researching ==
  /\ openSteps \subseteq ResearchTypes /\ openSteps # {} /\ initRun.pc = "step"
  /\ \A t \in {"setup", "config", "project"} : stepResults[t] = "ok"
  /\ \A r \in ResearchTypes \ openSteps : stepResults[r] \in {"ok", "failed"}

Progress ==
  IF initRun.pc = "idle" THEN openSteps = {}
  ELSE report = "none" /\ (Researching \/ \E s \in Sequential : OpenStep(s))

\* What a step has listed, at the latest when it succeeds.
Listed ==
  /\ \A s \in InitSteps : stepResults[s] = "ok" => FilesOf(s) \subseteq artifacts
  /\ initRun.pc = "commit" => \A s \in openSteps : FilesOf(s) \subseteq artifacts
  /\ initRun.pc = "set" => "config.json" \in artifacts

\* What the configuration step leaves, which only DeletePlanning takes away.
Configured ==
  /\ initRun.pc = "write" => hasGit
  /\ initRun.pc # "idle" /\ (initRun.pc \in {"set", "commit"} \/ stepResults["config"] = "ok") =>
       "config.json" \in planning /\ hasGit
  /\ RefusedHasConfig

\* A project is written by the run that found none.
WrittenInv ==
  /\ initRun.pc # "idle" => initRun.number # 0
  /\ projectWriters # {} => "PROJECT.md" \in planning
  /\ initRun.pc # "idle" /\ stepResults["setup"] = "ok" => projectWriters \subseteq {initRun.number}
  /\ \E n \in 0..MaxInits : projectWriters \subseteq {n}

InitRunInv == InitRunTypeOK /\ Progress /\ Listed /\ ReportIsHonest /\ Configured /\ WrittenInv

(***************************************************************************)
(* The steps and their files.                                              *)
(***************************************************************************)
LEMMA StepNames ==
  /\ Sequential \subseteq InitSteps /\ ResearchTypes \subseteq InitSteps
  /\ InitSteps = Sequential \cup ResearchTypes
  /\ Sequential \cap ResearchTypes = {}
BY InitRunAssumption DEF Sequential, InitSteps, SessionSteps

LEMMA FilesAreFiles == \A s \in InitSteps : FilesOf(s) \subseteq InitFiles
BY DEF InitFiles

LEMMA FileNames ==
  /\ FilesOf("config") = {"config.json"}
  /\ FilesOf("setup") = {}
BY InitRunAssumption DEF FilesOf

LEMMA InitRunInitType == InitRunInit => InitRunInv
BY InitRunAssumption, StepNames
   DEF InitRunInit, InitRunInv, InitRunTypeOK, Progress, Listed, ReportIsHonest, Configured, WrittenInv,
       RefusedHasConfig, InitSteps, Sequential

(***************************************************************************)
(* The ends of a step.                                                     *)
(***************************************************************************)
LEMMA Fails ==
  ASSUME InitRunInv, NEW s \in Sequential, openSteps = {s}, StepFails(s),
         planning \subseteq planning', planning' \subseteq InitFiles,
         artifacts \subseteq artifacts', artifacts' \subseteq InitFiles,
         "PROJECT.md" \in planning' => "PROJECT.md" \in planning,
         hasGit => hasGit', hasGit' \in BOOLEAN, UNCHANGED projectWriters
  PROVE  InitRunInv'
<1>0. s \in InitSteps /\ InitRunTypeOK
  BY StepNames DEF InitRunInv
<1>1. /\ initRun' = [initRun EXCEPT !.pc = "idle"] /\ report' = "failure" /\ openSteps' = {}
      /\ stepResults' = [stepResults EXCEPT ![s] = "failed"]
  BY DEF StepFails, Return
<1>2. /\ initRun'.pc = "idle" /\ stepResults'[s] = "failed"
      /\ \A t \in InitSteps \ {s} : stepResults'[t] = stepResults[t]
  BY <1>0, <1>1 DEF InitRunTypeOK
<1>3. InitRunTypeOK'
  BY <1>0, <1>1 DEF InitRunTypeOK
<1>4. Progress' /\ ReportIsHonest'
  BY <1>0, <1>1, <1>2 DEF Progress, ReportIsHonest
<1>5. Listed'
  BY <1>0, <1>2 DEF Listed, InitRunInv
<1>6. Configured' /\ WrittenInv'
  BY <1>1, <1>2 DEF Configured, RefusedHasConfig, WrittenInv, InitRunInv
<1> QED
  BY <1>3, <1>4, <1>5, <1>6 DEF InitRunInv

\* The end of a step that went well, with what it leaves.
LEMMA Succeeds ==
  ASSUME InitRunInv, NEW s \in Sequential \ {"setup"}, OpenStep(s), StepSucceeds(s),
         UNCHANGED <<planning, hasGit, projectWriters>>,
         artifacts' = artifacts \cup FilesOf(s),
         s = "config" => "config.json" \in planning /\ hasGit
  PROVE  InitRunInv'
<1>0. s \in InitSteps /\ InitRunTypeOK /\ Progress /\ report = "none" /\ initRun.pc # "idle"
  BY StepNames DEF InitRunInv, OpenStep, Progress, Sequential
<1>1. /\ stepResults' = [stepResults EXCEPT ![s] = "ok"]
      /\ openSteps' = ({s} \ {s}) \cup Following[s]
      /\ initRun' = [initRun EXCEPT !.pc = IF s = "roadmap" THEN "idle" ELSE "step"]
      /\ report' = IF s # "roadmap" THEN "none" ELSE IF AllResearched THEN "success" ELSE "failure"
  BY <1>0 DEF StepSucceeds, Return, OpenStep
<1>2. /\ stepResults'[s] = "ok"
      /\ \A t \in InitSteps \ {s} : stepResults'[t] = stepResults[t]
      /\ initRun'.pc = IF s = "roadmap" THEN "idle" ELSE "step"
      /\ initRun'.number = initRun.number
  BY <1>0, <1>1 DEF InitRunTypeOK
<1>3. openSteps' = CASE s = "config" -> {"project"}
                     [] s = "project" -> ResearchTypes
                     [] s = "synthesis" -> {"requirements"}
                     [] s = "requirements" -> {"roadmap"}
                     [] OTHER -> {}
  BY <1>1 DEF Following, Sequential
<1>4. InitRunTypeOK'
  <2>1. openSteps' \subseteq InitSteps
    BY <1>3, StepNames DEF Sequential
  <2>2. artifacts' \subseteq InitFiles
    BY <1>0, FilesAreFiles DEF InitRunTypeOK
  <2>3. stepResults' \in [InitSteps -> {"none", "ok", "failed"}]
    BY <1>0, <1>1 DEF InitRunTypeOK
  <2>4. initRun' \in [pc : {"idle", "step", "git", "write", "set", "commit"},
                      number : 0..MaxInits, crashes : 0..MaxInitCrashes, commitDocs : BOOLEAN]
    BY <1>0, <1>1 DEF InitRunTypeOK
  <2>5. report' \in {"none", "success", "failure"}
    BY <1>1
  <2> QED
    BY <1>0, <2>1, <2>2, <2>3, <2>4, <2>5 DEF InitRunTypeOK
<1>5. \A t \in Earlier(s) : t \in InitSteps /\ stepResults'[t] = "ok"
  BY <1>2, StepNames DEF OpenStep, Earlier, Sequential
<1>6. s \in AfterResearch => \A r \in ResearchTypes : stepResults'[r] \in {"ok", "failed"}
  BY <1>2, StepNames DEF OpenStep
<1>7. Progress'
  <2>1. CASE s = "config"
    <3>1. OpenStep("project")'
      BY <1>2, <1>3, <1>5, <2>1 DEF OpenStep, Earlier, AfterResearch
    <3> QED
      BY <1>1, <1>2, <2>1, <3>1 DEF Progress, Sequential
  <2>2. CASE s = "project"
    <3>1. Researching'
      <4>1. openSteps' = ResearchTypes
        BY <1>3, <2>2
      <4>2. \A t \in {"setup", "config", "project"} : stepResults'[t] = "ok"
        BY <1>2, <1>5, <2>2 DEF Earlier
      <4> QED
        BY <1>2, <2>2, <4>1, <4>2, InitRunAssumption DEF Researching
    <3> QED
      BY <1>1, <1>2, <2>2, <3>1 DEF Progress
  <2>3. CASE s = "synthesis"
    <3>1. OpenStep("requirements")'
      BY <1>2, <1>3, <1>5, <1>6, <2>3 DEF OpenStep, Earlier, AfterResearch
    <3> QED
      BY <1>1, <1>2, <2>3, <3>1 DEF Progress, Sequential
  <2>4. CASE s = "requirements"
    <3>1. OpenStep("roadmap")'
      BY <1>2, <1>3, <1>5, <1>6, <2>4 DEF OpenStep, Earlier, AfterResearch
    <3> QED
      BY <1>1, <1>2, <2>4, <3>1 DEF Progress, Sequential
  <2>5. CASE s = "roadmap"
    BY <1>2, <1>3, <2>5 DEF Progress
  <2> QED
    BY <2>1, <2>2, <2>3, <2>4, <2>5 DEF Sequential
<1>8. Listed'
  BY <1>0, <1>2 DEF Listed, InitRunInv
<1>9. ReportIsHonest'
  <2>1. CASE s # "roadmap"
    BY <1>1, <2>1 DEF ReportIsHonest
  <2>2. CASE s = "roadmap" /\ AllResearched
    <3>1. \A t \in InitSteps : stepResults'[t] = "ok"
      <4>1. \A r \in ResearchTypes : stepResults'[r] = "ok"
        <5>1. ASSUME NEW r \in ResearchTypes PROVE r \in InitSteps \ {s}
          BY StepNames
        <5> QED
          BY <1>2, <2>2, <5>1 DEF AllResearched
      <4>2. \A t \in Sequential : stepResults'[t] = "ok"
        BY <1>2, <1>5, <2>2 DEF Earlier, Sequential
      <4> QED
        BY <4>1, <4>2, StepNames
    <3>2. artifacts' = InitFiles
      BY <1>4, <1>8, <3>1 DEF Listed, InitFiles, InitRunTypeOK
    <3> QED
      BY <1>1, <1>3, <2>2, <3>1, <3>2 DEF ReportIsHonest
  <2>3. CASE s = "roadmap" /\ ~AllResearched
    <3>1. PICK r \in ResearchTypes : stepResults'[r] = "failed"
      BY <1>2, <1>6, <2>3, StepNames DEF AllResearched, AfterResearch
    <3>2. r \in InitSteps
      BY StepNames
    <3> QED
      BY <1>1, <1>3, <2>3, <3>1, <3>2 DEF ReportIsHonest
  <2> QED
    BY <2>1, <2>2, <2>3
<1>10. Configured'
  <2>1. "config.json" \in planning /\ hasGit
    <3>1. CASE s = "config"
      BY <3>1
    <3>2. CASE s # "config"
      BY <1>0, <3>2 DEF InitRunInv, Configured, OpenStep, Earlier, Sequential
    <3> QED
      BY <3>1, <3>2
  <2> QED
    BY <2>1 DEF Configured, RefusedHasConfig
<1>11. WrittenInv'
  <2>1. stepResults["setup"] = "ok"
    BY DEF OpenStep, Earlier, Sequential
  <2> QED
    BY <1>0, <1>2, <2>1 DEF WrittenInv, InitRunInv
<1> QED
  BY <1>4, <1>7, <1>8, <1>9, <1>10, <1>11 DEF InitRunInv

(***************************************************************************)
(* The actions.                                                            *)
(***************************************************************************)
LEMMA IsOpen ==
  ASSUME InitRunInv, NEW s \in Sequential, s \in openSteps
  PROVE  OpenStep(s) /\ initRun.pc # "idle" /\ report = "none"
<1>1. /\ initRun.pc # "idle" /\ report = "none"
      /\ Researching \/ \E t \in Sequential : OpenStep(t)
  BY DEF InitRunInv, Progress
<1>2. ~Researching
  BY StepNames DEF Researching
<1> QED
  BY <1>1, <1>2 DEF OpenStep

LEMMA WhileConfiguring ==
  ASSUME InitRunInv, initRun.pc \in {"git", "write", "set"}
  PROVE  openSteps = {"config"} /\ "config" \in Sequential /\ OpenStep("config") /\ report = "none"
<1>1. PICK s \in Sequential : OpenStep(s) /\ report = "none"
  BY DEF InitRunInv, Progress, Researching
<1>2. s = "config"
  BY <1>1 DEF OpenStep, Sequential
<1> QED
  BY <1>1, <1>2 DEF OpenStep

\* The configuration step goes on to its next await.
LEMMA Configuring ==
  ASSUME InitRunInv, initRun.pc \in {"git", "write", "set"},
         NEW pc \in {"write", "set", "commit"}, initRun' = [initRun EXCEPT !.pc = pc],
         UNCHANGED <<openSteps, stepResults, report, projectWriters>>,
         planning \subseteq planning', planning' \subseteq planning \cup {"config.json"},
         artifacts \subseteq artifacts', artifacts' \subseteq artifacts \cup {"config.json"},
         hasGit' \in BOOLEAN, hasGit',
         pc # "write" => "config.json" \in planning' /\ "config.json" \in artifacts'
  PROVE  InitRunInv'
<1>0. /\ openSteps = {"config"} /\ "config" \in Sequential /\ OpenStep("config")
      /\ report = "none" /\ InitRunTypeOK
  BY WhileConfiguring DEF InitRunInv
<1>1. initRun'.pc = pc /\ initRun'.number = initRun.number
  BY <1>0 DEF InitRunTypeOK
<1>2. InitRunTypeOK'
  <2>1. "config.json" \in InitFiles
    BY <1>0, FileNames, FilesAreFiles, StepNames
  <2>2. initRun' \in [pc : {"idle", "step", "git", "write", "set", "commit"},
                      number : 0..MaxInits, crashes : 0..MaxInitCrashes, commitDocs : BOOLEAN]
    BY <1>0 DEF InitRunTypeOK
  <2> QED
    BY <1>0, <2>1, <2>2 DEF InitRunTypeOK
<1>3. Progress'
  <2>1. OpenStep("config")'
    BY <1>0, <1>1 DEF OpenStep, Earlier, AfterResearch
  <2> QED
    BY <1>0, <1>1, <2>1 DEF Progress
<1>4. Listed'
  BY <1>0, <1>1, FileNames DEF InitRunInv, Listed
<1>5. ReportIsHonest'
  BY <1>0 DEF ReportIsHonest
<1>6. Configured'
  BY <1>0, <1>1 DEF InitRunInv, Configured, RefusedHasConfig
<1>7. WrittenInv'
  BY <1>0, <1>1 DEF InitRunInv, WrittenInv
<1> QED
  BY <1>2, <1>3, <1>4, <1>5, <1>6, <1>7 DEF InitRunInv

LEMMA SetUpInv ==
  ASSUME InitRunInv, StartInit \/ SetupStep
  PROVE  InitRunInv'
<1>0. InitRunTypeOK /\ "setup" \in Sequential /\ "setup" \in InitSteps
  BY StepNames DEF InitRunInv, Sequential
<1>1. CASE StartInit
  <2>1. /\ initRun.pc = "idle" /\ initRun' = [initRun EXCEPT !.pc = "step", !.number = initRun.number + 1]
        /\ initRun.number < MaxInits
        /\ openSteps' = {"setup"} /\ stepResults' = [step \in InitSteps |-> "none"]
        /\ artifacts' = {} /\ report' = "none" /\ UNCHANGED <<planning, hasGit, projectWriters>>
    BY <1>1 DEF StartInit
  <2>2. initRun'.pc = "step" /\ \A t \in InitSteps : stepResults'[t] = "none"
    BY <1>0, <2>1 DEF InitRunTypeOK
  <2>3. InitRunTypeOK'
    <3>1. initRun.number + 1 \in 0..MaxInits
      BY <1>0, <2>1, InitRunAssumption DEF InitRunTypeOK
    <3>2. initRun' \in [pc : {"idle", "step", "git", "write", "set", "commit"},
                        number : 0..MaxInits, crashes : 0..MaxInitCrashes, commitDocs : BOOLEAN]
      BY <1>0, <2>1, <3>1 DEF InitRunTypeOK
    <3> QED
      BY <1>0, <2>1, <3>2 DEF InitRunTypeOK
  <2>4. Progress'
    <3>1. OpenStep("setup")'
      BY <2>1, <2>2 DEF OpenStep, Earlier, AfterResearch
    <3> QED
      BY <1>0, <2>1, <2>2, <3>1 DEF Progress
  <2>5. Listed' /\ ReportIsHonest'
    BY <2>1, <2>2 DEF Listed, ReportIsHonest
  <2>6. "config" \in InitSteps
    BY StepNames DEF Sequential
  <2>7. Configured'
    BY <1>0, <2>1, <2>2, <2>6 DEF InitRunInv, Configured, RefusedHasConfig
  <2>8. WrittenInv'
    <3>1. initRun.number \in Nat /\ initRun'.number = initRun.number + 1
      BY <1>0, <2>1, InitRunAssumption DEF InitRunTypeOK
    <3>2. initRun'.number # 0
      BY <3>1
    <3> QED
      BY <1>0, <2>1, <2>2, <3>2 DEF InitRunInv, WrittenInv
  <2> QED
    BY <2>3, <2>4, <2>5, <2>7, <2>8 DEF InitRunInv
<1>2. CASE SetupStep
  <2>1. OpenStep("setup") /\ report = "none"
    BY <1>0, <1>2, IsOpen DEF SetupStep, At
  <2>2. CASE StepFails("setup")
    <3>1. openSteps = {"setup"} /\ planning \subseteq InitFiles /\ artifacts \subseteq InitFiles
          /\ hasGit \in BOOLEAN
      BY <1>0, <2>1 DEF OpenStep, InitRunTypeOK
    <3>2. UNCHANGED <<planning, hasGit, artifacts, projectWriters>>
      BY <1>2 DEF SetupStep
    <3> QED
      BY <1>0, <2>2, <3>1, <3>2, Fails
  <2>3. ASSUME NEW docs \in BOOLEAN, MayInitialise,
               stepResults' = [stepResults EXCEPT !.setup = "ok"],
               openSteps' = Following.setup,
               initRun' = [initRun EXCEPT !.commitDocs = docs, !.pc = IF hasGit THEN "write" ELSE "git"],
               UNCHANGED report
        PROVE  InitRunInv'
    <3>1. /\ UNCHANGED <<planning, hasGit, artifacts, projectWriters>>
          /\ "PROJECT.md" \notin planning /\ projectWriters = {}
      BY <1>2, <2>3 DEF SetupStep, MayInitialise, InitRunInv, WrittenInv
    <3>2. /\ openSteps' = {"config"}
          /\ initRun'.pc = IF hasGit THEN "write" ELSE "git"
          /\ stepResults'["setup"] = "ok"
          /\ \A t \in InitSteps \ {"setup"} : stepResults'[t] = stepResults[t]
      BY <1>0, <2>3 DEF Following, InitRunTypeOK
    <3>3. InitRunTypeOK'
      <4>1. initRun' \in [pc : {"idle", "step", "git", "write", "set", "commit"},
                          number : 0..MaxInits, crashes : 0..MaxInitCrashes, commitDocs : BOOLEAN]
        BY <1>0, <2>3 DEF InitRunTypeOK
      <4>2. openSteps' \subseteq InitSteps
        BY <3>2, StepNames DEF Sequential
      <4> QED
        BY <1>0, <2>3, <3>1, <4>1, <4>2 DEF InitRunTypeOK
    <3>4. Progress'
      <4>1. OpenStep("config")'
        BY <3>2 DEF OpenStep, Earlier, AfterResearch
      <4> QED
        BY <2>1, <2>3, <3>2, <4>1 DEF Progress, Sequential
    <3>5. Listed'
      BY <3>1, <3>2, FileNames DEF InitRunInv, Listed
    <3>6. ReportIsHonest'
      BY <2>1, <2>3 DEF ReportIsHonest
    <3>7. Configured'
      <4>1. "config" \in InitSteps \ {"setup"}
        BY StepNames DEF Sequential
      <4>2. stepResults'["config"] = "ok" => "config.json" \in planning /\ hasGit
        BY <1>0, <2>1, <3>2, <4>1, IsOpen DEF InitRunInv, Configured, OpenStep
      <4> QED
        BY <3>1, <3>2, <4>2 DEF Configured, RefusedHasConfig
    <3>8. WrittenInv'
      <4>1. initRun.pc # "idle"
        BY <2>1 DEF OpenStep
      <4>2. initRun'.number = initRun.number
        BY <1>0, <2>3 DEF InitRunTypeOK
      <4>3. initRun'.number # 0
        BY <4>1, <4>2 DEF InitRunInv, WrittenInv
      <4> QED
        BY <3>1, <4>3 DEF InitRunInv, WrittenInv
    <3> QED
      BY <3>3, <3>4, <3>5, <3>6, <3>7, <3>8 DEF InitRunInv
  <2> QED
    BY <1>2, <2>2, <2>3 DEF SetupStep
<1> QED
  BY <1>1, <1>2

LEMMA ConfigInv ==
  ASSUME InitRunInv, GitInit \/ WriteConfig \/ SetConfig
  PROVE  InitRunInv'
<1>0. /\ openSteps = {"config"} /\ "config" \in Sequential \ {"setup"} /\ OpenStep("config")
      /\ InitRunTypeOK
      /\ UNCHANGED projectWriters
  BY WhileConfiguring DEF InitRunInv, GitInit, WriteConfig, SetConfig
<1>1. /\ planning \subseteq InitFiles /\ artifacts \subseteq InitFiles /\ hasGit \in BOOLEAN
  BY <1>0 DEF InitRunTypeOK
<1>2. CASE GitInit
  <2>1. CASE StepFails("config")
    BY <1>0, <1>1, <1>2, <2>1, Fails DEF GitInit
  <2>2. CASE hasGit' = TRUE
    BY <1>2, <2>2, <2>1, Configuring DEF GitInit
  <2> QED
    BY <1>2, <2>1, <2>2 DEF GitInit
<1>3. CASE WriteConfig
  <2>1. CASE StepFails("config")
    <3>1. /\ planning' \subseteq InitFiles /\ planning \subseteq planning'
          /\ artifacts' \subseteq InitFiles /\ artifacts \subseteq artifacts'
          /\ "PROJECT.md" \in planning' => "PROJECT.md" \in planning
      BY <1>0, <1>1, <1>3, FileNames, FilesAreFiles, StepNames DEF WriteConfig
    <3> QED
      BY <1>0, <1>1, <1>3, <2>1, <3>1, Fails DEF WriteConfig
  <2>2. CASE initRun' = [initRun EXCEPT !.pc = "set"] /\ UNCHANGED <<openSteps, stepResults, report>>
    <3>1. initRun.pc = "write" /\ hasGit' = hasGit /\ hasGit
      BY <1>3 DEF WriteConfig, InitRunInv, Configured
    <3>2. \/ planning' = planning \cup {"config.json"} /\ artifacts' = artifacts \cup {"config.json"}
          \/ StepFails("config")
      BY <1>3, FileNames DEF WriteConfig
    <3>3. CASE planning' = planning \cup {"config.json"} /\ artifacts' = artifacts \cup {"config.json"}
      <4>1. "set" \in {"write", "set", "commit"}
        OBVIOUS
      <4> QED
        BY <1>0, <1>1, <2>2, <3>1, <3>3, <4>1, Configuring
    <3> QED
      BY <2>1, <3>2, <3>3
  <2> QED
    BY <1>3, <2>1, <2>2 DEF WriteConfig
<1>4. CASE SetConfig
  <2>0. /\ initRun.pc = "set" /\ "config.json" \in planning /\ "config.json" \in artifacts /\ hasGit
        /\ UNCHANGED <<planning, hasGit, artifacts>>
    BY <1>4 DEF SetConfig, InitRunInv, Configured, Listed
  <2>1. CASE StepFails("config")
    BY <1>0, <1>1, <2>0, <2>1, Fails
  <2>2. CASE StepSucceeds("config")
    <3>1. artifacts' = artifacts \cup FilesOf("config")
      BY <2>0, FileNames
    <3> QED
      BY <1>0, <2>0, <2>2, <3>1, Succeeds
  <2>3. CASE initRun' = [initRun EXCEPT !.pc = "commit"] /\ UNCHANGED <<openSteps, stepResults, report>>
    BY <1>0, <1>1, <2>0, <2>3, Configuring
  <2> QED
    BY <1>4, <2>1, <2>2, <2>3 DEF SetConfig
<1> QED
  BY <1>2, <1>3, <1>4

LEMMA SequentialSessions == SessionSteps \ ResearchTypes = Sequential \ {"setup", "config"}
BY InitRunAssumption DEF SessionSteps, Sequential

LEMMA SessionInv ==
  ASSUME InitRunInv, NEW s \in InitSteps, CommitDocs(s) \/ (s \in SessionSteps \ ResearchTypes /\ SessionEnds(s))
  PROVE  InitRunInv'
<1>0. InitRunTypeOK
  BY DEF InitRunInv
<1>1. CASE CommitDocs(s)
  <2>1. PICK t \in Sequential : OpenStep(t)
    BY <1>1 DEF CommitDocs, InitRunInv, Progress, Researching
  <2>2. s = t /\ s \in Sequential \ {"setup"} /\ openSteps = {s}
    BY <1>1, <2>1 DEF CommitDocs, OpenStep
  <2>3. /\ UNCHANGED <<planning, hasGit, artifacts, projectWriters>> /\ initRun.pc = "commit"
        /\ FilesOf(s) \subseteq artifacts /\ "config.json" \in planning /\ hasGit
    BY <1>1, <2>2 DEF CommitDocs, InitRunInv, Listed, Configured
  <2>4. CASE StepFails(s)
    BY <1>0, <2>2, <2>3, <2>4, Fails DEF InitRunTypeOK
  <2>5. CASE StepSucceeds(s)
    <3>1. artifacts' = artifacts \cup FilesOf(s)
      BY <2>3
    <3> QED
      BY <2>1, <2>2, <2>3, <2>5, <3>1, Succeeds
  <2> QED
    BY <1>1, <2>4, <2>5 DEF CommitDocs
<1>2. CASE s \in SessionSteps \ ResearchTypes /\ SessionEnds(s)
  <2>1. /\ s \in Sequential \ {"setup", "config"} /\ OpenStep(s) /\ openSteps = {s}
        /\ report = "none" /\ initRun.pc = "step"
        /\ UNCHANGED <<planning, hasGit, projectWriters>>
    BY <1>2, SequentialSessions, IsOpen DEF SessionEnds, At, OpenStep
  <2>2. CASE StepFails(s) /\ UNCHANGED artifacts
    BY <1>0, <2>1, <2>2, Fails DEF InitRunTypeOK
  <2>3. CASE artifacts' = artifacts \cup FilesOf(s) /\ StepSucceeds(s)
    BY <2>1, <2>3, Succeeds
  <2>4. CASE /\ artifacts' = artifacts \cup FilesOf(s) /\ initRun' = [initRun EXCEPT !.pc = "commit"]
             /\ UNCHANGED <<openSteps, stepResults, report>>
    <3>1. initRun'.pc = "commit" /\ initRun'.number = initRun.number
      BY <1>0, <2>4 DEF InitRunTypeOK
    <3>2. InitRunTypeOK'
      <4>1. initRun' \in [pc : {"idle", "step", "git", "write", "set", "commit"},
                          number : 0..MaxInits, crashes : 0..MaxInitCrashes, commitDocs : BOOLEAN]
        BY <1>0, <2>4 DEF InitRunTypeOK
      <4> QED
        BY <1>0, <2>1, <2>4, <4>1, FilesAreFiles DEF InitRunTypeOK
    <3>3. Progress'
      <4>1. OpenStep(s)'
        BY <2>1, <2>4, <3>1 DEF OpenStep, Sequential
      <4> QED
        BY <2>1, <2>4, <3>1, <4>1 DEF Progress
    <3>4. Listed' /\ ReportIsHonest'
      BY <2>1, <2>4, <3>1 DEF InitRunInv, Listed, ReportIsHonest
    <3>5. Configured' /\ WrittenInv'
      <4>1. stepResults["config"] = "ok"
        BY <2>1 DEF OpenStep, Earlier, Sequential
      <4> QED
        BY <2>1, <2>4, <3>1, <4>1 DEF InitRunInv, Configured, RefusedHasConfig, WrittenInv
    <3> QED
      BY <3>2, <3>3, <3>4, <3>5 DEF InitRunInv
  <2> QED
    BY <1>2, <2>2, <2>3, <2>4 DEF SessionEnds
<1> QED
  BY <1>1, <1>2

LEMMA WriteInv ==
  ASSUME InitRunInv, NEW s \in SessionSteps, NEW file \in InitFiles, SessionWrites(s, file)
  PROVE  InitRunInv'
<1>1. /\ planning' = planning \cup {file} /\ initRun.pc = "step" /\ s \in openSteps
      /\ UNCHANGED <<hasGit, initRun, openSteps, stepResults, artifacts, report>>
      /\ projectWriters' = IF file = "PROJECT.md" THEN projectWriters \cup {initRun.number}
                           ELSE projectWriters
  BY DEF SessionWrites, At
<1>2. stepResults["config"] = "ok" /\ stepResults["setup"] = "ok"
  <2>1. CASE s \in Sequential \ {"setup", "config"}
    BY <1>1, <2>1, IsOpen DEF OpenStep, Earlier, Sequential
  <2>2. CASE s \in ResearchTypes
    <3>1. ASSUME NEW t \in Sequential, OpenStep(t) PROVE FALSE
      BY <1>1, <2>2, <3>1, StepNames DEF OpenStep
    <3>2. Researching
      BY <1>1, <3>1 DEF InitRunInv, Progress
    <3> QED
      BY <3>2 DEF Researching
  <2> QED
    BY <2>1, <2>2, SequentialSessions
<1>3. "config.json" \in planning /\ hasGit /\ projectWriters \subseteq {initRun.number}
  BY <1>1, <1>2 DEF InitRunInv, Configured, WrittenInv
<1>4. initRun.number \in 0..MaxInits
  BY DEF InitRunInv, InitRunTypeOK
<1>5. InitRunTypeOK'
  <2>1. initRun.number # 0
    BY <1>1 DEF InitRunInv, WrittenInv
  <2>2. initRun.number \in 1..MaxInits
    BY <1>4, <2>1, InitRunAssumption
  <2>3. InitRunTypeOK
    BY DEF InitRunInv
  <2>4. projectWriters' \subseteq 1..MaxInits
    BY <1>1, <2>2, <2>3 DEF InitRunTypeOK
  <2> QED
    BY <1>1, <2>3, <2>4 DEF InitRunTypeOK
<1>6. Progress' /\ Listed' /\ ReportIsHonest'
  BY <1>1 DEF InitRunInv, Progress, Researching, OpenStep, Listed, ReportIsHonest
<1>7. Configured'
  BY <1>1, <1>3 DEF InitRunInv, Configured, RefusedHasConfig
<1>8. WrittenInv'
  BY <1>1, <1>3, <1>4 DEF InitRunInv, WrittenInv
<1> QED
  BY <1>5, <1>6, <1>7, <1>8 DEF InitRunInv

LEMMA ResearchInv ==
  ASSUME InitRunInv, NEW r \in ResearchTypes, ResearchEnds(r)
  PROVE  InitRunInv'
<1>0. InitRunTypeOK /\ r \in InitSteps
  BY StepNames DEF InitRunInv
<1>1. Researching /\ report = "none" /\ r \in openSteps
  <2>1. ASSUME NEW t \in Sequential, OpenStep(t) PROVE FALSE
    BY <2>1, StepNames DEF OpenStep, ResearchEnds, At
  <2> QED
    BY <2>1 DEF InitRunInv, Progress, ResearchEnds, At
<1>2. PICK outcome \in {"ok", "failed"} :
        /\ stepResults' = [stepResults EXCEPT ![r] = outcome]
        /\ artifacts' = IF outcome = "ok" THEN artifacts \cup FilesOf(r) ELSE artifacts
  BY DEF ResearchEnds
<1>3. /\ openSteps' = IF openSteps = {r} THEN {"synthesis"} ELSE openSteps \ {r}
      /\ UNCHANGED <<planning, hasGit, initRun, report, projectWriters>>
      /\ stepResults'[r] = outcome
      /\ \A t \in InitSteps \ {r} : stepResults'[t] = stepResults[t]
  BY <1>0, <1>2 DEF ResearchEnds, InitRunTypeOK
<1>4. InitRunTypeOK'
  <2>1. openSteps' \subseteq InitSteps
    BY <1>0, <1>3, StepNames DEF InitRunTypeOK, Sequential
  <2>2. artifacts' \subseteq InitFiles
    BY <1>0, <1>2, FilesAreFiles DEF InitRunTypeOK
  <2> QED
    BY <1>0, <1>2, <1>3, <2>1, <2>2 DEF InitRunTypeOK
<1>5. /\ \A t \in {"setup", "config", "project"} : stepResults'[t] = "ok"
      /\ \A q \in ResearchTypes \ (openSteps \ {r}) : stepResults'[q] \in {"ok", "failed"}
  <2>1. {"setup", "config", "project"} \subseteq InitSteps \ {r}
    BY StepNames DEF Sequential
  <2>2. \A t \in {"setup", "config", "project"} : stepResults[t] = "ok" /\ t \in InitSteps \ {r}
    BY <1>1, <2>1 DEF Researching
  <2>3. \A q \in ResearchTypes \ openSteps : stepResults[q] \in {"ok", "failed"}
    BY <1>1 DEF Researching
  <2> QED
    BY <1>1, <1>2, <1>3, <2>2, <2>3, StepNames
<1>6. Progress'
  <2>1. CASE openSteps = {r}
    <3>1. OpenStep("synthesis")'
      BY <1>1, <1>3, <1>5, <2>1 DEF OpenStep, Earlier, AfterResearch, Researching
    <3> QED
      BY <1>1, <1>3, <3>1 DEF Progress, Researching, Sequential
  <2>2. CASE openSteps # {r}
    <3>1. Researching'
      BY <1>1, <1>3, <1>5, <2>2 DEF Researching
    <3> QED
      BY <1>1, <1>3, <3>1 DEF Progress, Researching
  <2> QED
    BY <2>1, <2>2
<1>7. Listed'
  BY <1>0, <1>1, <1>2, <1>3 DEF InitRunInv, Listed, Researching
<1>8. ReportIsHonest'
  BY <1>1, <1>3 DEF ReportIsHonest
<1>9. Configured' /\ WrittenInv'
  <2>1. "config" \in InitSteps \ {r} /\ "setup" \in InitSteps \ {r}
    BY StepNames DEF Sequential
  <2> QED
    BY <1>3, <2>1 DEF InitRunInv, Configured, RefusedHasConfig, WrittenInv
<1> QED
  BY <1>4, <1>6, <1>7, <1>8, <1>9 DEF InitRunInv

LEMMA EndInv ==
  ASSUME InitRunInv, InitCrashes \/ DeletePlanning
  PROVE  InitRunInv'
<1>1. CASE InitCrashes
  <2>0. /\ initRun' = [initRun EXCEPT !.pc = "idle", !.crashes = initRun.crashes + 1]
        /\ initRun.pc # "idle" /\ initRun.crashes < MaxInitCrashes /\ openSteps' = {}
        /\ UNCHANGED <<planning, hasGit, stepResults, artifacts, report, projectWriters>>
    BY <1>1 DEF InitCrashes
  <2>1. InitRunTypeOK
    BY DEF InitRunInv
  <2>2. initRun'.pc = "idle"
    BY <2>0, <2>1 DEF InitRunTypeOK
  <2>3. report = "none"
    BY <2>0 DEF InitRunInv, Progress
  <2>4. initRun.crashes + 1 \in 0..MaxInitCrashes
    BY <2>0, <2>1, InitRunAssumption DEF InitRunTypeOK
  <2>5. initRun' \in [pc : {"idle", "step", "git", "write", "set", "commit"},
                      number : 0..MaxInits, crashes : 0..MaxInitCrashes, commitDocs : BOOLEAN]
    BY <2>0, <2>1, <2>4 DEF InitRunTypeOK
  <2>6. InitRunTypeOK'
    BY <2>0, <2>1, <2>5 DEF InitRunTypeOK
  <2>7. Progress' /\ ReportIsHonest'
    BY <2>0, <2>2, <2>3 DEF Progress, ReportIsHonest
  <2>8. Listed' /\ Configured' /\ WrittenInv'
    BY <2>0, <2>2 DEF InitRunInv, Listed, Configured, RefusedHasConfig, WrittenInv
  <2> QED
    BY <2>6, <2>7, <2>8 DEF InitRunInv
<1>2. CASE DeletePlanning
  BY <1>2, InitRunAssumption
     DEF DeletePlanning, InitRunInv, InitRunTypeOK, Progress, Listed, ReportIsHonest, Configured,
         RefusedHasConfig, WrittenInv
<1> QED
  BY <1>1, <1>2

LEMMA InitRunNextInv == InitRunInv /\ [InitRunNext]_initRunVars => InitRunInv'
<1> SUFFICES ASSUME InitRunInv, [InitRunNext]_initRunVars PROVE InitRunInv'
  OBVIOUS
<1>1. CASE UNCHANGED initRunVars
  BY <1>1 DEF initRunVars, InitRunInv, InitRunTypeOK, Progress, Researching, OpenStep, Listed,
              ReportIsHonest, Configured, RefusedHasConfig, WrittenInv
<1>2. SessionSteps \cup {"config"} \subseteq InitSteps
  BY DEF InitSteps
<1> QED
  BY <1>1, <1>2, SetUpInv, ConfigInv, SessionInv, WriteInv, ResearchInv, EndInv DEF InitRunNext

LEMMA InitRunInvariant == InitRunSpec => []InitRunInv
BY InitRunInitType, InitRunNextInv, PTL DEF InitRunSpec

(***************************************************************************)
(* The theorems.                                                           *)
(***************************************************************************)

\* Type correctness: every variable keeps its type.
THEOREM InitRunTypeCorrect == InitRunSpec => []InitRunTypeOK
BY InitRunInvariant, PTL DEF InitRunInv

\* What a run returns is what happened.
THEOREM ReportsAreHonest == InitRunSpec => []ReportIsHonest
BY InitRunInvariant, PTL DEF InitRunInv

\* A directory that set-up refuses has what the refused step would have given it.
THEOREM RefusedAreConfigured == InitRunSpec => []RefusedHasConfig
<1>1. InitRunInv => RefusedHasConfig
  BY DEF InitRunInv, Configured
<1> QED
  BY <1>1, InitRunInvariant, PTL

\* A PROJECT.md is the work of one run.
THEOREM ProjectsAreKept == InitRunSpec => []ProjectIsKept
<1>1. ASSUME InitRunInv PROVE ProjectIsKept
  <2>1. PICK n \in 0..MaxInits : projectWriters \subseteq {n}
    BY <1>1 DEF InitRunInv, WrittenInv
  <2>2. projectWriters = {} \/ projectWriters = {n}
    BY <2>1
  <2>3. Cardinality({}) = 0
    BY FS_EmptySet
  <2>4. Cardinality({n}) = 1
    BY FS_Singleton
  <2>5. CASE projectWriters = {}
    BY <2>3, <2>5 DEF ProjectIsKept
  <2>6. CASE projectWriters = {n}
    BY <2>4, <2>6 DEF ProjectIsKept
  <2> QED
    BY <2>2, <2>5, <2>6
<1> QED
  BY <1>1, InitRunInvariant, PTL

----------------------------------------------------------------------------
(***************************************************************************)
(* VaultSync: for any phases, writers and edits.                           *)
(***************************************************************************)

\* Every writer has writes of the service before it, and is not half-way through
\* one that is made without a look.
WritersInv ==
  /\ writer \in [Writers -> [todo : Seq(AllWrites), looked : BOOLEAN]]
  /\ \A s \in Writers : writer[s].looked => Busy(s)

\* A safe edit is there, and nobody is about to write over it.
EditsInv ==
  /\ vault \in [UserFiles -> {"absent", "service", "user"}]
  /\ safeEdits \subseteq UserFiles
  /\ \A f \in safeEdits : vault[f] = "user" /\ ~AboutToWrite(f)
  /\ edits \in 0..MaxEdits

VaultInv == WritersInv /\ EditsInv

(***************************************************************************)
(* The lists of writes.                                                    *)
(***************************************************************************)
LEMMA SetsAreSequences ==
  ASSUME NEW S, IsFiniteSet(S)
  PROVE  SetToSeq(S) \in Seq(S)
<1>1. PICK n \in Nat : ExistsBijection(1..n, S)
  BY FS_NatBijection
<1>2. Cardinality(S) = n
  BY <1>1, FS_CountingElements
<1>3. \E f \in [1..Cardinality(S) -> S] : IsInjective(f)
  BY <1>1, <1>2 DEF ExistsBijection, Bijection, Injection, IsInjective
<1>4. SetToSeq(S) \in [1..Cardinality(S) -> S]
  BY <1>3 DEF SetToSeq
<1> QED
  BY <1>2, <1>4

LEMMA OwnElements ==
  ASSUME NEW S, NEW x \in Seq(S)
  PROVE  x \in Seq(ToSet(x))
<1>1. Len(x) \in Nat /\ x \in [1..Len(x) -> S] /\ DOMAIN x = 1..Len(x)
  BY LenProperties
<1>2. x \in [1..Len(x) -> ToSet(x)]
  BY <1>1 DEF ToSet
<1> QED
  BY <1>1, <1>2, SeqDef

LEMMA Lists ==
  /\ PrepareVault \in Seq(AllWrites)
  /\ SyncVault \in Seq(AllWrites)
<1>1. PICK T : T = {Write(c, "stub", 1) : c \in PhaseContexts}
  OBVIOUS
<1>2. IsFiniteSet(T)
  <2>1. PICK f : f = [c \in PhaseContexts |-> Write(c, "stub", 1)]
    OBVIOUS
  <2>2. f \in Surjection(PhaseContexts, T)
    BY <1>1, <2>1 DEF Surjection
  <2> QED
    BY <2>2, FS_Surjection, VaultAssumption
<1>3. PICK U : U = T \cup {Write("RULES-AND-CONVENTIONS", "stub", 1), Write("index", "stub", 1),
                    Write("Templates", "stub", 2), Write("MOC", "always", 1),
                    Write("ROADMAP", "copy", 1), Write("STATE", "copy", 1),
                    Write("REQUIREMENTS", "stub", 1), Write("CONFIG", "always", 1),
                    Write("README", "stub", 1), Write("index", "always", 2),
                    Write("metrics", "always", 3)}
  OBVIOUS
<1>4. /\ T \subseteq U
      /\ Write("RULES-AND-CONVENTIONS", "stub", 1) \in U
      /\ Write("index", "stub", 1) \in U
      /\ Write("Templates", "stub", 2) \in U
      /\ Write("MOC", "always", 1) \in U
      /\ Write("ROADMAP", "copy", 1) \in U
      /\ Write("STATE", "copy", 1) \in U
      /\ Write("REQUIREMENTS", "stub", 1) \in U
      /\ Write("CONFIG", "always", 1) \in U
      /\ Write("README", "stub", 1) \in U
      /\ Write("index", "always", 2) \in U
      /\ Write("metrics", "always", 3) \in U
  BY <1>3
<1>5. PrepareVault \in Seq(ToSet(PrepareVault))
  <2>1. PrepareVault \in Seq(U)
    BY <1>4 DEF PrepareVault
  <2> QED
    BY <2>1, OwnElements
<1>6. SyncVault \in Seq(ToSet(SyncVault))
  <2>1. SetToSeq(T) \in Seq(U)
    BY <1>2, <1>4, SetsAreSequences, SeqMonotonic
  <2>2. PICK first : first = <<Write("MOC", "always", 1), Write("ROADMAP", "copy", 1), Write("STATE", "copy", 1),
                               Write("REQUIREMENTS", "stub", 1), Write("CONFIG", "always", 1),
                               Write("README", "stub", 1)>>
    OBVIOUS
  <2>3. PICK last : last = <<Write("index", "always", 2), Write("metrics", "always", 3)>>
    OBVIOUS
  <2>4. first \in Seq(U) /\ last \in Seq(U)
    BY <1>4, <2>2, <2>3
  <2>5. SyncVault = (first \o SetToSeq(T)) \o last
    BY <1>1, <2>2, <2>3 DEF SyncVault
  <2>6. SyncVault \in Seq(U)
    <3>1. first \o SetToSeq(T) \in Seq(U)
      BY <2>1, <2>4, ConcatProperties
    <3> QED
      BY <2>4, <2>5, <3>1, ConcatProperties
  <2> QED
    BY <2>6, OwnElements
<1> QED
  BY <1>5, <1>6, SeqMonotonic DEF AllWrites

\* What is written always is no file of the user's.
LEMMA UserFilesAreStubs ==
  \A w \in AllWrites : w.file \in UserFiles => w.how = "stub"
BY DEF UserFiles

LEMMA VaultInitInv == VaultInit => VaultInv
BY VaultAssumption DEF VaultInit, VaultInv, WritersInv, EditsInv, Busy, AboutToWrite

(***************************************************************************)
(* Steps of a writer.                                                      *)
(***************************************************************************)

\* A writer goes on with what is before it, without having looked.
LEMMA GoesOn ==
  ASSUME WritersInv, NEW s \in Writers, NEW todo \in Seq(AllWrites), GoTo(s, todo)
  PROVE  /\ WritersInv'
         /\ \A f : AboutToWrite(f)' => \E t \in Writers \ {s} : Busy(t) /\ writer[t].looked /\ Current(t).file = f
<1>1. \A t \in Writers : writer'[t] = IF t = s THEN [todo |-> todo, looked |-> FALSE] ELSE writer[t]
  BY DEF GoTo, WritersInv
<1>2. writer' \in [Writers -> [todo : Seq(AllWrites), looked : BOOLEAN]]
  BY DEF GoTo, WritersInv
<1>3. writer'[s].looked = FALSE
  BY <1>1
<1>4. \A t \in Writers \ {s} : writer'[t] = writer[t]
  BY <1>1
<1>5. WritersInv'
  BY <1>2, <1>3, <1>4 DEF WritersInv, Busy
<1> QED
  BY <1>3, <1>4, <1>5 DEF AboutToWrite, Busy, Current

\* No safe edit is lost by a writer that goes on after it has written a file that
\* it looked for, or that belongs to nobody.
LEMMA EditsStay ==
  ASSUME VaultInv, NEW s \in Writers, NEW todo \in Seq(AllWrites), GoTo(s, todo),
         UNCHANGED <<edits, safeEdits>>, Busy(s),
         \/ UNCHANGED vault
         \/ vault' = Written(Current(s).file) /\ (Current(s).how = "always" \/ writer[s].looked)
  PROVE  VaultInv'
<1>1. WritersInv'
  BY GoesOn DEF VaultInv
<1>2. \A f \in safeEdits : ~AboutToWrite(f)'
  BY GoesOn DEF VaultInv, EditsInv, AboutToWrite
<1>3. CASE UNCHANGED vault
  BY <1>1, <1>2, <1>3 DEF VaultInv, EditsInv
<1>4. CASE vault' = Written(Current(s).file) /\ (Current(s).how = "always" \/ writer[s].looked)
  <2>1. Current(s).file \notin safeEdits
    <3>1. CASE writer[s].looked
      BY <3>1 DEF VaultInv, EditsInv, AboutToWrite
    <3>2. CASE Current(s).how = "always"
      <4>1. Current(s) \in AllWrites
        BY HeadTailProperties DEF VaultInv, WritersInv, Busy, Current
      <4> QED
        BY <3>2, <4>1, UserFilesAreStubs DEF VaultInv, EditsInv
    <3> QED
      BY <1>4, <3>1, <3>2
  <2>2. PICK file : file = Current(s).file
    OBVIOUS
  <2>3. vault' = IF file \in UserFiles THEN [vault EXCEPT ![file] = "service"] ELSE vault
    BY <1>4, <2>2 DEF Written
  <2>4. EditsInv'
    BY <1>2, <2>1, <2>2, <2>3 DEF VaultInv, EditsInv
  <2> QED
    BY <1>1, <2>4 DEF VaultInv
<1> QED
  BY <1>3, <1>4

LEMMA TailsAreWrites ==
  ASSUME WritersInv, NEW s \in Writers, Busy(s)
  PROVE  Tail(writer[s].todo) \in Seq(AllWrites)
BY HeadTailProperties DEF WritersInv, Busy

LEMMA WriterInv ==
  ASSUME VaultInv, NEW s \in Writers, BeginWrites(s) \/ LookFor(s) \/ WriteFile(s) \/ WritesFail(s)
  PROVE  VaultInv'
<1>1. CASE BeginWrites(s)
  <2>1. PICK todo \in {PrepareVault, SyncVault} : GoTo(s, todo)
    BY <1>1 DEF BeginWrites
  <2>2. todo \in Seq(AllWrites) /\ UNCHANGED <<vault, edits, safeEdits>>
    BY <1>1, Lists DEF BeginWrites
  <2>3. WritersInv' /\ \A f \in safeEdits : ~AboutToWrite(f)'
    BY <2>1, <2>2, GoesOn DEF VaultInv, EditsInv, AboutToWrite
  <2> QED
    BY <2>2, <2>3 DEF VaultInv, EditsInv
<1>2. CASE LookFor(s)
  <2>0. Busy(s) /\ UNCHANGED <<vault, edits, safeEdits>>
    BY <1>2 DEF LookFor
  <2>1. CASE GoTo(s, Tail(writer[s].todo))
    BY <2>0, <2>1, TailsAreWrites, EditsStay DEF VaultInv
  <2>2. CASE Absent(Current(s)) /\ writer' = [writer EXCEPT ![s].looked = TRUE]
    <3>1. /\ writer'[s].looked = TRUE /\ writer'[s].todo = writer[s].todo
          /\ \A t \in Writers \ {s} : writer'[t] = writer[t]
          /\ writer' \in [Writers -> [todo : Seq(AllWrites), looked : BOOLEAN]]
      BY <2>2 DEF VaultInv, WritersInv
    <3>2. WritersInv'
      BY <2>0, <3>1 DEF VaultInv, WritersInv, Busy
    <3>3. ASSUME NEW f \in safeEdits PROVE ~AboutToWrite(f)'
      <4>1. f \in UserFiles /\ vault[f] = "user" /\ ~AboutToWrite(f)
        BY DEF VaultInv, EditsInv
      <4>2. Current(s).file # f
        BY <2>2, <4>1 DEF Absent
      <4> QED
        BY <3>1, <4>1, <4>2 DEF AboutToWrite, Busy, Current
    <3> QED
      BY <2>0, <3>2, <3>3 DEF VaultInv, EditsInv
  <2> QED
    BY <1>2, <2>1, <2>2 DEF LookFor
<1>3. CASE WriteFile(s)
  BY <1>3, TailsAreWrites, EditsStay DEF WriteFile, VaultInv
<1>4. CASE WritesFail(s)
  <2>1. PICK todo : todo = writer[s].todo
    OBVIOUS
  <2>2. todo \in Seq(AllWrites)
    BY <2>1 DEF VaultInv, WritersInv
  <2>3. PICK k \in 1..Len(todo) + 1 : GoTo(s, SubSeq(todo, k, Len(todo)))
    BY <1>4, <2>1 DEF WritesFail
  <2>4. SubSeq(todo, k, Len(todo)) \in Seq(AllWrites)
    <3>1. k \in Int /\ Len(todo) \in Int /\ \A i \in k..Len(todo) : todo[i] \in AllWrites
      BY <2>2, <2>3, LenProperties, ElementOfSeq
    <3> QED
      BY <3>1, SubSeqProperties
  <2>5. \/ UNCHANGED vault
        \/ vault' = Written(Current(s).file) /\ writer[s].looked
    BY <1>4 DEF WritesFail
  <2> QED
    BY <1>4, <2>3, <2>4, <2>5, EditsStay DEF WritesFail
<1> QED
  BY <1>1, <1>2, <1>3, <1>4

LEMMA UserInv ==
  ASSUME VaultInv, NEW f \in UserFiles, UserWrites(f) \/ UserDeletes(f)
  PROVE  VaultInv'
<1>1. /\ edits < MaxEdits /\ edits' = edits + 1 /\ UNCHANGED writer
      /\ \E what \in {"user", "absent"} : vault' = [vault EXCEPT ![f] = what]
      /\ safeEdits' \subseteq safeEdits \cup {f}
      /\ f \in safeEdits' => vault' = [vault EXCEPT ![f] = "user"] /\ ~AboutToWrite(f)
  BY DEF UserWrites, UserDeletes
<1>2. WritersInv' /\ \A g : AboutToWrite(g)' = AboutToWrite(g)
  BY <1>1 DEF VaultInv, WritersInv, AboutToWrite, Busy, Current
<1>3. edits' \in 0..MaxEdits
  BY <1>1, VaultAssumption DEF VaultInv, EditsInv
<1>4. vault \in [UserFiles -> {"absent", "service", "user"}]
  BY DEF VaultInv, EditsInv
<1>5. ASSUME NEW g \in safeEdits' PROVE vault'[g] = "user" /\ ~AboutToWrite(g)
  <2>1. CASE g = f
    BY <1>1, <1>4, <2>1
  <2>2. CASE g # f
    <3>1. g \in safeEdits /\ vault'[g] = vault[g]
      BY <1>1, <1>4, <2>2
    <3> QED
      BY <3>1 DEF VaultInv, EditsInv
  <2> QED
    BY <2>1, <2>2
<1>6. EditsInv'
  BY <1>1, <1>2, <1>3, <1>4, <1>5 DEF VaultInv, EditsInv
<1> QED
  BY <1>2, <1>6 DEF VaultInv

LEMMA VaultNextInv == VaultInv /\ [VaultNext]_vaultVars => VaultInv'
<1> SUFFICES ASSUME VaultInv, [VaultNext]_vaultVars PROVE VaultInv'
  OBVIOUS
<1>1. CASE UNCHANGED vaultVars
  BY <1>1 DEF vaultVars, VaultInv, WritersInv, EditsInv, AboutToWrite, Busy, Current
<1> QED
  BY <1>1, WriterInv, UserInv DEF VaultNext

LEMMA VaultInvariant == VaultSpec => []VaultInv
BY VaultInitInv, VaultNextInv, PTL DEF VaultSpec

(***************************************************************************)
(* The theorems.                                                           *)
(***************************************************************************)

\* Type correctness: every variable keeps its type.
THEOREM VaultTypeCorrect == VaultSpec => []VaultTypeOK
<1>1. ASSUME VaultInv PROVE VaultTypeOK
  <2>1. ASSUME NEW s \in Writers
        PROVE  writer[s].looked \in BOOLEAN /\ ToSet(writer[s].todo) \subseteq AllWrites
    <3>1. writer[s].looked \in BOOLEAN /\ writer[s].todo \in Seq(AllWrites)
      BY <1>1 DEF VaultInv, WritersInv
    <3> QED
      BY <3>1, LenProperties, ElementOfSeq DEF ToSet
  <2> QED
    BY <1>1, <2>1 DEF VaultTypeOK, VaultInv, EditsInv
<1> QED
  BY <1>1, VaultInvariant, PTL

\* What the user has written is not written over, unless it was written between
\* the look of a writer for the file and its write.
THEOREM UserEditsAreKept == VaultSpec => []UserEditIsKept
<1>1. VaultInv => UserEditIsKept
  BY DEF VaultInv, EditsInv, UserEditIsKept
<1> QED
  BY <1>1, VaultInvariant, PTL

----------------------------------------------------------------------------
(***************************************************************************)
(* ChatThrottle: for any windows and limits.                               *)
(***************************************************************************)

\* What a window of so many requests lets through.
LetThrough(count) == IF count < MAX_REQUESTS THEN count ELSE MAX_REQUESTS

\* The requests that reached a handler in the last ticks before a window.
Preceding(ticks, start) == {i \in DOMAIN ticks : start < ticks[i] + WINDOW /\ ticks[i] < start}

\* What is in the store about the requests so far: the current window, if there
\* is one, has let through what it counts, and no more than a window's worth
\* came in the WINDOW - 1 ticks before it.
WindowInv(entry, ticks) ==
  IF entry.resetAt = 0 THEN ticks = <<>>
  ELSE /\ WINDOW <= entry.resetAt /\ entry.resetAt <= now + WINDOW
       /\ \A i \in DOMAIN ticks : ticks[i] <= now /\ ticks[i] < entry.resetAt
       /\ Cardinality(From(ticks, entry.resetAt - WINDOW)) = LetThrough(entry.count)
       /\ Cardinality(Preceding(ticks, entry.resetAt - WINDOW)) <= MAX_REQUESTS

BurstInv(ticks) ==
  \A t \in Times : Cardinality(Between(ticks, t, t + WINDOW - 1)) <= 2 * MAX_REQUESTS

EarnedAt(ticks, t) ==
  Cardinality(Between(ticks, IF t < WINDOW THEN 0 ELSE t - WINDOW + 1, t)) >= MAX_REQUESTS

ThrottleInv ==
  /\ ThrottleTypeOK
  /\ \A c \in AllowedChats :
       /\ WindowInv(store[c], passed[c])
       /\ BurstInv(passed[c])
       /\ \A t \in ToSet(refused[c]) : EarnedAt(passed[c], t)

(***************************************************************************)
(* Counting the requests of a period.                                      *)
(***************************************************************************)
LEMMA FiniteDomain ==
  ASSUME NEW ticks \in Seq(Nat), NEW S \in SUBSET DOMAIN ticks
  PROVE  IsFiniteSet(S) /\ Cardinality(S) \in Nat
<1>1. DOMAIN ticks = 1..Len(ticks) /\ Len(ticks) \in Nat
  BY LenProperties
<1>2. IsFiniteSet(1..Len(ticks))
  BY <1>1, FS_Interval
<1> QED
  BY <1>1, <1>2, FS_Subset, FS_CardinalityType

LEMMA MoreAreCounted ==
  ASSUME NEW ticks \in Seq(Nat), NEW T \in SUBSET DOMAIN ticks, NEW S \in SUBSET T
  PROVE  Cardinality(S) <= Cardinality(T)
BY FiniteDomain, FS_Subset

LEMMA TogetherAreCounted ==
  ASSUME NEW ticks \in Seq(Nat), NEW T \in SUBSET DOMAIN ticks, NEW U \in SUBSET DOMAIN ticks,
         NEW m \in Nat, Cardinality(T) <= m, Cardinality(U) <= m,
         NEW S \in SUBSET (T \cup U)
  PROVE  Cardinality(S) <= 2 * m
<1>1. /\ IsFiniteSet(T) /\ Cardinality(T) \in Nat
      /\ IsFiniteSet(U) /\ Cardinality(U) \in Nat
      /\ IsFiniteSet(T \cap U) /\ Cardinality(T \cap U) \in Nat
  BY FiniteDomain, FS_Subset, FS_CardinalityType
<1>2. /\ IsFiniteSet(T \cup U)
      /\ Cardinality(T \cup U) = Cardinality(T) + Cardinality(U) - Cardinality(T \cap U)
  BY <1>1, FS_Union
<1>3. Cardinality(S) <= Cardinality(T \cup U) /\ Cardinality(S) \in Nat
  BY <1>2, FS_Subset, FS_CardinalityType
<1> QED
  BY <1>1, <1>2, <1>3

\* A request more.
LEMMA OneMore ==
  ASSUME NEW ticks \in Seq(Nat), NEW t \in Nat, NEW start \in Nat, start <= t
  PROVE  Cardinality(From(Append(ticks, t), start)) = Cardinality(From(ticks, start)) + 1
<1>1. From(Append(ticks, t), start) = From(ticks, start) \cup {Len(ticks) + 1}
  BY AppendedTo DEF From
<1>2. Len(ticks) + 1 \notin From(ticks, start)
  BY AppendedTo DEF From
<1>3. IsFiniteSet(From(ticks, start))
  BY FiniteDomain DEF From
<1> QED
  BY <1>1, <1>2, <1>3, FS_AddElement

(***************************************************************************)
(* An update of a chat.                                                    *)
(***************************************************************************)
LEMMA ThrottleTyped ==
  ASSUME ThrottleTypeOK, NEW c \in AllowedChats
  PROVE  /\ now \in Nat /\ passed[c] \in Seq(Nat)
         /\ store[c] = [count |-> store[c].count, resetAt |-> store[c].resetAt]
         /\ store[c].count \in Nat /\ store[c].resetAt \in Nat
<1>1. Times \subseteq Nat
  BY ThrottleAssumption DEF Times
<1> QED
  BY <1>1, SeqMonotonic DEF ThrottleTypeOK

\* The window of a request that reaches its handler.
LEMMA WindowGoesOn ==
  ASSUME NEW ticks \in Seq(Nat), NEW entry \in [count : Nat, resetAt : Nat], now \in Nat,
         WindowInv(entry, ticks), Checked(entry).count <= MAX_REQUESTS
  PROVE  WindowInv(Checked(entry), Append(ticks, now)) /\ now < Checked(entry).resetAt
<1> DEFINE more == Append(ticks, now)
<1> USE ThrottleAssumption
<1>1. CASE now >= entry.resetAt
  <2>1. Checked(entry) = [count |-> 1, resetAt |-> now + WINDOW]
    BY <1>1 DEF Checked
  <2>2. \A i \in DOMAIN ticks : ticks[i] < now
    <3>1. ASSUME NEW i \in DOMAIN ticks PROVE ticks[i] < now
      <4>1. ticks # <<>>
        OBVIOUS
      <4>2. ticks[i] < entry.resetAt /\ ticks[i] \in Nat
        BY <4>1, ElementOfSeq, LenProperties DEF WindowInv
      <4> QED
        BY <1>1, <4>2
    <3> QED
      BY <3>1
  <2>3. Cardinality(From(more, now)) = 1
    <3>1. From(ticks, now) = {}
      <4>1. \A i \in DOMAIN ticks : ticks[i] \in Nat
        BY ElementOfSeq, LenProperties
      <4> QED
        BY <2>2, <4>1 DEF From
    <3>2. Cardinality(From(ticks, now)) = 0
      BY <3>1, FS_EmptySet
    <3> QED
      BY <3>2, OneMore
  <2>4. Cardinality(Preceding(more, now)) <= MAX_REQUESTS
    <3>0. \A i \in DOMAIN ticks : ticks[i] \in Nat
      BY ElementOfSeq, LenProperties
    <3>1. Preceding(more, now) = Preceding(ticks, now)
      BY AppendedTo DEF Preceding
    <3>2. CASE entry.resetAt = 0
      <4>1. Preceding(ticks, now) = {}
        BY <3>2 DEF WindowInv, Preceding
      <4> QED
        BY <3>1, <4>1, FS_EmptySet
    <3>3. CASE entry.resetAt # 0
      <4>1. Preceding(ticks, now) \subseteq From(ticks, entry.resetAt - WINDOW)
        BY <1>1, <3>0, <3>3 DEF WindowInv, Preceding, From
      <4>2. Cardinality(From(ticks, entry.resetAt - WINDOW)) <= MAX_REQUESTS
        BY <3>3 DEF WindowInv, LetThrough
      <4>3. From(ticks, entry.resetAt - WINDOW) \in SUBSET DOMAIN ticks
        BY DEF From
      <4>4. /\ Cardinality(Preceding(ticks, now)) <= Cardinality(From(ticks, entry.resetAt - WINDOW))
            /\ Cardinality(Preceding(ticks, now)) \in Nat
            /\ Cardinality(From(ticks, entry.resetAt - WINDOW)) \in Nat
        BY <4>1, <4>3, MoreAreCounted, FiniteDomain
      <4> QED
        BY <3>1, <4>2, <4>4
    <3> QED
      BY <3>2, <3>3
  <2>5. \A i \in DOMAIN more : more[i] <= now
    BY <2>2, AppendedTo, ElementOfSeq, LenProperties
  <2>6. (now + WINDOW) - WINDOW = now
    OBVIOUS
  <2> HIDE DEF more
  <2>7. WindowInv([count |-> 1, resetAt |-> now + WINDOW], more)
    <3>1. \A i \in DOMAIN more : more[i] < now + WINDOW
      BY <2>5, AppendedTo, LenProperties, ElementOfSeq DEF more
    <3>2. LetThrough(1) = 1
      BY DEF LetThrough
    <3> QED
      BY <2>3, <2>4, <2>5, <2>6, <3>1, <3>2 DEF WindowInv
  <2> QED
    BY <2>1, <2>7 DEF more
<1>2. CASE now < entry.resetAt
  <2>1. Checked(entry) = [count |-> entry.count + 1, resetAt |-> entry.resetAt]
    BY <1>2 DEF Checked
  <2>2. entry.resetAt # 0 /\ entry.count + 1 <= MAX_REQUESTS
    BY <1>2, <2>1
  <2> DEFINE start == entry.resetAt - WINDOW
  <2>3. start \in Nat /\ start <= now
    BY <2>2 DEF WindowInv
  <2>4. Cardinality(From(more, start)) = LetThrough(entry.count + 1)
    <3>1. Cardinality(From(ticks, start)) = entry.count
      BY <2>2 DEF WindowInv, LetThrough
    <3>2. Cardinality(From(more, start)) = entry.count + 1
      BY <2>3, <3>1, OneMore
    <3> QED
      BY <2>2, <3>2 DEF LetThrough
  <2>5. Preceding(more, start) = Preceding(ticks, start)
    BY <2>3, AppendedTo DEF Preceding
  <2>6. \A i \in DOMAIN more : more[i] <= now /\ more[i] < entry.resetAt
    BY <1>2, <2>2, AppendedTo DEF WindowInv
  <2> QED
    BY <1>2, <2>1, <2>2, <2>4, <2>5, <2>6 DEF WindowInv
<1> QED
  BY <1>1, <1>2

\* A period is within one window and the ticks before it, or has not seen the
\* request of the moment.
LEMMA BurstGoesOn ==
  ASSUME NEW ticks \in Seq(Nat), now \in Nat, BurstInv(ticks),
         NEW entry \in [count : Nat, resetAt : Nat],
         WindowInv(entry, Append(ticks, now)), now < entry.resetAt
  PROVE  BurstInv(Append(ticks, now))
<1> DEFINE more == Append(ticks, now)
           start == entry.resetAt - WINDOW
<1> USE ThrottleAssumption
<1>0. more \in Seq(Nat) /\ \A i \in DOMAIN more : more[i] \in Nat
  BY AppendedTo, ElementOfSeq, LenProperties
<1>1. /\ start \in Nat /\ start <= now
      /\ Cardinality(From(more, start)) <= MAX_REQUESTS
      /\ Cardinality(Preceding(more, start)) <= MAX_REQUESTS
  <2>1. entry.resetAt # 0
    OBVIOUS
  <2> QED
    BY <2>1 DEF WindowInv, LetThrough
<1>2. SUFFICES ASSUME NEW t \in Times
               PROVE  Cardinality(Between(more, t, t + WINDOW - 1)) <= 2 * MAX_REQUESTS
  BY DEF BurstInv
<1>3. t \in Nat
  BY DEF Times
<1>4. CASE t <= now /\ now <= t + WINDOW - 1
  <2>1. Between(more, t, t + WINDOW - 1) \subseteq Preceding(more, start) \cup From(more, start)
    <3>1. ASSUME NEW i \in DOMAIN more, t <= more[i] PROVE start < more[i] + WINDOW
      <4>1. more[i] \in Nat
        BY <1>0
      <4> HIDE DEF more, start
      <4> QED
        BY <1>1, <1>3, <1>4, <3>1, <4>1
    <3>2. start \in Nat
      BY <1>1
    <3> HIDE DEF more, start
    <3>3. \A i \in DOMAIN more : more[i] < start \/ start <= more[i]
      BY <1>0, <3>2
    <3> QED
      BY <3>1, <3>3 DEF Between, From, Preceding
  <2>2. Preceding(more, start) \in SUBSET DOMAIN more /\ From(more, start) \in SUBSET DOMAIN more
    BY DEF Preceding, From
  <2> HIDE DEF more, start
  <2> QED
    BY <1>0, <1>1, <2>1, <2>2, TogetherAreCounted
<1>5. CASE ~(t <= now /\ now <= t + WINDOW - 1)
  <2>1. Between(more, t, t + WINDOW - 1) = Between(ticks, t, t + WINDOW - 1)
    <3>1. \A i \in DOMAIN more : t <= more[i] /\ more[i] <= t + WINDOW - 1 => i # Len(ticks) + 1
      BY <1>5, AppendedTo
    <3>2. \A i : i \in Between(more, t, t + WINDOW - 1) <=> i \in Between(ticks, t, t + WINDOW - 1)
      BY <3>1, AppendedTo DEF Between, From
    <3> QED
      BY <3>2
  <2> QED
    BY <2>1 DEF BurstInv
<1> QED
  BY <1>4, <1>5

LEMMA EarnedGoesOn ==
  ASSUME NEW ticks \in Seq(Nat), now \in Nat, NEW t \in Nat, EarnedAt(ticks, t)
  PROVE  EarnedAt(Append(ticks, now), t)
<1> DEFINE first == IF t < WINDOW THEN 0 ELSE t - WINDOW + 1
           more == Append(ticks, now)
<1>1. more \in Seq(Nat)
  BY AppendedTo
<1>2. Between(ticks, first, t) \in SUBSET Between(more, first, t)
  BY AppendedTo DEF Between, From
<1>3. Between(more, first, t) \in SUBSET DOMAIN more /\ Between(ticks, first, t) \in SUBSET DOMAIN ticks
  BY DEF Between, From
<1>4. Cardinality(Between(ticks, first, t)) <= Cardinality(Between(more, first, t))
  BY <1>1, <1>2, <1>3, MoreAreCounted
<1>5. Cardinality(Between(ticks, first, t)) \in Nat /\ Cardinality(Between(more, first, t)) \in Nat
  BY <1>1, <1>3, FiniteDomain
<1> QED
  BY <1>4, <1>5, ThrottleAssumption DEF EarnedAt

\* A request that is refused finds the window full.
LEMMA RefusedIsEarned ==
  ASSUME NEW ticks \in Seq(Nat), NEW entry \in [count : Nat, resetAt : Nat], now \in Nat,
         WindowInv(entry, ticks), ~(Checked(entry).count <= MAX_REQUESTS)
  PROVE  WindowInv(Checked(entry), ticks) /\ EarnedAt(ticks, now)
<1> USE ThrottleAssumption
<1>1. now < entry.resetAt
  BY DEF Checked
<1>2. /\ Checked(entry) = [count |-> entry.count + 1, resetAt |-> entry.resetAt]
      /\ entry.count >= MAX_REQUESTS
  <2>1. Checked(entry) = [entry EXCEPT !.count = @ + 1]
    BY <1>1 DEF Checked
  <2>2. Checked(entry) = [count |-> entry.count + 1, resetAt |-> entry.resetAt]
    BY <2>1
  <2>3. ~(entry.count + 1 <= MAX_REQUESTS)
    BY <2>2
  <2> QED
    BY <2>2, <2>3
<1>3. WindowInv(Checked(entry), ticks)
  BY <1>1, <1>2 DEF WindowInv, LetThrough
<1> DEFINE first == IF now < WINDOW THEN 0 ELSE now - WINDOW + 1
           start == entry.resetAt - WINDOW
<1>4. Cardinality(From(ticks, start)) = MAX_REQUESTS
  BY <1>1, <1>2 DEF WindowInv, LetThrough
<1>5. From(ticks, start) \in SUBSET Between(ticks, first, now)
  <2>1. first <= start /\ start \in Nat /\ first \in Nat
    BY <1>1 DEF WindowInv
  <2>2. \A i \in DOMAIN ticks : ticks[i] <= now /\ ticks[i] \in Nat
    BY <1>1, ElementOfSeq, LenProperties DEF WindowInv
  <2> HIDE DEF first, start
  <2> QED
    BY <2>1, <2>2 DEF From, Between
<1>6. Between(ticks, first, now) \in SUBSET DOMAIN ticks
  BY DEF Between, From
<1>7. Cardinality(From(ticks, start)) <= Cardinality(Between(ticks, first, now))
  BY <1>5, <1>6, MoreAreCounted
<1>8. Cardinality(Between(ticks, first, now)) \in Nat
  BY <1>6, FiniteDomain
<1> QED
  BY <1>3, <1>4, <1>7, <1>8 DEF EarnedAt

LEMMA UpdateInv ==
  ASSUME ThrottleInv, NEW c \in AllowedChats, Update(c)
  PROVE  ThrottleInv'
<1> DEFINE entry == store[c]
<1>1. /\ now \in Nat /\ passed[c] \in Seq(Nat) /\ entry \in [count : Nat, resetAt : Nat]
      /\ WindowInv(entry, passed[c]) /\ BurstInv(passed[c])
      /\ \A t \in ToSet(refused[c]) : EarnedAt(passed[c], t)
  BY ThrottleTyped DEF ThrottleInv, ThrottleTypeOK
<1>2. Checked(entry) \in [count : Nat, resetAt : Nat]
  BY <1>1, ThrottleAssumption DEF Checked
<1>3. /\ store' = [store EXCEPT ![c] = Checked(entry)] /\ now' = now
      /\ store'[c] = Checked(entry)
  BY DEF Update, ThrottleInv, ThrottleTypeOK
<1>4. \A d \in AllowedChats : d # c => store'[d] = store[d]
  BY <1>3 DEF ThrottleInv, ThrottleTypeOK
<1>5. \A ticks, e : (BurstInv(ticks)' <=> BurstInv(ticks)) /\ (WindowInv(e, ticks)' <=> WindowInv(e, ticks))
  BY <1>3 DEF BurstInv, WindowInv, Times, Between, From, Preceding, LetThrough
<1>6. ASSUME NEW s \in Seq(Times), NEW t \in Times PROVE Append(s, t) \in Seq(Times)
  BY AppendProperties
<1>7. CASE Checked(entry).count <= MAX_REQUESTS
  <2>1. passed' = [passed EXCEPT ![c] = Append(@, now)] /\ refused' = refused
    BY <1>3, <1>7 DEF Update
  <2>2. ThrottleTypeOK'
    <3>1. Append(passed[c], now) \in Seq(Times)
      BY <1>6 DEF ThrottleInv, ThrottleTypeOK
    <3> QED
      BY <1>2, <1>3, <2>1, <3>1 DEF ThrottleInv, ThrottleTypeOK, Times
  <2>3. passed'[c] = Append(passed[c], now) /\ \A d \in AllowedChats : d # c => passed'[d] = passed[d]
    BY <2>1 DEF ThrottleInv, ThrottleTypeOK
  <2>4. WindowInv(Checked(entry), Append(passed[c], now)) /\ now < Checked(entry).resetAt
    BY <1>1, <1>7, WindowGoesOn
  <2>5. BurstInv(Append(passed[c], now))
    BY <1>1, <1>2, <2>4, BurstGoesOn
  <2>6. \A t \in ToSet(refused[c]) : EarnedAt(Append(passed[c], now), t)
    <3>1. ToSet(refused[c]) \subseteq Nat
      <4>1. refused[c] \in Seq(Nat)
        BY ThrottleAssumption, SeqMonotonic DEF ThrottleInv, ThrottleTypeOK, Times
      <4> QED
        BY <4>1, ElementOfSeq, LenProperties DEF ToSet
    <3> QED
      BY <1>1, <3>1, EarnedGoesOn
  <2>7. ASSUME NEW d \in AllowedChats
        PROVE  /\ WindowInv(store[d], passed[d])'
               /\ BurstInv(passed[d])'
               /\ \A t \in ToSet(refused'[d]) : EarnedAt(passed'[d], t)
    <3>1. CASE d = c
      BY <1>3, <1>5, <2>1, <2>3, <2>4, <2>5, <2>6, <3>1
    <3>2. CASE d # c
      BY <1>4, <1>5, <2>1, <2>3, <3>2 DEF ThrottleInv
    <3> QED
      BY <3>1, <3>2
  <2> QED
    BY <2>2, <2>7 DEF ThrottleInv, EarnedAt, Between, From
<1>8. CASE ~(Checked(entry).count <= MAX_REQUESTS)
  <2>1. refused' = [refused EXCEPT ![c] = Append(@, now)] /\ passed' = passed
    BY <1>3, <1>8 DEF Update
  <2>2. refused[c] \in Seq(Times) /\ now \in Times
    BY DEF ThrottleInv, ThrottleTypeOK
  <2>3. ThrottleTypeOK'
    <3>1. Append(refused[c], now) \in Seq(Times)
      BY <1>6, <2>2
    <3> QED
      BY <1>2, <1>3, <2>1, <3>1 DEF ThrottleInv, ThrottleTypeOK, Times
  <2>4. refused'[c] = Append(refused[c], now) /\ \A d \in AllowedChats : d # c => refused'[d] = refused[d]
    BY <2>1 DEF ThrottleInv, ThrottleTypeOK
  <2>5. ToSet(refused'[c]) \subseteq ToSet(refused[c]) \cup {now}
    BY <2>2, <2>4, AppendProperties, LenProperties DEF ToSet
  <2>6. WindowInv(Checked(entry), passed[c]) /\ EarnedAt(passed[c], now)
    BY <1>1, <1>8, RefusedIsEarned
  <2>7. ASSUME NEW d \in AllowedChats
        PROVE  /\ WindowInv(store[d], passed[d])'
               /\ BurstInv(passed[d])'
               /\ \A t \in ToSet(refused'[d]) : EarnedAt(passed'[d], t)
    <3>1. CASE d = c
      BY <1>1, <1>3, <1>5, <2>1, <2>5, <2>6, <3>1
    <3>2. CASE d # c
      BY <1>4, <1>5, <2>1, <2>4, <3>2 DEF ThrottleInv
    <3> QED
      BY <3>1, <3>2
  <2> QED
    BY <2>3, <2>7 DEF ThrottleInv, EarnedAt, Between, From
<1> QED
  BY <1>7, <1>8

LEMMA TickInv ==
  ASSUME ThrottleInv, Tick
  PROVE  ThrottleInv'
<1>1. now' = now + 1 /\ now' \in Times /\ UNCHANGED <<store, passed, refused>>
  BY ThrottleAssumption DEF Tick, ThrottleInv, ThrottleTypeOK, Times
<1>2. ThrottleTypeOK'
  BY <1>1 DEF ThrottleInv, ThrottleTypeOK, Times
<1>3. ASSUME NEW c \in AllowedChats
      PROVE  /\ WindowInv(store[c], passed[c])'
             /\ BurstInv(passed[c])'
             /\ \A t \in ToSet(refused'[c]) : EarnedAt(passed'[c], t)
  <2>1. /\ now \in Nat /\ passed[c] \in Seq(Nat) /\ store[c].resetAt \in Nat
        /\ \A i \in DOMAIN passed[c] : passed[c][i] \in Nat
    BY ThrottleTyped, ElementOfSeq, LenProperties DEF ThrottleInv
  <2>2. WindowInv(store[c], passed[c])'
    <3>1. WindowInv(store[c], passed[c])
      BY DEF ThrottleInv
    <3> QED
      BY <1>1, <2>1, <3>1, ThrottleAssumption DEF WindowInv, From, Preceding, LetThrough
  <2> QED
    BY <1>1, <2>2 DEF ThrottleInv, BurstInv, Between, From, Times
<1> QED
  BY <1>2, <1>3 DEF ThrottleInv, EarnedAt, Between, From

LEMMA ThrottleInvariant == ThrottleSpec => []ThrottleInv
<1>1. ThrottleInit => ThrottleInv
  <2> SUFFICES ASSUME ThrottleInit PROVE ThrottleInv
    OBVIOUS
  <2>1. ThrottleTypeOK
    BY ThrottleAssumption DEF ThrottleInit, ThrottleTypeOK, NoWindow, Times
  <2>2. ASSUME NEW c \in AllowedChats
        PROVE  /\ passed[c] = <<>> /\ refused[c] = <<>> /\ store[c].resetAt = 0
    BY DEF ThrottleInit, NoWindow
  <2>3. BurstInv(<<>>)
    <3>1. \A t : Between(<<>>, t, t + WINDOW - 1) = {}
      BY DEF Between, From
    <3>2. Cardinality({}) = 0 /\ 0 <= 2 * MAX_REQUESTS
      BY FS_EmptySet, ThrottleAssumption
    <3>3. \A t : Cardinality(Between(<<>>, t, t + WINDOW - 1)) <= 2 * MAX_REQUESTS
      BY <3>1, <3>2
    <3> QED
      BY <3>3 DEF BurstInv
  <2>4. ToSet(<<>>) = {}
    BY DEF ToSet
  <2>5. ASSUME NEW c \in AllowedChats
        PROVE  /\ WindowInv(store[c], passed[c]) /\ BurstInv(passed[c])
               /\ \A t \in ToSet(refused[c]) : EarnedAt(passed[c], t)
    <3>1. passed[c] = <<>> /\ store[c].resetAt = 0 /\ ToSet(refused[c]) = {}
      BY <2>2, <2>4
    <3>2. WindowInv(store[c], passed[c])
      BY <3>1 DEF WindowInv
    <3> QED
      BY <2>3, <3>1, <3>2
  <2> QED
    BY <2>1, <2>5 DEF ThrottleInv
<1>2. ThrottleInv /\ [ThrottleNext]_throttleVars => ThrottleInv'
  <2> SUFFICES ASSUME ThrottleInv, [ThrottleNext]_throttleVars PROVE ThrottleInv'
    OBVIOUS
  <2>1. CASE UNCHANGED throttleVars
    BY <2>1 DEF throttleVars, ThrottleInv, ThrottleTypeOK, WindowInv, BurstInv, EarnedAt,
                Between, From, Preceding, LetThrough, Times
  <2> QED
    BY <2>1, TickInv, UpdateInv DEF ThrottleNext
<1> QED
  BY <1>1, <1>2, PTL DEF ThrottleSpec

\* ThrottleTypeOK holds of every behaviour of the throttler.
THEOREM ThrottleTypeCorrect == ThrottleSpec => []ThrottleTypeOK
BY ThrottleInvariant, PTL DEF ThrottleInv

\* BurstBounded: no period as long as a window lets more than two windows'
\* worth of requests of a chat through, for any window and limit.
THEOREM BurstsAreBounded == ThrottleSpec => []BurstBounded
<1>1. ThrottleInv => BurstBounded
  BY DEF ThrottleInv, BurstInv, BurstBounded
<1> QED
  BY <1>1, ThrottleInvariant, PTL

\* RefusalIsEarned: a request is refused only when the window before it has let
\* MAX_REQUESTS through, for any window and limit.
THEOREM RefusalsAreEarned == ThrottleSpec => []RefusalIsEarned
<1>1. ThrottleInv => RefusalIsEarned
  BY DEF ThrottleInv, EarnedAt, RefusalIsEarned
<1> QED
  BY <1>1, ThrottleInvariant, PTL

----------------------------------------------------------------------------
(***************************************************************************)
(* RunEvents: for any phases, sessions and costs.                          *)
(***************************************************************************)

PhaseTypes == {"phase_start", "phase_complete"}
EventRecord ==
  {e \in [type : EventTypes, phase : PhaseNumbers \cup {NoneOf},
          session : SessionIds \cup {NoneOf}, cost : Nat] :
     e.type \in PhaseTypes => e.phase \in PhaseNumbers}

\* The reports of a session, and its cost by them.
IsReport(e, s) == e.type \in {"session_complete", "session_error"} /\ e.session = s
Reports(events, s) == {i \in DOMAIN events : IsReport(events[i], s)}
LastIn(events, s) == IF Reports(events, s) = {} THEN 0 ELSE events[Max(Reports(events, s))].cost

\* The events up to one that begin or end a phase, and the phase by them.
Named(events, given, n) == {i \in given : i <= n /\ events[i].type \in PhaseTypes}
PhaseIn(events, given, n) ==
  IF Named(events, given, n) = {} THEN Setup ELSE events[Max(Named(events, given, n))].phase

LEMMA ByTheEvents ==
  /\ \A s : LastCost(s) = LastIn(emitted \o pending, s)
  /\ \A n : PhaseAt(n) = PhaseIn(emitted, ToSet(got["vault"]), n)
BY DEF LastCost, LastIn, Reports, IsReport, PhaseAt, PhaseIn, Named, PhaseTypes

\* The transports, and what each was given: all that is due to it, but for the
\* last event while the loop has not come to it.
NumbersInv ==
  /\ emitted \in Seq(EventRecord) /\ pending \in Seq(EventRecord)
  /\ transports \in Seq(Handlers) /\ IsInjective(transports)
  /\ serving \in Seq(Handlers) /\ IsInjective(serving) /\ (serving # <<>> => emitted # <<>>)
  /\ got \in [Handlers -> Seq(1..Len(emitted))]
  /\ due = [t \in Handlers |-> IF t \in ToSet(serving) THEN Append(got[t], Len(emitted)) ELSE got[t]]
  /\ \A t \in ToSet(serving) : Len(emitted) \notin ToSet(got[t])

\* The vault's log; its current file is that of the last phase it was given.
LogInv ==
  /\ lostLines \in SUBSET ToSet(got["vault"])
  /\ vaultLog \in [slug : BOOLEAN, current : LogFiles,
                   files : [LogFiles -> Seq(1..Len(emitted))]]
  /\ vaultLog.current = PhaseAt(Len(emitted))
  /\ LoggedInItsPhase

\* The tracker has the cost that each session reported last.
TrackerInv ==
  /\ costTracker \in [sessions : [SessionIds -> Nat], cumulative : Nat]
  /\ \A s \in SessionIds : costTracker.sessions[s] = LastCost(s)
  /\ costTracker.cumulative = SumOver(costTracker.sessions, SessionIds)

RunningCostInv ==
  /\ runningCost \in Nat
  /\ runningCost = SumOver([n \in DOMAIN emitted |-> CostUpdate(emitted[n])], ToSet(got["cli"]))

RunEventsInv == NumbersInv /\ LogInv /\ TrackerInv /\ RunningCostInv

(***************************************************************************)
(* What a message is mapped to.                                            *)
(***************************************************************************)
Messages == SystemMessages \cup AssistantMessages \cup ResultMessages \cup OtherMessages

LEMMA PlainIsAnEvent ==
  ASSUME NEW type \in EventTypes \ PhaseTypes
  PROVE  Plain(type) \in EventRecord /\ Plain(type).type = type
BY DEF Plain, Event, EventRecord

LEMMA MappedAreEvents ==
  ASSUME NEW m \in Messages
  PROVE  /\ Mapped(m) \in Seq(EventRecord)
         /\ m.kind # "result" => \A i \in DOMAIN Mapped(m) : \A s : ~IsReport(Mapped(m)[i], s)
         /\ m.kind = "result" =>
              \E e \in EventRecord :
                /\ m.session \in SessionIds /\ m.cost \in Nat
                /\ Mapped(m) = <<e>> /\ e.cost = m.cost /\ e.session = m.session
                /\ e.type \in {"session_complete", "session_error"}
<1> DEFINE Quiet == {e \in EventRecord : e.type \notin {"session_complete", "session_error"}}
<1>1. /\ \A e \in Quiet : \A s : ~IsReport(e, s)
      /\ Quiet \subseteq EventRecord
  BY DEF IsReport
<1>2. ASSUME NEW type \in EventTypes \ (PhaseTypes \cup {"session_complete", "session_error"})
      PROVE  Plain(type) \in Quiet
  BY PlainIsAnEvent
<1>3. SUFFICES /\ m.kind # "result" => Mapped(m) \in Seq(Quiet)
               /\ m.kind = "result" =>
                    \E e \in EventRecord :
                      /\ m.session \in SessionIds /\ m.cost \in Nat
                      /\ Mapped(m) = <<e>> /\ e.cost = m.cost /\ e.session = m.session
                      /\ e.type \in {"session_complete", "session_error"}
  <2> HIDE DEF Quiet
  <2>1. ASSUME Mapped(m) \in Seq(Quiet)
        PROVE  /\ Mapped(m) \in Seq(EventRecord)
               /\ \A i \in DOMAIN Mapped(m) : \A s : ~IsReport(Mapped(m)[i], s)
    BY <1>1, <2>1, SeqMonotonic, Elements
  <2>2. ASSUME NEW e \in EventRecord, Mapped(m) = <<e>>
        PROVE  Mapped(m) \in Seq(EventRecord)
    BY <2>2
  <2> QED
    BY <2>1, <2>2
<1>0. {"system", "assistant", "result"} \cap DOMAIN OtherEventType = {}
  BY DEF OtherEventType
<1>4. CASE m \in SystemMessages
  <2>1. m.kind = "system" /\ Mapped(m) = SystemEvents(m)
    <3>1. m.kind = "system" /\ m.kind \notin DOMAIN OtherEventType
      BY <1>0, <1>4 DEF SystemMessages
    <3> HIDE DEF Quiet
    <3> QED
      BY <3>1 DEF Mapped
  <2>2. SystemEvents(m) \in Seq(Quiet)
    <3>1. CASE m.subtype \in DOMAIN SystemEventType
      <4>1. SystemEventType[m.subtype] \in EventTypes \ (PhaseTypes \cup {"session_complete", "session_error"})
        BY <3>1 DEF SystemEventType, EventTypes, PhaseTypes
      <4>2. Plain(SystemEventType[m.subtype]) \in Quiet
        BY <1>2, <4>1
      <4> HIDE DEF Quiet
      <4>3. <<Plain(SystemEventType[m.subtype])>> \in Seq(Quiet) /\ <<>> \in Seq(Quiet)
        BY <4>2
      <4> QED
        BY <4>3 DEF SystemEvents
    <3>2. CASE m.subtype \notin DOMAIN SystemEventType
      <4>1. SystemEvents(m) = <<>>
        BY <3>2 DEF SystemEvents
      <4> HIDE DEF Quiet
      <4> QED
        BY <4>1
    <3> QED
      BY <3>1, <3>2
  <2> QED
    BY <2>1, <2>2
<1>5. CASE m \in AssistantMessages
  <2>1. m.kind = "assistant" /\ Mapped(m) = AssistantEvents(m) /\ m.tools \in Nat
    <3>1. m.kind = "assistant" /\ m.kind \notin DOMAIN OtherEventType /\ m.tools \in Nat
      BY <1>0, <1>5, RunEventsAssumption DEF AssistantMessages
    <3> HIDE DEF Quiet
    <3> QED
      BY <3>1 DEF Mapped
  <2>2. "assistant_text" \in EventTypes \ (PhaseTypes \cup {"session_complete", "session_error"})
    BY DEF EventTypes, PhaseTypes
  <2>3. "tool_call" \in EventTypes \ (PhaseTypes \cup {"session_complete", "session_error"})
    BY DEF EventTypes, PhaseTypes
  <2>4. Plain("assistant_text") \in Quiet /\ Plain("tool_call") \in Quiet
    BY <1>2, <2>2, <2>3
  <2> HIDE DEF Quiet
  <2>5. [i \in 1..m.tools |-> Plain("tool_call")] \in Seq(Quiet)
    BY <2>1, <2>4
  <2>6. (IF m.text THEN <<Plain("assistant_text")>> ELSE <<>>) \in Seq(Quiet)
    BY <2>4
  <2>7. AssistantEvents(m) \in Seq(Quiet)
    BY <2>5, <2>6, ConcatProperties DEF AssistantEvents
  <2> QED
    BY <2>1, <2>7
<1>6. CASE m \in ResultMessages
  <2> DEFINE e == Event(IF m.success THEN "session_complete" ELSE "session_error", NoneOf, m.session, m.cost)
  <2>1. m.kind = "result" /\ m.session \in SessionIds /\ m.cost \in Nat
    BY <1>6, RunEventsAssumption DEF ResultMessages
  <2>2. Mapped(m) = <<e>>
    <3>1. m.kind \notin DOMAIN OtherEventType
      BY <1>0, <2>1
    <3> HIDE DEF Quiet
    <3> QED
      BY <2>1, <3>1 DEF Mapped, ResultEvents
  <2>3. e \in EventRecord
    BY <2>1 DEF Event, EventRecord, EventTypes, PhaseTypes
  <2>4. e.cost = m.cost /\ e.session = m.session /\ e.type \in {"session_complete", "session_error"}
    BY DEF Event
  <2> QED
    BY <2>1, <2>2, <2>3, <2>4
<1>7. CASE m \in OtherMessages
  <2>1. m.kind \notin {"system", "assistant", "result"}
    BY <1>7, RunEventsAssumption DEF OtherMessages
  <2>2. CASE m.kind \in DOMAIN OtherEventType
    <3>1. Mapped(m) = <<Plain(OtherEventType[m.kind])>>
      BY <2>1, <2>2 DEF Mapped
    <3>2. OtherEventType[m.kind] \in EventTypes \ (PhaseTypes \cup {"session_complete", "session_error"})
      BY <2>2 DEF OtherEventType, EventTypes, PhaseTypes
    <3>3. Plain(OtherEventType[m.kind]) \in Quiet
      BY <1>2, <3>2
    <3> HIDE DEF Quiet
    <3> QED
      BY <2>1, <3>1, <3>3
  <2>3. CASE m.kind \notin DOMAIN OtherEventType
    <3>1. Mapped(m) = <<>>
      BY <2>1, <2>3 DEF Mapped
    <3> HIDE DEF Quiet
    <3> QED
      BY <2>1, <3>1
  <2> QED
    BY <2>2, <2>3
<1> QED
  BY <1>4, <1>5, <1>6, <1>7 DEF Messages

(***************************************************************************)
(* The last reports of a sequence that grows.                              *)
(***************************************************************************)
LEMMA QuietKeepsLast ==
  ASSUME NEW events \in Seq(EventRecord), NEW more \in Seq(EventRecord), NEW s,
         \A i \in DOMAIN more : ~IsReport(more[i], s)
  PROVE  LastIn(events \o more, s) = LastIn(events, s)
<1> DEFINE all == events \o more
<1>1. /\ DOMAIN all = 1..(Len(events) + Len(more)) /\ DOMAIN events = 1..Len(events)
      /\ DOMAIN more = 1..Len(more) /\ Len(events) \in Nat /\ Len(more) \in Nat
      /\ \A i \in DOMAIN all : all[i] = IF i <= Len(events) THEN events[i] ELSE more[i - Len(events)]
  BY ConcatProperties, LenProperties
<1> HIDE DEF all
<1>2. Reports(all, s) = Reports(events, s)
  <2>1. ASSUME NEW i \in DOMAIN all, i > Len(events) PROVE ~IsReport(all[i], s)
    <3>1. i - Len(events) \in DOMAIN more /\ all[i] = more[i - Len(events)]
      BY <1>1, <2>1
    <3> QED
      BY <3>1
  <2>2. \A i \in DOMAIN events : i \in DOMAIN all /\ all[i] = events[i]
    BY <1>1
  <2>3. \A i \in DOMAIN all : i > Len(events) \/ i \in DOMAIN events
    BY <1>1
  <2> QED
    BY <2>1, <2>2, <2>3 DEF Reports
<1>3. CASE Reports(events, s) = {}
  BY <1>2, <1>3 DEF LastIn, all
<1>4. CASE Reports(events, s) # {}
  <2>1. Reports(events, s) \in SUBSET (1..Len(events))
    BY <1>1 DEF Reports
  <2>2. Max(Reports(events, s)) \in 1..Len(events)
    BY <1>1, <1>4, <2>1, GreatestOfSome
  <2>3. all[Max(Reports(events, s))] = events[Max(Reports(events, s))]
    BY <1>1, <2>2
  <2> QED
    BY <1>2, <1>4, <2>3 DEF LastIn, all
<1> QED
  BY <1>3, <1>4

LEMMA ReportIsLast ==
  ASSUME NEW events \in Seq(EventRecord), NEW e \in EventRecord, NEW s, IsReport(e, s)
  PROVE  LastIn(events \o <<e>>, s) = e.cost
<1> DEFINE all == events \o <<e>>
           n == Len(events) + 1
<1>1. /\ DOMAIN all = 1..n /\ n \in Nat \ {0} /\ all[n] = e
  <2>1. <<e>> \in Seq(EventRecord) /\ Len(<<e>>) = 1 /\ <<e>>[1] = e
    OBVIOUS
  <2>2. Len(all) = n /\ all \in Seq(EventRecord) /\ Len(events) \in Nat
    BY <2>1, ConcatProperties, LenProperties
  <2>3. all[n] = e
    BY <2>1, <2>2, ConcatProperties
  <2> QED
    BY <2>2, <2>3, LenProperties
<1> HIDE DEF all
<1>2. n \in Reports(all, s) /\ Reports(all, s) \in SUBSET (1..n)
  BY <1>1 DEF Reports
<1>3. Max(Reports(all, s)) = n
  BY <1>1, <1>2, GreatestIs
<1> QED
  BY <1>1, <1>2, <1>3 DEF LastIn, all

LEMMA NoReport ==
  ASSUME NEW s
  PROVE  LastIn(<<>>, s) = 0
<1>1. Reports(<<>>, s) = {}
  BY DEF Reports
<1> QED
  BY <1>1 DEF LastIn

(***************************************************************************)
(* The steps.                                                              *)
(***************************************************************************)
LEMMA RunEventsInitInv == RunEventsInit => RunEventsInv
<1> SUFFICES ASSUME RunEventsInit PROVE RunEventsInv
  OBVIOUS
<1> USE DEF RunEventsInit
<1>1. emitted = <<>> /\ Len(emitted) = 0 /\ DOMAIN emitted = {}
  OBVIOUS
<1>2. NumbersInv
  <2>1. transports \in [1..3 -> Handlers] /\ IsInjective(transports)
    OBVIOUS
  <2>2. transports \in Seq(Handlers)
    <3>1. 3 \in Nat
      OBVIOUS
    <3> QED
      BY <2>1, <3>1, SeqDef
  <2>3. /\ got = [t \in Handlers |-> <<>>] /\ due = got
        /\ emitted \in Seq(EventRecord) /\ pending \in Seq(EventRecord)
    OBVIOUS
  <2>4. got \in [Handlers -> Seq(1..Len(emitted))]
    BY <2>3
  <2>5. serving = <<>> /\ serving \in Seq(Handlers) /\ IsInjective(serving) /\ ToSet(serving) = {}
    BY DEF IsInjective, ToSet
  <2>6. due = [t \in Handlers |-> IF t \in ToSet(serving) THEN Append(got[t], Len(emitted)) ELSE got[t]]
    BY <2>3, <2>5
  <2> QED
    BY <2>1, <2>2, <2>3, <2>4, <2>5, <2>6 DEF NumbersInv
<1>3. ToSet(got["vault"]) = {} /\ ToSet(got["cli"]) = {}
  BY DEF Handlers, ToSet
<1>4. LogInv
  <2>1. \A n : PhaseAt(n) = Setup
    BY <1>3, ByTheEvents DEF PhaseIn, Named
  <2>2. \A f \in LogFiles : vaultLog.files[f] = <<>>
    OBVIOUS
  <2>3. LoggedInItsPhase
    <3>1. ToSet(<<>>) = {} /\ Increasing(<<>>)
      BY DEF Increasing, ToSet
    <3> QED
      BY <1>3, <2>2, <3>1 DEF LoggedInItsPhase
  <2>4. vaultLog \in [slug : BOOLEAN, current : LogFiles, files : [LogFiles -> Seq(1..Len(emitted))]]
    BY DEF LogFiles
  <2>5. lostLines = {} /\ vaultLog.current = Setup
    OBVIOUS
  <2> QED
    BY <2>1, <2>3, <2>4, <2>5 DEF LogInv
<1>5. TrackerInv
  <2>1. emitted \o pending = <<>>
    OBVIOUS
  <2>2. \A s : LastCost(s) = 0
    BY <2>1, ByTheEvents, NoReport
  <2>3. /\ costTracker.sessions = [s \in SessionIds |-> 0] /\ costTracker.cumulative = 0
        /\ costTracker \in [sessions : [SessionIds -> Nat], cumulative : Nat]
    OBVIOUS
  <2>4. \A s \in SessionIds : costTracker.sessions[s] = 0
    BY <2>3
  <2>5. SumOver(costTracker.sessions, SessionIds) = 0
    BY <2>4, SumOfZeros, RunEventsAssumption
  <2> QED
    BY <2>2, <2>3, <2>4, <2>5 DEF TrackerInv
<1>6. RunningCostInv
  BY <1>3, SumOfNone DEF RunningCostInv
<1> QED
  BY <1>2, <1>4, <1>5, <1>6 DEF RunEventsInv

\* What was emitted, given and logged stays so.
LEMMA NothingEmitted ==
  ASSUME RunEventsInv, UNCHANGED <<serving, emitted, due, got, vaultLog, lostLines, runningCost>>,
         pending' \in Seq(EventRecord), transports' \in {transports, <<>>}
  PROVE  NumbersInv' /\ LogInv' /\ RunningCostInv'
<1>1. NumbersInv'
  <2>1. IsInjective(<<>>) /\ <<>> \in Seq(Handlers)
    BY DEF IsInjective
  <2>2. transports' \in Seq(Handlers) /\ IsInjective(transports')
    BY <2>1 DEF RunEventsInv, NumbersInv
  <2>3. IsInjective(serving)' = IsInjective(serving)
    BY DEF IsInjective
  <2> QED
    BY <2>2, <2>3 DEF RunEventsInv, NumbersInv
<1>2. LogInv'
  <2>1. \A n : PhaseAt(n)' = PhaseAt(n) /\ FileAt(n)' = FileAt(n)
    BY DEF PhaseAt, FileAt
  <2>2. LoggedInItsPhase'
    BY <2>1 DEF RunEventsInv, LogInv, LoggedInItsPhase
  <2> QED
    BY <2>1, <2>2 DEF RunEventsInv, LogInv
<1>3. RunningCostInv'
  BY DEF RunEventsInv, RunningCostInv
<1> QED
  BY <1>1, <1>2, <1>3

LEMMA CostsKept ==
  ASSUME TrackerInv, UNCHANGED costTracker,
         \A s \in SessionIds : LastCost(s)' = LastCost(s)
  PROVE  TrackerInv'
BY DEF TrackerInv

LEMMA MapAndEmitInv ==
  ASSUME RunEventsInv, NEW m \in Messages, MapAndEmit(m)
  PROVE  RunEventsInv'
<1>1. /\ pending = <<>> /\ pending' = Mapped(m)
      /\ UNCHANGED <<transports, serving, emitted, due, got, vaultLog, lostLines, runningCost>>
  BY DEF MapAndEmit, Room
<1>2. Mapped(m) \in Seq(EventRecord)
  BY MappedAreEvents
<1>3. NumbersInv' /\ LogInv' /\ RunningCostInv'
  BY <1>1, <1>2, NothingEmitted
<1>4. /\ \A s : LastCost(s) = LastIn(emitted, s)
      /\ \A s : LastCost(s)' = LastIn(emitted \o Mapped(m), s)
  <2>1. emitted \o pending = emitted
    BY <1>1, ConcatEmptySeq DEF RunEventsInv, NumbersInv
  <2>2. \A s : LastCost(s)' = LastIn((emitted \o pending)', s)
    BY DEF LastCost, LastIn, Reports, IsReport
  <2> QED
    BY <1>1, <2>1, <2>2, ByTheEvents
<1>5. emitted \in Seq(EventRecord)
  BY DEF RunEventsInv, NumbersInv
<1>6. CASE m.kind # "result"
  <2>1. \A i \in DOMAIN Mapped(m) : \A s : ~IsReport(Mapped(m)[i], s)
    BY <1>6, MappedAreEvents
  <2>2. \A s : LastCost(s)' = LastCost(s)
    BY <1>2, <1>4, <1>5, <2>1, QuietKeepsLast
  <2>3. UNCHANGED costTracker
    BY <1>6 DEF MapAndEmit
  <2>4. TrackerInv'
    BY <2>2, <2>3, CostsKept DEF RunEventsInv
  <2> QED
    BY <1>3, <2>4 DEF RunEventsInv
<1>7. CASE m.kind = "result"
  <2>1. PICK e \in EventRecord :
          /\ m.session \in SessionIds /\ m.cost \in Nat
          /\ Mapped(m) = <<e>> /\ e.cost = m.cost /\ e.session = m.session
          /\ e.type \in {"session_complete", "session_error"}
    BY <1>7, MappedAreEvents
  <2> DEFINE old == costTracker.sessions
             new == [old EXCEPT ![m.session] = m.cost]
  <2>2. /\ old \in [SessionIds -> Nat] /\ costTracker.cumulative \in Nat
        /\ costTracker.cumulative = SumOver(old, SessionIds)
        /\ \A s \in SessionIds : old[s] = LastCost(s)
    BY DEF RunEventsInv, TrackerInv
  <2>3. costTracker' = [sessions |-> new,
                        cumulative |-> (costTracker.cumulative + m.cost) - old[m.session]]
    BY <1>7 DEF MapAndEmit, UpdatedCost
  <2>4. new \in [SessionIds -> Nat] /\ new[m.session] = m.cost
        /\ \A s \in SessionIds : s # m.session => new[s] = old[s]
    BY <2>1, <2>2
  <2> HIDE DEF old, new
  <2>5. SumOver(new, SessionIds) = (SumOver(old, SessionIds) + new[m.session]) - old[m.session]
    <3>1. (\A s \in SessionIds : old[s] \in Int) /\ \A s \in SessionIds : new[s] \in Int
      BY <2>2, <2>4
    <3> QED
      BY <2>1, <2>4, <3>1, SumWithChange, RunEventsAssumption
  <2>6. SumOver(new, SessionIds) \in Nat
    BY <2>4, SumIsNatural, RunEventsAssumption
  <2>7. ASSUME NEW s \in SessionIds PROVE new[s] = LastCost(s)'
    <3>1. CASE s = m.session
      <4>1. IsReport(e, s)
        BY <2>1, <3>1 DEF IsReport
      <4>2. LastIn(emitted \o <<e>>, s) = e.cost
        BY <1>5, <4>1, ReportIsLast
      <4> QED
        BY <1>4, <2>1, <2>4, <3>1, <4>2
    <3>2. CASE s # m.session
      <4>1. <<e>> \in Seq(EventRecord) /\ \A i \in DOMAIN <<e>> : ~IsReport(<<e>>[i], s)
        BY <2>1, <3>2 DEF IsReport
      <4>2. LastIn(emitted \o <<e>>, s) = LastIn(emitted, s)
        BY <1>5, <4>1, QuietKeepsLast
      <4> QED
        BY <1>4, <2>1, <2>2, <2>4, <3>2, <4>2
    <3> QED
      BY <3>1, <3>2
  <2>8. TrackerInv'
    <3>1. costTracker.sessions' = new /\ costTracker.cumulative' = SumOver(new, SessionIds)
      BY <2>2, <2>3, <2>4, <2>5
    <3> QED
      BY <2>3, <2>4, <2>6, <2>7, <3>1 DEF TrackerInv
  <2> QED
    BY <1>3, <2>8 DEF RunEventsInv
<1> QED
  BY <1>6, <1>7

LEMMA RunnerEmitsInv ==
  ASSUME RunEventsInv, NEW e \in RunnerEvents, RunnerEmits(e)
  PROVE  RunEventsInv'
<1>1. /\ pending = <<>> /\ pending' = <<e>>
      /\ UNCHANGED <<transports, serving, emitted, due, got, vaultLog, lostLines, runningCost,
                     costTracker>>
  BY DEF RunnerEmits, Room
<1>2. e \in EventRecord /\ \A s : ~IsReport(e, s)
  BY RunEventsAssumption DEF RunnerEvents, Plain, Event, EventRecord, EventTypes, PhaseTypes, IsReport
<1>3. <<e>> \in Seq(EventRecord) /\ \A i \in DOMAIN <<e>> : \A s : ~IsReport(<<e>>[i], s)
  BY <1>2
<1>4. NumbersInv' /\ LogInv' /\ RunningCostInv'
  BY <1>1, <1>3, NothingEmitted
<1>5. \A s : LastCost(s)' = LastCost(s)
  <2>1. emitted \o pending = emitted /\ emitted \in Seq(EventRecord)
    BY <1>1, ConcatEmptySeq DEF RunEventsInv, NumbersInv
  <2>2. \A s : LastCost(s)' = LastIn((emitted \o pending)', s)
    BY DEF LastCost, LastIn, Reports, IsReport
  <2>3. \A s : LastIn(emitted \o <<e>>, s) = LastIn(emitted, s)
    BY <1>3, <2>1, QuietKeepsLast
  <2> QED
    BY <1>1, <2>1, <2>2, <2>3, ByTheEvents
<1>6. TrackerInv'
  BY <1>1, <1>5, CostsKept DEF RunEventsInv
<1> QED
  BY <1>4, <1>6 DEF RunEventsInv

LEMMA CloseAllInv ==
  ASSUME RunEventsInv, CloseAll
  PROVE  RunEventsInv'
<1>1. /\ transports' = <<>>
      /\ UNCHANGED <<pending, serving, emitted, due, got, vaultLog, lostLines, runningCost,
                     costTracker>>
  BY DEF CloseAll
<1>2. NumbersInv' /\ LogInv' /\ RunningCostInv'
  BY <1>1, NothingEmitted DEF RunEventsInv, NumbersInv
<1>3. TrackerInv'
  <2>1. \A s : LastCost(s)' = LastCost(s)
    BY <1>1 DEF LastCost
  <2> QED
    BY <1>1, <2>1, CostsKept DEF RunEventsInv
<1> QED
  BY <1>2, <1>3 DEF RunEventsInv

\* The phase by events that are named by one log and by a longer one.
LEMMA NamedAlike ==
  ASSUME NEW events \in Seq(EventRecord), NEW more,
         \A i \in 1..Len(events) : more[i] = events[i],
         NEW given \in SUBSET (1..Len(events)), NEW given2, NEW m, NEW k,
         Named(more, given2, m) = Named(events, given, k)
  PROVE  PhaseIn(more, given2, m) = PhaseIn(events, given, k)
<1>1. CASE Named(events, given, k) = {}
  BY <1>1 DEF PhaseIn
<1>2. CASE Named(events, given, k) # {}
  <2>1. Named(events, given, k) \in SUBSET (1..Len(events)) /\ Len(events) \in Nat
    BY LenProperties DEF Named
  <2>2. Max(Named(events, given, k)) \in 1..Len(events)
    BY <1>2, <2>1, GreatestOfSome
  <2> QED
    BY <1>2, <2>2 DEF PhaseIn
<1> QED
  BY <1>1, <1>2

\* An event more does not change which phase the earlier ones are in.
LEMMA PhaseKept ==
  ASSUME NEW events \in Seq(EventRecord), NEW n, n = Len(events) + 1,
         NEW more, \A i \in 1..Len(events) : more[i] = events[i],
         NEW given \in SUBSET (1..Len(events)), NEW given2 \in SUBSET (1..n),
         \A i \in 1..Len(events) : i \in given2 <=> i \in given,
         NEW m \in 0..Len(events)
  PROVE  PhaseIn(more, given2, m) = PhaseIn(events, given, m)
<1>1. Len(events) \in Nat /\ \A i \in given2 : i # n => i \in 1..Len(events)
  BY LenProperties
<1>2. \A i \in given2 : i <= m => i \in given /\ more[i] = events[i]
  BY <1>1
<1>3. \A i \in given : i \in given2 /\ more[i] = events[i]
  OBVIOUS
<1>4. Named(more, given2, m) = Named(events, given, m)
  BY <1>2, <1>3 DEF Named
<1> QED
  BY <1>4, NamedAlike

LEMMA PhaseOfNext ==
  ASSUME NEW events \in Seq(EventRecord), NEW n, n = Len(events) + 1,
         NEW more, \A i \in 1..Len(events) : more[i] = events[i],
         NEW given \in SUBSET (1..Len(events)), NEW given2 \in SUBSET (1..n),
         \A i \in 1..Len(events) : i \in given2 <=> i \in given
  PROVE  PhaseIn(more, given2, n) =
           IF n \in given2 /\ more[n].type \in PhaseTypes THEN more[n].phase
           ELSE PhaseIn(events, given, Len(events))
<1>1. Len(events) \in Nat /\ n \in Nat /\ \A i \in given2 : i # n => i \in 1..Len(events)
  BY LenProperties
<1>2. CASE n \in given2 /\ more[n].type \in PhaseTypes
  <2>1. (\A i \in given2 : i \in Int /\ i <= n) /\ n <= n
    <3>1. \A i \in given2 : i \in 1..n
      OBVIOUS
    <3>2. (\A i \in 1..n : i \in Int /\ i <= n) /\ n <= n
      BY <1>1
    <3> QED
      BY <3>1, <3>2
  <2>2. /\ Named(more, given2, n) \in SUBSET Int /\ n \in Named(more, given2, n)
        /\ \A i \in Named(more, given2, n) : i <= n
    BY <1>2, <2>1 DEF Named
  <2>3. Max(Named(more, given2, n)) = n
    BY <2>2, GreatestIs
  <2>4. PhaseIn(more, given2, n) = more[n].phase
    BY <2>2, <2>3 DEF PhaseIn
  <2> QED
    BY <1>2, <2>4
<1>3. CASE ~(n \in given2 /\ more[n].type \in PhaseTypes)
  <2>1. \A i \in given2 : more[i].type \in PhaseTypes => i # n
    BY <1>3
  <2>2. \A i \in given2 : more[i].type \in PhaseTypes => i <= Len(events)
    BY <1>1, <2>1
  <2>3. \A i \in given2 : i <= n
    BY <1>1
  <2>4. Named(more, given2, n) = Named(more, given2, Len(events))
    BY <2>2, <2>3 DEF Named
  <2>5. PhaseIn(more, given2, n) = PhaseIn(more, given2, Len(events))
    BY <2>4 DEF PhaseIn
  <2>6. Len(events) \in 0..Len(events)
    BY <1>1
  <2>7. PhaseIn(more, given2, Len(events)) = PhaseIn(events, given, Len(events))
    BY <2>6, PhaseKept
  <2> QED
    BY <1>3, <2>5, <2>7
<1> QED
  BY <1>2, <1>3

LEMMA IncreasingMore ==
  ASSUME NEW k \in Nat, NEW ns \in Seq(1..k), Increasing(ns)
  PROVE  /\ Append(ns, k + 1) \in Seq(1..(k + 1)) /\ Increasing(Append(ns, k + 1))
         /\ ToSet(Append(ns, k + 1)) = ToSet(ns) \cup {k + 1}
<1>1. ns \in Seq(1..(k + 1)) /\ k + 1 \in 1..(k + 1)
  <2>1. 1..k \subseteq 1..(k + 1)
    OBVIOUS
  <2> QED
    BY <2>1, SeqMonotonic
<1> DEFINE more == Append(ns, k + 1)
<1>2. /\ more \in Seq(1..(k + 1)) /\ ToSet(more) = ToSet(ns) \cup {k + 1}
      /\ DOMAIN more = DOMAIN ns \cup {Len(ns) + 1} /\ more[Len(ns) + 1] = k + 1
      /\ \A i \in DOMAIN ns : more[i] = ns[i]
  BY <1>1, AppendedTo
<1>3. Len(ns) \in Nat /\ DOMAIN ns = 1..Len(ns) /\ \A i \in DOMAIN ns : ns[i] \in 1..k
  BY Elements
<1> HIDE DEF more
<1>4. Increasing(more)
  BY <1>2, <1>3 DEF Increasing
<1> QED
  BY <1>2, <1>4 DEF more

LEMMA FewNumbers ==
  ASSUME NEW n \in Nat, NEW ns \in Seq(1..n)
  PROVE  /\ ToSet(ns) \in SUBSET (1..n) /\ IsFiniteSet(ToSet(ns))
         /\ Append(ns, n + 1) \in Seq(1..(n + 1)) /\ ns \in Seq(1..(n + 1))
         /\ ToSet(Append(ns, n + 1)) = ToSet(ns) \cup {n + 1}
<1>1. ToSet(ns) \in SUBSET (1..n)
  BY Elements
<1>2. IsFiniteSet(1..n)
  BY FS_Interval
<1>3. 1..n \subseteq 1..(n + 1) /\ n + 1 \in 1..(n + 1)
  OBVIOUS
<1>4. ns \in Seq(1..(n + 1))
  BY <1>3, SeqMonotonic
<1> QED
  BY <1>1, <1>2, <1>3, <1>4, FS_Subset, AppendedTo

LEMMA EmitEventInv ==
  ASSUME RunEventsInv, EmitEvent
  PROVE  RunEventsInv'
<1> DEFINE e == Head(pending)
           n == Len(emitted) + 1
<1>1. /\ emitted' = Append(emitted, e)
      /\ due' = [t \in Handlers |-> IF t \in ToSet(transports) THEN Append(due[t], Len(emitted'))
                                    ELSE due[t]]
      /\ serving = <<>> /\ serving' = transports
      /\ pending # <<>> /\ pending' = Tail(pending)
      /\ UNCHANGED <<transports, got, vaultLog, lostLines, runningCost, costTracker>>
  BY DEF EmitEvent
<1>2. /\ emitted \in Seq(EventRecord) /\ pending \in Seq(EventRecord)
      /\ transports \in Seq(Handlers) /\ IsInjective(transports)
      /\ got \in [Handlers -> Seq(1..Len(emitted))] /\ Len(emitted) \in Nat
  BY LenProperties DEF RunEventsInv, NumbersInv
<1>3. e \in EventRecord /\ Tail(pending) \in Seq(EventRecord)
  BY <1>1, <1>2, HeadTailProperties
<1>4. /\ emitted' \in Seq(EventRecord) /\ Len(emitted') = n /\ emitted' # <<>>
      /\ \A i \in 1..Len(emitted) : emitted'[i] = emitted[i]
      /\ DOMAIN emitted' = 1..n /\ DOMAIN emitted = 1..Len(emitted)
  BY <1>1, <1>2, <1>3, AppendedTo, Elements
<1>5. emitted' \o pending' = emitted \o pending
  BY <1>1, <1>2, <1>3
<1>6. TrackerInv'
  <2>1. \A s : LastCost(s)' = LastIn(emitted' \o pending', s)
    BY DEF LastCost, LastIn, Reports, IsReport
  <2>2. \A s : LastCost(s)' = LastCost(s)
    BY <1>5, <2>1, ByTheEvents
  <2> QED
    BY <1>1, <2>2, CostsKept DEF RunEventsInv
<1> HIDE DEF e
<1>7. ASSUME NEW t \in Handlers
      PROVE  /\ got[t] \in Seq(1..n) /\ n \notin ToSet(got[t])
             /\ ToSet(got[t]) \in SUBSET (1..Len(emitted)) /\ IsFiniteSet(ToSet(got[t]))
  <2>1. got[t] \in Seq(1..Len(emitted))
    BY <1>2
  <2>2. n \notin 1..Len(emitted)
    BY <1>2
  <2> QED
    BY <1>2, <2>1, <2>2, FewNumbers
<1>8. NumbersInv'
  <2>1. got' \in [Handlers -> Seq(1..Len(emitted'))]
    BY <1>1, <1>2, <1>4, <1>7
  <2>2. due' = [t \in Handlers |-> IF t \in ToSet(serving') THEN Append(got'[t], Len(emitted'))
                                   ELSE got'[t]]
    <3>1. ToSet(serving) = {}
      BY <1>1 DEF ToSet
    <3>2. \A t \in Handlers : due[t] = got[t]
      BY <3>1 DEF RunEventsInv, NumbersInv
    <3> QED
      BY <1>1, <3>2
  <2>3. transports' \in Seq(Handlers) /\ IsInjective(transports') /\ serving' = transports'
    BY <1>1, <1>2
  <2>4. \A t \in ToSet(serving') : Len(emitted') \notin ToSet(got'[t])
    <3>1. ToSet(serving') \subseteq Handlers
      BY <1>1, <1>2, Elements
    <3> QED
      BY <1>1, <1>4, <1>7, <3>1
  <2> QED
    BY <1>1, <1>3, <1>4, <2>1, <2>2, <2>3, <2>4 DEF NumbersInv, IsInjective, ToSet
<1>9. RunningCostInv'
  <2> DEFINE S == ToSet(got["cli"])
             f == [i \in DOMAIN emitted |-> CostUpdate(emitted[i])]
             h == [i \in DOMAIN emitted' |-> CostUpdate(emitted'[i])]
  <2>1. S \in SUBSET (1..Len(emitted)) /\ IsFiniteSet(S) /\ ToSet(got'["cli"]) = S
    BY <1>1, <1>7 DEF Handlers
  <2>2. \A i \in S : h[i] = f[i]
    <3>1. \A i \in 1..Len(emitted) : i \in DOMAIN emitted' /\ i \in DOMAIN emitted
      BY <1>2, <1>4
    <3> QED
      BY <1>4, <2>1, <3>1
  <2>3. runningCost \in Nat /\ runningCost = SumOver(f, S)
    BY DEF RunEventsInv, RunningCostInv
  <2>4. RunningCostInv' = (runningCost' \in Nat /\ runningCost' = SumOver(h, ToSet(got'["cli"])))
    BY DEF RunningCostInv
  <2> HIDE DEF S, f, h
  <2>5. SumOver(f, S) = SumOver(h, S)
    BY <2>1, <2>2, SumOfEqual
  <2> QED
    BY <1>1, <2>1, <2>3, <2>4, <2>5
<1>10. LogInv'
  <2> DEFINE given == ToSet(got["vault"])
  <2>1. given \in SUBSET (1..Len(emitted)) /\ n \notin given
    BY <1>7 DEF Handlers
  <2>2. /\ \A m : PhaseAt(m) = PhaseIn(emitted, given, m)
        /\ \A m : PhaseAt(m)' = PhaseIn(emitted', given, m)
    BY <1>1, ByTheEvents DEF PhaseAt, PhaseIn, Named, PhaseTypes
  <2> HIDE DEF given
  <2>3. /\ \A m \in 1..Len(emitted) : PhaseAt(m)' = PhaseAt(m)
        /\ PhaseIn(emitted', given, n) = PhaseIn(emitted, given, Len(emitted))
    <3>1. given \in SUBSET (1..n) /\ n = Len(emitted) + 1 /\ n \notin given
      BY <1>2, <2>1
    <3>0. /\ emitted \in Seq(EventRecord) /\ given \in SUBSET (1..Len(emitted))
          /\ \A i \in 1..Len(emitted) : emitted'[i] = emitted[i]
      BY <1>2, <1>4, <2>1
    <3> HIDE DEF n
    <3>2. ASSUME NEW m \in 0..Len(emitted)
          PROVE PhaseIn(emitted', given, m) = PhaseIn(emitted, given, m)
      <4>1. Named(emitted', given, m) = Named(emitted, given, m)
        BY <3>0 DEF Named
      <4>2. CASE Named(emitted, given, m) = {}
        BY <4>1, <4>2 DEF PhaseIn
      <4>3. CASE Named(emitted, given, m) # {}
        <5>1. Named(emitted, given, m) \in SUBSET (1..Len(emitted))
          BY <3>0 DEF Named
        <5>2. Max(Named(emitted, given, m)) \in 1..Len(emitted)
          BY <1>2, <4>3, <5>1, GreatestOfSome
        <5> QED
          BY <3>0, <4>1, <4>3, <5>2 DEF PhaseIn
      <4> QED
        BY <4>2, <4>3
    <3>3. PhaseIn(emitted', given, n) =
            IF n \in given /\ emitted'[n].type \in PhaseTypes THEN emitted'[n].phase
            ELSE PhaseIn(emitted, given, Len(emitted))
      BY <3>0, <3>1, PhaseOfNext
    <3>4. \A m \in 1..Len(emitted) : m \in 0..Len(emitted)
      OBVIOUS
    <3> QED
      BY <2>2, <3>1, <3>2, <3>3, <3>4
  <2>4. LoggedInItsPhase'
    <3>1. ASSUME NEW m \in given
          PROVE  HasLine(emitted'[m]) = HasLine(emitted[m]) /\ FileAt(m)' = FileAt(m)
      <4>1. m \in 1..Len(emitted)
        BY <2>1
      <4> QED
        BY <1>1, <1>4, <2>3, <4>1 DEF HasLine, FileAt
    <3>2. ASSUME NEW f \in LogFiles
          PROVE  {m \in given : HasLine(emitted'[m]) /\ m \notin lostLines /\ FileAt(m)' = f} =
                 {m \in given : HasLine(emitted[m]) /\ m \notin lostLines /\ FileAt(m) = f}
      BY <3>1
    <3>3. \A f \in LogFiles :
            /\ ToSet(vaultLog.files[f]) =
                 {m \in given : HasLine(emitted[m]) /\ m \notin lostLines /\ FileAt(m) = f}
            /\ Increasing(vaultLog.files[f])
      BY DEF RunEventsInv, LogInv, LoggedInItsPhase, given
    <3>4. LoggedInItsPhase' =
            \A f \in LogFiles :
              /\ ToSet(vaultLog'.files[f]) =
                   {m \in ToSet(got'["vault"]) :
                      HasLine(emitted'[m]) /\ m \notin lostLines' /\ FileAt(m)' = f}
              /\ Increasing(vaultLog'.files[f])
      BY DEF LoggedInItsPhase, Increasing
    <3> QED
      BY <1>1, <3>2, <3>3, <3>4 DEF given
  <2>5. PhaseAt(Len(emitted))' = PhaseAt(Len(emitted))
    <3>1. PhaseAt(Len(emitted))' = PhaseIn(emitted', given, Len(emitted'))
      BY <1>1 DEF PhaseAt, PhaseIn, Named, PhaseTypes, given
    <3> QED
      BY <1>4, <2>2, <2>3, <3>1
  <2>6. /\ lostLines \in SUBSET given /\ vaultLog.current = PhaseAt(Len(emitted))
        /\ vaultLog \in [slug : BOOLEAN, current : LogFiles,
                         files : [LogFiles -> Seq(1..Len(emitted))]]
    BY DEF RunEventsInv, LogInv, given
  <2>7. 1..Len(emitted) \subseteq 1..n
    BY <1>2
  <2>8. /\ lostLines' \in SUBSET ToSet(got'["vault"])
        /\ vaultLog' \in [slug : BOOLEAN, current : LogFiles,
                          files : [LogFiles -> Seq(1..Len(emitted'))]]
    <3> HIDE DEF n
    <3>1. Seq(1..Len(emitted)) \subseteq Seq(1..n)
      BY <2>7, SeqMonotonic
    <3> QED
      BY <1>1, <1>4, <2>6, <2>7, <3>1 DEF given
  <2> QED
    BY <1>1, <2>4, <2>5, <2>6, <2>8 DEF LogInv
<1> QED
  BY <1>6, <1>8, <1>9, <1>10 DEF RunEventsInv

(***************************************************************************)
(* A turn of the loop.                                                     *)
(***************************************************************************)
TurnOf(t) ==
  /\ serving # <<>> /\ t = Head(serving) /\ Given(t) /\ serving' = Tail(serving)
  /\ UNCHANGED <<transports, pending, emitted, due, costTracker>>

LEMMA HeadAndTail ==
  ASSUME NEW S, NEW s \in Seq(S), s # <<>>, IsInjective(s)
  PROVE  /\ Head(s) \in S /\ Tail(s) \in Seq(S) /\ IsInjective(Tail(s))
         /\ ToSet(s) = {Head(s)} \cup ToSet(Tail(s)) /\ Head(s) \notin ToSet(Tail(s))
<1>1. /\ Head(s) \in S /\ Head(s) = s[1] /\ Tail(s) \in Seq(S)
      /\ Len(s) \in Nat \ {0} /\ DOMAIN s = 1..Len(s)
      /\ Len(Tail(s)) = Len(s) - 1 /\ DOMAIN Tail(s) = 1..(Len(s) - 1)
      /\ \A i \in 1..(Len(s) - 1) : Tail(s)[i] = s[i + 1]
  BY HeadTailProperties, LenProperties, EmptySeq
<1>2. \A a, b \in 1..Len(s) : s[a] = s[b] => a = b
  BY <1>1 DEF IsInjective
<1>3. IsInjective(Tail(s))
  <2> SUFFICES ASSUME NEW a \in 1..(Len(s) - 1), NEW b \in 1..(Len(s) - 1), Tail(s)[a] = Tail(s)[b]
               PROVE  a = b
    BY <1>1 DEF IsInjective
  <2>1. a + 1 \in 1..Len(s) /\ b + 1 \in 1..Len(s) /\ s[a + 1] = s[b + 1]
    BY <1>1
  <2>2. a + 1 = b + 1
    BY <1>2, <2>1
  <2> QED
    BY <1>1, <2>2
<1>4. \A i \in 2..Len(s) : i - 1 \in 1..(Len(s) - 1) /\ Tail(s)[i - 1] = s[i]
  BY <1>1
<1>5. Head(s) \notin ToSet(Tail(s))
  <2> SUFFICES ASSUME NEW i \in 1..(Len(s) - 1), Tail(s)[i] = Head(s) PROVE FALSE
    BY <1>1 DEF ToSet
  <2>1. i + 1 \in 1..Len(s) /\ 1 \in 1..Len(s) /\ s[i + 1] = s[1]
    BY <1>1
  <2>2. i + 1 = 1
    BY <1>2, <2>1
  <2> QED
    BY <1>1, <2>2
<1>6. ToSet(s) = {Head(s)} \cup ToSet(Tail(s))
  <2>1. ASSUME NEW x \in ToSet(s) PROVE x = Head(s) \/ x \in ToSet(Tail(s))
    <3>1. PICK i \in 1..Len(s) : x = s[i]
      BY <1>1 DEF ToSet
    <3>2. i = 1 \/ i \in 2..Len(s)
      BY <1>1
    <3> QED
      BY <1>1, <1>4, <3>1, <3>2 DEF ToSet
  <2>2. ASSUME NEW x \in ToSet(Tail(s)) PROVE x \in ToSet(s)
    <3>1. PICK i \in 1..(Len(s) - 1) : x = Tail(s)[i]
      BY <1>1 DEF ToSet
    <3>2. i + 1 \in 1..Len(s) /\ x = s[i + 1]
      BY <1>1, <3>1
    <3> QED
      BY <1>1, <3>2 DEF ToSet
  <2>3. Head(s) \in ToSet(s)
    BY <1>1 DEF ToSet
  <2> QED
    BY <2>1, <2>2, <2>3
<1> QED
  BY <1>1, <1>3, <1>5, <1>6

\* The handler is given the last event and nothing else; what is due to the
\* handlers behind it is still the same.
LEMMA TurnInv ==
  ASSUME RunEventsInv, NEW t, TurnOf(t)
  PROVE  /\ NumbersInv' /\ TrackerInv'
         /\ t \in Handlers /\ Len(emitted) \in Nat \ {0} /\ Len(emitted) \in DOMAIN emitted
         /\ got[t] \in Seq(1..Len(emitted)) /\ Len(emitted) \notin ToSet(got[t])
         /\ ToSet(got[t]) \in SUBSET (1..Len(emitted)) /\ IsFiniteSet(ToSet(got[t]))
         /\ ToSet(got'[t]) = ToSet(got[t]) \cup {Len(emitted)}
         /\ \A u \in Handlers : u # t => got'[u] = got[u]
<1> DEFINE n == Len(emitted)
<1>1. /\ emitted \in Seq(EventRecord) /\ serving \in Seq(Handlers) /\ IsInjective(serving)
      /\ emitted # <<>> /\ got \in [Handlers -> Seq(1..n)]
      /\ due = [u \in Handlers |-> IF u \in ToSet(serving) THEN Append(got[u], n) ELSE got[u]]
      /\ \A u \in ToSet(serving) : n \notin ToSet(got[u])
  BY DEF RunEventsInv, NumbersInv, TurnOf
<1>2. /\ t = Head(serving) /\ serving # <<>> /\ serving' = Tail(serving)
      /\ got' = [got EXCEPT ![t] = Append(@, n)]
      /\ UNCHANGED <<transports, pending, emitted, due, costTracker>>
  BY DEF TurnOf, Given
<1>3. n \in Nat \ {0} /\ n \in DOMAIN emitted /\ n \in 1..n
  BY <1>1, LenProperties, EmptySeq
<1>4. /\ t \in Handlers /\ Tail(serving) \in Seq(Handlers) /\ IsInjective(Tail(serving))
      /\ ToSet(serving) = {t} \cup ToSet(Tail(serving)) /\ t \notin ToSet(Tail(serving))
  BY <1>1, <1>2, HeadAndTail
<1> HIDE DEF n
<1>5. got[t] \in Seq(1..n) /\ n \notin ToSet(got[t])
  BY <1>1, <1>4
<1>6. /\ ToSet(got[t]) \in SUBSET (1..n) /\ Append(got[t], n) \in Seq(1..n)
      /\ ToSet(Append(got[t], n)) = ToSet(got[t]) \cup {n}
  BY <1>3, <1>5, AppendedTo, Elements
<1>7. IsFiniteSet(ToSet(got[t]))
  BY <1>3, <1>6, FS_Interval, FS_Subset
<1>8. /\ got' \in [Handlers -> Seq(1..n)] /\ got'[t] = Append(got[t], n)
      /\ \A u \in Handlers : u # t => got'[u] = got[u]
  BY <1>1, <1>2, <1>4, <1>6
<1>9. due' = [u \in Handlers |-> IF u \in ToSet(serving') THEN Append(got'[u], n) ELSE got'[u]]
  <2>1. ASSUME NEW u \in Handlers
        PROVE  (IF u \in ToSet(serving) THEN Append(got[u], n) ELSE got[u]) =
               (IF u \in ToSet(serving') THEN Append(got'[u], n) ELSE got'[u])
    <3>1. CASE u = t
      BY <1>2, <1>4, <1>8, <3>1
    <3>2. CASE u # t
      BY <1>2, <1>4, <1>8, <3>2
    <3> QED
      BY <3>1, <3>2
  <2> QED
    BY <1>1, <1>2, <2>1
<1>10. \A u \in ToSet(serving') : n \notin ToSet(got'[u])
  <2>1. ToSet(serving') \subseteq Handlers
    BY <1>2, <1>4, Elements
  <2> QED
    BY <1>1, <1>2, <1>4, <1>8, <2>1
<1>11. NumbersInv'
  <2>1. pending' \in Seq(EventRecord) /\ transports' \in Seq(Handlers) /\ IsInjective(transports')
    BY <1>2 DEF RunEventsInv, NumbersInv
  <2>2. emitted' = emitted /\ emitted \in Seq(EventRecord) /\ emitted # <<>>
    BY <1>1, <1>2
  <2>3. serving' \in Seq(Handlers) /\ IsInjective(serving')
    BY <1>2, <1>4
  <2>4. NumbersInv' =
          (/\ emitted' \in Seq(EventRecord) /\ pending' \in Seq(EventRecord)
           /\ transports' \in Seq(Handlers) /\ IsInjective(transports')
           /\ serving' \in Seq(Handlers) /\ IsInjective(serving')
           /\ (serving' # <<>> => emitted' # <<>>)
           /\ got' \in [Handlers -> Seq(1..Len(emitted'))]
           /\ due' = [u \in Handlers |-> IF u \in ToSet(serving') THEN Append(got'[u], Len(emitted'))
                                         ELSE got'[u]]
           /\ \A u \in ToSet(serving') : Len(emitted') \notin ToSet(got'[u]))
    BY DEF NumbersInv, IsInjective, ToSet
  <2> QED
    BY <1>8, <1>9, <1>10, <2>1, <2>2, <2>3, <2>4 DEF n
<1>12. TrackerInv'
  <2>1. \A s : LastCost(s)' = LastCost(s)
    BY <1>2 DEF LastCost
  <2> QED
    BY <1>2, <2>1, CostsKept DEF RunEventsInv
<1> QED
  BY <1>3, <1>4, <1>5, <1>6, <1>7, <1>8, <1>11, <1>12 DEF n

LEMMA LogKept ==
  ASSUME LogInv, UNCHANGED <<emitted, vaultLog, lostLines>>, got'["vault"] = got["vault"]
  PROVE  LogInv'
<1>1. \A m : PhaseAt(m)' = PhaseAt(m) /\ FileAt(m)' = FileAt(m)
  BY DEF PhaseAt, FileAt
<1>2. LoggedInItsPhase'
  BY <1>1 DEF LogInv, LoggedInItsPhase
<1> QED
  BY <1>1, <1>2 DEF LogInv

LEMMA RunningCostKept ==
  ASSUME RunningCostInv, UNCHANGED <<emitted, runningCost>>, got'["cli"] = got["cli"]
  PROVE  RunningCostInv'
BY DEF RunningCostInv

\* The terminal adds the cost of the event that it is given.
LEMMA TerminalInv ==
  ASSUME RunEventsInv, TurnOf("cli"), runningCost' = RunningCost(CurrentEvent)
  PROVE  RunningCostInv'
<1> DEFINE n == Len(emitted)
           S == ToSet(got["cli"])
           f == [i \in DOMAIN emitted |-> CostUpdate(emitted[i])]
<1>1. /\ n \in DOMAIN emitted /\ n \notin S /\ S \in SUBSET (1..n) /\ IsFiniteSet(S)
      /\ ToSet(got'["cli"]) = S \cup {n}
  BY TurnInv
<1>2. \A i \in 1..n : f[i] \in Nat
  <2>1. emitted \in Seq(EventRecord)
    BY DEF RunEventsInv, NumbersInv
  <2>2. \A i \in 1..n : i \in DOMAIN emitted /\ emitted[i] \in EventRecord
    BY <2>1, Elements
  <2>3. \A x \in EventRecord : CostUpdate(x) \in Nat
    BY DEF CostUpdate, EventRecord
  <2> QED
    BY <2>2, <2>3
<1>3. n \in 1..n
  BY TurnInv
<1>4. runningCost' = runningCost + f[n]
  BY <1>1 DEF RunningCost, CostUpdate, CurrentEvent
<1>5. runningCost \in Nat /\ runningCost = SumOver(f, S)
  BY DEF RunEventsInv, RunningCostInv
<1>6. RunningCostInv' = (runningCost' \in Nat /\ runningCost' = SumOver(f, ToSet(got'["cli"])))
  <2>1. emitted' = emitted
    BY DEF TurnOf
  <2> QED
    BY <2>1 DEF RunningCostInv
<1> HIDE DEF n, S, f
<1>7. (\A i \in S : f[i] \in Int) /\ f[n] \in Int /\ f[n] \in Nat
  BY <1>1, <1>2, <1>3
<1>8. SumOver(f, S \cup {n}) = SumOver(f, S) + f[n]
  BY <1>1, <1>7, SumWithout
<1>9. runningCost + f[n] \in Nat
  BY <1>5, <1>7
<1> QED
  BY <1>1, <1>4, <1>5, <1>6, <1>8, <1>9

LEMMA BelowLast ==
  ASSUME NEW n \in Nat \ {0}, NEW ns \in Seq(1..n), n \notin ToSet(ns), Increasing(ns)
  PROVE  /\ Append(ns, n) \in Seq(1..n) /\ Increasing(Append(ns, n))
         /\ ToSet(Append(ns, n)) = ToSet(ns) \cup {n}
<1>1. n - 1 \in Nat /\ (n - 1) + 1 = n
  OBVIOUS
<1>2. Len(ns) \in Nat /\ DOMAIN ns = 1..Len(ns) /\ \A i \in 1..Len(ns) : ns[i] \in 1..(n - 1)
  <2>1. Len(ns) \in Nat /\ DOMAIN ns = 1..Len(ns) /\ \A i \in DOMAIN ns : ns[i] \in 1..n
    BY Elements
  <2>2. \A i \in DOMAIN ns : ns[i] # n
    BY DEF ToSet
  <2> QED
    BY <2>1, <2>2
<1>3. ns \in Seq(1..(n - 1))
  BY <1>2, ElementOfSeq, SeqDef
<1> QED
  BY <1>1, <1>3, IncreasingMore

\* The vault notes the phase and writes the line, or the disk refuses it.
LEMMA VaultGivenInv ==
  ASSUME RunEventsInv, TurnOf("vault"), NEW refuses \in BOOLEAN,
         LogEvent(CurrentEvent, Len(emitted), refuses)
  PROVE  LogInv'
<1> DEFINE n == Len(emitted)
           e == emitted[n]
           given == ToSet(got["vault"])
           given2 == given \cup {n}
           phase(m) == PhaseIn(emitted, given2, m)
           file(m) == IF vaultLog.slug THEN phase(m) ELSE Setup
           written == HasLine(e) /\ ~refuses
<1>1. /\ n \in Nat \ {0} /\ n \in DOMAIN emitted /\ n \notin given /\ given \in SUBSET (1..n)
      /\ ToSet(got'["vault"]) = given2 /\ emitted' = emitted
  BY TurnInv DEF TurnOf
<1>2. emitted \in Seq(EventRecord) /\ e \in EventRecord
  BY <1>1, Elements DEF RunEventsInv, NumbersInv
<1>3. /\ \A m : PhaseAt(m) = PhaseIn(emitted, given, m)
      /\ \A m : PhaseAt(m)' = phase(m)
  BY <1>1, ByTheEvents DEF PhaseAt, PhaseIn, Named, PhaseTypes
<1>4. ASSUME NEW m \in 1..n, m # n PROVE phase(m) = PhaseAt(m)
  <2>1. ~(n <= m) /\ m \in Int
    BY <1>1, <1>4
  <2>2. Named(emitted, given2, m) = Named(emitted, given, m)
    BY <2>1 DEF Named
  <2> QED
    BY <1>3, <2>2 DEF PhaseIn
<1>5. phase(n) = PhaseNoted(e)
  <2>1. CASE e.type \in PhaseTypes
    <3>1. /\ Named(emitted, given2, n) \in SUBSET Int /\ n \in Named(emitted, given2, n)
          /\ \A i \in Named(emitted, given2, n) : i <= n
      BY <1>1, <2>1 DEF Named
    <3>2. Max(Named(emitted, given2, n)) = n
      BY <3>1, GreatestIs
    <3> QED
      BY <2>1, <3>1, <3>2 DEF PhaseIn, PhaseNoted, PhaseTypes
  <2>2. CASE e.type \notin PhaseTypes
    <3>1. Named(emitted, given2, n) = Named(emitted, given, n)
      BY <2>2 DEF Named
    <3>2. phase(n) = PhaseAt(n)
      BY <1>3, <3>1 DEF PhaseIn
    <3>3. vaultLog.current = PhaseAt(n)
      BY DEF RunEventsInv, LogInv
    <3> QED
      BY <2>2, <3>2, <3>3 DEF PhaseNoted, PhaseTypes
  <2> QED
    BY <2>1, <2>2
<1>6. /\ lostLines \in SUBSET given
      /\ vaultLog \in [slug : BOOLEAN, current : LogFiles, files : [LogFiles -> Seq(1..n)]]
      /\ \A f \in LogFiles :
           /\ ToSet(vaultLog.files[f]) =
                {m \in given : HasLine(emitted[m]) /\ m \notin lostLines /\ FileAt(m) = f}
           /\ Increasing(vaultLog.files[f])
  BY DEF RunEventsInv, LogInv, LoggedInItsPhase
<1>7. phase(n) \in LogFiles /\ file(n) \in LogFiles
  <2>1. e.type \in PhaseTypes => e.phase \in PhaseNumbers
    BY <1>2 DEF EventRecord
  <2> HIDE DEF phase, e
  <2> QED
    BY <1>5, <1>6, <2>1 DEF LogFiles, PhaseNoted, PhaseTypes
<1>8. /\ lostLines' = IF HasLine(e) /\ refuses THEN lostLines \cup {n} ELSE lostLines
      /\ vaultLog' = [slug |-> vaultLog.slug, current |-> phase(n),
                      files |-> [vaultLog.files EXCEPT ![file(n)] =
                                   IF written THEN Append(@, n) ELSE @]]
  <2> DEFINE line == LogFile(e)
             noted == PhaseNoted(e)
  <2>1. line = file(n) /\ noted = phase(n)
    BY <1>5 DEF LogFile
  <2>2. /\ lostLines' = IF HasLine(e) /\ refuses THEN lostLines \cup {n} ELSE lostLines
        /\ vaultLog' = [vaultLog EXCEPT !.current = noted,
                                        !.files[line] = IF written THEN Append(@, n) ELSE @]
    BY DEF LogEvent, CurrentEvent
  <2>3. vaultLog = [slug |-> vaultLog.slug, current |-> vaultLog.current, files |-> vaultLog.files]
    BY <1>6
  <2>4. written \in BOOLEAN
    BY DEF HasLine
  <2> HIDE DEF phase, file, given, e, n, written, line, noted
  <2>5. vaultLog' = [slug |-> vaultLog.slug, current |-> noted,
                     files |-> [vaultLog.files EXCEPT ![line] = IF written THEN Append(@, n) ELSE @]]
    BY <2>2, <2>3, <2>4
  <2> QED
    BY <2>1, <2>2, <2>5
<1> HIDE DEF phase, file, n, e, given, given2, written
<1>9. ASSUME NEW m \in given
      PROVE  /\ m \in given2 /\ m # n /\ FileAt(m)' = FileAt(m)
             /\ m \in lostLines' <=> m \in lostLines
  <2>1. m \in 1..n /\ m # n
    BY <1>1
  <2>2. PhaseAt(m)' = PhaseAt(m)
    BY <1>3, <1>4, <2>1
  <2>3. vaultLog'.slug = vaultLog.slug
    BY <1>6, <1>8
  <2> QED
    BY <1>8, <2>1, <2>2, <2>3 DEF FileAt, given2
<1>10. n \in given2 /\ \A m : FileAt(m)' = file(m)
  <2>1. vaultLog'.slug = vaultLog.slug
    BY <1>6, <1>8
  <2>2. \A m : FileAt(m)' = IF vaultLog'.slug THEN phase(m) ELSE Setup
    <3>1. \A m : FileAt(m)' = IF vaultLog'.slug THEN PhaseAt(m)' ELSE Setup
      BY DEF FileAt, PhaseAt
    <3> QED
      BY <1>3, <3>1
  <2> QED
    BY <2>1, <2>2 DEF file, given2
<1>11. ASSUME NEW f \in LogFiles
       PROVE  vaultLog'.files[f] = IF written /\ f = file(n) THEN Append(vaultLog.files[f], n)
                                   ELSE vaultLog.files[f]
  <2>1. vaultLog.files \in [LogFiles -> Seq(1..n)]
    BY <1>6
  <2>2. vaultLog'.files = [vaultLog.files EXCEPT ![file(n)] = IF written THEN Append(@, n) ELSE @]
    BY <1>8
  <2> QED
    BY <1>7, <2>1, <2>2
<1>12. ASSUME NEW f \in LogFiles
       PROVE  /\ vaultLog'.files[f] \in Seq(1..n) /\ Increasing(vaultLog'.files[f])
              /\ ToSet(vaultLog'.files[f]) = IF written /\ f = file(n)
                                             THEN ToSet(vaultLog.files[f]) \cup {n}
                                             ELSE ToSet(vaultLog.files[f])
  <2>1. vaultLog.files[f] \in Seq(1..n) /\ Increasing(vaultLog.files[f])
    BY <1>6
  <2>2. n \notin ToSet(vaultLog.files[f])
    BY <1>1, <1>6
  <2>3. /\ Append(vaultLog.files[f], n) \in Seq(1..n)
        /\ Increasing(Append(vaultLog.files[f], n))
        /\ ToSet(Append(vaultLog.files[f], n)) = ToSet(vaultLog.files[f]) \cup {n}
    BY <1>1, <2>1, <2>2, BelowLast
  <2> QED
    BY <1>11, <2>1, <2>3
<1>13. ASSUME NEW f \in LogFiles
       PROVE  ToSet(vaultLog'.files[f]) =
                {m \in given2 : HasLine(emitted[m]) /\ m \notin lostLines' /\ FileAt(m)' = f}
  <2>1. \A m \in given2 : m \in given \/ m = n
    BY DEF given2
  <2>2. HasLine(emitted[n]) => (n \notin lostLines' <=> ~refuses)
    <3>1. n \notin lostLines
      BY <1>1, <1>6
    <3> QED
      BY <1>8, <3>1 DEF e
  <2>3. ToSet(vaultLog.files[f]) =
          {m \in given : HasLine(emitted[m]) /\ m \notin lostLines /\ FileAt(m) = f}
    BY <1>6
  <2>4. ASSUME NEW m
        PROVE  m \in ToSet(vaultLog'.files[f]) <=>
                 m \in given2 /\ HasLine(emitted[m]) /\ m \notin lostLines' /\ FileAt(m)' = f
    <3>1. CASE m \in given
      BY <1>9, <1>12, <2>3, <3>1
    <3>2. CASE m = n /\ m \notin given
      BY <1>10, <1>12, <2>2, <2>3, <3>2 DEF written, e
    <3>3. CASE m # n /\ m \notin given
      BY <1>12, <2>1, <2>3, <3>3
    <3> QED
      BY <3>1, <3>2, <3>3
  <2> QED
    BY <2>4
<1>14. LoggedInItsPhase'
  <2>1. LoggedInItsPhase' =
          \A f \in LogFiles :
            /\ ToSet(vaultLog'.files[f]) =
                 {m \in ToSet(got'["vault"]) :
                    HasLine(emitted'[m]) /\ m \notin lostLines' /\ FileAt(m)' = f}
            /\ Increasing(vaultLog'.files[f])
    BY DEF LoggedInItsPhase, Increasing
  <2> QED
    BY <1>1, <1>12, <1>13, <2>1
<1>15. /\ vaultLog' \in [slug : BOOLEAN, current : LogFiles, files : [LogFiles -> Seq(1..n)]]
       /\ vaultLog'.current = phase(n)
  <2>1. /\ vaultLog'.current = phase(n) /\ vaultLog'.slug \in BOOLEAN
        /\ vaultLog' = [slug |-> vaultLog'.slug, current |-> vaultLog'.current,
                        files |-> vaultLog'.files]
    BY <1>6, <1>8
  <2>2. DOMAIN vaultLog'.files = LogFiles /\ vaultLog'.files = [f \in LogFiles |-> vaultLog'.files[f]]
    <3>1. vaultLog.files \in [LogFiles -> Seq(1..n)]
      BY <1>6
    <3>2. vaultLog'.files = [vaultLog.files EXCEPT ![file(n)] = IF written THEN Append(@, n) ELSE @]
      BY <1>8
    <3> QED
      BY <3>1, <3>2
  <2>3. vaultLog'.files \in [LogFiles -> Seq(1..n)]
    BY <1>12, <2>2
  <2> QED
    BY <1>7, <2>1, <2>3
<1>16. lostLines' \in SUBSET ToSet(got'["vault"])
  BY <1>1, <1>6, <1>8 DEF given2
<1>17. vaultLog'.current = PhaseAt(Len(emitted))'
  <2>1. PhaseAt(Len(emitted))' = PhaseIn(emitted', ToSet(got'["vault"]), Len(emitted'))
    BY DEF PhaseAt, PhaseIn, Named, PhaseTypes
  <2> QED
    BY <1>1, <1>15, <2>1 DEF phase, n
<1>18. Len(emitted') = n
  BY <1>1 DEF n
<1> QED
  BY <1>14, <1>15, <1>16, <1>17, <1>18 DEF LogInv

LEMMA DeliverInv ==
  ASSUME RunEventsInv, Deliver
  PROVE  RunEventsInv'
<1> DEFINE t == Head(serving)
<1>1. TurnOf(t)
  BY DEF Deliver, TurnOf
<1>2. NumbersInv' /\ TrackerInv' /\ \A u \in Handlers : u # t => got'[u] = got[u]
  BY <1>1, TurnInv
<1>3. "vault" \in Handlers /\ "cli" \in Handlers /\ emitted' = emitted
  BY <1>1 DEF Handlers, TurnOf
<1>4. CASE t = "vault"
  <2>1. (\E refuses \in BOOLEAN : LogEvent(CurrentEvent, Len(emitted), refuses)) /\ UNCHANGED runningCost
    BY <1>4 DEF Deliver
  <2>2. LogInv'
    BY <1>1, <1>4, <2>1, VaultGivenInv
  <2>3. got'["cli"] = got["cli"]
    BY <1>2, <1>3, <1>4
  <2>4. RunningCostInv'
    BY <1>3, <2>1, <2>3, RunningCostKept DEF RunEventsInv
  <2> QED
    BY <1>2, <2>2, <2>4 DEF RunEventsInv
<1>5. CASE t = "cli"
  <2>1. runningCost' = RunningCost(CurrentEvent) /\ UNCHANGED <<vaultLog, lostLines>>
    BY <1>5 DEF Deliver
  <2>2. RunningCostInv'
    BY <1>1, <1>5, <2>1, TerminalInv
  <2>3. got'["vault"] = got["vault"]
    BY <1>2, <1>3, <1>5
  <2>4. LogInv'
    BY <1>3, <2>1, <2>3, LogKept DEF RunEventsInv
  <2> QED
    BY <1>2, <2>2, <2>4 DEF RunEventsInv
<1>6. CASE t = "other"
  <2>1. UNCHANGED <<vaultLog, lostLines, runningCost>>
    BY <1>6 DEF Deliver
  <2>2. got'["vault"] = got["vault"] /\ got'["cli"] = got["cli"]
    BY <1>2, <1>3, <1>6
  <2>3. LogInv' /\ RunningCostInv'
    BY <1>3, <2>1, <2>2, LogKept, RunningCostKept DEF RunEventsInv
  <2> QED
    BY <1>2, <2>3 DEF RunEventsInv
<1> QED
  BY <1>4, <1>5, <1>6 DEF Deliver

\* A handler that throws has been given the event, and the loop goes on.
LEMMA DeliverThrowsInv ==
  ASSUME RunEventsInv, DeliverThrows
  PROVE  RunEventsInv'
<1>1. TurnOf("other") /\ UNCHANGED <<vaultLog, lostLines, runningCost>>
  BY DEF DeliverThrows, TurnOf
<1>2. NumbersInv' /\ TrackerInv' /\ \A u \in Handlers : u # "other" => got'[u] = got[u]
  BY <1>1, TurnInv
<1>3. got'["vault"] = got["vault"] /\ got'["cli"] = got["cli"] /\ emitted' = emitted
  BY <1>1, <1>2 DEF Handlers, TurnOf
<1>4. LogInv' /\ RunningCostInv'
  BY <1>1, <1>3, LogKept, RunningCostKept DEF RunEventsInv
<1> QED
  BY <1>2, <1>4 DEF RunEventsInv

(***************************************************************************)
(* The theorems.                                                           *)
(***************************************************************************)
LEMMA RunEventsInvariant == RunEventsSpec => []RunEventsInv
<1>1. RunEventsInv /\ [RunEventsNext]_runEventsVars => RunEventsInv'
  <2> SUFFICES ASSUME RunEventsInv, [RunEventsNext]_runEventsVars PROVE RunEventsInv'
    OBVIOUS
  <2>1. ASSUME NEW m \in Messages, MapAndEmit(m) PROVE RunEventsInv'
    BY <2>1, MapAndEmitInv
  <2>2. ASSUME NEW e \in RunnerEvents, RunnerEmits(e) PROVE RunEventsInv'
    BY <2>2, RunnerEmitsInv
  <2>3. CASE EmitEvent
    BY <2>3, EmitEventInv
  <2>4. CASE CloseAll
    BY <2>4, CloseAllInv
  <2>6. CASE Deliver
    BY <2>6, DeliverInv
  <2>7. CASE DeliverThrows
    BY <2>7, DeliverThrowsInv
  <2>5. CASE UNCHANGED runEventsVars
    <3>1. UNCHANGED <<transports, pending, serving, emitted, due, got, vaultLog, lostLines,
                      runningCost, costTracker>>
      BY <2>5 DEF runEventsVars
    <3>2. NumbersInv' /\ LogInv' /\ RunningCostInv'
      BY <3>1, NothingEmitted DEF RunEventsInv, NumbersInv
    <3>3. TrackerInv'
      <4>1. \A s : LastCost(s)' = LastCost(s)
        BY <3>1 DEF LastCost
      <4> QED
        BY <3>1, <4>1, CostsKept DEF RunEventsInv
    <3> QED
      BY <3>2, <3>3 DEF RunEventsInv
  <2> QED
    BY <2>1, <2>2, <2>3, <2>4, <2>5, <2>6, <2>7 DEF RunEventsNext, Messages
<1> QED
  BY RunEventsInitInv, <1>1, PTL DEF RunEventsSpec

\* RunEventsTypeOK holds of every behaviour of the event stream.
THEOREM RunEventsTypeCorrect == RunEventsSpec => []RunEventsTypeOK
<1>1. RunEventsInv => RunEventsTypeOK
  <2> SUFFICES ASSUME RunEventsInv PROVE RunEventsTypeOK
    OBVIOUS
  <2>1. \A e \in ToSet(pending) \cup ToSet(emitted) : e \in EventRecord
    BY Elements DEF RunEventsInv, NumbersInv
  <2>2. got \in [Handlers -> Seq(Nat)] /\ due \in [Handlers -> Seq(Nat)]
    <3>1. Seq(1..Len(emitted)) \subseteq Seq(Nat) /\ Len(emitted) \in Nat
      BY SeqMonotonic, LenProperties DEF RunEventsInv, NumbersInv
    <3>2. got \in [Handlers -> Seq(Nat)]
      BY <3>1 DEF RunEventsInv, NumbersInv
    <3>3. \A t \in Handlers : got[t] \in Seq(Nat) /\ Append(got[t], Len(emitted)) \in Seq(Nat)
      BY <3>1, <3>2, AppendProperties
    <3>4. due = [t \in Handlers |-> IF t \in ToSet(serving) THEN Append(got[t], Len(emitted))
                                    ELSE got[t]]
      BY DEF RunEventsInv, NumbersInv
    <3> QED
      BY <3>2, <3>3, <3>4
  <2>3. vaultLog \in [slug : BOOLEAN, current : LogFiles, files : [LogFiles -> Seq(Nat)]]
    <3>1. Seq(1..Len(emitted)) \subseteq Seq(Nat)
      BY SeqMonotonic
    <3>2. vaultLog \in [slug : BOOLEAN, current : LogFiles, files : [LogFiles -> Seq(1..Len(emitted))]]
      BY DEF RunEventsInv, LogInv
    <3> QED
      BY <3>1, <3>2
  <2>6. lostLines \subseteq Nat
    <3>1. ToSet(got["vault"]) \subseteq Nat
      BY <2>2, Elements DEF Handlers
    <3> QED
      BY <3>1 DEF RunEventsInv, LogInv
  <2>4. runningCost \in Nat
        /\ costTracker \in [sessions : [SessionIds -> Nat], cumulative : Nat]
        /\ transports \in Seq(Handlers) /\ IsInjective(transports) /\ serving \in Seq(Handlers)
    BY DEF RunEventsInv, LogInv, RunningCostInv, TrackerInv, NumbersInv
  <2>5. \A e \in EventRecord :
          /\ e.type \in EventTypes /\ e.cost \in Nat
          /\ e.phase \in PhaseNumbers \cup {NoneOf} /\ e.session \in SessionIds \cup {NoneOf}
    BY DEF EventRecord
  <2> QED
    BY <2>1, <2>2, <2>3, <2>4, <2>5, <2>6 DEF RunEventsTypeOK
<1> QED
  BY RunEventsInvariant, <1>1, PTL

\* NoneIsSkipped: when the loop of emitEvent is over every transport has been
\* given every event of its time, whoever threw in it.  At each turn what is due
\* beyond what was given is the last event, for those the loop has still to serve.
THEOREM NoneAreSkipped == RunEventsSpec => []NoneIsSkipped
<1>1. RunEventsInv => NoneIsSkipped
  <2> SUFFICES ASSUME RunEventsInv, serving = <<>> PROVE \A t \in Handlers : got[t] = due[t]
    BY DEF NoneIsSkipped
  <2>1. ToSet(serving) = {}
    BY DEF ToSet
  <2> QED
    BY <2>1 DEF RunEventsInv, NumbersInv
<1> QED
  BY RunEventsInvariant, <1>1, PTL

\* LoggedInItsPhase: the lines of the vault's log (ObsidianTransport.onEvent) are
\* in the files of their phases and in the order of emission, for any phases.
THEOREM LogsArePhased == RunEventsSpec => []LoggedInItsPhase
<1>1. RunEventsInv => LoggedInItsPhase
  BY DEF RunEventsInv, LogInv
<1> QED
  BY RunEventsInvariant, <1>1, PTL

\* CostsAddUp: updateCost's cumulative cost is the sum of what the sessions
\* reported last, and the terminal's running cost that of the cost updates it
\* was given, for any number of sessions and any costs.
THEOREM CostsAreAddedUp == RunEventsSpec => []CostsAddUp
<1>1. RunEventsInv => CostsAddUp
  <2> SUFFICES ASSUME RunEventsInv PROVE CostsAddUp
    OBVIOUS
  <2> DEFINE last == [s \in SessionIds |-> LastCost(s)]
  <2>1. \A s \in SessionIds : last[s] = costTracker.sessions[s]
    BY DEF RunEventsInv, TrackerInv
  <2>2. costTracker.cumulative = SumOver(costTracker.sessions, SessionIds)
    BY DEF RunEventsInv, TrackerInv
  <2> HIDE DEF last
  <2>3. SumOver(last, SessionIds) = SumOver(costTracker.sessions, SessionIds)
    BY <2>1, SumOfEqual, RunEventsAssumption
  <2>4. costTracker.cumulative = SumOver(last, SessionIds)
    BY <2>2, <2>3
  <2> QED
    BY <2>4 DEF CostsAddUp, RunEventsInv, RunningCostInv, last
<1> QED
  BY RunEventsInvariant, <1>1, PTL

----------------------------------------------------------------------------
(***************************************************************************)
(* PlanParser: for documents of any depth and length.                      *)
(***************************************************************************)

(***************************************************************************)
(* The owners of the lines.                                                *)
(***************************************************************************)
Containers == {"open", "itemPair"}

LEMMA OwnerIs ==
  ASSUME NEW doc \in Seq(Lines), NEW i \in 1..Len(doc)
  PROVE  /\ Owner(doc, i) \in 0..(i - 1)
         /\ Owner(doc, i) # 0 => doc[Owner(doc, i)].indent < doc[i].indent
         /\ \A j \in 1..(i - 1) : doc[j].indent < doc[i].indent => j <= Owner(doc, i)
<1> DEFINE shallower == {j \in 1..(i - 1) : doc[j].indent < doc[i].indent}
<1>1. Len(doc) \in Nat /\ i - 1 \in Nat
  BY LenProperties
<1>2. Owner(doc, i) = IF shallower = {} THEN 0 ELSE Max(shallower)
  BY DEF Owner
<1>3. shallower \in SUBSET (1..(i - 1))
  OBVIOUS
<1>4. CASE shallower = {}
  <2>1. \A j \in 1..(i - 1) : ~(doc[j].indent < doc[i].indent)
    BY <1>4
  <2> QED
    BY <1>1, <1>2, <1>4, <2>1
<1>5. CASE shallower # {}
  <2>1. Max(shallower) \in shallower /\ \A j \in shallower : j <= Max(shallower)
    <3> HIDE DEF shallower
    <3> QED
      BY <1>1, <1>3, <1>5, GreatestOfSome
  <2>2. Owner(doc, i) \in shallower /\ \A j \in shallower : j <= Owner(doc, i)
    BY <1>2, <1>5, <2>1
  <2> QED
    BY <1>1, <2>2
<1> QED
  BY <1>4, <1>5

LEMMA OwnersStay ==
  ASSUME NEW doc \in Seq(Lines), NEW more \in Seq(Lines), NEW i \in 1..Len(doc),
         \A j \in 1..Len(doc) : more[j] = doc[j]
  PROVE  Owner(more, i) = Owner(doc, i)
<1>1. Len(doc) \in Nat
  BY LenProperties
<1>2. \A j \in 1..(i - 1) : more[j] = doc[j] /\ more[i] = doc[i]
  BY <1>1
<1>3. {j \in 1..(i - 1) : more[j].indent < more[i].indent} =
        {j \in 1..(i - 1) : doc[j].indent < doc[i].indent}
  BY <1>2
<1> QED
  BY <1>3 DEF Owner

LEMMA LinesOwned ==
  ASSUME NEW doc \in Seq(Lines), NEW more \in Seq(Lines), NEW k, NEW i,
         Len(more) = Len(doc) + 1, \A j \in 1..Len(doc) : more[j] = doc[j]
  PROVE  i \in Owned(more, k) <=> i \in Owned(doc, k) \/ (i = Len(more) /\ k = Owner(more, i))
<1>1. Len(doc) \in Nat
  BY LenProperties
<1>2. \A j \in 1..Len(doc) : Owner(more, j) = Owner(doc, j)
  BY OwnersStay
<1>3. \A j : j \in 1..Len(more) <=> j \in 1..Len(doc) \/ j = Len(more)
  BY <1>1
<1>4. Len(more) \notin 1..Len(doc)
  BY <1>1
<1> QED
  BY <1>2, <1>3, <1>4 DEF Owned

\* Each line fits where it stands.
LinesFit(doc) ==
  \A i \in 1..Len(doc) :
    LET o == Owner(doc, i) IN
      /\ o = 0 => doc[i].form \notin Items
      /\ o # 0 => doc[o].form \in Containers
      /\ o # 0 /\ doc[o].form = "itemPair" => doc[i].form \notin Items
      /\ \A j \in 1..Len(doc) : Owner(doc, j) = o => (doc[j].form \in Items <=> doc[i].form \in Items)

LEMMA LinesStillFit ==
  ASSUME NEW doc \in Seq(Lines), NEW more \in Seq(Lines), NEW n,
         n = Len(doc) + 1, Len(more) = n, \A j \in 1..Len(doc) : more[j] = doc[j],
         LinesFit(doc), Fits(more)
  PROVE  LinesFit(more)
<1>1. Len(doc) \in Nat /\ n \in 1..Len(more) /\ \A i \in 1..Len(more) : i \in 1..Len(doc) \/ i = n
  BY LenProperties
<1>2. \A i \in 1..Len(doc) : Owner(more, i) = Owner(doc, i) /\ i \in 1..Len(more) /\ i # n
  BY <1>1, OwnersStay
<1>3. \A i \in 1..Len(more) : Owner(more, i) \in 0..(i - 1)
  BY OwnerIs
<1> DEFINE o == Owner(more, n)
<1>4. /\ o = 0 => more[n].form \notin Items
      /\ o # 0 => more[o].form \in Containers
      /\ o # 0 /\ more[o].form = "itemPair" => more[n].form \notin Items
  BY DEF Fits, Containers
<1>5. \A j \in 1..Len(doc) : Owner(more, j) = o => (more[j].form \in Items <=> more[n].form \in Items)
  <2> SUFFICES ASSUME NEW j \in 1..Len(doc), Owner(more, j) = o
               PROVE  more[j].form \in Items <=> more[n].form \in Items
    OBVIOUS
  <2>1. j \in Owned(more, o) \ {Len(more)}
    BY <1>1, <1>2 DEF Owned
  <2> QED
    BY <2>1 DEF Fits
<1> HIDE DEF o
<1>6. ASSUME NEW i \in 1..Len(doc)
      PROVE  LET p == Owner(doc, i) IN
               /\ p = 0 => more[i].form \notin Items
               /\ p # 0 => more[p].form \in Containers
               /\ p # 0 /\ more[p].form = "itemPair" => more[i].form \notin Items
               /\ \A j \in 1..Len(doc) : Owner(doc, j) = p =>
                    (more[j].form \in Items <=> more[i].form \in Items)
  <2>1. Owner(doc, i) \in 0..(i - 1)
    BY OwnerIs
  <2>2. Owner(doc, i) # 0 => Owner(doc, i) \in 1..Len(doc)
    BY <1>1, <2>1
  <2>3. Owner(doc, i) # 0 => more[Owner(doc, i)] = doc[Owner(doc, i)]
    BY <2>2
  <2> QED
    BY <2>3 DEF LinesFit
<1>7. ASSUME NEW i \in 1..Len(more)
      PROVE  LET p == Owner(more, i) IN
               /\ p = 0 => more[i].form \notin Items
               /\ p # 0 => more[p].form \in Containers
               /\ p # 0 /\ more[p].form = "itemPair" => more[i].form \notin Items
               /\ \A j \in 1..Len(more) : Owner(more, j) = p =>
                    (more[j].form \in Items <=> more[i].form \in Items)
  <2>1. CASE i = n
    <3>1. \A j \in 1..Len(more) : Owner(more, j) = o => (more[j].form \in Items <=> more[n].form \in Items)
      BY <1>1, <1>5
    <3> QED
      BY <1>4, <2>1, <3>1 DEF o
  <2>2. CASE i \in 1..Len(doc)
    <3>1. \A j \in 1..Len(more) : Owner(more, j) = Owner(more, i) =>
            (more[j].form \in Items <=> more[i].form \in Items)
      <4>1. \A j \in 1..Len(doc) : Owner(more, j) = Owner(more, i) =>
              (more[j].form \in Items <=> more[i].form \in Items)
        BY <1>2, <1>6, <2>2
      <4>2. Owner(more, n) = Owner(more, i) => (more[n].form \in Items <=> more[i].form \in Items)
        BY <1>5, <2>2 DEF o
      <4> QED
        BY <1>1, <4>1, <4>2
    <3> QED
      BY <1>2, <1>6, <2>2, <3>1
  <2> QED
    BY <1>1, <2>1, <2>2
<1> QED
  BY <1>7 DEF LinesFit

(***************************************************************************)
(* The invariant.                                                          *)
(***************************************************************************)
\* What is open: each object in the one it belongs to, and every line that opens
\* one and that only deeper lines follow.
StackInv ==
  /\ parserStack \in Seq([node : 0..Len(docLines), indent : 0..MaxIndent])
  /\ Len(parserStack) >= 1 /\ parserStack[1].node = 0
  /\ \A i \in 2..Len(parserStack) :
       LET node == parserStack[i].node IN
         /\ node # 0 /\ parserStack[i].indent = docLines[node].indent
         /\ docLines[node].form \in Containers
         /\ parserStack[i - 1].node = Owner(docLines, node)
  /\ \A i, j \in 2..Len(parserStack) : i < j => parserStack[i].node < parserStack[j].node
  /\ \A j \in 1..Len(docLines) :
       /\ docLines[j].form \in Containers
       /\ \A k \in (j + 1)..Len(docLines) : docLines[j].indent < docLines[k].indent
       => \E i \in 2..Len(parserStack) : parserStack[i].node = j

MembersInv ==
  /\ members \in [0..MaxLines -> Seq(1..Len(docLines))]
  /\ \A n \in 0..MaxLines : ToSet(members[n]) = Owned(docLines, n) /\ InOrder(members[n])

HoldsItems(doc, n) == \E i \in Owned(doc, n) : doc[i].form \in Items
ArraysInv == arrays = {n \in 1..Len(docLines) : HoldsItems(docLines, n)}

PlanParserInv ==
  /\ docLines \in Seq(Lines) /\ Len(docLines) <= MaxLines
  /\ LinesFit(docLines)
  /\ StackInv /\ MembersInv /\ ArraysInv

LEMMA PoppedIs ==
  ASSUME PlanParserInv, NEW indent \in 0..MaxIndent
  PROVE  \E m \in 1..Len(parserStack) :
           /\ Popped(indent) = SubSeq(parserStack, 1, m)
           /\ Len(Popped(indent)) = m
           /\ \A i \in 1..m : Popped(indent)[i] = parserStack[i]
           /\ Last(Popped(indent)) = parserStack[m]
           /\ m # 1 => parserStack[m].indent < indent
           /\ \A i \in 2..Len(parserStack) : parserStack[i].indent < indent => i <= m
<1> DEFINE open == {1} \cup {i \in 2..Len(parserStack) : parserStack[i].indent < indent}
           m == Max(open)
<1>1. /\ parserStack \in Seq([node : 0..Len(docLines), indent : 0..MaxIndent])
      /\ Len(parserStack) \in Nat \ {0}
  BY LenProperties DEF PlanParserInv, StackInv
<1>2. open \in SUBSET (1..Len(parserStack)) /\ open # {}
  BY <1>1
<1>3. m \in open /\ \A i \in open : i <= m
  <2> HIDE DEF open
  <2> QED
    BY <1>1, <1>2, GreatestOfSome
<1>4. Popped(indent) = SubSeq(parserStack, 1, m)
  BY DEF Popped
<1>5. m \in 1..Len(parserStack)
  BY <1>2, <1>3
<1>6. m # 1 => parserStack[m].indent < indent
  BY <1>3
<1>7. \A i \in 2..Len(parserStack) : parserStack[i].indent < indent => i <= m
  BY <1>3
<1> HIDE DEF open, m
<1>8. /\ Len(SubSeq(parserStack, 1, m)) = m
      /\ \A i \in 1..m : SubSeq(parserStack, 1, m)[i] = parserStack[i]
  BY <1>1, <1>5, SubSeqProperties
<1>9. Last(SubSeq(parserStack, 1, m)) = parserStack[m]
  BY <1>5, <1>8 DEF Last
<1> QED
  BY <1>4, <1>5, <1>6, <1>7, <1>8, <1>9

\* The document with one more line.
LEMMA OneLineMore ==
  ASSUME PlanParserInv, NEW l \in Lines, Len(docLines) < MaxLines,
         docLines' = Append(docLines, l), Fits(docLines')
  PROVE  /\ docLines' \in Seq(Lines) /\ Len(docLines) \in Nat
         /\ Len(docLines') = Len(docLines) + 1 /\ Len(docLines') <= MaxLines
         /\ docLines'[Len(docLines')] = l
         /\ \A j \in 1..Len(docLines) : docLines'[j] = docLines[j]
         /\ \A j \in 1..Len(docLines) : Owner(docLines', j) = Owner(docLines, j)
         /\ LinesFit(docLines')
<1>1. docLines \in Seq(Lines) /\ Len(docLines) \in Nat /\ LinesFit(docLines)
  BY LenProperties DEF PlanParserInv
<1>2. /\ docLines' \in Seq(Lines) /\ Len(docLines') = Len(docLines) + 1
      /\ docLines'[Len(docLines')] = l
      /\ \A j \in 1..Len(docLines) : docLines'[j] = docLines[j]
  BY <1>1, AppendedTo, Elements
<1>3. Len(docLines') <= MaxLines
  BY <1>1, <1>2, PlanParserAssumption
<1>4. \A j \in 1..Len(docLines) : Owner(docLines', j) = Owner(docLines, j)
  BY <1>1, <1>2, OwnersStay
<1>5. LinesFit(docLines')
  <2>1. ASSUME NEW more, more = docLines' PROVE LinesFit(more)
    BY <1>1, <1>2, <2>1, LinesStillFit
  <2> QED
    BY <2>1
<1> QED
  BY <1>1, <1>2, <1>3, <1>4, <1>5

\* The top of what is left of the stack is the owner of the new line.
LEMMA TopIsOwner ==
  ASSUME PlanParserInv, NEW l \in Lines, Len(docLines) < MaxLines,
         docLines' = Append(docLines, l), Fits(docLines')
  PROVE  \E m \in 1..Len(parserStack) :
           /\ Len(Popped(l.indent)) = m
           /\ \A i \in 1..m : Popped(l.indent)[i] = parserStack[i]
           /\ Last(Popped(l.indent)) = parserStack[m]
           /\ Popped(l.indent) \in Seq([node : 0..Len(docLines), indent : 0..MaxIndent])
           /\ parserStack[m].node = Owner(docLines', Len(docLines'))
           /\ m = 1 <=> Owner(docLines', Len(docLines')) = 0
           /\ \A i \in 2..Len(parserStack) : parserStack[i].indent < l.indent => i <= m
<1> DEFINE n == Len(docLines')
           o == Owner(docLines', n)
<1>0. l.indent \in 0..MaxIndent
  BY DEF Lines
<1>1. PICK m \in 1..Len(parserStack) :
        /\ Popped(l.indent) = SubSeq(parserStack, 1, m)
        /\ Len(Popped(l.indent)) = m
        /\ \A i \in 1..m : Popped(l.indent)[i] = parserStack[i]
        /\ Last(Popped(l.indent)) = parserStack[m]
        /\ m # 1 => parserStack[m].indent < l.indent
        /\ \A i \in 2..Len(parserStack) : parserStack[i].indent < l.indent => i <= m
  BY <1>0, PoppedIs
<1>2. /\ docLines' \in Seq(Lines) /\ Len(docLines) \in Nat /\ n = Len(docLines) + 1
      /\ docLines'[n] = l
      /\ \A j \in 1..Len(docLines) : docLines'[j] = docLines[j]
      /\ LinesFit(docLines')
  BY OneLineMore
<1>3. /\ parserStack \in Seq([node : 0..Len(docLines), indent : 0..MaxIndent])
      /\ Len(parserStack) \in Nat \ {0} /\ parserStack[1].node = 0
      /\ \A i \in 1..Len(parserStack) : parserStack[i].node \in 0..Len(docLines)
                                        /\ parserStack[i].indent \in 0..MaxIndent
      /\ \A i \in 2..Len(parserStack) :
           /\ parserStack[i].node # 0
           /\ parserStack[i].indent = docLines[parserStack[i].node].indent
      /\ \A i, j \in 2..Len(parserStack) : i < j => parserStack[i].node < parserStack[j].node
  <2>1. parserStack \in Seq([node : 0..Len(docLines), indent : 0..MaxIndent])
    BY DEF PlanParserInv, StackInv
  <2>2. \A i \in 1..Len(parserStack) : parserStack[i] \in [node : 0..Len(docLines), indent : 0..MaxIndent]
    <3> DEFINE T == [node : 0..Len(docLines), indent : 0..MaxIndent]
    <3>1. parserStack \in Seq(T)
      BY <2>1
    <3> HIDE DEF T
    <3>2. \A i \in 1..Len(parserStack) : parserStack[i] \in T
      BY <3>1, Elements
    <3> QED
      BY <3>2 DEF T
  <2>3. Len(parserStack) \in Nat \ {0} /\ parserStack[1].node = 0
    BY <2>1, LenProperties DEF PlanParserInv, StackInv
  <2> QED
    BY <2>1, <2>2, <2>3 DEF PlanParserInv, StackInv
<1>4. /\ o \in 0..Len(docLines)
      /\ o # 0 => docLines[o].indent < l.indent
      /\ \A j \in 1..Len(docLines) : docLines[j].indent < l.indent => j <= o
  <2>1. /\ o \in 0..(n - 1)
        /\ o # 0 => docLines'[o].indent < docLines'[n].indent
        /\ \A j \in 1..(n - 1) : docLines'[j].indent < docLines'[n].indent => j <= o
    <3>1. n \in 1..Len(docLines')
      BY <1>2
    <3> QED
      BY <1>2, <3>1, OwnerIs
  <2>2. n - 1 = Len(docLines)
    BY <1>2
  <2> HIDE DEF n, o
  <2>3. o # 0 => o \in 1..Len(docLines)
    BY <1>2, <2>1, <2>2
  <2> QED
    BY <1>2, <2>1, <2>2, <2>3
<1> HIDE DEF n, o
<1>10. m = 1 => parserStack[m].node = 0
  BY <1>3
<1>11. m # 1 => /\ m \in 2..Len(parserStack) /\ parserStack[m].node \in 1..Len(docLines)
                /\ docLines[parserStack[m].node].indent < l.indent
  <2> SUFFICES ASSUME m # 1
               PROVE  /\ m \in 2..Len(parserStack) /\ parserStack[m].node \in 1..Len(docLines)
                      /\ docLines[parserStack[m].node].indent < l.indent
    OBVIOUS
  <2>1. m \in 2..Len(parserStack)
    <3>1. Len(parserStack) \in Nat
      BY <1>3
    <3> QED
      BY <3>1
  <2>2. parserStack[m].node \in 0..Len(docLines) /\ parserStack[m].node # 0
    BY <1>3, <2>1
  <2>3. parserStack[m].node \in 1..Len(docLines)
    BY <1>2, <2>2
  <2>4. docLines[parserStack[m].node].indent < l.indent
    BY <1>1, <1>3, <2>1
  <2> QED
    BY <2>1, <2>3, <2>4
<1>5. ASSUME o = 0 PROVE m = 1 /\ parserStack[m].node = o
  <2>1. m = 1
    <3>1. SUFFICES ASSUME m # 1 PROVE FALSE
      OBVIOUS
    <3>2. parserStack[m].node \in 1..Len(docLines) /\ parserStack[m].node <= o
      BY <1>4, <1>11, <3>1
    <3> QED
      BY <1>2, <1>5, <3>2
  <2> QED
    BY <1>5, <1>10, <2>1
<1>6. ASSUME o # 0 PROVE m # 1 /\ parserStack[m].node = o
  <2>1. o \in 1..Len(docLines)
    BY <1>2, <1>4, <1>6
  <2>2. docLines[o].form \in Containers
    <3>1. docLines'[o].form \in Containers
      <4>1. n \in 1..Len(docLines')
        BY <1>2 DEF n
      <4> QED
        BY <1>2, <1>6, <4>1 DEF LinesFit, o
    <3> QED
      BY <1>2, <2>1, <3>1
  <2>3. \A k \in (o + 1)..Len(docLines) : docLines[o].indent < docLines[k].indent
    <3> SUFFICES ASSUME NEW k \in (o + 1)..Len(docLines), ~(docLines[o].indent < docLines[k].indent)
                 PROVE  FALSE
      OBVIOUS
    <3>1. k \in 1..Len(docLines) /\ o < k
      BY <1>2, <2>1
    <3>2. docLines[k] \in Lines /\ docLines[o] \in Lines
      BY <2>1, <3>1, Elements DEF PlanParserInv
    <3>3. docLines[k].indent \in Nat /\ docLines[o].indent \in Nat /\ l.indent \in Nat
      BY <3>2, PlanParserAssumption DEF Lines
    <3>4. docLines[k].indent < l.indent
      BY <1>4, <1>6, <3>3
    <3> QED
      BY <1>2, <1>4, <2>1, <3>1, <3>4
  <2>4. PICK i \in 2..Len(parserStack) : parserStack[i].node = o
    BY <2>1, <2>2, <2>3 DEF PlanParserInv, StackInv
  <2>5. i <= m /\ m \in 2..Len(parserStack)
    <3>1. parserStack[i].indent < l.indent
      BY <1>3, <1>4, <1>6, <2>4
    <3>2. i <= m
      BY <1>1, <3>1
    <3> QED
      BY <1>3, <3>2
  <2>6. parserStack[m].node \in 1..Len(docLines) /\ parserStack[m].node <= o /\ m # 1
    <3>1. m # 1
      BY <2>5
    <3> QED
      BY <1>4, <1>11, <3>1
  <2>7. i = m \/ parserStack[i].node < parserStack[m].node
    <3>1. i = m \/ i < m
      BY <2>5
    <3> QED
      BY <1>3, <2>5, <3>1
  <2>8. parserStack[m].node = o
    <3>1. \A a, b \in Int : a <= b => ~(b < a)
      OBVIOUS
    <3>2. o \in Int /\ parserStack[m].node \in Int
      BY <1>2, <2>1, <2>6
    <3> QED
      BY <2>4, <2>6, <2>7, <3>1, <3>2
  <2> QED
    BY <1>6, <2>6, <2>8
<1>7. (m = 1 <=> o = 0) /\ parserStack[m].node = o
  <2>1. CASE o = 0
    BY <1>5, <2>1
  <2>2. CASE o # 0
    BY <1>6, <2>2
  <2> QED
    BY <2>1, <2>2
<1>8. Popped(l.indent) \in Seq([node : 0..Len(docLines), indent : 0..MaxIndent])
  <2>1. SubSeq(parserStack, 1, m) \in Seq([node : 0..Len(docLines), indent : 0..MaxIndent])
    <3> DEFINE T == [node : 0..Len(docLines), indent : 0..MaxIndent]
    <3>1. parserStack \in Seq(T)
      BY <1>3
    <3> HIDE DEF T
    <3>2. SubSeq(parserStack, 1, m) \in Seq(T)
      BY <1>3, <3>1, SubSeqProperties
    <3> QED
      BY <3>2 DEF T
  <2> QED
    BY <1>1, <2>1
<1> QED
  BY <1>1, <1>7, <1>8 DEF n, o

LEMMA StackStep ==
  ASSUME PlanParserInv, NEW l \in Lines, Len(docLines) < MaxLines,
         docLines' = Append(docLines, l), Fits(docLines'),
         parserStack' = IF l.form \in Containers
                        THEN Push(Popped(l.indent), Len(docLines'), l.indent)
                        ELSE Popped(l.indent)
  PROVE  StackInv'
<1> DEFINE n == Len(docLines')
           stack == Popped(l.indent)
           T == [node : 0..n, indent : 0..MaxIndent]
<1>1. PICK m \in 1..Len(parserStack) :
        /\ Len(stack) = m
        /\ \A i \in 1..m : stack[i] = parserStack[i]
        /\ Last(stack) = parserStack[m]
        /\ stack \in Seq([node : 0..Len(docLines), indent : 0..MaxIndent])
        /\ parserStack[m].node = Owner(docLines', n)
        /\ m = 1 <=> Owner(docLines', n) = 0
        /\ \A i \in 2..Len(parserStack) : parserStack[i].indent < l.indent => i <= m
  BY TopIsOwner
<1>2. /\ docLines' \in Seq(Lines) /\ Len(docLines) \in Nat /\ n = Len(docLines) + 1
      /\ docLines'[n] = l
      /\ \A j \in 1..Len(docLines) : docLines'[j] = docLines[j]
      /\ \A j \in 1..Len(docLines) : Owner(docLines', j) = Owner(docLines, j)
  BY OneLineMore
<1>3. l.indent \in 0..MaxIndent
  BY DEF Lines
<1>4. m \in Nat /\ m >= 1 /\ m <= Len(parserStack) /\ Len(parserStack) \in Nat
  BY LenProperties DEF PlanParserInv, StackInv
<1>5. stack \in Seq(T)
  <2>1. [node : 0..Len(docLines), indent : 0..MaxIndent] \subseteq T
    BY <1>2
  <2> HIDE DEF T, stack
  <2> QED
    BY <1>1, <2>1, SeqMonotonic
<1> DEFINE new == [node |-> n, indent |-> l.indent]
<1>6. new \in T
  BY <1>2, <1>3
<1>7. parserStack' = IF l.form \in Containers THEN Append(stack, new) ELSE stack
  BY DEF Push
<1> HIDE DEF n, stack, T, new
<1>8. /\ parserStack' \in Seq(T)
      /\ Len(parserStack') = IF l.form \in Containers THEN m + 1 ELSE m
      /\ \A i \in 1..m : parserStack'[i] = parserStack[i]
      /\ l.form \in Containers => parserStack'[m + 1] = new
  <2>1. /\ Append(stack, new) \in Seq(T) /\ Len(Append(stack, new)) = m + 1
        /\ Append(stack, new)[m + 1] = new
        /\ \A i \in 1..m : Append(stack, new)[i] = stack[i]
    <3>1. DOMAIN stack = 1..m
      BY <1>1, <1>5, Elements
    <3> QED
      BY <1>1, <1>5, <1>6, <3>1, AppendedTo
  <2>2. CASE l.form \in Containers
    BY <1>1, <1>7, <2>1, <2>2
  <2>3. CASE l.form \notin Containers
    BY <1>1, <1>5, <1>7, <2>3
  <2> QED
    BY <2>2, <2>3
<1>9. /\ parserStack[1].node = 0
      /\ \A i \in 2..Len(parserStack) :
           /\ parserStack[i].node # 0
           /\ parserStack[i].indent = docLines[parserStack[i].node].indent
           /\ docLines[parserStack[i].node].form \in Containers
           /\ parserStack[i - 1].node = Owner(docLines, parserStack[i].node)
      /\ \A i, j \in 2..Len(parserStack) : i < j => parserStack[i].node < parserStack[j].node
  BY DEF PlanParserInv, StackInv
<1>10. \A i \in 2..m : i \in 2..Len(parserStack) /\ i \in 1..m /\ i - 1 \in 1..m
  BY <1>4
<1>11. \A i \in 2..Len(parserStack) : parserStack[i].node \in 1..Len(docLines)
  <2> SUFFICES ASSUME NEW i \in 2..Len(parserStack)
               PROVE  parserStack[i].node \in 1..Len(docLines)
    OBVIOUS
  <2> DEFINE U == [node : 0..Len(docLines), indent : 0..MaxIndent]
  <2>1. parserStack \in Seq(U)
    BY DEF PlanParserInv, StackInv
  <2>2. i \in DOMAIN parserStack
    BY <1>4, <2>1, LenProperties
  <2>3. parserStack[i] \in U
    <3> HIDE DEF U
    <3> QED
      BY <2>1, <2>2, Elements
  <2>4. parserStack[i].node \in 0..Len(docLines)
    BY <2>3
  <2> QED
    BY <1>2, <1>9, <2>4
<1>12. ASSUME NEW i \in 2..Len(parserStack')
       PROVE  LET node == parserStack'[i].node IN
                /\ node # 0 /\ parserStack'[i].indent = docLines'[node].indent
                /\ docLines'[node].form \in Containers
                /\ parserStack'[i - 1].node = Owner(docLines', node)
  <2>1. CASE i \in 2..m
    <3> DEFINE node == parserStack[i].node
    <3>1. i \in 2..Len(parserStack) /\ i \in 1..m /\ i - 1 \in 1..m
      BY <1>10, <2>1
    <3>2. node \in 1..Len(docLines)
      BY <1>11, <3>1
    <3>3. parserStack'[i] = parserStack[i] /\ parserStack'[i - 1] = parserStack[i - 1]
      BY <1>8, <3>1
    <3>4. /\ node # 0 /\ parserStack[i].indent = docLines[node].indent
          /\ docLines[node].form \in Containers
          /\ parserStack[i - 1].node = Owner(docLines, node)
      BY <1>9, <3>1
    <3>5. docLines'[node] = docLines[node] /\ Owner(docLines', node) = Owner(docLines, node)
      BY <1>2, <3>2
    <3> QED
      BY <3>3, <3>4, <3>5
  <2>2. CASE i \notin 2..m
    <3>1. l.form \in Containers /\ i = m + 1
      BY <1>4, <1>8, <2>2
    <3>2. parserStack'[i] = new /\ parserStack'[i - 1] = parserStack[m]
      <4>1. m \in 1..m /\ (m + 1) - 1 = m
        BY <1>4
      <4> QED
        BY <1>8, <3>1, <4>1
    <3>3. n # 0
      BY <1>2
    <3> QED
      BY <1>1, <1>2, <3>1, <3>2, <3>3 DEF new
  <2> QED
    BY <2>1, <2>2
<1>13. ASSUME NEW i \in 2..Len(parserStack'), NEW j \in 2..Len(parserStack'), i < j
       PROVE  parserStack'[i].node < parserStack'[j].node
  <2>1. i \in 2..m
    BY <1>4, <1>8, <1>13
  <2>2. CASE j \in 2..m
    <3>1. /\ parserStack'[i] = parserStack[i] /\ parserStack'[j] = parserStack[j]
          /\ i \in 2..Len(parserStack) /\ j \in 2..Len(parserStack)
      BY <1>8, <1>10, <2>1, <2>2
    <3> QED
      BY <1>9, <1>13, <3>1
  <2>3. CASE j \notin 2..m
    <3>1. l.form \in Containers /\ j = m + 1
      BY <1>4, <1>8, <2>3
    <3>2. parserStack'[j].node = n
      BY <1>8, <3>1 DEF new
    <3>3. parserStack'[i] = parserStack[i] /\ parserStack[i].node \in 1..Len(docLines)
      BY <1>8, <1>10, <1>11, <2>1
    <3> QED
      BY <1>2, <3>2, <3>3
  <2> QED
    BY <2>2, <2>3
<1>14. ASSUME NEW j \in 1..n, docLines'[j].form \in Containers,
              \A k \in (j + 1)..n : docLines'[j].indent < docLines'[k].indent
       PROVE  \E i \in 2..Len(parserStack') : parserStack'[i].node = j
  <2>1. CASE j = n
    <3>1. l.form \in Containers
      BY <1>2, <1>14, <2>1
    <3>2. m + 1 \in 2..Len(parserStack') /\ parserStack'[m + 1].node = j
      BY <1>4, <1>8, <2>1, <3>1 DEF new
    <3> QED
      BY <3>2
  <2>2. CASE j # n
    <3>1. j \in 1..Len(docLines)
      BY <1>2, <2>2
    <3>2. docLines'[j] = docLines[j]
      BY <1>2, <3>1
    <3>3. \A k \in (j + 1)..Len(docLines) : docLines[j].indent < docLines[k].indent
      <4> SUFFICES ASSUME NEW k \in (j + 1)..Len(docLines)
                   PROVE  docLines[j].indent < docLines[k].indent
        OBVIOUS
      <4>1. k \in (j + 1)..n /\ k \in 1..Len(docLines)
        BY <1>2, <3>1
      <4> QED
        BY <1>2, <1>14, <3>2, <4>1
    <3>4. PICK i \in 2..Len(parserStack) : parserStack[i].node = j
      BY <1>14, <3>1, <3>2, <3>3 DEF PlanParserInv, StackInv
    <3>5. n \in (j + 1)..n
      BY <1>2, <3>1
    <3>6. docLines[j].indent < l.indent
      BY <1>2, <1>14, <3>2, <3>5
    <3>7. i <= m
      BY <1>1, <1>9, <3>4, <3>6
    <3>8. i \in 1..m /\ i \in 2..Len(parserStack')
      BY <1>4, <1>8, <3>7
    <3> QED
      BY <1>8, <3>4, <3>8
  <2> QED
    BY <2>1, <2>2
<1>15. /\ parserStack' \in Seq([node : 0..Len(docLines'), indent : 0..MaxIndent])
       /\ Len(parserStack') >= 1 /\ parserStack'[1].node = 0
  <2>1. 1 \in 1..m
    BY <1>4
  <2>2. parserStack'[1].node = 0
    BY <1>8, <1>9, <2>1
  <2>3. Len(parserStack') >= 1
    BY <1>4, <1>8
  <2> QED
    BY <1>8, <2>2, <2>3 DEF T, n
<1> QED
  BY <1>12, <1>13, <1>14, <1>15 DEF StackInv, n

LEMMA MembersStep ==
  ASSUME PlanParserInv, NEW l \in Lines, Len(docLines) < MaxLines,
         docLines' = Append(docLines, l), Fits(docLines'),
         members' = Put(Owner(docLines', Len(docLines')), Len(docLines'))
  PROVE  MembersInv'
<1> DEFINE n == Len(docLines')
           o == Owner(docLines', n)
<1>1. /\ docLines' \in Seq(Lines) /\ docLines \in Seq(Lines) /\ Len(docLines) \in Nat
      /\ n = Len(docLines) + 1 /\ n <= MaxLines
      /\ \A j \in 1..Len(docLines) : docLines'[j] = docLines[j]
  BY OneLineMore DEF PlanParserInv
<1>2. o \in 0..MaxLines
  <2>1. n \in 1..Len(docLines')
    BY <1>1
  <2>2. o \in 0..(n - 1)
    BY <1>1, <2>1, OwnerIs
  <2> QED
    BY <1>1, <2>2, PlanParserAssumption
<1>3. \A k : Owned(docLines', k) = IF k = o THEN Owned(docLines, k) \cup {n} ELSE Owned(docLines, k)
  <2> SUFFICES ASSUME NEW k
               PROVE  Owned(docLines', k) = IF k = o THEN Owned(docLines, k) \cup {n}
                                            ELSE Owned(docLines, k)
    OBVIOUS
  <2>1. \A i : i \in Owned(docLines', k) <=>
                i \in Owned(docLines, k) \/ (i = n /\ k = Owner(docLines', i))
    BY <1>1, LinesOwned
  <2> HIDE DEF n
  <2> QED
    BY <2>1
<1>4. members' = [members EXCEPT ![o] = Append(@, n)]
  BY DEF Put
<1>5. members \in [0..MaxLines -> Seq(1..Len(docLines))]
  BY DEF PlanParserInv, MembersInv
<1> HIDE DEF o
<1>6. ASSUME NEW k \in 0..MaxLines
      PROVE  /\ members'[k] \in Seq(1..n) /\ InOrder(members'[k])
             /\ ToSet(members'[k]) = Owned(docLines', k)
  <2>1. members[k] \in Seq(1..Len(docLines))
    BY <1>5
  <2>2. Increasing(members[k]) /\ ToSet(members[k]) = Owned(docLines, k)
    BY DEF PlanParserInv, MembersInv, InOrder, Increasing
  <2>3. /\ Append(members[k], n) \in Seq(1..n) /\ Increasing(Append(members[k], n))
        /\ ToSet(Append(members[k], n)) = ToSet(members[k]) \cup {n}
        /\ members[k] \in Seq(1..n)
    BY <1>1, <2>1, <2>2, IncreasingMore, FewNumbers
  <2>4. members'[k] = IF k = o THEN Append(members[k], n) ELSE members[k]
    BY <1>4, <1>5
  <2>5. Increasing(members'[k]) /\ members'[k] \in Seq(1..n)
        /\ ToSet(members'[k]) = Owned(docLines', k)
    BY <1>3, <2>2, <2>3, <2>4
  <2> QED
    BY <2>5 DEF InOrder, Increasing
<1>7. members' \in [0..MaxLines -> Seq(1..Len(docLines'))]
  BY <1>4, <1>5, <1>6
<1> QED
  BY <1>6, <1>7 DEF MembersInv

LEMMA ItemsStep ==
  ASSUME PlanParserInv, NEW l \in Lines, Len(docLines) < MaxLines,
         docLines' = Append(docLines, l), Fits(docLines'), NEW k
  PROVE  HoldsItems(docLines', k) <=>
           HoldsItems(docLines, k) \/ (l.form \in Items /\ k = Owner(docLines', Len(docLines')))
<1> DEFINE n == Len(docLines')
           o == Owner(docLines', n)
<1>1. /\ docLines' \in Seq(Lines) /\ docLines \in Seq(Lines) /\ Len(docLines) \in Nat
      /\ n = Len(docLines) + 1 /\ docLines'[n] = l
      /\ \A j \in 1..Len(docLines) : docLines'[j] = docLines[j]
  BY OneLineMore DEF PlanParserInv
<1>2. Owned(docLines', k) = IF k = o THEN Owned(docLines, k) \cup {n} ELSE Owned(docLines, k)
  <2>1. \A i : i \in Owned(docLines', k) <=>
                i \in Owned(docLines, k) \/ (i = n /\ k = Owner(docLines', i))
    BY <1>1, LinesOwned
  <2> HIDE DEF n
  <2> QED
    BY <2>1
<1>3. \A i \in Owned(docLines, k) : docLines'[i] = docLines[i]
  BY <1>1 DEF Owned
<1> HIDE DEF n, o
<1> QED
  BY <1>1, <1>2, <1>3 DEF HoldsItems, n, o

LEMMA ReadPairInv ==
  ASSUME PlanParserInv, NEW l \in Lines, Len(docLines) < MaxLines,
         docLines' = Append(docLines, l), Fits(docLines'),
         l.form \notin Items, ReadPair(l, Len(docLines'))
  PROVE  StackInv' /\ MembersInv' /\ ArraysInv'
<1> DEFINE n == Len(docLines')
           stack == Popped(l.indent)
<1>1. /\ members' = Put(Last(stack).node, n) /\ arrays' = arrays
      /\ parserStack' = IF l.form = "open" THEN Push(stack, n, l.indent) ELSE stack
  BY DEF ReadPair
<1>2. l.form = "open" <=> l.form \in Containers
  BY DEF Items, Containers
<1>3. Last(stack).node = Owner(docLines', n)
  BY TopIsOwner
<1>4. StackInv'
  <2>1. parserStack' = IF l.form \in Containers THEN Push(stack, n, l.indent) ELSE stack
    BY <1>1, <1>2
  <2> QED
    BY <2>1, StackStep
<1>5. MembersInv'
  <2>1. members' = Put(Owner(docLines', n), n)
    BY <1>1, <1>3
  <2> QED
    BY <2>1, MembersStep
<1>6. ArraysInv'
  <2>1. \A k : HoldsItems(docLines', k) <=> HoldsItems(docLines, k)
    BY ItemsStep
  <2>2. ~HoldsItems(docLines, n) /\ n = Len(docLines) + 1 /\ Len(docLines) \in Nat
    <3>1. docLines \in Seq(Lines) /\ n = Len(docLines) + 1 /\ Len(docLines) \in Nat
      BY OneLineMore DEF PlanParserInv
    <3>2. \A i \in 1..Len(docLines) : Owner(docLines, i) \in 0..(i - 1)
      BY <3>1, OwnerIs
    <3>3. \A i \in 1..Len(docLines) : Owner(docLines, i) # n
      BY <3>1, <3>2
    <3> QED
      BY <3>1, <3>3 DEF HoldsItems, Owned
  <2>3. arrays = {k \in 1..Len(docLines) : HoldsItems(docLines, k)}
    BY DEF PlanParserInv, ArraysInv
  <2> HIDE DEF n
  <2>4. \A k : k \in 1..n <=> k \in 1..Len(docLines) \/ k = n
    BY <2>2
  <2>5. arrays' = {k \in 1..n : HoldsItems(docLines', k)}
    BY <1>1, <2>1, <2>2, <2>3, <2>4
  <2> QED
    BY <2>5 DEF ArraysInv, n
<1> QED
  BY <1>4, <1>5, <1>6

\* The place of an item is an object that is still empty, and becomes an array, or
\* is an array already.
LEMMA ItemHasPlace ==
  ASSUME PlanParserInv, NEW l \in Lines, Len(docLines) < MaxLines,
         docLines' = Append(docLines, l), Fits(docLines'), l.form \in Items,
         NEW node, node = Owner(docLines', Len(docLines'))
  PROVE  /\ node \in 1..Len(docLines) /\ docLines[node].form = "open"
         /\ Owner(docLines, node) \notin arrays
         /\ node \in arrays <=> members[node] # <<>>
<1>1. /\ docLines' \in Seq(Lines) /\ docLines \in Seq(Lines) /\ Len(docLines) \in Nat
      /\ Len(docLines') = Len(docLines) + 1 /\ Len(docLines') <= MaxLines
      /\ docLines'[Len(docLines')] = l
      /\ \A j \in 1..Len(docLines) : docLines'[j] = docLines[j]
      /\ \A j \in 1..Len(docLines) : Owner(docLines', j) = Owner(docLines, j)
      /\ LinesFit(docLines')
  BY OneLineMore DEF PlanParserInv
<1>2. Len(docLines') \in 1..Len(docLines')
  BY <1>1
<1>3. node \in 0..Len(docLines)
  <2>1. node \in 0..(Len(docLines') - 1)
    BY <1>1, <1>2, OwnerIs
  <2> QED
    BY <1>1, <2>1
<1>4. /\ node # 0 /\ docLines'[node].form \in Containers /\ docLines'[node].form # "itemPair"
      /\ \A j \in 1..Len(docLines') : Owner(docLines', j) = node => docLines'[j].form \in Items
  BY <1>1, <1>2 DEF LinesFit
<1>5. node \in 1..Len(docLines) /\ docLines[node].form = "open"
  BY <1>1, <1>3, <1>4 DEF Containers
<1>6. Owner(docLines, node) \notin arrays
  <2> SUFFICES ASSUME Owner(docLines, node) \in arrays PROVE FALSE
    OBVIOUS
  <2>1. HoldsItems(docLines, Owner(docLines, node))
    BY DEF PlanParserInv, ArraysInv
  <2>2. PICK i \in 1..Len(docLines) : Owner(docLines, i) = Owner(docLines, node)
                                      /\ docLines[i].form \in Items
    BY <2>1 DEF HoldsItems, Owned
  <2>3. docLines[node].form \in Items
    BY <1>5, <2>2 DEF PlanParserInv, LinesFit
  <2> QED
    BY <1>5, <2>3 DEF Items
<1>7. node \in arrays <=> members[node] # <<>>
  <2>1. node \in 0..MaxLines
    BY <1>1, <1>5, PlanParserAssumption
  <2>2. members[node] \in Seq(1..Len(docLines)) /\ ToSet(members[node]) = Owned(docLines, node)
    BY <2>1 DEF PlanParserInv, MembersInv
  <2>3. members[node] # <<>> <=> Owned(docLines, node) # {}
    <3>1. members[node] = <<>> <=> ToSet(members[node]) = {}
      <4>1. CASE members[node] = <<>>
        BY <4>1 DEF ToSet
      <4>2. CASE members[node] # <<>>
        <5>1. 1 \in DOMAIN members[node]
          BY <2>2, <4>2, Elements
        <5> QED
          BY <4>2, <5>1 DEF ToSet
      <4> QED
        BY <4>1, <4>2
    <3> QED
      BY <2>2, <3>1
  <2>4. \A i \in Owned(docLines, node) : docLines[i].form \in Items
    <3> SUFFICES ASSUME NEW i \in 1..Len(docLines), Owner(docLines, i) = node
                 PROVE  docLines[i].form \in Items
      BY DEF Owned
    <3>1. i \in 1..Len(docLines') /\ Owner(docLines', i) = node /\ docLines'[i] = docLines[i]
      BY <1>1
    <3> QED
      BY <1>4, <3>1
  <2>5. node \in arrays <=> HoldsItems(docLines, node)
    BY <1>5 DEF PlanParserInv, ArraysInv
  <2>6. HoldsItems(docLines, node) <=> Owned(docLines, node) # {}
    BY <2>4 DEF HoldsItems
  <2> QED
    BY <2>3, <2>5, <2>6
<1> QED
  BY <1>5, <1>6, <1>7

LEMMA ReadItemInv ==
  ASSUME PlanParserInv, NEW l \in Lines, Len(docLines) < MaxLines,
         docLines' = Append(docLines, l), Fits(docLines'),
         l.form \in Items, ReadItem(l, Len(docLines'))
  PROVE  StackInv' /\ MembersInv' /\ ArraysInv'
<1> DEFINE n == Len(docLines')
           stack == Popped(l.indent)
           node == Last(stack).node
           empty == node \notin arrays /\ members[node] = <<>>
                    /\ (node # 0 => docLines[node].form = "open")
           becomes == /\ empty /\ Len(stack) > 1
                      /\ stack[Len(stack) - 1].node \notin arrays
<1>1. /\ arrays' = IF becomes THEN arrays \cup {node} ELSE arrays
      /\ members' = IF becomes \/ node \in arrays THEN Put(node, n) ELSE members
      /\ parserStack' = IF l.form = "itemPair" THEN Push(stack, n, l.indent) ELSE stack
  BY DEF ReadItem
<1>2. PICK m \in 1..Len(parserStack) :
        /\ Len(stack) = m
        /\ \A i \in 1..m : stack[i] = parserStack[i]
        /\ Last(stack) = parserStack[m]
        /\ parserStack[m].node = Owner(docLines', n)
        /\ m = 1 <=> Owner(docLines', n) = 0
  BY TopIsOwner
<1>3. node = Owner(docLines', n)
  BY <1>2
<1> HIDE DEF stack
<1>4. /\ node \in 1..Len(docLines) /\ docLines[node].form = "open"
      /\ Owner(docLines, node) \notin arrays
      /\ node \in arrays <=> members[node] # <<>>
  BY <1>3, ItemHasPlace
<1>5. Len(stack) > 1 /\ stack[Len(stack) - 1].node = Owner(docLines, node)
  <2>1. m \in 2..Len(parserStack) /\ m - 1 \in 1..m
    <3>1. Len(parserStack) \in Nat
      BY LenProperties DEF PlanParserInv, StackInv
    <3>2. m # 1
      BY <1>2, <1>3, <1>4
    <3> QED
      BY <3>1, <3>2
  <2>2. parserStack[m - 1].node = Owner(docLines, parserStack[m].node)
    BY <2>1 DEF PlanParserInv, StackInv
  <2>3. Len(stack) > 1
    BY <1>2, <2>1
  <2> QED
    BY <1>2, <2>1, <2>2, <2>3
<1>6. becomes <=> node \notin arrays
  BY <1>4, <1>5
<1> HIDE DEF node, becomes
<1>7. StackInv'
  <2>1. l.form = "itemPair" <=> l.form \in Containers
    BY DEF Items, Containers
  <2>2. parserStack' = IF l.form \in Containers THEN Push(stack, n, l.indent) ELSE stack
    BY <1>1, <2>1
  <2> QED
    BY <2>2, StackStep DEF stack
<1>8. MembersInv'
  <2>1. members' = Put(Owner(docLines', n), n)
    BY <1>1, <1>3, <1>6
  <2> QED
    BY <2>1, MembersStep
<1>9. ArraysInv'
  <2>1. \A k : HoldsItems(docLines', k) <=> HoldsItems(docLines, k) \/ k = node
    BY <1>3, ItemsStep
  <2>2. ~HoldsItems(docLines, n) /\ n = Len(docLines) + 1 /\ Len(docLines) \in Nat
    <3>1. docLines \in Seq(Lines) /\ n = Len(docLines) + 1 /\ Len(docLines) \in Nat
      BY OneLineMore DEF PlanParserInv
    <3>2. \A i \in 1..Len(docLines) : Owner(docLines, i) \in 0..(i - 1)
      BY <3>1, OwnerIs
    <3>3. \A i \in 1..Len(docLines) : Owner(docLines, i) # n
      BY <3>1, <3>2
    <3> QED
      BY <3>1, <3>3 DEF HoldsItems, Owned
  <2>3. arrays = {k \in 1..Len(docLines) : HoldsItems(docLines, k)}
    BY DEF PlanParserInv, ArraysInv
  <2>4. arrays' = arrays \cup {node}
    BY <1>1, <1>6
  <2> HIDE DEF n
  <2>5. /\ \A k : k \in 1..n <=> k \in 1..Len(docLines) \/ k = n
        /\ node # n
    BY <1>4, <2>2
  <2>6. arrays' = {k \in 1..n : HoldsItems(docLines', k)}
    BY <1>4, <2>1, <2>2, <2>3, <2>4, <2>5
  <2> QED
    BY <2>6 DEF ArraysInv, n
<1> QED
  BY <1>7, <1>8, <1>9

(***************************************************************************)
(* The theorems.                                                           *)
(***************************************************************************)
LEMMA PlanParserInvariant == PlanParserSpec => []PlanParserInv
<1>1. PlanParserInit => PlanParserInv
  <2> SUFFICES ASSUME PlanParserInit PROVE PlanParserInv
    OBVIOUS
  <2> USE DEF PlanParserInit
  <2>1. docLines = <<>> /\ docLines \in Seq(Lines) /\ Len(docLines) = 0
    OBVIOUS
  <2>2. \A k : Owned(docLines, k) = {}
    BY <2>1 DEF Owned
  <2>3. StackInv
    <3>1. /\ Len(parserStack) = 1 /\ parserStack[1] = [node |-> 0, indent |-> 0]
          /\ parserStack \in Seq([node : 0..Len(docLines), indent : 0..MaxIndent])
      <4>1. [node |-> 0, indent |-> 0] \in [node : 0..Len(docLines), indent : 0..MaxIndent]
        BY <2>1, PlanParserAssumption
      <4> QED
        BY <4>1
    <3>2. 2..Len(parserStack) = {} /\ 1..Len(docLines) = {}
      BY <2>1, <3>1
    <3> QED
      BY <3>1, <3>2 DEF StackInv
  <2>4. MembersInv
    <3>1. \A k \in 0..MaxLines : members[k] = <<>>
      OBVIOUS
    <3>2. members \in [0..MaxLines -> Seq(1..Len(docLines))]
      OBVIOUS
    <3>3. ToSet(<<>>) = {} /\ InOrder(<<>>)
      BY DEF ToSet, InOrder
    <3> QED
      BY <2>2, <3>1, <3>2, <3>3 DEF MembersInv
  <2>5. ArraysInv
    BY <2>2 DEF ArraysInv, HoldsItems
  <2>6. LinesFit(docLines)
    BY <2>1 DEF LinesFit
  <2> QED
    BY <2>1, <2>3, <2>4, <2>5, <2>6, PlanParserAssumption DEF PlanParserInv
<1>2. PlanParserInv /\ [PlanParserNext]_planParserVars => PlanParserInv'
  <2> SUFFICES ASSUME PlanParserInv, [PlanParserNext]_planParserVars PROVE PlanParserInv'
    OBVIOUS
  <2>1. ASSUME NEW l \in Lines, Fits(Append(docLines, l)), ReadLine(l) PROVE PlanParserInv'
    <3>1. /\ Len(docLines) < MaxLines /\ docLines' = Append(docLines, l)
          /\ IF l.form \in Items THEN ReadItem(l, Len(docLines')) ELSE ReadPair(l, Len(docLines'))
      BY <2>1 DEF ReadLine
    <3>2. Fits(docLines')
      BY <2>1, <3>1
    <3>3. StackInv' /\ MembersInv' /\ ArraysInv'
      BY <3>1, <3>2, ReadPairInv, ReadItemInv
    <3>4. docLines' \in Seq(Lines) /\ Len(docLines') <= MaxLines /\ LinesFit(docLines')
      BY <3>1, <3>2, OneLineMore
    <3> QED
      BY <3>3, <3>4 DEF PlanParserInv
  <2>2. CASE UNCHANGED planParserVars
    <3>1. UNCHANGED <<docLines, members, arrays, parserStack>>
      BY <2>2 DEF planParserVars
    <3> QED
      BY <3>1 DEF PlanParserInv, StackInv, MembersInv, ArraysInv
  <2> QED
    BY <2>1, <2>2 DEF PlanParserNext
<1> QED
  BY <1>1, <1>2, PTL DEF PlanParserSpec

\* PlanParserTypeOK holds of every behaviour of the parser.
THEOREM PlanParserTypeCorrect == PlanParserSpec => []PlanParserTypeOK
<1>1. PlanParserInv => PlanParserTypeOK
  <2> SUFFICES ASSUME PlanParserInv PROVE PlanParserTypeOK
    OBVIOUS
  <2>1. docLines \in Seq(Lines) /\ Len(docLines) \in Nat /\ Len(docLines) <= MaxLines
    BY LenProperties DEF PlanParserInv
  <2>2. members \in [0..MaxLines -> Seq(1..MaxLines)]
    <3>1. 1..Len(docLines) \subseteq 1..MaxLines
      BY <2>1, PlanParserAssumption
    <3>2. Seq(1..Len(docLines)) \subseteq Seq(1..MaxLines)
      BY <3>1, SeqMonotonic
    <3> QED
      BY <3>2 DEF PlanParserInv, MembersInv
  <2>3. parserStack \in Seq([node : 0..MaxLines, indent : 0..MaxIndent])
    <3> DEFINE U == [node : 0..Len(docLines), indent : 0..MaxIndent]
               T == [node : 0..MaxLines, indent : 0..MaxIndent]
    <3>1. U \subseteq T
      BY <2>1, PlanParserAssumption
    <3>2. parserStack \in Seq(U)
      BY DEF PlanParserInv, StackInv
    <3> HIDE DEF U, T
    <3>3. parserStack \in Seq(T)
      BY <3>1, <3>2, SeqMonotonic
    <3> QED
      BY <3>3 DEF T
  <2>4. arrays \subseteq 1..Len(docLines)
    BY DEF PlanParserInv, ArraysInv
  <2> QED
    BY <2>1, <2>2, <2>3, <2>4 DEF PlanParserTypeOK
<1> QED
  BY PlanParserInvariant, <1>1, PTL

\* ParsedByIndent: extractFrontmatter puts every line of a document that fits
\* into the object of the line it belongs to by its indent, however deep and long
\* the document is.
THEOREM PlansAreParsedByIndent == PlanParserSpec => []ParsedByIndent
<1>1. PlanParserInv => ParsedByIndent
  <2> SUFFICES ASSUME PlanParserInv PROVE ParsedByIndent
    OBVIOUS
  <2>1. \A n \in 0..Len(docLines) : n \in 0..MaxLines
    BY LenProperties, PlanParserAssumption DEF PlanParserInv
  <2> QED
    BY <2>1 DEF PlanParserInv, MembersInv, ArraysInv, HoldsItems, ParsedByIndent
<1> QED
  BY PlanParserInvariant, <1>1, PTL
=============================================================================
