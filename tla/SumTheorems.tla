----------------------------- MODULE SumTheorems -----------------------------
(***************************************************************************)
(* Theorems about integer division, and about the sums and folds of the    *)
(* community modules.  Those take the summand as a function, where the     *)
(* community modules take an operator: a sum over an expression is the sum *)
(* over the function with that expression for its body, BY DEF Sum,        *)
(* MapThenSumSet, MapThenFoldSet.  Induction is by the least               *)
(* counterexample.                                                         *)
(***************************************************************************)
EXTENDS Integers, FiniteSetsExt, FiniteSetTheorems, TLAPS

-----------------------------------------------------------------------------
(* Integer division *)

\* A multiple of a greater number is greater by at least the factor.
LEMMA MultLess ==
    ASSUME NEW n \in Nat, NEW a \in Nat, NEW b \in Nat, a < b
    PROVE  n * a + n <= n * b
<1>1. PICK k \in Nat : b = a + 1 + k
  <2>1. b - a - 1 \in Nat /\ b = a + 1 + (b - a - 1)
    OBVIOUS
  <2> QED
    BY <2>1
<1>2. n * b = n * a + n + n * k
  BY <1>1
<1>3. n * k >= 0
  OBVIOUS
<1> QED
  BY <1>2, <1>3

\* What quotient and remainder are.
LEMMA DivMod ==
    ASSUME NEW n \in Nat, NEW d \in Nat \ {0}
    PROVE  /\ n \div d \in Nat /\ n % d \in 0..(d-1)
           /\ n = d * (n \div d) + (n % d)
OBVIOUS

\* Quotient and remainder are the only numbers of that kind.
LEMMA DivUnique ==
    ASSUME NEW d \in Nat \ {0}, NEW q \in Nat, NEW r \in 0..(d - 1)
    PROVE  (d * q + r) \div d = q /\ (d * q + r) % d = r
<1> DEFINE n == d * q + r
<1>1. n \in Nat
  OBVIOUS
<1> HIDE DEF n
<1>2. n \div d \in Nat /\ n % d \in 0..(d-1) /\ n = d * (n \div d) + (n % d)
  BY <1>1, DivMod
<1>3. n \div d = q
  <2>1. ~ (n \div d < q)
    BY <1>2, MultLess DEF n
  <2>2. ~ (q < n \div d)
    BY <1>2, MultLess DEF n
  <2>3. n \div d \in Nat
    BY <1>2
  <2> QED
    BY <2>1, <2>2, <2>3
<1>4. n % d = r
  BY <1>2, <1>3 DEF n
<1> QED
  BY <1>3, <1>4 DEF n

\* Multiples are in the order of the numbers.
LEMMA MultOrder ==
    ASSUME NEW n \in Nat \ {0}, NEW a \in Int, NEW b \in Int, n * a <= n * b
    PROVE  a <= b
<1> SUFFICES ASSUME b < a PROVE FALSE
  OBVIOUS
<1> DEFINE d == a - b
<1>1. d \in Nat /\ d > 0 /\ a = b + d
  OBVIOUS
<1> HIDE DEF d
<1>2. n * a = n * b + n * d
  BY <1>1
<1>3. n * 0 + n <= n * d
  BY <1>1, MultLess
<1>4. n * d \in Int /\ n * b \in Int /\ n * 0 = 0
  BY <1>1
<1> QED
  BY <1>2, <1>3, <1>4

\* What quotient and remainder are of any integer.
LEMMA DivModInt ==
    ASSUME NEW n \in Int, NEW d \in Nat \ {0}
    PROVE  /\ n \div d \in Int /\ n % d \in 0..(d-1)
           /\ n = d * (n \div d) + (n % d)
OBVIOUS

\* Integer division keeps order.
LEMMA DivMonotone ==
    ASSUME NEW x \in Nat, NEW y \in Nat, NEW d \in Nat \ {0}, x <= y
    PROVE  x \div d \in Nat /\ y \div d \in Nat /\ x \div d <= y \div d
<1> DEFINE p == x \div d
           q == y \div d
<1>1. p \in Nat /\ q \in Nat /\ d * p <= x /\ y < d * q + d
  OBVIOUS
<1> HIDE DEF p, q
<1>2. ~ (q < p)
  <2> SUFFICES ASSUME q < p PROVE FALSE
    OBVIOUS
  <2>1. PICK k \in Nat : p = q + 1 + k
    <3>1. p - q - 1 \in Nat /\ p = q + 1 + (p - q - 1)
      BY <1>1
    <3> QED
      BY <3>1
  <2>2. d * p = d * q + d + d * k /\ d * k \in Nat /\ d * q \in Nat
    BY <1>1, <2>1
  <2> QED
    BY <1>1, <2>2
<1> QED
  BY <1>1, <1>2 DEF p, q

\* Shares of a part are at most the whole.
LEMMA ShareBound ==
    ASSUME NEW x \in Nat, NEW d \in Nat \ {0}, NEW u \in Nat, x <= d
    PROVE  (x * u) \div d \in 0..u
<1> DEFINE n == x * u
           q == n \div d
<1>1. n \in Nat
  OBVIOUS
<1>2. n <= d * u
  <2>1. PICK k \in Nat : d = x + k
    <3>1. d - x \in Nat /\ d = x + (d - x)
      OBVIOUS
    <3> QED
      BY <3>1
  <2>2. d * u = n + k * u /\ k * u \in Nat
    BY <2>1
  <2> QED
    BY <1>1, <2>2
<1> HIDE DEF n
<1>3. q \in Nat /\ d * q <= n
  BY <1>1
<1> HIDE DEF q
<1>4. ~ (u < q)
  <2> SUFFICES ASSUME u < q PROVE FALSE
    OBVIOUS
  <2>1. PICK k \in Nat : q = u + 1 + k
    <3>1. q - u - 1 \in Nat /\ q = u + 1 + (q - u - 1)
      BY <1>3
    <3> QED
      BY <3>1
  <2>2. d * q = d * u + d + d * k /\ d * k \in Nat /\ d * u \in Nat
    BY <2>1
  <2> QED
    BY <1>1, <1>2, <1>3, <2>2
<1> QED
  BY <1>3, <1>4 DEF q, n

\* A multiple divides without remainder, a negative one too.
LEMMA DivExact ==
    ASSUME NEW d \in Nat \ {0}, NEW q \in Int
    PROVE  (d * q) \div d = q
<1>1. CASE q \in Nat
  <2>1. 0 \in 0..(d - 1)
    OBVIOUS
  <2>2. (d * q + 0) \div d = q
    BY <1>1, <2>1, DivUnique
  <2> QED
    BY <2>2
<1>2. CASE q \notin Nat
  <2> DEFINE p == (d * q) \div d
             r == (d * q) % d
  <2>1. d * q \in Int
    OBVIOUS
  <2>2. p \in Int /\ r \in 0..(d - 1) /\ d * q = d * p + r
    BY <2>1, DivModInt
  <2> HIDE DEF p, r
  <2>3. d * (q - p) = r /\ q - p \in Int
    BY <2>2
  <2>4. ASSUME q - p >= 1 PROVE FALSE
    <3>1. d * (q - p) = d + d * (q - p - 1) /\ q - p - 1 \in Nat
      BY <2>3, <2>4
    <3>2. d * (q - p - 1) \in Nat
      BY <3>1
    <3> QED
      BY <2>2, <2>3, <3>1, <3>2
  <2>5. ASSUME q - p <= -1 PROVE FALSE
    <3>1. d * (p - q) = d + d * (p - q - 1) /\ p - q - 1 \in Nat
      BY <2>2, <2>3, <2>5
    <3>2. d * (p - q - 1) \in Nat
      BY <3>1
    <3>3. d * p = d * q + d * (p - q) /\ d * q \in Int
      BY <2>2, <2>3
    <3> QED
      BY <2>2, <3>1, <3>2, <3>3
  <2>6. q = p
    BY <2>2, <2>3, <2>4, <2>5
  <2> QED
    BY <2>6 DEF p
<1> QED
  BY <1>1, <1>2

\* A quotient lies between the bounds of its numerator.
LEMMA DivBetween ==
    ASSUME NEW n \in Int, NEW d \in Nat \ {0}, NEW lo \in Int, NEW hi \in Int,
           d * lo <= n, n <= d * hi
    PROVE  n \div d \in Int /\ lo <= n \div d /\ n \div d <= hi
<1> DEFINE q == n \div d
           r == n % d
<1>1. q \in Int /\ r \in 0..(d - 1) /\ n = d * q + r
  BY DivModInt
<1> HIDE DEF q, r
<1>2. lo <= q
  <2> SUFFICES ASSUME q < lo PROVE FALSE
    BY <1>1
  <2> DEFINE k == lo - q - 1
             a == d * q
             c == d * k
  <2>1. k \in Nat /\ lo = q + 1 + k
    BY <1>1
  <2>2. d * lo = a + d + c /\ c >= 0 /\ a \in Int /\ c \in Int
    <3> HIDE DEF k
    <3> QED
      BY <1>1, <2>1
  <2> HIDE DEF a, c, k
  <2>3. n = a + r
    BY <1>1 DEF a
  <2> QED
    BY <1>1, <2>2, <2>3
<1>3. q <= hi
  <2>1. d * q <= d * hi
    <3> DEFINE a == d * q
               c == d * hi
    <3>1. a \in Int /\ c \in Int /\ n = a + r /\ n <= c
      BY <1>1
    <3> HIDE DEF a, c
    <3>2. a <= c
      BY <1>1, <3>1
    <3> QED
      BY <3>2 DEF a, c
  <2> QED
    BY <1>1, <2>1, MultOrder
<1> QED
  BY <1>1, <1>2, <1>3 DEF q

\* The values that count in a mean
Counted(V, w, x) == {x[v] : v \in {u \in V : w[u] > 0}}

-----------------------------------------------------------------------------
(* Induction *)

\* A set of natural numbers has a least element.
LEMMA LeastNat ==
    ASSUME NEW T \in SUBSET Nat, T # {}
    PROVE  \E x \in T : \A y \in T : x <= y
<1>1. \E x \in T : \A y \in T : ~ (<<y, x>> \in OpToRel(<, Nat))
  BY WFMin, NatLessThanWellFounded, Zenon
<1>2. \E x \in T : \A y \in T : ~ (y < x)
  BY <1>1, Zenon DEF OpToRel
<1> QED
  BY <1>2

\* A set of subsets of a finite set has a smallest member: one whose subsets, but
\* for itself, are not in it.
LEMMA SmallestSubset ==
    ASSUME NEW S, IsFiniteSet(S), NEW T \in SUBSET (SUBSET S), T # {}
    PROVE  \E s \in T : \A x \in s : s \ {x} \notin T
<1> DEFINE sizes == {Cardinality(s) : s \in T}
<1>1. \A s \in SUBSET S : IsFiniteSet(s) /\ Cardinality(s) \in Nat
  BY FS_Subset, FS_CardinalityType
<1>2. sizes \in SUBSET Nat /\ sizes # {}
  BY <1>1
<1>3. PICK n \in sizes : \A m \in sizes : n <= m
  BY <1>2, LeastNat
<1>4. PICK s \in T : Cardinality(s) = n
  OBVIOUS
<1>5. ASSUME NEW x \in s, s \ {x} \in T
      PROVE  FALSE
  <2>1. Cardinality(s \ {x}) = Cardinality(s) - 1
    BY <1>1, FS_RemoveElement
  <2>2. Cardinality(s \ {x}) >= n
    BY <1>3, <1>5
  <2> QED
    BY <1>1, <1>4, <2>1, <2>2
<1> QED
  BY <1>4, <1>5

\* A definition by recursion over the subsets of a finite set, that takes out of
\* each one element chosen by ch, defines a function.
FoldsBy(ch, base, step, S, V, h) ==
    /\ h \in [SUBSET S -> V]
    /\ \A s \in SUBSET S :
          h[s] = IF s = {} THEN base ELSE step[<<ch[s], h[s \ {ch[s]}]>>]

(* A function that folds step over the finite set S along the choices ch exists: the
   recursion can be started at {} and extended one element at a time. *)
THEOREM FoldExists ==
    ASSUME NEW S, IsFiniteSet(S),
           NEW ch, \A s \in SUBSET S : s # {} => ch[s] \in s,
           NEW V, NEW base \in V, NEW step \in [S \X V -> V]
    PROVE  \E h : FoldsBy(ch, base, step, S, V, h)
<1> DEFINE Up(n) == {s \in SUBSET S : Cardinality(s) <= n}
           Good(n, h) == /\ h \in [Up(n) -> V]
                         /\ \A s \in Up(n) :
                              h[s] = IF s = {} THEN base ELSE step[<<ch[s], h[s \ {ch[s]}]>>]
           bad == {n \in Nat : ~ \E h : Good(n, h)}
<1>1. \A s \in SUBSET S : IsFiniteSet(s) /\ Cardinality(s) \in Nat
  BY FS_Subset, FS_CardinalityType
<1>2. \A s \in SUBSET S : s # {} => /\ ch[s] \in S
                                    /\ s \ {ch[s]} \in SUBSET S
                                    /\ Cardinality(s \ {ch[s]}) = Cardinality(s) - 1
  BY <1>1, FS_RemoveElement
<1>3. 0 \notin bad
  <2> DEFINE h == [s \in Up(0) |-> base]
  <2>1. \A s \in Up(0) : s = {}
    BY <1>1, FS_EmptySet
  <2>2. Good(0, h)
    BY <2>1
  <2> QED
    BY <2>2
<1>4. ASSUME NEW n \in Nat, n \notin bad
      PROVE  n + 1 \notin bad
  <2>1. PICK h : Good(n, h)
    BY <1>4
  <2> DEFINE g == [s \in Up(n + 1) |->
                      IF s = {} THEN base ELSE step[<<ch[s], h[s \ {ch[s]}]>>]]
  <2>2. \A s \in Up(n + 1) : s # {} => s \ {ch[s]} \in Up(n)
    BY <1>1, <1>2
  <2>3. \A s \in Up(n) : s \in Up(n + 1) /\ g[s] = h[s]
    BY <1>1, <2>1
  <2>4. g \in [Up(n + 1) -> V]
    <3>1. \A s \in Up(n + 1) : s # {} => <<ch[s], h[s \ {ch[s]}]>> \in S \X V
      BY <1>2, <2>1, <2>2
    <3> QED
      BY <3>1
  <2>5. \A s \in Up(n + 1) :
          g[s] = IF s = {} THEN base ELSE step[<<ch[s], g[s \ {ch[s]}]>>]
    BY <2>2, <2>3
  <2> HIDE DEF g
  <2> QED
    BY <2>4, <2>5
<1>5. bad = {}
  <2> SUFFICES ASSUME bad # {} PROVE FALSE
    OBVIOUS
  <2>1. PICK n \in bad : \A m \in bad : n <= m
    <3> HIDE DEF Good
    <3> QED
      BY LeastNat
  <2>2. n \in Nat /\ n # 0
    BY <1>3, <2>1
  <2>3. n - 1 \in Nat /\ n - 1 \notin bad /\ (n - 1) + 1 = n
    <3> HIDE DEF bad
    <3> QED
      BY <2>1, <2>2
  <2> HIDE DEF bad
  <2> QED
    BY <1>4, <2>1, <2>3
<1>6. PICK h : Good(Cardinality(S), h)
  BY <1>1, <1>5
<1>7. Up(Cardinality(S)) = SUBSET S
  BY <1>1, FS_Subset
<1>8. FoldsBy(ch, base, step, S, V, h)
  BY <1>6, <1>7 DEF FoldsBy
<1> QED
  BY <1>8

-----------------------------------------------------------------------------
(* Sums *)

Sum(f, S) == MapThenSumSet(LAMBDA x : f[x], S)

\* f has a number at every element of S.
Ints(f, S) == \A x \in S : f[x] \in Int

\* The element that the fold takes out of a set, and the equation of the fold.
First(s) == CHOOSE x \in s : TRUE
SumsFrom(f, S, h) ==
    h = [s \in SUBSET S |-> IF s = {} THEN 0 ELSE f[First(s)] + h[s \ {First(s)}]]

(* The element a sum takes out of a nonempty set first is a member of the set. *)
LEMMA FirstIn == \A s : s # {} => First(s) \in s
BY DEF First

(* Sum is the value at S of a function that satisfies the recursion SumsFrom. *)
LEMMA SumDef ==
    ASSUME NEW S, NEW f
    PROVE  Sum(f, S) = (CHOOSE h : SumsFrom(f, S, h))[S]
BY DEF Sum, MapThenSumSet, MapThenFoldSet, SumsFrom, First

\* What a function that satisfies the equation is at each set.
LEMMA SumsFromAt ==
    ASSUME NEW S, NEW f, NEW h, SumsFrom(f, S, h)
    PROVE  /\ \A s \in SUBSET S : s # {} => h[s] = f[First(s)] + h[s \ {First(s)}]
           /\ h[{}] = 0
BY DEF SumsFrom

(* Two functions that satisfy the recursion of a sum agree on every subset they share. *)
LEMMA SumsFromUnique ==
    ASSUME NEW S, IsFiniteSet(S), NEW f, NEW g, SumsFrom(f, S, g),
           NEW R, S \in SUBSET R, NEW h, SumsFrom(f, R, h)
    PROVE  \A s \in SUBSET S : g[s] = h[s]
<1> DEFINE T == {s \in SUBSET S : g[s] # h[s]}
<1>1. SUFFICES ASSUME T # {} PROVE FALSE
  OBVIOUS
<1>2. PICK s \in T : \A x \in s : s \ {x} \notin T
  <2>1. T \in SUBSET (SUBSET S)
    OBVIOUS
  <2> HIDE DEF T
  <2> QED
    BY <1>1, <2>1, SmallestSubset
<1>3. s \in SUBSET S /\ s \in SUBSET R /\ g[s] # h[s]
  BY <1>2
<1>4. s # {}
  BY <1>3, SumsFromAt
<1>5. g[s \ {First(s)}] = h[s \ {First(s)}]
  BY <1>2, <1>4, FirstIn
<1>6. g[s] = f[First(s)] + g[s \ {First(s)}]
  BY <1>3, <1>4, SumsFromAt
<1>7. h[s] = f[First(s)] + h[s \ {First(s)}]
  BY <1>3, <1>4, SumsFromAt
<1> QED
  BY <1>3, <1>5, <1>6, <1>7

(* Over a finite set of integer terms the recursion of a sum has an integer solution. *)
LEMMA SumsFromExists ==
    ASSUME NEW S, IsFiniteSet(S), NEW f, Ints(f, S)
    PROVE  \E h \in [SUBSET S -> Int] : SumsFrom(f, S, h)
<1> DEFINE ch == [s \in SUBSET S |-> First(s)]
           step == [p \in S \X Int |-> f[p[1]] + p[2]]
<1>1. \A s \in SUBSET S : s # {} => ch[s] \in s
  BY FirstIn
<1>2. step \in [S \X Int -> Int]
  BY DEF Ints
<1>3. 0 \in Int
  OBVIOUS
<1>4. \E h : FoldsBy(ch, 0, step, S, Int, h)
  <2> HIDE DEF ch, step
  <2> QED
    BY <1>1, <1>2, <1>3, FoldExists
<1>5. PICK h \in [SUBSET S -> Int] : \A s \in SUBSET S :
          h[s] = IF s = {} THEN 0 ELSE step[<<ch[s], h[s \ {ch[s]}]>>]
  <2> HIDE DEF ch, step
  <2> QED
    BY <1>4 DEF FoldsBy
<1>6. ASSUME NEW s \in SUBSET S
      PROVE  h[s] = IF s = {} THEN 0 ELSE f[First(s)] + h[s \ {First(s)}]
  <2>1. CASE s = {}
    BY <1>5, <2>1
  <2>2. CASE s # {}
    <3>1. First(s) \in S /\ h[s \ {First(s)}] \in Int
      BY <1>5, <2>2, FirstIn
    <3>2. h[s] = step[<<First(s), h[s \ {First(s)}]>>]
      BY <1>5, <2>2
    <3> QED
      BY <2>2, <3>1, <3>2
  <2> QED
    BY <2>1, <2>2
<1> HIDE DEF ch, step
<1>7. h = [s \in SUBSET S |-> IF s = {} THEN 0 ELSE f[First(s)] + h[s \ {First(s)}]]
  BY <1>5, <1>6
<1> QED
  BY <1>5, <1>7 DEF SumsFrom

\* The sums of all subsets of a finite set are one function.
SumsOver(f, S, h) == /\ h \in [SUBSET S -> Int]
                     /\ SumsFrom(f, S, h)
                     /\ \A s \in SUBSET S : Sum(f, s) = h[s]

(* One function gives the sums over all the subsets of S at once. *)
LEMMA SumsAgree ==
    ASSUME NEW S, IsFiniteSet(S), NEW f, Ints(f, S)
    PROVE  \E h : SumsOver(f, S, h)
<1>1. PICK h \in [SUBSET S -> Int] : SumsFrom(f, S, h)
  BY SumsFromExists
<1>2. ASSUME NEW s \in SUBSET S
      PROVE  Sum(f, s) = h[s]
  <2> DEFINE g == CHOOSE g : SumsFrom(f, s, g)
  <2>1. IsFiniteSet(s) /\ Ints(f, s)
    BY FS_Subset DEF Ints
  <2>2. \E i : SumsFrom(f, s, i)
    BY <2>1, SumsFromExists
  <2>3. SumsFrom(f, s, g)
    BY <2>2
  <2>4. Sum(f, s) = g[s]
    BY SumDef
  <2> HIDE DEF g
  <2>5. g[s] = h[s]
    BY <1>1, <2>1, <2>3, SumsFromUnique
  <2> QED
    BY <2>4, <2>5
<1>3. SumsOver(f, S, h)
  BY <1>1, <1>2 DEF SumsOver
<1> QED
  BY <1>3

\* Summands that are the same have the same sum.
THEOREM SumSame ==
    ASSUME NEW S, NEW f, NEW g, \A x \in S : f[x] = g[x]
    PROVE  Sum(f, S) = Sum(g, S)
<1>1. \A s \in SUBSET S : s # {} => First(s) \in S
  BY FirstIn
<1>2. ASSUME NEW h
      PROVE  [s \in SUBSET S |-> IF s = {} THEN 0 ELSE f[First(s)] + h[s \ {First(s)}]]
           = [s \in SUBSET S |-> IF s = {} THEN 0 ELSE g[First(s)] + h[s \ {First(s)}]]
  BY <1>1
<1>3. \A h : SumsFrom(f, S, h) <=> SumsFrom(g, S, h)
  BY <1>2 DEF SumsFrom
<1>4. (CHOOSE h : SumsFrom(f, S, h)) = (CHOOSE h : SumsFrom(g, S, h))
  BY <1>3
<1> QED
  BY <1>4, SumDef

\* The sum over the empty set is zero, and sums of numbers are numbers.
THEOREM SumEmpty ==
    ASSUME NEW f
    PROVE  Sum(f, {}) = 0
<1>1. IsFiniteSet({}) /\ Ints(f, {})
  BY FS_EmptySet DEF Ints
<1>2. PICK h : SumsOver(f, {}, h)
  BY <1>1, SumsAgree
<1> QED
  BY <1>2, SumsFromAt DEF SumsOver

(* A finite sum of integers is an integer. *)
THEOREM SumInt ==
    ASSUME NEW S, IsFiniteSet(S), NEW f, Ints(f, S)
    PROVE  Sum(f, S) \in Int
<1>1. PICK h : SumsOver(f, S, h)
  BY SumsAgree
<1> QED
  BY <1>1 DEF SumsOver

\* Any element can be taken out of a sum first.
THEOREM SumRemove ==
    ASSUME NEW S, IsFiniteSet(S), NEW f, Ints(f, S), NEW x \in S
    PROVE  Sum(f, S) = f[x] + Sum(f, S \ {x})
<1> DEFINE T == {s \in SUBSET S : \E y \in s : Sum(f, s) # f[y] + Sum(f, s \ {y})}
<1>1. PICK h : SumsOver(f, S, h)
  BY SumsAgree
<1>2. \A s \in SUBSET S : Sum(f, s) \in Int
  BY <1>1 DEF SumsOver
<1>3. \A s \in SUBSET S : s # {} => Sum(f, s) = f[First(s)] + Sum(f, s \ {First(s)})
  BY <1>1, SumsFromAt DEF SumsOver
<1>4. ASSUME T # {} PROVE FALSE
  <2>1. PICK s \in T : \A y \in s : s \ {y} \notin T
    <3>1. T \in SUBSET (SUBSET S)
      OBVIOUS
    <3> HIDE DEF T
    <3> QED
      BY <1>4, <3>1, SmallestSubset
  <2>2. PICK y \in s : Sum(f, s) # f[y] + Sum(f, s \ {y})
    BY <2>1
  <2> DEFINE z == First(s)
  <2>3. z \in s /\ Sum(f, s) = f[z] + Sum(f, s \ {z})
    BY <1>3, <2>1, <2>2, FirstIn
  <2> HIDE DEF z
  <2>4. y # z
    BY <2>2, <2>3
  <2> DEFINE c == Sum(f, s \ {y, z})
  <2>5. Sum(f, s \ {z}) = f[y] + c
    <3>1. (s \ {z}) \ {y} = s \ {y, z}
      OBVIOUS
    <3> QED
      BY <2>1, <2>2, <2>3, <2>4, <3>1
  <2>6. Sum(f, s \ {y}) = f[z] + Sum(f, (s \ {y}) \ {z})
    BY <2>1, <2>2, <2>3, <2>4
  <2>7. Sum(f, s \ {y}) = f[z] + c
    <3>1. (s \ {y}) \ {z} = s \ {y, z}
      OBVIOUS
    <3> QED
      BY <2>6, <3>1
  <2>8. f[y] \in Int /\ f[z] \in Int /\ c \in Int
    BY <1>2, <2>1, <2>2, <2>3 DEF Ints
  <2> HIDE DEF c, T
  <2> QED
    BY <2>2, <2>3, <2>5, <2>7, <2>8
<1> QED
  BY <1>4

-----------------------------------------------------------------------------
(* More about sums *)

\* What holds of the empty set and of a set if it holds without one of its elements
\* holds of every subset.  P is the set of those it holds of.
THEOREM SubsetInduction ==
    ASSUME NEW S, IsFiniteSet(S), NEW P, {} \in P,
           \A s \in SUBSET S : \A x \in s : s \ {x} \in P => s \in P
    PROVE  S \in P
<1> DEFINE T == {s \in SUBSET S : s \notin P}
<1>1. ASSUME T # {} PROVE FALSE
  <2>1. T \in SUBSET (SUBSET S)
    OBVIOUS
  <2>2. PICK s \in T : \A x \in s : s \ {x} \notin T
    <3> HIDE DEF T
    <3> QED
      BY <1>1, <2>1, SmallestSubset
  <2>3. PICK x \in s : TRUE
    BY <2>2
  <2>4. s \ {x} \in P
    BY <2>2
  <2> QED
    BY <2>2, <2>4
<1> QED
  BY <1>1

(* What a sum over S needs, a sum over a part of S has too. *)
LEMMA SubsetFinite ==
    ASSUME NEW S, IsFiniteSet(S), NEW s \in SUBSET S, NEW f, Ints(f, S)
    PROVE  IsFiniteSet(s) /\ Ints(f, s) /\ Sum(f, s) \in Int
<1>1. IsFiniteSet(s) /\ Ints(f, s)
  BY FS_Subset DEF Ints
<1> QED
  BY <1>1, SumInt

\* The sum over two sets without a common element
THEOREM SumUnion ==
    ASSUME NEW S, IsFiniteSet(S), NEW T, IsFiniteSet(T), S \cap T = {},
           NEW f, Ints(f, S), Ints(f, T)
    PROVE  Sum(f, S \cup T) = Sum(f, S) + Sum(f, T)
<1> DEFINE P == {s \in SUBSET S : Sum(f, s \cup T) = Sum(f, s) + Sum(f, T)}
<1>1. Sum(f, T) \in Int
  BY SumInt
<1>2. {} \in P
  <2>1. {} \cup T = T
    OBVIOUS
  <2> QED
    BY <1>1, <2>1, SumEmpty
<1>3. ASSUME NEW s \in SUBSET S, NEW x \in s, s \ {x} \in P
      PROVE  s \in P
  <2>1. Sum(f, (s \ {x}) \cup T) = Sum(f, s \ {x}) + Sum(f, T)
    BY <1>3
  <2>2. IsFiniteSet(s \cup T) /\ Ints(f, s \cup T)
    <3>1. IsFiniteSet(s)
      BY FS_Subset
    <3> QED
      BY <3>1, FS_Union DEF Ints
  <2>3. (s \cup T) \ {x} = (s \ {x}) \cup T
    BY <1>3
  <2>4. Sum(f, s \cup T) = f[x] + Sum(f, (s \ {x}) \cup T)
    BY <2>2, <2>3, SumRemove
  <2>5. Sum(f, s) = f[x] + Sum(f, s \ {x})
    BY SubsetFinite, SumRemove
  <2>6. f[x] \in Int /\ Sum(f, s \ {x}) \in Int
    BY SubsetFinite DEF Ints
  <2>7. Sum(f, s \cup T) = Sum(f, s) + Sum(f, T)
    BY <1>1, <2>1, <2>4, <2>5, <2>6
  <2> QED
    BY <2>7
<1>4. S \in P
  <2> HIDE DEF P
  <2> QED
    BY <1>2, <1>3, SubsetInduction
<1> QED
  BY <1>4

\* Sums of sums
THEOREM SumPlus ==
    ASSUME NEW S, IsFiniteSet(S), NEW f, Ints(f, S), NEW g, Ints(g, S),
           NEW h, \A x \in S : h[x] = f[x] + g[x]
    PROVE  Sum(h, S) = Sum(f, S) + Sum(g, S)
<1> DEFINE P == {s \in SUBSET S : Sum(h, s) = Sum(f, s) + Sum(g, s)}
<1>0. Ints(h, S)
  BY DEF Ints
<1>1. {} \in P
  BY SumEmpty
<1>2. ASSUME NEW s \in SUBSET S, NEW x \in s, s \ {x} \in P
      PROVE  s \in P
  <2>1. Sum(h, s \ {x}) = Sum(f, s \ {x}) + Sum(g, s \ {x})
    BY <1>2
  <2>2. Sum(f, s) = f[x] + Sum(f, s \ {x})
    BY SubsetFinite, SumRemove
  <2>3. Sum(g, s) = g[x] + Sum(g, s \ {x})
    BY SubsetFinite, SumRemove
  <2>4. Sum(h, s) = h[x] + Sum(h, s \ {x})
    BY <1>0, SubsetFinite, SumRemove
  <2>5. f[x] \in Int /\ g[x] \in Int /\ h[x] = f[x] + g[x]
    BY <1>2 DEF Ints
  <2>6. Sum(f, s \ {x}) \in Int /\ Sum(g, s \ {x}) \in Int
    BY SubsetFinite
  <2>7. Sum(h, s) = Sum(f, s) + Sum(g, s)
    BY <2>1, <2>2, <2>3, <2>4, <2>5, <2>6
  <2> QED
    BY <2>7
<1>3. S \in P
  <2> HIDE DEF P
  <2> QED
    BY <1>1, <1>2, SubsetInduction
<1> QED
  BY <1>3

\* A common factor
THEOREM SumScale ==
    ASSUME NEW S, IsFiniteSet(S), NEW f, Ints(f, S), NEW c \in Int,
           NEW h, \A x \in S : h[x] = c * f[x]
    PROVE  Sum(h, S) = c * Sum(f, S)
<1> DEFINE P == {s \in SUBSET S : Sum(h, s) = c * Sum(f, s)}
<1>0. Ints(h, S)
  BY DEF Ints
<1>1. {} \in P
  BY SumEmpty
<1>2. ASSUME NEW s \in SUBSET S, NEW x \in s, s \ {x} \in P
      PROVE  s \in P
  <2>1. Sum(h, s \ {x}) = c * Sum(f, s \ {x})
    BY <1>2
  <2>2. Sum(f, s) = f[x] + Sum(f, s \ {x})
    BY SubsetFinite, SumRemove
  <2>3. Sum(h, s) = h[x] + Sum(h, s \ {x})
    BY <1>0, SubsetFinite, SumRemove
  <2>4. f[x] \in Int /\ h[x] = c * f[x] /\ Sum(f, s \ {x}) \in Int
    BY <1>2, SubsetFinite DEF Ints
  <2>5. \A i, j \in Int : c * (i + j) = c * i + c * j
    OBVIOUS
  <2>6. Sum(h, s) = c * Sum(f, s)
    BY <2>1, <2>2, <2>3, <2>4, <2>5
  <2> QED
    BY <2>6
<1>3. S \in P
  <2> HIDE DEF P
  <2> QED
    BY <1>1, <1>2, SubsetInduction
<1> QED
  BY <1>3

\* Greater summands have a greater sum.
THEOREM SumMonotone ==
    ASSUME NEW S, IsFiniteSet(S), NEW f, Ints(f, S), NEW g, Ints(g, S),
           \A x \in S : f[x] <= g[x]
    PROVE  Sum(f, S) <= Sum(g, S)
<1> DEFINE P == {s \in SUBSET S : Sum(f, s) <= Sum(g, s)}
<1>1. {} \in P
  BY SumEmpty
<1>2. ASSUME NEW s \in SUBSET S, NEW x \in s, s \ {x} \in P
      PROVE  s \in P
  <2>1. Sum(f, s \ {x}) <= Sum(g, s \ {x})
    BY <1>2
  <2>2. Sum(f, s) = f[x] + Sum(f, s \ {x})
    BY SubsetFinite, SumRemove
  <2>3. Sum(g, s) = g[x] + Sum(g, s \ {x})
    BY SubsetFinite, SumRemove
  <2>4. f[x] \in Int /\ g[x] \in Int /\ f[x] <= g[x]
    BY <1>2 DEF Ints
  <2>5. Sum(f, s \ {x}) \in Int /\ Sum(g, s \ {x}) \in Int
    BY SubsetFinite
  <2>6. Sum(f, s) <= Sum(g, s)
    BY <2>1, <2>2, <2>3, <2>4, <2>5
  <2> QED
    BY <2>6
<1>3. S \in P
  <2> HIDE DEF P
  <2> QED
    BY <1>1, <1>2, SubsetInduction
<1> QED
  BY <1>3

\* The same number over and over
THEOREM SumConst ==
    ASSUME NEW S, IsFiniteSet(S), NEW f, NEW c \in Int, \A x \in S : f[x] = c
    PROVE  Sum(f, S) = c * Cardinality(S)
<1> DEFINE P == {s \in SUBSET S : Sum(f, s) = c * Cardinality(s)}
<1>0. Ints(f, S)
  BY DEF Ints
<1>1. {} \in P
  BY SumEmpty, FS_EmptySet
<1>2. ASSUME NEW s \in SUBSET S, NEW x \in s, s \ {x} \in P
      PROVE  s \in P
  <2>1. Sum(f, s \ {x}) = c * Cardinality(s \ {x})
    BY <1>2
  <2>2. Sum(f, s) = c + Sum(f, s \ {x})
    BY <1>0, SubsetFinite, SumRemove
  <2>3. IsFiniteSet(s)
    BY FS_Subset
  <2>4. Cardinality(s \ {x}) = Cardinality(s) - 1 /\ Cardinality(s) \in Nat
    BY <2>3, FS_RemoveElement, FS_CardinalityType
  <2>5. \A n \in Nat : c + c * (n - 1) = c * n
    OBVIOUS
  <2>6. Sum(f, s) = c * Cardinality(s)
    BY <2>1, <2>2, <2>4, <2>5
  <2> QED
    BY <2>6
<1>3. S \in P
  <2> HIDE DEF P
  <2> QED
    BY <1>1, <1>2, SubsetInduction
<1> QED
  BY <1>3

(* A sum of zeros is zero. *)
THEOREM SumZero ==
    ASSUME NEW S, IsFiniteSet(S), NEW f, \A x \in S : f[x] = 0
    PROVE  Sum(f, S) = 0
<1>1. Sum(f, S) = 0 * Cardinality(S) /\ Cardinality(S) \in Nat
  BY SumConst, FS_CardinalityType
<1> QED
  BY <1>1

\* A sum of ones where x is in T, and zeros elsewhere, counts.
THEOREM SumCounts ==
    ASSUME NEW S, IsFiniteSet(S), NEW T, NEW f, \A x \in S : f[x] = IF x \in T THEN 1 ELSE 0
    PROVE  Sum(f, S) = Cardinality(S \cap T) /\ Cardinality(S \cap T) \in Nat
<1>1. IsFiniteSet(S \cap T) /\ IsFiniteSet(S \ T)
  BY FS_Subset
<1>2. Ints(f, S \cap T) /\ Ints(f, S \ T)
  BY DEF Ints
<1>3. (S \cap T) \cap (S \ T) = {} /\ S = (S \cap T) \cup (S \ T)
  OBVIOUS
<1>4. Sum(f, S) = Sum(f, S \cap T) + Sum(f, S \ T)
  <2> DEFINE A == S \cap T
             B == S \ T
  <2>1. IsFiniteSet(A) /\ IsFiniteSet(B) /\ A \cap B = {} /\ Ints(f, A) /\ Ints(f, B)
    BY <1>1, <1>2, <1>3
  <2>2. S = A \cup B
    OBVIOUS
  <2> HIDE DEF A, B
  <2>3. Sum(f, A \cup B) = Sum(f, A) + Sum(f, B)
    BY <2>1, SumUnion
  <2> QED
    BY <2>2, <2>3 DEF A, B
<1>5. Sum(f, S \cap T) = 1 * Cardinality(S \cap T)
  <2>1. \A x \in S \cap T : f[x] = 1
    OBVIOUS
  <2> QED
    BY <1>1, <2>1, SumConst
<1>6. Sum(f, S \ T) = 0
  <2>1. \A x \in S \ T : f[x] = 0
    OBVIOUS
  <2> QED
    BY <1>1, <2>1, SumZero
<1>7. Cardinality(S \cap T) \in Nat
  BY <1>1, FS_CardinalityType
<1> QED
  BY <1>4, <1>5, <1>6, <1>7

(* A finite sum of naturals is a natural, and no term is larger than the sum. *)
THEOREM SumNat ==
    ASSUME NEW S, IsFiniteSet(S), NEW f, \A x \in S : f[x] \in Nat
    PROVE  /\ Sum(f, S) \in Nat
           /\ \A x \in S : f[x] <= Sum(f, S)
<1> DEFINE z == [x \in S |-> 0]
<1>1. Ints(f, S) /\ Ints(z, S)
  BY DEF Ints
<1>2. \A s \in SUBSET S : Sum(f, s) \in Nat
  <2> TAKE s \in SUBSET S
  <2>1. IsFiniteSet(s) /\ Ints(f, s) /\ Ints(z, s) /\ Sum(f, s) \in Int
    BY <1>1, SubsetFinite
  <2>2. Sum(z, s) = 0
    BY <2>1, SumZero
  <2>3. \A x \in s : z[x] <= f[x]
    OBVIOUS
  <2>4. Sum(z, s) <= Sum(f, s)
    <3> HIDE DEF z
    <3> QED
      BY <2>1, <2>3, SumMonotone
  <2> QED
    BY <2>1, <2>2, <2>4
<1>3. ASSUME NEW x \in S PROVE f[x] <= Sum(f, S)
  <2>1. Sum(f, S) = f[x] + Sum(f, S \ {x}) /\ Sum(f, S \ {x}) \in Nat
    BY <1>1, <1>2, SumRemove
  <2> QED
    BY <2>1
<1> QED
  BY <1>2, <1>3

\* The elements with a key
Group(S, key, k) == {x \in S : key[x] = k}

\* A sum by groups
LEMMA GroupedSum ==
    ASSUME NEW S, IsFiniteSet(S), NEW f, Ints(f, S),
           NEW K, IsFiniteSet(K), NEW key, \A x \in S : key[x] \in K,
           NEW g, \A k \in K : g[k] = Sum(f, Group(S, key, k))
    PROVE  Sum(f, S) = Sum(g, K)
<1> DEFINE Within(k) == {x \in S : key[x] \in k}
           P == {k \in SUBSET K : Sum(f, Within(k)) = Sum(g, k)}
<1>1. {} \in P
  <2>1. Within({}) = {}
    OBVIOUS
  <2> QED
    BY <2>1, SumEmpty
<1>2. Ints(g, K)
  <2>1. \A k \in K : Sum(f, Group(S, key, k)) \in Int
    <3> TAKE k \in K
    <3>1. Group(S, key, k) \in SUBSET S
      BY DEF Group
    <3> QED
      BY <3>1, SubsetFinite
  <2> QED
    BY <2>1 DEF Ints
<1>3. ASSUME NEW k \in SUBSET K, NEW y \in k, k \ {y} \in P
      PROVE  k \in P
  <2> DEFINE A == Group(S, key, y)
             B == Within(k \ {y})
  <2>1. A \in SUBSET S /\ B \in SUBSET S /\ A \cap B = {} /\ A \cup B = Within(k)
    BY DEF Group
  <2>2. Sum(f, B) = Sum(g, k \ {y})
    BY <1>3
  <2>3. g[y] = Sum(f, A)
    BY <1>3
  <2> HIDE DEF A, B
  <2>4. Sum(f, A \cup B) = Sum(f, A) + Sum(f, B)
    BY <2>1, SubsetFinite, SumUnion
  <2>5. Sum(g, k) = g[y] + Sum(g, k \ {y})
    BY <1>2, SubsetFinite, SumRemove
  <2>6. Sum(f, Within(k)) = Sum(g, k)
    BY <2>1, <2>2, <2>3, <2>4, <2>5
  <2> QED
    BY <2>6
<1>4. K \in P
  <2> HIDE DEF P
  <2> QED
    BY <1>1, <1>3, SubsetInduction
<1>5. Within(K) = S
  OBVIOUS
<1> QED
  BY <1>4, <1>5

\* The summands grouped by a key
THEOREM SumPartition ==
    ASSUME NEW S, IsFiniteSet(S), NEW f, Ints(f, S),
           NEW K, IsFiniteSet(K), NEW key, \A x \in S : key[x] \in K,
           NEW g, \A k \in K : g[k] = Sum(f, {x \in S : key[x] = k})
    PROVE  Sum(f, S) = Sum(g, K)
<1>1. \A k \in K : g[k] = Sum(f, Group(S, key, k))
  BY DEF Group
<1> QED
  BY <1>1, GroupedSum

\* The summands under other names
THEOREM SumRename ==
    ASSUME NEW S, IsFiniteSet(S), NEW f, Ints(f, S),
           NEW K, IsFiniteSet(K), NEW name, \A x \in S : name[x] \in K,
           \A x, y \in S : name[x] = name[y] => x = y,
           \A k \in K : \E x \in S : name[x] = k,
           NEW g, \A x \in S : g[name[x]] = f[x]
    PROVE  Sum(f, S) = Sum(g, K)
<1>1. ASSUME NEW k \in K PROVE g[k] = Sum(f, {x \in S : name[x] = k})
  <2>1. PICK x \in S : name[x] = k
    OBVIOUS
  <2>2. {y \in S : name[y] = k} = {x}
    BY <2>1
  <2>3. IsFiniteSet({x}) /\ Ints(f, {x}) /\ {x} \ {x} = {} /\ f[x] \in Int
    BY FS_Singleton DEF Ints
  <2>4. Sum(f, {x}) = f[x] + Sum(f, {x} \ {x})
    BY <2>3, SumRemove
  <2>5. Sum(f, {x} \ {x}) = 0
    BY <2>3, SumEmpty
  <2>6. Sum(f, {x}) = f[x]
    BY <2>3, <2>4, <2>5
  <2> QED
    BY <2>1, <2>2, <2>6
<1> QED
  BY <1>1, SumPartition

\* The image of a finite set
THEOREM ImageFinite ==
    ASSUME NEW S, IsFiniteSet(S), NEW f
    PROVE  IsFiniteSet({f[x] : x \in S})
<1> DEFINE T == {f[x] : x \in S}
           g == [x \in S |-> f[x]]
<1>1. g \in Surjection(S, T)
  BY DEF Surjection
<1> QED
  BY <1>1, FS_Surjection

\* A pair is finite.
LEMMA PairFinite == \A x, y : IsFiniteSet({x, y})
<1> SUFFICES ASSUME NEW x, NEW y PROVE IsFiniteSet({x, y})
  OBVIOUS
<1>1. IsFiniteSet({x}) /\ {x, y} = {x} \cup {y}
  BY FS_Singleton
<1> QED
  BY <1>1, FS_AddElement

\* The sum over two
LEMMA SumTwo ==
    ASSUME NEW a, NEW b, a # b, NEW f, f[a] \in Int, f[b] \in Int
    PROVE  IsFiniteSet({a, b}) /\ Ints(f, {a, b}) /\ Sum(f, {a, b}) = f[a] + f[b]
<1>1. IsFiniteSet({a, b}) /\ IsFiniteSet({b}) /\ Ints(f, {a, b}) /\ Ints(f, {b})
  BY PairFinite, FS_Singleton DEF Ints
<1>2. Sum(f, {a, b}) = f[a] + Sum(f, {a, b} \ {a})
  BY <1>1, SumRemove
<1>3. {a, b} \ {a} = {b} /\ {b} \ {b} = {}
  OBVIOUS
<1>4. Sum(f, {b}) = f[b] + Sum(f, {b} \ {b})
  BY <1>1, SumRemove
<1>5. Sum(f, {b}) = f[b]
  <2>1. Sum(f, {b} \ {b}) = 0
    BY <1>3, SumEmpty
  <2> QED
    BY <1>4, <2>1
<1> QED
  BY <1>1, <1>2, <1>3, <1>5

\* What is left when zeros are dropped has the same sum.
LEMMA SumNonzero ==
    ASSUME NEW S, IsFiniteSet(S), NEW f, Ints(f, S), NEW N, N = {x \in S : f[x] # 0},
           NEW g, \A x \in N : g[x] = f[x]
    PROVE  Sum(g, N) = Sum(f, S)
<1> DEFINE Z == S \ N
<1>1. N \in SUBSET S /\ Z \in SUBSET S /\ N \cap Z = {} /\ N \cup Z = S
  OBVIOUS
<1>2. \A x \in Z : f[x] = 0
  OBVIOUS
<1> HIDE DEF Z
<1>3. IsFiniteSet(N) /\ Ints(f, N) /\ IsFiniteSet(Z) /\ Ints(f, Z) /\ Sum(f, N) \in Int
  BY <1>1, SubsetFinite
<1>4. Sum(f, S) = Sum(f, N) + Sum(f, Z)
  BY <1>1, <1>3, SumUnion
<1>5. Sum(f, Z) = 0
  BY <1>2, <1>3, SumZero
<1>6. Sum(g, N) = Sum(f, N)
  BY SumSame
<1> QED
  BY <1>3, <1>4, <1>5, <1>6

-----------------------------------------------------------------------------
(* Least and greatest elements *)

\* A set renamed one to one keeps its size.
THEOREM ImageCardinality ==
    ASSUME NEW S, IsFiniteSet(S), NEW name, \A x, y \in S : name[x] = name[y] => x = y
    PROVE  LET N == {name[x] : x \in S}
           IN  IsFiniteSet(N) /\ Cardinality(N) = Cardinality(S)
<1> DEFINE N == {name[x] : x \in S}
           one == [x \in S |-> 1]
           ones == [k \in N |-> 1]
<1>1. IsFiniteSet(N)
  BY ImageFinite
<1>2. /\ Ints(one, S) /\ \A x \in S : name[x] \in N /\ ones[name[x]] = one[x] /\ one[x] = 1
      /\ \A k \in N : ones[k] = 1 /\ \E x \in S : name[x] = k
  BY DEF Ints
<1> HIDE DEF N, one, ones
<1>3. Sum(one, S) = Sum(ones, N)
  BY <1>1, <1>2, SumRename
<1>4. Sum(one, S) = 1 * Cardinality(S) /\ Sum(ones, N) = 1 * Cardinality(N)
  BY <1>1, <1>2, SumConst
<1>5. Cardinality(S) \in Nat /\ Cardinality(N) \in Nat
  BY <1>1, FS_CardinalityType
<1>6. Cardinality(N) = Cardinality(S)
  <2>1. \A n \in Nat : 1 * n = n
    OBVIOUS
  <2>2. 1 * Cardinality(S) = 1 * Cardinality(N)
    BY <1>3, <1>4
  <2> QED
    BY <1>5, <2>1, <2>2
<1> QED
  BY <1>1, <1>6 DEF N

\* What Min and Max choose, if there is something to choose
LEMMA MinBounded ==
    ASSUME NEW S \in SUBSET Int, S # {}, NEW b \in Int, \A x \in S : b <= x
    PROVE  Min(S) \in S /\ \A y \in S : Min(S) <= y
<1> DEFINE T == {n \in Nat : b + n \in S}
<1>1. T # {}
  <2>1. PICK x \in S : TRUE
    OBVIOUS
  <2>2. x - b \in Nat /\ b + (x - b) = x
    BY <2>1
  <2> QED
    BY <2>2
<1>2. PICK n \in T : \A m \in T : n <= m
  <2> HIDE DEF T
  <2>1. T \in SUBSET Nat
    BY DEF T
  <2> QED
    BY <1>1, <2>1, LeastNat
<1>3. \A y \in S : b + n <= y
  <2> TAKE y \in S
  <2>1. y - b \in Nat /\ b + (y - b) = y
    OBVIOUS
  <2>2. n <= y - b
    BY <1>2, <2>1
  <2> QED
    BY <1>2, <2>1, <2>2
<1>4. \E x \in S : \A y \in S : x <= y
  BY <1>2, <1>3
<1> QED
  BY <1>4 DEF Min

(* A nonempty set of integers with an upper bound has a largest element. *)
LEMMA MaxBounded ==
    ASSUME NEW S \in SUBSET Int, S # {}, NEW b \in Int, \A x \in S : x <= b
    PROVE  Max(S) \in S /\ \A y \in S : y <= Max(S)
<1> DEFINE T == {n \in Nat : b - n \in S}
<1>1. T # {}
  <2>1. PICK x \in S : TRUE
    OBVIOUS
  <2>2. b - x \in Nat /\ b - (b - x) = x
    BY <2>1
  <2> QED
    BY <2>2
<1>2. PICK n \in T : \A m \in T : n <= m
  <2> HIDE DEF T
  <2>1. T \in SUBSET Nat
    BY DEF T
  <2> QED
    BY <1>1, <2>1, LeastNat
<1>3. \A y \in S : y <= b - n
  <2> TAKE y \in S
  <2>1. b - y \in Nat /\ b - (b - y) = y
    OBVIOUS
  <2>2. n <= b - y
    BY <1>2, <2>1
  <2> QED
    BY <1>2, <2>1, <2>2
<1>4. \E x \in S : \A y \in S : x >= y
  BY <1>2, <1>3
<1> QED
  BY <1>4 DEF Max

\* A finite set of numbers has bounds, and so Min and Max.
LEMMA FiniteBounds ==
    ASSUME NEW S \in SUBSET Int, IsFiniteSet(S)
    PROVE  \E a, b \in Int : \A x \in S : a <= x /\ x <= b
<1> DEFINE P == {s \in SUBSET S : \E a, b \in Int : \A x \in s : a <= x /\ x <= b}
<1>1. {} \in P
  OBVIOUS
<1>2. ASSUME NEW s \in SUBSET S, NEW y \in s, s \ {y} \in P
      PROVE  s \in P
  <2>1. PICK a, b \in Int : \A x \in s \ {y} : a <= x /\ x <= b
    BY <1>2
  <2> DEFINE c == IF a <= y THEN a ELSE y
             d == IF y <= b THEN b ELSE y
  <2>2. c \in Int /\ d \in Int
    OBVIOUS
  <2>3. \A x \in s : c <= x /\ x <= d
    BY <2>1
  <2> QED
    BY <2>2, <2>3
<1>3. S \in P
  <2> HIDE DEF P
  <2> QED
    BY <1>1, <1>2, SubsetInduction
<1> QED
  BY <1>3

(* A finite nonempty set of integers has a smallest and a largest element. *)
THEOREM MinMaxIn ==
    ASSUME NEW S \in SUBSET Int, IsFiniteSet(S), S # {}
    PROVE  /\ Min(S) \in S /\ \A y \in S : Min(S) <= y
           /\ Max(S) \in S /\ \A y \in S : y <= Max(S)
<1>1. PICK a, b \in Int : \A x \in S : a <= x /\ x <= b
  BY FiniteBounds
<1> QED
  BY <1>1, MinBounded, MaxBounded

-----------------------------------------------------------------------------
(* Sums of differences, of products, and of what is not 0 *)

\* A sum of differences
THEOREM SumTelescopes ==
    ASSUME NEW m \in Int, NEW n \in Int, m <= n,
           NEW f, \A k \in (m - 1)..n : f[k] \in Int,
           NEW g, \A k \in m..n : g[k] = f[k] - f[k - 1]
    PROVE  Sum(g, m..n) = f[n] - f[m - 1]
<1> DEFINE T == {k \in Nat : m + k <= n /\ Sum(g, m..(m + k)) # f[m + k] - f[m - 1]}
<1>1. SUFFICES T = {}
  <2>1. n - m \in Nat /\ m + (n - m) = n
    OBVIOUS
  <2>2. n - m \notin T
    BY <1>1
  <2>3. Sum(g, m..(m + (n - m))) = f[m + (n - m)] - f[m - 1]
    BY <2>1, <2>2
  <2> HIDE DEF T
  <2> QED
    BY <2>1, <2>3
<1>2. SUFFICES ASSUME T # {} PROVE FALSE
  OBVIOUS
<1>3. PICK k \in T : \A i \in T : k <= i
  <2>1. T \in SUBSET Nat
    OBVIOUS
  <2> HIDE DEF T
  <2> QED
    BY <1>2, <2>1, LeastNat
<1>4. k \in Nat /\ m + k <= n /\ Sum(g, m..(m + k)) # f[m + k] - f[m - 1]
  OBVIOUS
<1> DEFINE S == m..(m + k)
           x == m + k
<1>5. IsFiniteSet(S) /\ Ints(g, S) /\ x \in S
  <2>1. IsFiniteSet(S)
    BY <1>4, FS_Interval, m \in Int, m + k \in Int
  <2>2. \A i \in S : g[i] = f[i] - f[i - 1] /\ f[i] \in Int /\ f[i - 1] \in Int
    <3> SUFFICES ASSUME NEW i \in S PROVE g[i] = f[i] - f[i - 1] /\ f[i] \in Int /\ f[i - 1] \in Int
      OBVIOUS
    <3>1. i \in m..n /\ i \in (m - 1)..n /\ i - 1 \in (m - 1)..n
      BY <1>4
    <3> QED
      BY <3>1
  <2>3. Ints(g, S)
    BY <2>2 DEF Ints
  <2>4. x \in S
    BY <1>4
  <2> QED
    BY <2>1, <2>3, <2>4
<1>6. Sum(g, S) = g[x] + Sum(g, S \ {x})
  <2> HIDE DEF S, x
  <2> QED
    BY <1>5, SumRemove
<1>7. g[x] = f[x] - f[x - 1] /\ f[x] \in Int /\ f[x - 1] \in Int /\ f[m - 1] \in Int
  <2>1. x \in m..n /\ x \in (m - 1)..n /\ x - 1 \in (m - 1)..n /\ m - 1 \in (m - 1)..n
    BY <1>4
  <2> HIDE DEF x
  <2> QED
    BY <2>1
<1>8. CASE k = 0
  <2>1. S \ {x} = {} /\ x - 1 = m - 1 /\ x = m + k
    BY <1>4, <1>8
  <2>2. Sum(g, S \ {x}) = 0
    BY <2>1, SumEmpty
  <2>3. f[x - 1] = f[m - 1]
    BY <2>1
  <2>4. Sum(g, S) = f[x] - f[m - 1]
    <3> HIDE DEF x, S
    <3> QED
      BY <1>6, <1>7, <2>2, <2>3
  <2> QED
    BY <1>4, <2>4
<1>9. CASE k # 0
  <2>1. k - 1 \in Nat /\ m + (k - 1) <= n /\ ~(k <= k - 1) /\ m + (k - 1) = x - 1
    BY <1>4, <1>9
  <2>2. k - 1 \notin T
    <3> HIDE DEF T
    <3> QED
      BY <1>3, <2>1
  <2>3. Sum(g, m..(m + (k - 1))) = f[m + (k - 1)] - f[m - 1]
    BY <2>1, <2>2
  <2>4. S \ {x} = m..(m + (k - 1))
    <3>1. ASSUME NEW i \in S, i # x PROVE i \in m..(m + (k - 1))
      BY <1>4, <2>1, <3>1
    <3>2. ASSUME NEW i \in m..(m + (k - 1)) PROVE i \in S /\ i # x
      BY <1>4, <2>1
    <3> DEFINE U == m..(m + (k - 1))
    <3> HIDE DEF S, x, U
    <3>3. S \ {x} = U
      BY <3>1, <3>2 DEF U
    <3> QED
      BY <3>3 DEF U
  <2>5. Sum(g, S \ {x}) = f[x - 1] - f[m - 1]
    <3> HIDE DEF T, S, x
    <3> QED
      BY <2>1, <2>3, <2>4
  <2>6. Sum(g, S) = f[x] - f[m - 1]
    <3> HIDE DEF x, S
    <3> QED
      BY <1>6, <1>7, <2>5
  <2> QED
    BY <1>4, <2>6
<1> QED
  BY <1>4, <1>8, <1>9

\* Where it is 0, nothing is added.
THEOREM SumSupport ==
    ASSUME NEW S, IsFiniteSet(S), NEW N \in SUBSET S, NEW f, Ints(f, N),
           \A x \in S \ N : f[x] = 0
    PROVE  Sum(f, S) = Sum(f, N)
<1> DEFINE Z == S \ N
<1>1. N \cap Z = {} /\ N \cup Z = S /\ IsFiniteSet(N) /\ IsFiniteSet(Z) /\ Ints(f, Z)
  BY FS_Subset DEF Ints
<1>2. Sum(f, N \cup Z) = Sum(f, N) + Sum(f, Z)
  <2> HIDE DEF Z
  <2> QED
    BY <1>1, SumUnion
<1>3. Sum(f, Z) = 0 /\ Sum(f, N) \in Int
  BY <1>1, SumZero, SumInt
<1>4. Sum(f, N) + Sum(f, Z) = Sum(f, N)
  BY <1>3
<1>5. Sum(f, N \cup Z) = Sum(f, N)
  BY <1>2, <1>4
<1>6. N \cup Z = S
  BY <1>1
<1> HIDE DEF Z
<1> QED
  BY <1>5, <1>6

\* One row of the summands of pairs
Slice(h, S, t) == [s \in S |-> h[<<s, t>>]]

\* A sum over pairs
THEOREM SumPairs ==
    ASSUME NEW S, IsFiniteSet(S), NEW T, IsFiniteSet(T), NEW h, Ints(h, S \X T),
           NEW g, \A t \in T : g[t] = Sum(Slice(h, S, t), S)
    PROVE  Sum(h, S \X T) = Sum(g, T)
<1> DEFINE D == S \X T
           key == [p \in D |-> p[2]]
<1>1. IsFiniteSet(D) /\ \A p \in D : key[p] \in T
  BY FS_Product
<1>2. ASSUME NEW t \in T
      PROVE  g[t] = Sum(h, Group(D, key, t))
  <2> DEFINE K == Group(D, key, t)
             name == [s \in S |-> <<s, t>>]
             f == [s \in S |-> h[<<s, t>>]]
  <2>0. K = {p \in D : key[p] = t}
    BY DEF Group
  <2>1. /\ \A s \in S : name[s] \in K /\ h[name[s]] = f[s] /\ f[s] \in Int
        /\ \A x, y \in S : name[x] = name[y] => x = y
    BY <2>0 DEF Ints
  <2>2. \A p \in K : \E s \in S : name[s] = p
    <3> SUFFICES ASSUME NEW p \in K PROVE \E s \in S : name[s] = p
      OBVIOUS
    <3>1. p \in S \X T /\ p[2] = t
      <4>1. p \in D /\ key[p] = t
        BY <2>0
      <4> QED
        BY <4>1
    <3> HIDE DEF K, D, key, name
    <3>2. p[1] \in S /\ p = <<p[1], t>>
      BY <3>1
    <3>3. name[p[1]] = <<p[1], t>>
      BY <3>2 DEF name
    <3> QED
      BY <3>2, <3>3
  <2>3. IsFiniteSet(K) /\ Ints(f, S)
    BY <1>1, <2>0, <2>1, FS_Subset DEF Ints
  <2> HIDE DEF K, name, f, D, key
  <2>4. Sum(f, S) = Sum(h, K)
    BY <2>1, <2>2, <2>3, SumRename
  <2> QED
    BY <2>4 DEF f, K, Slice
<1> HIDE DEF D, key
<1>3. Ints(h, D)
  BY DEF D
<1>4. Sum(h, D) = Sum(g, T)
  BY <1>1, <1>2, <1>3, GroupedSum
<1> QED
  BY <1>4 DEF D

\* A sum of products
THEOREM SumProducts ==
    ASSUME NEW S, IsFiniteSet(S), NEW f, Ints(f, S), NEW T, IsFiniteSet(T), NEW g, Ints(g, T),
           NEW h, \A p \in S \X T : h[p] = f[p[1]] * g[p[2]]
    PROVE  Sum(h, S \X T) = Sum(f, S) * Sum(g, T)
<1> DEFINE a == Sum(f, S)
           r == [t \in T |-> a * g[t]]
<1>1. a \in Int
  BY SumInt
<1>2. Ints(h, S \X T)
  <2> SUFFICES ASSUME NEW p \in S \X T PROVE h[p] \in Int
    BY DEF Ints
  <2>1. f[p[1]] \in Int /\ g[p[2]] \in Int
    BY DEF Ints
  <2>2. f[p[1]] * g[p[2]] \in Int
    BY <2>1
  <2> QED
    BY <2>2
<1>3. ASSUME NEW t \in T
      PROVE  r[t] = Sum(Slice(h, S, t), S)
  <2> DEFINE k == [s \in S |-> h[<<s, t>>]]
             c == g[t]
  <2>1. c \in Int
    BY DEF Ints
  <2>2. \A s \in S : k[s] = c * f[s]
    <3> SUFFICES ASSUME NEW s \in S PROVE k[s] = c * f[s]
      OBVIOUS
    <3>1. <<s, t>> \in S \X T /\ <<s, t>>[1] = s /\ <<s, t>>[2] = t
      OBVIOUS
    <3>2. k[s] = f[s] * c
      BY <3>1
    <3>3. f[s] \in Int
      BY DEF Ints
    <3> HIDE DEF k, c
    <3> QED
      BY <2>1, <3>2, <3>3
  <2> HIDE DEF k, c
  <2>3. Sum(k, S) = c * a
    BY <2>1, <2>2, SumScale
  <2>4. c * a = a * c
    <3> HIDE DEF a
    <3> QED
      BY <1>1, <2>1
  <2> QED
    BY <2>3, <2>4 DEF k, c, Slice
<1>4. Sum(h, S \X T) = Sum(r, T)
  <2> HIDE DEF r
  <2> QED
    BY <1>2, <1>3, SumPairs
<1>5. Sum(r, T) = a * Sum(g, T)
  <2>1. \A t \in T : r[t] = a * g[t]
    OBVIOUS
  <2> HIDE DEF r, a
  <2> QED
    BY <1>1, <2>1, SumScale
<1> QED
  BY <1>4, <1>5
=============================================================================
