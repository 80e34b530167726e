---------------------------- MODULE Regrid_proofs ----------------------------
(***************************************************************************)
(* Theorems about the sparse matrices of a regridder: sums of entries do   *)
(* not depend on how the entries are grouped, and the matrices of parts of *)
(* the ice add up to those of all of it.                                   *)
(***************************************************************************)
EXTENDS Regrid, SumTheorems

\* The sum of the values of entries, and that by a key of the entries
Total(A) == Sum([t \in A |-> t[4]], A)
Tally(T, key) == [k \in {key[t] : t \in T} |-> Total({t \in T : key[t] = k})]

\* Entries, finitely many, with numbers
Entries(T) == IsFiniteSet(T) /\ \A t \in T : t[4] \in Int

PlaceOf(T) == [t \in T |-> <<t[2], t[3]>>]
RowIn(T) == [t \in T |-> t[2]]
ColIn(T) == [t \in T |-> t[3]]

-----------------------------------------------------------------------------
(* Entries and their sums *)

(* The total of some entries is a sum over them of the fourth components of all entries. *)
LEMMA TotalIn ==
    ASSUME NEW T, NEW A \in SUBSET T
    PROVE  Total(A) = Sum([t \in T |-> t[4]], A)
BY SumSame DEF Total

(* Some of a finite set of entries are entries too, and their total is an integer. *)
LEMMA EntriesSubset ==
    ASSUME NEW T, Entries(T), NEW A \in SUBSET T
    PROVE  Entries(A) /\ Total(A) \in Int
<1>1. Entries(A)
  BY FS_Subset DEF Entries
<1>2. Ints([t \in A |-> t[4]], A)
  BY <1>1 DEF Entries, Ints
<1> QED
  BY <1>1, <1>2, SumInt DEF Entries, Total

(* No entries weigh nothing. *)
LEMMA TotalEmpty == Total({}) = 0
BY SumEmpty DEF Total

\* The weight at a key is the sum of the entries there.
LEMMA AtTally ==
    ASSUME NEW T, NEW key, NEW k
    PROVE  At(Tally(T, key), k) = Total({t \in T : key[t] = k})
<1>1. CASE k \in {key[t] : t \in T}
  BY <1>1 DEF At, Tally
<1>2. CASE k \notin {key[t] : t \in T}
  <2>1. {t \in T : key[t] = k} = {}
    BY <1>2
  <2> QED
    BY <1>2, <2>1, TotalEmpty DEF At, Tally
<1> QED
  BY <1>1, <1>2

\* The entries grouped by anything
LEMMA TotalPartition ==
    ASSUME NEW T, Entries(T), NEW K, IsFiniteSet(K), NEW key, \A t \in T : key[t] \in K
    PROVE  Total(T) = Sum([k \in K |-> Total({t \in T : key[t] = k})], K)
<1> DEFINE f == [t \in T |-> t[4]]
           g == [k \in K |-> Total({t \in T : key[t] = k})]
<1>1. Ints(f, T) /\ IsFiniteSet(T)
  BY DEF Entries, Ints
<1>2. \A k \in K : g[k] = Sum(f, {t \in T : key[t] = k})
  BY TotalIn
<1> HIDE DEF f, g
<1>3. Sum(f, T) = Sum(g, K)
  BY <1>1, <1>2, SumPartition
<1> QED
  BY <1>3 DEF f, g, Total

\* A matrix is the tally of its entries by place, its row and column sums are the
\* tallies by row and by column.
THEOREM AccumulateTally ==
    ASSUME NEW T
    PROVE  Accumulate(T) = Tally(T, PlaceOf(T))
<1>1. ASSUME NEW A PROVE MapThenSumSet(LAMBDA t : t[4], A) = Total(A)
  BY DEF Total, Sum, MapThenSumSet, MapThenFoldSet
<1>2. {<<t[2], t[3]>> : t \in T} = {PlaceOf(T)[t] : t \in T}
  BY DEF PlaceOf
<1>3. ASSUME NEW rc
      PROVE  {t \in T : <<t[2], t[3]>> = rc} = {t \in T : PlaceOf(T)[t] = rc}
  BY DEF PlaceOf
<1> QED
  BY <1>1, <1>2, <1>3 DEF Accumulate, Tally

\* One entry alone is its number.
LEMMA TotalSingle ==
    ASSUME NEW t, t[4] \in Int
    PROVE  Total({t}) = t[4]
<1> DEFINE f == [u \in {t} |-> u[4]]
<1>1. IsFiniteSet({t}) /\ Ints(f, {t}) /\ {t} \ {t} = {} /\ f[t] = t[4] /\ t \in {t}
  BY FS_Singleton DEF Ints
<1> HIDE DEF f
<1>2. Sum(f, {t}) = f[t] + Sum(f, {t} \ {t})
  BY <1>1, SumRemove
<1>3. Sum(f, {t}) = t[4]
  BY <1>1, <1>2, SumEmpty
<1> QED
  BY <1>3 DEF Total, f

\* Entries that lie at places of their own are what the matrix holds there.
LEMMA AccumulateApart ==
    ASSUME NEW T, \A t \in T : t[4] \in Int,
           \A t, u \in T : t[2] = u[2] /\ t[3] = u[3] => t = u
    PROVE  /\ DOMAIN Accumulate(T) = {<<t[2], t[3]>> : t \in T}
           /\ \A t \in T : Accumulate(T)[<<t[2], t[3]>>] = t[4]
<1>1. Accumulate(T) = Tally(T, PlaceOf(T))
  BY AccumulateTally
<1>2. \A t \in T : PlaceOf(T)[t] = <<t[2], t[3]>>
  BY DEF PlaceOf
<1>3. DOMAIN Accumulate(T) = {<<t[2], t[3]>> : t \in T}
  BY DEF Accumulate
<1>4. ASSUME NEW t \in T PROVE Accumulate(T)[<<t[2], t[3]>>] = t[4]
  <2>1. {u \in T : PlaceOf(T)[u] = <<t[2], t[3]>>} = {t}
    BY <1>2
  <2>2. <<t[2], t[3]>> \in {PlaceOf(T)[u] : u \in T}
    BY <1>2
  <2>3. Accumulate(T)[<<t[2], t[3]>>] = Total({u \in T : PlaceOf(T)[u] = <<t[2], t[3]>>})
    BY <1>1, <2>2 DEF Tally
  <2> QED
    BY <2>1, <2>3, TotalSingle
<1> QED
  BY <1>3, <1>4

(* The matrix that accumulates finitely many entries has finitely many places. *)
LEMMA PlacesFinite ==
    ASSUME NEW T, IsFiniteSet(T)
    PROVE  IsFiniteSet(DOMAIN Accumulate(T))
<1>1. DOMAIN Accumulate(T) = {PlaceOf(T)[t] : t \in T}
  BY AccumulateTally DEF Tally
<1> QED
  BY <1>1, ImageFinite

(* The sum of a row of an accumulated matrix is the total of the entries put in that row
   (wM, the row sums of combine_global_ec and of the regridding matrices). *)
THEOREM RowSumTally ==
    ASSUME NEW T, Entries(T)
    PROVE  RowSum(Accumulate(T)) = Tally(T, RowIn(T))
<1> DEFINE M == Accumulate(T)
           place == PlaceOf(T)
<1>1. M = Tally(T, place)
  BY AccumulateTally
<1>2. DOMAIN M = {place[t] : t \in T}
  BY <1>1 DEF Tally
<1>3. RowsOf(M) = {RowIn(T)[t] : t \in T}
  <2>1. \A t \in T : place[t][1] = RowIn(T)[t]
    BY DEF RowIn, PlaceOf
  <2>2. RowsOf(M) = {rc[1] : rc \in {place[t] : t \in T}}
    BY <1>2 DEF RowsOf
  <2> HIDE DEF M, place
  <2> QED
    BY <2>1, <2>2
<1>4. ASSUME NEW r
      PROVE  MapThenSumSet(LAMBDA rc : M[rc], {rc \in DOMAIN M : rc[1] = r})
             = Total({t \in T : RowIn(T)[t] = r})
  <2> DEFINE K == {rc \in DOMAIN M : rc[1] = r}
             A == {t \in T : RowIn(T)[t] = r}
  <2>1. MapThenSumSet(LAMBDA rc : M[rc], K) = Sum(M, K)
    BY DEF Sum
  <2>2. IsFiniteSet(K)
    BY PlacesFinite, FS_Subset DEF Entries
  <2>3. Entries(A) /\ \A t \in A : place[t] \in K
    BY <1>2, EntriesSubset DEF RowIn, PlaceOf
  <2>4. \A k \in K : M[k] = Total({t \in A : place[t] = k})
    <3> TAKE k \in K
    <3>1. {t \in A : place[t] = k} = {t \in T : place[t] = k}
      BY DEF RowIn, PlaceOf
    <3> QED
      BY <1>1, <3>1 DEF Tally
  <2> HIDE DEF M, K, A, place
  <2>5. Total(A) = Sum([k \in K |-> Total({t \in A : place[t] = k})], K)
    BY <2>2, <2>3, TotalPartition
  <2>6. Sum(M, K) = Sum([k \in K |-> Total({t \in A : place[t] = k})], K)
    BY <2>4, SumSame
  <2> QED
    BY <2>1, <2>5, <2>6 DEF A, K
<1> QED
  BY <1>3, <1>4 DEF RowSum, Tally

(* The sum of a column of an accumulated matrix is the total of the entries put in it (Mw). *)
THEOREM ColSumTally ==
    ASSUME NEW T, Entries(T)
    PROVE  ColSum(Accumulate(T)) = Tally(T, ColIn(T))
<1> DEFINE M == Accumulate(T)
           place == PlaceOf(T)
<1>1. M = Tally(T, place)
  BY AccumulateTally
<1>2. DOMAIN M = {place[t] : t \in T}
  BY <1>1 DEF Tally
<1>3. ColsOf(M) = {ColIn(T)[t] : t \in T}
  <2>1. \A t \in T : place[t][2] = ColIn(T)[t]
    BY DEF ColIn, PlaceOf
  <2>2. ColsOf(M) = {rc[2] : rc \in {place[t] : t \in T}}
    BY <1>2 DEF ColsOf
  <2> HIDE DEF M, place
  <2> QED
    BY <2>1, <2>2
<1>4. ASSUME NEW c
      PROVE  MapThenSumSet(LAMBDA rc : M[rc], {rc \in DOMAIN M : rc[2] = c})
             = Total({t \in T : ColIn(T)[t] = c})
  <2> DEFINE K == {rc \in DOMAIN M : rc[2] = c}
             A == {t \in T : ColIn(T)[t] = c}
  <2>1. MapThenSumSet(LAMBDA rc : M[rc], K) = Sum(M, K)
    BY DEF Sum
  <2>2. IsFiniteSet(K)
    BY PlacesFinite, FS_Subset DEF Entries
  <2>3. Entries(A) /\ \A t \in A : place[t] \in K
    BY <1>2, EntriesSubset DEF ColIn, PlaceOf
  <2>4. \A k \in K : M[k] = Total({t \in A : place[t] = k})
    <3> TAKE k \in K
    <3>1. {t \in A : place[t] = k} = {t \in T : place[t] = k}
      BY DEF ColIn, PlaceOf
    <3> QED
      BY <1>1, <3>1 DEF Tally
  <2> HIDE DEF M, K, A, place
  <2>5. Total(A) = Sum([k \in K |-> Total({t \in A : place[t] = k})], K)
    BY <2>2, <2>3, TotalPartition
  <2>6. Sum(M, K) = Sum([k \in K |-> Total({t \in A : place[t] = k})], K)
    BY <2>4, SumSame
  <2> QED
    BY <2>1, <2>5, <2>6 DEF A, K
<1> QED
  BY <1>3, <1>4 DEF ColSum, Tally

-----------------------------------------------------------------------------
(* Sums of matrices: the fold of Plus *)

\* The functions g[c], c in s, added up key by key
PlusSum(g, s) ==
    [k \in UNION {DOMAIN g[c] : c \in s} |-> Sum([c \in s |-> At(g[c], k)], s)]

\* The equation of the fold
PlusFrom(g, S, h) ==
    h = [s \in SUBSET S |->
            IF s = {} THEN <<>> ELSE Plus(h[s \ {First(s)}], g[First(s)])]

(* The fold by which the combiner adds up functions is the recursion PlusFrom. *)
LEMMA PlusFoldDef ==
    ASSUME NEW S, NEW g
    PROVE  FoldSet(LAMBDA c, sum : Plus(sum, g[c]), <<>>, S)
           = (CHOOSE h : PlusFrom(g, S, h))[S]
BY DEF FoldSet, MapThenFoldSet, PlusFrom, First

(* The recursion PlusFrom, one subset at a time. *)
LEMMA PlusFromAt ==
    ASSUME NEW S, NEW g, NEW h, PlusFrom(g, S, h)
    PROVE  /\ \A s \in SUBSET S : s # {} => h[s] = Plus(h[s \ {First(s)}], g[First(s)])
           /\ h[{}] = <<>>
BY DEF PlusFrom

NumbersIn(g, S) == \A c \in S : \A k \in DOMAIN g[c] : g[c][k] \in Int

(* What functions added up hold under a key is the sum of what each of them holds there. *)
LEMMA AtPlusSum ==
    ASSUME NEW s, IsFiniteSet(s), NEW g, NumbersIn(g, s), NEW k
    PROVE  At(PlusSum(g, s), k) = Sum([c \in s |-> At(g[c], k)], s)
<1>1. CASE k \in UNION {DOMAIN g[c] : c \in s}
  BY <1>1 DEF At, PlusSum
<1>2. CASE k \notin UNION {DOMAIN g[c] : c \in s}
  <2>1. \A c \in s : [d \in s |-> At(g[d], k)][c] = 0
    BY <1>2 DEF At
  <2>2. Sum([d \in s |-> At(g[d], k)], s) = 0
    BY <2>1, SumZero
  <2> QED
    BY <1>2, <2>2 DEF At, PlusSum
<1> QED
  BY <1>1, <1>2

(* Any one of the functions can be added last. *)
LEMMA PlusSumStep ==
    ASSUME NEW s, IsFiniteSet(s), NEW g, NumbersIn(g, s), NEW x \in s
    PROVE  PlusSum(g, s) = Plus(PlusSum(g, s \ {x}), g[x])
<1> DEFINE r == s \ {x}
<1>1. IsFiniteSet(r) /\ NumbersIn(g, r)
  BY FS_Subset DEF NumbersIn
<1>2. UNION {DOMAIN g[c] : c \in s} = (UNION {DOMAIN g[c] : c \in r}) \cup DOMAIN g[x]
  OBVIOUS
<1>3. DOMAIN PlusSum(g, r) = UNION {DOMAIN g[c] : c \in r}
  BY DEF PlusSum
<1>4. ASSUME NEW k
      PROVE  Sum([c \in s |-> At(g[c], k)], s) = At(PlusSum(g, r), k) + At(g[x], k)
  <2> DEFINE f == [c \in s |-> At(g[c], k)]
  <2>1. Ints(f, s)
    BY DEF Ints, At, NumbersIn
  <2>2. Sum(f, s) = f[x] + Sum(f, r)
    BY <2>1, SumRemove
  <2>3. Sum(f, r) = Sum([c \in r |-> At(g[c], k)], r)
    BY SumSame
  <2>4. At(PlusSum(g, r), k) = Sum(f, r)
    BY <1>1, <2>3, AtPlusSum
  <2>5. f[x] \in Int /\ Sum(f, r) \in Int
    BY <2>1, SubsetFinite DEF Ints
  <2>6. f[x] = At(g[x], k)
    OBVIOUS
  <2> HIDE DEF f, r
  <2>7. Sum(f, s) = At(PlusSum(g, r), k) + At(g[x], k)
    BY <2>2, <2>4, <2>5, <2>6
  <2> QED
    BY <2>7 DEF f
<1> HIDE DEF r
<1> QED
  BY <1>2, <1>3, <1>4 DEF Plus, PlusSum, r

\* combine_chunks() adds up what its files have at each key.
THEOREM PlusFold ==
    ASSUME NEW S, IsFiniteSet(S), NEW g, NumbersIn(g, S)
    PROVE  FoldSet(LAMBDA c, sum : Plus(sum, g[c]), <<>>, S) = PlusSum(g, S)
<1> DEFINE h == [s \in SUBSET S |-> PlusSum(g, s)]
           i == CHOOSE i : PlusFrom(g, S, i)
<1>1. PlusFrom(g, S, h)
  <2>1. PlusSum(g, {}) = <<>>
    BY DEF PlusSum
  <2>2. ASSUME NEW s \in SUBSET S, s # {}
        PROVE  PlusSum(g, s) = Plus(PlusSum(g, s \ {First(s)}), g[First(s)])
    <3>1. IsFiniteSet(s) /\ NumbersIn(g, s) /\ First(s) \in s
      BY <2>2, FS_Subset, FirstIn DEF NumbersIn
    <3> QED
      BY <3>1, PlusSumStep
  <2>3. \A s \in SUBSET S :
            h[s] = IF s = {} THEN <<>> ELSE Plus(h[s \ {First(s)}], g[First(s)])
    BY <2>1, <2>2
  <2> QED
    BY <2>3 DEF PlusFrom
<1>2. PlusFrom(g, S, i)
  <2> HIDE DEF h
  <2> QED
    BY <1>1
<1> DEFINE P == {s \in SUBSET S : i[s] = h[s]}
<1> HIDE DEF i, h
<1>3. {} \in P
  BY <1>1, <1>2, PlusFromAt
<1> DEFINE T == {s \in SUBSET S : i[s] # h[s]}
<1>4. ASSUME T # {} PROVE FALSE
  <2>1. T \in SUBSET (SUBSET S)
    OBVIOUS
  <2>2. PICK s \in T : \A x \in s : s \ {x} \notin T
    <3> HIDE DEF T
    <3> QED
      BY <1>4, <2>1, SmallestSubset
  <2>3. s \in SUBSET S /\ i[s] # h[s]
    BY <2>2
  <2>4. s # {}
    BY <1>3, <2>3
  <2>5. i[s \ {First(s)}] = h[s \ {First(s)}]
    BY <2>2, <2>4, FirstIn
  <2>6. i[s] = Plus(i[s \ {First(s)}], g[First(s)])
    BY <1>2, <2>3, <2>4, PlusFromAt
  <2>7. h[s] = Plus(h[s \ {First(s)}], g[First(s)])
    BY <1>1, <2>3, <2>4, PlusFromAt
  <2> QED
    BY <2>3, <2>5, <2>6, <2>7
<1>5. i[S] = h[S]
  BY <1>4
<1>6. h[S] = PlusSum(g, S)
  BY DEF h
<1> QED
  BY <1>5, <1>6, PlusFoldDef DEF i

-----------------------------------------------------------------------------
(* The parts of a tally *)

(* A tally depends on the keys of its entries only. *)
LEMMA TallyKeys ==
    ASSUME NEW T, NEW key, NEW other, \A t \in T : key[t] = other[t]
    PROVE  Tally(T, key) = Tally(T, other)
<1>1. {key[t] : t \in T} = {other[t] : t \in T}
  OBVIOUS
<1>2. \A k : {t \in T : key[t] = k} = {t \in T : other[t] = k}
  OBVIOUS
<1> QED
  BY <1>1, <1>2 DEF Tally

\* The sets in[c] are the parts that T is cut into, part says which an entry is in.
CutInto(T, C, part, in) ==
    /\ \A t \in T : part[t] \in C
    /\ \A c \in C : in[c] = {t \in T : part[t] = c}

Tallies(C, in, key, g) == \A c \in C : g[c] = Tally(in[c], key)

\* The tallies of the parts of a set of entries add up to that of the whole.
THEOREM TallyParts ==
    ASSUME NEW T, Entries(T), NEW C, IsFiniteSet(C),
           NEW part, NEW in, CutInto(T, C, part, in),
           NEW key, NEW g, Tallies(C, in, key, g)
    PROVE  NumbersIn(g, C) /\ PlusSum(g, C) = Tally(T, key)
<1> DEFINE Part(c) == {t \in T : part[t] = c}
           AtKey(k) == {t \in T : key[t] = k}
<1>0. \A t \in T : part[t] \in C
  BY DEF CutInto
<1>1. \A c \in C : g[c] = Tally(Part(c), key)
  BY DEF CutInto, Tallies
<1>2. \A c \in C : DOMAIN g[c] = {key[t] : t \in Part(c)}
  BY <1>1 DEF Tally
<1>3. NumbersIn(g, C)
  <2> SUFFICES ASSUME NEW c \in C, NEW k \in DOMAIN g[c] PROVE g[c][k] \in Int
    BY DEF NumbersIn
  <2>1. {t \in Part(c) : key[t] = k} \in SUBSET T
    OBVIOUS
  <2>2. Total({t \in Part(c) : key[t] = k}) \in Int
    BY <2>1, EntriesSubset
  <2>3. g[c][k] = Total({t \in Part(c) : key[t] = k})
    BY <1>1, <1>2 DEF Tally
  <2> QED
    BY <2>2, <2>3
<1>4. UNION {DOMAIN g[c] : c \in C} = {key[t] : t \in T}
  BY <1>0, <1>2
<1>5. ASSUME NEW k
      PROVE  Sum([c \in C |-> At(g[c], k)], C) = Total(AtKey(k))
  <2>1. Entries(AtKey(k)) /\ \A t \in AtKey(k) : part[t] \in C
    BY <1>0, EntriesSubset
  <2>2. Total(AtKey(k)) = Sum([c \in C |-> Total({t \in AtKey(k) : part[t] = c})], C)
    <3> HIDE DEF AtKey
    <3> QED
      BY <2>1, TotalPartition
  <2>3. ASSUME NEW c \in C
        PROVE  At(g[c], k) = Total({t \in AtKey(k) : part[t] = c})
    <3>1. At(g[c], k) = Total({t \in Part(c) : key[t] = k})
      <4> HIDE DEF Part
      <4> QED
        BY <1>1, AtTally
    <3>2. {t \in Part(c) : key[t] = k} = {t \in AtKey(k) : part[t] = c}
      OBVIOUS
    <3> QED
      BY <3>1, <3>2
  <2> DEFINE f == [c \in C |-> At(g[c], k)]
             e == [c \in C |-> Total({t \in AtKey(k) : part[t] = c})]
  <2>4. \A c \in C : f[c] = e[c]
    <3> HIDE DEF AtKey
    <3> QED
      BY <2>3
  <2> HIDE DEF f, e
  <2>5. Sum(f, C) = Sum(e, C)
    BY <2>4, SumSame
  <2> QED
    BY <2>2, <2>5 DEF f, e
<1> QED
  BY <1>3, <1>4, <1>5 DEF PlusSum, Tally

-----------------------------------------------------------------------------
(* The matrices of a part of the exchange grid *)

\* The rows S of a matrix
RowsIn(M, S) == [rc \in {sc \in DOMAIN M : sc[1] \in S} |-> M[rc]]

\* The entries of B*diag(1/area)*C, as Through() has them
Routes(area, B, C) ==
    UNION {{<<<<b, c>>, b[2], c[2], (B[b] * C[c]) \div area[b[1]]>> :
                c \in {d \in DOMAIN C : d[1] = b[1]}} : b \in DOMAIN B}

(* The product of two matrices through a grid accumulates one entry per route through a
   cell of that grid (the dEvI and EvA products of RegridMatrices_Dynamic). *)
LEMMA ThroughRoutes ==
    ASSUME NEW x, NEW B, NEW C
    PROVE  Through(x, B, C) = Accumulate(Routes(x.area, B, C))
BY DEF Through, Routes

\* Rows have their own entries.
THEOREM AccumulateRows ==
    ASSUME NEW T, NEW S
    PROVE  Accumulate({t \in T : t[2] \in S}) = RowsIn(Accumulate(T), S)
<1> DEFINE U == {t \in T : t[2] \in S}
<1>1. Accumulate(U) = [rc \in {<<t[2], t[3]>> : t \in U} |->
                          MapThenSumSet(LAMBDA t : t[4], {t \in U : <<t[2], t[3]>> = rc})]
  BY DEF Accumulate
<1>2. {<<t[2], t[3]>> : t \in U} = {rc \in {<<t[2], t[3]>> : t \in T} : rc[1] \in S}
  OBVIOUS
<1>3. ASSUME NEW rc, rc[1] \in S
      PROVE  {t \in U : <<t[2], t[3]>> = rc} = {t \in T : <<t[2], t[3]>> = rc}
  BY <1>3
<1>4. DOMAIN Accumulate(T) = {<<t[2], t[3]>> : t \in T}
  BY DEF Accumulate
<1>5. ASSUME NEW rc \in {<<t[2], t[3]>> : t \in T}, rc[1] \in S
      PROVE  Accumulate(T)[rc]
             = MapThenSumSet(LAMBDA t : t[4], {t \in U : <<t[2], t[3]>> = rc})
  BY <1>3, <1>5 DEF Accumulate
<1> HIDE DEF U
<1> QED
  BY <1>1, <1>2, <1>4, <1>5 DEF RowsIn, U

\* Entries go through one exchange cell, so those of the cells S are made of the
\* rows S of both matrices.
THEOREM RoutesOfRows ==
    ASSUME NEW B, NEW C, NEW S, NEW area, NEW other, \A c \in S : area[c] = other[c]
    PROVE  Routes(area, RowsIn(B, S), RowsIn(C, S))
           = {t \in Routes(other, B, C) : t[1][1][1] \in S}
<1> DEFINE BS == RowsIn(B, S)
           CS == RowsIn(C, S)
<1>1. /\ DOMAIN BS = {b \in DOMAIN B : b[1] \in S} /\ \A b \in DOMAIN BS : BS[b] = B[b]
      /\ DOMAIN CS = {c \in DOMAIN C : c[1] \in S} /\ \A c \in DOMAIN CS : CS[c] = C[c]
  BY DEF RowsIn
<1> HIDE DEF BS, CS
<1>2. ASSUME NEW t \in Routes(area, BS, CS)
      PROVE  t \in Routes(other, B, C) /\ t[1][1][1] \in S
  <2>1. PICK b \in DOMAIN BS : \E c \in {d \in DOMAIN CS : d[1] = b[1]} :
            t = <<<<b, c>>, b[2], c[2], (BS[b] * CS[c]) \div area[b[1]]>>
    BY <1>2 DEF Routes
  <2>2. PICK c \in {d \in DOMAIN CS : d[1] = b[1]} :
            t = <<<<b, c>>, b[2], c[2], (BS[b] * CS[c]) \div area[b[1]]>>
    BY <2>1
  <2>3. t = <<<<b, c>>, b[2], c[2], (B[b] * C[c]) \div other[b[1]]>>
    BY <1>1, <2>2
  <2>4. b \in DOMAIN B /\ c \in {d \in DOMAIN C : d[1] = b[1]} /\ b[1] \in S
    BY <1>1, <2>2
  <2>5. t[1][1] = b
    BY <2>3
  <2> QED
    BY <2>3, <2>4, <2>5 DEF Routes
<1>3. ASSUME NEW t \in Routes(other, B, C), t[1][1][1] \in S
      PROVE  t \in Routes(area, BS, CS)
  <2>1. PICK b \in DOMAIN B : \E c \in {d \in DOMAIN C : d[1] = b[1]} :
            t = <<<<b, c>>, b[2], c[2], (B[b] * C[c]) \div other[b[1]]>>
    BY <1>3 DEF Routes
  <2>2. PICK c \in {d \in DOMAIN C : d[1] = b[1]} :
            t = <<<<b, c>>, b[2], c[2], (B[b] * C[c]) \div other[b[1]]>>
    BY <2>1
  <2>3. t[1][1] = b
    BY <2>2
  <2>4. b[1] \in S
    BY <1>3, <2>3
  <2>5. b \in DOMAIN BS /\ c \in {d \in DOMAIN CS : d[1] = b[1]}
    BY <1>1, <2>2, <2>4
  <2>6. t = <<<<b, c>>, b[2], c[2], (BS[b] * CS[c]) \div area[b[1]]>>
    BY <1>1, <2>2, <2>4, <2>5
  <2> QED
    BY <2>5, <2>6 DEF Routes
<1> QED
  BY <1>2, <1>3 DEF BS, CS

\* A matrix of numbers
Matrix(M) == IsFiniteSet(DOMAIN M) /\ \A rc \in DOMAIN M : M[rc] \in Int

(* Accumulated entries form a finite matrix of integers. *)
LEMMA AccumulateMatrix ==
    ASSUME NEW T, Entries(T)
    PROVE  Matrix(Accumulate(T))
<1>1. IsFiniteSet(DOMAIN Accumulate(T))
  BY PlacesFinite DEF Entries
<1>2. ASSUME NEW rc \in DOMAIN Accumulate(T) PROVE Accumulate(T)[rc] \in Int
  <2>1. Accumulate(T)[rc] = Total({t \in T : PlaceOf(T)[t] = rc})
    BY AccumulateTally DEF Tally
  <2>2. {t \in T : PlaceOf(T)[t] = rc} \in SUBSET T
    OBVIOUS
  <2> QED
    BY <2>1, <2>2, EntriesSubset
<1> QED
  BY <1>1, <1>2 DEF Matrix

(* The routes between two matrices are entries. *)
LEMMA RoutesEntries ==
    ASSUME NEW B, Matrix(B), NEW C, Matrix(C), NEW area,
           \A b \in DOMAIN B : area[b[1]] \in Nat \ {0}
    PROVE  Entries(Routes(area, B, C))
<1> DEFINE Pairs == (DOMAIN B) \X (DOMAIN C)
           entry == [p \in Pairs |-> <<p, p[1][2], p[2][2], (B[p[1]] * C[p[2]]) \div area[p[1][1]]>>]
           Image == {entry[p] : p \in Pairs}
<1>1. IsFiniteSet(Image)
  <2>1. IsFiniteSet(Pairs)
    BY FS_Product DEF Matrix
  <2> HIDE DEF entry, Pairs
  <2> QED
    BY <2>1, ImageFinite
<1>2. ASSUME NEW t \in Routes(area, B, C)
      PROVE  t \in Image /\ t[4] \in Int
  <2>1. PICK b \in DOMAIN B : \E c \in {d \in DOMAIN C : d[1] = b[1]} :
            t = <<<<b, c>>, b[2], c[2], (B[b] * C[c]) \div area[b[1]]>>
    BY <1>2 DEF Routes
  <2>2. PICK c \in {d \in DOMAIN C : d[1] = b[1]} :
            t = <<<<b, c>>, b[2], c[2], (B[b] * C[c]) \div area[b[1]]>>
    BY <2>1
  <2>3. t = entry[<<b, c>>] /\ <<b, c>> \in Pairs
    BY <2>2
  <2>4. B[b] \in Int /\ C[c] \in Int /\ area[b[1]] \in Nat \ {0}
    BY <2>2 DEF Matrix
  <2>5. (B[b] * C[c]) \div area[b[1]] \in Int
    <3>1. B[b] * C[c] \in Int
      BY <2>4
    <3> QED
      BY <2>4, <3>1
  <2> HIDE DEF entry, Pairs
  <2> QED
    BY <2>2, <2>3, <2>5
<1>3. IsFiniteSet(Routes(area, B, C))
  <2> HIDE DEF Image
  <2> QED
    BY <1>1, <1>2, FS_Subset
<1> QED
  BY <1>2, <1>3 DEF Entries

\* The matrix of the routes R and its weights
Weighed(R) == [M |-> Tally(R, PlaceOf(R)), wM |-> Tally(R, RowIn(R)), Mw |-> Tally(R, ColIn(R))]

\* The matrices of the parts of an exchange grid and their weights add up to the
\* matrix of all of it and its weights.
THEOREM WeighedParts ==
    ASSUME NEW R, Entries(R), NEW K, IsFiniteSet(K),
           NEW part, NEW in, CutInto(R, K, part, in),
           NEW m, \A c \in K : m[c] = Weighed(in[c])
    PROVE  LET gM  == [c \in K |-> m[c].M]
               gwM == [c \in K |-> m[c].wM]
               gMw == [c \in K |-> m[c].Mw]
           IN  /\ NumbersIn(gM, K) /\ NumbersIn(gwM, K) /\ NumbersIn(gMw, K)
               /\ Weighed(R) = [M |-> PlusSum(gM, K), wM |-> PlusSum(gwM, K),
                                Mw |-> PlusSum(gMw, K)]
<1> DEFINE gM  == [c \in K |-> m[c].M]
           gwM == [c \in K |-> m[c].wM]
           gMw == [c \in K |-> m[c].Mw]
<1>1. ASSUME NEW c \in K
      PROVE  /\ gM[c] = Tally(in[c], PlaceOf(R))
             /\ gwM[c] = Tally(in[c], RowIn(R))
             /\ gMw[c] = Tally(in[c], ColIn(R))
  <2>1. \A t \in in[c] : t \in R
    BY DEF CutInto
  <2>2. Tally(in[c], PlaceOf(in[c])) = Tally(in[c], PlaceOf(R))
    <3>1. \A t \in in[c] : PlaceOf(in[c])[t] = PlaceOf(R)[t]
      BY <2>1 DEF PlaceOf
    <3> QED
      BY <3>1, TallyKeys
  <2>3. Tally(in[c], RowIn(in[c])) = Tally(in[c], RowIn(R))
    <3>1. \A t \in in[c] : RowIn(in[c])[t] = RowIn(R)[t]
      BY <2>1 DEF RowIn
    <3> QED
      BY <3>1, TallyKeys
  <2>4. Tally(in[c], ColIn(in[c])) = Tally(in[c], ColIn(R))
    <3>1. \A t \in in[c] : ColIn(in[c])[t] = ColIn(R)[t]
      BY <2>1 DEF ColIn
    <3> QED
      BY <3>1, TallyKeys
  <2>5. m[c] = Weighed(in[c])
    OBVIOUS
  <2> QED
    BY <2>2, <2>3, <2>4, <2>5 DEF Weighed
<1> HIDE DEF gM, gwM, gMw
<1>2. /\ Tallies(K, in, PlaceOf(R), gM)
      /\ Tallies(K, in, RowIn(R), gwM)
      /\ Tallies(K, in, ColIn(R), gMw)
  BY <1>1 DEF Tallies
<1>3. NumbersIn(gM, K) /\ PlusSum(gM, K) = Tally(R, PlaceOf(R))
  BY <1>2, TallyParts
<1>4. NumbersIn(gwM, K) /\ PlusSum(gwM, K) = Tally(R, RowIn(R))
  BY <1>2, TallyParts
<1>5. NumbersIn(gMw, K) /\ PlusSum(gMw, K) = Tally(R, ColIn(R))
  BY <1>2, TallyParts
<1> QED
  BY <1>3, <1>4, <1>5 DEF Weighed, gM, gwM, gMw

-----------------------------------------------------------------------------
(* Entries that are not negative *)

NatEntries(T) == Entries(T) /\ \A t \in T : t[4] \in Nat

\* Sums of such entries are not negative either, nor are matrices made of them.
LEMMA TallyNat ==
    ASSUME NEW T, NatEntries(T), NEW key
    PROVE  \A k \in DOMAIN Tally(T, key) : Tally(T, key)[k] \in Nat
<1> SUFFICES ASSUME NEW k \in DOMAIN Tally(T, key)
             PROVE  Tally(T, key)[k] \in Nat
  OBVIOUS
<1> DEFINE A == {t \in T : key[t] = k}
           f == [t \in A |-> t[4]]
<1>1. Tally(T, key)[k] = Sum(f, A)
  BY DEF Tally, Total
<1>2. IsFiniteSet(A) /\ \A t \in A : f[t] \in Nat
  BY FS_Subset DEF NatEntries, Entries
<1> HIDE DEF A, f
<1> QED
  BY <1>1, <1>2, SumNat

(* Natural entries accumulate to a matrix of naturals. *)
LEMMA AccumulateNat ==
    ASSUME NEW T, NatEntries(T)
    PROVE  Matrix(Accumulate(T)) /\ \A rc \in DOMAIN Accumulate(T) : Accumulate(T)[rc] \in Nat
<1>1. Matrix(Accumulate(T))
  BY AccumulateMatrix DEF NatEntries
<1>2. Accumulate(T) = Tally(T, PlaceOf(T))
  BY AccumulateTally
<1>3. \A rc \in DOMAIN Tally(T, PlaceOf(T)) : Tally(T, PlaceOf(T))[rc] \in Nat
  BY TallyNat
<1> QED
  BY <1>1, <1>2, <1>3

(* The routes between matrices of naturals carry naturals. *)
LEMMA RoutesNat ==
    ASSUME NEW B, Matrix(B), NEW C, Matrix(C), NEW area,
           \A b \in DOMAIN B : B[b] \in Nat /\ area[b[1]] \in Nat \ {0},
           \A c \in DOMAIN C : C[c] \in Nat
    PROVE  NatEntries(Routes(area, B, C))
<1>1. Entries(Routes(area, B, C))
  BY RoutesEntries
<1>2. ASSUME NEW t \in Routes(area, B, C)
      PROVE  t[4] \in Nat
  <2>1. PICK b \in DOMAIN B :
            t \in {<<<<b, c>>, b[2], c[2], (B[b] * C[c]) \div area[b[1]]>> :
                      c \in {d \in DOMAIN C : d[1] = b[1]}}
    BY <1>2 DEF Routes
  <2>2. PICK c \in DOMAIN C : t = <<<<b, c>>, b[2], c[2], (B[b] * C[c]) \div area[b[1]]>>
    BY <2>1
  <2>3. t[4] = (B[b] * C[c]) \div area[b[1]]
    BY <2>2
  <2> DEFINE x == B[b]
             y == C[c]
             n == area[b[1]]
  <2>4. x \in Nat /\ y \in Nat /\ n \in Nat \ {0}
    OBVIOUS
  <2> HIDE DEF x, y, n
  <2>5. x * y \in Nat
    BY <2>4
  <2>6. (x * y) \div n \in Nat
    BY <2>4, <2>5, DivMod
  <2> QED
    BY <2>3, <2>6 DEF x, y, n
<1> QED
  BY <1>1, <1>2 DEF NatEntries

-----------------------------------------------------------------------------
(* Columns *)

\* One at each of some places
Ones(P) == [rc \in P |-> 1]

\* Ones at places in rows of their own add up to themselves.
LEMMA AccumulateOnes ==
    ASSUME NEW S, NEW g
    PROVE  Accumulate({<<f, f, g[f], 1>> : f \in S}) = Ones({<<f, g[f]>> : f \in S})
<1> DEFINE T == {<<f, f, g[f], 1>> : f \in S}
<1>1. \A t \in T : t[2] \in S /\ t[1] = t[2] /\ t[3] = g[t[2]] /\ t[4] = 1
  OBVIOUS
<1>2. \A t \in T : t = <<t[1], t[2], t[3], t[4]>>
  OBVIOUS
<1>3. \A f \in S : \E t \in T : t[2] = f
  <2> SUFFICES ASSUME NEW f \in S PROVE \E t \in T : t[2] = f
    OBVIOUS
  <2>1. <<f, f, g[f], 1>> \in T /\ <<f, f, g[f], 1>>[2] = f
    OBVIOUS
  <2> QED
    BY <2>1
<1> HIDE DEF T
<1>4. \A t, u \in T : t[2] = u[2] /\ t[3] = u[3] => t = u
  BY <1>1, <1>2
<1>5. \A t \in T : t[4] \in Int
  BY <1>1
<1>6. /\ DOMAIN Accumulate(T) = {<<t[2], t[3]>> : t \in T}
      /\ \A t \in T : Accumulate(T)[<<t[2], t[3]>>] = t[4]
  BY <1>4, <1>5, AccumulateApart
<1>7. {<<t[2], t[3]>> : t \in T} = {<<f, g[f]>> : f \in S}
  BY <1>1, <1>3
<1>8. Accumulate(T) = Ones({<<f, g[f]>> : f \in S})
  BY <1>1, <1>6, <1>7 DEF Ones, Accumulate
<1> QED
  BY <1>8 DEF T

\* The entries of a matrix in a column, and what they add up to
ColOf(M, o) == {rc \in DOMAIN M : rc[2] = o}
ColTotal(M, o) == Sum(M, ColOf(M, o))

\* The weight of a column is the sum of its entries, if it has any.
LEMMA ColWeight ==
    ASSUME NEW M, NEW o
    PROVE  At(ColSum(M), o) = ColTotal(M, o)
<1>1. CASE o \in ColsOf(M)
  BY <1>1 DEF At, ColSum, ColTotal, ColOf, Sum
<1>2. CASE o \notin ColsOf(M)
  <2>1. ColOf(M, o) = {}
    BY <1>2 DEF ColOf, ColsOf
  <2> QED
    BY <1>2, <2>1, SumEmpty DEF At, ColSum, ColTotal
<1> QED
  BY <1>1, <1>2

\* The entries of a matrix, each with a tag of its own and in a row of another name
Relabelled(M, tag, row) == {<<tag[rc], row[rc], rc[2], M[rc]>> : rc \in DOMAIN M}

\* The entries in a column
InCol(T, o) == {t \in T : t[3] = o}

\* Relabelling rows changes no column.
LEMMA RelabelledCols ==
    ASSUME NEW M, Matrix(M), NEW tag, \A x, y \in DOMAIN M : tag[x] = tag[y] => x = y,
           NEW row, NEW o
    PROVE  LET T == Relabelled(M, tag, row)
           IN  /\ Entries(T)
               /\ Total(InCol(T, o)) = ColTotal(M, o)
<1> DEFINE D == DOMAIN M
           T == Relabelled(M, tag, row)
           name == [rc \in D |-> <<tag[rc], row[rc], rc[2], M[rc]>>]
           S == ColOf(M, o)
           K == {t \in T : t[3] = o}
           g == [t \in K |-> t[4]]
<1>1. T = {name[rc] : rc \in D}
  BY DEF Relabelled
<1>2. IsFiniteSet(D) /\ \A rc \in D : M[rc] \in Int
  BY DEF Matrix
<1>3. /\ \A rc \in D : /\ name[rc][1] = tag[rc] /\ name[rc][3] = rc[2] /\ name[rc][4] = M[rc]
      /\ S = {rc \in D : rc[2] = o}
  BY DEF ColOf
<1>4. IsFiniteSet(T)
  <2> HIDE DEF T, name, D
  <2> QED
    BY <1>1, <1>2, ImageFinite
<1> HIDE DEF T, name, D, S
<1>5. Entries(T)
  BY <1>1, <1>2, <1>3, <1>4 DEF Entries
<1>6. IsFiniteSet(S) /\ Ints(M, S) /\ IsFiniteSet(K)
  <2>1. S \in SUBSET D /\ K \in SUBSET T
    BY <1>3
  <2> QED
    BY <1>2, <1>4, <2>1, FS_Subset DEF Ints
<1>7. \A rc \in S : name[rc] \in K /\ g[name[rc]] = M[rc]
  BY <1>1, <1>3
<1>8. \A x, y \in S : name[x] = name[y] => x = y
  <2>1. \A x, y \in D : tag[x] = tag[y] => x = y
    BY DEF D
  <2> QED
    BY <1>3, <2>1
<1>9. \A t \in K : \E rc \in S : name[rc] = t
  BY <1>1, <1>3
<1> HIDE DEF g, K
<1>10. Sum(M, S) = Sum(g, K)
  BY <1>6, <1>7, <1>8, <1>9, SumRename
<1> QED
  BY <1>5, <1>10 DEF ColTotal, InCol, Total, g, K, T, S, D

\* The weight of a column of accumulated entries is what the entries there add up to.
LEMMA AccumulatedCol ==
    ASSUME NEW T, Entries(T), NEW o
    PROVE  At(ColSum(Accumulate(T)), o) = Total(InCol(T, o))
<1>1. ColSum(Accumulate(T)) = Tally(T, ColIn(T))
  BY ColSumTally
<1>2. At(Tally(T, ColIn(T)), o) = Total({t \in T : ColIn(T)[t] = o})
  BY AtTally
<1>3. {t \in T : ColIn(T)[t] = o} = {t \in T : t[3] = o}
  BY DEF ColIn
<1> QED
  BY <1>1, <1>2, <1>3 DEF InCol

\* The totals of two sets of entries that do not overlap
LEMMA TotalUnion ==
    ASSUME NEW T, Entries(T), NEW U, Entries(U), T \cap U = {}
    PROVE  Entries(T \cup U) /\ Total(T \cup U) = Total(T) + Total(U)
<1> DEFINE f == [t \in T \cup U |-> t[4]]
<1>1. IsFiniteSet(T) /\ IsFiniteSet(U) /\ IsFiniteSet(T \cup U) /\ Ints(f, T) /\ Ints(f, U)
  BY FS_Union DEF Entries, Ints
<1>2. Total(T) = Sum(f, T) /\ Total(U) = Sum(f, U)
  BY TotalIn
<1> HIDE DEF f
<1>3. Sum(f, T \cup U) = Sum(f, T) + Sum(f, U)
  BY <1>1, SumUnion
<1> QED
  BY <1>1, <1>2, <1>3 DEF Entries, Total, f
=============================================================================
