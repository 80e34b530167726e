--------------------------- MODULE Exchange_proofs ---------------------------
(***************************************************************************)
(* Theorems about the life of a regridder, for any grids, ice and coasts.  *)
(***************************************************************************)
EXTENDS Exchange, Regrid_proofs, SequenceTheorems, TLAPS

-----------------------------------------------------------------------------
(* The correction between the classes of two geometries *)

\* The columns of a matrix from classes to exchange cells are classes of the atmosphere
\* cell over the ocean cell that the exchange cell is part of.
ClassesOver(g, x, M) ==
    \A rc \in DOMAIN M : CellOfE(rc[2]) = Over(g, x.a[rc[1]])

\* The entries of a matrix are where some were added up.
LEMMA AccumulatePlace ==
    ASSUME NEW T, NEW rc \in DOMAIN Accumulate(T)
    PROVE  \E t \in T : rc = <<t[2], t[3]>>
BY DEF Accumulate

\* GvEp() gives an exchange cell classes of its own ocean cell.
LEMMA GvEpCells ==
    ASSUME NEW x, NEW elev, NEW hcdefs, NEW style
    PROVE  \A rc \in DOMAIN GvEp(x, elev, hcdefs, style) : rc[2][1] = x.a[rc[1]]
<1> DEFINE W(c) == ClassWeights(hcdefs, style, Max({elev[x.i[c]], 0}))
           T(c) == {<<c, c, <<x.a[c], h>>, x.area[c] * W(c)[h]>> : h \in DOMAIN W(c)}
<1>1. GvEp(x, elev, hcdefs, style) = Accumulate(UNION {T(c) : c \in UsedX(x, elev)})
  BY DEF GvEp
<1>2. ASSUME NEW rc \in DOMAIN GvEp(x, elev, hcdefs, style)
      PROVE  rc[2][1] = x.a[rc[1]]
  <2> DEFINE U == UNION {T(c) : c \in UsedX(x, elev)}
  <2>0. rc \in DOMAIN Accumulate(U)
    BY <1>1, <1>2
  <2> HIDE DEF U
  <2>1. PICK t \in U : rc = <<t[2], t[3]>>
    BY <2>0, AccumulatePlace
  <2>2. PICK c \in UsedX(x, elev) : t \in T(c)
    BY <2>1 DEF U
  <2>3. PICK h : t = <<c, c, <<x.a[c], h>>, x.area[c] * W(c)[h]>>
    BY <2>2
  <2> QED
    BY <2>1, <2>3
<1> QED
  BY <1>2

\* Going over to the atmosphere grid keeps the exchange cells, and takes their classes to
\* the cell over theirs.
LEMMA XvEClasses ==
    ASSUME NEW g, NEW sh, NEW elev, NEW hcdefs, NEW op, NEW om, NEW spacing
    PROVE  LET ur == UrO(sh, elev, hcdefs, sh.style)
           IN  ClassesOver(g, sh.x, ModelEMatrices(g, sh, ur, op, om, spacing).XvE.M)
<1> DEFINE ur == UrO(sh, elev, hcdefs, sh.style)
           h == Helper("E", "X", g, sh, ur, op, om, spacing)
           P == {cd \in (DOMAIN ur.E) \X (DOMAIN h.XAvXO) :
                    cd[1][2] = cd[2][2] /\ cd[1][2] \in h.dimXOm}
           T == {<<ab, ab[1][1], ab[2][1], ur.E[ab[1]]>> : ab \in P}
<1>1. ModelEMatrices(g, sh, ur, op, om, spacing).XvE.M = Accumulate(T)
  BY DEF ModelEMatrices, GpvXAm
<1>2. \E w : h.XAvXO = EAvEO(g, w)
  BY DEF Helper, HelperOf, XAvXO
<1>3. \A rc \in DOMAIN h.XAvXO : rc[1][1] = Over(g, rc[2][1])
  <2>1. PICK w : h.XAvXO = EAvEO(g, w)
    BY <1>2
  <2> QED
    BY <2>1 DEF EAvEO
<1>4. \A rc \in DOMAIN ur.E : rc[2][1] = sh.x.a[rc[1]]
  BY GvEpCells DEF UrO
<1> HIDE DEF ur, h
<1>5. ASSUME NEW rc \in DOMAIN Accumulate(T)
      PROVE  CellOfE(rc[2]) = Over(g, sh.x.a[rc[1]])
  <2> HIDE DEF T
  <2>1. PICK t \in T : rc = <<t[2], t[3]>>
    BY <1>5, AccumulatePlace
  <2>2. PICK ab \in P : t = <<ab, ab[1][1], ab[2][1], ur.E[ab[1]]>>
    BY <2>1 DEF T
  <2>3. rc[1] = ab[1][1] /\ rc[2] = ab[2][1]
    BY <2>1, <2>2
  <2>4. ab[1] \in DOMAIN ur.E /\ ab[2] \in DOMAIN h.XAvXO /\ ab[1][2] = ab[2][2]
    BY <2>2
  <2>5. ab[2][1][1] = Over(g, ab[2][2][1]) /\ ab[1][2][1] = sh.x.a[ab[1][1]]
    BY <1>3, <1>4, <2>4
  <2> QED
    BY <2>3, <2>4, <2>5 DEF CellOfE
<1> QED
  BY <1>1, <1>5 DEF ClassesOver, ur

\* The correction joins classes that have an exchange cell in common.
LEMMA CorrectionWithin ==
    ASSUME NEW g, NEW x, NEW XuE1, NEW XuE0, NEW spacing,
           ClassesOver(g, x, XuE1.M), ClassesOver(g, x, XuE0.M)
    PROVE  \A rc \in DOMAIN E1vE0c(XuE1, XuE0, spacing).M :
               /\ CellOfE(rc[1]) = CellOfE(rc[2])
               /\ rc[1] \in ColsOf(XuE1.M)
<1> DEFINE D == Difference(ScaledX(XuE0, spacing), ScaledX(XuE1, spacing))
           P == {cd \in (DOMAIN XuE1.M) \X (DOMAIN D) : cd[1][1] = cd[2][1]}
           T == {<<ab, ab[1][2], ab[2][2], XuE1.M[ab[1]] * D[ab[2]]>> : ab \in P}
<1>1. E1vE0c(XuE1, XuE0, spacing).M = Accumulate(T)
  BY DEF E1vE0c
<1>2. DOMAIN D = DOMAIN XuE0.M \cup DOMAIN XuE1.M
  BY DEF Difference, ScaledX
<1> HIDE DEF D
<1>3. ASSUME NEW rc \in DOMAIN Accumulate(T)
      PROVE  CellOfE(rc[1]) = CellOfE(rc[2]) /\ rc[1] \in ColsOf(XuE1.M)
  <2> HIDE DEF T
  <2>1. PICK t \in T : rc = <<t[2], t[3]>>
    BY <1>3, AccumulatePlace
  <2>2. PICK ab \in P : t = <<ab, ab[1][2], ab[2][2], XuE1.M[ab[1]] * D[ab[2]]>>
    BY <2>1 DEF T
  <2>3. rc[1] = ab[1][2] /\ rc[2] = ab[2][2]
    BY <2>1, <2>2
  <2>4. ab[1] \in DOMAIN XuE1.M /\ ab[2] \in DOMAIN D /\ ab[1][1] = ab[2][1]
    BY <2>2
  <2>5. CellOfE(ab[1][2]) = Over(g, x.a[ab[1][1]]) /\ CellOfE(ab[2][2]) = Over(g, x.a[ab[2][1]])
    BY <1>2, <2>4 DEF ClassesOver
  <2>6. ab[1][2] \in ColsOf(XuE1.M)
    BY <2>4 DEF ColsOf
  <2> QED
    BY <2>3, <2>4, <2>5, <2>6
<1> QED
  BY <1>1, <1>3

\* What a coupling makes of the ice and the ocean of its time
UrOf(i) == UrO(sheet, i.elev, Hcdefs, sheet.style)
ModelEOf(i) == ModelEMatrices(spec, sheet, UrOf(i), i.op, i.om, Spacing(Hcdefs))
MatricesOf(i) == [modele |-> ModelEOf(i), standard |-> StandardMatrices(sheet, UrOf(i))]

\* Inductive: once there are matrices the grids stay, the matrices are those of the ice
\* kept beside them, and the correction is between this ice and the one before.
CouplingInv ==
    /\ matrices # None => phase \in {"ready", "failed"} /\ matrices = MatricesOf(ice)
    /\ corr # None =>
         /\ phase \in {"ready", "failed"} /\ matrices = MatricesOf(ice)
         /\ corr = E1vE0c(ModelEOf(ice).XvE, ModelEOf(before).XvE, Spacing(Hcdefs))

\* Every step keeps the invariant.
LEMMA CouplingKept == CouplingInv /\ [Next]_vars => CouplingInv'
<1> SUFFICES ASSUME CouplingInv, [Next]_vars PROVE CouplingInv'
  OBVIOUS
<1> USE DEF CouplingInv, MatricesOf, ModelEOf, UrOf
<1>1. CASE RegridTool
  BY <1>1 DEF RegridTool, coupled
<1>2. CASE MakeGrids
  BY <1>2 DEF MakeGrids, coupled
<1>3. CASE OverlapGrids
  BY <1>3 DEF OverlapGrids, coupled
<1>4. CASE NewRegridder
  BY <1>4 DEF NewRegridder
<1>5. CASE Couple
  <2>0. UNCHANGED <<spec, sheet>> /\ phase = "ready"
    BY <1>5 DEF Couple
  <2>1. CASE UNCHANGED coupled /\ phase' = "failed"
    BY <2>0, <2>1 DEF coupled
  <2>2. CASE \E elev, ocean, input :
               CoupledWith(elev, ocean, UrO(sheet, elev, Hcdefs, sheet.style), input)
    <3>1. PICK elev, ocean, input :
               CoupledWith(elev, ocean, UrO(sheet, elev, Hcdefs, sheet.style), input)
      BY <2>2
    <3> DEFINE i == [elev |-> elev, op |-> ocean.op, om |-> ocean.om]
    <3>2. /\ phase' = phase /\ ice' = i /\ before' = ice /\ matrices' = MatricesOf(i)
          /\ corr' = IF matrices = None THEN None
                     ELSE E1vE0c(ModelEOf(i).XvE, matrices.modele.XvE, Spacing(Hcdefs))
      BY <3>1 DEF CoupledWith, Coupled
    <3>3. /\ MatricesOf(ice)' = MatricesOf(ice') /\ ModelEOf(ice)' = ModelEOf(ice')
          /\ ModelEOf(before)' = ModelEOf(before')
      BY <2>0
    <3> QED
      <4> HIDE DEF ModelEOf, UrOf, i
      <4> QED
        BY <2>0, <3>2, <3>3
  <2> QED
    BY <1>5, <2>1, <2>2 DEF Couple
<1>6. CASE UNCHANGED vars
  BY <1>6 DEF vars, coupled
<1> QED
  BY <1>1, <1>2, <1>3, <1>4, <1>5, <1>6 DEF Next

\* The invariant holds in every state.
LEMMA CouplingInvariant == Spec => []CouplingInv
<1>1. Init => CouplingInv
  BY DEF Init, CouplingInv
<1> QED
  BY <1>1, CouplingKept, PTL DEF Spec

\* The correction only joins classes that have an exchange cell in common, and the exchange
\* cells of a class are over one atmosphere cell: gcmce_couple_native() never meets two
\* in one entry.
THEOREM CorrectionStaysInCell == Spec => []CorrectionWithinCell
<1>1. ASSUME CouplingInv, corr # None, NEW rc \in DOMAIN corr.M
      PROVE  CellOfE(rc[1]) = CellOfE(rc[2])
  <2>1. /\ ClassesOver(spec, sheet.x, ModelEOf(ice).XvE.M)
        /\ ClassesOver(spec, sheet.x, ModelEOf(before).XvE.M)
    BY XvEClasses DEF ModelEOf, UrOf
  <2>2. corr = E1vE0c(ModelEOf(ice).XvE, ModelEOf(before).XvE, Spacing(Hcdefs))
    BY <1>1 DEF CouplingInv
  <2> QED
    BY <1>1, <2>1, <2>2, CorrectionWithin
<1>2. CouplingInv => CorrectionWithinCell
  BY <1>1 DEF CorrectionWithinCell
<1> QED
  BY <1>2, CouplingInvariant, PTL

-----------------------------------------------------------------------------
(* The references of all cells, one after the other *)

\* One sequence after the other, each of four
FlattenFrom(s, h) ==
    h = [i \in 1..Len(s) |-> IF i = 1 THEN s[i] ELSE h[i - 1] \o s[i]]

\* FlattenSeq() adds one sequence after the other.
LEMMA FlattenDef ==
    ASSUME NEW s, Len(s) # 0
    PROVE  FlattenSeq(s) = (CHOOSE h : FlattenFrom(s, h))[Len(s)]
BY DEF FlattenSeq, FlattenFrom

\* The first i sequences of four in one
FoursIn(P, s, i, f) ==
    /\ f \in [1..(4 * i) -> P]
    /\ \A j \in 1..i : \A k \in 1..4 : f[4 * (j - 1) + k] = s[j][k]

\* A function of 1..n is a sequence of that length.
LEMMA FunctionSeq ==
    ASSUME NEW P, NEW n \in Nat, NEW f \in [1..n -> P]
    PROVE  f \in Seq(P) /\ Len(f) = n
<1>1. f \in Seq(P)
  BY SeqDef
<1>2. Len(f) \in Nat /\ DOMAIN f = 1..Len(f)
  BY <1>1, LenProperties
<1> QED
  BY <1>1, <1>2

\* One more sequence of four, added at the end, comes to lie at its place.
LEMMA FoursStep ==
    ASSUME NEW P, NEW n \in Nat, NEW s \in [1..n -> [1..4 -> P]],
           NEW i \in 1..n, i # 1, NEW f, FoursIn(P, s, i - 1, f)
    PROVE  FoursIn(P, s, i, f \o s[i])
<1>1. i - 1 \in Nat /\ 4 * (i - 1) \in Nat /\ 4 * i = 4 * (i - 1) + 4
  OBVIOUS
<1>2. f \in Seq(P) /\ Len(f) = 4 * (i - 1)
  BY <1>1, FunctionSeq DEF FoursIn
<1>3. s[i] \in Seq(P) /\ Len(s[i]) = 4
  <2>1. s[i] \in [1..4 -> P] /\ 4 \in Nat
    OBVIOUS
  <2> QED
    BY <2>1, FunctionSeq
<1>4. /\ f \o s[i] \in Seq(P) /\ Len(f \o s[i]) = 4 * i
      /\ \A m \in 1..(4 * i) : (f \o s[i])[m] = IF m <= 4 * (i - 1) THEN f[m]
                                                ELSE s[i][m - 4 * (i - 1)]
  <2> DEFINE a == f
             b == s[i]
             n1 == 4 * (i - 1)
  <2>1. a \in Seq(P) /\ b \in Seq(P) /\ Len(a) = n1 /\ Len(b) = 4 /\ n1 \in Nat /\ 4 * i = n1 + 4
    BY <1>1, <1>2, <1>3
  <2> HIDE DEF a, b, n1
  <2>2. /\ a \o b \in Seq(P) /\ Len(a \o b) = n1 + 4
        /\ \A m \in 1..(n1 + 4) : (a \o b)[m] = IF m <= n1 THEN a[m] ELSE b[m - n1]
    <3>1. /\ a \o b \in Seq(P) /\ Len(a \o b) = Len(a) + Len(b)
          /\ \A m \in 1..Len(a) + Len(b) : (a \o b)[m] =
                IF m <= Len(a) THEN a[m] ELSE b[m - Len(a)]
      BY <2>1, ConcatProperties
    <3> QED
      BY <2>1, <3>1
  <2> QED
    BY <2>1, <2>2 DEF a, b, n1
<1> DEFINE g == f \o s[i]
<1> HIDE DEF g
<1>5. g \in [1..(4 * i) -> P]
  BY <1>4, LenProperties, ElementOfSeq, SeqDef DEF g
<1>6. ASSUME NEW j \in 1..i, NEW k \in 1..4
      PROVE  g[4 * (j - 1) + k] = s[j][k]
  <2>1. CASE j = i
    <3>1. 4 * (j - 1) + k \in 1..(4 * i) /\ ~ (4 * (j - 1) + k <= 4 * (i - 1))
          /\ 4 * (j - 1) + k - 4 * (i - 1) = k
      BY <2>1
    <3> QED
      BY <1>4, <2>1, <3>1 DEF g
  <2>2. CASE j # i
    <3>1. j \in 1..(i - 1)
      BY <2>2
    <3>2. 4 * (j - 1) + k \in 1..(4 * i) /\ 4 * (j - 1) + k <= 4 * (i - 1)
      BY <3>1
    <3>3. f[4 * (j - 1) + k] = s[j][k]
      BY <3>1 DEF FoursIn
    <3> QED
      BY <1>4, <3>2, <3>3 DEF g
  <2> QED
    BY <2>1, <2>2
<1> QED
  BY <1>5, <1>6 DEF FoursIn, g

\* There is only one sequence with each of the four at their places,
LEMMA FoursSame ==
    ASSUME NEW P, NEW s, NEW i \in Nat, NEW f, FoursIn(P, s, i, f), NEW g, FoursIn(P, s, i, g)
    PROVE  f = g
<1>1. ASSUME NEW m \in 1..(4 * i)
      PROVE  f[m] = g[m]
  <2> DEFINE q == (m - 1) \div 4
             r == (m - 1) % 4
  <2>1. m - 1 \in Nat /\ 4 \in Nat \ {0}
    OBVIOUS
  <2>2. q \in Nat /\ r \in 0..(4 - 1) /\ m - 1 = 4 * q + r
    BY <2>1, DivMod
  <2> HIDE DEF q, r
  <2>3. q + 1 \in 1..i /\ r + 1 \in 1..4 /\ m = 4 * ((q + 1) - 1) + (r + 1)
    BY <2>2
  <2>4. f[4 * ((q + 1) - 1) + (r + 1)] = s[q + 1][r + 1]
    BY <2>3 DEF FoursIn
  <2>5. g[4 * ((q + 1) - 1) + (r + 1)] = s[q + 1][r + 1]
    BY <2>3 DEF FoursIn
  <2> QED
    BY <2>3, <2>4, <2>5
<1> QED
  BY <1>1 DEF FoursIn

\* and there is one.
LEMMA FoursExist ==
    ASSUME NEW P, NEW n \in Nat, NEW s \in [1..n -> [1..4 -> P]], NEW i \in 1..n
    PROVE  \E f : FoursIn(P, s, i, f)
<1> DEFINE f == [m \in 1..(4 * i) |-> s[((m - 1) \div 4) + 1][((m - 1) % 4) + 1]]
<1>1. ASSUME NEW m \in 1..(4 * i)
      PROVE  f[m] \in P
  <2>1. m - 1 \in Nat /\ 4 \in Nat \ {0}
    OBVIOUS
  <2> DEFINE e == m - 1
             q == e \div 4
             r == e % 4
  <2>2. f[m] = s[q + 1][r + 1]
    OBVIOUS
  <2> HIDE DEF e, f
  <2>3. q \in Nat /\ r \in 0..(4 - 1) /\ e = 4 * q + r
    BY <2>1, DivMod DEF e
  <2> HIDE DEF q, r
  <2>4. q + 1 \in 1..n /\ r + 1 \in 1..4
    BY <2>3 DEF e
  <2> QED
    BY <2>2, <2>4
<1>2. ASSUME NEW j \in 1..i, NEW k \in 1..4
      PROVE  f[4 * (j - 1) + k] = s[j][k]
  <2>1. 4 * (j - 1) + k \in 1..(4 * i) /\ (4 * (j - 1) + k) - 1 = 4 * (j - 1) + (k - 1)
        /\ j - 1 \in Nat /\ k - 1 \in 0..(4 - 1) /\ 4 \in Nat \ {0}
    OBVIOUS
  <2>2. (4 * (j - 1) + (k - 1)) \div 4 = j - 1 /\ (4 * (j - 1) + (k - 1)) % 4 = k - 1
    BY <2>1, DivUnique
  <2> DEFINE m == 4 * (j - 1) + k
  <2>3. m \in 1..(4 * i) /\ m - 1 = 4 * (j - 1) + (k - 1)
    BY <2>1
  <2> HIDE DEF m
  <2>4. f[m] = s[((m - 1) \div 4) + 1][((m - 1) % 4) + 1]
    BY <2>3
  <2>5. ((m - 1) \div 4) + 1 = j /\ ((m - 1) % 4) + 1 = k
    BY <2>2, <2>3
  <2> QED
    BY <2>4, <2>5 DEF m
<1> HIDE DEF f
<1>3. f \in [1..(4 * i) -> P]
  BY <1>1 DEF f
<1> QED
  BY <1>2, <1>3 DEF FoursIn

\* In the references of all cells one after the other, corner k of cell j is the one at
\* 4 * (j - 1) + k.
LEMMA FlattenFours ==
    ASSUME NEW P, NEW n \in Nat, NEW s \in [1..n -> [1..4 -> P]]
    PROVE  FoursIn(P, s, n, FlattenSeq(s))
<1>1. Len(s) = n
  BY FunctionSeq
<1>2. CASE n = 0
  <2>1. FlattenSeq(s) = s
    BY <1>1, <1>2 DEF FlattenSeq
  <2>2. 1..(4 * n) = {} /\ 1..n = {}
    BY <1>2
  <2> QED
    BY <2>1, <2>2 DEF FoursIn
<1>3. CASE n # 0
  <2> DEFINE w == [i \in 1..n |-> CHOOSE f : FoursIn(P, s, i, f)]
             h == CHOOSE h : FlattenFrom(s, h)
  <2>1. \A i \in 1..n : FoursIn(P, s, i, w[i])
    BY FoursExist
  <2> HIDE DEF w
  <2>2. ASSUME NEW i \in 1..n
        PROVE  w[i] = IF i = 1 THEN s[i] ELSE w[i - 1] \o s[i]
    <3>1. CASE i = 1
      <4>1. FoursIn(P, s, 1, s[1])
        BY <3>1 DEF FoursIn
      <4> QED
        BY <2>1, <3>1, <4>1, FoursSame
    <3>2. CASE i # 1
      <4>1. i - 1 \in 1..n /\ i \in Nat
        BY <3>2
      <4>2. FoursIn(P, s, i, w[i - 1] \o s[i])
        BY <2>1, <3>2, <4>1, FoursStep
      <4> QED
        <5> DEFINE v == w[i - 1] \o s[i]
        <5> HIDE DEF v
        <5>1. FoursIn(P, s, i, v) /\ FoursIn(P, s, i, w[i])
          BY <2>1, <4>2 DEF v
        <5>2. w[i] = v
          BY <4>1, <5>1, FoursSame
        <5> QED
          BY <3>2, <5>2 DEF v
    <3> QED
      BY <3>1, <3>2
  <2>3. FlattenFrom(s, w)
    BY <1>1, <2>2 DEF FlattenFrom, w
  <2>4. FlattenFrom(s, h)
    BY <2>3
  <2> HIDE DEF h
  <2>5. \A i \in 1..n : h[i] = IF i = 1 THEN s[i] ELSE h[i - 1] \o s[i]
    BY <1>1, <2>4 DEF FlattenFrom
  <2> DEFINE T == {i \in 1..n : h[i] # w[i]}
  <2>6. ASSUME T # {} PROVE FALSE
    <3>1. PICK i \in T : \A j \in T : i <= j
      <4>1. T \in SUBSET Nat
        OBVIOUS
      <4> HIDE DEF T
      <4> QED
        BY <2>6, <4>1, LeastNat
    <3>2. CASE i = 1
      BY <2>2, <2>5, <3>1, <3>2
    <3>3. CASE i # 1
      <4>1. i - 1 \in 1..n /\ i - 1 \notin T
        BY <3>1, <3>3
      <4>2. h[i - 1] = w[i - 1]
        BY <4>1
      <4> QED
        BY <2>2, <2>5, <3>1, <3>3, <4>2
    <3> QED
      BY <3>2, <3>3
  <2>7. n \in 1..n
    BY <1>3
  <2>8. h[n] = w[n]
    BY <2>6, <2>7
  <2>9. FlattenSeq(s) = h[n]
    BY <1>1, <1>3, FlattenDef DEF h
  <2> QED
    BY <2>1, <2>7, <2>8, <2>9
<1> QED
  BY <1>2, <1>3

-----------------------------------------------------------------------------
(* Vertices *)

\* A sequence without repetitions
Distinct(P, xy) ==
    /\ xy \in Seq(P)
    /\ \A u, v \in 1..Len(xy) : xy[u] = xy[v] => u = v

VerticesFrom(s, h) ==
    h = [t \in SUBSET DOMAIN s |->
            IF t = {} THEN <<>> ELSE AddVertex(h[t \ {Max(t)}], s[Max(t)])]

\* VertexCache adds one vertex after the other.
LEMMA VerticesDef ==
    ASSUME NEW s
    PROVE  FoldLeft(AddVertex, <<>>, s) = (CHOOSE h : VerticesFrom(s, h))[DOMAIN s]
BY DEF FoldLeft, MapThenFoldSet, VerticesFrom

\* A vertex that is there already is not added again.
LEMMA AddVertexStep ==
    ASSUME NEW P, NEW xy, Distinct(P, xy), NEW p \in P
    PROVE  /\ Distinct(P, AddVertex(xy, p))
           /\ p \in Range(AddVertex(xy, p))
           /\ Range(xy) \subseteq Range(AddVertex(xy, p))
<1>1. xy \in Seq(P) /\ DOMAIN xy = 1..Len(xy) /\ Len(xy) \in Nat
  BY LenProperties DEF Distinct
<1>2. CASE p \in Range(xy)
  BY <1>2 DEF AddVertex
<1>3. CASE p \notin Range(xy)
  <2> DEFINE l == Len(xy)
             a == Append(xy, p)
  <2>1. /\ a \in Seq(P) /\ Len(a) = l + 1 /\ DOMAIN a = 1..(l + 1)
        /\ \A i \in 1..l : a[i] = xy[i]
        /\ a[l + 1] = p
    <3>1. /\ a \in Seq(P) /\ Len(a) = Len(xy) + 1
          /\ \A i \in 1..Len(xy) : a[i] = xy[i]
          /\ a[Len(xy) + 1] = p
      BY <1>1, AppendProperties
    <3>2. DOMAIN a = 1..Len(a)
      BY <3>1, LenProperties
    <3> QED
      BY <3>1, <3>2
  <2>2. AddVertex(xy, p) = a
    BY <1>3 DEF AddVertex
  <2> HIDE DEF a
  <2>3. \A i \in 1..l : xy[i] # p
    BY <1>1, <1>3 DEF Range
  <2>4. \A u, v \in 1..(l + 1) : a[u] = a[v] => u = v
    <3> SUFFICES ASSUME NEW u \in 1..(l + 1), NEW v \in 1..(l + 1), a[u] = a[v]
                 PROVE  u = v
      OBVIOUS
    <3>1. (u \in 1..l \/ u = l + 1) /\ (v \in 1..l \/ v = l + 1)
      BY <1>1
    <3>2. \A i, j \in 1..l : xy[i] = xy[j] => i = j
      BY DEF Distinct
    <3> HIDE DEF l
    <3> QED
      BY <2>1, <2>3, <3>1, <3>2
  <2>5. l + 1 \in 1..(l + 1) /\ 1..l \subseteq 1..(l + 1)
    BY <1>1
  <2>6. p \in Range(a) /\ Range(xy) \subseteq Range(a)
    BY <1>1, <2>1, <2>5 DEF Range
  <2> QED
    BY <2>1, <2>2, <2>4, <2>6 DEF Distinct
<1> QED
  BY <1>2, <1>3

\* After all points have been added, each is a vertex, once.
LEMMA AddVertices ==
    ASSUME NEW P, NEW n \in Nat, NEW s \in [1..n -> P],
           NEW xy, xy = FoldLeft(AddVertex, <<>>, s)
    PROVE  Distinct(P, xy) /\ \A i \in 1..n : s[i] \in Range(xy)
<1> DEFINE D == 1..n
           ch == [t \in SUBSET D |-> Max(t)]
           step == [q \in D \X Seq(P) |-> AddVertex(q[2], s[q[1]])]
<1>1. IsFiniteSet(D) /\ DOMAIN s = D /\ D \in SUBSET Int
  BY FS_Interval
<1>2. \A t \in SUBSET D : ch[t] = Max(t) /\ (t # {} => Max(t) \in t)
  BY <1>1, FS_Subset, MinMaxIn
<1>3. <<>> \in Seq(P)
  BY EmptySeq
<1>4. step \in [D \X Seq(P) -> Seq(P)]
  BY AppendProperties DEF AddVertex
<1>5. \A m \in D : \A v \in Seq(P) : step[<<m, v>>] = AddVertex(v, s[m])
  OBVIOUS
<1> HIDE DEF ch, step, D
<1>6. PICK g : FoldsBy(ch, <<>>, step, D, Seq(P), g)
  BY <1>1, <1>2, <1>3, <1>4, FoldExists
<1>7. ASSUME NEW t \in SUBSET D
      PROVE  g[t] = IF t = {} THEN <<>> ELSE AddVertex(g[t \ {Max(t)}], s[Max(t)])
  <2>1. g[t] = IF t = {} THEN <<>> ELSE step[<<ch[t], g[t \ {ch[t]}]>>]
    BY <1>6 DEF FoldsBy
  <2>2. CASE t # {}
    <3>1. ch[t] = Max(t) /\ Max(t) \in D
      BY <1>2, <2>2
    <3>2. g[t \ {Max(t)}] \in Seq(P)
      BY <1>6 DEF FoldsBy
    <3> QED
      BY <1>5, <2>1, <2>2, <3>1, <3>2
  <2> QED
    BY <2>1, <2>2
<1>8. VerticesFrom(s, g)
  <2>1. g \in [SUBSET D -> Seq(P)]
    BY <1>6 DEF FoldsBy
  <2> QED
    BY <1>1, <1>7, <2>1 DEF VerticesFrom
<1> DEFINE h == CHOOSE h : VerticesFrom(s, h)
<1>9. VerticesFrom(s, h)
  BY <1>8
<1> HIDE DEF h
<1>10. \A t \in SUBSET D :
          h[t] = IF t = {} THEN <<>> ELSE AddVertex(h[t \ {Max(t)}], s[Max(t)])
  BY <1>1, <1>9 DEF VerticesFrom
<1> DEFINE Good(t) == Distinct(P, h[t]) /\ \A i \in t : s[i] \in Range(h[t])
           T == {t \in SUBSET D : ~Good(t)}
<1>11. ASSUME T # {} PROVE FALSE
  <2>1. T \in SUBSET (SUBSET D)
    OBVIOUS
  <2>2. PICK t \in T : \A x \in t : t \ {x} \notin T
    <3> HIDE DEF T
    <3> QED
      BY <1>1, <1>11, <2>1, SmallestSubset
  <2>3. t \in SUBSET D
    BY <2>2
  <2>4. t # {}
    <3>1. Distinct(P, <<>>)
      BY EmptySeq DEF Distinct
    <3> QED
      BY <1>10, <2>2, <2>3, <3>1
  <2> DEFINE m == Max(t)
  <2>5. m \in t /\ m \in D /\ s[m] \in P
    BY <1>1, <1>2, <2>3, <2>4
  <2>6. Good(t \ {m})
    BY <2>2, <2>3, <2>5
  <2>7. h[t] = AddVertex(h[t \ {m}], s[m])
    BY <1>10, <2>3, <2>4
  <2> HIDE DEF m
  <2>8. /\ Distinct(P, h[t]) /\ s[m] \in Range(h[t])
        /\ Range(h[t \ {m}]) \subseteq Range(h[t])
    <3> DEFINE v == h[t \ {m}]
               p == s[m]
    <3>1. Distinct(P, v) /\ p \in P /\ h[t] = AddVertex(v, p)
      BY <2>5, <2>6, <2>7
    <3> HIDE DEF v, p
    <3> QED
      BY <3>1, AddVertexStep DEF v, p
  <2>9. \A i \in t : s[i] \in Range(h[t])
    BY <2>6, <2>8
  <2> QED
    BY <2>2, <2>8, <2>9
<1>12. Good(D)
  BY <1>11
<1>13. xy = h[D]
  BY <1>1, VerticesDef DEF h
<1> QED
  BY <1>12, <1>13 DEF D

-----------------------------------------------------------------------------
(* Grids written and read again *)

Points == Int \X Int
Rectangles == [x0 : Int, x1 : Int, y0 : Int, y1 : Int, native : Int]
\* Finitely many rectangles, each with an area
GoodGrid(g) == IsFiniteSet(DOMAIN g) /\ g \in [DOMAIN g -> Rectangles]

CornersOf(g, order) == [n \in DOMAIN order |-> Corners(g[order[n]])]

\* The corners of a rectangle are four points.
LEMMA CornersIn ==
    ASSUME NEW c \in Rectangles
    PROVE  Corners(c) \in [1..4 -> Points]
<1>1. Corners(c) = [k \in 1..4 |-> CASE k = 1 -> <<c.x0, c.y0>> [] k = 2 -> <<c.x1, c.y0>>
                                    [] k = 3 -> <<c.x1, c.y1>> [] k = 4 -> <<c.x0, c.y1>>]
  BY DEF Corners
<1>2. c.x0 \in Int /\ c.x1 \in Int /\ c.y0 \in Int /\ c.y1 \in Int
  BY DEF Rectangles
<1> QED
  BY <1>1, <1>2 DEF Points

\* What is made of the cells of a grid, in an order that comes to each
Ordered(g, order) == order \in Seq(DOMAIN g) /\ Range(order) = DOMAIN g

CellsMade(g, order, xy, cells) ==
    /\ DOMAIN cells = 1..Len(order)
    /\ \A n \in 1..Len(order) :
        /\ cells[n].ijk = order[n] /\ cells[n].native = g[order[n]].native
        /\ cells[n].vertices \in [1..4 -> DOMAIN xy]
        /\ \A k \in 1..4 : xy[cells[n].vertices[k]] = Corners(g[order[n]])[k]

\* The cells that a generator makes have the vertices at their corners, though they share
\* them.
LEMMA MadeVertices ==
    ASSUME NEW g, GoodGrid(g), NEW order, Ordered(g, order), NEW m, m = MadeGrid(g, order)
    PROVE  /\ Distinct(Points, m.xy)
           /\ m.index = [v \in DOMAIN m.xy |-> v]
           /\ CellsMade(g, order, m.xy, m.cells)
<1> DEFINE c == CornersOf(g, order)
           l == Len(order)
           flat == FlattenSeq(c)
           xy == FoldLeft(AddVertex, <<>>, flat)
           vertex(p) == CHOOSE v \in DOMAIN xy : xy[v] = p
           cells == [n \in DOMAIN order |->
                        [ijk |-> order[n], native |-> g[order[n]].native,
                         vertices |-> [k \in 1..4 |-> vertex(c[n][k])]]]
<1>1. l \in Nat /\ DOMAIN order = 1..l /\ \A n \in 1..l : order[n] \in DOMAIN g
  BY LenProperties DEF Ordered
<1>2. c \in [1..l -> [1..4 -> Points]] /\ \A n \in 1..l : c[n] = Corners(g[order[n]])
  <2>1. \A n \in 1..l : g[order[n]] \in Rectangles
    BY <1>1 DEF GoodGrid
  <2> QED
    BY <1>1, <2>1, CornersIn DEF CornersOf
<1>3. FoursIn(Points, c, l, flat)
  <2> HIDE DEF c, l
  <2> QED
    BY <1>1, <1>2, FlattenFours
<1>4. m = [xy |-> xy, index |-> [v \in DOMAIN xy |-> v], cells |-> cells]
  BY DEF MadeGrid, CornersOf
<1> HIDE DEF c, l, flat, cells
<1>5. flat \in [1..(4 * l) -> Points] /\ 4 * l \in Nat
      /\ \A n \in 1..l : \A k \in 1..4 : flat[4 * (n - 1) + k] = c[n][k]
  BY <1>1, <1>3 DEF FoursIn
<1>6. Distinct(Points, xy) /\ \A i \in 1..(4 * l) : flat[i] \in Range(xy)
  BY <1>5, AddVertices
<1> HIDE DEF xy
<1>7. ASSUME NEW n \in 1..l, NEW k \in 1..4
      PROVE  vertex(c[n][k]) \in DOMAIN xy /\ xy[vertex(c[n][k])] = c[n][k]
  <2>1. 4 * (n - 1) + k \in 1..(4 * l)
    BY <1>1
  <2>2. c[n][k] \in Range(xy)
    BY <1>5, <1>6, <2>1
  <2> QED
    BY <2>2 DEF Range
<1> HIDE DEF vertex
<1>8. m.xy = xy /\ m.index = [v \in DOMAIN xy |-> v]
  BY <1>4
<1>9. m.cells = [n \in 1..l |-> [ijk |-> order[n], native |-> g[order[n]].native,
                                 vertices |-> [k \in 1..4 |-> vertex(c[n][k])]]]
  <2>1. m.cells = cells
    BY <1>4
  <2>2. DOMAIN order = 1..l
    BY <1>1
  <2> QED
    BY <2>1, <2>2, Zenon DEF cells
<1>10. ASSUME NEW n \in 1..l
       PROVE  /\ m.cells[n].ijk = order[n] /\ m.cells[n].native = g[order[n]].native
              /\ m.cells[n].vertices \in [1..4 -> DOMAIN m.xy]
              /\ \A k \in 1..4 : m.xy[m.cells[n].vertices[k]] = Corners(g[order[n]])[k]
  <2>1. m.cells[n] = [ijk |-> order[n], native |-> g[order[n]].native,
                      vertices |-> [k \in 1..4 |-> vertex(c[n][k])]]
    BY <1>9
  <2>2. /\ m.cells[n].ijk = order[n] /\ m.cells[n].native = g[order[n]].native
        /\ m.cells[n].vertices = [k \in 1..4 |-> vertex(c[n][k])]
    BY <2>1
  <2> QED
    BY <1>2, <1>7, <1>8, <2>2
<1> QED
  BY <1>6, <1>8, <1>9, <1>10 DEF l, CellsMade

\* The vertices of a grid have numbers of their own.
Numbered(m) ==
    /\ m.index \in [DOMAIN m.xy -> DOMAIN m.xy]
    /\ \A u, v \in DOMAIN m.xy : m.index[u] = m.index[v] => u = v

LengthOf(refs, n) == MapThenSumSet(LAMBDA k : Len(refs[k]), 1..n)
LengthsFrom(refs, S, h) ==
    h = [s \in SUBSET S |->
            IF s = {} THEN 0 ELSE Len(refs[First(s)]) + h[s \ {First(s)}]]

\* Each cell has four references.
LEMMA ReferencesStart ==
    ASSUME NEW n \in Nat, NEW refs, \A k \in 1..n : Len(refs[k]) = 4
    PROVE  LengthOf(refs, n) = 4 * n
<1> DEFINE f == [k \in 1..n |-> Len(refs[k])]
           D == 1..n
<1>1. IsFiniteSet(D) /\ Cardinality(D) = n
  BY FS_Interval
<1>2. \A k \in D : f[k] = 4
  OBVIOUS
<1>3. LengthOf(refs, n) = Sum(f, D)
  <2>1. LengthOf(refs, n) = (CHOOSE h : LengthsFrom(refs, D, h))[D]
    BY DEF LengthOf, MapThenSumSet, MapThenFoldSet, LengthsFrom, First
  <2>2. \A s \in SUBSET D : s # {} => Len(refs[First(s)]) = f[First(s)]
    BY FirstIn
  <2> HIDE DEF f, D
  <2>3. ASSUME NEW h PROVE LengthsFrom(refs, D, h) <=> SumsFrom(f, D, h)
    <3>1. [s \in SUBSET D |-> IF s = {} THEN 0 ELSE Len(refs[First(s)]) + h[s \ {First(s)}]]
          = [s \in SUBSET D |-> IF s = {} THEN 0 ELSE f[First(s)] + h[s \ {First(s)}]]
      BY <2>2
    <3> QED
      BY <3>1 DEF LengthsFrom, SumsFrom
  <2>4. (CHOOSE h : LengthsFrom(refs, D, h)) = (CHOOSE h : SumsFrom(f, D, h))
    BY <2>3
  <2> QED
    BY <2>1, <2>4, SumDef
<1> HIDE DEF D, f
<1>4. 4 \in Int
  OBVIOUS
<1>5. Sum(f, D) = 4 * Cardinality(D)
  BY <1>1, <1>2, <1>4, SumConst, Zenon
<1> QED
  BY <1>1, <1>3, <1>5 DEF D, f

FileHas(m, n, file) ==
    /\ \A v \in DOMAIN m.xy : file.vertices_xy[m.index[v]] = m.xy[v]
    /\ file.cells_ijk = [c \in 1..n |-> m.cells[c].ijk]
    /\ file.native_area = [c \in 1..n |-> m.cells[c].native]
    /\ \A c \in 1..(n + 1) : file.vertex_refs_start[c] = 4 * (c - 1) + 1
    /\ \A c \in 1..n : \A k \in 1..4 :
            file.vertex_refs[4 * (c - 1) + k] = m.index[m.cells[c].vertices[k]]

\* What Grid::nc_write() makes of a grid whose vertices have an index each.
LEMMA WrittenFields ==
    ASSUME NEW n \in Nat, NEW m, DOMAIN m.cells = 1..n,
           \A c \in 1..n : m.cells[c].vertices \in [1..4 -> DOMAIN m.xy],
           Numbered(m), NEW file, file = Written(m)
    PROVE  FileHas(m, n, file)
<1> DEFINE D == DOMAIN m.xy
           refs == [c \in DOMAIN m.cells |->
                        [k \in DOMAIN m.cells[c].vertices |-> m.index[m.cells[c].vertices[k]]]]
           starts == [c \in 1..(Len(refs) + 1) |->
                        1 + LengthOf(refs, c - 1)]
           at(k) == CHOOSE v \in DOMAIN m.xy : m.index[v] = k
           points == [k \in DOMAIN m.xy |-> m.xy[at(k)]]
           names == [c \in DOMAIN m.cells |-> m.cells[c].ijk]
           areas == [c \in DOMAIN m.cells |-> m.cells[c].native]
           flat == FlattenSeq(refs)
<1>1. file = [vertices_xy |-> points, cells_ijk |-> names, native_area |-> areas,
              vertex_refs |-> flat, vertex_refs_start |-> starts]
  BY DEF Written, LengthOf
<1>2. /\ m.index \in [D -> D]
      /\ \A u, v \in D : m.index[u] = m.index[v] => u = v
  BY DEF Numbered
<1>3. ASSUME NEW v \in D
      PROVE  points[m.index[v]] = m.xy[v]
  <2>1. at(m.index[v]) = v
    BY <1>2
  <2>2. m.index[v] \in D
    BY <1>2
  <2> HIDE DEF at
  <2> QED
    BY <2>1, <2>2
<1>4. refs \in [1..n -> [1..4 -> D]]
      /\ \A c \in 1..n : \A k \in 1..4 : refs[c][k] = m.index[m.cells[c].vertices[k]]
  <2>1. \A c \in 1..n : DOMAIN m.cells[c].vertices = 1..4
    OBVIOUS
  <2>2. \A c \in 1..n : refs[c] = [k \in 1..4 |-> m.index[m.cells[c].vertices[k]]]
    BY <2>1
  <2>3. \A c \in 1..n : \A k \in 1..4 : m.index[m.cells[c].vertices[k]] \in D
    BY <1>2
  <2>4. DOMAIN refs = 1..n
    OBVIOUS
  <2>5. refs = [c \in 1..n |-> refs[c]]
    OBVIOUS
  <2> HIDE DEF refs, D
  <2> QED
    BY <2>2, <2>3, <2>5
<1> HIDE DEF refs, D
<1>5. FoursIn(D, refs, n, flat) /\ Len(refs) = n /\ \A c \in 1..n : Len(refs[c]) = 4
  <2>1. FoursIn(D, refs, n, flat)
    BY <1>4, FlattenFours
  <2>2. Len(refs) = n
    BY <1>4, FunctionSeq
  <2>3. \A c \in 1..n : refs[c] \in [1..4 -> D] /\ 4 \in Nat
    BY <1>4
  <2> QED
    BY <2>1, <2>2, <2>3, FunctionSeq
<1> HIDE DEF flat
<1>6. ASSUME NEW c \in 1..(n + 1)
      PROVE  starts[c] = 4 * (c - 1) + 1
  <2>1. c - 1 \in Nat /\ \A d \in 1..(c - 1) : Len(refs[d]) = 4
    BY <1>5
  <2> DEFINE b == c - 1
  <2>2. LengthOf(refs, b) = 4 * b
    <3> HIDE DEF b
    <3> QED
      BY <2>1, ReferencesStart DEF b
  <2>3. starts[c] = 1 + LengthOf(refs, b)
    BY <1>5
  <2> HIDE DEF starts
  <2> QED
    BY <2>2, <2>3
<1>7. /\ DOMAIN points = DOMAIN m.xy
      /\ names = [c \in 1..n |-> m.cells[c].ijk] /\ areas = [c \in 1..n |-> m.cells[c].native]
  OBVIOUS
<1> HIDE DEF points, names, areas, starts, at
<1>8. /\ file.vertices_xy = points /\ file.cells_ijk = names /\ file.native_area = areas
      /\ file.vertex_refs = flat /\ file.vertex_refs_start = starts
  BY <1>1
<1> QED
  BY <1>3, <1>4, <1>5, <1>6, <1>7, <1>8 DEF FoursIn, D, FileHas

\* What is written of a grid is read back, in whatever order its cells were made and
\* its vertices numbered.
THEOREM ReadWritten ==
    ASSUME NEW g, GoodGrid(g), NEW order, Ordered(g, order), NEW m, Numbered(m),
           m.xy = MadeGrid(g, order).xy, m.cells = MadeGrid(g, order).cells,
           NEW file, file = Written(m)
    PROVE  ReadGrid(file) = g
<1> DEFINE n == Len(order)
           place(ijk) == CHOOSE c \in DOMAIN file.cells_ijk : file.cells_ijk[c] = ijk
           p(c) == Polygon(file, c)
           cell(c) == [x0 |-> p(c)[1][1], y0 |-> p(c)[1][2], x1 |-> p(c)[3][1], y1 |-> p(c)[3][2],
                       native |-> file.native_area[c]]
<1>1. n \in Nat /\ DOMAIN order = 1..n /\ \A c \in 1..n : order[c] \in DOMAIN g
  BY LenProperties DEF Ordered
<1>2. /\ DOMAIN m.cells = 1..n
      /\ \A c \in 1..n :
            /\ m.cells[c].ijk = order[c] /\ m.cells[c].native = g[order[c]].native
            /\ m.cells[c].vertices \in [1..4 -> DOMAIN m.xy]
            /\ \A k \in 1..4 : m.xy[m.cells[c].vertices[k]] = Corners(g[order[c]])[k]
  <2> DEFINE mm == MadeGrid(g, order)
  <2>1. m.xy = mm.xy /\ m.cells = mm.cells /\ mm = MadeGrid(g, order)
    OBVIOUS
  <2> HIDE DEF mm, n
  <2>2. CellsMade(g, order, mm.xy, mm.cells)
    BY <2>1, MadeVertices
  <2> QED
    BY <2>1, <2>2 DEF n, CellsMade
<1> HIDE DEF n
<1>3. /\ \A v \in DOMAIN m.xy : file.vertices_xy[m.index[v]] = m.xy[v]
      /\ file.cells_ijk = [c \in 1..n |-> m.cells[c].ijk]
      /\ file.native_area = [c \in 1..n |-> m.cells[c].native]
      /\ \A c \in 1..(n + 1) : file.vertex_refs_start[c] = 4 * (c - 1) + 1
      /\ \A c \in 1..n : \A k \in 1..4 :
            file.vertex_refs[4 * (c - 1) + k] = m.index[m.cells[c].vertices[k]]
  <2>1. FileHas(m, n, file)
    BY <1>1, <1>2, WrittenFields
  <2> QED
    BY <2>1 DEF FileHas
<1>4. ASSUME NEW c \in 1..n, NEW k \in 1..4
      PROVE  p(c)[k] = Corners(g[order[c]])[k]
  <2>1. c \in 1..(n + 1) /\ c + 1 \in 1..(n + 1)
    BY <1>1
  <2>2. file.vertex_refs_start[c] = 4 * (c - 1) + 1 /\ file.vertex_refs_start[c + 1] = 4 * c + 1
    BY <1>3, <2>1
  <2> DEFINE start == file.vertex_refs_start[c]
             end == file.vertex_refs_start[c + 1]
  <2>3. p(c) = [j \in 1..(end - start) |-> file.vertices_xy[file.vertex_refs[start + j - 1]]]
    BY DEF Polygon
  <2>4. end - start = 4 /\ start + k - 1 = 4 * (c - 1) + k
    BY <2>2
  <2> HIDE DEF start, end, p
  <2>5. p(c)[k] = file.vertices_xy[file.vertex_refs[4 * (c - 1) + k]]
    BY <2>3, <2>4
  <2>6. m.cells[c].vertices[k] \in DOMAIN m.xy
    BY <1>2
  <2>7. file.vertex_refs[4 * (c - 1) + k] = m.index[m.cells[c].vertices[k]]
    BY <1>3
  <2>8. file.vertices_xy[m.index[m.cells[c].vertices[k]]] = m.xy[m.cells[c].vertices[k]]
    BY <1>3, <2>6
  <2>9. m.xy[m.cells[c].vertices[k]] = Corners(g[order[c]])[k]
    BY <1>2
  <2> QED
    BY <2>5, <2>7, <2>8, <2>9
<1>5. ASSUME NEW c \in 1..n
      PROVE  cell(c) = g[order[c]]
  <2> DEFINE q == g[order[c]]
  <2>1. q \in Rectangles
    BY <1>1 DEF GoodGrid
  <2>2. p(c)[1] = Corners(q)[1] /\ p(c)[3] = Corners(q)[3]
    BY <1>4
  <2>3. file.native_area[c] = q.native
    BY <1>2, <1>3
  <2> HIDE DEF q, p
  <2>4. Corners(q)[1] = <<q.x0, q.y0>> /\ Corners(q)[3] = <<q.x1, q.y1>>
    BY DEF Corners
  <2>5. cell(c) = [x0 |-> q.x0, y0 |-> q.y0, x1 |-> q.x1, y1 |-> q.y1, native |-> q.native]
    BY <2>2, <2>3, <2>4
  <2> QED
    BY <2>1, <2>5 DEF Rectangles, q
<1>6. file.cells_ijk = [c \in 1..n |-> order[c]] /\ Range(file.cells_ijk) = DOMAIN g
  <2>1. file.cells_ijk = [c \in 1..n |-> order[c]]
    BY <1>2, <1>3
  <2>2. file.cells_ijk = order
    BY <1>1, <2>1 DEF Ordered
  <2> QED
    BY <2>1, <2>2 DEF Ordered
<1>7. ASSUME NEW ijk \in DOMAIN g
      PROVE  place(ijk) \in 1..n /\ order[place(ijk)] = ijk
  <2>1. \E c \in 1..n : order[c] = ijk
    BY <1>1 DEF Ordered, Range
  <2> QED
    BY <1>6, <2>1
<1>8. ReadGrid(file) = [ijk \in Range(file.cells_ijk) |-> cell(place(ijk))]
  BY DEF ReadGrid
<1> HIDE DEF place, cell
<1>9. ReadGrid(file) = [ijk \in DOMAIN g |-> g[ijk]]
  BY <1>5, <1>6, <1>7, <1>8
<1> QED
  BY <1>9 DEF GoodGrid

-----------------------------------------------------------------------------
(* Ranks *)

\* How many come before each, counted from 1
Ranks(S, R) == [p \in S |-> 1 + Cardinality({q \in S : <<q, p>> \in R})]

StrictOrder(S, R) ==
    /\ \A p \in S : <<p, p>> \notin R
    /\ \A p, q \in S : p # q => <<p, q>> \in R \/ <<q, p>> \in R
    /\ \A p, q, r \in S : <<p, q>> \in R /\ <<q, r>> \in R => <<p, r>> \in R

\* To count those that come before in a strict order gives every element a number of its own.
LEMMA RankBijection ==
    ASSUME NEW S, IsFiniteSet(S), NEW R, StrictOrder(S, R)
    PROVE  /\ Ranks(S, R) \in [S -> 1..Cardinality(S)]
           /\ \A p, q \in S : Ranks(S, R)[p] = Ranks(S, R)[q] => p = q
           /\ \A n \in 1..Cardinality(S) : \E p \in S : Ranks(S, R)[p] = n
<1> DEFINE below(p) == {q \in S : <<q, p>> \in R}
           f == Ranks(S, R)
           n == Cardinality(S)
<1>1. n \in Nat /\ \A p \in S : IsFiniteSet(below(p)) /\ Cardinality(below(p)) \in Nat
  BY FS_Subset, FS_CardinalityType
<1>2. \A p \in S : f[p] = 1 + Cardinality(below(p))
  BY DEF Ranks
<1>3. ASSUME NEW p \in S
      PROVE  f[p] \in 1..n
  <2>1. below(p) \in SUBSET (S \ {p})
    BY DEF StrictOrder
  <2>2. IsFiniteSet(S \ {p}) /\ Cardinality(S \ {p}) = n - 1
    BY FS_RemoveElement
  <2>3. Cardinality(below(p)) <= n - 1
    BY <2>1, <2>2, FS_Subset
  <2>4. f[p] = 1 + Cardinality(below(p)) /\ Cardinality(below(p)) \in Nat
    BY <1>1, <1>2
  <2> HIDE DEF f, n, below
  <2> QED
    BY <1>1, <2>3, <2>4
<1>4. ASSUME NEW p \in S, NEW q \in S, <<p, q>> \in R
      PROVE  f[p] # f[q]
  <2>1. below(p) \in SUBSET below(q) /\ p \in below(q) /\ p \notin below(p)
    BY <1>4 DEF StrictOrder
  <2> HIDE DEF below
  <2>2. Cardinality(below(p)) # Cardinality(below(q))
    BY <1>1, <2>1, FS_Subset
  <2> QED
    BY <1>1, <1>2, <2>2
<1>5. \A p, q \in S : f[p] = f[q] => p = q
  BY <1>4 DEF StrictOrder
<1>6. f \in [S -> 1..n]
  BY <1>3 DEF Ranks
<1> HIDE DEF f, n
<1>7. IsFiniteSet(1..n) /\ Cardinality(1..n) = n
  BY <1>1, FS_Interval
<1>8. f \in Injection(S, 1..n)
  BY <1>5, <1>6 DEF Injection, IsInjective
<1>9. f \in Surjection(S, 1..n)
  BY <1>7, <1>8, FS_Injection DEF n
<1>10. \A k \in 1..n : \E p \in S : f[p] = k
  BY <1>9 DEF Surjection
<1> QED
  BY <1>5, <1>6, <1>10 DEF f, n

\* The order by latitude comes to every cell.
LEMMA RowMajorOrdered ==
    ASSUME NEW g, IsFiniteSet(DOMAIN g), DOMAIN g \in SUBSET Points
    PROVE  Ordered(g, RowMajor(g))
<1> DEFINE D == DOMAIN g
           precedes(p, q) == p[2] < q[2] \/ (p[2] = q[2] /\ p[1] < q[1])
           R == {pq \in D \X D : precedes(pq[1], pq[2])}
           n == Cardinality(D)
           order == RowMajor(g)
<1>1. \A p \in D : p[1] \in Int /\ p[2] \in Int /\ p = <<p[1], p[2]>>
  BY DEF Points
<1>2. StrictOrder(D, R)
  BY <1>1 DEF StrictOrder
<1>3. \A p \in D : {q \in D : <<q, p>> \in R} = {q \in D : precedes(q, p)}
  OBVIOUS
<1>4. order = [k \in 1..n |-> CHOOSE p \in D : 1 + Cardinality({q \in D : precedes(q, p)}) = k]
  BY DEF RowMajor
<1>5. ASSUME NEW p \in D
      PROVE  Ranks(D, R)[p] = 1 + Cardinality({q \in D : precedes(q, p)})
  <2>1. Ranks(D, R)[p] = 1 + Cardinality({q \in D : <<q, p>> \in R})
    BY DEF Ranks
  <2> QED
    BY <1>3, <2>1
<1> DEFINE f == Ranks(D, R)
<1>6. order = [k \in 1..n |-> CHOOSE p \in D : f[p] = k]
  <2>1. ASSUME NEW k
        PROVE  (CHOOSE p \in D : 1 + Cardinality({q \in D : precedes(q, p)}) = k)
                 = (CHOOSE p \in D : f[p] = k)
    <3> HIDE DEF f, precedes, D
    <3> QED
      BY <1>5 DEF f
  <2> HIDE DEF f, precedes, D
  <2> QED
    BY <1>4, <2>1
<1>7. /\ f \in [D -> 1..n]
      /\ \A p, q \in D : f[p] = f[q] => p = q
      /\ \A k \in 1..n : \E p \in D : f[p] = k
  <2> HIDE DEF R
  <2> QED
    BY <1>2, RankBijection
<1> HIDE DEF f, order
<1>8. \A k \in 1..n : order[k] \in D /\ f[order[k]] = k
  BY <1>6, <1>7
<1>9. \A p \in D : f[p] \in 1..n /\ order[f[p]] = p
  BY <1>7, <1>8
<1>10. n \in Nat
  BY FS_CardinalityType
<1>11. order \in [1..n -> D]
  BY <1>6, <1>8
<1> HIDE DEF n, D
<1>12. order \in Seq(D)
  BY <1>10, <1>11, FunctionSeq
<1>13. Range(order) = D
  BY <1>8, <1>9, <1>11 DEF Range
<1> QED
  BY <1>12, <1>13 DEF Ordered, D, order

OrderFrom(S, h) ==
    h = [s \in SUBSET S |-> IF s = {} THEN <<>> ELSE Append(h[s \ {First(s)}], First(s))]

\* The order adds one cell after the other,
LEMMA AnyOrderDef ==
    ASSUME NEW S
    PROVE  AnyOrder(S) = (CHOOSE h : OrderFrom(S, h))[S]
BY DEF AnyOrder, FoldSet, MapThenFoldSet, OrderFrom, First

\* each at the end,
LEMMA AppendRange ==
    ASSUME NEW P, NEW s \in Seq(P), NEW p \in P
    PROVE  Append(s, p) \in Seq(P) /\ Range(Append(s, p)) = Range(s) \cup {p}
<1> DEFINE a == Append(s, p)
           l == Len(s)
<1>1. l \in Nat /\ DOMAIN s = 1..l
  BY LenProperties
<1>2. /\ a \in Seq(P) /\ Len(a) = l + 1 /\ \A i \in 1..l : a[i] = s[i]
      /\ a[l + 1] = p
  BY AppendProperties
<1> HIDE DEF a, l
<1>3. DOMAIN a = 1..(l + 1)
  BY <1>2, LenProperties
<1>4. Range(a) = Range(s) \cup {p}
  <2>1. 1..(l + 1) = 1..l \cup {l + 1}
    BY <1>1
  <2> QED
    BY <1>1, <1>2, <1>3, <2>1 DEF Range
<1> QED
  BY <1>2, <1>4 DEF a

\* and so comes to every cell.
LEMMA AnyOrderOrdered ==
    ASSUME NEW g, IsFiniteSet(DOMAIN g)
    PROVE  Ordered(g, AnyOrder(DOMAIN g))
<1> DEFINE S == DOMAIN g
           ch == [s \in SUBSET S |-> First(s)]
           step == [q \in S \X Seq(S) |-> Append(q[2], q[1])]
<1>1. \A s \in SUBSET S : ch[s] = First(s) /\ (s # {} => First(s) \in s)
  BY FirstIn
<1>2. <<>> \in Seq(S)
  BY EmptySeq
<1>3. /\ step \in [S \X Seq(S) -> Seq(S)]
      /\ \A m \in S : \A v \in Seq(S) : step[<<m, v>>] = Append(v, m)
  BY AppendProperties
<1> HIDE DEF ch, step, S
<1>4. PICK g1 : FoldsBy(ch, <<>>, step, S, Seq(S), g1)
  BY <1>1, <1>2, <1>3, FoldExists DEF S
<1>5. ASSUME NEW s \in SUBSET S
      PROVE  g1[s] = IF s = {} THEN <<>> ELSE Append(g1[s \ {First(s)}], First(s))
  <2>1. g1[s] = IF s = {} THEN <<>> ELSE step[<<ch[s], g1[s \ {ch[s]}]>>]
    BY <1>4 DEF FoldsBy
  <2>2. CASE s # {}
    <3>1. ch[s] = First(s) /\ First(s) \in S
      BY <1>1, <2>2
    <3>2. g1[s \ {First(s)}] \in Seq(S)
      BY <1>4 DEF FoldsBy
    <3> QED
      BY <1>3, <2>1, <2>2, <3>1, <3>2
  <2> QED
    BY <2>1, <2>2
<1>6. OrderFrom(S, g1)
  <2>1. g1 \in [SUBSET S -> Seq(S)]
    BY <1>4 DEF FoldsBy
  <2> QED
    BY <1>5, <2>1 DEF OrderFrom
<1> DEFINE h == CHOOSE h : OrderFrom(S, h)
<1>7. OrderFrom(S, h)
  BY <1>6
<1> HIDE DEF h
<1>8. \A s \in SUBSET S : h[s] = IF s = {} THEN <<>> ELSE Append(h[s \ {First(s)}], First(s))
  BY <1>7 DEF OrderFrom
<1> DEFINE Good(s) == h[s] \in Seq(S) /\ Range(h[s]) = s
           T == {s \in SUBSET S : ~Good(s)}
<1>9. ASSUME T # {} PROVE FALSE
  <2>1. T \in SUBSET (SUBSET S)
    OBVIOUS
  <2>2. PICK s \in T : \A x \in s : s \ {x} \notin T
    <3> HIDE DEF T
    <3> QED
      BY <1>9, <2>1, SmallestSubset DEF S
  <2>3. s \in SUBSET S
    BY <2>2
  <2>4. s # {}
    <3>1. Range(<<>>) = {}
      BY DEF Range
    <3> QED
      BY <1>2, <1>8, <2>2, <2>3, <3>1
  <2> DEFINE x == First(s)
             v == h[s \ {x}]
  <2>5. x \in s /\ x \in S
    BY <2>3, <2>4, FirstIn
  <2>6. v \in Seq(S) /\ Range(v) = s \ {x}
    BY <2>2, <2>3, <2>5
  <2>7. h[s] = Append(v, x)
    BY <1>8, <2>3, <2>4
  <2> HIDE DEF x, v
  <2>8. Append(v, x) \in Seq(S) /\ Range(Append(v, x)) = Range(v) \cup {x}
    BY <2>5, <2>6, AppendRange
  <2>9. Good(s)
    BY <2>5, <2>6, <2>7, <2>8
  <2> QED
    BY <2>2, <2>9
<1>10. Good(S)
  BY <1>9
<1>11. AnyOrder(S) = h[S]
  BY AnyOrderDef DEF h
<1> QED
  BY <1>10, <1>11 DEF Ordered, S

\* Every vertex has an index of its own, as it was added and after sort_renumber_vertices(),
\* which goes by the points.
LEMMA MadeNumbered ==
    ASSUME NEW g, GoodGrid(g), NEW order, Ordered(g, order), NEW m, m = MadeGrid(g, order)
    PROVE  Numbered(m) /\ Numbered(SortRenumbered(m))
<1>1. Distinct(Points, m.xy) /\ m.index = [v \in DOMAIN m.xy |-> v]
  BY MadeVertices
<1>2. Numbered(m)
  BY <1>1 DEF Numbered
<1> DEFINE xy == m.xy
           V == DOMAIN m.xy
           precedes(p, q) == p[1] < q[1] \/ (p[1] = q[1] /\ p[2] < q[2])
           R == {uv \in V \X V : precedes(xy[uv[1]], xy[uv[2]])}
           s == SortRenumbered(m)
<1>3. /\ xy \in Seq(Points) /\ V = 1..Len(xy) /\ Len(xy) \in Nat
      /\ \A u, v \in V : xy[u] = xy[v] => u = v
      /\ \A v \in V : xy[v] \in Points
  BY <1>1, LenProperties DEF Distinct
<1>4. IsFiniteSet(V) /\ Cardinality(V) = Len(xy)
  BY <1>3, FS_Interval
<1>5. \A v \in V : xy[v][1] \in Int /\ xy[v][2] \in Int /\ xy[v] = <<xy[v][1], xy[v][2]>>
  BY <1>3 DEF Points
<1>6. s.xy = xy /\ s.index = [v \in V |-> 1 + Cardinality({u \in V : precedes(xy[u], xy[v])})]
  BY DEF SortRenumbered, MadeGrid
<1> HIDE DEF xy, V, s
<1>7. StrictOrder(V, R)
  <2>1. \A u, v \in V : <<u, v>> \in R <=> precedes(xy[u], xy[v])
    OBVIOUS
  <2>2. \A u, v \in V : u # v => xy[u][1] # xy[v][1] \/ xy[u][2] # xy[v][2]
    BY <1>3, <1>5
  <2> HIDE DEF R
  <2>3. \A u \in V : <<u, u>> \notin R
    BY <1>5, <2>1
  <2>4. \A u, v \in V : u # v => <<u, v>> \in R \/ <<v, u>> \in R
    BY <1>5, <2>1, <2>2
  <2>5. \A u, v, w \in V : <<u, v>> \in R /\ <<v, w>> \in R => <<u, w>> \in R
    BY <1>5, <2>1
  <2> QED
    BY <2>3, <2>4, <2>5 DEF StrictOrder
<1>8. \A v \in V : {u \in V : <<u, v>> \in R} = {u \in V : precedes(xy[u], xy[v])}
  OBVIOUS
<1>9. s.index = Ranks(V, R)
  BY <1>6, <1>8 DEF Ranks
<1> HIDE DEF R
<1>10. /\ Ranks(V, R) \in [V -> 1..Cardinality(V)]
       /\ \A u, v \in V : Ranks(V, R)[u] = Ranks(V, R)[v] => u = v
  BY <1>4, <1>7, RankBijection
<1>11. Numbered(s)
  BY <1>3, <1>4, <1>6, <1>9, <1>10 DEF Numbered, V, xy
<1> QED
  BY <1>2, <1>11 DEF s

-----------------------------------------------------------------------------
(* The grids of the programs *)

LonLatSpecs == [im : Nat \ {0}, jm : Nat \ {0}, offi : Int, dlat : Nat \ {0}]
MapSpecs == [x0 : Int, x1 : Int, dx : Nat \ {0}, y0 : Int, y1 : Int, dy : Nat \ {0}]
GridAt(g) == GoodGrid(g) /\ DOMAIN g \in SUBSET Points

\* A quadrant has a length.
LEMMA QuadrantIn == Quadrant \in Nat \ {0}
BY HntrAssumption

\* A cell on the sphere is a rectangle with an area.
LEMMA SphereCell ==
    ASSUME NEW x0 \in Int, NEW x1 \in Int, NEW y0 \in Int, NEW y1 \in Int
    PROVE  OnSphere(x0, x1, y0, y1) \in Rectangles
<1>1. \A y \in Int : Sine(y) \in Int
  BY QuadrantIn DEF Sine
<1>2. SphereArea(x0, x1, y0, y1) \in Int
  BY <1>1 DEF SphereArea
<1> QED
  BY <1>2 DEF OnSphere, Rectangles

\* The lines between the cells, and their number, are whole.
LEMMA Boundaries ==
    ASSUME NEW g \in LonLatSpecs, NEW caps \in BOOLEAN
    PROVE  /\ HalfRows(g, caps) \in Int /\ NLat(g, caps) \in Int
           /\ \A i \in Int : LonB(g, i) \in Int
           /\ \A j \in Int : LatB(g, caps, j) \in Int
<1>1. g.im \in Nat \ {0} /\ g.jm \in Nat \ {0} /\ g.offi \in Int /\ g.dlat \in Nat \ {0}
  BY DEF LonLatSpecs
<1>2. HalfRows(g, caps) \in Int /\ NLat(g, caps) \in Int
  BY <1>1 DEF HalfRows, NLat
<1>3. ASSUME NEW i \in Int PROVE LonB(g, i) \in Int
  <2> DEFINE n == (g.offi + 4 * i) * Quadrant
             d == g.im
  <2>1. n \in Int /\ d \in Nat \ {0} /\ LonB(g, i) = -2 * Quadrant + (n \div d)
    BY <1>1, QuadrantIn DEF LonB
  <2> HIDE DEF n, d
  <2> QED
    BY <2>1, DivModInt, QuadrantIn
<1>4. ASSUME NEW j \in Int PROVE LatB(g, caps, j) \in Int
  BY <1>1, <1>2 DEF LatB
<1> QED
  BY <1>2, <1>3, <1>4

\* All cells of a latitude-longitude grid, caps included, are rectangles.
LEMMA LonLatCellsGood ==
    ASSUME NEW g \in LonLatSpecs, NEW caps \in BOOLEAN
    PROVE  GridAt(LonLatCells(g, caps))
<1> DEFINE shift == IF caps THEN 1 ELSE 0
           rows == 2 * HalfRows(g, caps)
           west == LonB(g, 0)
           east == LonB(g, g.im)
           north == <<g.im - 1, NLat(g, caps)>>
           south == <<0, 0>>
           B == (0..(g.im - 1)) \X (shift..(rows + shift - 1))
           C == IF caps THEN {north, south} ELSE {}
           cell(p) == IF caps /\ p = north THEN OnSphere(west, east, LatB(g, caps, rows), Quadrant)
                      ELSE IF caps /\ p = south THEN OnSphere(west, east, -Quadrant, LatB(g, caps, 0))
                      ELSE OnSphere(LonB(g, p[1]), LonB(g, p[1] + 1),
                                    LatB(g, caps, p[2] - shift), LatB(g, caps, p[2] - shift + 1))
           all == LonLatCells(g, caps)
<1>1. all = [p \in B \cup C |-> cell(p)]
  BY DEF LonLatCells
<1>2. g.im \in Int /\ HalfRows(g, caps) \in Int /\ NLat(g, caps) \in Int
  BY Boundaries DEF LonLatSpecs
<1>3. rows \in Int /\ shift \in Int /\ west \in Int /\ east \in Int /\ Quadrant \in Int
  BY <1>2, Boundaries, QuadrantIn
<1>4. B \in SUBSET Points /\ C \in SUBSET Points
  BY <1>2, <1>3 DEF Points
<1>5. IsFiniteSet(B \cup C)
  <2>1. IsFiniteSet(0..(g.im - 1)) /\ IsFiniteSet(shift..(rows + shift - 1))
    <3>1. 0 \in Int /\ g.im - 1 \in Int /\ rows + shift - 1 \in Int
      BY <1>2, <1>3
    <3> QED
      BY <1>3, <3>1, FS_Interval
  <2>2. IsFiniteSet(B)
    BY <2>1, FS_Product
  <2>3. IsFiniteSet(C)
    BY PairFinite, FS_EmptySet
  <2> HIDE DEF B, C
  <2> QED
    BY <2>2, <2>3, FS_Union
<1> HIDE DEF B, C, shift, rows, west, east, north, south
<1>6. ASSUME NEW p \in B \cup C
      PROVE  cell(p) \in Rectangles
  <2>1. p[1] \in Int /\ p[2] \in Int
    BY <1>4 DEF Points
  <2>2. LatB(g, caps, rows) \in Int /\ LatB(g, caps, 0) \in Int /\ LonB(g, p[1]) \in Int
        /\ LonB(g, p[1] + 1) \in Int /\ LatB(g, caps, p[2] - shift) \in Int
        /\ LatB(g, caps, p[2] - shift + 1) \in Int
    <3>1. 0 \in Int /\ p[1] + 1 \in Int /\ p[2] - shift \in Int /\ p[2] - shift + 1 \in Int
      BY <1>3, <2>1
    <3> QED
      BY <1>3, <2>1, <3>1, Boundaries
  <2>3. OnSphere(west, east, LatB(g, caps, rows), Quadrant) \in Rectangles
    BY <1>3, <2>2, SphereCell
  <2>4. OnSphere(west, east, -Quadrant, LatB(g, caps, 0)) \in Rectangles
    <3>1. -Quadrant \in Int
      BY <1>3
    <3> QED
      BY <1>3, <2>2, <3>1, SphereCell
  <2>5. OnSphere(LonB(g, p[1]), LonB(g, p[1] + 1),
                 LatB(g, caps, p[2] - shift), LatB(g, caps, p[2] - shift + 1)) \in Rectangles
    BY <2>2, SphereCell
  <2> QED
    BY <2>3, <2>4, <2>5
<1> HIDE DEF cell
<1> QED
  BY <1>1, <1>4, <1>5, <1>6 DEF GridAt, GoodGrid

\* So are those that its clip keeps.
LEMMA LonLatGridGood ==
    ASSUME NEW g \in LonLatSpecs, NEW caps \in BOOLEAN, NEW zone
    PROVE  GridAt(LonLatGrid(g, caps, zone))
<1> DEFINE all == LonLatCells(g, caps)
           S == {p \in DOMAIN all : Clip(zone, all[p])}
<1>1. GridAt(all)
  BY LonLatCellsGood
<1>2. LonLatGrid(g, caps, zone) = [p \in S |-> all[p]]
  BY DEF LonLatGrid, Restrict
<1> HIDE DEF all
<1>3. S \in SUBSET (DOMAIN all) /\ IsFiniteSet(S)
  BY <1>1, FS_Subset DEF GridAt, GoodGrid
<1> QED
  BY <1>1, <1>2, <1>3 DEF GridAt, GoodGrid

\* So are the cells of the grid of an ice model.
LEMMA XYGridGood ==
    ASSUME NEW s \in MapSpecs
    PROVE  GridAt(XYGrid(s))
<1> DEFINE nx == NumCells(s.x0, s.x1, s.dx)
           ny == NumCells(s.y0, s.y1, s.dy)
           x(k) == Boundary(s.x0, s.x1, nx, k)
           y(k) == Boundary(s.y0, s.y1, ny, k)
           D == (0..(nx - 1)) \X (0..(ny - 1))
<1>1. s.x0 \in Int /\ s.x1 \in Int /\ s.y0 \in Int /\ s.y1 \in Int
      /\ s.dx \in Nat \ {0} /\ s.dy \in Nat \ {0}
  BY DEF MapSpecs
<1>2. ASSUME NEW lo \in Int, NEW hi \in Int, NEW d \in Nat \ {0}
      PROVE  NumCells(lo, hi, d) \in Int
  <2>1. 2 * (hi - lo) + d \in Int /\ 2 * d \in Nat \ {0}
    OBVIOUS
  <2> QED
    BY <2>1, DivModInt DEF NumCells
<1>3. ASSUME NEW lo \in Int, NEW hi \in Int, NEW n \in Nat \ {0}, NEW k \in Int
      PROVE  Boundary(lo, hi, n, k) \in Int
  <2> DEFINE e == (hi - lo) * k
  <2>1. e \in Int /\ Boundary(lo, hi, n, k) = lo + (e \div n)
    BY DEF Boundary
  <2> HIDE DEF e
  <2> QED
    BY <2>1, DivModInt
<1>4. nx \in Int /\ ny \in Int
  BY <1>1, <1>2
<1>5. XYGrid(s) = [p \in D |-> OnMap(x(p[1]), x(p[1] + 1), y(p[2]), y(p[2] + 1))]
  BY DEF XYGrid
<1> HIDE DEF nx, ny
<1>6. ASSUME NEW p \in D
      PROVE  OnMap(x(p[1]), x(p[1] + 1), y(p[2]), y(p[2] + 1)) \in Rectangles
  <2>1. p[1] \in Int /\ p[2] \in Int /\ nx \in Nat \ {0} /\ ny \in Nat \ {0}
        /\ p[1] + 1 \in Int /\ p[2] + 1 \in Int
    BY <1>4
  <2>2. x(p[1]) \in Int /\ x(p[1] + 1) \in Int /\ y(p[2]) \in Int /\ y(p[2] + 1) \in Int
    BY <1>1, <1>3, <2>1
  <2> HIDE DEF x, y
  <2> QED
    BY <2>2 DEF OnMap, Rectangles
<1>7. IsFiniteSet(D) /\ D \in SUBSET Points
  <2>1. IsFiniteSet(0..(nx - 1)) /\ IsFiniteSet(0..(ny - 1))
    <3>1. 0 \in Int /\ nx - 1 \in Int /\ ny - 1 \in Int
      BY <1>4
    <3> QED
      BY <3>1, FS_Interval
  <2>2. D \in SUBSET Points
    BY <1>4 DEF Points
  <2> QED
    BY <2>1, <2>2, FS_Product
<1> HIDE DEF x, y, D
<1> QED
  BY <1>5, <1>6, <1>7 DEF GridAt, GoodGrid

\* So are the cells that two grids have in common, and they have an area.
LEMMA ExchangeCellsGood ==
    ASSUME NEW gA, GoodGrid(gA), NEW gI, GoodGrid(gI)
    PROVE  /\ GoodGrid(ExchangeCells(gA, gI))
           /\ DOMAIN ExchangeCells(gA, gI) = Exchange(gA, gI).cells
           /\ \A c \in Exchange(gA, gI).cells :
                /\ c[1] \in DOMAIN gA /\ c[2] \in DOMAIN gI
                /\ ExchangeCells(gA, gI)[c].native = Exchange(gA, gI).area[c]
                /\ Exchange(gA, gI).area[c] \in Nat \ {0}
<1> DEFINE cells == {c \in (DOMAIN gA) \X (DOMAIN gI) : Meet(gA[c[1]], gI[c[2]])}
           area(c) == InCommon(gA[c[1]].x0, gA[c[1]].x1, gI[c[2]].x0, gI[c[2]].x1)
                        * InCommon(gA[c[1]].y0, gA[c[1]].y1, gI[c[2]].y0, gI[c[2]].y1)
           cell(c) == [x0 |-> Max({gA[c[1]].x0, gI[c[2]].x0}),
                       x1 |-> Min({gA[c[1]].x1, gI[c[2]].x1}),
                       y0 |-> Max({gA[c[1]].y0, gI[c[2]].y0}),
                       y1 |-> Min({gA[c[1]].y1, gI[c[2]].y1}),
                       native |-> Exchange(gA, gI).area[c]]
           x == Exchange(gA, gI)
<1>1. x.cells = cells /\ \A c \in cells : x.area[c] = area(c)
  BY DEF Exchange
<1>2. ExchangeCells(gA, gI) = [c \in x.cells |-> cell(c)]
  BY DEF ExchangeCells
<1>3. \A a, b \in Int : Max({a, b}) \in Int /\ Min({a, b}) \in Int
  <2> SUFFICES ASSUME NEW a \in Int, NEW b \in Int
               PROVE  Max({a, b}) \in Int /\ Min({a, b}) \in Int
    OBVIOUS
  <2>1. {a, b} \in SUBSET Int /\ IsFiniteSet({a, b}) /\ {a, b} # {}
    BY PairFinite
  <2>2. Max({a, b}) \in {a, b} /\ Min({a, b}) \in {a, b}
    BY <2>1, MinMaxIn
  <2> QED
    BY <2>2
<1>4. IsFiniteSet(cells)
  <2>1. IsFiniteSet((DOMAIN gA) \X (DOMAIN gI))
    BY FS_Product DEF GoodGrid
  <2> QED
    BY <2>1, FS_Subset
<1> HIDE DEF x
<1>5. ASSUME NEW c \in cells
      PROVE  /\ c[1] \in DOMAIN gA /\ c[2] \in DOMAIN gI
             /\ area(c) \in Nat \ {0} /\ cell(c) \in Rectangles
  <2> DEFINE p == gA[c[1]]
             q == gI[c[2]]
  <2>1. c[1] \in DOMAIN gA /\ c[2] \in DOMAIN gI /\ Meet(p, q)
    OBVIOUS
  <2>2. p \in Rectangles /\ q \in Rectangles
    BY <2>1 DEF GoodGrid
  <2>3. /\ p.x0 \in Int /\ p.x1 \in Int /\ p.y0 \in Int /\ p.y1 \in Int
        /\ q.x0 \in Int /\ q.x1 \in Int /\ q.y0 \in Int /\ q.y1 \in Int
    BY <2>2 DEF Rectangles
  <2> DEFINE w == InCommon(p.x0, p.x1, q.x0, q.x1)
             v == InCommon(p.y0, p.y1, q.y0, q.y1)
  <2>4. w \in Int /\ v \in Int
    <3>1. /\ Max({p.x0, q.x0}) \in Int /\ Min({p.x1, q.x1}) \in Int
          /\ Max({p.y0, q.y0}) \in Int /\ Min({p.y1, q.y1}) \in Int
      <4> HIDE DEF p, q
      <4> QED
        BY <1>3, <2>3
    <3> HIDE DEF p, q
    <3> QED
      BY <3>1 DEF InCommon
  <2>5. w > 0 /\ v > 0
    BY <2>1 DEF Meet
  <2>6. area(c) = w * v
    OBVIOUS
  <2> HIDE DEF w, v
  <2>7. w * v \in Nat \ {0}
    <3>1. w \in Nat \ {0} /\ v \in Nat \ {0}
      BY <2>4, <2>5
    <3> QED
      BY <3>1
  <2>8. Exchange(gA, gI).area[c] \in Int
    BY <1>1, <2>6, <2>7 DEF x
  <2>9. cell(c) \in Rectangles
    BY <1>3, <2>3, <2>8 DEF Rectangles
  <2> QED
    BY <2>1, <2>6, <2>7, <2>9
<1>6. \A c \in cells : cell(c).native = x.area[c]
  BY DEF x
<1> HIDE DEF cells, area, cell
<1> QED
  BY <1>1, <1>2, <1>4, <1>5, <1>6 DEF GoodGrid, x

-----------------------------------------------------------------------------
(* Through the files *)

\* A file as a generator writes it, and as overlap writes its own
FileOf(g) == Written(MadeGrid(g, RowMajor(g)))
RenumberedFileOf(g) == Written(SortRenumbered(MadeGrid(g, AnyOrder(DOMAIN g))))

\* A grid comes back from the file that its generator writes.
LEMMA ReadFile ==
    ASSUME NEW g, GridAt(g)
    PROVE  ReadGrid(FileOf(g)) = g
<1> DEFINE order == RowMajor(g)
           m == MadeGrid(g, order)
           file == Written(m)
<1>1. GoodGrid(g) /\ Ordered(g, order)
  BY RowMajorOrdered DEF GridAt, GoodGrid
<1> HIDE DEF order
<1>2. Numbered(m)
  BY <1>1, MadeNumbered
<1>3. m.xy = MadeGrid(g, order).xy /\ m.cells = MadeGrid(g, order).cells
  OBVIOUS
<1> HIDE DEF m
<1>4. ReadGrid(file) = g
  <2> HIDE DEF file
  <2>1. file = Written(m)
    BY DEF file
  <2> QED
    BY <1>1, <1>2, <1>3, <2>1, ReadWritten
<1> QED
  BY <1>4 DEF FileOf, order, m

\* The exchange grid comes back although its vertices were renumbered after its cells had
\* been made of them.
LEMMA ReadRenumbered ==
    ASSUME NEW g, GoodGrid(g)
    PROVE  ReadGrid(RenumberedFileOf(g)) = g
<1> DEFINE order == AnyOrder(DOMAIN g)
           m == SortRenumbered(MadeGrid(g, order))
           file == Written(m)
<1>1. Ordered(g, order)
  BY AnyOrderOrdered DEF GoodGrid
<1> HIDE DEF order
<1>2. Numbered(m)
  BY <1>1, MadeNumbered
<1>3. m.xy = MadeGrid(g, order).xy /\ m.cells = MadeGrid(g, order).cells
  BY DEF SortRenumbered, MadeGrid
<1> HIDE DEF m
<1>4. ReadGrid(file) = g
  <2> HIDE DEF file
  <2>1. file = Written(m)
    BY DEF file
  <2> QED
    BY <1>1, <1>2, <1>3, <2>1, ReadWritten
<1> QED
  BY <1>4 DEF RenumberedFileOf, order, m

\* Inductive: the grids are grids of rectangles, and the files are what was written of them
\* and of what they have in common.
GridsInv ==
    /\ phase \in {"grids", "overlap", "ready"} =>
         /\ GridAt(gridO) /\ GridAt(gridI)
         /\ files.gridA = FileOf(gridO) /\ files.gridI = FileOf(gridI)
    /\ phase \in {"overlap", "ready"} =>
         files.exgrid = RenumberedFileOf(ExchangeCells(gridO, gridI))

\* Every step keeps the invariant.
LEMMA GridsKept == GridsInv /\ [Next]_vars => GridsInv'
<1> SUFFICES ASSUME GridsInv, [Next]_vars PROVE GridsInv'
  OBVIOUS
<1>1. CASE UNCHANGED <<gridO, gridI, files, phase>>
  BY <1>1 DEF GridsInv
<1>2. CASE MakeGrids
  <2>1. CASE phase' = "failed"
    BY <2>1 DEF GridsInv
  <2>2. CASE phase' # "failed"
    <3>1. PICK g \in Specs, caps \in Caps, zone \in Zones, xy \in XYSpecs :
              /\ phase' = "grids"
              /\ gridO' = LonLatGrid(g, caps, zone) /\ gridI' = XYGrid(xy)
              /\ files' = [gridA |-> Written(MadeGrid(gridO', RowMajor(gridO'))),
                           gridI |-> Written(MadeGrid(gridI', RowMajor(gridI')))]
      BY <1>2, <2>2 DEF MakeGrids
    <3>2. g \in LonLatSpecs /\ caps \in BOOLEAN /\ xy \in MapSpecs
      BY ExchangeAssumption DEF LonLatSpecs, MapSpecs
    <3>3. GridAt(gridO') /\ GridAt(gridI')
      BY <3>1, <3>2, LonLatGridGood, XYGridGood
    <3>4. files'.gridA = FileOf(gridO') /\ files'.gridI = FileOf(gridI')
      BY <3>1 DEF FileOf
    <3>5. phase' = "grids"
      BY <3>1
    <3> QED
      BY <3>3, <3>4, <3>5 DEF GridsInv, GridAt, GoodGrid, FileOf
  <2> QED
    BY <2>1, <2>2
<1>3. CASE OverlapGrids
  <2>1. CASE phase' = "failed"
    BY <2>1 DEF GridsInv
  <2>2. CASE phase' # "failed"
    <3>1. /\ phase = "grids" /\ phase' = "overlap" /\ gridO' = gridO /\ gridI' = gridI
          /\ files' = OverlapFile(ReadGrid(files.gridA), ReadGrid(files.gridI))
      BY <1>3, <2>2 DEF OverlapGrids
    <3>2. GridAt(gridO) /\ GridAt(gridI)
          /\ ReadGrid(files.gridA) = gridO /\ ReadGrid(files.gridI) = gridI
      BY <3>1, ReadFile DEF GridsInv
    <3>3. files' = [gridA |-> FileOf(gridO), gridI |-> FileOf(gridI),
                    exgrid |-> RenumberedFileOf(ExchangeCells(gridO, gridI))]
      BY <3>1, <3>2 DEF OverlapFile, FileOf, RenumberedFileOf
    <3>4. /\ files'.gridA = FileOf(gridO) /\ files'.gridI = FileOf(gridI)
          /\ files'.exgrid = RenumberedFileOf(ExchangeCells(gridO, gridI))
      BY <3>3
    <3> QED
      BY <3>1, <3>2, <3>4 DEF GridsInv, GridAt, GoodGrid, FileOf, RenumberedFileOf
  <2> QED
    BY <2>1, <2>2
<1>4. CASE NewRegridder
  <2>1. phase = "overlap" /\ phase' \in {"failed", "ready"}
        /\ UNCHANGED <<gridO, gridI, files>>
    BY <1>4 DEF NewRegridder
  <2> QED
    BY <2>1 DEF GridsInv
<1>5. CASE Couple
  <2>1. phase = "ready" /\ phase' \in {"failed", "ready"} /\ UNCHANGED <<gridO, gridI, files>>
    BY <1>5 DEF Couple, CoupledWith, Coupled
  <2> QED
    BY <2>1 DEF GridsInv
<1>6. CASE RegridTool
  BY <1>1, <1>6 DEF RegridTool
<1> QED
  BY <1>1, <1>2, <1>3, <1>4, <1>5, <1>6 DEF Next, vars

\* The invariant holds in every state.
LEMMA GridsInvariant == Spec => []GridsInv
<1>1. Init => GridsInv
  BY DEF Init, GridsInv
<1> QED
  BY <1>1, GridsKept, PTL DEF Spec

\* Grid::nc_read() gives the grids that were made, whatever they are, from what
\* Grid::nc_write() made of them: at every time, for the grids of the ocean and of the ice
\* and for the exchange grid that overlap makes of what it read of both.
THEOREM FilesKept == Spec => []FilesKeepGrids
<1>1. ASSUME GridsInv
      PROVE  FilesKeepGrids
  <2>1. ASSUME phase \in {"grids", "overlap", "ready"}
        PROVE  ReadGrid(files.gridA) = gridO /\ ReadGrid(files.gridI) = gridI
    BY <1>1, <2>1, ReadFile DEF GridsInv
  <2>2. ASSUME phase \in {"overlap", "ready"}
        PROVE  ReadGrid(files.exgrid) = ExchangeCells(gridO, gridI)
    <3>1. GoodGrid(ExchangeCells(gridO, gridI))
      BY <1>1, <2>2, ExchangeCellsGood DEF GridsInv, GridAt
    <3> QED
      BY <1>1, <2>2, <3>1, ReadRenumbered DEF GridsInv
  <2> QED
    BY <2>1, <2>2 DEF FilesKeepGrids
<1> QED
  BY <1>1, GridsInvariant, PTL

-----------------------------------------------------------------------------
(* The atmosphere grid over an ocean grid *)

\* An ocean grid that ModelE's regridder takes
CanNest(g) == g \in LonLatSpecs /\ ~HntrAFails(g) /\ g.offi % 2 = 0 /\ EdgesInside(g)

\* Half of the number of cells and latitudes
HalfOf(g, m, n) == m \in Nat \ {0} /\ n \in Nat \ {0} /\ g.im = 2 * m /\ g.jm = 2 * n

\* What make_hntrA() makes of such a grid.
LEMMA AtmosphereOf ==
    ASSUME NEW g, CanNest(g)
    PROVE  \E m, n, k \in Int :
               /\ HalfOf(g, m, n) /\ g.offi = 2 * k
               /\ HntrA(g) = [im |-> m, jm |-> n, offi |-> k, dlat |-> 2 * g.dlat]
<1> DEFINE m == g.im \div 2
           n == g.jm \div 2
           k == g.offi \div 2
<1>1. g.im \in Nat \ {0} /\ g.jm \in Nat \ {0} /\ g.offi \in Int
  BY DEF CanNest, LonLatSpecs
<1>2. g.im % 2 = 0 /\ g.jm % 2 = 0 /\ g.offi % 2 = 0
  BY DEF CanNest, HntrAFails
<1>3. m \in Int /\ n \in Int /\ k \in Int /\ g.im = 2 * m /\ g.jm = 2 * n /\ g.offi = 2 * k
  BY <1>1, <1>2
<1>4. HntrA(g) = [im |-> m, jm |-> n, offi |-> k, dlat |-> 2 * g.dlat]
  BY DEF HntrA
<1> HIDE DEF m, n, k
<1>5. HalfOf(g, m, n)
  BY <1>1, <1>3 DEF HalfOf
<1> QED
  BY <1>3, <1>4, <1>5

\* The least number of a set that begins at some number.
LEMMA MinIs ==
    ASSUME NEW S, NEW x \in S, \A y \in S : x <= y, S \in SUBSET Int
    PROVE  Min(S) = x
<1>1. \A z \in S : (\A y \in S : z <= y) => z = x
  OBVIOUS
<1> QED
  BY <1>1 DEF Min

\* Along a latitude, the cells of the ocean lie two by two in those of the atmosphere.
LEMMA EdgeCellNests ==
    ASSUME NEW A, NEW B, NEW m \in Nat \ {0}, NEW k \in Int,
           A.im = m, A.offi = k, B.im = 2 * m, B.offi = 2 * k,
           NEW ib \in 1..(2 * m)
    PROVE  /\ EdgeCell(A, B, ib) = m + ib \div 2
           /\ \A ia \in Int : Beyond(A, B, ia, ib) = m * (8 * (ia - m) - 4 * (ib - 1))
<1>1. \A ia \in Int : Beyond(A, B, ia, ib) = m * (8 * (ia - m) - 4 * (ib - 1))
  <2> SUFFICES ASSUME NEW ia \in Int
               PROVE  Beyond(A, B, ia, ib) = m * (8 * (ia - m) - 4 * (ib - 1))
    OBVIOUS
  <2>1. Beyond(A, B, ia, ib) = (4 * (ia - m) + k) * (2 * m) - (4 * (ib - 1) + 2 * k) * m
    BY DEF Beyond
  <2> QED
    BY <2>1
<1>2. \A ia \in Int : Beyond(A, B, ia, ib) >= 0 <=> ia >= m + ib \div 2
  <2> SUFFICES ASSUME NEW ia \in Int
               PROVE  Beyond(A, B, ia, ib) >= 0 <=> ia >= m + ib \div 2
    OBVIOUS
  <2> DEFINE d == 8 * (ia - m) - 4 * (ib - 1)
  <2>1. d \in Int /\ (d >= 0 <=> ia >= m + ib \div 2)
    OBVIOUS
  <2>2. Beyond(A, B, ia, ib) = m * d
    BY <1>1
  <2> HIDE DEF d
  <2>3. m * d >= 0 <=> d >= 0
    BY <2>1
  <2> QED
    BY <2>1, <2>2, <2>3
<1> DEFINE S == {ia \in 1..(2 * A.im + 1) : Beyond(A, B, ia, ib) >= 0}
           x == m + ib \div 2
<1>3. x \in 1..(2 * m + 1)
  OBVIOUS
<1>4. x \in S /\ (\A y \in S : x <= y) /\ S \in SUBSET Int
  BY <1>2, <1>3
<1>5. Min(S) = x
  <2> HIDE DEF S, x
  <2> QED
    BY <1>4, MinIs
<1> QED
  BY <1>1, <1>5 DEF EdgeCell

\* An ocean cell lies in one cell of its latitude, half of it.
LEMMA ColumnNests ==
    ASSUME NEW A, NEW B, NEW m \in Nat \ {0}, NEW k \in Int,
           A.im = m, A.offi = k, B.im = 2 * m, B.offi = 2 * k,
           NEW ib \in 1..(2 * m)
    PROVE  LET w == West(A, B, ib)  e == East(A, B, ib)
           IN  /\ w.cell = m + (ib + 1) \div 2 /\ e.cell = w.cell
               /\ w.cut + e.cut = 4 * m /\ w.cut \in Int /\ e.cut \in Int
<1> DEFINE i0 == EdgeCell(A, B, ib)
           d0 == Beyond(A, B, i0, ib)
           b1 == (ib % (2 * m)) + 1
           i1 == EdgeCell(A, B, b1)
           d1 == Beyond(A, B, i1, b1)
<1>1. i0 = m + ib \div 2 /\ d0 = m * (8 * (ib \div 2) - 4 * (ib - 1))
  <2>1. i0 = m + ib \div 2
    BY EdgeCellNests
  <2>3. \A ia \in Int : Beyond(A, B, ia, ib) = m * (8 * (ia - m) - 4 * (ib - 1))
    <3> HIDE DEF i0, i1, d0, d1, b1
    <3> QED
      BY EdgeCellNests
  <2>2. m + ib \div 2 \in Int /\ (m + ib \div 2) - m = ib \div 2
    OBVIOUS
  <2> HIDE DEF i0
  <2> QED
    BY <2>1, <2>2, <2>3
<1>2. b1 \in 1..(2 * m) /\ (ib = 2 * m => b1 = 1) /\ (ib < 2 * m => b1 = ib + 1)
  <2>1. CASE ib = 2 * m
    <3>1. ib % (2 * m) = 0
      BY <2>1
    <3> QED
      BY <2>1, <3>1
  <2>2. CASE ib < 2 * m
    <3>1. ib % (2 * m) = ib
      BY <2>2
    <3> QED
      BY <2>2, <3>1
  <2> QED
    BY <2>1, <2>2
<1> HIDE DEF b1
<1>3. i1 = m + b1 \div 2 /\ d1 = m * (8 * (b1 \div 2) - 4 * (b1 - 1))
  <2>1. i1 = m + b1 \div 2
    BY <1>2, EdgeCellNests
  <2>4. b1 \in 1..(2 * m)
    BY <1>2
  <2>3. \A ia \in Int : Beyond(A, B, ia, b1) = m * (8 * (ia - m) - 4 * (b1 - 1))
    <3> HIDE DEF i0, i1, d0, d1
    <3> QED
      BY <2>4, EdgeCellNests
  <2>2. m + b1 \div 2 \in Int /\ (m + b1 \div 2) - m = b1 \div 2
    BY <1>2
  <2> HIDE DEF i1
  <2> QED
    BY <2>1, <2>2, <2>3
<1>4. West(A, B, ib) = IF d0 = 0 THEN [cell |-> i0 + 1, cut |-> 0]
                       ELSE [cell |-> i0, cut |-> 4 * (2 * m) - d0]
  BY DEF West
<1>5. East(A, B, ib) = [cell |-> i1 + (IF ib = 2 * m THEN m ELSE 0), cut |-> d1]
  BY DEF East, b1
<1> HIDE DEF i0, d0, i1, d1
<1>6. CASE ib % 2 = 1
  <2>1. ib \div 2 = (ib - 1) \div 2 /\ 2 * (ib \div 2) = ib - 1 /\ (ib + 1) \div 2 = ib \div 2 + 1
        /\ ib # 2 * m
    BY <1>6
  <2>2. d0 = 0
    BY <1>1, <2>1
  <2>3. b1 = ib + 1 /\ b1 \div 2 = (ib + 1) \div 2 /\ 8 * (b1 \div 2) - 4 * (b1 - 1) = 4
    BY <1>2, <2>1
  <2>4. d1 = 4 * m
    BY <1>3, <2>3
  <2>5. /\ West(A, B, ib).cell = i0 + 1 /\ West(A, B, ib).cut = 0
        /\ East(A, B, ib).cell = i1 /\ East(A, B, ib).cut = 4 * m
    BY <1>4, <1>5, <2>1, <2>2, <2>4, <1>3
  <2> QED
    BY <1>1, <1>3, <2>1, <2>3, <2>5
<1>7. CASE ib % 2 = 0
  <2>1. 2 * (ib \div 2) = ib /\ (ib + 1) \div 2 = ib \div 2 /\ 8 * (ib \div 2) - 4 * (ib - 1) = 4
    BY <1>7
  <2>2. d0 = 4 * m /\ d0 # 0
    BY <1>1, <2>1
  <2>3. 8 * (b1 \div 2) - 4 * (b1 - 1) = 0 /\ b1 \div 2 + (IF ib = 2 * m THEN m ELSE 0) = ib \div 2
    BY <1>2, <1>7
  <2>4. d1 = 0
    BY <1>3, <2>3
  <2>5. /\ West(A, B, ib).cell = i0 /\ West(A, B, ib).cut = 4 * m
        /\ East(A, B, ib).cell = i1 + (IF ib = 2 * m THEN m ELSE 0) /\ East(A, B, ib).cut = 0
    <3>1. West(A, B, ib) = [cell |-> i0, cut |-> 4 * (2 * m) - d0]
      BY <1>4, <2>2
    <3>2. 4 * (2 * m) - d0 = 4 * m
      BY <2>2
    <3> QED
      BY <1>5, <2>4, <3>1, <3>2
  <2>6. i1 + (IF ib = 2 * m THEN m ELSE 0) = m + ib \div 2
    BY <1>2, <1>3, <2>3
  <2>7. i0 = m + (ib + 1) \div 2
    BY <1>1, <2>1
  <2> QED
    BY <1>1, <2>5, <2>6, <2>7
<1> QED
  BY <1>6, <1>7

\* Between the poles the sine increases.
LEMMA SineIncreases ==
    ASSUME NEW x \in Int, NEW y \in Int, -Quadrant <= x, x < y, y <= Quadrant
    PROVE  Sine(x) < Sine(y) /\ Sine(x) \in Int /\ Sine(y) \in Int
<1>1. Quadrant \in Nat \ {0}
  BY QuadrantIn
<1>2. Sine(x) \in Int /\ Sine(y) \in Int
  BY <1>1 DEF Sine
<1>3. CASE x >= 0
  <2>1. Sine(y) - Sine(x) = (y - x) * (2 * Quadrant - x - y)
    BY <1>1, <1>3 DEF Sine
  <2>2. y - x > 0 /\ 2 * Quadrant - x - y > 0
    BY <1>1
  <2> QED
    BY <1>1, <1>2, <2>1, <2>2
<1>4. CASE y <= 0
  <2>1. Sine(y) - Sine(x) = (y - x) * (2 * Quadrant + x + y)
    BY <1>1, <1>4 DEF Sine
  <2>2. y - x > 0 /\ 2 * Quadrant + x + y > 0
    BY <1>1
  <2> QED
    BY <1>1, <1>2, <2>1, <2>2
<1>5. CASE x < 0 /\ 0 < y
  <2>1. Sine(x) = x * (2 * Quadrant + x) /\ Sine(y) = y * (2 * Quadrant - y)
    BY <1>1, <1>5 DEF Sine
  <2>2. x * (2 * Quadrant + x) < 0 /\ y * (2 * Quadrant - y) > 0
    BY <1>1, <1>5
  <2>3. Sine(x) < 0 /\ Sine(y) > 0
    BY <2>1, <2>2
  <2> QED
    BY <1>2, <2>3
<1> QED
  BY <1>3, <1>4, <1>5

\* The edges of the latitudes go from pole to pole.
LEMMA EdgesIncrease ==
    ASSUME NEW g, g.jm \in Nat \ {0}, g.dlat \in Nat \ {0}, EdgesInside(g)
    PROVE  /\ \A j \in 0..(g.jm) : NorthEdge(g, j) \in Int
           /\ \A i, j \in 0..(g.jm) : i < j => NorthEdge(g, i) < NorthEdge(g, j)
<1> DEFINE lat(j) == IF j = 0 THEN -Quadrant ELSE IF j = g.jm THEN Quadrant
                     ELSE (2 * j - g.jm) * g.dlat
<1>1. Quadrant \in Nat \ {0}
  BY QuadrantIn
<1>2. \A j \in 0..(g.jm) : NorthEdge(g, j) = Sine(lat(j))
  <2>1. Sine(Quadrant) = Quadrant * Quadrant
    <3>1. Sine(Quadrant) = Quadrant * (2 * Quadrant - Quadrant)
      BY <1>1 DEF Sine
    <3> QED
      BY <1>1, <3>1
  <2>2. Sine(-Quadrant) = -(Quadrant * Quadrant)
    <3>1. Sine(-Quadrant) = (-Quadrant) * (2 * Quadrant - (-(-Quadrant)))
      BY <1>1 DEF Sine
    <3> QED
      BY <1>1, <3>1
  <2> QED
    BY <2>1, <2>2 DEF NorthEdge
<1>3. \A j \in 0..(g.jm) : lat(j) \in Int /\ -Quadrant <= lat(j) /\ lat(j) <= Quadrant
      /\ (j \notin {0, g.jm} => -Quadrant < lat(j) /\ lat(j) < Quadrant)
  <2> SUFFICES ASSUME NEW j \in 1..(g.jm - 1)
               PROVE  LET l == (2 * j - g.jm) * g.dlat
                      IN  l \in Int /\ -Quadrant < l /\ l < Quadrant
    BY <1>1
  <2> DEFINE l == (2 * j - g.jm) * g.dlat
             e == (g.jm - 2) * g.dlat
  <2>1. e < Quadrant /\ e \in Int /\ l \in Int
    BY DEF EdgesInside
  <2>2. 2 * j - g.jm <= g.jm - 2 /\ -(g.jm - 2) <= 2 * j - g.jm
    OBVIOUS
  <2>3. l <= e /\ -e <= l
    <3>1. e - l = (g.jm - 2 - (2 * j - g.jm)) * g.dlat
          /\ l + e = (g.jm - 2 + (2 * j - g.jm)) * g.dlat
      OBVIOUS
    <3>2. g.jm - 2 - (2 * j - g.jm) >= 0 /\ g.jm - 2 + (2 * j - g.jm) >= 0
      BY <2>2
    <3>3. (g.jm - 2 - (2 * j - g.jm)) * g.dlat >= 0 /\ (g.jm - 2 + (2 * j - g.jm)) * g.dlat >= 0
      BY <3>2
    <3> HIDE DEF e, l
    <3> QED
      BY <2>1, <3>1, <3>3
  <2> HIDE DEF e, l
  <2>4. l \in Int /\ -Quadrant < l /\ l < Quadrant
    BY <1>1, <2>1, <2>3
  <2> QED
    BY <2>4 DEF l
<1>4. \A i, j \in 0..(g.jm) : i < j => lat(i) < lat(j)
  <2> SUFFICES ASSUME NEW i \in 0..(g.jm), NEW j \in 0..(g.jm), i < j
               PROVE  lat(i) < lat(j)
    OBVIOUS
  <2>1. CASE i = 0 \/ j = g.jm
    <3> HIDE DEF lat
    <3>1. lat(0) = -Quadrant /\ lat(g.jm) = Quadrant
      BY DEF lat
    <3> QED
      BY <1>1, <1>3, <2>1, <3>1
  <2>2. CASE i # 0 /\ j # g.jm
    <3>1. lat(j) - lat(i) = (2 * (j - i)) * g.dlat
      BY <2>2
    <3>2. (2 * (j - i)) * g.dlat > 0
      OBVIOUS
    <3> HIDE DEF lat
    <3> QED
      BY <1>3, <3>1, <3>2
  <2> QED
    BY <2>1, <2>2
<1> HIDE DEF lat
<1>5. \A j \in 0..(g.jm) : Sine(lat(j)) \in Int
  BY <1>1, <1>3 DEF Sine
<1>6. \A i, j \in 0..(g.jm) : i < j => Sine(lat(i)) < Sine(lat(j))
  BY <1>3, <1>4, SineIncreases
<1> QED
  BY <1>2, <1>5, <1>6

\* Every second latitude of the ocean grid ends where one of the atmosphere grid does.
LEMMA EdgesNest ==
    ASSUME NEW B, NEW A, NEW n \in Nat \ {0}, B.jm = 2 * n, A.jm = n,
           B.dlat \in Int, A.dlat = 2 * B.dlat
    PROVE  \A j \in 0..n : NorthEdge(A, j) = NorthEdge(B, 2 * j)
<1> SUFFICES ASSUME NEW j \in 0..n
             PROVE  NorthEdge(A, j) = NorthEdge(B, 2 * j)
  OBVIOUS
<1>1. (2 * j - n) * (2 * B.dlat) = (2 * (2 * j) - 2 * n) * B.dlat
  OBVIOUS
<1>2. (2 * j = 0 <=> j = 0) /\ (2 * j = 2 * n <=> j = n)
  OBVIOUS
<1> QED
  BY <1>1, <1>2 DEF NorthEdge

\* The latitude of A that holds an edge of B, two of B's in each.
LEMMA EdgeRowNests ==
    ASSUME NEW B, NEW A, NEW n \in Nat \ {0}, B.jm = 2 * n, A.jm = n,
           B.dlat \in Nat \ {0}, A.dlat = 2 * B.dlat, EdgesInside(B), NEW jb \in 1..(2 * n)
    PROVE  EdgeRow(A, B, jb) = (jb + 1) \div 2
<1> DEFINE S == {ja \in 1..A.jm : NorthEdge(A, ja) >= NorthEdge(B, jb)}
           x == (jb + 1) \div 2
<1>1. /\ \A j \in 0..(2 * n) : NorthEdge(B, j) \in Int
      /\ \A i, j \in 0..(2 * n) : i < j => NorthEdge(B, i) < NorthEdge(B, j)
  BY EdgesIncrease
<1>2. \A j \in 0..n : NorthEdge(A, j) = NorthEdge(B, 2 * j)
  BY EdgesNest
<1>3. \A ja \in 1..n : NorthEdge(A, ja) >= NorthEdge(B, jb) <=> 2 * ja >= jb
  <2> SUFFICES ASSUME NEW ja \in 1..n
               PROVE  NorthEdge(B, 2 * ja) >= NorthEdge(B, jb) <=> 2 * ja >= jb
    BY <1>2
  <2>1. 2 * ja \in 0..(2 * n) /\ jb \in 0..(2 * n)
    OBVIOUS
  <2>2. CASE 2 * ja < jb
    <3>1. NorthEdge(B, 2 * ja) < NorthEdge(B, jb)
      BY <1>1, <2>1, <2>2
    <3> QED
      BY <1>1, <2>1, <2>2, <3>1
  <2>3. CASE 2 * ja > jb
    <3>1. NorthEdge(B, 2 * ja) > NorthEdge(B, jb)
      BY <1>1, <2>1, <2>3
    <3> QED
      BY <1>1, <2>1, <2>3, <3>1
  <2>4. CASE 2 * ja = jb
    BY <1>1, <2>1, <2>4
  <2> QED
    BY <2>2, <2>3, <2>4
<1>4. x \in 1..n /\ 2 * x >= jb /\ \A ja \in 1..n : 2 * ja >= jb => x <= ja
  OBVIOUS
<1>5. x \in S /\ (\A y \in S : x <= y) /\ S \in SUBSET Int
  BY <1>3, <1>4
<1>6. Min(S) = x
  <2> HIDE DEF S, x
  <2> QED
    BY <1>5, MinIs
<1> QED
  BY <1>6 DEF EdgeRow

\* An ocean cell lies in one latitude of the atmosphere.
LEMMA RowNests ==
    ASSUME NEW B, NEW A, NEW n \in Nat \ {0}, B.jm = 2 * n, A.jm = n,
           B.dlat \in Nat \ {0}, A.dlat = 2 * B.dlat, EdgesInside(B), NEW jb \in 1..(2 * n)
    PROVE  LET s == South(A, B, jb)  t == North(A, B, jb)  r == (jb + 1) \div 2
           IN  /\ s.row = r /\ t.row = r /\ s.cut \in Int /\ t.cut \in Int
               /\ NorthEdge(A, r) - NorthEdge(A, r - 1) - s.cut - t.cut
                    = NorthEdge(B, jb) - NorthEdge(B, jb - 1)
<1> DEFINE r == (jb + 1) \div 2
           E(j) == NorthEdge(B, j)
<1>1. \A j \in 0..(2 * n) : E(j) \in Int
  BY EdgesIncrease
<1>2. \A j \in 0..n : NorthEdge(A, j) = E(2 * j)
  BY EdgesNest
<1>3. r \in 1..n /\ r - 1 \in 0..n
  OBVIOUS
<1>4. NorthEdge(A, r) = E(2 * r) /\ NorthEdge(A, r - 1) = E(2 * (r - 1))
  BY <1>2, <1>3
<1>5. South(A, B, jb).row = r /\ South(A, B, jb).cut = E(jb - 1) - E(2 * (r - 1))
  <2>1. CASE jb = 1
    <3>1. r = 1 /\ 2 * (r - 1) = jb - 1 /\ E(jb - 1) - E(jb - 1) = 0
      BY <1>1, <2>1
    <3> QED
      BY <2>1, <3>1 DEF South
  <2>2. CASE jb # 1 /\ jb % 2 = 1
    <3> DEFINE ja == (jb - 1 + 1) \div 2
    <3>1. /\ ja \in 0..n /\ 2 * ja = jb - 1 /\ r = ja + 1 /\ 2 * (r - 1) = jb - 1
          /\ jb - 1 \in 1..(2 * n)
      BY <2>2
    <3>2. EdgeRow(A, B, jb - 1) = ja
      <4> DEFINE k == jb - 1
      <4>1. k \in 1..(2 * n)
        BY <3>1
      <4> HIDE DEF k
      <4>2. EdgeRow(A, B, k) = (k + 1) \div 2
        BY <4>1, EdgeRowNests
      <4> QED
        BY <4>2 DEF k
    <3> HIDE DEF ja
    <3>3. NorthEdge(A, ja) = E(jb - 1) /\ E(jb - 1) - E(jb - 1) = 0
      BY <1>1, <1>2, <3>1
    <3>4. South(A, B, jb) = [row |-> ja + 1, cut |-> 0]
      BY <2>2, <3>2, <3>3 DEF South
    <3> QED
      BY <3>1, <3>3, <3>4
  <2>3. CASE jb % 2 = 0
    <3> DEFINE ja == (jb - 1 + 1) \div 2
    <3>1. /\ ja \in 1..n /\ 2 * ja = jb /\ r = ja /\ jb - 1 \in 1..(2 * n) /\ jb # 1
          /\ ja - 1 = r - 1 /\ jb \in 0..(2 * n) /\ jb - 1 \in 0..(2 * n) /\ jb - 1 < jb
      BY <2>3
    <3>2. EdgeRow(A, B, jb - 1) = ja
      <4> DEFINE k == jb - 1
      <4>1. k \in 1..(2 * n)
        BY <3>1
      <4> HIDE DEF k
      <4>2. EdgeRow(A, B, k) = (k + 1) \div 2
        BY <4>1, EdgeRowNests
      <4> QED
        BY <4>2 DEF k
    <3>3. NorthEdge(A, ja) # E(jb - 1)
      <4>1. NorthEdge(A, ja) = E(jb)
        BY <1>2, <3>1
      <4>2. E(jb - 1) < E(jb)
        BY <3>1, EdgesIncrease
      <4> QED
        BY <1>1, <3>1, <4>1, <4>2
    <3> HIDE DEF ja, r
    <3>4. South(A, B, jb) = [row |-> ja, cut |-> E(jb - 1) - NorthEdge(A, ja - 1)]
      BY <3>1, <3>2, <3>3 DEF South
    <3> QED
      BY <1>4, <3>1, <3>4
  <2> QED
    BY <2>1, <2>2, <2>3
<1>6. North(A, B, jb).row = r /\ North(A, B, jb).cut = E(2 * r) - E(jb)
  <2>1. CASE jb = 2 * n
    <3>1. r = n /\ 2 * r = jb /\ E(jb) - E(jb) = 0
      BY <1>1, <2>1
    <3> QED
      BY <2>1, <3>1 DEF North
  <2>2. CASE jb # 2 * n
    <3>1. EdgeRow(A, B, jb) = r
      BY EdgeRowNests
    <3> HIDE DEF r
    <3> QED
      BY <1>4, <2>2, <3>1 DEF North
  <2> QED
    BY <2>1, <2>2
<1>7. /\ 2 * r \in 0..(2 * n) /\ 2 * (r - 1) \in 0..(2 * n)
      /\ jb \in 0..(2 * n) /\ jb - 1 \in 0..(2 * n)
  BY <1>3
<1>8. E(2 * r) \in Int /\ E(2 * (r - 1)) \in Int /\ E(jb) \in Int /\ E(jb - 1) \in Int
  BY <1>1, <1>7
<1> HIDE DEF E, r
<1>9. E(2 * r) - E(2 * (r - 1)) - (E(jb - 1) - E(2 * (r - 1))) - (E(2 * r) - E(jb))
        = E(jb) - E(jb - 1)
  BY <1>8
<1> QED
  BY <1>4, <1>5, <1>6, <1>8, <1>9 DEF E, r

\* The atmosphere cell of an ocean cell, both as Hntr numbers them
CellOver(g, b) ==
    <<(((g.im \div 2) + (b[1] + 1) \div 2 - 1) % (g.im \div 2)) + 1, (b[2] + 1) \div 2>>

\* An ocean cell visits one atmosphere cell, once, with a positive weight.
LEMMA VisitNests ==
    ASSUME NEW g, CanNest(g), NEW b \in Cells(g)
    PROVE  \E v : /\ Visits(HntrA(g), g, b) = {v}
                  /\ v[2] = CellOver(g, b) /\ v[3] \in Nat \ {0}
<1>1. PICK m, n, k \in Int :
          /\ HalfOf(g, m, n) /\ g.offi = 2 * k
          /\ HntrA(g) = [im |-> m, jm |-> n, offi |-> k, dlat |-> 2 * g.dlat]
  BY AtmosphereOf
<1> DEFINE A == HntrA(g)
           w == West(A, g, b[1])
           e == East(A, g, b[1])
           s == South(A, g, b[2])
           t == North(A, g, b[2])
           i == m + (b[1] + 1) \div 2
           r == (b[2] + 1) \div 2
<1>2. m \in Nat \ {0} /\ n \in Nat \ {0} /\ g.im = 2 * m /\ g.jm = 2 * n
      /\ A.im = m /\ A.jm = n /\ A.offi = k /\ A.dlat = 2 * g.dlat
  BY <1>1 DEF HalfOf
<1>3. b[1] \in 1..(2 * m) /\ b[2] \in 1..(2 * n)
  BY <1>2 DEF Cells
<1>4. g.dlat \in Nat \ {0} /\ EdgesInside(g)
  BY DEF CanNest, LonLatSpecs
<1> HIDE DEF A
<1>5. w.cell = i /\ e.cell = i /\ w.cut + e.cut = 4 * m /\ w.cut \in Int /\ e.cut \in Int
  BY <1>1, <1>2, <1>3, ColumnNests
<1> DEFINE H == NorthEdge(g, b[2]) - NorthEdge(g, b[2] - 1)
<1>6. /\ s.row = r /\ t.row = r /\ s.cut \in Int /\ t.cut \in Int
      /\ NorthEdge(A, r) - NorthEdge(A, r - 1) - s.cut - t.cut = H
  BY <1>2, <1>3, <1>4, RowNests
<1>7. H \in Nat \ {0}
  <2>1. b[2] \in 0..g.jm /\ b[2] - 1 \in 0..g.jm /\ b[2] - 1 < b[2]
    BY <1>2, <1>3
  <2>2. NorthEdge(g, b[2] - 1) < NorthEdge(g, b[2]) /\ NorthEdge(g, b[2] - 1) \in Int
        /\ NorthEdge(g, b[2]) \in Int
    <3>1. g.jm \in Nat \ {0}
      BY <1>2
    <3> QED
      BY <1>4, <2>1, <3>1, EdgesIncrease
  <2> QED
    BY <2>2
<1> DEFINE F(ia) == 4 * g.im - (IF ia = w.cell THEN w.cut ELSE 0)
                             - (IF ia = e.cell THEN e.cut ELSE 0)
           G(ja) == NorthEdge(A, ja) - NorthEdge(A, ja - 1)
                       - (IF ja = s.row THEN s.cut ELSE 0)
                       - (IF ja = t.row THEN t.cut ELSE 0)
           v(ia, ja) == <<<<ia, ja>>, <<((ia - 1) % A.im) + 1, ja>>, F(ia) * G(ja)>>
<1>8. Visits(A, g, b) = {v(ia, ja) : ia \in w.cell..e.cell, ja \in s.row..t.row}
  BY DEF Visits
<1>9. F(i) = 4 * m /\ G(r) = H
  <2>1. 4 * (2 * m) - w.cut - e.cut = 4 * m
    BY <1>2, <1>5
  <2> HIDE DEF w, e, s, t, i, r, H
  <2> QED
    BY <1>2, <1>5, <1>6, <2>1
<1>10. i..i = {i} /\ r..r = {r}
  BY <1>2, <1>3
<1> HIDE DEF w, e, s, t, i, r, H, F, G
<1>11. Visits(A, g, b) = {v(i, r)}
  BY <1>5, <1>6, <1>8, <1>10
<1>12. (4 * m) * H \in Nat \ {0}
  BY <1>2, <1>7
<1>13. v(i, r)[2] = CellOver(g, b)
  <2>1. g.im \div 2 = m
    BY <1>2
  <2>2. v(i, r)[2] = <<((i - 1) % m) + 1, r>>
    BY <1>2 DEF v
  <2>3. i - 1 = m + (b[1] + 1) \div 2 - 1
    BY <1>2, <1>3 DEF i
  <2>4. CellOver(g, b) = <<((m + (b[1] + 1) \div 2 - 1) % m) + 1, (b[2] + 1) \div 2>>
    BY <2>1 DEF CellOver
  <2> QED
    BY <2>2, <2>3, <2>4 DEF r
<1>14. v(i, r)[3] \in Nat \ {0}
  BY <1>9, <1>12
<1> HIDE DEF v
<1> QED
  BY <1>11, <1>13, <1>14 DEF A

\* What one visit weighs.
LEMMA WeightSingle ==
    ASSUME NEW v, v[3] \in Int
    PROVE  Weight({v}) = v[3]
<1> DEFINE f == [u \in {v} |-> u[3]]
<1>1. IsFiniteSet({v}) /\ Ints(f, {v}) /\ {v} \ {v} = {} /\ f[v] = v[3] /\ v \in {v}
  BY FS_Singleton DEF Ints
<1>2. Weight({v}) = Sum(f, {v})
  <2>1. ASSUME NEW A PROVE MapThenSumSet(LAMBDA u : u[3], A) = Sum([u \in A |-> u[3]], A)
    BY DEF Sum, MapThenSumSet, MapThenFoldSet
  <2> QED
    BY <2>1 DEF Weight
<1> HIDE DEF f
<1>3. Sum(f, {v}) = f[v] + Sum(f, {v} \ {v})
  BY <1>1, SumRemove
<1> QED
  BY <1>1, <1>2, <1>3, SumEmpty

\* The cells that the ocean grid's positions stand for
Positions(g) == (0..(g.im - 1)) \X (0..(g.jm - 1))

\* The matrix from the atmosphere to the ocean has one entry for each ocean cell, its area.
LEMMA OvANests ==
    ASSUME NEW g, CanNest(g), NEW S \in SUBSET Positions(g)
    PROVE  LET M == OvA(g, S)
           IN  /\ DOMAIN M = {<<Hcell(o), CellOver(g, Hcell(o))>> : o \in S}
               /\ \A rc \in DOMAIN M : M[rc] = AreaB(HntrA(g), g, rc[1])
<1> DEFINE A == HntrA(g)
           N == {Hcell(o) : o \in S}
           K(b) == Dxyp(g, b[2]) * 4 * A.im
           vs(b) == Visits(A, g, b)
           T(b) == {<<v[1], b, v[2], (v[3] * Dxyp(g, b[2]) * 4 * A.im) \div Weight(vs(b))>> :
                        v \in vs(b)}
           U == UNION {T(b) : b \in N}
<1>1. g.im \in Nat \ {0} /\ g.jm \in Nat \ {0}
  BY DEF CanNest, LonLatSpecs
<1>2. N \in SUBSET Cells(g)
  BY <1>1 DEF Positions, Hcell, Cells
<1>3. \A b \in N : K(b) \in Int /\ Dxyp(g, b[2]) \in Int /\ A.im \in Int
  <2> SUFFICES ASSUME NEW b \in N
               PROVE  K(b) \in Int /\ Dxyp(g, b[2]) \in Int /\ A.im \in Int
    OBVIOUS
  <2>1. b[2] \in Int /\ g.jm \in Nat \ {0}
    BY <1>1, <1>2 DEF Cells
  <2>2. Dxyp(g, b[2]) \in Int
    <3>1. \A y \in Int : Sine(y) \in Int
      BY QuadrantIn DEF Sine
    <3>2. Quadrant \in Int
      BY QuadrantIn
    <3> DEFINE lat(l) == (2 * Quadrant * (l - g.jm \div 2)) \div g.jm
    <3>3. lat(b[2]) \in Int /\ lat(b[2] - 1) \in Int
      <4>1. g.jm \div 2 \in Int
        BY <1>1
      <4>2. 2 * Quadrant * (b[2] - g.jm \div 2) \in Int
            /\ 2 * Quadrant * (b[2] - 1 - g.jm \div 2) \in Int
        BY <2>1, <3>2, <4>1
      <4> QED
        BY <1>1, <4>2, DivModInt
    <3>4. Dxyp(g, b[2]) = Sine(lat(b[2])) - Sine(lat(b[2] - 1))
      BY DEF Dxyp
    <3> HIDE DEF lat
    <3> QED
      BY <3>1, <3>3, <3>4
  <2>3. A.im \in Int
    BY <1>1 DEF HntrA
  <2> QED
    BY <2>2, <2>3
<1>4. \A b \in N : \E k : T(b) = {<<k, b, CellOver(g, b), K(b)>>}
  <2> SUFFICES ASSUME NEW b \in N
               PROVE  \E k : T(b) = {<<k, b, CellOver(g, b), K(b)>>}
    OBVIOUS
  <2>1. PICK v : vs(b) = {v} /\ v[2] = CellOver(g, b) /\ v[3] \in Nat \ {0}
    BY <1>2, VisitNests
  <2>2. Weight({v}) = v[3]
    BY <2>1, WeightSingle
  <2>3. (v[3] * Dxyp(g, b[2]) * 4 * A.im) \div v[3] = K(b)
    <3> DEFINE q == K(b)
               p == v[3]
    <3>1. q \in Int /\ p \in Nat \ {0}
      BY <1>3, <2>1
    <3>2. v[3] * Dxyp(g, b[2]) * 4 * A.im = p * q
      <4> DEFINE d == Dxyp(g, b[2])
                 m == A.im
      <4>1. d \in Int /\ m \in Int /\ p \in Int
        BY <1>3, <2>1
      <4> HIDE DEF d, m, p
      <4>2. p * d * 4 * m = p * (d * 4 * m)
        BY <4>1
      <4> QED
        BY <4>2 DEF d, m, p
    <3> HIDE DEF p, q
    <3>3. (p * q) \div p = q
      BY <3>1, DivExact
    <3> QED
      BY <3>2, <3>3 DEF p, q
  <2>4. T(b) = {<<v[1], b, v[2], (v[3] * Dxyp(g, b[2]) * 4 * A.im) \div Weight({v})>>}
    BY <2>1
  <2> QED
    BY <2>1, <2>2, <2>3, <2>4
<1>5. OvA(g, S) = Accumulate(U)
  BY DEF OvA, Overlap
<1>6. ASSUME NEW t \in U
      PROVE  t[2] \in N /\ t[3] = CellOver(g, t[2]) /\ t[4] = K(t[2]) /\ t \in T(t[2])
  <2>1. PICK b \in N : t \in T(b)
    BY DEF U
  <2>2. PICK k : T(b) = {<<k, b, CellOver(g, b), K(b)>>}
    BY <1>4
  <2>3. t = <<k, b, CellOver(g, b), K(b)>>
    BY <2>1, <2>2
  <2>4. t[2] = b /\ t[3] = CellOver(g, b) /\ t[4] = K(b)
    BY <2>3
  <2> QED
    BY <2>1, <2>4
<1>7. \A b \in N : \E t \in U : t[2] = b /\ T(b) = {t}
  <2> SUFFICES ASSUME NEW b \in N
               PROVE  \E t \in U : t[2] = b /\ T(b) = {t}
    OBVIOUS
  <2>2. PICK k : T(b) = {<<k, b, CellOver(g, b), K(b)>>}
    BY <1>4
  <2>3. <<k, b, CellOver(g, b), K(b)>> \in U
    <3>1. <<k, b, CellOver(g, b), K(b)>> \in T(b)
      BY <2>2
    <3> HIDE DEF T
    <3> QED
      BY <3>1 DEF U
  <2> QED
    BY <2>2, <2>3
<1> HIDE DEF A, T, U, K
<1>8. \A t \in U : t[4] \in Int
  BY <1>3, <1>6
<1>9. \A t, u \in U : t[2] = u[2] /\ t[3] = u[3] => t = u
  <2> SUFFICES ASSUME NEW t \in U, NEW u \in U, t[2] = u[2]
               PROVE  t = u
    OBVIOUS
  <2>1. PICK w \in U : T(t[2]) = {w}
    BY <1>6, <1>7
  <2> QED
    BY <1>6, <2>1
<1>10. /\ DOMAIN Accumulate(U) = {<<t[2], t[3]>> : t \in U}
       /\ \A t \in U : Accumulate(U)[<<t[2], t[3]>>] = t[4]
  BY <1>8, <1>9, AccumulateApart
<1>11. {<<t[2], t[3]>> : t \in U} = {<<b, CellOver(g, b)>> : b \in N}
  <2>1. \A t \in U : <<t[2], t[3]>> \in {<<b, CellOver(g, b)>> : b \in N}
    BY <1>6
  <2>2. \A b \in N : <<b, CellOver(g, b)>> \in {<<t[2], t[3]>> : t \in U}
    BY <1>6, <1>7
  <2> QED
    BY <2>1, <2>2
<1>12. {<<b, CellOver(g, b)>> : b \in N} = {<<Hcell(o), CellOver(g, Hcell(o))>> : o \in S}
  BY DEF N
<1>13. \A rc \in DOMAIN Accumulate(U) : Accumulate(U)[rc] = AreaB(HntrA(g), g, rc[1])
  <2> SUFFICES ASSUME NEW rc \in DOMAIN Accumulate(U)
               PROVE  Accumulate(U)[rc] = AreaB(HntrA(g), g, rc[1])
    OBVIOUS
  <2>1. PICK t \in U : rc = <<t[2], t[3]>>
    BY <1>10
  <2>2. Accumulate(U)[rc] = K(t[2]) /\ rc[1] = t[2]
    BY <1>6, <1>10, <2>1
  <2> QED
    BY <2>2 DEF K, A, AreaB
<1> QED
  BY <1>5, <1>10, <1>11, <1>12, <1>13

\* Apart from the northern cap, a grid has no cells beyond its size.
LEMMA PositionsOf ==
    ASSUME NEW g \in LonLatSpecs, NEW caps \in BOOLEAN, NEW zone,
           caps => <<g.im - 1, NLat(g, TRUE)>> \notin DOMAIN LonLatGrid(g, TRUE, zone)
    PROVE  DOMAIN LonLatGrid(g, caps, zone) \in SUBSET Positions(g)
<1> DEFINE shift == IF caps THEN 1 ELSE 0
           rows == 2 * HalfRows(g, caps)
           north == <<g.im - 1, NLat(g, caps)>>
           south == <<0, 0>>
           B == (0..(g.im - 1)) \X (shift..(rows + shift - 1))
           C == IF caps THEN {north, south} ELSE {}
<1>1. DOMAIN LonLatCells(g, caps) = B \cup C
  BY DEF LonLatCells
<1>2. DOMAIN LonLatGrid(g, caps, zone) \in SUBSET (B \cup C)
  <2> DEFINE all == LonLatCells(g, caps)
             S == {p \in DOMAIN all : Clip(zone, all[p])}
  <2>1. LonLatGrid(g, caps, zone) = [p \in S |-> all[p]]
    BY DEF LonLatGrid, Restrict
  <2>2. S \in SUBSET (B \cup C)
    BY <1>1
  <2> HIDE DEF S, all, B, C
  <2> QED
    BY <2>1, <2>2
<1>3. g.im \in Nat \ {0} /\ g.jm \in Nat \ {0}
  BY DEF LonLatSpecs
<1>4. B \in SUBSET Positions(g)
  <2>1. shift \in {0, 1} /\ rows \in Int /\ rows + shift - 1 <= g.jm - 1
    BY <1>3 DEF HalfRows
  <2> HIDE DEF shift, rows
  <2> QED
    BY <1>3, <2>1 DEF Positions
<1>5. south \in Positions(g)
  BY <1>3 DEF Positions
<1>6. caps => north \notin DOMAIN LonLatGrid(g, caps, zone)
  OBVIOUS
<1> HIDE DEF B, north, south
<1> QED
  BY <1>2, <1>4, <1>5, <1>6

\* Inductive: the ocean grid, if ModelE's regridder takes it, has no cells beyond its size, and
\* the atmosphere grid is what make_agridA() makes of it.
NestInv ==
    /\ phase \in {"grids", "overlap", "ready"} =>
         /\ spec \in Specs
         /\ ~HntrAFails(spec) => DOMAIN gridO \in SUBSET Positions(spec)
    /\ phase = "ready" =>
         /\ ~HntrAFails(spec)
         /\ agridA = AGridOf(spec, DOMAIN gridO)

\* Every step keeps the invariant.
LEMMA NestKept ==
    ASSUME NorthClipped
    PROVE  NestInv /\ [Next]_vars => NestInv'
<1> SUFFICES ASSUME NestInv, [Next]_vars PROVE NestInv'
  OBVIOUS
<1>1. CASE UNCHANGED <<spec, gridO, agridA, phase>>
  BY <1>1 DEF NestInv
<1>2. CASE MakeGrids
  <2>1. CASE phase' = "failed"
    BY <2>1 DEF NestInv
  <2>2. CASE phase' # "failed"
    <3>1. PICK g \in Specs, caps \in Caps, zone \in Zones :
              phase' = "grids" /\ spec' = g /\ gridO' = LonLatGrid(g, caps, zone)
      BY <1>2, <2>2 DEF MakeGrids
    <3>2. g \in LonLatSpecs /\ caps \in BOOLEAN
      BY ExchangeAssumption DEF LonLatSpecs
    <3>3. ASSUME ~HntrAFails(g) PROVE DOMAIN LonLatGrid(g, caps, zone) \in SUBSET Positions(g)
      <4>1. caps => <<g.im - 1, NLat(g, TRUE)>> \notin DOMAIN LonLatGrid(g, TRUE, zone)
        BY <3>3 DEF NorthClipped
      <4> QED
        BY <3>2, <4>1, PositionsOf
    <3> QED
      BY <3>1, <3>3 DEF NestInv
  <2> QED
    BY <2>1, <2>2
<1>3. CASE OverlapGrids
  <2>1. phase = "grids" /\ phase' \in {"failed", "overlap"} /\ UNCHANGED <<spec, gridO, agridA>>
    BY <1>3 DEF OverlapGrids
  <2> QED
    BY <2>1 DEF NestInv
<1>4. CASE NewRegridder
  <2>1. phase = "overlap" /\ UNCHANGED <<spec, gridO>>
        /\ \/ phase' = "failed"
           \/ phase' = "ready" /\ ~HntrAFails(spec) /\ agridA' = AGridOf(spec, DOMAIN gridO)
    BY <1>4 DEF NewRegridder
  <2> QED
    BY <2>1 DEF NestInv
<1>5. CASE Couple
  <2>1. phase = "ready" /\ phase' \in {"failed", "ready"} /\ UNCHANGED <<spec, gridO, agridA>>
    BY <1>5 DEF Couple, CoupledWith, Coupled
  <2> QED
    BY <2>1 DEF NestInv
<1>6. CASE RegridTool
  BY <1>1, <1>6 DEF RegridTool, coupled
<1> QED
  BY <1>1, <1>2, <1>3, <1>4, <1>5, <1>6 DEF Next, vars

\* The invariant holds in every state.
LEMMA NestInvariant ==
    ASSUME NorthClipped
    PROVE  Spec => []NestInv
<1>1. Init => NestInv
  BY DEF Init, NestInv
<1>2. NestInv /\ [Next]_vars => NestInv'
  BY NestKept
<1> QED
  BY <1>1, <1>2, PTL DEF Spec

\* Where the ocean grid nests, the atmosphere grid has the cell over each of its cells,
\* and no others.
LEMMA AGridCells ==
    ASSUME NEW g, CanNest(g), NEW S \in SUBSET Positions(g)
    PROVE  AGridOf(g, S) = {Pcell(CellOver(g, Hcell(o))) : o \in S}
<1>1. DOMAIN OvA(g, S) = {<<Hcell(o), CellOver(g, Hcell(o))>> : o \in S}
  BY OvANests
<1>2. \A o \in S : Pcell(<<Hcell(o), CellOver(g, Hcell(o))>>[2]) = Pcell(CellOver(g, Hcell(o)))
  OBVIOUS
<1>3. AGridOf(g, S) = {Pcell(rc[2]) : rc \in DOMAIN OvA(g, S)}
  BY DEF AGridOf
<1> QED
  BY <1>1, <1>2, <1>3

\* Every realized cell of the ocean grid lies in one cell of the atmosphere grid, all of it,
\* and that one is realized, as raw_EOvEA() takes for granted: wherever the grid begins and
\* whatever the height of its cells at the poles.
THEOREM AtmosphereNests ==
    ASSUME NestingSpecs, NorthClipped
    PROVE  Spec => []AGridNests
<1>1. ASSUME NestInv, phase = "ready", NEW o \in DOMAIN gridO
      PROVE  LET M == OvA(spec, {o})
             IN  /\ Cardinality(DOMAIN M) = 1
                 /\ \A rc \in DOMAIN M : /\ M[rc] = AreaB(HntrA(spec), spec, rc[1])
                                         /\ Pcell(rc[2]) \in agridA
  <2>1. /\ CanNest(spec) /\ DOMAIN gridO \in SUBSET Positions(spec)
        /\ agridA = AGridOf(spec, DOMAIN gridO)
    BY <1>1, ExchangeAssumption DEF NestInv, NestingSpecs, CanNest, LonLatSpecs
  <2>2. agridA = {Pcell(CellOver(spec, Hcell(p))) : p \in DOMAIN gridO}
    BY <2>1, AGridCells
  <2>3. {o} \in SUBSET Positions(spec)
    BY <1>1, <2>1
  <2> DEFINE M == OvA(spec, {o})
             rc1 == <<Hcell(o), CellOver(spec, Hcell(o))>>
  <2>4. /\ DOMAIN M = {<<Hcell(p), CellOver(spec, Hcell(p))>> : p \in {o}}
        /\ \A rc \in DOMAIN M : M[rc] = AreaB(HntrA(spec), spec, rc[1])
    <3> HIDE DEF M
    <3> QED
      BY <2>1, <2>3, OvANests DEF M
  <2>5. DOMAIN M = {rc1}
    BY <2>4
  <2>6. Cardinality({rc1}) = 1
    BY FS_Singleton
  <2>7. Pcell(rc1[2]) \in agridA
    BY <1>1, <2>2
  <2> HIDE DEF M, rc1
  <2> QED
    BY <2>4, <2>5, <2>6, <2>7 DEF M
<1>2. NestInv => AGridNests
  BY <1>1 DEF AGridNests
<1>3. Spec => []NestInv
  BY NestInvariant
<1> QED
  BY <1>2, <1>3, PTL

-----------------------------------------------------------------------------
(* What the matrices of the elevation classes are, entry by entry *)

\* What the exchange cells share out among classes: w[c][h] is the weight that cell c gives
\* class h of the cell a[c] that it lies in.
SharesOf(a, area, w) ==
    UNION {{<<c, c, <<a[c], h>>, area[c] * w[c][h]>> : h \in DOMAIN w[c]} : c \in DOMAIN w}
PlacesOf(a, w) == UNION {{<<c, <<a[c], h>>>> : h \in DOMAIN w[c]} : c \in DOMAIN w}
Shares(a, area, w) == Accumulate(SharesOf(a, area, w))
PlacesAt(a, w, c) == {rc \in PlacesOf(a, w) : rc[1] = c}

\* The weights of a cell are positive and add up to sp.
Sharing(f, sp) ==
    /\ IsFiniteSet(DOMAIN f) /\ \A h \in DOMAIN f : f[h] \in Nat \ {0}
    /\ Sum(f, DOMAIN f) = sp
SharesOut(area, w, sp) ==
    /\ sp \in Nat \ {0} /\ IsFiniteSet(DOMAIN w)
    /\ \A c \in DOMAIN w : area[c] \in Nat \ {0} /\ Sharing(w[c], sp)

\* Finitely many cells share out among finitely many classes.
LEMMA PlacesFinitely ==
    ASSUME NEW a, NEW w, IsFiniteSet(DOMAIN w), \A c \in DOMAIN w : IsFiniteSet(DOMAIN w[c])
    PROVE  IsFiniteSet(PlacesOf(a, w))
<1> DEFINE P(c) == {<<c, <<a[c], h>>>> : h \in DOMAIN w[c]}
           F == {P(c) : c \in DOMAIN w}
<1>1. ASSUME NEW c \in DOMAIN w PROVE IsFiniteSet(P(c))
  <2> DEFINE f == [h \in DOMAIN w[c] |-> <<c, <<a[c], h>>>>]
             D == DOMAIN w[c]
  <2>1. P(c) = {f[h] : h \in D} /\ IsFiniteSet(D)
    OBVIOUS
  <2> HIDE DEF f, D, P
  <2> QED
    BY <2>1, ImageFinite
<1>2. IsFiniteSet(F)
  <2> DEFINE f == [c \in DOMAIN w |-> P(c)]
             D == DOMAIN w
  <2>1. F = {f[c] : c \in D} /\ IsFiniteSet(D)
    OBVIOUS
  <2> HIDE DEF f, D, P, F
  <2> QED
    BY <2>1, ImageFinite
<1>3. \A s \in F : IsFiniteSet(s)
  BY <1>1
<1>4. PlacesOf(a, w) = UNION F
  BY DEF PlacesOf
<1> HIDE DEF F
<1> QED
  BY <1>2, <1>3, <1>4, FS_UNION

\* The matrix has the entries that were shared out, each at a place of its own.
LEMMA SharesPlaces ==
    ASSUME NEW a, NEW area, NEW w, NEW sp, SharesOut(area, w, sp)
    PROVE  /\ DOMAIN Shares(a, area, w) = PlacesOf(a, w)
           /\ \A c \in DOMAIN w : \A h \in DOMAIN w[c] :
                  Shares(a, area, w)[<<c, <<a[c], h>>>>] = area[c] * w[c][h]
           /\ Matrix(Shares(a, area, w))
           /\ \A rc \in PlacesOf(a, w) : Shares(a, area, w)[rc] \in Nat \ {0}
<1> DEFINE T == SharesOf(a, area, w)
<1>0. /\ IsFiniteSet(DOMAIN w)
      /\ \A c \in DOMAIN w : /\ area[c] \in Nat \ {0} /\ IsFiniteSet(DOMAIN w[c])
                             /\ \A h \in DOMAIN w[c] : w[c][h] \in Nat \ {0}
  BY DEF SharesOut, Sharing
<1>1. ASSUME NEW t \in T
      PROVE  \E c \in DOMAIN w : \E h \in DOMAIN w[c] :
                 t = <<c, c, <<a[c], h>>, area[c] * w[c][h]>>
  BY DEF SharesOf
<1>2. \A c \in DOMAIN w : \A h \in DOMAIN w[c] : <<c, c, <<a[c], h>>, area[c] * w[c][h]>> \in T
  BY DEF SharesOf
<1>3. \A c \in DOMAIN w : \A h \in DOMAIN w[c] : area[c] * w[c][h] \in Nat \ {0}
  <2> SUFFICES ASSUME NEW c \in DOMAIN w, NEW h \in DOMAIN w[c]
               PROVE  area[c] * w[c][h] \in Nat \ {0}
    OBVIOUS
  <2> DEFINE p == area[c]
             q == w[c][h]
  <2>1. p \in Nat \ {0} /\ q \in Nat \ {0}
    BY <1>0
  <2> HIDE DEF p, q
  <2>2. p * q \in Nat \ {0}
    BY <2>1
  <2> QED
    BY <2>2 DEF p, q
<1> HIDE DEF T
<1>4. \A t \in T : t[4] \in Int
  BY <1>1, <1>3
<1>5. ASSUME NEW t \in T, NEW u \in T, t[2] = u[2], t[3] = u[3]
      PROVE  t = u
  <2>1. PICK c \in DOMAIN w : \E h \in DOMAIN w[c] : t = <<c, c, <<a[c], h>>, area[c] * w[c][h]>>
    BY <1>1
  <2>2. PICK h \in DOMAIN w[c] : t = <<c, c, <<a[c], h>>, area[c] * w[c][h]>>
    BY <2>1
  <2>3. PICK d \in DOMAIN w : \E k \in DOMAIN w[d] : u = <<d, d, <<a[d], k>>, area[d] * w[d][k]>>
    BY <1>1
  <2>4. PICK k \in DOMAIN w[d] : u = <<d, d, <<a[d], k>>, area[d] * w[d][k]>>
    BY <2>3
  <2>5. t[2] = c /\ t[3] = <<a[c], h>> /\ u[2] = d /\ u[3] = <<a[d], k>>
    BY <2>2, <2>4
  <2>6. c = d /\ h = k
    <3>1. c = d /\ <<a[c], h>> = <<a[d], k>>
      BY <1>5, <2>5
    <3> QED
      BY <3>1
  <2> QED
    BY <2>2, <2>4, <2>6
<1>6. /\ DOMAIN Accumulate(T) = {<<t[2], t[3]>> : t \in T}
      /\ \A t \in T : Accumulate(T)[<<t[2], t[3]>>] = t[4]
  BY <1>4, <1>5, AccumulateApart
<1>7. {<<t[2], t[3]>> : t \in T} = PlacesOf(a, w)
  <2>1. ASSUME NEW t \in T PROVE <<t[2], t[3]>> \in PlacesOf(a, w)
    <3>1. PICK c \in DOMAIN w : \E h \in DOMAIN w[c] : t = <<c, c, <<a[c], h>>, area[c] * w[c][h]>>
      BY <1>1
    <3>2. PICK h \in DOMAIN w[c] : t = <<c, c, <<a[c], h>>, area[c] * w[c][h]>>
      BY <3>1
    <3>3. <<t[2], t[3]>> = <<c, <<a[c], h>>>>
      BY <3>2
    <3> QED
      BY <3>3 DEF PlacesOf
  <2>2. ASSUME NEW p \in PlacesOf(a, w) PROVE p \in {<<t[2], t[3]>> : t \in T}
    <3>1. PICK c \in DOMAIN w : \E h \in DOMAIN w[c] : p = <<c, <<a[c], h>>>>
      BY DEF PlacesOf
    <3>2. PICK h \in DOMAIN w[c] : p = <<c, <<a[c], h>>>>
      BY <3>1
    <3> DEFINE t == <<c, c, <<a[c], h>>, area[c] * w[c][h]>>
    <3>3. t \in T /\ p = <<t[2], t[3]>>
      BY <1>2, <3>2
    <3> QED
      BY <3>3
  <2> QED
    BY <2>1, <2>2
<1>8. ASSUME NEW c \in DOMAIN w, NEW h \in DOMAIN w[c]
      PROVE  Accumulate(T)[<<c, <<a[c], h>>>>] = area[c] * w[c][h]
  <2> DEFINE t == <<c, c, <<a[c], h>>, area[c] * w[c][h]>>
  <2>1. t \in T /\ t[2] = c /\ t[3] = <<a[c], h>> /\ t[4] = area[c] * w[c][h]
    BY <1>2
  <2> HIDE DEF t
  <2> QED
    BY <1>6, <2>1
<1>9. \A rc \in PlacesOf(a, w) : Accumulate(T)[rc] \in Nat \ {0}
  BY <1>3, <1>8 DEF PlacesOf
<1>10. IsFiniteSet(PlacesOf(a, w))
  BY <1>0, PlacesFinitely
<1>11. DOMAIN Accumulate(T) = PlacesOf(a, w)
  BY <1>6, <1>7
<1>12. Matrix(Accumulate(T))
  BY <1>9, <1>10, <1>11 DEF Matrix
<1>13. Shares(a, area, w) = Accumulate(T)
  BY DEF Shares, T
<1> QED
  BY <1>8, <1>9, <1>11, <1>12, <1>13

\* The classes of a cell weigh as much as the cell.
LEMMA SharesRow ==
    ASSUME NEW a, NEW area, NEW w, NEW sp, SharesOut(area, w, sp), NEW c \in DOMAIN w
    PROVE  /\ Sum(Shares(a, area, w), PlacesAt(a, w, c)) = area[c] * sp
           /\ PlacesAt(a, w, c) # {} /\ IsFiniteSet(PlacesAt(a, w, c))
<1> DEFINE E == Shares(a, area, w)
           H == DOMAIN w[c]
           K == PlacesAt(a, w, c)
           name == [h \in H |-> <<c, <<a[c], h>>>>]
           f == [h \in H |-> area[c] * w[c][h]]
           v == w[c]
           p == area[c]
<1>1. /\ sp \in Nat \ {0} /\ IsFiniteSet(H) /\ p \in Nat \ {0}
      /\ \A h \in H : v[h] \in Nat \ {0}
      /\ Sum(v, H) = sp
  BY DEF SharesOut, Sharing
<1>2. \A h \in H : name[h] \in K
  BY DEF PlacesOf, PlacesAt
<1>3. \A k \in K : \E h \in H : name[h] = k
  BY DEF PlacesOf, PlacesAt
<1>4. \A g, h \in H : name[g] = name[h] => g = h
  OBVIOUS
<1>5. \A h \in H : E[name[h]] = f[h]
  BY SharesPlaces
<1>6. \A h \in H : f[h] = p * v[h]
  OBVIOUS
<1>7. IsFiniteSet(K)
  <2>1. \A d \in DOMAIN w : IsFiniteSet(DOMAIN w[d])
    BY DEF SharesOut, Sharing
  <2>2. IsFiniteSet(PlacesOf(a, w))
    BY <2>1, PlacesFinitely DEF SharesOut
  <2> QED
    BY <2>2, FS_Subset DEF PlacesAt
<1> HIDE DEF E, H, K, name, f, v, p
<1>8. Ints(v, H) /\ Ints(f, H)
  <2>1. \A h \in H : v[h] \in Int /\ p * v[h] \in Int
    BY <1>1
  <2> QED
    BY <1>6, <2>1 DEF Ints
<1>9. Sum(f, H) = p * Sum(v, H)
  BY <1>1, <1>6, <1>8, SumScale
<1>10. Sum(f, H) = Sum(E, K)
  BY <1>1, <1>2, <1>3, <1>4, <1>5, <1>7, <1>8, SumRename
<1>11. K # {}
  <2>1. H # {}
    BY <1>1, SumEmpty
  <2> QED
    BY <1>2, <2>1
<1> QED
  BY <1>1, <1>7, <1>9, <1>10, <1>11 DEF E, K, p

\* The cells that lie in o, and their area
CellsIn(a, w, o) == {c \in DOMAIN w : a[c] = o}
AreaIn(a, area, w, o) == Sum(area, CellsIn(a, w, o))

\* The area of a cell of which something is used is positive.
LEMMA AreaPositive ==
    ASSUME NEW a, NEW area, NEW w, NEW sp, SharesOut(area, w, sp), NEW o
    PROVE  /\ IsFiniteSet(CellsIn(a, w, o)) /\ Ints(area, CellsIn(a, w, o))
           /\ AreaIn(a, area, w, o) \in Nat
           /\ \A c \in CellsIn(a, w, o) : AreaIn(a, area, w, o) \in Nat \ {0}
<1> DEFINE K == CellsIn(a, w, o)
<1>1. IsFiniteSet(DOMAIN w) /\ K \in SUBSET (DOMAIN w) /\ \A c \in DOMAIN w : area[c] \in Nat \ {0}
  BY DEF SharesOut, CellsIn
<1>2. IsFiniteSet(K)
  BY <1>1, FS_Subset
<1>3. \A c \in K : area[c] \in Nat
  BY <1>1
<1> HIDE DEF K
<1>4. Sum(area, K) \in Nat /\ \A c \in K : area[c] <= Sum(area, K)
  BY <1>2, <1>3, SumNat
<1>5. \A c \in K : Sum(area, K) \in Nat \ {0}
  BY <1>1, <1>4
<1> QED
  BY <1>2, <1>3, <1>4, <1>5 DEF AreaIn, Ints, K

\* The weights of the exchange cells, as RowSum() gives them
LEMMA SharesRowSum ==
    ASSUME NEW a, NEW area, NEW w, NEW sp, SharesOut(area, w, sp)
    PROVE  RowSum(Shares(a, area, w)) = [c \in DOMAIN w |-> area[c] * sp]
<1> DEFINE E == Shares(a, area, w)
<1>1. DOMAIN E = PlacesOf(a, w)
  BY SharesPlaces
<1>2. RowsOf(E) = DOMAIN w
  <2>1. RowsOf(E) = {rc[1] : rc \in PlacesOf(a, w)}
    BY <1>1 DEF RowsOf
  <2>2. \A rc \in PlacesOf(a, w) : rc[1] \in DOMAIN w
    BY DEF PlacesOf
  <2>3. ASSUME NEW c \in DOMAIN w PROVE \E rc \in PlacesOf(a, w) : rc[1] = c
    <3>1. PlacesAt(a, w, c) # {}
      BY SharesRow
    <3> QED
      BY <3>1 DEF PlacesAt
  <2> HIDE DEF E
  <2> QED
    BY <2>1, <2>2, <2>3
<1>3. ASSUME NEW c \in DOMAIN w
      PROVE  MapThenSumSet(LAMBDA rc : E[rc], {rc \in DOMAIN E : rc[1] = c}) = area[c] * sp
  <2>1. Sum(E, {rc \in DOMAIN E : rc[1] = c}) = area[c] * sp
    BY <1>1, SharesRow DEF PlacesAt
  <2> HIDE DEF E
  <2> QED
    BY <2>1 DEF Sum
<1> HIDE DEF E
<1>4. RowSum(E) = [c \in DOMAIN w |-> area[c] * sp]
  BY <1>2, <1>3 DEF RowSum
<1> QED
  BY <1>4 DEF E

\* GvAp(): the areas of the exchange cells by the cells that they lie in
AreasOver(a, area, C) == Accumulate({<<c, c, a[c], area[c]>> : c \in C})

\* Each exchange cell has a place of its own.
LEMMA AreasPlaces ==
    ASSUME NEW a, NEW area, NEW C, IsFiniteSet(C), \A c \in C : area[c] \in Nat \ {0}
    PROVE  /\ DOMAIN AreasOver(a, area, C) = {<<c, a[c]>> : c \in C}
           /\ \A c \in C : AreasOver(a, area, C)[<<c, a[c]>>] = area[c]
           /\ Matrix(AreasOver(a, area, C))
<1> DEFINE T == {<<c, c, a[c], area[c]>> : c \in C}
<1>1. \A t \in T : \E c \in C : t = <<c, c, a[c], area[c]>>
  OBVIOUS
<1>2. \A c \in C : <<c, c, a[c], area[c]>> \in T
  OBVIOUS
<1> HIDE DEF T
<1>3. \A t \in T : t[4] \in Int
  BY <1>1
<1>4. \A t, u \in T : t[2] = u[2] /\ t[3] = u[3] => t = u
  BY <1>1
<1>5. /\ DOMAIN Accumulate(T) = {<<t[2], t[3]>> : t \in T}
      /\ \A t \in T : Accumulate(T)[<<t[2], t[3]>>] = t[4]
  BY <1>3, <1>4, AccumulateApart
<1>6. {<<t[2], t[3]>> : t \in T} = {<<c, a[c]>> : c \in C}
  <2>1. \A t \in T : <<t[2], t[3]>> \in {<<c, a[c]>> : c \in C}
    BY <1>1
  <2>2. \A c \in C : \E t \in T : <<c, a[c]>> = <<t[2], t[3]>>
    <3> SUFFICES ASSUME NEW c \in C PROVE \E t \in T : <<c, a[c]>> = <<t[2], t[3]>>
      OBVIOUS
    <3>1. <<c, c, a[c], area[c]>> \in T
      BY <1>2
    <3> QED
      BY <3>1
  <2> QED
    BY <2>1, <2>2
<1>7. \A c \in C : Accumulate(T)[<<c, a[c]>>] = area[c]
  <2> SUFFICES ASSUME NEW c \in C PROVE Accumulate(T)[<<c, a[c]>>] = area[c]
    OBVIOUS
  <2> DEFINE t == <<c, c, a[c], area[c]>>
  <2>1. t \in T /\ t[2] = c /\ t[3] = a[c] /\ t[4] = area[c]
    BY <1>2
  <2> HIDE DEF t
  <2> QED
    BY <1>5, <2>1
<1>8. IsFiniteSet({<<c, a[c]>> : c \in C})
  <2> DEFINE f == [c \in C |-> <<c, a[c]>>]
  <2>1. {<<c, a[c]>> : c \in C} = {f[c] : c \in C}
    OBVIOUS
  <2> HIDE DEF f
  <2> QED
    BY <2>1, ImageFinite
<1>9. DOMAIN Accumulate(T) = {<<c, a[c]>> : c \in C}
  BY <1>5, <1>6
<1>10. \A rc \in DOMAIN Accumulate(T) : Accumulate(T)[rc] \in Int
  BY <1>7, <1>9
<1>11. Accumulate(T) = AreasOver(a, area, C)
  BY DEF AreasOver, T
<1> QED
  BY <1>7, <1>8, <1>9, <1>10, <1>11 DEF Matrix

\* The weight of a cell is the area of what is used of it.
LEMMA AreasColSum ==
    ASSUME NEW a, NEW area, NEW w, NEW sp, SharesOut(area, w, sp)
    PROVE  ColSum(AreasOver(a, area, DOMAIN w))
           = [o \in {a[c] : c \in DOMAIN w} |-> AreaIn(a, area, w, o)]
<1> DEFINE C == DOMAIN w
           M == AreasOver(a, area, C)
<1>1. IsFiniteSet(C) /\ \A c \in C : area[c] \in Nat \ {0}
  BY DEF SharesOut
<1>2. /\ DOMAIN M = {<<c, a[c]>> : c \in C}
      /\ \A c \in C : M[<<c, a[c]>>] = area[c]
      /\ Matrix(M)
  <2> HIDE DEF C
  <2> QED
    BY <1>1, AreasPlaces
<1> HIDE DEF M
<1>3. ColsOf(M) = {a[c] : c \in C}
  <2>1. ASSUME NEW o \in ColsOf(M) PROVE o \in {a[c] : c \in C}
    BY <1>2 DEF ColsOf
  <2>2. ASSUME NEW c \in C PROVE a[c] \in ColsOf(M)
    <3>1. <<c, a[c]>> \in DOMAIN M /\ <<c, a[c]>>[2] = a[c]
      BY <1>2
    <3> QED
      BY <3>1 DEF ColsOf
  <2> QED
    BY <2>1, <2>2
<1>4. ASSUME NEW o PROVE MapThenSumSet(LAMBDA rc : M[rc], {rc \in DOMAIN M : rc[2] = o})
                         = AreaIn(a, area, w, o)
  <2> DEFINE K == {rc \in DOMAIN M : rc[2] = o}
             S == CellsIn(a, w, o)
             name == [c \in S |-> <<c, a[c]>>]
  <2>1. IsFiniteSet(S) /\ Ints(area, S)
    BY AreaPositive
  <2>2. IsFiniteSet(K)
    BY <1>2, FS_Subset DEF Matrix
  <2>3. \A c \in S : name[c] \in K /\ M[name[c]] = area[c]
    BY <1>2 DEF CellsIn
  <2>4. \A c, d \in S : name[c] = name[d] => c = d
    OBVIOUS
  <2>5. \A k \in K : \E c \in S : name[c] = k
    BY <1>2 DEF CellsIn
  <2> HIDE DEF K, S, name
  <2>6. Sum(area, S) = Sum(M, K)
    BY <2>1, <2>2, <2>3, <2>4, <2>5, SumRename
  <2> QED
    BY <2>6 DEF Sum, AreaIn, S, K
<1>5. ColSum(M) = [o \in {a[c] : c \in C} |-> AreaIn(a, area, w, o)]
  BY <1>3, <1>4 DEF ColSum
<1> QED
  BY <1>5 DEF M

\* What the product with those areas carries: every entry of the classes, once, to the cell
\* that its exchange cell lies in.
OwnRoutes(a, E) == {<<<<b, <<b[1], a[b[1]]>>>>, b[2], a[b[1]], E[b]>> : b \in DOMAIN E}

\* Those are the routes.
LEMMA RoutesOwn ==
    ASSUME NEW a, NEW area, NEW w, NEW sp, SharesOut(area, w, sp)
    PROVE  Routes(area, Shares(a, area, w), AreasOver(a, area, DOMAIN w))
           = OwnRoutes(a, Shares(a, area, w))
<1> DEFINE E == Shares(a, area, w)
           A == AreasOver(a, area, DOMAIN w)
<1>1. /\ DOMAIN E = PlacesOf(a, w) /\ \A b \in PlacesOf(a, w) : E[b] \in Nat \ {0}
  BY SharesPlaces
<1>2. IsFiniteSet(DOMAIN w) /\ \A c \in DOMAIN w : area[c] \in Nat \ {0}
  BY DEF SharesOut
<1>3. /\ DOMAIN A = {<<c, a[c]>> : c \in DOMAIN w}
      /\ \A c \in DOMAIN w : A[<<c, a[c]>>] = area[c]
  <2> DEFINE C == DOMAIN w
  <2>1. IsFiniteSet(C) /\ \A c \in C : area[c] \in Nat \ {0}
    BY <1>2
  <2> HIDE DEF C
  <2>2. /\ DOMAIN AreasOver(a, area, C) = {<<c, a[c]>> : c \in C}
        /\ \A c \in C : AreasOver(a, area, C)[<<c, a[c]>>] = area[c]
        /\ Matrix(AreasOver(a, area, C))
    BY <2>1, AreasPlaces
  <2> QED
    BY <2>2 DEF C
<1> HIDE DEF E, A
<1>4. ASSUME NEW b \in DOMAIN E
      PROVE  /\ {d \in DOMAIN A : d[1] = b[1]} = {<<b[1], a[b[1]]>>}
             /\ (E[b] * A[<<b[1], a[b[1]]>>]) \div area[b[1]] = E[b]
  <2>1. b[1] \in DOMAIN w
    BY <1>1 DEF PlacesOf
  <2>2. {d \in DOMAIN A : d[1] = b[1]} = {<<b[1], a[b[1]]>>}
    BY <1>3, <2>1
  <2> DEFINE e == E[b]
             p == area[b[1]]
  <2>3. e \in Int /\ p \in Nat \ {0} /\ A[<<b[1], a[b[1]]>>] = p
    BY <1>1, <1>2, <1>3, <2>1
  <2> HIDE DEF e, p
  <2>4. e * p = p * e /\ (p * e) \div p = e
    BY <2>3, DivExact
  <2> QED
    BY <2>2, <2>3, <2>4 DEF e, p
<1>5. ASSUME NEW b \in DOMAIN E
      PROVE  {<<<<b, c>>, b[2], c[2], (E[b] * A[c]) \div area[b[1]]>> :
                c \in {d \in DOMAIN A : d[1] = b[1]}}
             = {<<<<b, <<b[1], a[b[1]]>>>>, b[2], a[b[1]], E[b]>>}
  <2> DEFINE d1 == <<b[1], a[b[1]]>>
             K == {d \in DOMAIN A : d[1] = b[1]}
             route(c) == <<<<b, c>>, b[2], c[2], (E[b] * A[c]) \div area[b[1]]>>
  <2>1. K = {d1} /\ (E[b] * A[d1]) \div area[b[1]] = E[b] /\ d1[2] = a[b[1]]
    BY <1>4
  <2>2. route(d1) = <<<<b, d1>>, b[2], a[b[1]], E[b]>>
    BY <2>1
  <2> HIDE DEF d1, K, route
  <2>3. {route(c) : c \in K} = {<<<<b, d1>>, b[2], a[b[1]], E[b]>>}
    BY <2>1, <2>2
  <2> QED
    BY <2>3 DEF d1, K, route
<1>6. Routes(area, E, A)
      = UNION {{<<<<b, <<b[1], a[b[1]]>>>>, b[2], a[b[1]], E[b]>>} : b \in DOMAIN E}
  BY <1>5 DEF Routes
<1>7. Routes(area, E, A) = OwnRoutes(a, E)
  BY <1>6 DEF OwnRoutes
<1> QED
  BY <1>7 DEF E, A

\* What those routes are: positive numbers, in a column for each cell.
LEMMA OwnEntries ==
    ASSUME NEW a, NEW area, NEW w, NEW sp, SharesOut(area, w, sp)
    PROVE  LET R == OwnRoutes(a, Shares(a, area, w))
           IN  /\ NatEntries(R) /\ \A t \in R : t[4] \in Nat \ {0}
               /\ \A t \in R : t[1][1] \in PlacesOf(a, w) /\ t[2] = t[1][1][2]
                               /\ t[3] = a[t[1][1][1]] /\ t[3] = t[2][1]
               /\ \A b \in PlacesOf(a, w) : \E t \in R : t[1][1] = b
<1> DEFINE E == Shares(a, area, w)
           R == OwnRoutes(a, E)
           route == [b \in DOMAIN E |-> <<<<b, <<b[1], a[b[1]]>>>>, b[2], a[b[1]], E[b]>>]
<1>1. /\ DOMAIN E = PlacesOf(a, w) /\ Matrix(E)
      /\ \A b \in PlacesOf(a, w) : E[b] \in Nat \ {0}
  BY SharesPlaces
<1> HIDE DEF E
<1>2. R = {route[b] : b \in DOMAIN E}
  BY DEF OwnRoutes
<1>3. \A b \in DOMAIN E : /\ route[b][1][1] = b /\ route[b][2] = b[2] /\ route[b][3] = a[b[1]]
                          /\ route[b][4] = E[b]
  OBVIOUS
<1>4. \A b \in PlacesOf(a, w) : b[2][1] = a[b[1]]
  BY DEF PlacesOf
<1> HIDE DEF R, route
<1>5. IsFiniteSet(R)
  <2> DEFINE D == DOMAIN E
  <2>1. IsFiniteSet(D) /\ R = {route[b] : b \in D}
    BY <1>1, <1>2 DEF Matrix
  <2> HIDE DEF D
  <2> QED
    BY <2>1, ImageFinite
<1>6. \A t \in R : t[4] \in Nat \ {0}
  BY <1>1, <1>2, <1>3
<1>7. \A t \in R : t[1][1] \in PlacesOf(a, w) /\ t[2] = t[1][1][2]
                               /\ t[3] = a[t[1][1][1]] /\ t[3] = t[2][1]
  BY <1>1, <1>2, <1>3, <1>4
<1>8. \A b \in PlacesOf(a, w) : \E t \in R : t[1][1] = b
  BY <1>1, <1>2, <1>3
<1>9. NatEntries(R)
  BY <1>5, <1>6 DEF NatEntries, Entries
<1> QED
  BY <1>6, <1>7, <1>8, <1>9 DEF R, E

\* What goes to a cell is the area of what is used of it.
LEMMA OwnCol ==
    ASSUME NEW a, NEW area, NEW w, NEW sp, SharesOut(area, w, sp), NEW o
    PROVE  Total(InCol(OwnRoutes(a, Shares(a, area, w)), o)) = sp * AreaIn(a, area, w, o)
<1> DEFINE E == Shares(a, area, w)
           R == OwnRoutes(a, E)
           T == InCol(R, o)
           K == CellsIn(a, w, o)
           key == [t \in T |-> t[1][1][1]]
           g == [c \in K |-> Total({t \in T : key[t] = c})]
<1>1. /\ DOMAIN E = PlacesOf(a, w) /\ Matrix(E)
  BY SharesPlaces
<1>2. /\ Entries(R)
      /\ \A t \in R : t[1][1] \in PlacesOf(a, w) /\ t[3] = a[t[1][1][1]]
  BY OwnEntries DEF NatEntries
<1>3. T \in SUBSET R /\ \A t \in R : t \in T <=> t[3] = o
  BY DEF InCol
<1>4. IsFiniteSet(K) /\ Ints(area, K)
  BY AreaPositive
<1>5. Entries(T)
  <2> HIDE DEF T, R
  <2> QED
    BY <1>2, <1>3, EntriesSubset
<1>6. \A t \in T : key[t] \in K
  <2>1. \A b \in PlacesOf(a, w) : b[1] \in DOMAIN w
    BY DEF PlacesOf
  <2> HIDE DEF R, T
  <2> QED
    BY <1>2, <1>3, <2>1 DEF CellsIn
<1>7. Total(T) = Sum(g, K)
  <2>1. Total(T) = Sum([c \in K |-> Total({t \in T : key[t] = c})], K)
    <3> HIDE DEF T, K, key
    <3> QED
      BY <1>4, <1>5, <1>6, TotalPartition
  <2> QED
    BY <2>1
<1>8. ASSUME NEW c \in K
      PROVE  g[c] = area[c] * sp
  <2> DEFINE S == PlacesAt(a, w, c)
             U == {t \in T : key[t] = c}
             name == [b \in S |-> <<<<b, <<b[1], a[b[1]]>>>>, b[2], a[b[1]], E[b]>>]
             f == [t \in U |-> t[4]]
  <2>1. c \in DOMAIN w /\ a[c] = o
    BY DEF CellsIn
  <2>2. Sum(E, S) = area[c] * sp /\ IsFiniteSet(S)
    BY <2>1, SharesRow
  <2>3. \A b \in S : b \in DOMAIN E /\ b[1] = c
    BY <1>1 DEF PlacesAt
  <2>4. Ints(E, S)
    BY <1>1, <2>3 DEF Matrix, Ints
  <2>5. IsFiniteSet(U)
    BY <1>5, FS_Subset DEF Entries
  <2> HIDE DEF E
  <2>6. \A b \in S : name[b] \in U
    <3> SUFFICES ASSUME NEW b \in S PROVE name[b] \in U
      OBVIOUS
    <3>1. name[b] \in R
      BY <2>3 DEF OwnRoutes
    <3>2. name[b][3] = o /\ name[b][1][1][1] = c
      BY <2>1, <2>3
    <3> QED
      BY <1>3, <3>1, <3>2
  <2>7. \A b \in S : f[name[b]] = E[b]
    BY <2>6
  <2>8. \A b, d \in S : name[b] = name[d] => b = d
    OBVIOUS
  <2>9. ASSUME NEW t \in U PROVE \E b \in S : name[b] = t
    <3>1. PICK b \in DOMAIN E : t = <<<<b, <<b[1], a[b[1]]>>>>, b[2], a[b[1]], E[b]>>
      BY <1>3 DEF OwnRoutes
    <3>2. t[1][1] = b /\ b[1] = c
      BY <3>1
    <3>3. b \in S
      BY <1>1, <3>2 DEF PlacesAt, E
    <3> QED
      BY <3>1, <3>3
  <2> HIDE DEF S, U, name, f
  <2>10. Sum(E, S) = Sum(f, U)
    BY <2>2, <2>4, <2>5, <2>6, <2>7, <2>8, <2>9, SumRename
  <2>11. g[c] = Total(U)
    BY DEF U
  <2> HIDE DEF g
  <2> QED
    BY <2>2, <2>10, <2>11 DEF Total, f
<1>9. Sum(g, K) = sp * Sum(area, K)
  <2>1. sp \in Int
    BY DEF SharesOut
  <2>2. \A c \in K : g[c] = sp * area[c]
    <3> SUFFICES ASSUME NEW c \in K PROVE g[c] = sp * area[c]
      OBVIOUS
    <3>1. g[c] = area[c] * sp /\ area[c] \in Int
      BY <1>4, <1>8 DEF Ints
    <3> HIDE DEF g, K
    <3> QED
      BY <2>1, <3>1
  <2> HIDE DEF g, K
  <2> QED
    BY <1>4, <2>1, <2>2, SumScale
<1> HIDE DEF g, K, T
<1> QED
  BY <1>7, <1>9 DEF T, K, AreaIn

\* EvA of the ocean grid: positive entries, for each class and its own cell.
LEMMA OwnMatrix ==
    ASSUME NEW a, NEW area, NEW w, NEW sp, SharesOut(area, w, sp)
    PROVE  LET M == Accumulate(OwnRoutes(a, Shares(a, area, w)))
           IN  /\ DOMAIN M = {<<b[2], b[2][1]>> : b \in PlacesOf(a, w)}
               /\ \A rc \in DOMAIN M : M[rc] \in Nat \ {0}
               /\ \A o : At(ColSum(M), o) = sp * AreaIn(a, area, w, o)
<1> DEFINE R == OwnRoutes(a, Shares(a, area, w))
           M == Accumulate(R)
<1>1. /\ NatEntries(R) /\ \A t \in R : t[4] \in Nat \ {0}
      /\ \A t \in R : t[1][1] \in PlacesOf(a, w) /\ t[2] = t[1][1][2] /\ t[3] = t[2][1]
      /\ \A b \in PlacesOf(a, w) : \E t \in R : t[1][1] = b
  BY OwnEntries
<1>2. \A o : Total(InCol(R, o)) = sp * AreaIn(a, area, w, o)
  BY OwnCol
<1> HIDE DEF R
<1>3. DOMAIN M = {<<b[2], b[2][1]>> : b \in PlacesOf(a, w)}
  <2>1. DOMAIN M = {<<t[2], t[3]>> : t \in R}
    BY DEF Accumulate
  <2>2. ASSUME NEW t \in R PROVE <<t[2], t[3]>> \in {<<b[2], b[2][1]>> : b \in PlacesOf(a, w)}
    <3>1. t[1][1] \in PlacesOf(a, w) /\ <<t[2], t[3]>> = <<t[1][1][2], t[1][1][2][1]>>
      BY <1>1
    <3> QED
      BY <3>1
  <2>3. ASSUME NEW b \in PlacesOf(a, w) PROVE <<b[2], b[2][1]>> \in {<<t[2], t[3]>> : t \in R}
    <3>1. PICK t \in R : t[1][1] = b
      BY <1>1
    <3>2. <<t[2], t[3]>> = <<b[2], b[2][1]>>
      BY <1>1, <3>1
    <3> QED
      BY <3>2
  <2> HIDE DEF M
  <2> QED
    BY <2>1, <2>2, <2>3
<1>4. ASSUME NEW rc \in DOMAIN M
      PROVE  M[rc] \in Nat \ {0}
  <2> DEFINE S == {t \in R : PlaceOf(R)[t] = rc}
             f == [t \in S |-> t[4]]
  <2>1. M[rc] = Total(S) /\ rc \in {PlaceOf(R)[t] : t \in R}
    BY <1>4, AccumulateTally DEF Tally
  <2>2. PICK t \in R : PlaceOf(R)[t] = rc
    BY <2>1
  <2>3. IsFiniteSet(S) /\ t \in S /\ \A u \in S : f[u] = u[4] /\ u[4] \in Nat \ {0}
    BY <1>1, <2>2, FS_Subset DEF NatEntries, Entries
  <2>4. \A u \in S : f[u] \in Nat
    BY <2>3
  <2> HIDE DEF S, f
  <2>5. Sum(f, S) \in Nat /\ \A u \in S : f[u] <= Sum(f, S)
    BY <2>3, <2>4, SumNat
  <2>6. f[t] \in Nat \ {0} /\ f[t] <= Sum(f, S)
    BY <2>3, <2>5
  <2> HIDE DEF M
  <2> QED
    BY <2>1, <2>5, <2>6 DEF Total, f
<1>5. \A o : At(ColSum(M), o) = Total(InCol(R, o))
  BY <1>1, AccumulatedCol DEF NatEntries
<1> HIDE DEF M
<1>6. \A o : At(ColSum(M), o) = sp * AreaIn(a, area, w, o)
  BY <1>2, <1>5
<1> QED
  BY <1>3, <1>4, <1>6 DEF M, R

\* A share of one quotient.
LEMMA QuotientPositive ==
    ASSUME NEW n \in Nat, NEW d \in Nat \ {0}
    PROVE  n \div d # 0 <=> n >= d
<1> DEFINE q == n \div d
           r == n % d
<1>1. q \in Nat /\ r \in 0..(d - 1) /\ n = d * q + r
  BY DivMod
<1> HIDE DEF q, r
<1>2. ASSUME q = 0 PROVE n < d
  BY <1>1, <1>2
<1>3. ASSUME q # 0 PROVE n >= d
  <2>1. PICK k \in Nat : q = 1 + k
    <3>1. q - 1 \in Nat /\ q = 1 + (q - 1)
      BY <1>1, <1>3
    <3> QED
      BY <3>1
  <2>2. d * q = d + d * k /\ d * k \in Nat
    BY <2>1
  <2> QED
    BY <1>1, <2>2
<1> QED
  BY <1>2, <1>3 DEF q

\* A number is not made less by a ratio of at least one.
LEMMA RatioGrows ==
    ASSUME NEW n \in Nat, NEW p \in Nat \ {0}, NEW m \in Nat, p <= m
    PROVE  (n * m) \div p \in Nat /\ (n * m) \div p >= n
<1> DEFINE x == n * m
           q == x \div p
           r == x % p
<1>1. x \in Nat
  OBVIOUS
<1>2. x >= p * n
  <2>1. PICK k \in Nat : m = p + k
    <3>1. m - p \in Nat /\ m = p + (m - p)
      OBVIOUS
    <3> QED
      BY <3>1
  <2>2. n * m = p * n + n * k /\ n * k \in Nat
    BY <2>1
  <2>3. p * n \in Nat
    OBVIOUS
  <2> QED
    BY <2>2, <2>3
<1> HIDE DEF x
<1>3. q \in Nat /\ r \in 0..(p - 1) /\ x = p * q + r
  BY <1>1, DivMod
<1> HIDE DEF q, r
<1>4. ~(q < n)
  <2> SUFFICES ASSUME q < n PROVE FALSE
    OBVIOUS
  <2>1. p * q + p <= p * n
    BY <1>3, MultLess
  <2>2. p * q \in Nat /\ p * n \in Nat
    BY <1>3
  <2> QED
    BY <1>2, <1>3, <2>1, <2>2
<1> QED
  BY <1>3, <1>4 DEF q, x

\* The classes that there are of the cells in D
ClassesIn(a, w, D) == {b[2] : b \in {d \in PlacesOf(a, w) : d[2][1] \in D}}

\* The area that ModelE gives a cell: none, or all of what the ice sheet has there.
Magnified(a, area, w, wA) ==
    \A o \in DOMAIN wA : wA[o] \in Nat /\ (wA[o] = 0 \/ wA[o] >= AreaIn(a, area, w, o))

SharedArea(a, w, wA, W) ==
    /\ DOMAIN W = ClassesIn(a, w, DOMAIN wA)
    /\ \A e \in DOMAIN W : W[e] \in Int /\ (W[e] # 0 <=> wA[e[1]] # 0)

\* A cell shares out its area among all of its classes: those of a cell without area get none.
LEMMA WEOmClasses ==
    ASSUME NEW a, NEW area, NEW w, NEW sp, SharesOut(area, w, sp),
           NEW wA, Magnified(a, area, w, wA), NEW M,
           M = Accumulate(OwnRoutes(a, Shares(a, area, w)))
    PROVE  SharedArea(a, w, wA, WEOm(EOmvAOm(M, DOMAIN wA), wA, sp))
<1> DEFINE D == DOMAIN wA
           P == {rc \in DOMAIN M : rc[2] \in D}
           N == EOmvAOm(M, D)
           W == WEOm(N, wA, sp)
           v == ColSum(N)
<1>1. /\ DOMAIN M = {<<b[2], b[2][1]>> : b \in PlacesOf(a, w)}
      /\ \A rc \in DOMAIN M : M[rc] \in Nat \ {0}
      /\ \A o : At(ColSum(M), o) = sp * AreaIn(a, area, w, o)
  BY OwnMatrix
<1>2. DOMAIN N = P /\ \A rc \in P : N[rc] = M[rc]
  BY DEF EOmvAOm, Restrict
<1>3. \A rc \in P : rc = <<rc[1], rc[1][1]>> /\ rc[1][1] \in D
  BY <1>1
<1>4. RowsOf(N) = ClassesIn(a, w, D)
  <2>1. ASSUME NEW e \in RowsOf(N) PROVE e \in ClassesIn(a, w, D)
    <3>1. PICK rc \in P : e = rc[1]
      BY <1>2 DEF RowsOf
    <3>2. PICK b \in PlacesOf(a, w) : rc = <<b[2], b[2][1]>>
      BY <1>1
    <3>3. e = b[2] /\ b[2][1] \in D
      BY <3>1, <3>2
    <3> QED
      BY <3>3 DEF ClassesIn
  <2>2. ASSUME NEW e \in ClassesIn(a, w, D) PROVE e \in RowsOf(N)
    <3>1. PICK b \in PlacesOf(a, w) : e = b[2] /\ b[2][1] \in D
      BY DEF ClassesIn
    <3> DEFINE rc == <<b[2], b[2][1]>>
    <3>2. rc \in DOMAIN M /\ rc[2] \in D /\ rc[1] = e
      BY <1>1, <3>1
    <3> HIDE DEF rc
    <3>3. rc \in DOMAIN N
      BY <1>2, <3>2
    <3> QED
      BY <3>2, <3>3 DEF RowsOf
  <2> QED
    BY <2>1, <2>2
<1>5. DOMAIN W = RowsOf(N)
  BY DEF WEOm
<1>6. ASSUME NEW e \in RowsOf(N)
      PROVE  W[e] \in Int /\ (W[e] # 0 <=> wA[e[1]] # 0)
  <2> DEFINE rc == <<e, e[1]>>
             o == e[1]
             F(x) == (N[x] * wA[x[2]] * sp) \div v[x[2]]
  <2>1. rc \in P /\ o \in D
    BY <1>2, <1>3, <1>6 DEF RowsOf
  <2>2. {x \in DOMAIN N : x[1] = e} = {rc}
    BY <1>2, <1>3, <2>1
  <2>3. W[e] = MapThenSumSet(LAMBDA x : F(x), {rc})
    BY <1>6, <2>2 DEF WEOm
  <2>4. v[o] = sp * AreaIn(a, area, w, o)
    <3>1. o \in ColsOf(N)
      BY <1>2, <2>1 DEF ColsOf
    <3>2. v[o] = At(v, o)
      BY <3>1 DEF At, ColSum
    <3>3. At(ColSum(N), o) = ColTotal(N, o) /\ At(ColSum(M), o) = ColTotal(M, o)
      BY ColWeight
    <3>4. ColOf(N, o) = ColOf(M, o) /\ \A x \in ColOf(M, o) : N[x] = M[x]
      <4> HIDE DEF N
      <4> QED
        BY <1>2, <2>1 DEF ColOf
    <3>5. ColTotal(N, o) = ColTotal(M, o)
      <4> HIDE DEF N
      <4> QED
        BY <3>4, SumSame DEF ColTotal
    <3> QED
      BY <1>1, <3>2, <3>3, <3>5
  <2>5. N[rc] \in Nat \ {0}
    BY <1>1, <1>2, <2>1
  <2>6. AreaIn(a, area, w, o) \in Nat \ {0} /\ sp \in Nat \ {0}
    <3>1. rc \in DOMAIN M
      BY <2>1
    <3>2. PICK b \in PlacesOf(a, w) : rc = <<b[2], b[2][1]>>
      BY <1>1, <3>1
    <3>3. b[1] \in DOMAIN w /\ a[b[1]] = o
      BY <3>2 DEF PlacesOf
    <3>4. b[1] \in CellsIn(a, w, o)
      BY <3>3 DEF CellsIn
    <3> QED
      BY <3>4, AreaPositive DEF SharesOut
  <2>7. wA[o] \in Nat /\ (wA[o] = 0 \/ wA[o] >= AreaIn(a, area, w, o))
    BY <2>1 DEF Magnified
  <2> DEFINE m == N[rc]
             u == wA[o]
             s == AreaIn(a, area, w, o)
             x1 == m * u * sp
  <2>8. F(rc) = x1 \div (sp * s)
    BY <2>4
  <2> HIDE DEF N, W, v, F
  <2>9. m \in Nat \ {0} /\ u \in Nat /\ s \in Nat \ {0} /\ sp \in Nat \ {0} /\ (u = 0 \/ u >= s)
    BY <2>5, <2>6, <2>7
  <2> HIDE DEF m, u, s
  <2>10. x1 \in Nat /\ sp * s \in Nat \ {0}
    <3>1. m * u \in Nat
      BY <2>9
    <3> QED
      BY <2>9, <3>1
  <2>11. x1 >= sp * s <=> u # 0
    <3>1. CASE u = 0
      <4>1. x1 = 0
        <5>1. m * u = 0
          BY <2>9, <3>1
        <5> QED
          BY <2>9, <5>1
      <4> QED
        BY <2>10, <3>1, <4>1
    <3>2. CASE u # 0
      <4>1. PICK k \in Nat : m = 1 + k
        <5>1. m - 1 \in Nat /\ m = 1 + (m - 1)
          BY <2>9
        <5> QED
          BY <5>1
      <4>2. PICK l \in Nat : u = s + l
        <5>1. u - s \in Nat /\ u = s + (u - s)
          BY <2>9, <3>2
        <5> QED
          BY <5>1
      <4>3. m * u = s + l + k * u /\ k * u \in Nat
        BY <2>9, <4>1, <4>2
      <4> DEFINE y == l + k * u
      <4>4. y \in Nat /\ m * u = s + y
        BY <2>9, <4>2, <4>3
      <4> HIDE DEF y
      <4>5. x1 = sp * s + y * sp /\ y * sp \in Nat
        BY <2>9, <4>4
      <4> QED
        BY <2>10, <3>2, <4>5
    <3> QED
      BY <3>1, <3>2
  <2>12. F(rc) # 0 <=> u # 0
    <3> DEFINE d == sp * s
    <3>1. x1 \in Nat /\ d \in Nat \ {0} /\ F(rc) = x1 \div d /\ (x1 >= d <=> u # 0)
      BY <2>8, <2>10, <2>11
    <3> HIDE DEF x1, d
    <3> QED
      BY <3>1, QuotientPositive
  <2>13. F(rc) \in Int
    <3> DEFINE d == sp * s
    <3>1. x1 \in Nat /\ d \in Nat \ {0} /\ F(rc) = x1 \div d
      BY <2>8, <2>10
    <3> HIDE DEF x1, d
    <3> QED
      BY <3>1, DivMod
  <2>14. MapThenSumSet(LAMBDA x : F(x), {rc}) = F(rc)
    <3> DEFINE f == [x \in {rc} |-> F(x)]
    <3>1. MapThenSumSet(LAMBDA x : F(x), {rc}) = Sum(f, {rc})
      <4>1. ASSUME NEW A PROVE MapThenSumSet(LAMBDA x : F(x), A) = Sum([x \in A |-> F(x)], A)
        BY DEF Sum, MapThenSumSet, MapThenFoldSet
      <4> QED
        BY <4>1
    <3>3. IsFiniteSet({rc}) /\ Ints(f, {rc}) /\ {rc} \ {rc} = {} /\ f[rc] = F(rc) /\ rc \in {rc}
      BY <2>13, FS_Singleton DEF Ints
    <3> HIDE DEF f, rc
    <3>4. Sum(f, {rc}) = f[rc] + Sum(f, {rc} \ {rc})
      BY <3>3, SumRemove
    <3> QED
      BY <2>13, <3>1, <3>3, <3>4, SumEmpty
  <2> QED
    BY <2>3, <2>12, <2>13, <2>14 DEF u
<1>7. \A e \in DOMAIN W : W[e] \in Int /\ (W[e] # 0 <=> wA[e[1]] # 0)
  BY <1>5, <1>6
<1>8. DOMAIN W = ClassesIn(a, w, DOMAIN wA)
  BY <1>4, <1>5
<1> HIDE DEF W
<1>9. SharedArea(a, w, wA, W)
  BY <1>7, <1>8 DEF SharedArea
<1> QED
  BY <1>9 DEF W

\* The class of the atmosphere that a class of the ocean grid belongs to
Up(g, e) == <<Over(g, e[1]), e[2]>>
UpPairs(g, S) == {<<Up(g, e), e>> : e \in S}

\* What GpvXAm() adds up, and what that is: the entries of the classes S.
Lifted(E, P, dim) ==
    {<<ab, ab[1][1], ab[2][1], E[ab[1]]>> :
        ab \in {cd \in (DOMAIN E) \X P : cd[1][2] = cd[2][2] /\ cd[1][2] \in dim}}
InClasses(E, S) == {rc \in DOMAIN E : rc[2] \in S}
LiftedAt(g, E, S) ==
    {<<<<rc, <<Up(g, rc[2]), rc[2]>>>>, rc[1], Up(g, rc[2]), E[rc]>> : rc \in InClasses(E, S)}

\* Each entry is lifted once.
LEMMA LiftedOnce ==
    ASSUME NEW g, NEW E, NEW S, NEW dim, S \in SUBSET dim
    PROVE  Lifted(E, UpPairs(g, S), dim) = LiftedAt(g, E, S)
<1> DEFINE L == Lifted(E, UpPairs(g, S), dim)
           R == LiftedAt(g, E, S)
<1>1. ASSUME NEW t \in L PROVE t \in R
  <2>1. PICK ab \in (DOMAIN E) \X UpPairs(g, S) :
            /\ ab[1][2] = ab[2][2] /\ t = <<ab, ab[1][1], ab[2][1], E[ab[1]]>>
    BY <1>1 DEF Lifted
  <2>2. PICK e \in S : ab[2] = <<Up(g, e), e>>
    BY <2>1 DEF UpPairs
  <2> DEFINE rc == ab[1]
  <2>3. rc \in DOMAIN E /\ rc[2] = e /\ ab = <<rc, <<Up(g, rc[2]), rc[2]>>>>
    BY <2>1, <2>2
  <2>4. rc \in InClasses(E, S)
    BY <2>3 DEF InClasses
  <2>5. t = <<<<rc, <<Up(g, rc[2]), rc[2]>>>>, rc[1], Up(g, rc[2]), E[rc]>>
    BY <2>1, <2>2, <2>3
  <2> HIDE DEF rc
  <2> QED
    BY <2>4, <2>5 DEF LiftedAt
<1>2. ASSUME NEW t \in R PROVE t \in L
  <2>1. PICK rc \in InClasses(E, S) :
            t = <<<<rc, <<Up(g, rc[2]), rc[2]>>>>, rc[1], Up(g, rc[2]), E[rc]>>
    BY <1>2 DEF LiftedAt
  <2> DEFINE ab == <<rc, <<Up(g, rc[2]), rc[2]>>>>
  <2>2. rc \in DOMAIN E /\ rc[2] \in S /\ rc[2] \in dim
    BY <2>1 DEF InClasses
  <2>3. ab \in (DOMAIN E) \X UpPairs(g, S) /\ ab[1][2] = ab[2][2] /\ ab[1][2] \in dim
    BY <2>2 DEF UpPairs
  <2>4. t = <<ab, ab[1][1], ab[2][1], E[ab[1]]>>
    BY <2>1
  <2> HIDE DEF ab
  <2> QED
    BY <2>3, <2>4 DEF Lifted
<1> QED
  BY <1>1, <1>2

\* Exchange cells on a sheet, its areas, and how the projection changes them
SheetGood(sh) ==
    /\ IsFiniteSet(sh.x.cells)
    /\ \A c \in sh.x.cells :
        /\ sh.x.area[c] \in Nat \ {0}
        /\ sh.geom.proj[sh.x.a[c]] \in Nat \ {0} /\ sh.geom.native[sh.x.a[c]] \in Nat
        /\ sh.geom.proj[sh.x.a[c]] <= sh.geom.native[sh.x.a[c]]

\* The weights of the classes of the exchange cells in use
ClassesOf(sh, elev, hcdefs) ==
    [c \in UsedX(sh.x, elev) |-> ClassWeights(hcdefs, sh.style, Max({elev[sh.x.i[c]], 0}))]

\* They are what GvEp() accumulates; GvAp() and GvI() accumulate the areas.
LEMMA UrShares ==
    ASSUME NEW sh, SheetGood(sh), NEW elev, NEW hcdefs
    PROVE  LET ur == UrO(sh, elev, hcdefs, sh.style)
               w == ClassesOf(sh, elev, hcdefs)
           IN  /\ ur.E = Shares(sh.x.a, sh.x.area, w)
               /\ ur.A = AreasOver(sh.x.a, sh.x.area, DOMAIN w)
               /\ ur.I = AreasOver(sh.x.i, sh.x.area, DOMAIN w)
               /\ DOMAIN w = UsedX(sh.x, elev) /\ DOMAIN w \in SUBSET sh.x.cells
<1> DEFINE w == ClassesOf(sh, elev, hcdefs)
           U == UsedX(sh.x, elev)
           f(c) == ClassWeights(hcdefs, sh.style, Max({elev[sh.x.i[c]], 0}))
<1>1. DOMAIN w = U /\ U \in SUBSET sh.x.cells
  BY DEF ClassesOf, UsedX
<1>2. GvEp(sh.x, elev, hcdefs, sh.style) = Shares(sh.x.a, sh.x.area, w)
  <2>1. GvEp(sh.x, elev, hcdefs, sh.style)
        = Accumulate(UNION {{<<c, c, <<sh.x.a[c], h>>, sh.x.area[c] * f(c)[h]>> : h \in DOMAIN f(c)}
                                : c \in U})
    BY DEF GvEp
  <2>2. \A c \in U : w[c] = f(c)
    BY DEF ClassesOf
  <2> HIDE DEF w, f, U
  <2>3. SharesOf(sh.x.a, sh.x.area, w)
        = UNION {{<<c, c, <<sh.x.a[c], h>>, sh.x.area[c] * f(c)[h]>> : h \in DOMAIN f(c)} : c \in U}
    BY <1>1, <2>2 DEF SharesOf
  <2> QED
    BY <2>1, <2>3 DEF Shares
<1>3. {c \in U : sh.x.area[c] > 0} = U
  BY <1>1 DEF SheetGood
<1>4. GvAp(sh.x, elev) = AreasOver(sh.x.a, sh.x.area, DOMAIN w)
  BY <1>1, <1>3 DEF GvAp, AreasOver
<1>5. GvI(sh.x, elev) = AreasOver(sh.x.i, sh.x.area, DOMAIN w)
  BY <1>1 DEF GvI, AreasOver
<1> QED
  BY <1>1, <1>2, <1>4, <1>5 DEF UrO

\* Land, where both ModelE and the ice model have some
LandIn(op, om) == {o \in DOMAIN om : om[o] = 0 /\ op[o] # Full}

\* A coast: how much of each cell is ocean
CoastGood(sh, op, om) ==
    \A c \in sh.x.cells : sh.x.a[c] \in DOMAIN om /\ op[sh.x.a[c]] \in 0..Full

\* Of what is used, what ModelE has as land
UsedLand(sh, w, om) == {o \in {sh.x.a[c] : c \in DOMAIN w} : om[o] = 0}
AreasGiven(sh, w, op, om, wA) ==
    /\ DOMAIN wA = UsedLand(sh, w, om)
    /\ Magnified(sh.x.a, sh.x.area, w, wA)
    /\ \A o \in DOMAIN wA : wA[o] # 0 <=> op[o] # Full

\* compute_wAOm() magnifies the area of the cells on land, and gives no other any.
LEMMA WAOmMagnified ==
    ASSUME NEW sh, SheetGood(sh), NEW w, NEW sp, SharesOut(sh.x.area, w, sp),
           DOMAIN w \in SUBSET sh.x.cells,
           NEW op, NEW om, CoastGood(sh, op, om)
    PROVE  AreasGiven(sh, w, op, om,
               WAOm(Corrected(sh.geom, "A", ColSum(AreasOver(sh.x.a, sh.x.area, DOMAIN w))),
                    op, om))
<1> DEFINE a == sh.x.a
           area == sh.x.area
           O == {a[c] : c \in DOMAIN w}
           native == sh.geom.native
           proj == sh.geom.proj
           v == ColSum(AreasOver(a, area, DOMAIN w))
           wP == Corrected(sh.geom, "A", v)
           wA == WAOm(wP, op, om)
<1>1. v = [o \in O |-> AreaIn(a, area, w, o)]
  BY AreasColSum
<1>2. DOMAIN wP = O /\ \A o \in O : wP[o] = (AreaIn(a, area, w, o) * native[o]) \div proj[o]
  BY <1>1 DEF Corrected, CellIn
<1>3. DOMAIN wA = {o \in O : om[o] = 0}
  BY <1>2 DEF WAOm
<1>4. ASSUME NEW o \in DOMAIN wA
      PROVE  /\ wA[o] \in Nat /\ (wA[o] = 0 \/ wA[o] >= AreaIn(a, area, w, o))
             /\ wA[o] # 0 <=> op[o] # Full
  <2>1. PICK c \in DOMAIN w : o = a[c]
    BY <1>3
  <2>2. AreaIn(a, area, w, o) \in Nat \ {0}
    <3>1. c \in CellsIn(a, w, o)
      BY <2>1 DEF CellsIn
    <3> QED
      BY <3>1, AreaPositive
  <2>3. proj[o] \in Nat \ {0} /\ native[o] \in Nat /\ proj[o] <= native[o] /\ op[o] \in 0..Full
    BY <2>1 DEF SheetGood, CoastGood
  <2>4. wP[o] \in Nat /\ wP[o] >= AreaIn(a, area, w, o)
    <3> DEFINE n == AreaIn(a, area, w, o)
               p == proj[o]
               m == native[o]
    <3>1. n \in Nat /\ p \in Nat \ {0} /\ m \in Nat /\ p <= m /\ wP[o] = (n * m) \div p
      BY <1>2, <2>1, <2>2, <2>3
    <3> HIDE DEF n, p, m, wP
    <3>2. wP[o] \in Nat /\ wP[o] >= n
      BY <3>1, RatioGrows
    <3> QED
      BY <3>2 DEF n
  <2>5. wA[o] = IF op[o] = Full THEN 0 ELSE (wP[o] * Full) \div (Full - op[o])
    BY <1>2, <1>3 DEF WAOm
  <2>6. CASE op[o] = Full
    BY <2>5, <2>6
  <2>7. CASE op[o] # Full
    <3> DEFINE n == wP[o]
               p == Full - op[o]
    <3>1. Full \in Nat \ {0}
      BY ExchangeAssumption
    <3>2. n \in Nat /\ p \in Nat \ {0} /\ Full \in Nat /\ p <= Full /\ wA[o] = (n * Full) \div p
      BY <2>3, <2>4, <2>5, <2>7, <3>1
    <3> HIDE DEF n, p, wA, wP
    <3>3. wA[o] \in Nat /\ wA[o] >= n
      BY <3>2, RatioGrows
    <3>4. n >= AreaIn(a, area, w, o)
      BY <2>4 DEF n
    <3> HIDE DEF a, area
    <3> QED
      BY <2>2, <2>7, <3>2, <3>3, <3>4
  <2> QED
    BY <2>6, <2>7
<1>5. Magnified(a, area, w, wA)
  <2> HIDE DEF wA
  <2> QED
    BY <1>4 DEF Magnified
<1>6. \A x \in DOMAIN wA : wA[x] # 0 <=> op[x] # Full
  BY <1>4
<1>7. DOMAIN wA = UsedLand(sh, w, om)
  BY <1>3 DEF UsedLand
<1> HIDE DEF wA
<1>8. AreasGiven(sh, w, op, om, wA)
  BY <1>5, <1>6, <1>7 DEF AreasGiven
<1> QED
  BY <1>8 DEF wA

-----------------------------------------------------------------------------
(* The matrices of the classes, from the land *)

\* What the matrices of the classes are made from: a sheet, the weights of its exchange
\* cells, and a coast.
ClassesAmong(w, hcdefs) == \A c \in DOMAIN w : DOMAIN w[c] \in SUBSET (DOMAIN hcdefs)
Ground(sh, elev, hcdefs, op, om, sp) ==
    /\ SheetGood(sh) /\ CoastGood(sh, op, om)
    /\ SharesOut(sh.x.area, ClassesOf(sh, elev, hcdefs), sp)
    /\ ClassesAmong(ClassesOf(sh, elev, hcdefs), hcdefs)
LandClasses(sh, elev, hcdefs, op, om) ==
    ClassesIn(sh.x.a, ClassesOf(sh, elev, hcdefs), LandIn(op, om))

LandIs(g, S, h) ==
    /\ DOMAIN h.XAvXO = UpPairs(g, S) /\ S \in SUBSET h.dimXOm
    /\ \A e \in S : h.wXOm[e] \in Int
    /\ h.wXAm = RowSum([rc \in UpPairs(g, S) |-> h.wXOm[rc[2]]])

\* ComputeXAmvGp_Helper keeps the classes of the land, all of them and no others.
LEMMA HelperLand ==
    ASSUME NEW g, NEW sh, NEW elev, NEW hcdefs, NEW op, NEW om, NEW sp,
           Ground(sh, elev, hcdefs, op, om, sp), NEW G \in {"I", "X"}
    PROVE  LandIs(g, LandClasses(sh, elev, hcdefs, op, om),
                  Helper("E", G, g, sh, UrO(sh, elev, hcdefs, sh.style), op, om, sp))
<1> DEFINE ur == UrO(sh, elev, hcdefs, sh.style)
           w == ClassesOf(sh, elev, hcdefs)
           a == sh.x.a
           area == sh.x.area
           h == Helper("E", G, g, sh, ur, op, om, sp)
           wA == WAOm(Corrected(sh.geom, "A", ColSum(ur.A)), op, om)
           M == EvA(sh.x, ur.E, ur.A).M
           W == WEOm(EOmvAOm(M, DOMAIN wA), wA, sp)
           S == LandClasses(sh, elev, hcdefs, op, om)
<1>1. /\ SheetGood(sh) /\ CoastGood(sh, op, om) /\ SharesOut(area, w, sp)
      /\ DOMAIN w \in SUBSET sh.x.cells
      /\ ur.E = Shares(a, area, w) /\ ur.A = AreasOver(a, area, DOMAIN w)
  BY UrShares DEF Ground
<1>2. /\ h.dimXOm = DOMAIN W /\ h.XAvXO = EAvEO(g, W) /\ h.wXOm = W
      /\ h.wXAm = RowSum([rc \in DOMAIN h.XAvXO |-> h.wXOm[rc[2]]])
  BY DEF Helper, HelperOf, WXOm, XAvXO
<1>3. /\ DOMAIN wA = UsedLand(sh, w, om)
      /\ Magnified(a, area, w, wA)
      /\ \A o \in DOMAIN wA : wA[o] # 0 <=> op[o] # Full
  <2> HIDE DEF w, ur
  <2>1. AreasGiven(sh, w, op, om, wA)
    BY <1>1, WAOmMagnified
  <2> HIDE DEF wA
  <2> QED
    BY <2>1 DEF AreasGiven
<1>4. M = Accumulate(OwnRoutes(a, Shares(a, area, w)))
  <2>1. M = Accumulate(Routes(area, ur.E, ur.A))
    BY ThroughRoutes DEF EvA
  <2>2. Routes(area, Shares(a, area, w), AreasOver(a, area, DOMAIN w))
        = OwnRoutes(a, Shares(a, area, w))
    <3> HIDE DEF w
    <3> QED
      BY <1>1, RoutesOwn
  <2> HIDE DEF w, ur, M
  <2> QED
    BY <1>1, <2>1, <2>2
<1>5. /\ DOMAIN W = ClassesIn(a, w, DOMAIN wA)
      /\ \A e \in DOMAIN W : W[e] \in Int /\ (W[e] # 0 <=> wA[e[1]] # 0)
  <2> HIDE DEF w, wA, M, ur
  <2>1. SharedArea(a, w, wA, W)
    BY <1>1, <1>3, <1>4, WEOmClasses
  <2> HIDE DEF W
  <2> QED
    BY <2>1 DEF SharedArea
<1> HIDE DEF W, h, wA, M, ur
<1>6. {e \in DOMAIN W : W[e] # 0} = S
  <2>1. ASSUME NEW e \in DOMAIN W, W[e] # 0 PROVE e \in S
    <3>1. wA[e[1]] # 0 /\ e \in ClassesIn(a, w, DOMAIN wA)
      BY <1>5, <2>1
    <3>2. PICK b \in PlacesOf(a, w) : e = b[2] /\ b[2][1] \in DOMAIN wA
      BY <3>1 DEF ClassesIn
    <3>3. b[1] \in DOMAIN w /\ b[2][1] = a[b[1]]
      BY DEF PlacesOf
    <3>4. b[2][1] \in DOMAIN om
      BY <1>1, <3>3 DEF CoastGood
    <3>5. b[2][1] \in LandIn(op, om)
      BY <1>3, <3>1, <3>2, <3>4 DEF LandIn, UsedLand
    <3> HIDE DEF w
    <3> QED
      BY <3>2, <3>5 DEF S, LandClasses, ClassesIn, w
  <2>2. ASSUME NEW e \in S PROVE e \in DOMAIN W /\ W[e] # 0
    <3>1. PICK b \in PlacesOf(a, w) : e = b[2] /\ b[2][1] \in LandIn(op, om)
      BY <2>2 DEF LandClasses, ClassesIn
    <3>2. b[1] \in DOMAIN w /\ b[2][1] = a[b[1]]
      BY DEF PlacesOf
    <3>3. b[2][1] \in DOMAIN wA /\ op[b[2][1]] # Full
      BY <1>3, <3>1, <3>2 DEF LandIn, UsedLand
    <3>4. e \in ClassesIn(a, w, DOMAIN wA)
      BY <3>1, <3>3 DEF ClassesIn
    <3> QED
      BY <1>3, <1>5, <3>1, <3>3, <3>4
  <2> QED
    BY <2>1, <2>2
<1> HIDE DEF S
<1>7. DOMAIN EAvEO(g, W) = UpPairs(g, {e \in DOMAIN W : W[e] # 0})
  BY DEF EAvEO, UpPairs, Up
<1>8. S \in SUBSET (DOMAIN W)
  BY <1>6
<1>9. DOMAIN h.XAvXO = UpPairs(g, S) /\ \A e \in S : h.wXOm[e] \in Int
  BY <1>2, <1>5, <1>6, <1>7
<1>10. LandIs(g, S, h)
  BY <1>2, <1>8, <1>9 DEF LandIs
<1> QED
  BY <1>10 DEF h, ur, S

LiftedAre(g, S, E, I, m) ==
    /\ m.XvE.M = Accumulate(LiftedAt(g, E, S)) /\ m.XvE.wM = RowSum(E)
    /\ m.IvE.M = Accumulate(LiftedAt(g, I, S))

\* The matrices from the classes, to the exchange cells and to the ice, are those of the
\* ocean grid with the classes of the land lifted to the atmosphere.
LEMMA ModelELifted ==
    ASSUME NEW g, NEW sh, NEW elev, NEW hcdefs, NEW op, NEW om, NEW sp,
           Ground(sh, elev, hcdefs, op, om, sp)
    PROVE  LET ur == UrO(sh, elev, hcdefs, sh.style)
           IN  LiftedAre(g, LandClasses(sh, elev, hcdefs, op, om), ur.E,
                         IvAE(sh.x, ur.E, ur.I, sh.geom, "E", FALSE).M,
                         ModelEMatrices(g, sh, ur, op, om, sp))
<1> DEFINE ur == UrO(sh, elev, hcdefs, sh.style)
           m == ModelEMatrices(g, sh, ur, op, om, sp)
           S == LandClasses(sh, elev, hcdefs, op, om)
           I == IvAE(sh.x, ur.E, ur.I, sh.geom, "E", FALSE).M
           hX == Helper("E", "X", g, sh, ur, op, om, sp)
           hI == Helper("E", "I", g, sh, ur, op, om, sp)
<1>1. m.XvE = GpvXAm(g, hX, ur.E) /\ m.IvE = GpvXAm(g, hI, I)
  BY DEF ModelEMatrices
<1>2. /\ DOMAIN hX.XAvXO = UpPairs(g, S) /\ S \in SUBSET hX.dimXOm
      /\ DOMAIN hI.XAvXO = UpPairs(g, S) /\ S \in SUBSET hI.dimXOm
  <2>1. "X" \in {"I", "X"} /\ "I" \in {"I", "X"}
    OBVIOUS
  <2>2. LandIs(g, S, hX) /\ LandIs(g, S, hI)
    BY <2>1, HelperLand
  <2> HIDE DEF S, hX, hI
  <2> QED
    BY <2>2 DEF LandIs
<1>3. hX.XOpvG.Mw = RowSum(ur.E)
  BY DEF Helper, HelperOf, AEvX
<1> HIDE DEF ur, m, S, I, hX, hI
<1>4. /\ m.XvE.M = Accumulate(Lifted(ur.E, DOMAIN hX.XAvXO, hX.dimXOm))
      /\ m.IvE.M = Accumulate(Lifted(I, DOMAIN hI.XAvXO, hI.dimXOm))
      /\ m.XvE.wM = hX.XOpvG.Mw
  BY <1>1 DEF GpvXAm, Lifted
<1>5. /\ Lifted(ur.E, UpPairs(g, S), hX.dimXOm) = LiftedAt(g, ur.E, S)
      /\ Lifted(I, UpPairs(g, S), hI.dimXOm) = LiftedAt(g, I, S)
  BY <1>2, LiftedOnce
<1>6. LiftedAre(g, S, ur.E, I, m)
  BY <1>2, <1>3, <1>4, <1>5 DEF LiftedAre
<1> QED
  BY <1>6 DEF ur, m, S, I

\* The cells on land, and the atmosphere cells over the cells that they lie in
OnLand(sh, w, op, om) == [c \in {d \in DOMAIN w : sh.x.a[d] \in LandIn(op, om)} |-> w[c]]
OverCells(g, sh) == [c \in sh.x.cells |-> Over(g, sh.x.a[c])]

\* Cells on land still share out all their weight.
LEMMA OnLandShares ==
    ASSUME NEW sh, NEW w, NEW sp, SharesOut(sh.x.area, w, sp), NEW op, NEW om
    PROVE  SharesOut(sh.x.area, OnLand(sh, w, op, om), sp)
<1> DEFINE v == OnLand(sh, w, op, om)
<1>1. DOMAIN v \in SUBSET (DOMAIN w) /\ \A c \in DOMAIN v : v[c] = w[c]
  BY DEF OnLand
<1> HIDE DEF v
<1>2. IsFiniteSet(DOMAIN v)
  BY <1>1, FS_Subset DEF SharesOut
<1>3. SharesOut(sh.x.area, v, sp)
  BY <1>1, <1>2 DEF SharesOut
<1> QED
  BY <1>3 DEF v

XvEIs(o, area, w, v, sp, m) ==
    m.XvE.M = Shares(o, area, v) /\ m.XvE.wM = [c \in DOMAIN w |-> area[c] * sp]

\* XvE is what the exchange cells on land share out among the classes over them.
LEMMA XvEShares ==
    ASSUME NEW g, NEW sh, NEW elev, NEW hcdefs, NEW op, NEW om, NEW sp,
           Ground(sh, elev, hcdefs, op, om, sp)
    PROVE  LET ur == UrO(sh, elev, hcdefs, sh.style)
               w == ClassesOf(sh, elev, hcdefs)
           IN  XvEIs(OverCells(g, sh), sh.x.area, w, OnLand(sh, w, op, om), sp,
                     ModelEMatrices(g, sh, ur, op, om, sp))
<1> DEFINE ur == UrO(sh, elev, hcdefs, sh.style)
           m == ModelEMatrices(g, sh, ur, op, om, sp)
           S == LandClasses(sh, elev, hcdefs, op, om)
           w == ClassesOf(sh, elev, hcdefs)
           a == sh.x.a
           area == sh.x.area
           v == OnLand(sh, w, op, om)
           o == OverCells(g, sh)
           E == Shares(a, area, w)
           T == LiftedAt(g, E, S)
<1>1. /\ SharesOut(area, w, sp) /\ DOMAIN w \in SUBSET sh.x.cells /\ ur.E = E
  BY UrShares DEF Ground
<1>2. m.XvE.M = Accumulate(T) /\ m.XvE.wM = RowSum(E)
  <2>1. m.XvE.M = Accumulate(LiftedAt(g, ur.E, S)) /\ m.XvE.wM = RowSum(ur.E)
    <3> DEFINE I == IvAE(sh.x, ur.E, ur.I, sh.geom, "E", FALSE).M
    <3>1. LiftedAre(g, S, ur.E, I, m)
      BY ModelELifted
    <3> HIDE DEF m, ur, S, I
    <3> QED
      BY <3>1 DEF LiftedAre
  <2> HIDE DEF m, ur
  <2> QED
    BY <1>1, <2>1
<1>3. RowSum(E) = [c \in DOMAIN w |-> area[c] * sp]
  <2> HIDE DEF w
  <2> QED
    BY <1>1, SharesRowSum
<1>4. SharesOut(area, v, sp)
  <2> HIDE DEF w
  <2> QED
    BY <1>1, OnLandShares
<1>5. /\ DOMAIN E = PlacesOf(a, w)
      /\ \A c \in DOMAIN w : \A h \in DOMAIN w[c] : E[<<c, <<a[c], h>>>>] = area[c] * w[c][h]
      /\ \A rc \in PlacesOf(a, w) : E[rc] \in Nat \ {0}
  <2> HIDE DEF w
  <2> QED
    BY <1>1, SharesPlaces
<1>6. /\ DOMAIN Shares(o, area, v) = PlacesOf(o, v)
      /\ \A c \in DOMAIN v : \A h \in DOMAIN v[c] :
            Shares(o, area, v)[<<c, <<o[c], h>>>>] = area[c] * v[c][h]
  <2> HIDE DEF v, o
  <2> QED
    BY <1>4, SharesPlaces
<1>7. DOMAIN v = {c \in DOMAIN w : a[c] \in LandIn(op, om)} /\ \A c \in DOMAIN v : v[c] = w[c]
  BY DEF OnLand
<1>8. \A c \in DOMAIN w : o[c] = Over(g, a[c])
  BY <1>1 DEF OverCells
<1> HIDE DEF m, ur, E, v, o, w
<1>9. InClasses(E, S) = PlacesOf(a, v)
  <2>1. ASSUME NEW rc \in InClasses(E, S) PROVE rc \in PlacesOf(a, v)
    <3>1. rc \in PlacesOf(a, w) /\ rc[2] \in S
      BY <1>5 DEF InClasses
    <3>2. PICK c \in DOMAIN w : \E h \in DOMAIN w[c] : rc = <<c, <<a[c], h>>>>
      BY <3>1 DEF PlacesOf
    <3>3. PICK h \in DOMAIN w[c] : rc = <<c, <<a[c], h>>>>
      BY <3>2
    <3>4. rc[2][1] = a[c] /\ rc[2][1] \in LandIn(op, om)
      BY <3>1, <3>3 DEF LandClasses, ClassesIn
    <3>5. c \in DOMAIN v /\ h \in DOMAIN v[c]
      BY <1>7, <3>3, <3>4
    <3> QED
      BY <3>3, <3>5 DEF PlacesOf
  <2>2. ASSUME NEW c \in DOMAIN v, NEW h \in DOMAIN v[c]
        PROVE  <<c, <<a[c], h>>>> \in InClasses(E, S)
    <3> DEFINE b == <<c, <<a[c], h>>>>
    <3>1. b \in PlacesOf(a, w) /\ b[2][1] \in LandIn(op, om)
      BY <1>7 DEF PlacesOf
    <3> HIDE DEF b
    <3>2. b[2] \in S
      BY <3>1 DEF LandClasses, ClassesIn, w
    <3>3. b \in InClasses(E, S)
      BY <1>5, <3>1, <3>2 DEF InClasses
    <3> QED
      BY <3>3 DEF b
  <2>3. \A rc \in PlacesOf(a, v) : rc \in InClasses(E, S)
    BY <2>2 DEF PlacesOf
  <2> QED
    BY <2>1, <2>3
<1> DEFINE lift(rc) == <<<<rc, <<Up(g, rc[2]), rc[2]>>>>, rc[1], Up(g, rc[2]), E[rc]>>
<1>10. T = {lift(rc) : rc \in PlacesOf(a, v)}
  BY <1>9 DEF LiftedAt
<1>11. ASSUME NEW c \in DOMAIN v, NEW h \in DOMAIN v[c]
       PROVE  LET t == lift(<<c, <<a[c], h>>>>)
              IN  /\ t \in T /\ t[2] = c /\ t[3] = <<o[c], h>> /\ t[4] = area[c] * v[c][h]
                  /\ t[4] \in Int
  <2> DEFINE rc == <<c, <<a[c], h>>>>
  <2>1. rc \in PlacesOf(a, v) /\ rc \in PlacesOf(a, w)
    BY <1>7 DEF PlacesOf
  <2>2. c \in DOMAIN w /\ w[c] = v[c] /\ o[c] = Over(g, a[c])
    BY <1>7, <1>8
  <2>3. E[rc] = area[c] * v[c][h] /\ E[rc] \in Int
    BY <1>5, <2>1, <2>2
  <2>4. Up(g, rc[2]) = <<o[c], h>> /\ rc[1] = c
    BY <2>2 DEF Up
  <2> HIDE DEF rc, T
  <2> QED
    BY <1>10, <2>1, <2>3, <2>4 DEF rc
<1>12. ASSUME NEW t \in T
       PROVE  \E c \in DOMAIN v : \E h \in DOMAIN v[c] : t = lift(<<c, <<a[c], h>>>>)
  <2> HIDE DEF lift
  <2> QED
    BY <1>10 DEF PlacesOf
<1> HIDE DEF T, lift
<1>13. \A t \in T : t[4] \in Int
  BY <1>11, <1>12
<1>14. ASSUME NEW t \in T, NEW u \in T, t[2] = u[2], t[3] = u[3]
       PROVE  t = u
  <2>1. PICK c \in DOMAIN v : \E h \in DOMAIN v[c] : t = lift(<<c, <<a[c], h>>>>)
    BY <1>12
  <2>2. PICK h \in DOMAIN v[c] : t = lift(<<c, <<a[c], h>>>>)
    BY <2>1
  <2>3. PICK d \in DOMAIN v : \E k \in DOMAIN v[d] : u = lift(<<d, <<a[d], k>>>>)
    BY <1>12
  <2>4. PICK k \in DOMAIN v[d] : u = lift(<<d, <<a[d], k>>>>)
    BY <2>3
  <2>5. t[2] = c /\ t[3] = <<o[c], h>> /\ u[2] = d /\ u[3] = <<o[d], k>>
    BY <1>11, <2>2, <2>4
  <2>6. c = d /\ <<o[c], h>> = <<o[d], k>>
    BY <1>14, <2>5
  <2>7. h = k
    BY <2>6
  <2> QED
    BY <2>2, <2>4, <2>6, <2>7
<1>15. /\ DOMAIN Accumulate(T) = {<<t[2], t[3]>> : t \in T}
       /\ \A t \in T : Accumulate(T)[<<t[2], t[3]>>] = t[4]
  BY <1>13, <1>14, AccumulateApart
<1>16. {<<t[2], t[3]>> : t \in T} = PlacesOf(o, v)
  <2>1. ASSUME NEW t \in T PROVE <<t[2], t[3]>> \in PlacesOf(o, v)
    <3>1. PICK c \in DOMAIN v : \E h \in DOMAIN v[c] : t = lift(<<c, <<a[c], h>>>>)
      BY <1>12
    <3>2. PICK h \in DOMAIN v[c] : t = lift(<<c, <<a[c], h>>>>)
      BY <3>1
    <3>3. <<t[2], t[3]>> = <<c, <<o[c], h>>>>
      BY <1>11, <3>2
    <3> QED
      BY <3>3 DEF PlacesOf
  <2>2. ASSUME NEW p \in PlacesOf(o, v) PROVE p \in {<<t[2], t[3]>> : t \in T}
    <3>1. PICK c \in DOMAIN v : \E h \in DOMAIN v[c] : p = <<c, <<o[c], h>>>>
      BY DEF PlacesOf
    <3>2. PICK h \in DOMAIN v[c] : p = <<c, <<o[c], h>>>>
      BY <3>1
    <3>3. PICK t \in T : t[2] = c /\ t[3] = <<o[c], h>>
      BY <1>11
    <3> QED
      BY <3>2, <3>3
  <2> QED
    BY <2>1, <2>2
<1>17. ASSUME NEW p \in PlacesOf(o, v)
       PROVE  Accumulate(T)[p] = Shares(o, area, v)[p]
  <2>1. PICK c \in DOMAIN v : \E h \in DOMAIN v[c] : p = <<c, <<o[c], h>>>>
    BY DEF PlacesOf
  <2>2. PICK h \in DOMAIN v[c] : p = <<c, <<o[c], h>>>>
    BY <2>1
  <2>3. PICK t \in T : t[2] = c /\ t[3] = <<o[c], h>> /\ t[4] = area[c] * v[c][h]
    BY <1>11
  <2>4. Accumulate(T)[p] = area[c] * v[c][h]
    BY <1>15, <2>2, <2>3
  <2> QED
    BY <1>6, <2>2, <2>4
<1>18. Accumulate(T) = Shares(o, area, v)
  <2> DEFINE A == Accumulate(T)
             B == Shares(o, area, v)
  <2>1. A = [p \in DOMAIN A |-> A[p]] /\ B = [p \in DOMAIN B |-> B[p]]
    BY DEF Accumulate, Shares
  <2>2. DOMAIN A = PlacesOf(o, v) /\ DOMAIN B = PlacesOf(o, v)
    BY <1>6, <1>15, <1>16
  <2>3. \A p \in PlacesOf(o, v) : A[p] = B[p]
    BY <1>17
  <2> HIDE DEF A, B
  <2>4. A = B
    BY <2>1, <2>2, <2>3
  <2> QED
    BY <2>4 DEF A, B
<1>19. XvEIs(OverCells(g, sh), sh.x.area, w, v, sp, m)
  BY <1>2, <1>3, <1>18 DEF XvEIs, o
<1> QED
  BY <1>19 DEF m, ur, w, v

-----------------------------------------------------------------------------
(* The correction between two geometries leaves a uniform state alone *)

RowAt(M, c) == {rc \in DOMAIN M : rc[1] = c}

\* A factor that is not 0 cancels.
LEMMA FactorCancels ==
    ASSUME NEW n \in Nat \ {0}, NEW p \in Int, NEW q \in Int, n * p = n * q
    PROVE  p = q
<1>1. n * p <= n * q /\ n * q <= n * p
  <2> DEFINE x == n * p
             y == n * q
  <2>1. x \in Int /\ x = y
    OBVIOUS
  <2> HIDE DEF x, y
  <2>2. x <= y /\ y <= x
    BY <2>1
  <2> QED
    BY <2>2 DEF x, y
<1>2. p <= q /\ q <= p
  BY <1>1, MultOrder
<1> QED
  BY <1>2

ScaledWell(o, v, sp, S) ==
    /\ DOMAIN S = PlacesOf(o, v) /\ Matrix(S)
    /\ \A c \in DOMAIN v : Sum(S, RowAt(S, c)) = sp

\* Scaled by the weights of the exchange cells, the classes of each add up to the spacing.
LEMMA ScaledShares ==
    ASSUME NEW o, NEW area, NEW w, NEW v, NEW sp, SharesOut(area, w, sp),
           SharesOut(area, v, sp), DOMAIN v \in SUBSET (DOMAIN w),
           NEW X, X.M = Shares(o, area, v), X.wM = [c \in DOMAIN w |-> area[c] * sp]
    PROVE  ScaledWell(o, v, sp, ScaledX(X, sp))
<1> DEFINE M == Shares(o, area, v)
           S == ScaledX(X, sp)
<1>1. /\ DOMAIN M = PlacesOf(o, v)
      /\ \A c \in DOMAIN v : \A h \in DOMAIN v[c] : M[<<c, <<o[c], h>>>>] = area[c] * v[c][h]
      /\ Matrix(M)
  BY SharesPlaces
<1>2. \A c \in DOMAIN v : Sum(M, PlacesAt(o, v, c)) = area[c] * sp /\ IsFiniteSet(PlacesAt(o, v, c))
  BY SharesRow
<1>3. sp \in Nat \ {0} /\ \A c \in DOMAIN v : area[c] \in Nat \ {0} /\ Sharing(v[c], sp)
  BY DEF SharesOut
<1>4. S = [rc \in DOMAIN M |-> (M[rc] * sp) \div X.wM[rc[1]]]
  BY DEF ScaledX
<1> HIDE DEF M, S
<1>5. ASSUME NEW c \in DOMAIN v, NEW h \in DOMAIN v[c]
      PROVE  /\ S[<<c, <<o[c], h>>>>] = v[c][h] /\ v[c][h] \in Int
             /\ <<c, <<o[c], h>>>> \in DOMAIN S
  <2> DEFINE rc == <<c, <<o[c], h>>>>
             q == v[c][h]
             p == area[c]
             d == p * sp
  <2>1. q \in Nat /\ p \in Nat \ {0}
    BY <1>3 DEF Sharing
  <2>2. rc \in DOMAIN M /\ rc[1] = c
    BY <1>1 DEF PlacesOf
  <2>3. M[rc] = p * q
    BY <1>1
  <2>4. X.wM[c] = d
    OBVIOUS
  <2>5. S[rc] = (M[rc] * sp) \div X.wM[c]
    BY <1>4, <2>2
  <2> HIDE DEF rc, q, p
  <2>6. d \in Nat \ {0} /\ (p * q) * sp = d * q
    BY <1>3, <2>1
  <2> HIDE DEF d
  <2>7. (d * q) \div d = q
    BY <2>1, <2>6, DivExact
  <2>8. S[rc] = q
    BY <2>3, <2>4, <2>5, <2>6, <2>7
  <2> QED
    BY <1>4, <2>1, <2>2, <2>8 DEF rc, q
<1>6. DOMAIN S = PlacesOf(o, v)
  BY <1>1, <1>4
<1>7. \A rc \in DOMAIN S : S[rc] \in Int
  BY <1>5, <1>6 DEF PlacesOf
<1>8. Matrix(S)
  BY <1>1, <1>6, <1>7 DEF Matrix
<1>9. ASSUME NEW c \in DOMAIN v
      PROVE  Sum(S, RowAt(S, c)) = sp
  <2> DEFINE K == RowAt(S, c)
             p == area[c]
  <2>1. K = PlacesAt(o, v, c)
    BY <1>6 DEF RowAt, PlacesAt
  <2>2. Sum(M, K) = p * sp /\ IsFiniteSet(K) /\ p \in Nat \ {0}
    BY <1>2, <1>3, <2>1
  <2>3. ASSUME NEW rc \in K
        PROVE  S[rc] \in Int /\ M[rc] = p * S[rc]
    <3>1. rc \in PlacesOf(o, v) /\ rc[1] = c
      BY <2>1 DEF PlacesAt
    <3>2. PICK b \in DOMAIN v : \E h \in DOMAIN v[b] : rc = <<b, <<o[b], h>>>>
      BY <3>1 DEF PlacesOf
    <3>3. PICK h \in DOMAIN v[b] : rc = <<b, <<o[b], h>>>>
      BY <3>2
    <3>4. b = c
      BY <3>1, <3>3
    <3>5. M[rc] = area[b] * v[b][h] /\ S[rc] = v[b][h] /\ v[b][h] \in Int
      BY <1>1, <1>5, <3>3
    <3> QED
      BY <3>4, <3>5
  <2> HIDE DEF K
  <2>4. Ints(S, K)
    BY <2>3 DEF Ints
  <2>5. p \in Int /\ \A rc \in K : M[rc] = p * S[rc]
    BY <2>2, <2>3
  <2> HIDE DEF p
  <2>6. Sum(M, K) = p * Sum(S, K) /\ Sum(S, K) \in Int
    BY <2>2, <2>4, <2>5, SumScale, SumInt
  <2>7. p * Sum(S, K) = p * sp
    BY <2>2, <2>6
  <2> DEFINE q == Sum(S, K)
  <2>8. q \in Int /\ p * q = p * sp
    BY <2>6, <2>7
  <2> HIDE DEF q
  <2>9. q = sp
    BY <1>3, <2>2, <2>8, FactorCancels
  <2> QED
    BY <2>9 DEF q, K
<1>10. ScaledWell(o, v, sp, S)
  BY <1>6, <1>8, <1>9 DEF ScaledWell
<1> QED
  BY <1>10 DEF S

\* A sum over more places than the matrix has entries at
LEMMA AtRow ==
    ASSUME NEW M, Matrix(M), NEW K, IsFiniteSet(K), NEW c, RowAt(M, c) \in SUBSET K,
           \A rc \in K : rc[1] = c
    PROVE  LET f == [rc \in K |-> At(M, rc)]
           IN  Ints(f, K) /\ Sum(f, K) = Sum(M, RowAt(M, c)) /\ Sum(f, K) \in Int
<1> DEFINE f == [rc \in K |-> At(M, rc)]
           R == RowAt(M, c)
           Z == K \ R
<1>1. \A rc \in K : f[rc] \in Int
  BY DEF Matrix, At
<1>2. \A rc \in R : f[rc] = M[rc]
  BY DEF At, RowAt
<1>3. \A rc \in Z : f[rc] = 0
  BY DEF At, RowAt
<1>4. K = R \cup Z /\ R \cap Z = {}
  OBVIOUS
<1>5. IsFiniteSet(R) /\ IsFiniteSet(Z)
  BY FS_Subset
<1> HIDE DEF f, R, Z
<1>6. Ints(f, K) /\ Ints(f, R) /\ Ints(f, Z)
  BY <1>1, <1>4 DEF Ints
<1>7. Sum(f, R \cup Z) = Sum(f, R) + Sum(f, Z)
  BY <1>4, <1>5, <1>6, SumUnion
<1>8. Sum(f, Z) = 0
  BY <1>3, <1>5, SumZero
<1>9. Sum(f, R) = Sum(M, R)
  BY <1>2, SumSame
<1>10. Sum(f, K) \in Int /\ Sum(f, R) \in Int
  BY <1>5, <1>6, SumInt
<1>11. Sum(f, K) = Sum(M, R)
  BY <1>4, <1>7, <1>8, <1>9, <1>10
<1> QED
  BY <1>6, <1>10, <1>11 DEF f, R

\* A row of a difference adds up to the difference of the rows.
LEMMA DifferenceRow ==
    ASSUME NEW M0, Matrix(M0), NEW M1, Matrix(M1), NEW c
    PROVE  LET D == Difference(M0, M1)
           IN  /\ Matrix(D) /\ Sum(D, RowAt(D, c)) \in Int
               /\ Sum(M0, RowAt(M0, c)) = Sum(D, RowAt(D, c)) + Sum(M1, RowAt(M1, c))
<1> DEFINE D == Difference(M0, M1)
           K == RowAt(D, c)
           f0 == [rc \in K |-> At(M0, rc)]
           f1 == [rc \in K |-> At(M1, rc)]
<1>1. DOMAIN D = DOMAIN M0 \cup DOMAIN M1 /\ \A rc \in DOMAIN D : D[rc] = At(M0, rc) - At(M1, rc)
  BY DEF Difference
<1>2. \A rc : At(M0, rc) \in Int /\ At(M1, rc) \in Int
  BY DEF Matrix, At
<1>3. IsFiniteSet(DOMAIN D)
  BY <1>1, FS_Union DEF Matrix
<1> HIDE DEF D
<1>4. Matrix(D)
  BY <1>1, <1>2, <1>3 DEF Matrix
<1>5. /\ IsFiniteSet(K) /\ RowAt(M0, c) \in SUBSET K /\ RowAt(M1, c) \in SUBSET K
      /\ \A rc \in K : rc[1] = c /\ rc \in DOMAIN D
  BY <1>1, <1>3, FS_Subset DEF RowAt
<1>6. Ints(D, K)
  BY <1>4, <1>5 DEF Ints, Matrix
<1>7. \A rc \in K : f0[rc] = D[rc] + f1[rc]
  <2> SUFFICES ASSUME NEW rc \in K PROVE f0[rc] = D[rc] + f1[rc]
    OBVIOUS
  <2>1. D[rc] = At(M0, rc) - At(M1, rc)
    BY <1>1, <1>5
  <2>2. f0[rc] = At(M0, rc) /\ f1[rc] = At(M1, rc)
    OBVIOUS
  <2> HIDE DEF f0, f1
  <2> QED
    BY <1>2, <2>1, <2>2
<1> HIDE DEF K
<1>8. Ints(f0, K) /\ Sum(f0, K) = Sum(M0, RowAt(M0, c)) /\ Sum(f0, K) \in Int
  BY <1>5, AtRow
<1>9. Ints(f1, K) /\ Sum(f1, K) = Sum(M1, RowAt(M1, c)) /\ Sum(f1, K) \in Int
  BY <1>5, AtRow
<1> HIDE DEF f0, f1
<1>10. Sum(f0, K) = Sum(D, K) + Sum(f1, K)
  BY <1>5, <1>6, <1>7, <1>9, SumPlus
<1>11. Sum(D, K) \in Int
  BY <1>5, <1>6, SumInt
<1> QED
  BY <1>4, <1>8, <1>9, <1>10, <1>11 DEF K, D

\* What E1vE0c() adds up
Changes(M1, D) ==
    {<<ab, ab[1][2], ab[2][2], M1[ab[1]] * D[ab[2]]>> :
        ab \in {cd \in (DOMAIN M1) \X (DOMAIN D) : cd[1][1] = cd[2][1]}}
ChangesOf(M1, D, e) == {t \in Changes(M1, D) : t[2] = e}
ChangesThrough(M1, D, e, rc) == {t \in ChangesOf(M1, D, e) : t[1][1] = rc}

\* Matrices change finitely many entries.
LEMMA ChangesEntries ==
    ASSUME NEW M1, Matrix(M1), NEW D, Matrix(D)
    PROVE  Entries(Changes(M1, D))
<1> DEFINE P == {cd \in (DOMAIN M1) \X (DOMAIN D) : cd[1][1] = cd[2][1]}
           f == [ab \in P |-> <<ab, ab[1][2], ab[2][2], M1[ab[1]] * D[ab[2]]>>]
           T == Changes(M1, D)
<1>1. IsFiniteSet(P)
  <2>1. IsFiniteSet((DOMAIN M1) \X (DOMAIN D))
    BY FS_Product DEF Matrix
  <2> QED
    BY <2>1, FS_Subset
<1>2. T = {f[ab] : ab \in P}
  BY DEF Changes
<1>3. \A ab \in P : f[ab][4] \in Int
  <2> SUFFICES ASSUME NEW ab \in P PROVE f[ab][4] \in Int
    OBVIOUS
  <2>1. M1[ab[1]] \in Int /\ D[ab[2]] \in Int
    BY DEF Matrix
  <2> QED
    BY <2>1
<1> HIDE DEF P, f, T
<1>4. IsFiniteSet({f[ab] : ab \in P})
  BY <1>1, ImageFinite
<1>5. Entries(T)
  BY <1>2, <1>3, <1>4 DEF Entries
<1> QED
  BY <1>5 DEF T

\* What one exchange cell changes of a class adds up to its part of the class times the row
\* of the difference.
LEMMA ChangesRow ==
    ASSUME NEW M1, Matrix(M1), NEW D, Matrix(D), NEW rc \in DOMAIN M1,
           Sum(D, RowAt(D, rc[1])) = 0
    PROVE  Total(ChangesThrough(M1, D, rc[2], rc)) = 0
<1> DEFINE R == RowAt(D, rc[1])
           f == [d \in R |-> M1[rc] * D[d]]
           name == [d \in R |-> <<<<rc, d>>, rc[2], d[2], M1[rc] * D[d]>>]
           G == ChangesThrough(M1, D, rc[2], rc)
           g == [t \in G |-> t[4]]
           n == M1[rc]
<1>1. n \in Int /\ \A d \in R : d \in DOMAIN D /\ d[1] = rc[1] /\ D[d] \in Int
  BY DEF Matrix, RowAt
<1>2. IsFiniteSet(R)
  BY FS_Subset DEF Matrix, RowAt
<1>3. \A d \in R : f[d] = n * D[d]
  OBVIOUS
<1>4. \A d \in R : name[d] \in G
  <2> SUFFICES ASSUME NEW d \in R PROVE name[d] \in G
    OBVIOUS
  <2> DEFINE ab == <<rc, d>>
  <2>1. ab \in {cd \in (DOMAIN M1) \X (DOMAIN D) : cd[1][1] = cd[2][1]}
    BY <1>1
  <2>2. name[d] = <<ab, ab[1][2], ab[2][2], M1[ab[1]] * D[ab[2]]>>
    OBVIOUS
  <2>3. name[d] \in Changes(M1, D)
    BY <2>1, <2>2 DEF Changes
  <2>4. name[d][2] = rc[2] /\ name[d][1][1] = rc
    OBVIOUS
  <2> HIDE DEF name
  <2> QED
    BY <2>3, <2>4 DEF ChangesThrough, ChangesOf
<1>5. \A t \in G : \E d \in R : name[d] = t
  <2> SUFFICES ASSUME NEW t \in G PROVE \E d \in R : name[d] = t
    OBVIOUS
  <2>1. t \in Changes(M1, D) /\ t[1][1] = rc
    BY DEF ChangesThrough, ChangesOf
  <2>2. PICK ab \in (DOMAIN M1) \X (DOMAIN D) :
            /\ ab[1][1] = ab[2][1]
            /\ t = <<ab, ab[1][2], ab[2][2], M1[ab[1]] * D[ab[2]]>>
    BY <2>1 DEF Changes
  <2>3. ab[1] = rc /\ ab = <<rc, ab[2]>> /\ ab[2] \in R
    BY <2>1, <2>2 DEF RowAt
  <2>4. name[ab[2]] = <<<<rc, ab[2]>>, rc[2], ab[2][2], M1[rc] * D[ab[2]]>>
    BY <2>3
  <2> QED
    BY <2>2, <2>3, <2>4
<1>6. \A d, k \in R : name[d] = name[k] => d = k
  OBVIOUS
<1>7. \A d \in R : g[name[d]] = f[d]
  BY <1>4
<1>8. IsFiniteSet(G)
  <2>1. IsFiniteSet(Changes(M1, D))
    BY ChangesEntries DEF Entries
  <2> QED
    BY <2>1, FS_Subset DEF ChangesThrough, ChangesOf
<1>9. Total(G) = Sum(g, G)
  BY DEF Total
<1>10. Sum(D, R) = 0
  OBVIOUS
<1> HIDE DEF R, f, name, G, g, n
<1>11. Ints(D, R) /\ Ints(f, R)
  <2>1. \A d \in R : D[d] \in Int /\ n * D[d] \in Int
    BY <1>1
  <2> QED
    BY <1>3, <2>1 DEF Ints
<1>12. Sum(f, R) = n * Sum(D, R)
  BY <1>1, <1>2, <1>3, <1>11, SumScale
<1>13. Sum(f, R) = Sum(g, G)
  BY <1>2, <1>4, <1>5, <1>6, <1>7, <1>8, <1>11, SumRename
<1> QED
  BY <1>1, <1>9, <1>10, <1>12, <1>13 DEF G

\* A class whose exchange cells keep the sum of their weights is corrected by 0 in all.
LEMMA NeutralRow ==
    ASSUME NEW M1, Matrix(M1), NEW D, Matrix(D), NEW e,
           \A rc \in DOMAIN M1 : rc[2] = e => Sum(D, RowAt(D, rc[1])) = 0
    PROVE  Total(ChangesOf(M1, D, e)) = 0
<1> DEFINE T == ChangesOf(M1, D, e)
           K == DOMAIN M1
           key == [t \in T |-> t[1][1]]
           f == [rc \in K |-> Total({t \in T : key[t] = rc})]
<1>1. Entries(T)
  <2>1. Entries(Changes(M1, D))
    BY ChangesEntries
  <2>2. T \in SUBSET Changes(M1, D)
    BY DEF ChangesOf
  <2> HIDE DEF T
  <2> QED
    BY <2>1, <2>2, EntriesSubset
<1>2. IsFiniteSet(K)
  BY DEF Matrix
<1>3. ASSUME NEW t \in T PROVE key[t] \in K /\ t[2] = key[t][2]
  <2>1. t \in Changes(M1, D)
    BY DEF ChangesOf
  <2>2. PICK ab \in (DOMAIN M1) \X (DOMAIN D) :
            t = <<ab, ab[1][2], ab[2][2], M1[ab[1]] * D[ab[2]]>>
    BY <2>1 DEF Changes
  <2>3. t[1] = ab /\ t[2] = ab[1][2] /\ ab[1] \in DOMAIN M1
    BY <2>2
  <2> QED
    BY <2>3
<1>4. ASSUME NEW rc \in K PROVE f[rc] = 0
  <2> DEFINE G == {t \in T : key[t] = rc}
  <2>1. G = ChangesThrough(M1, D, e, rc)
    BY DEF ChangesThrough
  <2>2. CASE rc[2] = e
    <3>1. Sum(D, RowAt(D, rc[1])) = 0
      BY <2>2
    <3>2. Total(ChangesThrough(M1, D, rc[2], rc)) = 0
      BY <3>1, ChangesRow
    <3> HIDE DEF G
    <3>3. Total(G) = 0
      BY <2>1, <2>2, <3>2
    <3> QED
      BY <3>3 DEF G
  <2>3. CASE rc[2] # e
    <3>1. \A t \in T : t[2] = e
      BY DEF ChangesOf
    <3>2. G = {}
      BY <1>3, <2>3, <3>1
    <3> HIDE DEF G
    <3>3. Total(G) = 0
      BY <3>2, TotalEmpty
    <3> QED
      BY <3>3 DEF G
  <2> QED
    BY <2>2, <2>3
<1>5. \A t \in T : key[t] \in K
  BY <1>3
<1> DEFINE Z == Total(T)
<1>6. Z = Sum(f, K)
  <2> HIDE DEF T, K, key
  <2> QED
    BY <1>1, <1>2, <1>5, TotalPartition
<1> HIDE DEF f, K
<1>7. Sum(f, K) = 0
  BY <1>2, <1>4, SumZero
<1> HIDE DEF Z
<1>8. Z = 0
  BY <1>6, <1>7
<1> QED
  BY <1>8 DEF Z

\* A matrix of the exchange cells, of weights v, scaled by the weights of the cells of w
SharedFrom(o, area, w, v, sp, X) ==
    /\ SharesOut(area, w, sp) /\ SharesOut(area, v, sp) /\ DOMAIN v \in SUBSET (DOMAIN w)
    /\ X.M = Shares(o, area, v) /\ X.wM = [c \in DOMAIN w |-> area[c] * sp]

\* Where nothing changed nothing is corrected.
LEMMA NothingChanges ==
    ASSUME NEW X, NEW sp, Matrix(X.M), Matrix(ScaledX(X, sp))
    PROVE  LET C == E1vE0c(X, X, sp)
           IN  \A rc \in DOMAIN C.M : C.M[rc] = 0
<1> DEFINE S == ScaledX(X, sp)
           D == Difference(S, S)
           M1 == X.M
           T == Changes(M1, D)
           C == E1vE0c(X, X, sp)
<1>1. C.M = Accumulate(T)
  BY DEF E1vE0c, Changes
<1>0. Matrix(S)
  OBVIOUS
<1>2. Matrix(D) /\ \A rc \in DOMAIN D : D[rc] = 0
  <2> HIDE DEF S
  <2>1. Matrix(D)
    BY <1>0, DifferenceRow
  <2>2. \A rc \in DOMAIN D : At(S, rc) \in Int
    BY <1>0 DEF Matrix, At
  <2>3. \A rc \in DOMAIN D : D[rc] = At(S, rc) - At(S, rc)
    BY DEF Difference
  <2> HIDE DEF D
  <2>4. \A rc \in DOMAIN D : D[rc] = 0
    BY <2>2, <2>3
  <2> QED
    BY <2>1, <2>4
<1>3. \A rc \in DOMAIN M1 : M1[rc] \in Int
  BY DEF Matrix
<1> HIDE DEF D, M1, C
<1>4. Entries(T)
  <2>1. Matrix(M1)
    BY DEF M1
  <2> QED
    BY <1>2, <2>1, ChangesEntries
<1>5. \A t \in T : t[4] = 0
  <2> SUFFICES ASSUME NEW t \in T PROVE t[4] = 0
    OBVIOUS
  <2>1. PICK ab \in (DOMAIN M1) \X (DOMAIN D) :
            t = <<ab, ab[1][2], ab[2][2], M1[ab[1]] * D[ab[2]]>>
    BY DEF Changes
  <2>2. M1[ab[1]] \in Int /\ D[ab[2]] = 0
    BY <1>2, <1>3
  <2> QED
    BY <2>1, <2>2
<1> HIDE DEF T
<1>6. ASSUME NEW rc \in DOMAIN Accumulate(T) PROVE Accumulate(T)[rc] = 0
  <2> DEFINE G == {t \in T : PlaceOf(T)[t] = rc}
             f == [t \in G |-> t[4]]
  <2>1. Accumulate(T) = Tally(T, PlaceOf(T))
    BY AccumulateTally
  <2>2. Accumulate(T)[rc] = Total({t \in T : PlaceOf(T)[t] = rc})
    BY <2>1 DEF Tally
  <2>3. Total(G) = Sum(f, G) /\ IsFiniteSet(G) /\ \A t \in G : f[t] = 0
    BY <1>4, <1>5, FS_Subset DEF Total, Entries
  <2> HIDE DEF f
  <2>4. Total(G) = 0
    <3> HIDE DEF G
    <3> QED
      BY <2>3, SumZero
  <2> QED
    BY <2>2, <2>4 DEF G
<1>7. \A rc \in DOMAIN C.M : C.M[rc] = 0
  BY <1>1, <1>6
<1> QED
  BY <1>7 DEF C

\* A class is left alone whose exchange cells all were on land before.
LEMMA KeptRow ==
    ASSUME NEW o, NEW area, NEW sp,
           NEW w1, NEW v1, NEW X1, SharedFrom(o, area, w1, v1, sp, X1),
           NEW w0, NEW v0, NEW X0, SharedFrom(o, area, w0, v0, sp, X0),
           NEW e \in RowsOf(E1vE0c(X1, X0, sp).M),
           \A rc \in DOMAIN X1.M : rc[2] = e => rc[1] \in DOMAIN v0
    PROVE  RowSum(E1vE0c(X1, X0, sp).M)[e] = 0
<1> DEFINE S1 == ScaledX(X1, sp)
           S0 == ScaledX(X0, sp)
           D == Difference(S0, S1)
           M1 == X1.M
           T == Changes(M1, D)
           C == E1vE0c(X1, X0, sp).M
<1>1. C = Accumulate(T)
  BY DEF E1vE0c, Changes
<1>2. ScaledWell(o, v1, sp, S1) /\ ScaledWell(o, v0, sp, S0)
  <2>1. ScaledWell(o, v1, sp, ScaledX(X1, sp))
    BY ScaledShares DEF SharedFrom
  <2>2. ScaledWell(o, v0, sp, ScaledX(X0, sp))
    BY ScaledShares DEF SharedFrom
  <2> QED
    BY <2>1, <2>2
<1>3. DOMAIN M1 = PlacesOf(o, v1) /\ Matrix(M1) /\ sp \in Nat
  <2>1. SharesOut(area, v1, sp) /\ M1 = Shares(o, area, v1)
    BY DEF SharedFrom
  <2> HIDE DEF M1
  <2>2. sp \in Nat
    BY <2>1 DEF SharesOut
  <2>3. DOMAIN Shares(o, area, v1) = PlacesOf(o, v1) /\ Matrix(Shares(o, area, v1))
    BY <2>1, SharesPlaces
  <2> QED
    BY <2>1, <2>2, <2>3
<1>4. \A rc \in DOMAIN M1 : rc[2] = e => rc[1] \in DOMAIN v0
  OBVIOUS
<1>5. e \in RowsOf(C)
  OBVIOUS
<1> HIDE DEF S1, S0, M1, C
<1>6. Matrix(S0) /\ Matrix(S1)
  BY <1>2 DEF ScaledWell
<1>7. Matrix(D)
  BY <1>6, DifferenceRow
<1>8. ASSUME NEW rc \in DOMAIN M1, rc[2] = e
      PROVE  Sum(D, RowAt(D, rc[1])) = 0
  <2> DEFINE c == rc[1]
  <2>1. c \in DOMAIN v0
    BY <1>4, <1>8
  <2>2. c \in DOMAIN v1
    BY <1>3 DEF PlacesOf
  <2> HIDE DEF c
  <2>3. Sum(S0, RowAt(S0, c)) = sp /\ Sum(S1, RowAt(S1, c)) = sp
    BY <1>2, <2>1, <2>2 DEF ScaledWell
  <2>4. /\ Sum(D, RowAt(D, c)) \in Int
        /\ Sum(S0, RowAt(S0, c)) = Sum(D, RowAt(D, c)) + Sum(S1, RowAt(S1, c))
    BY <1>6, DifferenceRow
  <2> DEFINE d == Sum(D, RowAt(D, c))
  <2>5. d \in Int /\ sp = d + sp
    BY <2>3, <2>4
  <2> HIDE DEF d
  <2>6. d = 0
    BY <1>3, <2>5
  <2> QED
    BY <2>6 DEF c, d
<1> HIDE DEF D
<1>9. Total(ChangesOf(M1, D, e)) = 0
  BY <1>3, <1>7, <1>8, NeutralRow
<1>10. Entries(T)
  BY <1>3, <1>7, ChangesEntries
<1>11. RowSum(C) = Tally(T, RowIn(T))
  <2> HIDE DEF T
  <2> QED
    BY <1>1, <1>10, RowSumTally
<1>12. {t \in T : RowIn(T)[t] = e} = ChangesOf(M1, D, e)
  BY DEF RowIn, ChangesOf
<1>13. e \in DOMAIN RowSum(C)
  BY <1>5 DEF RowSum
<1> HIDE DEF T
<1>14. e \in {RowIn(T)[t] : t \in T}
  BY <1>11, <1>13 DEF Tally
<1>15. Tally(T, RowIn(T))[e] = Total({t \in T : RowIn(T)[t] = e})
  BY <1>14 DEF Tally
<1>16. RowSum(C)[e] = 0
  BY <1>9, <1>11, <1>12, <1>15
<1> QED
  BY <1>16 DEF C

-----------------------------------------------------------------------------
(* Weights of the classes that an exchange cell lies between *)

\* std::lower_bound() finds the class that is the first not below z.
LEMMA LowerBoundFirst ==
    ASSUME NEW hc, EvenClasses(hc), NEW z \in Int
    PROVE  LET b == LowerBound(hc, z)
           IN  /\ b \in 1..(Len(hc) + 1)
               /\ b \in 1..Len(hc) => hc[b] >= z
               /\ \A h \in 1..Len(hc) : h < b => hc[h] < z
<1> DEFINE n == Len(hc)
           L == {h \in DOMAIN hc : hc[h] >= z} \cup {Len(hc) + 1}
           b == LowerBound(hc, z)
<1>1. n \in Nat /\ DOMAIN hc = 1..n /\ \A h \in 1..n : hc[h] \in Int
  BY DEF EvenClasses
<1>2. b \in L /\ \A h \in L : b <= h
  <2>1. L \in SUBSET Int /\ L # {} /\ \A h \in L : 1 <= h
    BY <1>1
  <2>2. b = Min(L)
    BY DEF LowerBound
  <2> HIDE DEF L, b
  <2> QED
    BY <2>1, <2>2, MinBounded
<1>3. \A k \in L : k \in 1..(n + 1) /\ (k \in 1..n => hc[k] >= z)
  BY <1>1
<1>4. \A h \in 1..n : hc[h] >= z => h \in L
  BY <1>1
<1> HIDE DEF n, b, L
<1>5. b \in 1..(n + 1) /\ (b \in 1..n => hc[b] >= z)
  BY <1>2, <1>3
<1>6. ASSUME NEW h \in 1..n, h < b PROVE hc[h] < z
  <2>1. h \notin L
    BY <1>1, <1>2, <1>5, <1>6
  <2>2. ~(hc[h] >= z)
    BY <1>4, <2>1
  <2> QED
    BY <1>1, <2>2
<1> QED
  BY <1>5, <1>6 DEF n, b

ClassesShared(hc, w) == Sharing(w, Spacing(hc)) /\ DOMAIN w \in SUBSET (DOMAIN hc)

\* Within the classes, the weights that interpolate are positive, and none is missing.
LEMMA InterpolatedShares ==
    ASSUME NEW hc, EvenClasses(hc), NEW z \in Int, hc[1] <= z,
           ~OutOfBounds(hc, z)
    PROVE  ClassesShared(hc, Interpolated(hc, z))
<1> DEFINE n == Len(hc)
           sp == Spacing(hc)
           b == LowerBound(hc, z)
           h == Max({b, 2})
           ratio == z - hc[h - 1]
           low == sp - ratio
           w == [k \in {h - 1, h} |-> IF k = h THEN ratio ELSE low]
           N == {k \in DOMAIN w : w[k] # 0}
           v == Restrict(w, N)
<1>1. /\ n \in Nat /\ n >= 2 /\ DOMAIN hc = 1..n /\ \A k \in 1..n : hc[k] \in Int
      /\ sp \in Nat \ {0} /\ hc[1] <= z /\ hc[1] \in Int
      /\ \A k \in 1..(n - 1) : hc[k + 1] = hc[k] + sp
  BY DEF EvenClasses
<1>2. /\ b \in 1..(n + 1) /\ (b \in 1..n => hc[b] >= z)
      /\ \A k \in 1..n : k < b => hc[k] < z
  BY LowerBoundFirst
<1>3. b \in 1..n
  <2>1. ~(b > n)
    BY DEF OutOfBounds
  <2> HIDE DEF b, n
  <2> QED
    BY <1>1, <1>2, <2>1
<1>4. Interpolated(hc, z) = v
  BY DEF Interpolated
<1>5. h \in 2..n /\ (b = 1 => h = 2) /\ (b # 1 => h = b)
  <2> HIDE DEF b, n
  <2>1. {b, 2} \in SUBSET Int /\ {b, 2} # {} /\ \A y \in {b, 2} : y <= n
    BY <1>1, <1>3
  <2>2. n \in Int
    BY <1>1
  <2>3. Max({b, 2}) \in {b, 2} /\ \A y \in {b, 2} : y <= Max({b, 2})
    BY <2>1, <2>2, MaxBounded
  <2> QED
    BY <1>1, <1>3, <2>3
<1> DEFINE k == h - 1
<1> HIDE DEF h, b, n, sp
<1>6. k \in 1..n /\ h \in 1..n /\ k \in 1..(n - 1) /\ h = k + 1 /\ h # k
  BY <1>1, <1>5
<1>7. hc[k] \in Int /\ hc[h] \in Int /\ hc[h] = hc[k] + sp
  <2>1. hc[k + 1] = hc[k] + sp
    BY <1>1, <1>6
  <2> QED
    BY <1>1, <1>6, <2>1
<1>8. hc[k] <= z /\ z <= hc[h]
  <2>1. CASE b = 1
    <3>1. h = 2 /\ k = 1 /\ hc[1] >= z
      BY <1>2, <1>3, <1>5, <1>6, <2>1
    <3>2. hc[k] <= z
      BY <1>1, <3>1
    <3> QED
      BY <1>1, <1>7, <3>1, <3>2
  <2>2. CASE b # 1
    <3>1. h = b /\ k < b /\ hc[b] >= z
      BY <1>1, <1>2, <1>3, <1>5, <1>6, <2>2
    <3>2. hc[k] < z
      BY <1>2, <1>6, <3>1
    <3> QED
      BY <1>7, <3>1, <3>2
  <2> QED
    BY <2>1, <2>2
<1>9. ratio \in Nat /\ low \in Nat /\ low + ratio = sp
  <2> DEFINE p == hc[k]
             q == hc[h]
  <2>1. /\ p \in Int /\ q \in Int /\ q = p + sp /\ p <= z /\ z <= q /\ sp \in Int
        /\ ratio = z - p /\ low = sp - (z - p)
    BY <1>1, <1>7, <1>8
  <2> HIDE DEF ratio, low, p, q, k
  <2> QED
    BY <2>1
<1>10. w[k] = low /\ w[h] = ratio /\ DOMAIN w = {k, h}
  <2> HIDE DEF ratio, low
  <2> QED
    BY <1>6
<1> HIDE DEF ratio, low, k, w
<1>11. /\ IsFiniteSet({k, h}) /\ Ints(w, {k, h}) /\ Sum(w, {k, h}) = w[k] + w[h]
  <2>1. k # h /\ w[k] \in Int /\ w[h] \in Int
    BY <1>6, <1>9, <1>10
  <2> QED
    BY <2>1, SumTwo
<1>12. DOMAIN v = N /\ \A j \in N : v[j] = w[j]
  BY DEF Restrict
<1>13. Sum(v, N) = Sum(w, {k, h})
  <2>1. N = {j \in {k, h} : w[j] # 0}
    BY <1>10
  <2> HIDE DEF v, N
  <2> QED
    BY <1>11, <1>12, <2>1, SumNonzero
<1>14. IsFiniteSet(N) /\ N \in SUBSET (1..n)
  BY <1>6, <1>10, <1>11, FS_Subset
<1>15. \A j \in N : w[j] \in Nat \ {0}
  BY <1>9, <1>10
<1> HIDE DEF v, N
<1>16. Sharing(v, sp)
  BY <1>9, <1>10, <1>11, <1>12, <1>13, <1>14, <1>15 DEF Sharing
<1>17. ClassesShared(hc, v)
  BY <1>1, <1>12, <1>14, <1>16 DEF ClassesShared, sp
<1> QED
  BY <1>4, <1>17

\* The nearest class is one of the classes.
LEMMA NearestShares ==
    ASSUME NEW hc, EvenClasses(hc), NEW z \in Int
    PROVE  ClassesShared(hc, [h \in {NearestClass(hc, z)} |-> Spacing(hc)])
<1> DEFINE n == Len(hc)
           b == LowerBound(hc, z)
           k == NearestClass(hc, z)
           sp == Spacing(hc)
           w == [h \in {k} |-> sp]
<1>1. n \in Nat /\ n >= 2 /\ DOMAIN hc = 1..n /\ sp \in Nat \ {0}
  BY DEF EvenClasses
<1>2. b \in 1..(n + 1)
  BY LowerBoundFirst
<1>3. k \in 1..n
  <2>1. k = IF b = 1 THEN 1
            ELSE IF b > n THEN n
            ELSE IF z - hc[b - 1] <= hc[b] - z THEN b - 1
            ELSE b
    BY DEF NearestClass
  <2> HIDE DEF k, b, n
  <2> QED
    BY <1>1, <1>2, <2>1
<1> HIDE DEF n, b, k, sp
<1>4. DOMAIN w = {k} /\ w[k] = sp
  OBVIOUS
<1> HIDE DEF w
<1>5. IsFiniteSet({k}) /\ IsFiniteSet({})
  BY FS_Singleton, FS_EmptySet
<1>6. Sum(w, {k}) = sp
  <2>1. Sum(w, {k}) = w[k] + Sum(w, {k} \ {k})
    <3>1. Ints(w, {k})
      BY <1>1, <1>4 DEF Ints
    <3> QED
      BY <1>5, <3>1, SumRemove
  <2>2. {k} \ {k} = {} /\ Sum(w, {}) = 0
    BY SumEmpty
  <2>3. Sum(w, {k}) = sp + 0
    BY <1>4, <2>1, <2>2
  <2> QED
    BY <1>1, <2>3
<1>7. Sharing(w, sp)
  BY <1>1, <1>4, <1>5, <1>6 DEF Sharing
<1>8. ClassesShared(hc, w)
  BY <1>1, <1>3, <1>4, <1>7 DEF ClassesShared, sp
<1> QED
  BY <1>8 DEF w, k, sp

-----------------------------------------------------------------------------
(* The sheet that the programs make *)

\* A positive factor does not shrink a number.
LEMMA FactorGrows ==
    ASSUME NEW n \in Nat, NEW s \in Nat \ {0}
    PROVE  n * s \in Nat /\ n <= n * s
<1>1. n * 0 + n <= n * s
  BY MultLess
<1>2. n * 0 = 0
  OBVIOUS
<1> QED
  BY <1>1, <1>2

\* Between the poles, the sine that the model takes grows by at least as much as the latitude.
LEMMA SineSteep ==
    ASSUME NEW y0 \in Int, NEW y1 \in Int, -Quadrant <= y0, y0 < y1, y1 <= Quadrant
    PROVE  Sine(y1) - Sine(y0) \in Int /\ y1 - y0 <= Sine(y1) - Sine(y0)
<1> DEFINE q == Quadrant
<1>1. q \in Nat \ {0} /\ -q <= y0 /\ y1 <= q
  BY QuadrantIn
<1>2. /\ Sine(y1) = y1 * (2 * q - (IF y1 < 0 THEN -y1 ELSE y1))
      /\ Sine(y0) = y0 * (2 * q - (IF y0 < 0 THEN -y0 ELSE y0))
  BY DEF Sine
<1> HIDE DEF q
<1> DEFINE d == y1 - y0
<1>3. d \in Nat
  OBVIOUS
<1>4. CASE y0 >= 0
  <2> DEFINE s == 2 * q - (y1 + y0)
  <2>1. s \in Nat \ {0}
    BY <1>1, <1>4
  <2>2. Sine(y1) - Sine(y0) = d * s
    <3>1. Sine(y1) = y1 * (2 * q - y1) /\ Sine(y0) = y0 * (2 * q - y0)
      BY <1>2, <1>4
    <3>2. y1 * (2 * q - y1) - y0 * (2 * q - y0) = (y1 - y0) * (2 * q - (y1 + y0))
      BY <1>1
    <3> QED
      BY <3>1, <3>2
  <2> HIDE DEF d, s
  <2>3. d * s \in Nat /\ d <= d * s
    BY <1>3, <2>1, FactorGrows
  <2> QED
    BY <2>2, <2>3 DEF d
<1>5. CASE y1 <= 0
  <2> DEFINE s == 2 * q + (y1 + y0)
  <2>1. s \in Nat \ {0}
    BY <1>1, <1>5
  <2>2. Sine(y1) - Sine(y0) = d * s
    <3>1. Sine(y1) = y1 * (2 * q + y1)
      <4>1. CASE y1 = 0
        BY <1>1, <1>2, <4>1
      <4>2. CASE y1 # 0
        BY <1>1, <1>2, <1>5, <4>2
      <4> QED
        BY <4>1, <4>2
    <3>2. Sine(y0) = y0 * (2 * q + y0)
      BY <1>1, <1>2, <1>5
    <3>3. y1 * (2 * q + y1) - y0 * (2 * q + y0) = (y1 - y0) * (2 * q + (y1 + y0))
      BY <1>1
    <3> QED
      BY <3>1, <3>2, <3>3
  <2> HIDE DEF d, s
  <2>3. d * s \in Nat /\ d <= d * s
    BY <1>3, <2>1, FactorGrows
  <2> QED
    BY <2>2, <2>3 DEF d
<1>6. CASE y0 < 0 /\ y1 > 0
  <2> DEFINE n == -y0
             s == 2 * q - y1
             t == 2 * q - n
  <2>1. y1 \in Nat /\ n \in Nat /\ s \in Nat \ {0} /\ t \in Nat \ {0} /\ d = y1 + n
    BY <1>1, <1>6
  <2>2. Sine(y1) = y1 * s /\ Sine(y0) = y0 * t
    BY <1>2, <1>6
  <2>3. y0 * t = -(n * t)
    BY <2>1
  <2> HIDE DEF d, n, s, t
  <2>4. y1 * s \in Nat /\ y1 <= y1 * s /\ n * t \in Nat /\ n <= n * t
    BY <2>1, FactorGrows
  <2>5. Sine(y1) - Sine(y0) \in Int /\ d <= Sine(y1) - Sine(y0)
    <3> DEFINE u == y1 * s
               v == n * t
    <3>1. Sine(y1) = u /\ Sine(y0) = -v /\ u \in Nat /\ v \in Nat /\ y1 <= u /\ n <= v
      BY <2>2, <2>3, <2>4
    <3> HIDE DEF u, v
    <3> QED
      BY <2>1, <3>1
  <2> QED
    BY <2>5 DEF d
<1> QED
  BY <1>4, <1>5, <1>6

\* Cells that have an extent on the map are no larger there than on the sphere.
Shrinks(c) ==
    c.x0 < c.x1 /\ c.y0 < c.y1 =>
        MapArea(c) \in Nat \ {0} /\ c.native \in Nat /\ MapArea(c) <= c.native

\* So it is with every cell between the poles.
LEMMA SphereShrinks ==
    ASSUME NEW x0 \in Int, NEW x1 \in Int, NEW y0 \in Int, NEW y1 \in Int,
           -Quadrant <= y0, y1 <= Quadrant
    PROVE  Shrinks(OnSphere(x0, x1, y0, y1))
<1> DEFINE c == OnSphere(x0, x1, y0, y1)
           w == x1 - x0
           v == y1 - y0
           u == Sine(y1) - Sine(y0)
<1>1. /\ c.x0 = x0 /\ c.x1 = x1 /\ c.y0 = y0 /\ c.y1 = y1 /\ c.native = w * u
      /\ MapArea(c) = w * v
  BY DEF OnSphere, SphereArea, MapArea
<1>2. ASSUME x0 < x1, y0 < y1
      PROVE  w * v \in Nat \ {0} /\ w * u \in Nat /\ w * v <= w * u
  <2>1. w \in Nat \ {0} /\ v \in Nat \ {0} /\ u \in Int /\ v <= u
    BY <1>2, SineSteep
  <2> DEFINE r == u - v
  <2>2. r \in Nat /\ u = v + r
    BY <2>1
  <2> HIDE DEF w, v, u, r
  <2>3. w * v \in Nat \ {0} /\ w * r \in Nat /\ w * u = w * v + w * r
    BY <2>1, <2>2
  <2> DEFINE m == w * v
             n == w * r
  <2>4. m \in Nat \ {0} /\ n \in Nat /\ w * u = m + n
    BY <2>3
  <2> HIDE DEF m, n
  <2>5. w * u \in Nat /\ m <= w * u
    BY <2>4
  <2> QED
    BY <2>3, <2>5 DEF m
<1> HIDE DEF c, w, v, u
<1> QED
  BY <1>1, <1>2 DEF Shrinks, c

\* The cells of the ocean grid shrink, if they lie between the poles.
LEMMA LonLatShrinks ==
    ASSUME WithinPoles, NEW g \in Specs, NEW caps \in Caps, NEW zone
    PROVE  \A p \in DOMAIN LonLatGrid(g, caps, zone) : Shrinks(LonLatGrid(g, caps, zone)[p])
<1> DEFINE all == LonLatCells(g, caps)
           shift == IF caps THEN 1 ELSE 0
           rows == 2 * HalfRows(g, caps)
           west == LonB(g, 0)
           east == LonB(g, g.im)
           north == <<g.im - 1, NLat(g, caps)>>
           south == <<0, 0>>
           B == (0..(g.im - 1)) \X (shift..(rows + shift - 1))
           D == B \cup (IF caps THEN {north, south} ELSE {})
<1>1. g \in LonLatSpecs /\ caps \in BOOLEAN
  BY ExchangeAssumption DEF LonLatSpecs
<1>2. all = [p \in D |->
            IF caps /\ p = north THEN OnSphere(west, east, LatB(g, caps, rows), Quadrant)
            ELSE IF caps /\ p = south THEN OnSphere(west, east, -Quadrant, LatB(g, caps, 0))
            ELSE OnSphere(LonB(g, p[1]), LonB(g, p[1] + 1),
                          LatB(g, caps, p[2] - shift), LatB(g, caps, p[2] - shift + 1))]
  BY DEF LonLatCells
<1>3. /\ g.im \in Int /\ shift \in Int /\ rows \in Int /\ west \in Int /\ east \in Int
      /\ \A j \in Int : LatB(g, caps, j) \in Int
      /\ \A i \in Int : LonB(g, i) \in Int
  BY <1>1, Boundaries DEF LonLatSpecs
<1>4. Quadrant \in Int /\ -Quadrant \in Int
  BY QuadrantIn
<1>5. \A p \in DOMAIN all : -Quadrant <= all[p].y0 /\ all[p].y1 <= Quadrant
  BY DEF WithinPoles
<1> HIDE DEF all, shift, rows, west, east, north, south
<1>6. ASSUME NEW x0 \in Int, NEW x1 \in Int, NEW y0 \in Int, NEW y1 \in Int,
             NEW p \in DOMAIN all, all[p] = OnSphere(x0, x1, y0, y1)
      PROVE  Shrinks(all[p])
  <2>1. all[p].y0 = y0 /\ all[p].y1 = y1
    BY <1>6 DEF OnSphere
  <2>2. -Quadrant <= y0 /\ y1 <= Quadrant
    BY <1>5, <2>1
  <2> QED
    BY <1>6, <2>2, SphereShrinks
<1>7. ASSUME NEW p \in DOMAIN all PROVE Shrinks(all[p])
  <2>1. p \in D
    BY <1>2
  <2>2. CASE caps /\ p = north
    <3>1. all[p] = OnSphere(west, east, LatB(g, caps, rows), Quadrant)
      BY <1>2, <2>1, <2>2
    <3> QED
      BY <1>3, <1>4, <1>6, <3>1
  <2>3. CASE ~(caps /\ p = north) /\ caps /\ p = south
    <3>1. all[p] = OnSphere(west, east, -Quadrant, LatB(g, caps, 0))
      BY <1>2, <2>1, <2>3
    <3> QED
      BY <1>3, <1>4, <1>6, <3>1
  <2>4. CASE ~(caps /\ p = north) /\ ~(caps /\ p = south)
    <3>1. all[p] = OnSphere(LonB(g, p[1]), LonB(g, p[1] + 1),
                            LatB(g, caps, p[2] - shift), LatB(g, caps, p[2] - shift + 1))
      BY <1>2, <2>1, <2>4
    <3>2. p \in B
      BY <2>1, <2>4
    <3>3. p[1] \in Int /\ p[1] + 1 \in Int /\ p[2] - shift \in Int /\ p[2] - shift + 1 \in Int
      BY <1>3, <3>2
    <3>4. /\ LonB(g, p[1]) \in Int /\ LonB(g, p[1] + 1) \in Int
          /\ LatB(g, caps, p[2] - shift) \in Int /\ LatB(g, caps, p[2] - shift + 1) \in Int
      BY <1>3, <3>3
    <3> QED
      BY <1>6, <3>1, <3>4
  <2> QED
    BY <2>2, <2>3, <2>4
<1>8. \A p \in DOMAIN LonLatGrid(g, caps, zone) :
          p \in DOMAIN all /\ LonLatGrid(g, caps, zone)[p] = all[p]
  BY DEF LonLatGrid, Restrict, all
<1> QED
  BY <1>7, <1>8

\* A sheet on its grids
SheetOn(sh, gO, gI) ==
    /\ SheetGood(sh)
    /\ \A c \in sh.x.cells : sh.x.a[c] \in DOMAIN gO /\ sh.x.i[c] \in DOMAIN gI

\* Cells that have something in common have an extent.
LEMMA MeetExtent ==
    ASSUME NEW p \in Rectangles, NEW q \in Rectangles, Meet(p, q)
    PROVE  p.x0 < p.x1 /\ p.y0 < p.y1
<1>1. ASSUME NEW a \in Int, NEW b \in Int, NEW c \in Int, NEW d \in Int, InCommon(a, b, c, d) > 0
      PROVE  a < b
  <2>1. {b, d} \in SUBSET Int /\ {a, c} \in SUBSET Int /\ {b, d} # {} /\ {a, c} # {}
        /\ IsFiniteSet({b, d}) /\ IsFiniteSet({a, c})
    BY PairFinite
  <2>2. Min({b, d}) \in {b, d} /\ \A y \in {b, d} : Min({b, d}) <= y
    BY <2>1, MinMaxIn
  <2>3. Max({a, c}) \in {a, c} /\ \A y \in {a, c} : y <= Max({a, c})
    BY <2>1, MinMaxIn
  <2>4. Min({b, d}) - Max({a, c}) > 0
    BY <1>1 DEF InCommon
  <2> DEFINE m == Min({b, d})
             n == Max({a, c})
  <2>5. m \in Int /\ n \in Int /\ m <= b /\ a <= n /\ m - n > 0
    BY <2>2, <2>3, <2>4
  <2> HIDE DEF m, n
  <2> QED
    BY <2>5
<1>2. /\ p.x0 \in Int /\ p.x1 \in Int /\ p.y0 \in Int /\ p.y1 \in Int
      /\ q.x0 \in Int /\ q.x1 \in Int /\ q.y0 \in Int /\ q.y1 \in Int
  BY DEF Rectangles
<1>3. InCommon(p.x0, p.x1, q.x0, q.x1) > 0 /\ InCommon(p.y0, p.y1, q.y0, q.y1) > 0
  BY DEF Meet
<1> QED
  BY <1>1, <1>2, <1>3

\* What the IceRegridder has of the exchange grid that overlap wrote
MadeSheet(gO, gI, style) ==
    [x |-> ExchangeOf(RenumberedFileOf(ExchangeCells(gO, gI))),
     geom |-> AreasOf(gO, "stere"), style |-> style]

\* It is what the two grids have in common.
LEMMA SheetMade ==
    ASSUME NEW gO, GridAt(gO), NEW gI, GridAt(gI), \A p \in DOMAIN gO : Shrinks(gO[p]), NEW style
    PROVE  SheetOn(MadeSheet(gO, gI, style), gO, gI)
<1> DEFINE E == ExchangeCells(gO, gI)
           X == Exchange(gO, gI)
           file == RenumberedFileOf(E)
           x == ExchangeOf(file)
           geom == AreasOf(gO, "stere")
           sh == MadeSheet(gO, gI, style)
<1>1. GoodGrid(gO) /\ GoodGrid(gI)
  BY DEF GridAt
<1>2. /\ GoodGrid(E) /\ DOMAIN E = X.cells
      /\ \A c \in X.cells : /\ c[1] \in DOMAIN gO /\ c[2] \in DOMAIN gI
                            /\ E[c].native = X.area[c] /\ X.area[c] \in Nat \ {0}
  BY <1>1, ExchangeCellsGood
<1>3. ReadGrid(file) = E
  BY <1>2, ReadRenumbered
<1>4. \A c \in X.cells : Meet(gO[c[1]], gI[c[2]])
  BY DEF Exchange
<1> HIDE DEF E, X, file
<1>5. /\ x.cells = DOMAIN E
      /\ \A c \in x.cells : x.a[c] = c[1] /\ x.i[c] = c[2] /\ x.area[c] = E[c].native
  <2> DEFINE n(c) == CHOOSE k \in DOMAIN file.cells_ijk : file.cells_ijk[k] = c
             C == Range(file.cells_ijk)
             cell(k) == LET p == Polygon(file, k)
                        IN  [x0 |-> p[1][1], y0 |-> p[1][2], x1 |-> p[3][1], y1 |-> p[3][2],
                             native |-> file.native_area[k]]
  <2>1. x = [cells |-> C, a |-> [c \in C |-> c[1]], i |-> [c \in C |-> c[2]],
             area |-> [c \in C |-> file.native_area[n(c)]]]
    BY DEF ExchangeOf
  <2>2. ReadGrid(file) = [c \in C |-> cell(n(c))]
    BY DEF ReadGrid
  <2>3. \A k : cell(k).native = file.native_area[k]
    OBVIOUS
  <2> HIDE DEF x, C, n, cell
  <2>4. DOMAIN E = C /\ \A c \in C : E[c].native = file.native_area[n(c)]
    BY <1>3, <2>2, <2>3
  <2> QED
    BY <2>1, <2>4
<1>6. /\ \A p \in DOMAIN gO : geom.native[p] = gO[p].native /\ geom.proj[p] = MapArea(gO[p])
  BY DEF AreasOf
<1>7. sh.x = x /\ sh.geom = geom
  BY DEF MadeSheet, file, E
<1> HIDE DEF x, geom, sh
<1>8. IsFiniteSet(x.cells)
  BY <1>2, <1>5 DEF GoodGrid
<1>9. ASSUME NEW c \in x.cells
      PROVE  /\ x.area[c] \in Nat \ {0} /\ x.a[c] \in DOMAIN gO /\ x.i[c] \in DOMAIN gI
             /\ geom.proj[x.a[c]] \in Nat \ {0} /\ geom.native[x.a[c]] \in Nat
             /\ geom.proj[x.a[c]] <= geom.native[x.a[c]]
  <2>1. /\ c \in X.cells /\ x.a[c] = c[1] /\ x.i[c] = c[2] /\ x.area[c] = E[c].native
    BY <1>2, <1>5
  <2> DEFINE p == gO[c[1]]
             q == gI[c[2]]
  <2>2. /\ c[1] \in DOMAIN gO /\ c[2] \in DOMAIN gI /\ x.area[c] \in Nat \ {0} /\ Meet(p, q)
    BY <1>2, <1>4, <2>1
  <2>3. p \in Rectangles /\ q \in Rectangles /\ Shrinks(p)
    BY <1>1, <2>2 DEF GoodGrid
  <2>4. geom.native[c[1]] = p.native /\ geom.proj[c[1]] = MapArea(p)
    BY <1>6, <2>2
  <2> HIDE DEF p, q
  <2>5. MapArea(p) \in Nat \ {0} /\ p.native \in Nat /\ MapArea(p) <= p.native
    BY <2>2, <2>3, MeetExtent DEF Shrinks
  <2> QED
    BY <2>1, <2>2, <2>4, <2>5
<1>10. SheetOn(sh, gO, gI)
  BY <1>7, <1>8, <1>9 DEF SheetOn, SheetGood
<1> QED
  BY <1>10 DEF sh

\* An elevation that is not below sea level
LEMMA MaxWithZero ==
    ASSUME NEW e \in Int
    PROVE  Max({e, 0}) \in Int /\ 0 <= Max({e, 0})
<1>1. {e, 0} \in SUBSET Int /\ {e, 0} # {}
  OBVIOUS
<1>2. IsFiniteSet({e, 0})
  BY PairFinite
<1>3. Max({e, 0}) \in {e, 0} /\ \A y \in {e, 0} : y <= Max({e, 0})
  BY <1>1, <1>2, MinMaxIn
<1> QED
  BY <1>1, <1>3

\* Where GvEp() does not fail, matrices of the classes can be made.
LEMMA GroundMade ==
    ASSUME LandElevations, NEW gO, NEW gI, NEW sh, SheetOn(sh, gO, gI), sh.style \in Styles,
           NEW elev, \A i \in DOMAIN elev : i \in DOMAIN gI => elev[i] \in Int,
           ~GvEpFails(sh.x, elev, Hcdefs, sh.style),
           OceansOn(DOMAIN gO), NEW ocean \in Oceans(DOMAIN gO)
    PROVE  Ground(sh, elev, Hcdefs, ocean.op, ocean.om, Spacing(Hcdefs))
<1> DEFINE w == ClassesOf(sh, elev, Hcdefs)
           sp == Spacing(Hcdefs)
           area == sh.x.area
           level(c) == Max({elev[sh.x.i[c]], 0})
<1>1. SheetGood(sh) /\ \A c \in sh.x.cells : sh.x.a[c] \in DOMAIN gO /\ sh.x.i[c] \in DOMAIN gI
  BY DEF SheetOn
<1>2. CoastGood(sh, ocean.op, ocean.om)
  BY <1>1 DEF OceansOn, CoastGood
<1>3. /\ DOMAIN w = UsedX(sh.x, elev) /\ DOMAIN w \in SUBSET sh.x.cells
      /\ \A c \in DOMAIN w : w[c] = ClassWeights(Hcdefs, sh.style, level(c))
      /\ \A c \in DOMAIN w : sh.x.i[c] \in DOMAIN elev
  BY DEF ClassesOf, UsedX
<1>4. sp \in Nat \ {0} /\ EvenClasses(Hcdefs) /\ Hcdefs[1] <= 0 /\ Hcdefs[1] \in Int
  BY DEF LandElevations, EvenClasses
<1>5. ASSUME NEW c \in DOMAIN w
      PROVE  /\ area[c] \in Nat \ {0} /\ Sharing(w[c], sp)
             /\ DOMAIN w[c] \in SUBSET (DOMAIN Hcdefs)
  <2>1. area[c] \in Nat \ {0}
    BY <1>1, <1>3 DEF SheetGood
  <2>2. elev[sh.x.i[c]] \in Int
    BY <1>1, <1>3
  <2> DEFINE e == elev[sh.x.i[c]]
             z == level(c)
  <2>3. z \in Int /\ Hcdefs[1] <= z
    <3>0. e \in Int
      BY <2>2
    <3> HIDE DEF e
    <3>3. Max({e, 0}) \in Int /\ 0 <= Max({e, 0})
      BY <3>0, MaxWithZero
    <3>4. z = Max({e, 0})
      BY DEF e
    <3> HIDE DEF z
    <3> QED
      BY <1>4, <3>3, <3>4
  <2>4. sh.style = "Z_INTERP" => ~OutOfBounds(Hcdefs, z)
    BY <1>3 DEF GvEpFails
  <2>5. w[c] = ClassWeights(Hcdefs, sh.style, z)
    BY <1>3
  <2>6. sh.style \in {"Z_INTERP", "ELEV_CLASS_INTERP"}
    BY ExchangeAssumption
  <2> HIDE DEF z, w
  <2>7. ClassesShared(Hcdefs, w[c])
    <3>1. CASE sh.style = "Z_INTERP"
      <4>1. w[c] = Interpolated(Hcdefs, z)
        BY <2>5, <3>1 DEF ClassWeights
      <4>2. ClassesShared(Hcdefs, Interpolated(Hcdefs, z))
        BY <1>4, <2>3, <2>4, <3>1, InterpolatedShares
      <4> QED
        BY <4>1, <4>2
    <3>2. CASE sh.style # "Z_INTERP"
      <4> DEFINE f == [h \in {NearestClass(Hcdefs, z)} |-> Spacing(Hcdefs)]
      <4>1. w[c] = f
        BY <2>5, <3>2 DEF ClassWeights
      <4>2. ClassesShared(Hcdefs, f)
        BY <1>4, <2>3, NearestShares
      <4> HIDE DEF f
      <4> QED
        BY <4>1, <4>2
    <3> QED
      BY <3>1, <3>2
  <2> QED
    BY <2>1, <2>7 DEF ClassesShared
<1>6. IsFiniteSet(DOMAIN w)
  BY <1>1, <1>3, FS_Subset DEF SheetGood
<1> HIDE DEF w
<1>7. SharesOut(area, w, sp) /\ ClassesAmong(w, Hcdefs)
  BY <1>4, <1>5, <1>6 DEF SharesOut, ClassesAmong
<1> QED
  BY <1>1, <1>2, <1>7 DEF Ground, w

-----------------------------------------------------------------------------
(* Ground, at every time *)

GroundOf(i) == Ground(sheet, i.elev, Hcdefs, i.op, i.om, Spacing(Hcdefs))

\* Inductive: the sheet is made of what the grids have in common, and the matrices, and those
\* of the coupling before, of ice that lies on it.
GroundInv ==
    /\ phase = "grids" => (\A p \in DOMAIN gridO : Shrinks(gridO[p])) /\ OceansOn(DOMAIN gridO)
    /\ phase \in {"overlap", "ready"} =>
         SheetOn(sheet, gridO, gridI) /\ sheet.style \in Styles /\ OceansOn(DOMAIN gridO)
    /\ matrices # None => phase \in {"ready", "failed"} /\ GroundOf(ice)
    /\ corr # None =>
         phase \in {"ready", "failed"} /\ GroundOf(ice) /\ GroundOf(before)

\* A coupling, of ice and an ocean that matrices of the classes can be made of
CouplesWith(elev, ocean) ==
    /\ CoupledWith(elev, ocean, UrO(sheet, elev, Hcdefs, sheet.style), IceInput)
    /\ Ground(sheet, elev, Hcdefs, ocean.op, ocean.om, Spacing(Hcdefs))

\* A coupling that does not fail is one of those.
LEMMA CoupledGround ==
    ASSUME LandElevations
    PROVE  GridsInv /\ GroundInv /\ Couple /\ ~(UNCHANGED coupled /\ phase' = "failed")
           => \E elev, ocean : CouplesWith(elev, ocean)
<1> SUFFICES ASSUME GridsInv, GroundInv, Couple, ~(UNCHANGED coupled /\ phase' = "failed")
             PROVE  \E elev, ocean : CouplesWith(elev, ocean)
  OBVIOUS
<1>0. phase = "ready"
  BY DEF Couple
<1>1. PICK mask \in IceMasks(DOMAIN gridI), ocean \in Oceans(DOMAIN gridO), z \in Elevations :
          LET elev == [i \in mask |-> z[(i[1] + i[2]) % 2]]
          IN  /\ ~GvEpFails(sheet.x, elev, Hcdefs, sheet.style)
              /\ CoupledWith(elev, ocean, UrO(sheet, elev, Hcdefs, sheet.style), IceInput)
  BY DEF Couple
<1> DEFINE elev == [i \in mask |-> z[(i[1] + i[2]) % 2]]
<1>2. /\ ~GvEpFails(sheet.x, elev, Hcdefs, sheet.style)
      /\ CoupledWith(elev, ocean, UrO(sheet, elev, Hcdefs, sheet.style), IceInput)
  BY <1>1
<1>3. \A i \in DOMAIN elev : i \in DOMAIN gridI => elev[i] \in Int
  <2> SUFFICES ASSUME NEW i \in mask, i \in DOMAIN gridI PROVE elev[i] \in Int
    OBVIOUS
  <2>1. i \in Points
    BY <1>0 DEF GridsInv, GridAt
  <2>2. i[1] + i[2] \in Int
    BY <2>1 DEF Points
  <2>3. (i[1] + i[2]) % 2 \in {0, 1}
    <3> DEFINE n == i[1] + i[2]
    <3>0. n \in Int /\ 2 \in Nat \ {0}
      BY <2>2
    <3> HIDE DEF n
    <3>1. n % 2 \in 0..(2 - 1)
      BY <3>0, DivModInt
    <3>2. n % 2 \in {0, 1}
      BY <3>1
    <3> QED
      BY <3>2 DEF n
  <2>4. z[0] \in Int /\ z[1] \in Int
    BY DEF LandElevations
  <2> QED
    BY <2>3, <2>4
<1>4. SheetOn(sheet, gridO, gridI) /\ sheet.style \in Styles /\ OceansOn(DOMAIN gridO)
  BY <1>0 DEF GroundInv
<1> HIDE DEF elev
<1>5. Ground(sheet, elev, Hcdefs, ocean.op, ocean.om, Spacing(Hcdefs))
  BY <1>2, <1>3, <1>4, GroundMade
<1>6. CouplesWith(elev, ocean)
  BY <1>2, <1>5 DEF CouplesWith
<1> QED
  BY <1>6

\* Every step keeps the invariant.
LEMMA GroundKept ==
    ASSUME LandElevations, OceanFractions, WithinPoles
    PROVE  GridsInv /\ GroundInv /\ [Next]_vars => GroundInv'
<1> SUFFICES ASSUME GridsInv, GroundInv, [Next]_vars PROVE GroundInv'
  OBVIOUS
<1>0. ASSUME UNCHANGED <<phase, gridO, gridI, sheet, matrices, corr, ice, before>>
      PROVE  GroundInv'
  BY <1>0 DEF GroundInv, GroundOf
<1>1. CASE RegridTool
  BY <1>0, <1>1 DEF RegridTool, coupled
<1>2. CASE MakeGrids
  <2>0. phase = "start" /\ UNCHANGED <<matrices, corr>>
    BY <1>2 DEF MakeGrids, coupled
  <2>1. matrices' = None /\ corr' = None
    BY <2>0 DEF GroundInv
  <2>2. CASE phase' = "failed"
    BY <2>1, <2>2 DEF GroundInv
  <2>3. CASE phase' # "failed"
    <3>1. PICK g \in Specs, caps \in Caps, zone \in Zones :
              phase' = "grids" /\ gridO' = LonLatGrid(g, caps, zone)
      BY <1>2, <2>3 DEF MakeGrids
    <3> DEFINE G == LonLatGrid(g, caps, zone)
    <3>2. (\A p \in DOMAIN G : Shrinks(G[p])) /\ OceansOn(DOMAIN G)
      BY LonLatShrinks DEF OceanFractions
    <3>3. gridO' = G
      BY <3>1
    <3> HIDE DEF G
    <3>4. (\A p \in DOMAIN gridO' : Shrinks(gridO'[p])) /\ OceansOn(DOMAIN gridO')
      BY <3>2, <3>3
    <3> QED
      BY <2>1, <3>1, <3>4 DEF GroundInv, Shrinks, OceansOn
  <2> QED
    BY <2>2, <2>3
<1>3. CASE OverlapGrids
  <2>0. phase = "grids" /\ UNCHANGED <<matrices, corr, gridO, gridI>>
    BY <1>3 DEF OverlapGrids, coupled
  <2>1. matrices' = None /\ corr' = None
    BY <2>0 DEF GroundInv
  <2>2. CASE phase' = "failed"
    BY <2>1, <2>2 DEF GroundInv
  <2>3. CASE phase' # "failed"
    <3>1. PICK style \in Styles, sproj \in {"", "stere"} :
              /\ ~ProjectionsFail("", sproj) /\ phase' = "overlap"
              /\ files' = OverlapFile(ReadGrid(files.gridA), ReadGrid(files.gridI))
              /\ sheet' = [x |-> ExchangeOf(files'.exgrid),
                           geom |-> AreasOf(ReadGrid(files'.gridA), sproj), style |-> style]
      BY <1>3, <2>3 DEF OverlapGrids
    <3>2. GridAt(gridO) /\ GridAt(gridI)
          /\ ReadGrid(files.gridA) = gridO /\ ReadGrid(files.gridI) = gridI
      BY <2>0, ReadFile DEF GridsInv
    <3>3. files' = [gridA |-> FileOf(gridO), gridI |-> FileOf(gridI),
                    exgrid |-> RenumberedFileOf(ExchangeCells(gridO, gridI))]
      BY <3>1, <3>2 DEF OverlapFile, FileOf, RenumberedFileOf
    <3>4. ReadGrid(files'.gridA) = gridO
      BY <3>2, <3>3, ReadFile
    <3>5. sproj = "stere"
      BY <3>1 DEF ProjectionsFail
    <3>6. sheet' = MadeSheet(gridO, gridI, style)
      <4>1. files'.exgrid = RenumberedFileOf(ExchangeCells(gridO, gridI))
        BY <3>3
      <4>2. sheet' = [x |-> ExchangeOf(files'.exgrid),
                      geom |-> AreasOf(ReadGrid(files'.gridA), sproj), style |-> style]
        BY <3>1
      <4> QED
        BY <3>4, <3>5, <4>1, <4>2 DEF MadeSheet
    <3>7. /\ SheetOn(MadeSheet(gridO, gridI, style), gridO, gridI)
          /\ MadeSheet(gridO, gridI, style).style = style
          /\ OceansOn(DOMAIN gridO)
      <4>1. \A p \in DOMAIN gridO : Shrinks(gridO[p])
        BY <2>0 DEF GroundInv
      <4>2. SheetOn(MadeSheet(gridO, gridI, style), gridO, gridI)
        BY <3>2, <4>1, SheetMade
      <4>3. OceansOn(DOMAIN gridO)
        BY <2>0 DEF GroundInv
      <4>4. MadeSheet(gridO, gridI, style).style = style
        BY DEF MadeSheet
      <4> QED
        BY <4>2, <4>3, <4>4
    <3>8. SheetOn(sheet', gridO', gridI') /\ sheet'.style \in Styles /\ OceansOn(DOMAIN gridO')
      BY <2>0, <3>6, <3>7
    <3>9. phase' = "overlap"
      BY <3>1
    <3> QED
      BY <2>1, <3>8, <3>9 DEF GroundInv, SheetOn, SheetGood, OceansOn
  <2> QED
    BY <2>2, <2>3
<1>4. CASE NewRegridder
  <2>1. /\ phase = "overlap" /\ phase' \in {"failed", "ready"}
        /\ UNCHANGED <<gridO, gridI, sheet, matrices, corr>>
    BY <1>4 DEF NewRegridder
  <2>2. matrices' = None /\ corr' = None
    BY <2>1 DEF GroundInv
  <2> QED
    BY <2>1, <2>2 DEF GroundInv
<1>5. CASE Couple
  <2>0. phase = "ready" /\ UNCHANGED <<gridO, gridI, sheet>>
    BY <1>5 DEF Couple
  <2>1. CASE UNCHANGED coupled /\ phase' = "failed"
    BY <2>0, <2>1 DEF coupled, GroundInv, GroundOf
  <2>2. CASE ~(UNCHANGED coupled /\ phase' = "failed")
    <3>1. PICK elev, ocean : CouplesWith(elev, ocean)
      BY <1>5, <2>2, CoupledGround
    <3>4. /\ SheetOn(sheet, gridO, gridI) /\ sheet.style \in Styles /\ OceansOn(DOMAIN gridO)
      BY <2>0 DEF GroundInv
    <3> DEFINE now == [elev |-> elev, op |-> ocean.op, om |-> ocean.om]
    <3>5. /\ phase' = phase /\ before' = ice /\ ice' = now
          /\ corr' # None => matrices # None
      BY <3>1 DEF CouplesWith, CoupledWith, Coupled
    <3>6. now.elev = elev /\ now.op = ocean.op /\ now.om = ocean.om
      OBVIOUS
    <3> HIDE DEF now
    <3>8. GroundOf(now)
      BY <3>1, <3>6 DEF GroundOf, CouplesWith
    <3>9. GroundOf(ice)' = GroundOf(ice') /\ GroundOf(before)' = GroundOf(before')
      BY <2>0 DEF GroundOf
    <3>10. GroundOf(ice)' /\ (corr' # None => GroundOf(before)')
      <4>1. matrices # None => GroundOf(ice)
        BY DEF GroundInv
      <4> HIDE DEF GroundOf
      <4> QED
        BY <3>5, <3>8, <3>9, <4>1
    <3>11. SheetOn(sheet', gridO', gridI') /\ sheet'.style \in Styles /\ OceansOn(DOMAIN gridO')
      BY <2>0, <3>4
    <3>12. phase' = "ready"
      BY <2>0, <3>5
    <3> QED
      <4> HIDE DEF GroundOf
      <4> QED
        BY <3>10, <3>11, <3>12 DEF GroundInv, SheetOn, SheetGood, OceansOn
  <2> QED
    BY <2>1, <2>2
<1>6. CASE UNCHANGED vars
  BY <1>0, <1>6 DEF vars, coupled
<1> QED
  BY <1>1, <1>2, <1>3, <1>4, <1>5, <1>6 DEF Next

\* The invariant holds in every state.
LEMMA GroundInvariant ==
    ASSUME LandElevations, OceanFractions, WithinPoles
    PROVE  Spec => []GroundInv
<1>1. Init => GroundInv
  BY DEF Init, GroundInv
<1>2. GridsInv /\ GroundInv /\ [Next]_vars => GroundInv'
  BY GroundKept
<1> QED
  BY <1>1, <1>2, GridsInvariant, PTL DEF Spec

WeightsOf(i) == ClassesOf(sheet, i.elev, Hcdefs)
LandOf(i) == OnLand(sheet, WeightsOf(i), i.op, i.om)
SharedAt(i) ==
    /\ SharedFrom(OverCells(spec, sheet), sheet.x.area, WeightsOf(i), LandOf(i),
                  Spacing(Hcdefs), ModelEOf(i).XvE)
    /\ DOMAIN ModelEOf(i).XvE.M = PlacesOf(OverCells(spec, sheet), LandOf(i))

\* The matrix from the classes to the exchange cells, of the ice of a coupling
LEMMA XvEAt ==
    ASSUME NEW i, GroundOf(i)
    PROVE  SharedAt(i)
<1> DEFINE o == OverCells(spec, sheet)
           area == sheet.x.area
           w == WeightsOf(i)
           v == LandOf(i)
           sp == Spacing(Hcdefs)
           m == ModelEOf(i)
           X == m.XvE
<1>1. Ground(sheet, i.elev, Hcdefs, i.op, i.om, sp)
  BY DEF GroundOf
<1>2. XvEIs(o, area, w, v, sp, m)
  BY <1>1, XvEShares DEF WeightsOf, LandOf, ModelEOf, UrOf
<1>3. SharesOut(area, w, sp)
  BY <1>1 DEF Ground, WeightsOf
<1>4. SharesOut(area, v, sp) /\ DOMAIN v \in SUBSET (DOMAIN w)
  <2>1. SharesOut(area, v, sp)
    <3> HIDE DEF w
    <3> QED
      BY <1>3, OnLandShares DEF LandOf, w
  <2>2. DOMAIN v \in SUBSET (DOMAIN w)
    BY DEF LandOf, OnLand
  <2> QED
    BY <2>1, <2>2
<1> HIDE DEF o, area, w, v, sp, m
<1>5. SharedFrom(o, area, w, v, sp, X)
  BY <1>2, <1>3, <1>4 DEF SharedFrom, XvEIs
<1>6. DOMAIN X.M = PlacesOf(o, v)
  <2>1. X.M = Shares(o, area, v)
    BY <1>2 DEF XvEIs
  <2> QED
    BY <1>4, <2>1, SharesPlaces
<1> QED
  BY <1>5, <1>6 DEF SharedAt, o, area, w, v, sp, m

\* The ice of a coupling has an exchange cell on its land.
WasLand(c, i) ==
    LET o == sheet.x.a[c]
    IN  sheet.x.i[c] \in DOMAIN i.elev /\ i.om[o] = 0 /\ i.op[o] # Full

\* Exchange cells with ice on land have weights.
LEMMA WasShared ==
    ASSUME NEW i, GroundOf(i), NEW c \in sheet.x.cells, WasLand(c, i)
    PROVE  c \in DOMAIN LandOf(i)
<1>1. sheet.x.a[c] \in DOMAIN i.om
  BY DEF GroundOf, Ground, CoastGood
<1>2. sheet.x.a[c] \in LandIn(i.op, i.om)
  BY <1>1 DEF WasLand, LandIn
<1>3. c \in DOMAIN WeightsOf(i)
  BY DEF WasLand, WeightsOf, ClassesOf, UsedX
<1> QED
  BY <1>2, <1>3 DEF LandOf, OnLand

\* The correction between the ice of two couplings
NeutralBetween(i1, i0) ==
    LET X1 == ModelEOf(i1).XvE
        C == E1vE0c(X1, ModelEOf(i0).XvE, Spacing(Hcdefs)).M
    IN  /\ RowsOf(C) \subseteq ColsOf(X1.M)
        /\ i1 = i0 => \A rc \in DOMAIN C : C[rc] = 0
        /\ \A e \in RowsOf(C) :
            (\A rc \in DOMAIN X1.M : rc[2] = e => WasLand(rc[1], i0)) => RowSum(C)[e] = 0

\* It is neutral.
LEMMA BetweenNeutral ==
    ASSUME NEW i1, GroundOf(i1), NEW i0, GroundOf(i0)
    PROVE  NeutralBetween(i1, i0)
<1> DEFINE X1 == ModelEOf(i1).XvE
           X0 == ModelEOf(i0).XvE
           sp == Spacing(Hcdefs)
           o == OverCells(spec, sheet)
           area == sheet.x.area
           C == E1vE0c(X1, X0, sp).M
<1>1. /\ SharedFrom(o, area, WeightsOf(i1), LandOf(i1), sp, X1)
      /\ DOMAIN X1.M = PlacesOf(o, LandOf(i1))
      /\ SharedFrom(o, area, WeightsOf(i0), LandOf(i0), sp, X0)
  <2>1. SharedAt(i1) /\ SharedAt(i0)
    BY XvEAt
  <2> QED
    BY <2>1 DEF SharedAt
<1>2. RowsOf(C) \subseteq ColsOf(X1.M)
  <2>1. ClassesOver(spec, sheet.x, X1.M) /\ ClassesOver(spec, sheet.x, X0.M)
    BY XvEClasses DEF ModelEOf, UrOf
  <2> HIDE DEF X1, X0, sp
  <2>2. \A rc \in DOMAIN C : rc[1] \in ColsOf(X1.M)
    BY <2>1, CorrectionWithin
  <2> HIDE DEF C
  <2> QED
    BY <2>2 DEF RowsOf
<1>3. i1 = i0 => X1 = X0
  OBVIOUS
<1>4. DOMAIN LandOf(i1) \in SUBSET sheet.x.cells
  BY DEF LandOf, OnLand, WeightsOf, ClassesOf, UsedX
<1> HIDE DEF X1, X0, o, area, sp
<1>5. ASSUME i1 = i0 PROVE \A rc \in DOMAIN C : C[rc] = 0
  <2>1. SharesOut(area, LandOf(i1), sp) /\ X1.M = Shares(o, area, LandOf(i1))
    BY <1>1 DEF SharedFrom
  <2>2. Matrix(X1.M)
    BY <2>1, SharesPlaces
  <2>3. ScaledWell(o, LandOf(i1), sp, ScaledX(X1, sp))
    BY <1>1, ScaledShares DEF SharedFrom
  <2>4. Matrix(ScaledX(X1, sp))
    BY <2>3 DEF ScaledWell
  <2>5. C = E1vE0c(X1, X1, sp).M
    BY <1>3, <1>5
  <2> HIDE DEF C
  <2> QED
    BY <2>2, <2>4, <2>5, NothingChanges
<1>6. ASSUME NEW e \in RowsOf(C), \A rc \in DOMAIN X1.M : rc[2] = e => WasLand(rc[1], i0)
      PROVE  RowSum(C)[e] = 0
  <2>1. \A rc \in DOMAIN X1.M : rc[1] \in sheet.x.cells
    BY <1>1, <1>4 DEF PlacesOf
  <2>2. \A rc \in DOMAIN X1.M : rc[2] = e => rc[1] \in DOMAIN LandOf(i0)
    BY <1>6, <2>1, WasShared
  <2> QED
    BY <1>1, <2>2, KeptRow
<1>7. NeutralBetween(i1, i0)
  BY <1>2, <1>5, <1>6 DEF NeutralBetween, X1, X0, sp, C
<1> QED
  BY <1>7

\* The correction to a new geometry is for classes it has; it is 0 where nothing changed; and
\* it leaves a uniform state alone in every class whose ice was all there before, whichever
\* way the weights of its exchange cells were shared out among other classes meanwhile.
THEOREM CorrectionsNeutral ==
    ASSUME LandElevations, OceanFractions, WithinPoles
    PROVE  Spec => []CorrectionNeutral
<1>1. ASSUME CouplingInv, GroundInv
      PROVE  CorrectionNeutral
  <2> SUFFICES ASSUME corr # None PROVE CorrectionNeutral
    BY DEF CorrectionNeutral
  <2>1. NeutralBetween(ice, before)
    <3>1. GroundOf(ice) /\ GroundOf(before)
      BY <1>1 DEF GroundInv
    <3> QED
      BY <3>1, BetweenNeutral
  <2>2. /\ corr.M = E1vE0c(ModelEOf(ice).XvE, ModelEOf(before).XvE, Spacing(Hcdefs)).M
        /\ matrices.modele.XvE = ModelEOf(ice).XvE
    BY <1>1 DEF CouplingInv, MatricesOf
  <2> QED
    BY <2>1, <2>2 DEF NeutralBetween, WasLand, CorrectionNeutral
<1>2. Spec => []GroundInv
  BY GroundInvariant
<1> QED
  BY <1>1, <1>2, CouplingInvariant, PTL

-----------------------------------------------------------------------------
(* What reaches the ice *)

\* The entries at some places of a matrix are what was accumulated there.
LEMMA PlacedSum ==
    ASSUME NEW T, Entries(T), NEW K, IsFiniteSet(K)
    PROVE  Sum([rc \in K |-> At(Accumulate(T), rc)], K) = Total({t \in T : <<t[2], t[3]>> \in K})
<1> DEFINE A == {t \in T : <<t[2], t[3]>> \in K}
           key == [t \in A |-> <<t[2], t[3]>>]
           f == [rc \in K |-> At(Accumulate(T), rc)]
           g == [k \in K |-> Total({t \in A : key[t] = k})]
<1>1. Entries(A)
  BY FS_Subset DEF Entries
<1>2. \A t \in A : key[t] \in K
  OBVIOUS
<1>3. Total(A) = Sum(g, K)
  <2> HIDE DEF A, key
  <2> QED
    BY <1>1, <1>2, TotalPartition
<1>4. ASSUME NEW k \in K PROVE f[k] = g[k]
  <2>1. {t \in A : key[t] = k} = {t \in T : PlaceOf(T)[t] = k}
    BY DEF PlaceOf
  <2>2. At(Tally(T, PlaceOf(T)), k) = Total({t \in T : PlaceOf(T)[t] = k})
    BY AtTally
  <2>3. Accumulate(T) = Tally(T, PlaceOf(T))
    BY AccumulateTally
  <2>4. f[k] = At(Accumulate(T), k) /\ g[k] = Total({t \in A : key[t] = k})
    OBVIOUS
  <2> HIDE DEF f, g, A, key
  <2> QED
    BY <2>1, <2>2, <2>3, <2>4
<1> HIDE DEF f, g
<1>5. Sum(f, K) = Sum(g, K)
  BY <1>4, SumSame
<1> QED
  BY <1>3, <1>5 DEF f

\* Entries that are named apart add up to what they are made of.
LEMMA NamedTotal ==
    ASSUME NEW D, IsFiniteSet(D), NEW f, Ints(f, D), NEW route,
           \A b, d \in D : route[b] = route[d] => b = d, \A b \in D : route[b][4] = f[b],
           NEW T, T = {route[b] : b \in D}
    PROVE  Entries(T) /\ Total(T) = Sum(f, D)
<1> DEFINE g == [t \in T |-> t[4]]
<1>1. IsFiniteSet(T)
  BY ImageFinite
<1>2. \A b \in D : route[b] \in T /\ g[route[b]] = f[b]
  OBVIOUS
<1>3. \A t \in T : \E b \in D : route[b] = t
  OBVIOUS
<1>4. Entries(T)
  BY <1>1 DEF Entries, Ints
<1> HIDE DEF g
<1>5. Sum(f, D) = Sum(g, T)
  BY <1>1, <1>2, <1>3, SumRename
<1> QED
  BY <1>4, <1>5 DEF Total, g

\* What the product of the areas on the ice with the classes carries: every entry of the
\* classes, once, to the ice under its exchange cell.
IceRoutes(i, E) == {<<<<<<b[1], i[b[1]]>>, b>>, i[b[1]], b[2], E[b]>> : b \in DOMAIN E}

\* Those are the routes.
LEMMA RoutesToIce ==
    ASSUME NEW i, NEW a, NEW area, NEW w, NEW sp, SharesOut(area, w, sp)
    PROVE  Routes(area, AreasOver(i, area, DOMAIN w), Shares(a, area, w))
           = IceRoutes(i, Shares(a, area, w))
<1> DEFINE E == Shares(a, area, w)
           B == AreasOver(i, area, DOMAIN w)
           R == Routes(area, B, E)
<1>1. /\ DOMAIN E = PlacesOf(a, w) /\ \A b \in PlacesOf(a, w) : E[b] \in Nat \ {0}
  BY SharesPlaces
<1>2. IsFiniteSet(DOMAIN w) /\ \A c \in DOMAIN w : area[c] \in Nat \ {0}
  BY DEF SharesOut
<1>3. /\ DOMAIN B = {<<c, i[c]>> : c \in DOMAIN w}
      /\ \A c \in DOMAIN w : B[<<c, i[c]>>] = area[c]
  <2> DEFINE C == DOMAIN w
  <2>1. IsFiniteSet(C) /\ \A c \in C : area[c] \in Nat \ {0}
    BY <1>2
  <2> HIDE DEF C
  <2>2. /\ DOMAIN AreasOver(i, area, C) = {<<c, i[c]>> : c \in C}
        /\ \A c \in C : AreasOver(i, area, C)[<<c, i[c]>>] = area[c]
        /\ Matrix(AreasOver(i, area, C))
    BY <2>1, AreasPlaces
  <2> QED
    BY <2>2 DEF C
<1> HIDE DEF E, B
<1>4. ASSUME NEW b \in DOMAIN E
      PROVE  LET d == <<b[1], i[b[1]]>>
             IN  d \in DOMAIN B /\ (B[d] * E[b]) \div area[d[1]] = E[b]
  <2>1. b[1] \in DOMAIN w
    BY <1>1 DEF PlacesOf
  <2> DEFINE e == E[b]
             p == area[b[1]]
             d == <<b[1], i[b[1]]>>
  <2>2. e \in Int /\ p \in Nat \ {0} /\ B[d] = p /\ d \in DOMAIN B /\ d[1] = b[1]
    BY <1>1, <1>2, <1>3, <2>1
  <2> HIDE DEF e, p
  <2>3. (p * e) \div p = e
    BY <2>2, DivExact
  <2> QED
    BY <2>2, <2>3 DEF e, p
<1>5. ASSUME NEW t \in R PROVE t \in IceRoutes(i, E)
  <2>1. PICK d \in DOMAIN B : \E b \in {x \in DOMAIN E : x[1] = d[1]} :
            t = <<<<d, b>>, d[2], b[2], (B[d] * E[b]) \div area[d[1]]>>
    BY <1>5 DEF Routes
  <2>2. PICK b \in {x \in DOMAIN E : x[1] = d[1]} :
            t = <<<<d, b>>, d[2], b[2], (B[d] * E[b]) \div area[d[1]]>>
    BY <2>1
  <2>3. b \in DOMAIN E /\ d = <<b[1], i[b[1]]>>
    BY <1>3, <2>2
  <2>4. d[2] = i[b[1]] /\ (B[d] * E[b]) \div area[d[1]] = E[b]
    BY <1>4, <2>3
  <2>5. t = <<<<<<b[1], i[b[1]]>>, b>>, i[b[1]], b[2], E[b]>>
    BY <2>2, <2>3, <2>4
  <2> QED
    BY <2>3, <2>5 DEF IceRoutes
<1>6. ASSUME NEW t \in IceRoutes(i, E) PROVE t \in R
  <2>1. PICK b \in DOMAIN E : t = <<<<<<b[1], i[b[1]]>>, b>>, i[b[1]], b[2], E[b]>>
    BY <1>6 DEF IceRoutes
  <2> DEFINE d == <<b[1], i[b[1]]>>
  <2>2. d \in DOMAIN B /\ (B[d] * E[b]) \div area[d[1]] = E[b]
    BY <1>4
  <2>3. b[1] = d[1] /\ d[2] = i[b[1]]
    OBVIOUS
  <2>4. t = <<<<d, b>>, d[2], b[2], (B[d] * E[b]) \div area[d[1]]>>
    BY <2>1, <2>2, <2>3
  <2> HIDE DEF d
  <2> QED
    BY <2>2, <2>3, <2>4 DEF Routes
<1>7. R = IceRoutes(i, E)
  BY <1>5, <1>6
<1> QED
  BY <1>7 DEF R, E, B

\* IvE of the ocean grid is made of those routes.
LEMMA IvEOwn ==
    ASSUME NEW sh, NEW gvi, NEW w, NEW sp, SharesOut(sh.x.area, w, sp),
           gvi = AreasOver(sh.x.i, sh.x.area, DOMAIN w)
    PROVE  IvAE(sh.x, Shares(sh.x.a, sh.x.area, w), gvi, sh.geom, "E", FALSE).M
           = Accumulate(IceRoutes(sh.x.i, Shares(sh.x.a, sh.x.area, w)))
<1> DEFINE E == Shares(sh.x.a, sh.x.area, w)
           T == IceRoutes(sh.x.i, E)
           M == Through(sh.x, gvi, E)
           route == [b \in DOMAIN E |-> <<<<<<b[1], sh.x.i[b[1]]>>, b>>, sh.x.i[b[1]], b[2], E[b]>>]
<1>1. M = Accumulate(T)
  <2>1. M = Accumulate(Routes(sh.x.area, gvi, E))
    BY ThroughRoutes
  <2>2. Routes(sh.x.area, AreasOver(sh.x.i, sh.x.area, DOMAIN w), E) = T
    BY RoutesToIce
  <2> HIDE DEF E, M, T
  <2> QED
    BY <2>1, <2>2
<1>2. Matrix(E)
  BY SharesPlaces
<1> HIDE DEF E
<1>3. T = {route[b] : b \in DOMAIN E}
  BY DEF IceRoutes
<1>4. Entries(T)
  <2> DEFINE D == DOMAIN E
  <2>1. /\ IsFiniteSet(D) /\ T = {route[b] : b \in D}
        /\ \A b \in D : route[b][4] \in Int
    BY <1>2, <1>3 DEF Matrix
  <2> HIDE DEF D, T, route
  <2>2. IsFiniteSet(T)
    BY <2>1, ImageFinite
  <2> QED
    BY <2>1, <2>2 DEF Entries
<1> HIDE DEF T
<1>5. Matrix(Accumulate(T))
  BY <1>4, AccumulateMatrix
<1>6. IvAE(sh.x, E, gvi, sh.geom, "E", FALSE).M = [rc \in DOMAIN M |-> (M[rc] * 1) \div 1]
  BY DEF IvAE
<1> HIDE DEF M
<1>7. \A rc \in DOMAIN M : (M[rc] * 1) \div 1 = M[rc]
  <2> SUFFICES ASSUME NEW rc \in DOMAIN M PROVE (M[rc] * 1) \div 1 = M[rc]
    OBVIOUS
  <2>1. M[rc] \in Int
    BY <1>1, <1>5 DEF Matrix
  <2> QED
    BY <2>1
<1>8. [rc \in DOMAIN M |-> M[rc]] = M
  BY <1>1 DEF Accumulate
<1> QED
  BY <1>1, <1>6, <1>7, <1>8 DEF E, T

PlacesBy(a, w, C) == {b \in PlacesOf(a, w) : b[1] \in C}

\* What some of the cells share out is their area.
LEMMA PlacesBySum ==
    ASSUME NEW a, NEW area, NEW w, NEW sp, SharesOut(area, w, sp), NEW C \in SUBSET (DOMAIN w)
    PROVE  Sum(Shares(a, area, w), PlacesBy(a, w, C)) = sp * Sum(area, C)
<1> DEFINE E == Shares(a, area, w)
           Q == PlacesBy(a, w, C)
           key == [b \in Q |-> b[1]]
           g == [c \in C |-> area[c] * sp]
<1>1. /\ DOMAIN E = PlacesOf(a, w) /\ Matrix(E)
  BY SharesPlaces
<1>2. /\ sp \in Nat \ {0} /\ IsFiniteSet(C) /\ \A c \in C : area[c] \in Nat \ {0}
  BY FS_Subset DEF SharesOut
<1>3. IsFiniteSet(Q) /\ Ints(E, Q)
  <2>1. Q \in SUBSET (DOMAIN E)
    BY <1>1 DEF PlacesBy
  <2> HIDE DEF Q, E
  <2> QED
    BY <1>1, <2>1, FS_Subset DEF Matrix, Ints
<1>4. \A b \in Q : key[b] \in C
  BY DEF PlacesBy
<1>5. ASSUME NEW c \in C PROVE g[c] = Sum(E, Group(Q, key, c))
  <2>1. Group(Q, key, c) = PlacesAt(a, w, c)
    BY DEF PlacesAt, PlacesBy, Group
  <2>2. Sum(E, PlacesAt(a, w, c)) = area[c] * sp
    BY SharesRow
  <2> HIDE DEF E, Q, key
  <2> QED
    BY <2>1, <2>2
<1>6. \A c \in C : g[c] = sp * area[c]
  BY <1>2
<1> HIDE DEF E, Q, key, g
<1>7. Sum(E, Q) = Sum(g, C)
  BY <1>2, <1>3, <1>4, <1>5, GroupedSum
<1>8. Ints(area, C) /\ sp \in Int
  BY <1>2 DEF Ints
<1>9. Sum(g, C) = sp * Sum(area, C)
  BY <1>2, <1>6, <1>8, SumScale
<1> QED
  BY <1>7, <1>9 DEF E, Q

IceAt(i, E, R) == {b \in DOMAIN E : <<i[b[1]], b[2]>> \in R}

\* What comes to some of the places of IvE
LEMMA ToIceSum ==
    ASSUME NEW i, NEW E, Matrix(E), NEW R, IsFiniteSet(R),
           NEW I, I = Accumulate(IceRoutes(i, E)), R \in SUBSET (DOMAIN I)
    PROVE  Sum(I, R) = Sum(E, IceAt(i, E, R))
<1> DEFINE T == IceRoutes(i, E)
           U == {t \in T : <<t[2], t[3]>> \in R}
           D == DOMAIN E
           Q == IceAt(i, E, R)
           route == [b \in D |-> <<<<<<b[1], i[b[1]]>>, b>>, i[b[1]], b[2], E[b]>>]
           f == [rc \in R |-> At(I, rc)]
<1>1. T = {route[b] : b \in D}
  BY DEF IceRoutes
<1>2. \A b \in D : /\ route[b][1][2] = b /\ route[b][2] = i[b[1]] /\ route[b][3] = b[2]
                   /\ route[b][4] = E[b]
  OBVIOUS
<1>3. IsFiniteSet(D) /\ \A b \in D : E[b] \in Int
  BY DEF Matrix
<1>4. Q \in SUBSET D /\ \A b \in D : b \in Q <=> <<i[b[1]], b[2]>> \in R
  BY DEF IceAt
<1>5. \A rc \in R : f[rc] = I[rc]
  BY DEF At
<1>6. Sum(f, R) = Sum([rc \in R |-> At(Accumulate(T), rc)], R)
  OBVIOUS
<1> HIDE DEF T, D, Q, route, f
<1>7. Entries(T)
  <2>1. IsFiniteSet(T)
    BY <1>1, <1>3, ImageFinite
  <2> QED
    BY <1>1, <1>2, <1>3, <2>1 DEF Entries
<1>8. Sum(f, R) = Total(U)
  BY <1>6, <1>7, PlacedSum
<1>9. U = {route[b] : b \in Q}
  BY <1>1, <1>2, <1>4
<1>10. IsFiniteSet(Q) /\ Ints(E, Q)
  BY <1>3, <1>4, FS_Subset DEF Ints
<1>11. \A b, d \in Q : route[b] = route[d] => b = d
  BY <1>2, <1>4
<1>12. \A b \in Q : route[b][4] = E[b]
  BY <1>2, <1>4
<1> HIDE DEF U
<1>13. Total(U) = Sum(E, Q)
  BY <1>9, <1>10, <1>11, <1>12, NamedTotal
<1>14. Sum(f, R) = Sum(I, R)
  BY <1>5, SumSame
<1> QED
  BY <1>8, <1>13, <1>14 DEF Q

LiftedTo(g, I, S, K) == {rc \in InClasses(I, S) : <<rc[1], Up(g, rc[2])>> \in K}

\* What is lifted to some places
LEMMA LiftedSum ==
    ASSUME NEW g, NEW I, Matrix(I), NEW S, NEW K, IsFiniteSet(K)
    PROVE  Sum([rc \in K |-> At(Accumulate(LiftedAt(g, I, S)), rc)], K)
           = Sum(I, LiftedTo(g, I, S, K))
<1> DEFINE T == LiftedAt(g, I, S)
           U == {t \in T : <<t[2], t[3]>> \in K}
           D == InClasses(I, S)
           Q == LiftedTo(g, I, S, K)
           route == [rc \in D |-> <<<<rc, <<Up(g, rc[2]), rc[2]>>>>, rc[1], Up(g, rc[2]), I[rc]>>]
<1>1. T = {route[rc] : rc \in D}
  BY DEF LiftedAt
<1>2. \A rc \in D : /\ route[rc][1][1] = rc /\ route[rc][2] = rc[1] /\ route[rc][3] = Up(g, rc[2])
                    /\ route[rc][4] = I[rc]
  OBVIOUS
<1>3. D \in SUBSET (DOMAIN I)
  BY DEF InClasses
<1>4. Q \in SUBSET D /\ \A rc \in D : rc \in Q <=> <<rc[1], Up(g, rc[2])>> \in K
  BY DEF LiftedTo
<1> HIDE DEF T, D, Q, route
<1>5. IsFiniteSet(D) /\ \A rc \in D : I[rc] \in Int
  BY <1>3, FS_Subset DEF Matrix
<1>7. Entries(T)
  <2>1. IsFiniteSet(T)
    BY <1>1, <1>5, ImageFinite
  <2> QED
    BY <1>1, <1>2, <1>5, <2>1 DEF Entries
<1>8. Sum([rc \in K |-> At(Accumulate(T), rc)], K) = Total(U)
  BY <1>7, PlacedSum
<1>9. U = {route[rc] : rc \in Q}
  BY <1>1, <1>2, <1>4
<1>10. IsFiniteSet(Q) /\ Ints(I, Q)
  BY <1>4, <1>5, FS_Subset DEF Ints
<1>11. \A b, d \in Q : route[b] = route[d] => b = d
  BY <1>2, <1>4
<1>12. \A b \in Q : route[b][4] = I[b]
  BY <1>2, <1>4
<1> HIDE DEF U
<1>13. Total(U) = Sum(I, Q)
  BY <1>9, <1>10, <1>11, <1>12, NamedTotal
<1> QED
  BY <1>8, <1>13 DEF Q, T

\* The exchange cells with land of one cell of the ice and one of the atmosphere
LandUnder(g, sh, w, op, om, j, b) ==
    {c \in DOMAIN w : /\ sh.x.i[c] = j /\ Over(g, sh.x.a[c]) = b
                      /\ sh.x.a[c] \in LandIn(op, om)}
ClassPlaces(j, b, H) == {<<j, <<b, h>>>> : h \in H}

\* What is lifted to the classes of the latter comes from those exchange cells.
LEMMA LiftedFrom ==
    ASSUME NEW g, NEW sh, NEW w, NEW H, \A c \in DOMAIN w : DOMAIN w[c] \in SUBSET H,
           NEW op, NEW om, NEW j, NEW b, NEW E, DOMAIN E = PlacesOf(sh.x.a, w),
           NEW I, I = Accumulate(IceRoutes(sh.x.i, E))
    PROVE  LET S == ClassesIn(sh.x.a, w, LandIn(op, om))
           IN  IceAt(sh.x.i, E, LiftedTo(g, I, S, ClassPlaces(j, b, H)))
               = PlacesBy(sh.x.a, w, LandUnder(g, sh, w, op, om, j, b))
<1> DEFINE a == sh.x.a
           i == sh.x.i
           L == LandIn(op, om)
           S == ClassesIn(a, w, L)
           K == ClassPlaces(j, b, H)
           C == LandUnder(g, sh, w, op, om, j, b)
           R == LiftedTo(g, I, S, K)
<1>1. \A d \in DOMAIN E : <<i[d[1]], d[2]>> \in DOMAIN I
  <2> SUFFICES ASSUME NEW d \in DOMAIN E PROVE <<i[d[1]], d[2]>> \in DOMAIN I
    OBVIOUS
  <2> DEFINE t == <<<<<<d[1], i[d[1]]>>, d>>, i[d[1]], d[2], E[d]>>
  <2>1. t \in IceRoutes(i, E) /\ <<i[d[1]], d[2]>> = <<t[2], t[3]>>
    BY DEF IceRoutes
  <2> HIDE DEF t
  <2> QED
    BY <2>1 DEF Accumulate
<1>2. ASSUME NEW d \in PlacesOf(a, w)
      PROVE  d \in IceAt(i, E, R) <=> d[1] \in C
  <2>1. PICK c \in DOMAIN w : \E h \in DOMAIN w[c] : d = <<c, <<a[c], h>>>>
    BY DEF PlacesOf
  <2>2. PICK h \in DOMAIN w[c] : d = <<c, <<a[c], h>>>>
    BY <2>1
  <2>3. d[1] = c /\ d[2] = <<a[c], h>> /\ d[2][1] = a[c] /\ h \in H
    BY <2>2
  <2>4. d \in IceAt(i, E, R) <=> <<i[c], d[2]>> \in R
    BY <2>3 DEF IceAt
  <2>5. <<i[c], d[2]>> \in DOMAIN I
    BY <1>1, <2>3
  <2>6. <<i[c], d[2]>> \in R <=> d[2] \in S /\ <<i[c], Up(g, d[2])>> \in K
    BY <2>5 DEF LiftedTo, InClasses
  <2>7. d[2] \in S <=> a[c] \in L
    <3>1. d[2] \in S <=> \E x \in PlacesOf(a, w) : d[2] = x[2] /\ x[2][1] \in L
      BY DEF ClassesIn
    <3> HIDE DEF S, L
    <3> QED
      BY <2>3, <3>1
  <2>8. <<i[c], Up(g, d[2])>> \in K <=> i[c] = j /\ Over(g, a[c]) = b
    <3>1. Up(g, d[2]) = <<Over(g, a[c]), h>>
      BY <2>3 DEF Up
    <3> QED
      BY <2>3, <3>1 DEF ClassPlaces
  <2>9. c \in C <=> i[c] = j /\ Over(g, a[c]) = b /\ a[c] \in L
    BY DEF LandUnder
  <2> HIDE DEF C, R, S, L, K, a, i
  <2> QED
    BY <2>3, <2>4, <2>6, <2>7, <2>8, <2>9
<1>3. IceAt(i, E, R) \in SUBSET PlacesOf(a, w)
  BY DEF IceAt
<1> HIDE DEF C, R
<1>4. IceAt(i, E, R) = PlacesBy(a, w, C)
  BY <1>2, <1>3 DEF PlacesBy
<1> QED
  BY <1>4 DEF C, R

ReachOf(sh, w, g, op, om, sp, j, b) == sp * Sum(sh.x.area, LandUnder(g, sh, w, op, om, j, b))

\* The classes over a cell of the ice add up to the area of its land.
LEMMA IvEReaches ==
    ASSUME NEW g, NEW sh, NEW elev, NEW hcdefs, NEW op, NEW om, NEW sp,
           Ground(sh, elev, hcdefs, op, om, sp), IsFiniteSet(DOMAIN hcdefs), NEW j, NEW b
    PROVE  LET M == ModelEMatrices(g, sh, UrO(sh, elev, hcdefs, sh.style), op, om, sp).IvE.M
               w == ClassesOf(sh, elev, hcdefs)
           IN  Sum([h \in DOMAIN hcdefs |-> At(M, <<j, <<b, h>>>>)], DOMAIN hcdefs)
               = ReachOf(sh, w, g, op, om, sp, j, b)
<1> DEFINE ur == UrO(sh, elev, hcdefs, sh.style)
           m == ModelEMatrices(g, sh, ur, op, om, sp)
           M == m.IvE.M
           w == ClassesOf(sh, elev, hcdefs)
           H == DOMAIN hcdefs
           E == Shares(sh.x.a, sh.x.area, w)
           I == IvAE(sh.x, ur.E, ur.I, sh.geom, "E", FALSE).M
           S == ClassesIn(sh.x.a, w, LandIn(op, om))
           K == ClassPlaces(j, b, H)
           R == LiftedTo(g, I, S, K)
           C == LandUnder(g, sh, w, op, om, j, b)
           f == [h \in H |-> At(M, <<j, <<b, h>>>>)]
           k == [rc \in K |-> At(M, rc)]
           name == [h \in H |-> <<j, <<b, h>>>>]
<1>1. SharesOut(sh.x.area, w, sp) /\ \A c \in DOMAIN w : DOMAIN w[c] \in SUBSET H
  BY DEF Ground, ClassesAmong
<1>2. ur.E = E /\ ur.I = AreasOver(sh.x.i, sh.x.area, DOMAIN w)
  BY UrShares DEF Ground
<1>3. M = Accumulate(LiftedAt(g, I, S))
  <2>1. LiftedAre(g, LandClasses(sh, elev, hcdefs, op, om), ur.E, I, m)
    BY ModelELifted
  <2> HIDE DEF ur, m, I, w
  <2> QED
    BY <2>1 DEF LiftedAre, LandClasses, w
<1>4. I = Accumulate(IceRoutes(sh.x.i, E))
  <2> DEFINE gvi == ur.I
  <2>1. I = IvAE(sh.x, E, gvi, sh.geom, "E", FALSE).M
    BY <1>2
  <2>2. gvi = AreasOver(sh.x.i, sh.x.area, DOMAIN w)
    BY <1>2
  <2> HIDE DEF ur, gvi, I, w
  <2> QED
    BY <1>1, <2>1, <2>2, IvEOwn
<1>5. DOMAIN E = PlacesOf(sh.x.a, w) /\ Matrix(E)
  <2> HIDE DEF w
  <2> QED
    BY <1>1, SharesPlaces
<1>6. IsFiniteSet(K)
  <2>1. K = {name[h] : h \in H}
    BY DEF ClassPlaces
  <2> HIDE DEF K, name, H
  <2>2. IsFiniteSet(H)
    BY DEF H
  <2> QED
    BY <2>1, <2>2, ImageFinite
<1>7. \A h \in H : name[h] \in K /\ k[name[h]] = f[h]
  BY DEF ClassPlaces
<1>8. \A h, l \in H : name[h] = name[l] => h = l
  OBVIOUS
<1>9. \A rc \in K : \E h \in H : name[h] = rc
  BY DEF ClassPlaces
<1>10. R \in SUBSET (DOMAIN I)
  BY DEF LiftedTo, InClasses
<1>11. IsFiniteSet(H)
  OBVIOUS
<1>12. ClassesIn(sh.x.a, w, LandIn(op, om)) = S
  OBVIOUS
<1> HIDE DEF ur, m, w, H, E, I, K, R, C, f, k, name
<1>13. Matrix(I)
  <2> DEFINE route == [d \in DOMAIN E |->
                          <<<<<<d[1], sh.x.i[d[1]]>>, d>>, sh.x.i[d[1]], d[2], E[d]>>]
             T == IceRoutes(sh.x.i, E)
             D == DOMAIN E
  <2>1. T = {route[d] : d \in D}
    BY DEF IceRoutes
  <2>2. \A d \in D : route[d][4] = E[d]
    OBVIOUS
  <2>3. IsFiniteSet(D) /\ \A d \in D : E[d] \in Int
    BY <1>5 DEF Matrix
  <2> HIDE DEF T, D, route
  <2>4. IsFiniteSet(T)
    BY <2>1, <2>3, ImageFinite
  <2>5. Entries(T)
    BY <2>1, <2>2, <2>3, <2>4 DEF Entries
  <2> QED
    BY <1>4, <2>5, AccumulateMatrix DEF T
<1>14. IsFiniteSet(R)
  BY <1>10, <1>13, FS_Subset DEF Matrix
<1>15. Sum(k, K) = Sum(I, R)
  <2>1. Sum([rc \in K |-> At(Accumulate(LiftedAt(g, I, S)), rc)], K)
        = Sum(I, LiftedTo(g, I, S, K))
    <3> HIDE DEF S
    <3> QED
      BY <1>6, <1>13, LiftedSum
  <2> HIDE DEF S
  <2>2. k = [rc \in K |-> At(Accumulate(LiftedAt(g, I, S)), rc)]
    BY <1>3 DEF k, M
  <2> QED
    BY <2>1, <2>2 DEF R
<1>16. Sum(I, R) = Sum(E, IceAt(sh.x.i, E, R))
  BY <1>4, <1>5, <1>10, <1>14, ToIceSum
<1>17. IceAt(sh.x.i, E, R) = PlacesBy(sh.x.a, w, C)
  <2> HIDE DEF S
  <2> QED
    BY <1>1, <1>4, <1>5, LiftedFrom DEF R, K, C, S
<1>18. Sum(E, PlacesBy(sh.x.a, w, C)) = sp * Sum(sh.x.area, C)
  <2>1. C \in SUBSET (DOMAIN w)
    BY DEF C, LandUnder
  <2> QED
    BY <1>1, <2>1, PlacesBySum DEF E
<1>19. Sum(f, H) = Sum(k, K)
  <2>1. \A rc \in K : k[rc] \in Int
    <3>1. IsFiniteSet(InClasses(I, S))
      BY <1>13, FS_Subset DEF Matrix, InClasses
    <3>2. Entries(LiftedAt(g, I, S))
      <4> DEFINE D == InClasses(I, S)
                 route == [rc \in D |->
                             <<<<rc, <<Up(g, rc[2]), rc[2]>>>>, rc[1], Up(g, rc[2]), I[rc]>>]
                 T == LiftedAt(g, I, S)
      <4>1. T = {route[rc] : rc \in D} /\ IsFiniteSet(D)
        BY <3>1 DEF LiftedAt
      <4>2. \A rc \in D : route[rc][4] \in Int
        BY <1>13 DEF Matrix, InClasses
      <4> HIDE DEF D, route, T
      <4>3. IsFiniteSet(T)
        BY <4>1, ImageFinite
      <4>4. Entries(T)
        BY <4>1, <4>2, <4>3 DEF Entries
      <4> QED
        BY <4>4 DEF T
    <3> HIDE DEF S
    <3>3. Matrix(Accumulate(LiftedAt(g, I, S)))
      BY <3>2, AccumulateMatrix
    <3>4. Matrix(M)
      BY <1>3, <3>3
    <3> QED
      BY <3>4 DEF Matrix, At, k
  <2>2. Ints(f, H)
    BY <1>7, <2>1 DEF Ints
  <2> QED
    BY <1>6, <1>7, <1>8, <1>9, <1>11, <2>2, SumRename
<1>20. Sum(f, H) = ReachOf(sh, w, g, op, om, sp, j, b)
  BY <1>15, <1>16, <1>17, <1>18, <1>19 DEF ReachOf, C
<1> QED
  BY <1>20 DEF f, H, w, ur, m

\* What the classes over cell j of the ice add up to, and the land that lies under them
ReachedAt(i, j, b) ==
    MapThenSumSet(LAMBDA h : At(ModelEOf(i).IvE.M, <<j, <<b, h>>>>), DOMAIN Hcdefs)
        = Spacing(Hcdefs)
            * MapThenSumSet(LAMBDA c : sheet.x.area[c],
                {c \in sheet.x.cells : /\ sheet.x.i[c] = j
                                       /\ Over(spec, sheet.x.a[c]) = b
                                       /\ i.om[sheet.x.a[c]] = 0
                                       /\ i.op[sheet.x.a[c]] # Full})

\* It reaches the ice that is not masked out.
LEMMA IceReached ==
    ASSUME LandElevations, NEW i, GroundOf(i), NEW j \in DOMAIN i.elev, NEW b
    PROVE  ReachedAt(i, j, b)
<1> DEFINE w == WeightsOf(i)
           M == ModelEOf(i).IvE.M
           H == DOMAIN Hcdefs
           sp == Spacing(Hcdefs)
           area == sheet.x.area
           C == {c \in sheet.x.cells : /\ sheet.x.i[c] = j /\ Over(spec, sheet.x.a[c]) = b
                                       /\ i.om[sheet.x.a[c]] = 0 /\ i.op[sheet.x.a[c]] # Full}
           F(h) == At(M, <<j, <<b, h>>>>)
           f == [h \in H |-> F(h)]
<1>1. Ground(sheet, i.elev, Hcdefs, i.op, i.om, sp)
  BY DEF GroundOf
<1>2. IsFiniteSet(H)
  <2>1. Len(Hcdefs) \in Nat /\ H = 1..Len(Hcdefs) /\ 1 \in Int /\ Len(Hcdefs) \in Int
    BY DEF LandElevations, EvenClasses
  <2> QED
    BY <2>1, FS_Interval
<1>3. Sum(f, H) = sp * Sum(area, LandUnder(spec, sheet, w, i.op, i.om, j, b))
  BY <1>1, <1>2, IvEReaches DEF ReachOf, WeightsOf, ModelEOf, UrOf
<1>4. LandUnder(spec, sheet, w, i.op, i.om, j, b) = C
  <2>1. DOMAIN w = {c \in sheet.x.cells : sheet.x.i[c] \in DOMAIN i.elev}
    BY DEF WeightsOf, ClassesOf, UsedX
  <2>2. \A c \in sheet.x.cells : sheet.x.a[c] \in DOMAIN i.om
    BY <1>1 DEF Ground, CoastGood
  <2> QED
    BY <2>1, <2>2 DEF LandUnder, LandIn
<1>5. MapThenSumSet(LAMBDA h : At(M, <<j, <<b, h>>>>), H) = Sum(f, H)
  <2>1. ASSUME NEW A PROVE MapThenSumSet(LAMBDA h : F(h), A) = Sum([h \in A |-> F(h)], A)
    BY DEF Sum, MapThenSumSet, MapThenFoldSet
  <2> QED
    BY <2>1
<1>6. MapThenSumSet(LAMBDA c : area[c], C) = Sum(area, C)
  BY DEF Sum
<1> HIDE DEF f, H, M, sp
<1>7. MapThenSumSet(LAMBDA h : At(M, <<j, <<b, h>>>>), H)
      = sp * MapThenSumSet(LAMBDA c : area[c], C)
  <2> HIDE DEF area, C
  <2>1. Sum(f, H) = sp * Sum(area, C)
    BY <1>3, <1>4
  <2> QED
    BY <1>5, <1>6, <2>1
<1> QED
  BY <1>7 DEF ReachedAt, M, H, sp

\* The matrix that takes ModelE's fluxes from the classes of an atmosphere cell to a cell of
\* the ice has, in total, the area of the ice that lies on land of both models, whichever way
\* the weights were shared out among the classes: that of GCMRegridder_ModelE, compute_IvAE.
THEOREM ForcingReaches ==
    ASSUME LandElevations, OceanFractions, WithinPoles
    PROVE  Spec => []ForcingReachesIce
<1>1. ASSUME CouplingInv, GroundInv
      PROVE  ForcingReachesIce
  <2> SUFFICES ASSUME matrices # None, NEW i \in DOMAIN ice.elev, NEW a \in agridA
               PROVE  MapThenSumSet(LAMBDA h : At(matrices.modele.IvE.M, <<i, <<a, h>>>>),
                                    DOMAIN Hcdefs)
                      = Spacing(Hcdefs) * LandIceOf(i, a)
    BY DEF ForcingReachesIce
  <2>1. ReachedAt(ice, i, a)
    <3>1. GroundOf(ice)
      BY <1>1 DEF GroundInv
    <3> QED
      BY <3>1, IceReached
  <2>2. matrices.modele = ModelEOf(ice)
    BY <1>1 DEF CouplingInv, MatricesOf
  <2> HIDE DEF GroundInv, CouplingInv
  <2> QED
    BY <2>1, <2>2 DEF ReachedAt, LandIceOf
<1>2. Spec => []GroundInv
  BY GroundInvariant
<1> QED
  BY <1>1, <1>2, CouplingInvariant, PTL

-----------------------------------------------------------------------------
(* The weights of the matrices in both directions *)

\* Entries with rows and columns exchanged
SwapOf(T) == [t \in T |-> <<<<t[1][2], t[1][1]>>, t[3], t[2], t[4]>>]

\* The places of a tally, and what it has at one
KeysOf(U, p) == {p[u] : u \in U}
TotalAt(U, p, k) == Total({u \in U : p[u] = k})

\* Tallies of the same places with the same totals are the same.
LEMMA TalliesSame ==
    ASSUME NEW U, NEW p, NEW T, NEW q, KeysOf(U, p) = KeysOf(T, q),
           \A k : TotalAt(U, p, k) = TotalAt(T, q, k)
    PROVE  Tally(U, p) = Tally(T, q)
<1> DEFINE D == KeysOf(U, p)
           E == KeysOf(T, q)
<1>1. D = E
  OBVIOUS
<1>2. Tally(U, p) = [k \in D |-> TotalAt(U, p, k)] /\ Tally(T, q) = [k \in E |-> TotalAt(T, q, k)]
  BY DEF Tally, TotalAt, KeysOf
<1> HIDE DEF D, E
<1>3. [k \in D |-> TotalAt(U, p, k)] = [k \in E |-> TotalAt(T, q, k)]
  BY <1>1
<1> QED
  BY <1>2, <1>3

\* What goes to a row is what comes from it as a column, however the entries are named.
LEMMA TallySwapped ==
    ASSUME NEW T, Entries(T), NEW U, Entries(U), NEW swap,
           \A t \in T : swap[t] \in U /\ swap[t][2] = t[3] /\ swap[t][3] = t[2]
                        /\ swap[t][4] = t[4],
           \A s, t \in T : swap[s] = swap[t] => s = t,
           \A u \in U : \E t \in T : swap[t] = u
    PROVE  Tally(U, RowIn(U)) = Tally(T, ColIn(T)) /\ Tally(U, ColIn(U)) = Tally(T, RowIn(T))
<1>1. KeysOf(U, RowIn(U)) = KeysOf(T, ColIn(T)) /\ KeysOf(U, ColIn(U)) = KeysOf(T, RowIn(T))
  <2> DEFINE ru == RowIn(U)
             cu == ColIn(U)
             rt == RowIn(T)
             ct == ColIn(T)
  <2>1. \A t \in T : ru[swap[t]] = ct[t] /\ cu[swap[t]] = rt[t]
    BY DEF RowIn, ColIn
  <2> HIDE DEF ru, cu, rt, ct
  <2>2. ASSUME NEW k PROVE k \in {ru[u] : u \in U} <=> k \in {ct[t] : t \in T}
    <3>1. ASSUME NEW u \in U, k = ru[u] PROVE \E t \in T : k = ct[t]
      BY <2>1, <3>1
    <3>2. ASSUME NEW t \in T, k = ct[t] PROVE \E u \in U : k = ru[u]
      BY <2>1, <3>2
    <3> QED
      BY <3>1, <3>2
  <2>3. ASSUME NEW k PROVE k \in {cu[u] : u \in U} <=> k \in {rt[t] : t \in T}
    <3>1. ASSUME NEW u \in U, k = cu[u] PROVE \E t \in T : k = rt[t]
      BY <2>1, <3>1
    <3>2. ASSUME NEW t \in T, k = rt[t] PROVE \E u \in U : k = cu[u]
      BY <2>1, <3>2
    <3> QED
      BY <3>1, <3>2
  <2> DEFINE RU == {ru[u] : u \in U}
             CU == {cu[u] : u \in U}
             RT == {rt[t] : t \in T}
             CT == {ct[t] : t \in T}
  <2>4. (\A k : k \in RU <=> k \in CT) /\ (\A k : k \in CU <=> k \in RT)
    BY <2>2, <2>3
  <2>5. RU = CT /\ CU = RT
    <3> HIDE DEF RU, CU, RT, CT
    <3> QED
      BY <2>4
  <2> QED
    BY <2>5 DEF ru, cu, rt, ct, KeysOf
<1>2. ASSUME NEW A \in SUBSET T, NEW B \in SUBSET U, \A t \in T : t \in A <=> swap[t] \in B
      PROVE  Total(A) = Total(B)
  <2> DEFINE f == [t \in A |-> t[4]]
             g == [u \in B |-> u[4]]
  <2>1. IsFiniteSet(A) /\ Ints(f, A)
    BY FS_Subset DEF Entries, Ints
  <2>2. IsFiniteSet(B)
    BY FS_Subset DEF Entries
  <2>3. \A t \in A : swap[t] \in B /\ g[swap[t]] = f[t]
    BY <1>2
  <2>4. \A u \in B : \E t \in A : swap[t] = u
    BY <1>2
  <2> HIDE DEF f, g
  <2>5. Sum(f, A) = Sum(g, B)
    BY <2>1, <2>2, <2>3, <2>4, SumRename
  <2> QED
    BY <2>5 DEF Total, f, g
<1>3. ASSUME NEW k
      PROVE  /\ TotalAt(U, RowIn(U), k) = TotalAt(T, ColIn(T), k)
             /\ TotalAt(U, ColIn(U), k) = TotalAt(T, RowIn(T), k)
  <2> DEFINE AR == {t \in T : RowIn(T)[t] = k}
             AC == {t \in T : ColIn(T)[t] = k}
             BR == {u \in U : RowIn(U)[u] = k}
             BC == {u \in U : ColIn(U)[u] = k}
  <2>1. \A t \in T : (t \in AC <=> swap[t] \in BR) /\ (t \in AR <=> swap[t] \in BC)
    BY DEF RowIn, ColIn
  <2>2. AR \in SUBSET T /\ AC \in SUBSET T /\ BR \in SUBSET U /\ BC \in SUBSET U
    OBVIOUS
  <2> HIDE DEF AR, AC, BR, BC
  <2>3. Total(AC) = Total(BR) /\ Total(AR) = Total(BC)
    BY <1>2, <2>1, <2>2
  <2> QED
    BY <2>3 DEF AR, AC, BR, BC, TotalAt
<1>4. Tally(U, RowIn(U)) = Tally(T, ColIn(T))
  <2> DEFINE ru == RowIn(U)
             ct == ColIn(T)
  <2>1. \A k : TotalAt(U, ru, k) = TotalAt(T, ct, k)
    BY <1>3
  <2>2. KeysOf(U, ru) = KeysOf(T, ct)
    BY <1>1
  <2> HIDE DEF ru, ct
  <2>3. Tally(U, ru) = Tally(T, ct)
    BY <2>1, <2>2, TalliesSame
  <2> QED
    BY <2>3 DEF ru, ct
<1>5. Tally(U, ColIn(U)) = Tally(T, RowIn(T))
  <2> DEFINE cu == ColIn(U)
             rt == RowIn(T)
  <2>1. \A k : TotalAt(U, cu, k) = TotalAt(T, rt, k)
    BY <1>3
  <2>2. KeysOf(U, cu) = KeysOf(T, rt)
    BY <1>1
  <2> HIDE DEF cu, rt
  <2>3. Tally(U, cu) = Tally(T, rt)
    BY <2>1, <2>2, TalliesSame
  <2> QED
    BY <2>3 DEF cu, rt
<1> QED
  BY <1>4, <1>5

\* A product through the exchange grid and the one the other way carry the same.
LEMMA RoutesSwapped ==
    ASSUME NEW x, NEW B, Matrix(B), NEW C, Matrix(C),
           \A b \in DOMAIN B : x.area[b[1]] \in Nat \ {0},
           \A c \in DOMAIN C : x.area[c[1]] \in Nat \ {0}
    PROVE  /\ RowSum(Through(x, C, B)) = ColSum(Through(x, B, C))
           /\ ColSum(Through(x, C, B)) = RowSum(Through(x, B, C))
<1> DEFINE T == Routes(x.area, B, C)
           U == Routes(x.area, C, B)
           swap == SwapOf(T)
<1>1. Through(x, B, C) = Accumulate(T) /\ Through(x, C, B) = Accumulate(U)
  BY ThroughRoutes
<1>2. Entries(T) /\ Entries(U)
  BY RoutesEntries
<1>3. ASSUME NEW b \in DOMAIN B, NEW c \in DOMAIN C, c[1] = b[1]
      PROVE  (C[c] * B[b]) \div x.area[c[1]] = (B[b] * C[c]) \div x.area[b[1]]
  <2>1. B[b] \in Int /\ C[c] \in Int
    BY DEF Matrix
  <2>2. C[c] * B[b] = B[b] * C[c]
    BY <2>1
  <2> QED
    BY <1>3, <2>2
<1>4. ASSUME NEW t \in T
      PROVE  /\ swap[t] \in U /\ swap[t][2] = t[3] /\ swap[t][3] = t[2] /\ swap[t][4] = t[4]
             /\ swap[t][1] = <<t[1][2], t[1][1]>>
             /\ t = <<<<t[1][1], t[1][2]>>, t[2], t[3], t[4]>>
  <2>1. PICK b \in DOMAIN B : \E c \in {d \in DOMAIN C : d[1] = b[1]} :
            t = <<<<b, c>>, b[2], c[2], (B[b] * C[c]) \div x.area[b[1]]>>
    BY DEF Routes
  <2>2. PICK c \in {d \in DOMAIN C : d[1] = b[1]} :
            t = <<<<b, c>>, b[2], c[2], (B[b] * C[c]) \div x.area[b[1]]>>
    BY <2>1
  <2> DEFINE u == <<<<c, b>>, c[2], b[2], (C[c] * B[b]) \div x.area[c[1]]>>
  <2>3. u \in U
    <3>1. b \in {d \in DOMAIN B : d[1] = c[1]} /\ c \in DOMAIN C
      BY <2>2
    <3> QED
      BY <3>1 DEF Routes
  <2>4. swap[t] = <<<<t[1][2], t[1][1]>>, t[3], t[2], t[4]>>
    BY DEF SwapOf
  <2>5. (C[c] * B[b]) \div x.area[c[1]] = (B[b] * C[c]) \div x.area[b[1]]
    BY <1>3, <2>2
  <2> DEFINE v == (B[b] * C[c]) \div x.area[b[1]]
  <2>6. t = <<<<b, c>>, b[2], c[2], v>> /\ u = <<<<c, b>>, c[2], b[2], v>>
    BY <2>2, <2>5
  <2> HIDE DEF v, u, swap
  <2>7. swap[t] = u
    BY <2>4, <2>6
  <2> QED
    BY <2>3, <2>6, <2>7
<1>5. ASSUME NEW u \in U PROVE \E t \in T : swap[t] = u
  <2>1. PICK c \in DOMAIN C : \E b \in {d \in DOMAIN B : d[1] = c[1]} :
            u = <<<<c, b>>, c[2], b[2], (C[c] * B[b]) \div x.area[c[1]]>>
    BY DEF Routes
  <2>2. PICK b \in {d \in DOMAIN B : d[1] = c[1]} :
            u = <<<<c, b>>, c[2], b[2], (C[c] * B[b]) \div x.area[c[1]]>>
    BY <2>1
  <2> DEFINE t == <<<<b, c>>, b[2], c[2], (B[b] * C[c]) \div x.area[b[1]]>>
  <2>3. t \in T
    <3>1. c \in {d \in DOMAIN C : d[1] = b[1]} /\ b \in DOMAIN B
      BY <2>2
    <3> QED
      BY <3>1 DEF Routes
  <2>4. swap[t] = <<<<t[1][2], t[1][1]>>, t[3], t[2], t[4]>>
    BY <2>3 DEF SwapOf
  <2>5. (C[c] * B[b]) \div x.area[c[1]] = (B[b] * C[c]) \div x.area[b[1]]
    BY <1>3, <2>2
  <2> DEFINE v == (B[b] * C[c]) \div x.area[b[1]]
  <2>6. t = <<<<b, c>>, b[2], c[2], v>> /\ u = <<<<c, b>>, c[2], b[2], v>>
    BY <2>2, <2>5
  <2> HIDE DEF v, t, swap
  <2>7. swap[t] = u
    BY <2>4, <2>6
  <2> QED
    BY <2>3, <2>7
<1> HIDE DEF T, U, swap
<1>6. \A s, t \in T : swap[s] = swap[t] => s = t
  <2> SUFFICES ASSUME NEW s \in T, NEW t \in T, swap[s] = swap[t] PROVE s = t
    OBVIOUS
  <2>1. s[2] = t[2] /\ s[3] = t[3] /\ s[4] = t[4]
    BY <1>4
  <2>2. <<s[1][2], s[1][1]>> = <<t[1][2], t[1][1]>>
    BY <1>4
  <2> QED
    BY <1>4, <2>1, <2>2
<1>7. Tally(U, RowIn(U)) = Tally(T, ColIn(T)) /\ Tally(U, ColIn(U)) = Tally(T, RowIn(T))
  BY <1>2, <1>4, <1>5, <1>6, TallySwapped
<1>8. /\ RowSum(Accumulate(U)) = Tally(U, RowIn(U)) /\ ColSum(Accumulate(U)) = Tally(U, ColIn(U))
      /\ RowSum(Accumulate(T)) = Tally(T, RowIn(T)) /\ ColSum(Accumulate(T)) = Tally(T, ColIn(T))
  BY <1>2, RowSumTally, ColSumTally
<1> QED
  BY <1>1, <1>7, <1>8

\* The weights of a matrix to the ice and of that from it
SameWeights(from, to) == from.wM = to.Mw /\ from.Mw = to.wM

\* They are the same, on a sheet and with areas, corrected or not.
LEMMA WeightsSame ==
    ASSUME NEW x, NEW ur, Matrix(ur), NEW gvi, Matrix(gvi), NEW geom, NEW grid,
           NEW correctA \in BOOLEAN,
           \A b \in DOMAIN ur : x.area[b[1]] \in Nat \ {0},
           \A c \in DOMAIN gvi : x.area[c[1]] \in Nat \ {0}
    PROVE  SameWeights(IvAE(x, ur, gvi, geom, grid, correctA),
                       AEvI(x, ur, gvi, geom, grid, correctA))
<1>1. /\ RowSum(Through(x, gvi, ur)) = ColSum(Through(x, ur, gvi))
      /\ ColSum(Through(x, gvi, ur)) = RowSum(Through(x, ur, gvi))
  BY RoutesSwapped
<1> QED
  BY <1>1 DEF SameWeights, IvAE, AEvI

\* The areas over cells have places of those cells only.
LEMMA AreasOverCells ==
    ASSUME NEW a, NEW area, NEW C, IsFiniteSet(C), \A c \in C : area[c] \in Nat \ {0}
    PROVE  /\ Matrix(AreasOver(a, area, C))
           /\ \A b \in DOMAIN AreasOver(a, area, C) : area[b[1]] \in Nat \ {0}
<1>1. /\ DOMAIN AreasOver(a, area, C) = {<<c, a[c]>> : c \in C}
      /\ \A c \in C : AreasOver(a, area, C)[<<c, a[c]>>] = area[c]
      /\ Matrix(AreasOver(a, area, C))
  BY AreasPlaces
<1>2. \A b \in DOMAIN AreasOver(a, area, C) : \E c \in C : b = <<c, a[c]>>
  BY <1>1
<1>3. \A b \in DOMAIN AreasOver(a, area, C) : area[b[1]] \in Nat \ {0}
  BY <1>2
<1> QED
  BY <1>1, <1>3

\* Whatever ice there is: the matrices of the ocean grid take the same weights of the ice, and
\* of the ocean's cells and classes, in both directions, though compute_AEvI() corrects the sums
\* of its rows and compute_IvAE() those of its columns.
THEOREM WeightsAgree ==
    ASSUME LandElevations, OceanFractions, WithinPoles
    PROVE  Spec => []WeightsBothWays
<1>1. ASSUME CouplingInv, GroundInv, matrices # None
      PROVE  /\ SameWeights(matrices.standard.IvE, matrices.standard.EvI)
             /\ SameWeights(matrices.standard.IvA, matrices.standard.AvI)
  <2> DEFINE ur == UrOf(ice)
             w == ClassesOf(sheet, ice.elev, Hcdefs)
             s == matrices.standard
             x == sheet.x
             geom == sheet.geom
  <2>1. s = StandardMatrices(sheet, ur)
    BY <1>1 DEF CouplingInv, MatricesOf
  <2>2. /\ s.IvE = IvAE(x, ur.E, ur.I, geom, "E", TRUE)
        /\ s.EvI = AEvI(x, ur.E, ur.I, geom, "E", TRUE)
        /\ s.IvA = IvAE(x, ur.A, ur.I, geom, "A", TRUE)
        /\ s.AvI = AEvI(x, ur.A, ur.I, geom, "A", TRUE)
    BY <2>1 DEF StandardMatrices
  <2>3. SheetGood(sheet) /\ SharesOut(x.area, w, Spacing(Hcdefs))
    BY <1>1 DEF GroundInv, GroundOf, Ground
  <2>4. /\ ur.E = Shares(x.a, x.area, w)
        /\ ur.A = AreasOver(x.a, x.area, DOMAIN w)
        /\ ur.I = AreasOver(x.i, x.area, DOMAIN w)
    BY <2>3, UrShares DEF UrOf
  <2> HIDE DEF ur, s, w
  <2>5. IsFiniteSet(DOMAIN w) /\ \A c \in DOMAIN w : x.area[c] \in Nat \ {0}
    BY <2>3 DEF SharesOut
  <2>6. Matrix(ur.E) /\ \A b \in DOMAIN ur.E : x.area[b[1]] \in Nat \ {0}
    <3>1. Matrix(ur.E) /\ DOMAIN ur.E = PlacesOf(x.a, w)
      BY <2>3, <2>4, SharesPlaces
    <3>2. \A b \in PlacesOf(x.a, w) : b[1] \in DOMAIN w
      BY DEF PlacesOf
    <3> QED
      BY <2>5, <3>1, <3>2
  <2>7. ASSUME NEW a
        PROVE  /\ Matrix(AreasOver(a, x.area, DOMAIN w))
               /\ \A b \in DOMAIN AreasOver(a, x.area, DOMAIN w) : x.area[b[1]] \in Nat \ {0}
    BY <2>5, AreasOverCells
  <2>8. /\ Matrix(ur.A) /\ \A b \in DOMAIN ur.A : x.area[b[1]] \in Nat \ {0}
        /\ Matrix(ur.I) /\ \A b \in DOMAIN ur.I : x.area[b[1]] \in Nat \ {0}
    BY <2>4, <2>7
  <2> HIDE DEF x, geom
  <2>9. /\ SameWeights(IvAE(x, ur.E, ur.I, geom, "E", TRUE), AEvI(x, ur.E, ur.I, geom, "E", TRUE))
        /\ SameWeights(IvAE(x, ur.A, ur.I, geom, "A", TRUE), AEvI(x, ur.A, ur.I, geom, "A", TRUE))
    BY <2>6, <2>8, WeightsSame
  <2> QED
    BY <2>2, <2>9 DEF s
<1>2. CouplingInv /\ GroundInv => WeightsBothWays
  BY <1>1 DEF WeightsBothWays, SameWeights
<1>3. Spec => []GroundInv
  BY GroundInvariant
<1> QED
  BY <1>2, <1>3, CouplingInvariant, PTL

-----------------------------------------------------------------------------
(* The classes of the cells that get values *)

\* The weights of the classes, to which sheets add, are numbers.
LEMMA WeightsWhole ==
    ASSUME NEW g, NEW sh, NEW elev, NEW hcdefs, NEW op, NEW om, NEW sp,
           Ground(sh, elev, hcdefs, op, om, sp)
    PROVE  LET w == ModelEMatrices(g, sh, UrO(sh, elev, hcdefs, sh.style), op, om, sp).EvI.wM
           IN  \A e \in DOMAIN w : w[e] \in Int
<1> DEFINE ur == UrO(sh, elev, hcdefs, sh.style)
           m == ModelEMatrices(g, sh, ur, op, om, sp)
           S == LandClasses(sh, elev, hcdefs, op, om)
           h == Helper("E", "I", g, sh, ur, op, om, sp)
           N == [rc \in UpPairs(g, S) |-> h.wXOm[rc[2]]]
           U == UpPairs(g, S)
<1>1. m.EvI.wM = h.wXAm
  BY DEF ModelEMatrices, XAmvGp
<1>2. (\A e \in S : h.wXOm[e] \in Int) /\ h.wXAm = RowSum(N)
  <2>1. LandIs(g, S, h)
    <3>1. "I" \in {"I", "X"}
      OBVIOUS
    <3> QED
      BY <3>1, HelperLand
  <2> HIDE DEF S, h
  <2> QED
    BY <2>1 DEF LandIs
<1>3. IsFiniteSet(S)
  <2> DEFINE a == sh.x.a
             w == ClassesOf(sh, elev, hcdefs)
             P == PlacesOf(a, w)
             T == {b \in P : b[2][1] \in LandIn(op, om)}
             f == [b \in T |-> b[2]]
  <2>1. IsFiniteSet(DOMAIN w) /\ \A c \in DOMAIN w : IsFiniteSet(DOMAIN w[c])
    BY DEF Ground, SharesOut, Sharing
  <2>2. IsFiniteSet(P)
    <3> HIDE DEF w, a
    <3> QED
      BY <2>1, PlacesFinitely
  <2>3. IsFiniteSet(T)
    BY <2>2, FS_Subset
  <2>4. S = {f[b] : b \in T}
    BY DEF LandClasses, ClassesIn
  <2> HIDE DEF S, T, f
  <2> QED
    BY <2>3, <2>4, ImageFinite
<1>4. IsFiniteSet(U)
  <2> DEFINE f == [e \in S |-> <<Up(g, e), e>>]
  <2>1. U = {f[e] : e \in S}
    BY DEF UpPairs
  <2> HIDE DEF U, S, f
  <2> QED
    BY <1>3, <2>1, ImageFinite
<1>5. DOMAIN N = U /\ \A rc \in U : rc[2] \in S /\ N[rc] \in Int
  <2>1. \A rc \in U : rc[2] \in S
    BY DEF UpPairs
  <2> HIDE DEF h, S
  <2> QED
    BY <1>2, <2>1
<1> HIDE DEF ur, m, S, h, N, U
<1>6. ASSUME NEW e \in DOMAIN RowSum(N) PROVE RowSum(N)[e] \in Int
  <2> DEFINE Z == {rc \in DOMAIN N : rc[1] = e}
  <2>1. RowSum(N)[e] = Sum(N, Z)
    BY <1>6 DEF RowSum, Sum
  <2>2. Z \in SUBSET U /\ Ints(N, Z)
    BY <1>5 DEF Ints
  <2>3. IsFiniteSet(Z)
    BY <1>4, <2>2, FS_Subset
  <2> HIDE DEF Z
  <2> QED
    BY <2>1, <2>2, <2>3, SumInt
<1>7. \A e \in DOMAIN m.EvI.wM : m.EvI.wM[e] \in Int
  BY <1>1, <1>2, <1>6
<1> QED
  BY <1>7 DEF m, ur

\* A class has a quotient if there is a weight for it, w or others', and is cleared if not.
FreshAt(gcmE, e, w, others) ==
    gcmE[e].den # 1 <=> e \in DOMAIN w \/ \E v \in others : v.index = e

\* A class of a cell that is sent values of some class has a quotient if it is sent one
\* itself, by this sheet or by others, and is cleared if not.
LEMMA AppliedFresh ==
    ASSUME Precision > 1,
           NEW M, \A x \in DOMAIN M.wM : M.wM[x] \in Int, NEW name, NEW vals,
           NEW others, IsFiniteSet(others), \A v \in others : v.weight \in Int,
           NEW gcmE, NEW e \in DOMAIN gcmE,
           NEW y \in DOMAIN M.wM, CellOfE(y) = CellOfE(e)
    PROVE  FreshAt(AppliedE(gcmE, GcmIvals(name, M, vals) \cup others), e, M.wM, others)
<1> DEFINE w == M.wM
           r(x) == [sheet |-> name, index |-> x, weight |-> w[x], vals |-> vals[x]]
           own == {r(x) : x \in DOMAIN w}
           vec == own \cup others
           at == {v \in vec : v.index = e}
           F(v) == v.weight
<1>0. GcmIvals(name, M, vals) = own
  BY DEF GcmIvals
<1>1. \A x \in DOMAIN w : r(x).index = x /\ r(x).weight \in Int
  OBVIOUS
<1>2. r(y) \in vec /\ CellOfE(r(y).index) = CellOfE(e)
  BY <1>1
<1> HIDE DEF r
<1>3. at # {} <=> e \in DOMAIN w \/ \E v \in others : v.index = e
  <2>1. ASSUME NEW v \in at PROVE e \in DOMAIN w \/ \E u \in others : u.index = e
    <3>1. CASE v \in others
      BY <2>1, <3>1
    <3>2. CASE v \in own
      <4>1. PICK x \in DOMAIN w : v = r(x)
        BY <3>2
      <4> QED
        BY <1>1, <2>1, <4>1
    <3> QED
      BY <3>1, <3>2
  <2>2. ASSUME e \in DOMAIN w PROVE r(e) \in at
    BY <1>1, <2>2
  <2> QED
    BY <2>1, <2>2
<1>4. IsFiniteSet(at)
  <2>1. at \in SUBSET ({r(e)} \cup others)
    BY <1>1
  <2>2. IsFiniteSet({r(e)} \cup others)
    BY FS_Singleton, FS_Union
  <2> QED
    BY <2>1, <2>2, FS_Subset
<1>5. \A v \in at : F(v) \in Int
  BY <1>1
<1> DEFINE app == AppliedE(gcmE, vec)[e]
<1>6. /\ at # {} => app.den = DenseScale(vec, e)
      /\ at = {} => app.den = 1
  BY <1>2 DEF AppliedE
<1>7. DenseScale(vec, e) = Precision * MapThenSumSet(LAMBDA v : F(v), at)
  BY DEF DenseScale, Summed
<1> HIDE DEF at, app, vec
<1>8. DenseScale(vec, e) # 1
  <2> DEFINE f == [v \in at |-> F(v)]
             n == Sum(f, at)
  <2>1. MapThenSumSet(LAMBDA v : F(v), at) = n
    BY DEF Sum, MapThenSumSet, MapThenFoldSet
  <2>2. Ints(f, at)
    BY <1>5 DEF Ints
  <2> HIDE DEF f
  <2>3. n \in Int
    BY <1>4, <2>2, SumInt
  <2>4. DenseScale(vec, e) = Precision * n
    BY <1>7, <2>1
  <2> HIDE DEF n
  <2>5. Precision \in Int /\ Precision > 1
    BY HntrAssumption
  <2>6. Precision * n # 1
    BY <2>3, <2>5
  <2> QED
    BY <2>4, <2>6
<1>9. app.den # 1 <=> e \in DOMAIN w \/ \E v \in others : v.index = e
  BY <1>3, <1>6, <1>8
<1>10. FreshAt(AppliedE(gcmE, vec), e, w, others)
  BY <1>9 DEF app, FreshAt
<1> QED
  BY <1>0, <1>10 DEF vec, r

\* Inductive: other sheets add numbers, on the atmosphere grid that is or will be made, and
\* once there is ice the classes of its cells are fresh.
FreshInv ==
    /\ phase \in {"grids", "overlap"} /\ ~HntrAFails(spec) =>
         NeighboursWeigh(AGridOf(spec, DOMAIN gridO))
    /\ phase = "ready" => NeighboursWeigh(agridA)
    /\ ice # None => phase \in {"ready", "failed"}
    /\ ClassesFresh

\* A coupling that does not fail gives the classes of the cells with ice fresh values.
LEMMA CoupledFresh ==
    ASSUME NeighbourWeights, NeighboursWeigh(agridA), UNCHANGED agridA,
           NEW elev, NEW ocean, CouplesWith(elev, ocean)
    PROVE  ClassesFresh'
<1> DEFINE new == ModelEMatrices(spec, sheet, UrO(sheet, elev, Hcdefs, sheet.style),
                                 ocean.op, ocean.om, Spacing(Hcdefs))
           out == IceModel(IceInput, elev)
           M == new.EvI
           w == M.wM
           vals == [e \in DOMAIN w |-> Regridded(M, e, [i \in DOMAIN out |-> ToE(out[i])])]
           own == GcmIvals("this", M, vals)
           others == Neighbours(agridA).E
<1>1. /\ matrices'.modele = new
      /\ gcm'.E = AppliedE(gcm.E, GcmIvalsE("this", new.EvI, out) \cup others)
  BY DEF CouplesWith, CoupledWith, Coupled
<1>2. GcmIvalsE("this", new.EvI, out) = own
  BY DEF GcmIvalsE
<1>3. \A e \in DOMAIN w : w[e] \in Int
  BY WeightsWhole DEF CouplesWith
<1>4. IsFiniteSet(others) /\ (\A v \in others : v.weight \in Int) /\ Precision > 1
  BY DEF NeighboursWeigh, NeighbourWeights
<1> HIDE DEF out, vals, others, new
<1> HIDE DEF M, own, w
<1>5. gcm'.E = AppliedE(gcm.E, own \cup others) /\ DOMAIN gcm'.E = DOMAIN gcm.E
  BY <1>1, <1>2 DEF AppliedE
<1>6. matrices'.modele.EvI.wM = w /\ Neighbours(agridA').E = others
  BY <1>1 DEF M, w, others
<1>7. ASSUME NEW e \in DOMAIN gcm.E, NEW y \in DOMAIN w, CellOfE(y) = CellOfE(e)
      PROVE  FreshAt(gcm'.E, e, w, others)
  <2> DEFINE gE == gcm.E
  <2> HIDE DEF gE
  <2>1. /\ \A x \in DOMAIN M.wM : M.wM[x] \in Int
        /\ e \in DOMAIN gE /\ y \in DOMAIN M.wM
    BY <1>3, <1>7 DEF w, gE
  <2>2. FreshAt(AppliedE(gE, GcmIvals("this", M, vals) \cup others), e, M.wM, others)
    BY <1>4, <1>7, <2>1, AppliedFresh
  <2> QED
    BY <1>5, <2>2 DEF own, w, gE
<1>8. ASSUME NEW e \in DOMAIN gcm'.E,
             CellOfE(e) \in {CellOfE(x) : x \in DOMAIN w}
      PROVE  gcm'.E[e].den # 1 <=> e \in DOMAIN w \/ \E v \in others : v.index = e
  <2>1. PICK y \in DOMAIN w : CellOfE(y) = CellOfE(e)
    BY <1>8
  <2>2. e \in DOMAIN gcm.E
    BY <1>5
  <2> QED
    BY <1>7, <2>1, <2>2 DEF FreshAt
<1> QED
  BY <1>6, <1>8 DEF ClassesFresh

\* Every step keeps the invariant.
LEMMA FreshKept ==
    ASSUME LandElevations, NeighbourWeights
    PROVE  GridsInv /\ GroundInv /\ FreshInv /\ [Next]_vars => FreshInv'
<1> SUFFICES ASSUME GridsInv, GroundInv, FreshInv, [Next]_vars PROVE FreshInv'
  OBVIOUS
<1>0. ASSUME UNCHANGED <<ice, matrices, gcm, agridA>> PROVE ClassesFresh'
  BY <1>0 DEF FreshInv, ClassesFresh
<1>1. ASSUME UNCHANGED <<phase, spec, gridO, agridA, ice, matrices, gcm>> PROVE FreshInv'
  BY <1>0, <1>1 DEF FreshInv
<1>2. CASE RegridTool
  BY <1>1, <1>2 DEF RegridTool, coupled
<1>3. CASE MakeGrids
  <2>1. phase = "start" /\ UNCHANGED <<ice, matrices, gcm, agridA>>
    BY <1>3 DEF MakeGrids, coupled
  <2>2. ice' = None /\ ClassesFresh'
    BY <1>0, <2>1 DEF FreshInv
  <2>3. CASE phase' = "failed"
    BY <2>2, <2>3 DEF FreshInv
  <2>4. CASE phase' # "failed"
    <3>1. PICK g \in Specs, caps \in Caps, zone \in Zones :
              phase' = "grids" /\ spec' = g /\ gridO' = LonLatGrid(g, caps, zone)
      BY <1>3, <2>4 DEF MakeGrids
    <3>2. ~HntrAFails(spec') => NeighboursWeigh(AGridOf(spec', DOMAIN gridO'))
      BY <3>1 DEF NeighbourWeights
    <3> QED
      BY <2>2, <3>1, <3>2 DEF FreshInv
  <2> QED
    BY <2>3, <2>4
<1>4. CASE OverlapGrids
  <2>1. /\ phase = "grids" /\ phase' \in {"overlap", "failed"}
        /\ UNCHANGED <<ice, matrices, gcm, agridA, spec, gridO>>
    BY <1>4 DEF OverlapGrids, coupled
  <2> QED
    BY <1>0, <2>1 DEF FreshInv
<1>5. CASE NewRegridder
  <2>1. /\ phase = "overlap" /\ UNCHANGED ice
        /\ \/ phase' = "failed"
           \/ /\ phase' = "ready" /\ ~HntrAFails(spec)
              /\ agridA' = AGridOf(spec, DOMAIN gridO)
    BY <1>5 DEF NewRegridder
  <2>2. ice' = None
    BY <2>1 DEF FreshInv
  <2>3. ClassesFresh'
    BY <2>2 DEF ClassesFresh
  <2>4. phase' = "ready" => NeighboursWeigh(agridA')
    BY <2>1 DEF FreshInv
  <2> QED
    BY <2>1, <2>2, <2>3, <2>4 DEF FreshInv
<1>6. CASE Couple
  <2>1. phase = "ready" /\ UNCHANGED <<spec, gridO, agridA>>
    BY <1>6 DEF Couple
  <2>2. CASE UNCHANGED coupled /\ phase' = "failed"
    BY <1>0, <2>1, <2>2 DEF coupled, FreshInv
  <2>3. CASE ~(UNCHANGED coupled /\ phase' = "failed")
    <3>1. PICK elev, ocean : CouplesWith(elev, ocean)
      BY <1>6, <2>3, CoupledGround
    <3>2. phase' = "ready"
      BY <2>1, <3>1 DEF CouplesWith, CoupledWith, Coupled
    <3>3. NeighboursWeigh(agridA)
      BY <2>1 DEF FreshInv
    <3>4. ClassesFresh'
      BY <2>1, <3>1, <3>3, CoupledFresh
    <3> QED
      BY <2>1, <3>2, <3>3, <3>4 DEF FreshInv
  <2> QED
    BY <2>2, <2>3
<1>7. CASE UNCHANGED vars
  BY <1>1, <1>7 DEF vars, coupled
<1> QED
  BY <1>2, <1>3, <1>4, <1>5, <1>6, <1>7 DEF Next

\* Whatever ice there was before: once a coupling has sent a cell values for some classes, just
\* the classes of the ice as it is now, and those that other sheets send, have a quotient of
\* ModelE's; all others are cleared (the loop of apply_gcm_ivals() over a cell's classes).
THEOREM ClassesAreFresh ==
    ASSUME LandElevations, OceanFractions, WithinPoles, NeighbourWeights
    PROVE  Spec => []ClassesFresh
<1>1. Init => FreshInv
  BY DEF Init, FreshInv, ClassesFresh
<1>2. GridsInv /\ GroundInv /\ FreshInv /\ [Next]_vars => FreshInv'
  BY FreshKept
<1>3. FreshInv => ClassesFresh
  BY DEF FreshInv
<1>4. Spec => []GroundInv
  BY GroundInvariant
<1> QED
  BY <1>1, <1>2, <1>3, <1>4, GridsInvariant, PTL DEF Spec

-----------------------------------------------------------------------------
(* The cells that Hntr visits *)

\* A grid that Hntr can cover with another one: offset by a cell at most.
Covering(g) ==
    /\ g.im \in Nat \ {0} /\ g.jm \in Nat \ {0} /\ g.dlat \in Nat \ {0}
    /\ g.offi \in 0..4 /\ EdgesInside(g)

\* The eastern edge of a cell of A and the western edge of one of B, along a latitude
RIA(A, B, ia) == (4 * (ia - A.im) + A.offi) * B.im
RIB(A, B, ib) == (4 * (ib - 1) + B.offi) * A.im

\* The edges are equally spaced, and those of a turn later are a turn further.
EquallySpaced(A, B) ==
    /\ \A i \in Int : RIA(A, B, i) \in Int /\ RIB(A, B, i) \in Int
    /\ \A i \in Int : RIA(A, B, i) = RIA(A, B, i - 1) + 4 * B.im
    /\ \A i \in Int : RIB(A, B, i + 1) = RIB(A, B, i) + 4 * A.im

\* They are, and Beyond() compares them.
LEMMA EdgesSpaced ==
    ASSUME NEW A, Covering(A), NEW B, Covering(B)
    PROVE  /\ EquallySpaced(A, B)
           /\ \A i \in Int : RIA(A, B, i + A.im) = RIA(A, B, i) + 4 * A.im * B.im
           /\ RIB(A, B, 1 + B.im) = RIB(A, B, 1) + 4 * A.im * B.im
           /\ \A ia, ib \in Int : Beyond(A, B, ia, ib) = RIA(A, B, ia) - RIB(A, B, ib)
<1> DEFINE a == A.im
           b == B.im
           p == A.offi
           q == B.offi
<1>1. a \in Nat \ {0} /\ b \in Nat \ {0} /\ p \in Int /\ q \in Int
  BY DEF Covering
<1>2. /\ \A i \in Int : RIA(A, B, i) = (4 * (i - a) + p) * b
      /\ \A i \in Int : RIB(A, B, i) = (4 * (i - 1) + q) * a
  BY DEF RIA, RIB
<1>3. \A ia, ib \in Int : Beyond(A, B, ia, ib) = RIA(A, B, ia) - RIB(A, B, ib)
  BY DEF RIA, RIB, Beyond
<1> HIDE DEF a, b, p, q
<1>4. \A i \in Int : RIA(A, B, i) \in Int /\ RIB(A, B, i) \in Int
  BY <1>1, <1>2
<1>5. \A i \in Int : RIA(A, B, i) = RIA(A, B, i - 1) + 4 * b
  <2> SUFFICES ASSUME NEW i \in Int PROVE RIA(A, B, i) = RIA(A, B, i - 1) + 4 * b
    OBVIOUS
  <2>1. RIA(A, B, i) = (4 * (i - a) + p) * b /\ RIA(A, B, i - 1) = (4 * (i - 1 - a) + p) * b
    BY <1>2, i - 1 \in Int
  <2>2. (4 * (i - a) + p) * b = (4 * (i - 1 - a) + p) * b + 4 * b
    BY <1>1
  <2> QED
    BY <2>1, <2>2
<1>6. \A i \in Int : RIB(A, B, i + 1) = RIB(A, B, i) + 4 * a
  <2> SUFFICES ASSUME NEW i \in Int PROVE RIB(A, B, i + 1) = RIB(A, B, i) + 4 * a
    OBVIOUS
  <2>1. RIB(A, B, i) = (4 * (i - 1) + q) * a /\ RIB(A, B, i + 1) = (4 * (i + 1 - 1) + q) * a
    BY <1>2, i + 1 \in Int
  <2>2. (4 * (i + 1 - 1) + q) * a = (4 * (i - 1) + q) * a + 4 * a
    BY <1>1
  <2> QED
    BY <2>1, <2>2
<1>7. \A i \in Int : RIA(A, B, i + a) = RIA(A, B, i) + 4 * a * b
  <2> SUFFICES ASSUME NEW i \in Int PROVE RIA(A, B, i + a) = RIA(A, B, i) + 4 * a * b
    OBVIOUS
  <2>1. RIA(A, B, i) = (4 * (i - a) + p) * b /\ RIA(A, B, i + a) = (4 * (i + a - a) + p) * b
    BY <1>1, <1>2, i + a \in Int
  <2>2. (4 * (i + a - a) + p) * b = (4 * (i - a) + p) * b + 4 * a * b
    BY <1>1
  <2> QED
    BY <2>1, <2>2
<1>8. RIB(A, B, 1 + b) = RIB(A, B, 1) + 4 * a * b
  <2>1. RIB(A, B, 1) = (4 * (1 - 1) + q) * a /\ RIB(A, B, 1 + b) = (4 * (1 + b - 1) + q) * a
    BY <1>1, <1>2, 1 + b \in Int, 1 \in Int
  <2>2. (4 * (1 + b - 1) + q) * a = (4 * (1 - 1) + q) * a + 4 * a * b
    BY <1>1
  <2> QED
    BY <2>1, <2>2
<1> QED
  BY <1>3, <1>4, <1>5, <1>6, <1>7, <1>8 DEF a, b, EquallySpaced

\* Edges further east are.
LEMMA EastwardEdges ==
    ASSUME NEW A, Covering(A), NEW B, Covering(B), NEW i \in Int, NEW k \in Int, i <= k
    PROVE  RIA(A, B, i) <= RIA(A, B, k) /\ RIB(A, B, i) <= RIB(A, B, k)
<1> DEFINE a == A.im
           b == B.im
           p == A.offi
           q == B.offi
<1>1. a \in Nat \ {0} /\ b \in Nat \ {0} /\ p \in Int /\ q \in Int
  BY DEF Covering
<1>2. /\ RIA(A, B, i) = (4 * (i - a) + p) * b /\ RIA(A, B, k) = (4 * (k - a) + p) * b
      /\ RIB(A, B, i) = (4 * (i - 1) + q) * a /\ RIB(A, B, k) = (4 * (k - 1) + q) * a
  BY DEF RIA, RIB
<1> HIDE DEF a, b, p, q
<1>3. /\ (4 * (k - a) + p) * b = (4 * (i - a) + p) * b + (4 * (k - i)) * b
      /\ (4 * (k - 1) + q) * a = (4 * (i - 1) + q) * a + (4 * (k - i)) * a
  BY <1>1
<1>4. (4 * (k - i)) * b >= 0 /\ (4 * (k - i)) * a >= 0
  BY <1>1
<1> DEFINE u == (4 * (k - i)) * b
           v == (4 * (k - i)) * a
           x == (4 * (i - a) + p) * b
           y == (4 * (i - 1) + q) * a
<1>5. u \in Int /\ v \in Int /\ x \in Int /\ y \in Int
  BY <1>1
<1>6. RIA(A, B, i) = x /\ RIA(A, B, k) = x + u /\ RIB(A, B, i) = y /\ RIB(A, B, k) = y + v
      /\ u >= 0 /\ v >= 0
  BY <1>2, <1>3, <1>4
<1> HIDE DEF u, v, x, y
<1> QED
  BY <1>5, <1>6

\* The search for a western edge finds the cell of A that has it: partition_east_west.
LEMMA EdgeCellFound ==
    ASSUME NEW A, Covering(A), NEW B, Covering(B), NEW ib \in 1..(B.im)
    PROVE  LET c == EdgeCell(A, B, ib)
           IN  /\ c \in 1..(2 * A.im + 1)
               /\ RIA(A, B, c - 1) <= RIB(A, B, ib) /\ RIB(A, B, ib) <= RIA(A, B, c)
<1> DEFINE R(i) == RIA(A, B, i)
           x == RIB(A, B, ib)
           S == {ia \in 1..(2 * A.im + 1) : Beyond(A, B, ia, ib) >= 0}
           c == Min(S)
<1>1. A.im \in Nat \ {0} /\ B.im \in Nat \ {0} /\ A.offi \in 0..4 /\ B.offi \in 0..4 /\ ib \in Int
  BY DEF Covering
<1>2. x \in Int /\ \A i \in Int : R(i) \in Int /\ (Beyond(A, B, i, ib) = R(i) - x)
  BY <1>1, EdgesSpaced DEF EquallySpaced
<1>3. S \in SUBSET Int /\ \A i \in 1..(2 * A.im + 1) : i \in S <=> x <= R(i)
  BY <1>1, <1>2
<1>4. R(0) <= x
  <2>1. R(0) = (4 * (0 - A.im) + A.offi) * B.im /\ x = (4 * (ib - 1) + B.offi) * A.im
    BY DEF RIA, RIB
  <2>2. 4 * (0 - A.im) + A.offi <= 0 /\ 4 * (ib - 1) + B.offi >= 0
    BY <1>1
  <2>3. (4 * (0 - A.im) + A.offi) * B.im <= 0 /\ (4 * (ib - 1) + B.offi) * A.im >= 0
    BY <1>1, <2>2
  <2> QED
    BY <2>1, <2>3, <1>2
<1>5. x <= R(2 * A.im + 1)
  <2>1. R(2 * A.im + 1) = (4 * ((2 * A.im + 1) - A.im) + A.offi) * B.im
        /\ x = (4 * (ib - 1) + B.offi) * A.im
    BY DEF RIA, RIB
  <2>2. (4 * ((2 * A.im + 1) - A.im) + A.offi) * B.im
        = (4 * A.im) * B.im + (4 + A.offi) * B.im
    BY <1>1
  <2>3. (4 * (ib - 1) + B.offi) * A.im <= (4 * B.im) * A.im
    <3>1. 4 * (ib - 1) + B.offi <= 4 * B.im
      BY <1>1
    <3>2. (4 * B.im) * A.im - (4 * (ib - 1) + B.offi) * A.im
          = (4 * B.im - (4 * (ib - 1) + B.offi)) * A.im
      BY <1>1
    <3>3. (4 * B.im - (4 * (ib - 1) + B.offi)) * A.im >= 0
      BY <1>1, <3>1
    <3> DEFINE u == (4 * B.im) * A.im
               v == (4 * (ib - 1) + B.offi) * A.im
               w == (4 * B.im - (4 * (ib - 1) + B.offi)) * A.im
    <3>4. u \in Int /\ v \in Int /\ w \in Int /\ w >= 0 /\ u - v = w
      BY <1>1, <3>2, <3>3
    <3> HIDE DEF u, v, w
    <3>5. v <= u
      BY <3>4
    <3> QED
      BY <3>5 DEF u, v
  <2>4. (4 + A.offi) * B.im >= 0 /\ (4 * A.im) * B.im = (4 * B.im) * A.im
    BY <1>1
  <2> DEFINE u == (4 * A.im) * B.im
             v == (4 + A.offi) * B.im
  <2>5. u \in Int /\ v \in Int /\ v >= 0 /\ x <= u /\ R(2 * A.im + 1) = u + v
    BY <1>1, <2>1, <2>2, <2>3, <2>4
  <2> HIDE DEF u, v, R, x
  <2> QED
    BY <2>5, <1>2
<1>6. S # {} /\ \A i \in S : 1 <= i
  <2>1. 2 * A.im + 1 \in 1..(2 * A.im + 1)
    BY <1>1
  <2> QED
    BY <1>1, <1>3, <1>5, <2>1
<1>7. c \in S /\ \A y \in S : c <= y
  <2> HIDE DEF S
  <2> QED
    BY <1>3, <1>6, MinBounded, 1 \in Int
<1>8. c \in 1..(2 * A.im + 1)
  BY <1>7
<1>9. x <= R(c)
  BY <1>3, <1>7, <1>8
<1>10. R(c - 1) <= x
  <2>1. CASE c = 1
    BY <1>4, <2>1
  <2>2. CASE c # 1
    <3>1. c - 1 \in 1..(2 * A.im + 1) /\ c - 1 \notin S
      <4> HIDE DEF S
      <4> QED
        BY <1>1, <1>7, <1>8, <2>2
    <3>2. c - 1 \in Int
      BY <1>8
    <3> QED
      BY <3>1, <3>2, <1>2, <1>3
  <2> QED
    BY <2>1, <2>2
<1> QED
  BY <1>8, <1>9, <1>10 DEF EdgeCell

\* What is cut off the first cell of A: IMIN and FMIN.
LEMMA WestFound ==
    ASSUME NEW A, Covering(A), NEW B, Covering(B), NEW ib \in 1..(B.im)
    PROVE  LET w == West(A, B, ib)
           IN  /\ w.cell \in 1..(2 * A.im + 2)
               /\ w.cut = RIB(A, B, ib) - RIA(A, B, w.cell - 1)
               /\ w.cut \in 0..(4 * B.im)
<1> DEFINE R(i) == RIA(A, B, i)
           x == RIB(A, B, ib)
           c == EdgeCell(A, B, ib)
           d == Beyond(A, B, c, ib)
           w == West(A, B, ib)
<1>1. A.im \in Nat \ {0} /\ B.im \in Nat \ {0} /\ ib \in Int
  BY DEF Covering
<1>2. c \in 1..(2 * A.im + 1) /\ R(c - 1) <= x /\ x <= R(c) /\ c \in Int
  BY <1>1, EdgeCellFound
<1>3. x \in Int /\ R(c) \in Int /\ R(c - 1) \in Int /\ d = R(c) - x /\ R(c) = R(c - 1) + 4 * B.im
  BY <1>1, <1>2, EdgesSpaced, c - 1 \in Int DEF EquallySpaced
<1>4. w = IF d = 0 THEN [cell |-> c + 1, cut |-> 0] ELSE [cell |-> c, cut |-> 4 * B.im - d]
  BY DEF West
<1> HIDE DEF R, x, c, d, w
<1>5. w.cell \in 1..(2 * A.im + 2) /\ w.cut = x - R(w.cell - 1) /\ w.cut \in 0..(4 * B.im)
  <2>1. CASE d = 0
    <3>1. w.cell = c + 1 /\ w.cut = 0 /\ w.cell - 1 = c
      BY <1>2, <1>4, <2>1
    <3>2. R(w.cell - 1) = R(c)
      BY <3>1
    <3>3. x - R(c) = 0
      BY <1>3, <2>1
    <3> QED
      BY <3>1, <3>2, <3>3, <1>1, <1>2
  <2>2. CASE d # 0
    <3>1. w.cell = c /\ w.cut = 4 * B.im - d
      BY <1>4, <2>2
    <3> QED
      BY <3>1, <1>1, <1>2, <1>3
  <2> QED
    BY <2>1, <2>2
<1> QED
  BY <1>5 DEF R, x, w

\* What is cut off the last cell of A, around the globe if need be: IMAX and FMAX.
LEMMA EastFound ==
    ASSUME NEW A, Covering(A), NEW B, Covering(B), NEW ib \in 1..(B.im)
    PROVE  LET e == East(A, B, ib)
           IN  /\ e.cell \in 1..(3 * A.im + 1)
               /\ e.cut = RIA(A, B, e.cell) - RIB(A, B, ib + 1)
               /\ e.cut \in 0..(4 * B.im)
<1> DEFINE R(i) == RIA(A, B, i)
           n == (ib % B.im) + 1
           x == RIB(A, B, n)
           c == EdgeCell(A, B, n)
           e == East(A, B, ib)
<1>1. A.im \in Nat \ {0} /\ B.im \in Nat \ {0} /\ ib \in Int
  BY DEF Covering
<1>2. n \in 1..(B.im) /\ n \in Int /\ (IF ib = B.im THEN n = 1 ELSE n = ib + 1)
  <2>1. CASE ib = B.im
    <3>1. ib % B.im = 0
      BY <1>1, <2>1
    <3> QED
      BY <3>1, <1>1, <2>1
  <2>2. CASE ib # B.im
    <3>1. ib \in 0..(B.im - 1)
      BY <1>1, <2>2
    <3>2. ib % B.im = ib
      BY <1>1, <3>1
    <3> QED
      BY <3>2, <1>1, <2>2
  <2> QED
    BY <2>1, <2>2
<1>3. c \in 1..(2 * A.im + 1) /\ R(c - 1) <= x /\ x <= R(c) /\ c \in Int
  <2> HIDE DEF n
  <2> QED
    BY <1>1, <1>2, EdgeCellFound
<1>4. /\ x \in Int /\ R(c) \in Int /\ R(c - 1) \in Int /\ R(c) = R(c - 1) + 4 * B.im
      /\ Beyond(A, B, c, n) = R(c) - x
      /\ R(c + A.im) = R(c) + 4 * A.im * B.im
      /\ RIB(A, B, 1 + B.im) = RIB(A, B, 1) + 4 * A.im * B.im
  <2> HIDE DEF n, c
  <2> QED
    BY <1>1, <1>2, <1>3, EdgesSpaced, c - 1 \in Int DEF EquallySpaced
<1>5. e = [cell |-> c + (IF ib = B.im THEN A.im ELSE 0), cut |-> Beyond(A, B, c, n)]
  BY DEF East
<1> DEFINE turn == 4 * A.im * B.im
<1>6. turn \in Int
  BY <1>1
<1> HIDE DEF n, c, e, turn
<1>7. e.cell \in 1..(3 * A.im + 1) /\ e.cut = R(e.cell) - RIB(A, B, ib + 1)
      /\ e.cut \in 0..(4 * B.im)
  <2>1. CASE ib = B.im
    <3>1. e.cell = c + A.im /\ e.cut = R(c) - x /\ n = 1
      BY <1>2, <1>4, <1>5, <2>1
    <3>2. R(e.cell) = R(c) + turn /\ RIB(A, B, ib + 1) = x + turn
      <4>1. ib + 1 = 1 + B.im
        BY <1>1, <2>1
      <4> QED
        BY <3>1, <4>1, <1>4 DEF turn
    <3> HIDE DEF R, x
    <3> QED
      BY <3>1, <3>2, <1>1, <1>3, <1>4, <1>6
  <2>2. CASE ib # B.im
    <3>1. e.cell = c /\ e.cut = R(c) - x /\ n = ib + 1
      <4>1. c + 0 = c
        BY <1>3
      <4> QED
        BY <1>2, <1>4, <1>5, <2>2, <4>1
    <3>2. RIB(A, B, ib + 1) = x
      BY <3>1
    <3> HIDE DEF R, x
    <3> QED
      BY <3>1, <3>2, <1>1, <1>3, <1>4
  <2> QED
    BY <2>1, <2>2
<1> QED
  BY <1>7 DEF e

\* Between two edges
Clamp(x, u, v) == IF x < u THEN u ELSE IF x > v THEN v ELSE x

\* The k-th cell, from u to v, of those from the first to the last one that reach between x and
\* y, where these two are cut.
Reaches(u, v, x, y, k, first, last, west, east) ==
    /\ u \in Int /\ v \in Int /\ x \in Int /\ y \in Int /\ u <= v /\ x <= y
    /\ k \in Int /\ first \in Int /\ last \in Int /\ west \in Int /\ east \in Int
    /\ k < first => v <= x
    /\ first < k => x <= u
    /\ k = first => u <= x /\ x <= v /\ west = x - u
    /\ last < k => y <= u
    /\ k < last => v <= y
    /\ k = last => u <= y /\ y <= v /\ east = v - y

\* What lies of it between x and y is what is left of it.
LEMMA ClampShare ==
    ASSUME NEW u, NEW v, NEW x, NEW y, NEW k, NEW first, NEW last, NEW west, NEW east,
           Reaches(u, v, x, y, k, first, last, west, east)
    PROVE  /\ Clamp(y, u, v) \in Int /\ Clamp(x, u, v) \in Int
           /\ Clamp(x, u, v) <= Clamp(y, u, v)
           /\ Clamp(y, u, v) - Clamp(x, u, v)
                = IF k \in first..last
                  THEN v - u - (IF k = first THEN west ELSE 0) - (IF k = last THEN east ELSE 0)
                  ELSE 0
<1> DEFINE cx == Clamp(x, u, v)
           cy == Clamp(y, u, v)
           a == IF k = first THEN west ELSE 0
           b == IF k = last THEN east ELSE 0
<1>0. /\ u \in Int /\ v \in Int /\ x \in Int /\ y \in Int /\ u <= v /\ x <= y
      /\ k \in Int /\ first \in Int /\ last \in Int /\ west \in Int /\ east \in Int
  BY DEF Reaches
<1>1. cx \in Int /\ cy \in Int /\ cx <= cy
  BY <1>0 DEF Clamp
<1>2. ASSUME k < first PROVE cx = v /\ cy = v
  BY <1>0, <1>2 DEF Clamp, Reaches
<1>3. ASSUME last < k PROVE cx = u /\ cy = u
  BY <1>0, <1>3 DEF Clamp, Reaches
<1>4. ASSUME first <= k PROVE cx = u + a
  BY <1>0, <1>4 DEF Clamp, Reaches
<1>5. ASSUME k <= last PROVE cy = v - b
  BY <1>0, <1>5 DEF Clamp, Reaches
<1>6. a \in Int /\ b \in Int
  BY <1>0
<1>7. cy - cx = IF k \in first..last THEN v - u - a - b ELSE 0
  <2> HIDE DEF cx, cy, a, b
  <2>1. CASE k \in first..last
    <3>1. cx = u + a /\ cy = v - b
      BY <1>0, <1>4, <1>5, <2>1
    <3> QED
      BY <1>0, <1>6, <2>1, <3>1
  <2>2. CASE k \notin first..last
    <3>1. cx = cy
      BY <1>0, <1>2, <1>3, <2>2
    <3> QED
      BY <1>1, <2>2, <3>1
  <2> QED
    BY <2>1, <2>2
<1> QED
  BY <1>1, <1>7

\* What cell ia of A and cell ib of B have in common of a latitude.
Width(A, B, ib, ia) ==
    Clamp(RIB(A, B, ib + 1), RIA(A, B, ia - 1), RIA(A, B, ia))
        - Clamp(RIB(A, B, ib), RIA(A, B, ia - 1), RIA(A, B, ia))

\* What matrix() multiplies the visit of a cell with: F.
WidthVisited(A, B, ib, ia) ==
    LET w == West(A, B, ib)  e == East(A, B, ib)
    IN  4 * B.im - (IF ia = w.cell THEN w.cut ELSE 0) - (IF ia = e.cell THEN e.cut ELSE 0)

\* It is what they have in common, and they have nothing in common elsewhere.
LEMMA WidthIs ==
    ASSUME NEW A, Covering(A), NEW B, Covering(B), NEW ib \in 1..(B.im), NEW ia \in Int
    PROVE  /\ Width(A, B, ib, ia) \in Nat
           /\ Width(A, B, ib, ia) = IF ia \in West(A, B, ib).cell..East(A, B, ib).cell
                                    THEN WidthVisited(A, B, ib, ia) ELSE 0
<1> DEFINE u == RIA(A, B, ia - 1)
           v == RIA(A, B, ia)
           x == RIB(A, B, ib)
           y == RIB(A, B, ib + 1)
           w == West(A, B, ib)
           e == East(A, B, ib)
           full == 4 * B.im
<1>1. /\ w.cell \in Int /\ w.cut = x - RIA(A, B, w.cell - 1) /\ w.cut \in 0..full
      /\ e.cell \in Int /\ e.cut = RIA(A, B, e.cell) - y /\ e.cut \in 0..full
  <2>1. /\ w.cell \in 1..(2 * A.im + 2) /\ w.cut = x - RIA(A, B, w.cell - 1)
        /\ w.cut \in 0..full
    BY WestFound
  <2>2. /\ e.cell \in 1..(3 * A.im + 1) /\ e.cut = RIA(A, B, e.cell) - y /\ e.cut \in 0..full
    BY EastFound
  <2> HIDE DEF w, e, x, y, full
  <2> QED
    BY <2>1, <2>2
<1>2. B.im \in Nat \ {0} /\ A.im \in Nat \ {0} /\ ib \in Int /\ full \in Nat
  BY DEF Covering
<1>0. /\ \A i \in Int : RIA(A, B, i) \in Int /\ RIB(A, B, i) \in Int
      /\ \A i \in Int : RIA(A, B, i) = RIA(A, B, i - 1) + 4 * B.im
      /\ \A i \in Int : RIB(A, B, i + 1) = RIB(A, B, i) + 4 * A.im
  <2> HIDE DEF w, e, x, y, u, v, full
  <2>1. EquallySpaced(A, B)
    BY EdgesSpaced
  <2> QED
    BY <2>1 DEF EquallySpaced
<1>3. /\ u \in Int /\ v \in Int /\ v = u + full /\ x \in Int /\ y \in Int /\ x <= y
  <2>1. ia - 1 \in Int
    OBVIOUS
  <2>2. y = x + 4 * A.im /\ x \in Int
    BY <1>0, <1>2
  <2>3. u \in Int /\ v \in Int /\ v = u + full
    BY <2>1, <1>0
  <2> HIDE DEF x, y, u, v
  <2> QED
    BY <1>2, <2>2, <2>3
<1>4. \A i, k \in Int : i <= k => RIA(A, B, i) <= RIA(A, B, k)
  BY EastwardEdges
<1>5. \A i \in Int : RIA(A, B, i) \in Int /\ RIA(A, B, i) = RIA(A, B, i - 1) + full
  BY <1>0
<1> HIDE DEF w, e, x, y, full
<1>6. /\ RIA(A, B, w.cell - 1) \in Int /\ RIA(A, B, w.cell) = RIA(A, B, w.cell - 1) + full
      /\ RIA(A, B, e.cell) \in Int /\ RIA(A, B, e.cell) = RIA(A, B, e.cell - 1) + full
      /\ RIA(A, B, e.cell - 1) \in Int
  BY <1>1, <1>5, w.cell - 1 \in Int, e.cell - 1 \in Int
<1>7. ia < w.cell => v <= x
  <2>1. ia < w.cell => RIA(A, B, ia) <= RIA(A, B, w.cell - 1)
    BY <1>1, <1>4
  <2> QED
    BY <1>1, <1>2, <1>3, <1>6, <2>1
<1>8. w.cell < ia => x <= u
  <2>1. w.cell < ia => RIA(A, B, w.cell) <= RIA(A, B, ia - 1)
    BY <1>1, <1>4
  <2> QED
    BY <1>1, <1>2, <1>3, <1>6, <2>1
<1>9. ia = w.cell => u <= x /\ x <= v /\ w.cut = x - u
  BY <1>1, <1>2, <1>3, <1>6
<1>10. e.cell < ia => y <= u
  <2>1. e.cell < ia => RIA(A, B, e.cell) <= RIA(A, B, ia - 1)
    BY <1>1, <1>4
  <2> QED
    BY <1>1, <1>2, <1>3, <1>6, <2>1
<1>11. ia < e.cell => v <= y
  <2>1. ia < e.cell => RIA(A, B, ia) <= RIA(A, B, e.cell - 1)
    BY <1>1, <1>4
  <2> QED
    BY <1>1, <1>2, <1>3, <1>6, <2>1
<1>12. ia = e.cell => u <= y /\ y <= v /\ e.cut = v - y
  BY <1>1, <1>2, <1>3, <1>6
<1> HIDE DEF u, v
<1>13. u <= v /\ w.cut \in Int /\ e.cut \in Int /\ v - u = full
  BY <1>1, <1>2, <1>3
<1>14. /\ Clamp(y, u, v) \in Int /\ Clamp(x, u, v) \in Int
       /\ Clamp(x, u, v) <= Clamp(y, u, v)
       /\ Clamp(y, u, v) - Clamp(x, u, v)
            = IF ia \in w.cell..e.cell
              THEN v - u - (IF ia = w.cell THEN w.cut ELSE 0) - (IF ia = e.cell THEN e.cut ELSE 0)
              ELSE 0
  <2>1. Reaches(u, v, x, y, ia, w.cell, e.cell, w.cut, e.cut)
    BY <1>1, <1>3, <1>7, <1>8, <1>9, <1>10, <1>11, <1>12, <1>13 DEF Reaches
  <2> QED
    BY <2>1, ClampShare
<1>15. Width(A, B, ib, ia) = Clamp(y, u, v) - Clamp(x, u, v)
  BY DEF Width, x, y, u, v
<1>16. WidthVisited(A, B, ib, ia)
       = v - u - (IF ia = w.cell THEN w.cut ELSE 0) - (IF ia = e.cell THEN e.cut ELSE 0)
  BY <1>13 DEF WidthVisited, w, e, full
<1>17. Width(A, B, ib, ia) \in Nat
  <2> DEFINE cx == Clamp(x, u, v)
             cy == Clamp(y, u, v)
  <2>1. cx \in Int /\ cy \in Int /\ cx <= cy /\ Width(A, B, ib, ia) = cy - cx
    BY <1>14, <1>15
  <2> HIDE DEF cx, cy
  <2> QED
    BY <2>1
<1> QED
  BY <1>14, <1>15, <1>16, <1>17 DEF w, e

\* The search for a latitude's northern edge finds the latitude of A that has it:
\* partition_north_south.
LEMMA EdgeRowFound ==
    ASSUME NEW A, Covering(A), NEW B, Covering(B), NEW jb \in 1..(B.jm - 1)
    PROVE  LET r == EdgeRow(A, B, jb)
           IN  /\ r \in 1..(A.jm)
               /\ NorthEdge(A, r - 1) < NorthEdge(B, jb) /\ NorthEdge(B, jb) <= NorthEdge(A, r)
<1> DEFINE x == NorthEdge(B, jb)
           S == {ja \in 1..(A.jm) : NorthEdge(A, ja) >= x}
           r == Min(S)
<1>1. A.jm \in Nat \ {0} /\ B.jm \in Nat \ {0} /\ jb \in Int
  BY DEF Covering
<1>2. /\ \A j \in 0..(A.jm) : NorthEdge(A, j) \in Int
      /\ \A j \in 0..(B.jm) : NorthEdge(B, j) \in Int
      /\ \A i, j \in 0..(B.jm) : i < j => NorthEdge(B, i) < NorthEdge(B, j)
  BY EdgesIncrease DEF Covering
<1>3. NorthEdge(A, 0) < x /\ x < NorthEdge(A, A.jm) /\ x \in Int
  <2>1. NorthEdge(A, 0) = NorthEdge(B, 0) /\ NorthEdge(A, A.jm) = NorthEdge(B, B.jm)
    BY <1>1 DEF NorthEdge
  <2>2. 0 \in 0..(B.jm) /\ B.jm \in 0..(B.jm) /\ jb \in 0..(B.jm) /\ 0 < jb /\ jb < B.jm
    BY <1>1
  <2> QED
    BY <2>1, <2>2, <1>2
<1>4. A.jm \in S /\ S \in SUBSET Int /\ \A i \in S : 1 <= i
  <2>1. A.jm \in 1..(A.jm) /\ A.jm \in 0..(A.jm)
    BY <1>1
  <2> QED
    BY <1>1, <1>2, <1>3, <2>1
<1>5. r \in S /\ \A y \in S : r <= y
  <2> HIDE DEF S
  <2> QED
    BY <1>4, MinBounded, 1 \in Int
<1>6. r \in 1..(A.jm) /\ x <= NorthEdge(A, r)
  <2>1. \A ja \in S : ja \in 1..(A.jm) /\ ja \in 0..(A.jm) /\ NorthEdge(A, ja) >= x
    BY <1>1
  <2> HIDE DEF S, x
  <2>2. NorthEdge(A, r) \in Int
    BY <1>2, <1>5, <2>1
  <2> QED
    BY <1>3, <1>5, <2>1, <2>2
<1>7. NorthEdge(A, r - 1) < x
  <2>1. CASE r = 1
    <3>1. r - 1 = 0
      BY <2>1
    <3> QED
      BY <3>1, <1>3
  <2>2. CASE r # 1
    <3>1. r - 1 \in 1..(A.jm) /\ r - 1 \in 0..(A.jm) /\ ~(r <= r - 1)
      BY <1>1, <1>6, <2>2
    <3>2. r - 1 \notin S
      <4> HIDE DEF S, r
      <4> QED
        BY <1>5, <3>1
    <3>3. ~(NorthEdge(A, r - 1) >= x)
      <4> HIDE DEF r, x
      <4> QED
        BY <3>1, <3>2
    <3>4. NorthEdge(A, r - 1) \in Int
      BY <1>2, <3>1
    <3> HIDE DEF x, r
    <3> QED
      BY <1>3, <3>3, <3>4
  <2> QED
    BY <2>1, <2>2
<1> QED
  BY <1>6, <1>7 DEF EdgeRow

\* What is cut off the first latitude: JMIN and GMIN.
LEMMA SouthFound ==
    ASSUME NEW A, Covering(A), NEW B, Covering(B), NEW jb \in 1..(B.jm)
    PROVE  LET s == South(A, B, jb)
           IN  /\ s.row \in 1..(A.jm)
               /\ s.cut = NorthEdge(B, jb - 1) - NorthEdge(A, s.row - 1)
               /\ NorthEdge(A, s.row - 1) <= NorthEdge(B, jb - 1)
               /\ NorthEdge(B, jb - 1) <= NorthEdge(A, s.row)
<1> DEFINE s == South(A, B, jb)
           r == EdgeRow(A, B, jb - 1)
           x == NorthEdge(B, jb - 1)
           E(j) == NorthEdge(A, j)
<1>1. A.jm \in Nat \ {0} /\ B.jm \in Nat \ {0} /\ jb \in Int
  BY DEF Covering
<1>2. /\ \A j \in 0..(A.jm) : E(j) \in Int
      /\ \A i, j \in 0..(A.jm) : i < j => E(i) < E(j)
      /\ \A j \in 0..(B.jm) : NorthEdge(B, j) \in Int
      /\ \A i, j \in 0..(B.jm) : i < j => NorthEdge(B, i) < NorthEdge(B, j)
  BY EdgesIncrease DEF Covering
<1>3. E(0) = NorthEdge(B, 0) /\ E(A.jm) = NorthEdge(B, B.jm)
  BY <1>1 DEF NorthEdge
<1>4. x \in Int
  BY <1>1, <1>2, jb - 1 \in 0..(B.jm)
<1>5. s = IF jb = 1 THEN [row |-> 1, cut |-> 0]
          ELSE IF E(r) = x THEN [row |-> r + 1, cut |-> 0]
          ELSE [row |-> r, cut |-> x - E(r - 1)]
  BY DEF South
<1>6. CASE jb = 1
  <2>1. s.row = 1 /\ s.cut = 0 /\ s.row - 1 = 0 /\ jb - 1 = 0
    BY <1>5, <1>6
  <2>2. x = E(0)
    BY <1>3, <2>1
  <2>3. E(0) \in Int /\ E(1) \in Int /\ E(0) < E(1)
    BY <1>1, <1>2, 0 \in 0..(A.jm), 1 \in 0..(A.jm)
  <2>4. x <= E(1) /\ 0 = x - E(0) /\ E(0) <= x
    <3> HIDE DEF x, E
    <3> QED
      BY <2>2, <2>3
  <2>5. 1 \in 1..(A.jm)
    BY <1>1
  <2>6. E(s.row) = E(1) /\ E(s.row - 1) = E(0)
    <3> HIDE DEF s, E
    <3> QED
      BY <2>1
  <2> HIDE DEF s, E, x
  <2>7. /\ s.row \in 1..(A.jm) /\ s.cut = x - E(s.row - 1) /\ E(s.row - 1) <= x
        /\ x <= E(s.row)
    BY <2>1, <2>4, <2>5, <2>6
  <2> QED
    BY <2>7 DEF s, E, x
<1>7. CASE jb # 1
  <2>1. jb - 1 \in 1..(B.jm - 1)
    BY <1>1, <1>7
  <2>2. r \in 1..(A.jm) /\ E(r - 1) < x /\ x <= E(r)
    BY <2>1, EdgeRowFound
  <2>3. E(r) \in Int /\ E(r - 1) \in Int /\ E(r - 1) < E(r)
    <3> HIDE DEF r
    <3>1. r \in 0..(A.jm) /\ r - 1 \in 0..(A.jm) /\ r - 1 < r
      BY <1>1, <2>2
    <3> QED
      BY <1>2, <3>1
  <2>4. CASE E(r) = x
    <3>1. r # A.jm
      <4>1. jb - 1 \in 0..(B.jm) /\ B.jm \in 0..(B.jm) /\ jb - 1 < B.jm
        BY <1>1
      <4>2. x < E(A.jm)
        BY <1>2, <1>3, <4>1
      <4>3. E(A.jm) \in Int
        BY <1>1, <1>2, A.jm \in 0..(A.jm)
      <4>4. E(r) # E(A.jm)
        <5> HIDE DEF E, r, x
        <5> QED
          BY <4>2, <4>3, <1>4, <2>4
      <4> QED
        BY <4>4
    <3>2. r + 1 \in 1..(A.jm) /\ r + 1 \in 0..(A.jm) /\ r \in 0..(A.jm) /\ r < r + 1
          /\ (r + 1) - 1 = r
      <4> HIDE DEF r
      <4> QED
        BY <1>1, <2>2, <3>1
    <3>3. E(r + 1) \in Int /\ E(r) < E(r + 1)
      BY <1>2, <3>2
    <3>4. s = [row |-> r + 1, cut |-> 0]
      BY <1>5, <1>7, <2>4
    <3> HIDE DEF s, r, x
    <3>5. s.row = r + 1 /\ s.cut = 0
      BY <3>4
    <3>6. E(s.row - 1) = E(r) /\ E(s.row) = E(r + 1)
      BY <3>5, <3>2
    <3>7. x = E(r) /\ x <= E(r + 1) /\ 0 = x - E(r) /\ E(r) <= x
      <4> HIDE DEF E
      <4> QED
        BY <1>4, <2>3, <2>4, <3>3
    <3> QED
      BY <3>2, <3>5, <3>6, <3>7 DEF s, x
  <2>5. CASE E(r) # x
    <3>1. s = [row |-> r, cut |-> x - E(r - 1)]
      BY <1>5, <1>7, <2>5
    <3> HIDE DEF s, r
    <3>2. s.row = r /\ s.cut = x - E(r - 1)
      BY <3>1
    <3> HIDE DEF E, x
    <3>3. E(r - 1) <= x
      BY <1>4, <2>2, <2>3
    <3> QED
      BY <2>2, <3>2, <3>3 DEF s, x, E
  <2> QED
    BY <2>4, <2>5
<1> QED
  BY <1>6, <1>7

\* What is cut off the last latitude: JMAX and GMAX.
LEMMA NorthFound ==
    ASSUME NEW A, Covering(A), NEW B, Covering(B), NEW jb \in 1..(B.jm)
    PROVE  LET n == North(A, B, jb)
           IN  /\ n.row \in 1..(A.jm)
               /\ n.cut = NorthEdge(A, n.row) - NorthEdge(B, jb)
               /\ NorthEdge(A, n.row - 1) <= NorthEdge(B, jb)
               /\ NorthEdge(B, jb) <= NorthEdge(A, n.row)
<1> DEFINE n == North(A, B, jb)
           r == EdgeRow(A, B, jb)
           x == NorthEdge(B, jb)
           E(j) == NorthEdge(A, j)
<1>1. A.jm \in Nat \ {0} /\ B.jm \in Nat \ {0} /\ jb \in Int
  BY DEF Covering
<1>2. /\ \A j \in 0..(A.jm) : E(j) \in Int
      /\ \A i, j \in 0..(A.jm) : i < j => E(i) < E(j)
      /\ \A j \in 0..(B.jm) : NorthEdge(B, j) \in Int
  BY EdgesIncrease DEF Covering
<1>3. E(A.jm) = NorthEdge(B, B.jm)
  BY <1>1 DEF NorthEdge
<1>4. x \in Int
  BY <1>1, <1>2, jb \in 0..(B.jm)
<1>5. n = IF jb = B.jm THEN [row |-> A.jm, cut |-> 0] ELSE [row |-> r, cut |-> E(r) - x]
  BY DEF North
<1>6. CASE jb = B.jm
  <2>1. n.row = A.jm /\ n.cut = 0 /\ x = E(A.jm)
    BY <1>3, <1>5, <1>6
  <2>2. A.jm - 1 \in 0..(A.jm) /\ A.jm \in 0..(A.jm) /\ A.jm - 1 < A.jm /\ A.jm \in 1..(A.jm)
    BY <1>1
  <2>3. E(A.jm - 1) \in Int /\ E(A.jm) \in Int /\ E(A.jm - 1) < E(A.jm)
    BY <1>2, <2>2
  <2> HIDE DEF n, x, E
  <2>4. E(A.jm - 1) <= x /\ x <= E(A.jm) /\ 0 = E(A.jm) - x
    BY <2>1, <2>3
  <2> QED
    BY <2>1, <2>2, <2>4 DEF n, x, E
<1>7. CASE jb # B.jm
  <2>1. jb \in 1..(B.jm - 1)
    BY <1>1, <1>7
  <2>2. r \in 1..(A.jm) /\ E(r - 1) < x /\ x <= E(r)
    BY <2>1, EdgeRowFound
  <2>3. E(r - 1) \in Int
    <3> HIDE DEF r
    <3>1. r - 1 \in 0..(A.jm)
      BY <1>1, <2>2
    <3> QED
      BY <1>2, <3>1
  <2>4. n.row = r /\ n.cut = E(r) - x
    BY <1>5, <1>7
  <2> HIDE DEF n, x, E, r
  <2>5. E(r - 1) <= x
    BY <1>4, <2>2, <2>3
  <2> QED
    BY <2>2, <2>4, <2>5 DEF n, x, E
<1> QED
  BY <1>6, <1>7

\* What latitude ja of A and latitude jb of B have in common.
Height(A, B, jb, ja) ==
    Clamp(NorthEdge(B, jb), NorthEdge(A, ja - 1), NorthEdge(A, ja))
        - Clamp(NorthEdge(B, jb - 1), NorthEdge(A, ja - 1), NorthEdge(A, ja))

\* What matrix() multiplies the visit of a latitude with: G.
HeightVisited(A, B, jb, ja) ==
    LET s == South(A, B, jb)  n == North(A, B, jb)
    IN  NorthEdge(A, ja) - NorthEdge(A, ja - 1)
            - (IF ja = s.row THEN s.cut ELSE 0) - (IF ja = n.row THEN n.cut ELSE 0)

\* It is what they have in common, and they have nothing in common elsewhere.
LEMMA HeightIs ==
    ASSUME NEW A, Covering(A), NEW B, Covering(B), NEW jb \in 1..(B.jm), NEW ja \in 1..(A.jm)
    PROVE  /\ Height(A, B, jb, ja) \in Nat
           /\ Height(A, B, jb, ja) = IF ja \in South(A, B, jb).row..North(A, B, jb).row
                                     THEN HeightVisited(A, B, jb, ja) ELSE 0
<1> DEFINE E(j) == NorthEdge(A, j)
           u == NorthEdge(A, ja - 1)
           v == NorthEdge(A, ja)
           x == NorthEdge(B, jb - 1)
           y == NorthEdge(B, jb)
           s == South(A, B, jb)
           n == North(A, B, jb)
<1>1. A.jm \in Nat \ {0} /\ B.jm \in Nat \ {0} /\ jb \in Int /\ ja \in Int
  BY DEF Covering
<1>2. /\ \A j \in 0..(A.jm) : E(j) \in Int
      /\ \A i, j \in 0..(A.jm) : i < j => E(i) < E(j)
      /\ \A j \in 0..(B.jm) : NorthEdge(B, j) \in Int
      /\ \A i, j \in 0..(B.jm) : i < j => NorthEdge(B, i) < NorthEdge(B, j)
  BY EdgesIncrease DEF Covering
<1>3. \A i, j \in 0..(A.jm) : i <= j => E(i) <= E(j)
  <2> SUFFICES ASSUME NEW i \in 0..(A.jm), NEW j \in 0..(A.jm), i <= j PROVE E(i) <= E(j)
    OBVIOUS
  <2>1. E(i) \in Int /\ E(j) \in Int /\ (i < j => E(i) < E(j))
    BY <1>2
  <2> HIDE DEF E
  <2>2. CASE i = j
    BY <2>1, <2>2
  <2>3. CASE i < j
    BY <2>1, <2>3
  <2> QED
    BY <1>1, <2>2, <2>3
<1>4. /\ s.row \in 1..(A.jm) /\ s.cut = x - E(s.row - 1) /\ E(s.row - 1) <= x /\ x <= E(s.row)
      /\ n.row \in 1..(A.jm) /\ n.cut = E(n.row) - y /\ E(n.row - 1) <= y /\ y <= E(n.row)
  BY SouthFound, NorthFound
<1>5. x \in Int /\ y \in Int /\ x < y
  BY <1>1, <1>2, jb - 1 \in 0..(B.jm), jb \in 0..(B.jm), jb - 1 < jb
<1>6. u \in Int /\ v \in Int /\ u < v
  BY <1>1, <1>2, ja - 1 \in 0..(A.jm), ja \in 0..(A.jm), ja - 1 < ja
<1> HIDE DEF s, n
<1>7. /\ s.row \in 0..(A.jm) /\ s.row - 1 \in 0..(A.jm) /\ n.row \in 0..(A.jm)
      /\ n.row - 1 \in 0..(A.jm) /\ ja \in 0..(A.jm) /\ ja - 1 \in 0..(A.jm)
      /\ s.row \in Int /\ n.row \in Int
  BY <1>1, <1>4
<1>8. /\ E(s.row) \in Int /\ E(s.row - 1) \in Int /\ E(n.row) \in Int /\ E(n.row - 1) \in Int
  BY <1>2, <1>7
<1>9. /\ ja < s.row => v <= E(s.row - 1)
      /\ s.row < ja => E(s.row) <= u
      /\ n.row < ja => E(n.row) <= u
      /\ ja < n.row => v <= E(n.row - 1)
  <2>1. /\ ja < s.row => ja <= s.row - 1
        /\ s.row < ja => s.row <= ja - 1
        /\ n.row < ja => n.row <= ja - 1
        /\ ja < n.row => ja <= n.row - 1
    BY <1>1, <1>7
  <2> QED
    BY <1>3, <1>7, <2>1
<1>10. /\ ja = s.row => E(s.row - 1) = u /\ E(s.row) = v
       /\ ja = n.row => E(n.row - 1) = u /\ E(n.row) = v
  OBVIOUS
<1> HIDE DEF E, u, v, x, y
<1>11. /\ ja < s.row => v <= x
       /\ s.row < ja => x <= u
       /\ ja = s.row => u <= x /\ x <= v /\ s.cut = x - u
  BY <1>4, <1>5, <1>6, <1>8, <1>9, <1>10
<1>12. /\ n.row < ja => y <= u
       /\ ja < n.row => v <= y
       /\ ja = n.row => u <= y /\ y <= v /\ n.cut = v - y
  BY <1>4, <1>5, <1>6, <1>8, <1>9, <1>10
<1>13. s.cut \in Int /\ n.cut \in Int /\ u <= v /\ x <= y
  BY <1>4, <1>5, <1>6, <1>8
<1>14. /\ Clamp(y, u, v) \in Int /\ Clamp(x, u, v) \in Int
       /\ Clamp(x, u, v) <= Clamp(y, u, v)
       /\ Clamp(y, u, v) - Clamp(x, u, v)
            = IF ja \in s.row..n.row
              THEN v - u - (IF ja = s.row THEN s.cut ELSE 0) - (IF ja = n.row THEN n.cut ELSE 0)
              ELSE 0
  <2>1. Reaches(u, v, x, y, ja, s.row, n.row, s.cut, n.cut)
    BY <1>1, <1>5, <1>6, <1>7, <1>11, <1>12, <1>13 DEF Reaches
  <2> QED
    BY <2>1, ClampShare
<1>15. Height(A, B, jb, ja) = Clamp(y, u, v) - Clamp(x, u, v)
  BY DEF Height, x, y, u, v
<1>16. HeightVisited(A, B, jb, ja)
       = v - u - (IF ja = s.row THEN s.cut ELSE 0) - (IF ja = n.row THEN n.cut ELSE 0)
  BY DEF HeightVisited, s, n, u, v
<1>17. Height(A, B, jb, ja) \in Nat
  <2> DEFINE cx == Clamp(x, u, v)
             cy == Clamp(y, u, v)
  <2>1. cx \in Int /\ cy \in Int /\ cx <= cy /\ Height(A, B, jb, ja) = cy - cx
    BY <1>14, <1>15
  <2> HIDE DEF cx, cy
  <2> QED
    BY <2>1
<1> QED
  BY <1>14, <1>15, <1>16, <1>17 DEF s, n

\* A mean lies between the values that count in it.
LEMMA MeanBounds ==
    ASSUME NEW V, IsFiniteSet(V), NEW w, NEW x, \A v \in V : w[v] \in Nat /\ x[v] \in Int,
           NEW p, p = [v \in V |-> w[v] * x[v]], Sum(w, V) # 0, NEW P \in Nat \ {0}
    PROVE  LET S == Counted(V, w, x)
               q == (Sum(p, V) * P) \div Sum(w, V)
           IN  /\ S # {} /\ IsFiniteSet(S) /\ S \in SUBSET Int
               /\ q \in Int /\ P * Min(S) <= q /\ q <= P * Max(S)
<1> DEFINE U == {u \in V : w[u] > 0}
           S == Counted(V, w, x)
           lo == Min(S)
           hi == Max(S)
           W == Sum(w, V)
           X == Sum(p, V)
           fl == [v \in V |-> lo * w[v]]
           fh == [v \in V |-> hi * w[v]]
<1>1. /\ Ints(w, V) /\ W \in Nat \ {0} /\ Ints(p, V) /\ X \in Int
  <2>1. Ints(w, V) /\ W \in Nat
    BY SumNat DEF Ints
  <2>2. Ints(p, V)
    <3> SUFFICES ASSUME NEW v \in V PROVE p[v] \in Int
      BY DEF Ints
    <3>1. p[v] = w[v] * x[v] /\ w[v] \in Nat /\ x[v] \in Int
      OBVIOUS
    <3> QED
      BY <3>1
  <2> QED
    BY <2>1, <2>2, SumInt
<1>2. U # {}
  <2> SUFFICES ASSUME U = {} PROVE FALSE
    OBVIOUS
  <2>1. \A v \in V : w[v] = 0
    <3> SUFFICES ASSUME NEW v \in V PROVE w[v] = 0
      OBVIOUS
    <3>1. w[v] \in Nat /\ ~(w[v] > 0)
      OBVIOUS
    <3> QED
      BY <3>1
  <2> QED
    BY <2>1, SumZero
<1>3. S # {} /\ IsFiniteSet(S) /\ S \in SUBSET Int
  <2>1. IsFiniteSet(U)
    BY FS_Subset
  <2>2. S = {x[v] : v \in U}
    BY DEF Counted
  <2>3. IsFiniteSet({x[v] : v \in U})
    BY <2>1, ImageFinite
  <2> QED
    BY <1>2, <2>2, <2>3
<1>4. /\ lo \in Int /\ hi \in Int /\ \A y \in S : lo <= y /\ y <= hi
  <2> HIDE DEF S
  <2>1. /\ lo \in S /\ \A y \in S : lo <= y
        /\ hi \in S /\ \A y \in S : y <= hi
    BY <1>3, MinMaxIn
  <2> QED
    BY <1>3, <2>1
<1> HIDE DEF lo, hi
<1>5. \A v \in V : fl[v] \in Int /\ fh[v] \in Int /\ fl[v] <= p[v] /\ p[v] <= fh[v]
  <2> SUFFICES ASSUME NEW v \in V
               PROVE  fl[v] \in Int /\ fh[v] \in Int /\ fl[v] <= p[v] /\ p[v] <= fh[v]
    OBVIOUS
  <2> DEFINE n == w[v]
             z == x[v]
  <2>1. fl[v] = lo * n /\ fh[v] = hi * n /\ p[v] = n * z /\ n \in Nat /\ z \in Int
    OBVIOUS
  <2>2. n > 0 => lo <= z /\ z <= hi
    <3>1. n > 0 => z \in S
      BY DEF Counted
    <3> QED
      BY <1>4, <3>1
  <2> HIDE DEF n, z, fl, fh
  <2>3. CASE n = 0
    BY <1>4, <2>1, <2>3
  <2>4. CASE n # 0
    <3>1. z - lo \in Nat /\ hi - z \in Nat
      BY <1>4, <2>1, <2>2, <2>4
    <3>2. n * z - lo * n = n * (z - lo) /\ hi * n - n * z = n * (hi - z)
      BY <1>4, <2>1
    <3>3. n * (z - lo) \in Nat /\ n * (hi - z) \in Nat
      BY <2>1, <3>1
    <3> DEFINE a == lo * n
               b == n * z
               c == hi * n
    <3>4. a \in Int /\ b \in Int /\ c \in Int /\ b - a \in Nat /\ c - b \in Nat
      BY <1>4, <2>1, <3>2, <3>3
    <3>5. fl[v] = a /\ p[v] = b /\ fh[v] = c
      BY <2>1
    <3> HIDE DEF a, b, c
    <3> QED
      BY <3>4, <3>5
  <2> QED
    BY <2>3, <2>4
<1>6. Sum(fl, V) = lo * W /\ Sum(fh, V) = hi * W
  <2>1. \A v \in V : fl[v] = lo * w[v] /\ fh[v] = hi * w[v]
    OBVIOUS
  <2> HIDE DEF fl, fh
  <2> QED
    BY <1>1, <1>4, <2>1, SumScale
<1>7. Sum(fl, V) <= X /\ X <= Sum(fh, V)
  <2>1. Ints(fl, V) /\ Ints(fh, V)
    BY <1>5 DEF Ints
  <2> HIDE DEF fl, fh
  <2> QED
    BY <1>1, <1>5, <2>1, SumMonotone
<1> HIDE DEF W, X, fl, fh, S
<1> DEFINE q == (X * P) \div W
<1>8. W * (P * lo) <= X * P /\ X * P <= W * (P * hi)
  <2>1. X - lo * W \in Nat /\ hi * W - X \in Nat
    <3> DEFINE a == lo * W
               b == hi * W
    <3>1. a \in Int /\ b \in Int /\ a <= X /\ X <= b
      BY <1>1, <1>4, <1>6, <1>7
    <3> HIDE DEF a, b
    <3>2. X - a \in Nat /\ b - X \in Nat
      BY <1>1, <3>1
    <3> QED
      BY <3>2 DEF a, b
  <2>2. (X - lo * W) * P \in Nat /\ (hi * W - X) * P \in Nat
    <3> DEFINE a == X - lo * W
               b == hi * W - X
    <3> HIDE DEF a, b
    <3>1. a \in Nat /\ b \in Nat
      BY <2>1 DEF a, b
    <3>2. a * P \in Nat /\ b * P \in Nat
      BY <3>1
    <3> QED
      BY <3>2 DEF a, b
  <2>3. (X - lo * W) * P = X * P - W * (P * lo) /\ (hi * W - X) * P = W * (P * hi) - X * P
    BY <1>1, <1>4
  <2> DEFINE a == X * P
             b == W * (P * lo)
             c == W * (P * hi)
  <2>4. a \in Int /\ b \in Int /\ c \in Int
    BY <1>1, <1>4
  <2>5. a - b \in Nat /\ c - a \in Nat
    BY <2>2, <2>3
  <2> HIDE DEF a, b, c
  <2>6. b <= a /\ a <= c
    BY <2>4, <2>5
  <2> QED
    BY <2>6 DEF a, b, c
<1>9. X * P \in Int /\ P * lo \in Int /\ P * hi \in Int
  BY <1>1, <1>4
<1>10. q \in Int /\ P * lo <= q /\ q <= P * hi
  <2> DEFINE n == X * P
             a == P * lo
             b == P * hi
  <2>1. n \in Int /\ a \in Int /\ b \in Int /\ W * a <= n /\ n <= W * b
    BY <1>8, <1>9
  <2> HIDE DEF n, a, b
  <2>2. n \div W \in Int /\ a <= n \div W /\ n \div W <= b
    BY <1>1, <2>1, DivBetween
  <2> QED
    BY <2>2 DEF n, a, b
<1> QED
  BY <1>3, <1>10 DEF S, lo, hi, W, X

\* The cells that a visit may be of
Columns(A, B, b) == West(A, B, b[1]).cell..East(A, B, b[1]).cell
Latitudes(A, B, b) == South(A, B, b[2]).row..North(A, B, b[2]).row
Visit(A, B, b, p) ==
    <<p, <<((p[1] - 1) % A.im) + 1, p[2]>>,
      WidthVisited(A, B, b[1], p[1]) * HeightVisited(A, B, b[2], p[2])>>

\* The visits in those terms
LEMMA VisitsOf ==
    ASSUME NEW A, NEW B, NEW b
    PROVE  Visits(A, B, b)
           = {Visit(A, B, b, p) : p \in Columns(A, B, b) \X Latitudes(A, B, b)}
<1> DEFINE I == Columns(A, B, b)
           J == Latitudes(A, B, b)
           F(p) == Visit(A, B, b, p)
           L == {F(<<ia, ja>>) : ia \in I, ja \in J}
           R == {F(p) : p \in I \X J}
<1>1. Visits(A, B, b) = L
  BY DEF Visits, Visit, Columns, Latitudes, WidthVisited, HeightVisited
<1>2. R = {Visit(A, B, b, p) : p \in Columns(A, B, b) \X Latitudes(A, B, b)}
  OBVIOUS
<1> HIDE DEF F, I, J
<1>3. ASSUME NEW v \in L PROVE v \in R
  <2>1. PICK ia \in I, ja \in J : v = F(<<ia, ja>>)
    OBVIOUS
  <2>2. <<ia, ja>> \in I \X J
    OBVIOUS
  <2> QED
    BY <2>1, <2>2
<1>4. ASSUME NEW v \in R PROVE v \in L
  <2>1. PICK p \in I \X J : v = F(p)
    OBVIOUS
  <2>2. p = <<p[1], p[2]>> /\ p[1] \in I /\ p[2] \in J
    OBVIOUS
  <2> QED
    BY <2>1, <2>2
<1> HIDE DEF L, R
<1>5. L = R
  BY <1>3, <1>4
<1> QED
  BY <1>1, <1>2, <1>5

\* A visit is of a cell of A, and of what it has in common with b.
LEMMA VisitsGood ==
    ASSUME NEW A, Covering(A), NEW B, Covering(B), NEW b \in Cells(B)
    PROVE  /\ IsFiniteSet(Columns(A, B, b) \X Latitudes(A, B, b))
           /\ IsFiniteSet(Visits(A, B, b))
           /\ \A p \in Columns(A, B, b) \X Latitudes(A, B, b) :
                /\ p[1] \in Int /\ p[2] \in 1..(A.jm)
                /\ Visit(A, B, b, p)[2] \in Cells(A)
                /\ Visit(A, B, b, p)[3] = Width(A, B, b[1], p[1]) * Height(A, B, b[2], p[2])
                /\ Visit(A, B, b, p)[3] \in Nat
           /\ \A v \in Visits(A, B, b) : v[2] \in Cells(A) /\ v[3] \in Nat
<1> DEFINE w == West(A, B, b[1])
           e == East(A, B, b[1])
           s == South(A, B, b[2])
           n == North(A, B, b[2])
           I == Columns(A, B, b)
           J == Latitudes(A, B, b)
<1>1. b[1] \in 1..(B.im) /\ b[2] \in 1..(B.jm) /\ A.im \in Nat \ {0} /\ A.jm \in Nat \ {0}
  BY DEF Cells, Covering
<1>2. w.cell \in 1..(2 * A.im + 2) /\ e.cell \in 1..(3 * A.im + 1)
      /\ s.row \in 1..(A.jm) /\ n.row \in 1..(A.jm)
  BY <1>1, WestFound, EastFound, SouthFound, NorthFound
<1>3. /\ w.cell \in Int /\ e.cell \in Int /\ s.row \in Int /\ n.row \in Int
      /\ I = w.cell..e.cell /\ J = s.row..n.row
  <2>1. I = w.cell..e.cell /\ J = s.row..n.row
    BY DEF Columns, Latitudes
  <2> HIDE DEF w, e, s, n
  <2> QED
    BY <1>1, <1>2, <2>1
<1> HIDE DEF w, e, s, n
<1>4. IsFiniteSet(I) /\ IsFiniteSet(J)
  BY <1>3, FS_Interval
<1>5. IsFiniteSet(I \X J)
  BY <1>4, FS_Product
<1>6. ASSUME NEW p \in I \X J
      PROVE  /\ p[1] \in Int /\ p[2] \in 1..(A.jm)
             /\ Visit(A, B, b, p)[2] \in Cells(A)
             /\ Visit(A, B, b, p)[3] = Width(A, B, b[1], p[1]) * Height(A, B, b[2], p[2])
             /\ Visit(A, B, b, p)[3] \in Nat
  <2> DEFINE i == p[1]
             j == p[2]
  <2>1. i \in I /\ j \in J
    OBVIOUS
  <2>2. i \in Int /\ j \in 1..(A.jm)
    <3> HIDE DEF i, j, I, J
    <3>1. i \in w.cell..e.cell /\ j \in s.row..n.row
      BY <1>3, <2>1
    <3>2. i \in Int /\ j \in Int /\ s.row <= j /\ j <= n.row
      BY <1>3, <3>1
    <3>3. 1 <= s.row /\ n.row <= A.jm
      BY <1>1, <1>2
    <3> QED
      BY <1>1, <1>3, <3>2, <3>3
  <2>3. /\ Width(A, B, b[1], i) \in Nat /\ Width(A, B, b[1], i) = WidthVisited(A, B, b[1], i)
        /\ Height(A, B, b[2], j) \in Nat /\ Height(A, B, b[2], j) = HeightVisited(A, B, b[2], j)
    <3>1. i \in w.cell..e.cell /\ j \in s.row..n.row
      BY <1>3, <2>1
    <3> HIDE DEF i, j
    <3> QED
      BY <1>1, <2>2, <3>1, WidthIs, HeightIs DEF w, e, s, n
  <2>4. /\ Visit(A, B, b, p)[2] = <<((i - 1) % A.im) + 1, j>>
        /\ Visit(A, B, b, p)[3] = WidthVisited(A, B, b[1], i) * HeightVisited(A, B, b[2], j)
    BY DEF Visit
  <2> HIDE DEF i, j
  <2>5. ((i - 1) % A.im) + 1 \in 1..(A.im)
    <3>1. (i - 1) % A.im \in 0..(A.im - 1)
      BY <1>1, <2>2, DivModInt, i - 1 \in Int
    <3> HIDE DEF I, J
    <3> QED
      BY <1>1, <3>1
  <2>6. <<((i - 1) % A.im) + 1, j>> \in Cells(A)
    BY <2>2, <2>5 DEF Cells
  <2>7. Width(A, B, b[1], i) * Height(A, B, b[2], j) \in Nat
    BY <2>3
  <2> QED
    BY <2>2, <2>3, <2>4, <2>6, <2>7 DEF i, j
<1>7. Visits(A, B, b) = {Visit(A, B, b, p) : p \in I \X J}
  BY VisitsOf
<1>8. IsFiniteSet(Visits(A, B, b))
  <2> DEFINE f == [p \in I \X J |-> Visit(A, B, b, p)]
  <2>1. IsFiniteSet({f[p] : p \in I \X J})
    <3> HIDE DEF f
    <3> QED
      BY <1>5, ImageFinite
  <2>2. {f[p] : p \in I \X J} = {Visit(A, B, b, p) : p \in I \X J}
    OBVIOUS
  <2> QED
    BY <1>7, <2>1, <2>2
<1>9. \A v \in Visits(A, B, b) : v[2] \in Cells(A) /\ v[3] \in Nat
  BY <1>6, <1>7
<1> QED
  BY <1>5, <1>6, <1>8, <1>9

\* The values that some cells of B get a part of
SourcesOf(A, B, wta, field, row) ==
    {field[v[2]] : v \in {u \in UNION {Visits(A, B, c) : c \in row} : wta[u[2]] > 0 /\ u[3] > 0}}

\* A field with weights
Weighted(A, wta, field) == \A c \in Cells(A) : wta[c] \in Nat /\ field[c] \in Int

\* They are numbers, finitely many of them.
LEMMA SourcesFinite ==
    ASSUME NEW A, Covering(A), NEW B, Covering(B), NEW wta, NEW field, Weighted(A, wta, field),
           NEW row, IsFiniteSet(row), row \in SUBSET Cells(B)
    PROVE  LET S == SourcesOf(A, B, wta, field, row)
           IN  IsFiniteSet(S) /\ S \in SUBSET Int
<1> DEFINE vs == [c \in row |-> Visits(A, B, c)]
           V == UNION {Visits(A, B, c) : c \in row}
           U == {u \in V : wta[u[2]] > 0 /\ u[3] > 0}
           f == [v \in U |-> field[v[2]]]
           S == SourcesOf(A, B, wta, field, row)
<1>1. \A c \in row : IsFiniteSet(Visits(A, B, c)) /\ \A v \in Visits(A, B, c) : v[2] \in Cells(A)
  <2> SUFFICES ASSUME NEW c \in row
               PROVE  IsFiniteSet(Visits(A, B, c)) /\ \A v \in Visits(A, B, c) : v[2] \in Cells(A)
    OBVIOUS
  <2>1. c \in Cells(B)
    OBVIOUS
  <2> QED
    BY <2>1, VisitsGood
<1>2. IsFiniteSet(V)
  <2>1. IsFiniteSet({vs[c] : c \in row})
    <3> HIDE DEF vs
    <3> QED
      BY ImageFinite
  <2>2. \A W \in {vs[c] : c \in row} : IsFiniteSet(W)
    BY <1>1
  <2>3. IsFiniteSet(UNION {vs[c] : c \in row})
    <3> DEFINE Z == {vs[c] : c \in row}
    <3> HIDE DEF Z
    <3>1. IsFiniteSet(UNION Z)
      BY <2>1, <2>2, FS_UNION DEF Z
    <3> QED
      BY <3>1 DEF Z
  <2>4. {vs[c] : c \in row} = {Visits(A, B, c) : c \in row}
    OBVIOUS
  <2> QED
    BY <2>3, <2>4
<1>3. IsFiniteSet(U)
  BY <1>2, FS_Subset
<1>4. S = {f[v] : v \in U}
  BY DEF SourcesOf
<1>5. \A v \in U : f[v] \in Int
  <2> SUFFICES ASSUME NEW v \in U PROVE f[v] \in Int
    OBVIOUS
  <2>1. v[2] \in Cells(A)
    BY <1>1
  <2>2. f[v] = field[v[2]]
    OBVIOUS
  <2> QED
    BY <2>1, <2>2 DEF Weighted
<1> HIDE DEF U, f
<1>6. IsFiniteSet({f[v] : v \in U})
  BY <1>3, ImageFinite
<1> QED
  BY <1>4, <1>5, <1>6

\* What regrid() makes of a cell lies between the values that it gets a part of, be it on its own
\* or with others.
LEMMA CellBounds ==
    ASSUME NEW A, Covering(A), NEW B, Covering(B), NEW wta, NEW field, Weighted(A, wta, field),
           NEW row, IsFiniteSet(row), row \in SUBSET Cells(B), NEW b \in row,
           RegridCell(A, B, wta, field, b) # Missing
    PROVE  LET S == SourcesOf(A, B, wta, field, row)
               r == RegridCell(A, B, wta, field, b)
           IN  /\ S # {} /\ r \in Int
               /\ Precision * Min(S) <= r /\ r <= Precision * Max(S)
<1> DEFINE V == Visits(A, B, b)
           w == [v \in V |-> v[3] * wta[v[2]]]
           x == [v \in V |-> field[v[2]]]
           p == [v \in V |-> w[v] * x[v]]
           C == Counted(V, w, x)
           S == SourcesOf(A, B, wta, field, row)
           r == RegridCell(A, B, wta, field, b)
<1>1. IsFiniteSet(V) /\ \A v \in V : v[2] \in Cells(A) /\ v[3] \in Nat
  <2>1. b \in Cells(B)
    OBVIOUS
  <2> QED
    BY <2>1, VisitsGood
<1>2. \A v \in V : /\ wta[v[2]] \in Nat /\ field[v[2]] \in Int /\ w[v] \in Nat /\ x[v] \in Int
                   /\ (w[v] > 0 <=> wta[v[2]] > 0 /\ v[3] > 0)
  <2> SUFFICES ASSUME NEW v \in V
               PROVE  /\ wta[v[2]] \in Nat /\ field[v[2]] \in Int /\ w[v] \in Nat /\ x[v] \in Int
                      /\ (w[v] > 0 <=> wta[v[2]] > 0 /\ v[3] > 0)
    OBVIOUS
  <2> DEFINE m == wta[v[2]]
             n == v[3]
  <2>1. m \in Nat /\ field[v[2]] \in Int /\ n \in Nat
    BY <1>1 DEF Weighted
  <2>2. w[v] = n * m /\ x[v] = field[v[2]]
    OBVIOUS
  <2> HIDE DEF w, x
  <2>3. n * m \in Nat /\ (n * m > 0 <=> m > 0 /\ n > 0)
    <3> HIDE DEF m, n
    <3>1. n * m \in Nat
      BY <2>1
    <3>2. m = 0 \/ n = 0 => n * m = 0
      BY <2>1
    <3>3. m > 0 /\ n > 0 => n * m > 0
      BY <2>1
    <3> QED
      BY <2>1, <3>1, <3>2, <3>3
  <2> QED
    BY <2>1, <2>2, <2>3
<1>3. r = IF Sum(w, V) = 0 THEN Missing ELSE (Sum(p, V) * Precision) \div Sum(w, V)
  <2>1. MapThenSumSet(LAMBDA v : v[3] * wta[v[2]], V) = Sum(w, V)
    <3> DEFINE F(v) == v[3] * wta[v[2]]
    <3> HIDE DEF F
    <3>1. ASSUME NEW Z PROVE MapThenSumSet(LAMBDA v : F(v), Z) = Sum([v \in Z |-> F(v)], Z)
      BY DEF Sum, MapThenSumSet, MapThenFoldSet
    <3>2. [v \in V |-> F(v)] = w
      BY DEF F
    <3> QED
      BY <3>1, <3>2 DEF F
  <2>2. MapThenSumSet(LAMBDA v : v[3] * wta[v[2]] * field[v[2]], V) = Sum(p, V)
    <3> DEFINE F(v) == v[3] * wta[v[2]] * field[v[2]]
    <3> HIDE DEF F
    <3>1. ASSUME NEW Z PROVE MapThenSumSet(LAMBDA v : F(v), Z) = Sum([v \in Z |-> F(v)], Z)
      BY DEF Sum, MapThenSumSet, MapThenFoldSet
    <3>2. [v \in V |-> F(v)] = p
      BY DEF F
    <3> QED
      BY <3>1, <3>2 DEF F
  <2> QED
    BY <2>1, <2>2 DEF RegridCell
<1>4. Precision \in Nat \ {0} /\ Sum(w, V) # 0
  BY <1>3, HntrAssumption
<1>5. /\ C # {} /\ C \in SUBSET Int /\ IsFiniteSet(C)
      /\ r \in Int /\ Precision * Min(C) <= r /\ r <= Precision * Max(C)
  <2>1. p = [v \in V |-> w[v] * x[v]] /\ \A v \in V : w[v] \in Nat /\ x[v] \in Int
    BY <1>2
  <2> HIDE DEF p, w, x, V
  <2>2. LET q == (Sum(p, V) * Precision) \div Sum(w, V)
        IN  /\ C # {} /\ IsFiniteSet(C) /\ C \in SUBSET Int
            /\ q \in Int /\ Precision * Min(C) <= q /\ q <= Precision * Max(C)
    BY <1>1, <1>4, <2>1, MeanBounds DEF V
  <2> HIDE DEF C, r
  <2> QED
    BY <1>3, <1>4, <2>2
<1>6. C \in SUBSET S
  <2> SUFFICES ASSUME NEW y \in C PROVE y \in S
    OBVIOUS
  <2>1. PICK v \in V : w[v] > 0 /\ y = x[v]
    BY DEF Counted
  <2>2. wta[v[2]] > 0 /\ v[3] > 0 /\ y = field[v[2]]
    BY <1>2, <2>1
  <2>3. v \in UNION {Visits(A, B, c) : c \in row}
    OBVIOUS
  <2> HIDE DEF V, w, x
  <2> QED
    BY <2>2, <2>3 DEF SourcesOf
<1>7. IsFiniteSet(S) /\ S \in SUBSET Int
  BY SourcesFinite
<1> HIDE DEF C, S, r
<1>8. /\ Min(C) \in C /\ Max(C) \in C
      /\ Min(S) \in S /\ Max(S) \in S /\ \A y \in S : Min(S) <= y /\ y <= Max(S)
  BY <1>5, <1>6, <1>7, MinMaxIn
<1>9. /\ Min(C) \in Int /\ Max(C) \in Int /\ Min(S) \in Int /\ Max(S) \in Int
      /\ Min(S) <= Min(C) /\ Max(C) <= Max(S)
  BY <1>5, <1>6, <1>7, <1>8
<1>10. Precision * Min(S) <= Precision * Min(C) /\ Precision * Max(C) <= Precision * Max(S)
  <2> DEFINE a == Min(S)
             c == Min(C)
             d == Max(C)
             e == Max(S)
             P == Precision
  <2>1. P \in Nat /\ a \in Int /\ c \in Int /\ d \in Int /\ e \in Int /\ a <= c /\ d <= e
    BY <1>4, <1>9
  <2> HIDE DEF a, c, d, e, P
  <2>2. P * a <= P * c /\ P * d <= P * e
    <3>1. P * (c - a) >= 0 /\ P * (e - d) >= 0
      BY <2>1
    <3>2. P * (c - a) = P * c - P * a /\ P * (e - d) = P * e - P * d
      BY <2>1
    <3> DEFINE i == P * a
               j == P * c
               k == P * d
               l == P * e
    <3>3. i \in Int /\ j \in Int /\ k \in Int /\ l \in Int
      BY <2>1
    <3>4. j - i >= 0 /\ l - k >= 0
      BY <3>1, <3>2
    <3> HIDE DEF i, j, k, l
    <3>5. i <= j /\ k <= l
      BY <3>3, <3>4
    <3> QED
      BY <3>5 DEF i, j, k, l
  <2> QED
    BY <2>2 DEF a, c, d, e, P
<1>11. S # {}
  BY <1>5, <1>6
<1>12. Precision * Min(S) <= r /\ r <= Precision * Max(S)
  <2> DEFINE a == Precision * Min(S)
             c == Precision * Min(C)
             d == Precision * Max(C)
             e == Precision * Max(S)
  <2>1. a \in Int /\ c \in Int /\ d \in Int /\ e \in Int
    BY <1>4, <1>9
  <2>2. a <= c /\ d <= e /\ c <= r /\ r <= d
    BY <1>5, <1>10
  <2> HIDE DEF a, c, d, e
  <2>3. a <= r /\ r <= e
    BY <1>5, <2>1, <2>2
  <2> QED
    BY <2>3 DEF a, e
<1> QED
  BY <1>5, <1>11, <1>12 DEF S, r

\* The cells that regrid() makes one value of
RowOf(B, polar, b) ==
    IF polar /\ b[2] \in {1, B.jm} THEN {c \in Cells(B) : c[2] = b[2]} ELSE {b}

\* What regrid() makes of a field, with or without means at the poles, lies between the values
\* that the cell, or its polar latitude, gets a part of.
LEMMA FieldBounds ==
    ASSUME NEW A, Covering(A), NEW B, Covering(B), NEW wta, NEW field, Weighted(A, wta, field),
           NEW polar \in BOOLEAN, NEW b \in Cells(B)
    PROVE  LET out == RegridField(A, B, wta, field, polar)[b]
               S == SourcesOf(A, B, wta, field, RowOf(B, polar, b))
           IN  \/ out = Missing
               \/ S # {} /\ Precision * Min(S) <= out /\ out <= Precision * Max(S)
<1> DEFINE f == [c \in Cells(B) |-> RegridCell(A, B, wta, field, c)]
           row == RowOf(B, polar, b)
           S == SourcesOf(A, B, wta, field, row)
           lo == Precision * Min(S)
           hi == Precision * Max(S)
           out == RegridField(A, B, wta, field, polar)[b]
<1>1. B.im \in Nat \ {0} /\ B.jm \in Nat \ {0} /\ b[1] \in 1..(B.im) /\ b[2] \in 1..(B.jm)
      /\ b = <<b[1], b[2]>>
  BY DEF Covering, Cells
<1>2. row \in SUBSET Cells(B) /\ IsFiniteSet(row) /\ b \in row
  <2>1. row \in SUBSET Cells(B) /\ b \in row
    BY DEF RowOf
  <2>2. IsFiniteSet(Cells(B))
    <3>1. IsFiniteSet(1..(B.im)) /\ IsFiniteSet(1..(B.jm))
      <4>1. 1 \in Int /\ B.im \in Int /\ B.jm \in Int
        BY <1>1
      <4> QED
        BY <4>1, FS_Interval
    <3> QED
      BY <3>1, FS_Product DEF Cells
  <2> QED
    BY <2>1, <2>2, FS_Subset
<1>3. ASSUME NEW c \in row, f[c] # Missing
      PROVE  S # {} /\ f[c] \in Int /\ lo <= f[c] /\ f[c] <= hi
  <2>1. f[c] = RegridCell(A, B, wta, field, c)
    BY <1>2
  <2>2. RegridCell(A, B, wta, field, c) # Missing
    BY <1>3, <2>1
  <2>3. LET r == RegridCell(A, B, wta, field, c)
        IN  S # {} /\ r \in Int /\ lo <= r /\ r <= hi
    <3> HIDE DEF row, f
    <3> QED
      BY <1>2, <2>2, CellBounds
  <2> HIDE DEF S, lo, hi, f
  <2> QED
    BY <2>1, <2>3
<1>4. CASE ~(polar /\ b[2] \in {1, B.jm})
  <2>1. out = f[b]
    BY <1>4 DEF RegridField, MeanPolar
  <2>2. CASE f[b] = Missing
    BY <2>1, <2>2
  <2>3. CASE f[b] # Missing
    <3>1. S # {} /\ lo <= f[b] /\ f[b] <= hi
      BY <1>2, <1>3, <2>3
    <3> HIDE DEF f, S, lo, hi
    <3> QED
      BY <2>1, <3>1 DEF S, lo, hi
  <2> QED
    BY <2>2, <2>3
<1>5. CASE polar /\ b[2] \in {1, B.jm} /\ Missing \in PolarRow(B, f, b)
  <2>1. out = Missing
    BY <1>5 DEF RegridField, MeanPolar
  <2> QED
    BY <2>1
<1>6. CASE polar /\ b[2] \in {1, B.jm} /\ Missing \notin PolarRow(B, f, b)
  <2> DEFINE I == 1..(B.im)
             g == [i \in I |-> f[<<i, b[2]>>]]
             low == [i \in I |-> lo]
             high == [i \in I |-> hi]
             n == Sum(g, I)
  <2>1. out = MapThenSumSet(LAMBDA i : f[<<i, b[2]>>], I) \div B.im
    BY <1>6 DEF RegridField, MeanPolar
  <2>2. MapThenSumSet(LAMBDA i : f[<<i, b[2]>>], I) = n
    <3> DEFINE F(i) == f[<<i, b[2]>>]
    <3> HIDE DEF F
    <3>1. ASSUME NEW Z PROVE MapThenSumSet(LAMBDA i : F(i), Z) = Sum([i \in Z |-> F(i)], Z)
      BY DEF Sum, MapThenSumSet, MapThenFoldSet
    <3>2. [i \in I |-> F(i)] = g
      BY DEF F
    <3> QED
      BY <3>1, <3>2 DEF F
  <2>3. \A i \in I : S # {} /\ g[i] \in Int /\ lo <= g[i] /\ g[i] <= hi
    <3> SUFFICES ASSUME NEW i \in I PROVE S # {} /\ g[i] \in Int /\ lo <= g[i] /\ g[i] <= hi
      OBVIOUS
    <3>1. <<i, b[2]>> \in row
      BY <1>1, <1>6 DEF RowOf, Cells
    <3>2. f[<<i, b[2]>>] # Missing
      BY <1>6 DEF PolarRow
    <3>3. g[i] = f[<<i, b[2]>>]
      OBVIOUS
    <3> HIDE DEF f, g, S, lo, hi, row
    <3> QED
      BY <1>3, <3>1, <3>2, <3>3
  <2>4. IsFiniteSet(I) /\ Cardinality(I) = B.im /\ 1 \in I
    <3> DEFINE m == B.im
    <3>1. 1 \in Int /\ m \in Int /\ m >= 1
      BY <1>1
    <3> HIDE DEF m
    <3>2. IsFiniteSet(1..m) /\ Cardinality(1..m) = m - 1 + 1 /\ 1 \in 1..m
      BY <3>1, FS_Interval
    <3> QED
      BY <3>1, <3>2 DEF m
  <2>5. lo \in Int /\ hi \in Int
    <3>1. S # {} /\ IsFiniteSet(S) /\ S \in SUBSET Int
      <4>1. S # {}
        BY <2>3, <2>4
      <4> HIDE DEF row
      <4> QED
        BY <1>2, <4>1, SourcesFinite
    <3> HIDE DEF S
    <3>2. Min(S) \in S /\ Max(S) \in S
      BY <3>1, MinMaxIn
    <3>3. Min(S) \in Int /\ Max(S) \in Int /\ Precision \in Int
      <4>1. Precision \in Nat \ {0}
        BY HntrAssumption
      <4>2. Min(S) \in Int /\ Max(S) \in Int
        BY <3>1, <3>2
      <4> QED
        BY <4>1, <4>2
    <3> DEFINE m == Min(S)
               n1 == Max(S)
    <3> HIDE DEF m, n1
    <3>4. m \in Int /\ n1 \in Int
      BY <3>3 DEF m, n1
    <3>5. Precision * m \in Int /\ Precision * n1 \in Int
      BY <3>3, <3>4
    <3> QED
      BY <3>5 DEF m, n1
  <2> HIDE DEF S, lo, hi, f, out
  <2>6. n \in Int /\ B.im * lo <= n /\ n <= B.im * hi
    <3>1. Ints(g, I) /\ Ints(low, I) /\ Ints(high, I)
      BY <2>3, <2>5 DEF Ints
    <3>2. Sum(low, I) = lo * Cardinality(I) /\ Sum(high, I) = hi * Cardinality(I)
      <4>1. \A i \in I : low[i] = lo /\ high[i] = hi
        OBVIOUS
      <4> HIDE DEF low, high, I
      <4> QED
        BY <2>4, <2>5, <4>1, SumConst
    <3>3. n \in Int /\ Sum(low, I) <= n /\ n <= Sum(high, I)
      <4>1. \A i \in I : low[i] <= g[i] /\ g[i] <= high[i]
        BY <2>3
      <4> HIDE DEF low, high, I, g
      <4> QED
        BY <2>4, <3>1, <4>1, SumMonotone, SumInt
    <3>4. lo * Cardinality(I) = B.im * lo /\ hi * Cardinality(I) = B.im * hi
      BY <1>1, <2>4, <2>5
    <3> HIDE DEF n, low, high, I
    <3> QED
      BY <3>2, <3>3, <3>4
  <2>7. n \div B.im \in Int /\ lo <= n \div B.im /\ n \div B.im <= hi
    <3> HIDE DEF n
    <3> QED
      BY <1>1, <2>5, <2>6, DivBetween
  <2>8. S # {}
    BY <2>3, <2>4
  <2>9. out = n \div B.im
    BY <2>1, <2>2
  <2> HIDE DEF n, I, g
  <2>10. S # {} /\ lo <= out /\ out <= hi
    BY <2>7, <2>8, <2>9
  <2> QED
    BY <2>10 DEF S, lo, hi, out
<1> QED
  BY <1>4, <1>5, <1>6

\* What RegridTool leaves behind
ToolOf(A, B, f, meanPolar) ==
    [A |-> A, B |-> B, wta |-> f.wta, field |-> f.field, polar |-> meanPolar,
     M |-> Overlap(A, B, Cells(B)), out |-> RegridField(A, B, f.wta, f.field, meanPolar)]

\* Inductive: what a tool has regridded, it has regridded with Hntr.
ToolInv ==
    tool # None =>
        \E A \in Specs, B \in Specs, meanPolar \in BOOLEAN :
            \E f \in Fields(A) : tool = ToolOf(A, B, f, meanPolar)

\* The invariant holds at every time.
LEMMA ToolInvariant == Spec => []ToolInv
<1>1. Init => ToolInv
  BY DEF Init, ToolInv
<1>2. ToolInv /\ [Next]_vars => ToolInv'
  <2> SUFFICES ASSUME ToolInv, [Next]_vars PROVE ToolInv'
    OBVIOUS
  <2>1. CASE RegridTool
    <3>1. \E A \in Specs, B \in Specs, meanPolar \in BOOLEAN :
            \E f \in Fields(A) : tool' = ToolOf(A, B, f, meanPolar)
      BY <2>1 DEF RegridTool, ToolOf
    <3> QED
      BY <3>1 DEF ToolInv
  <2>2. CASE UNCHANGED tool
    BY <2>2 DEF ToolInv
  <2>3. CASE MakeGrids
    BY <2>2, <2>3 DEF MakeGrids
  <2>4. CASE OverlapGrids
    BY <2>2, <2>4 DEF OverlapGrids
  <2>5. CASE NewRegridder
    BY <2>2, <2>5 DEF NewRegridder
  <2>6. CASE Couple
    BY <2>2, <2>6 DEF Couple
  <2> QED
    BY <2>1, <2>2, <2>3, <2>4, <2>5, <2>6 DEF Next, vars
<1> QED
  BY <1>1, <1>2, PTL DEF Spec

\* A regular grid of the generators can be covered.
LEMMA RegularCovers ==
    ASSUME OffsetsInCell, NEW g \in Specs, Regular(g)
    PROVE  Covering(g)
<1>1. g \in LonLatSpecs
  BY ExchangeAssumption DEF LonLatSpecs
<1>2. g.im \in Nat \ {0} /\ g.jm \in Nat \ {0} /\ g.dlat \in Nat \ {0}
  BY <1>1 DEF LonLatSpecs
<1>3. g.offi \in 0..4
  BY DEF OffsetsInCell
<1>4. (g.jm - 2) * g.dlat < Quadrant
  <2> DEFINE a == g.jm * g.dlat
             b == (g.jm - 2) * g.dlat
  <2>1. a \in Int /\ b \in Int /\ a - b = 2 * g.dlat
    BY <1>2
  <2>2. Quadrant = a
    BY DEF Regular
  <2> HIDE DEF a, b
  <2>3. b < Quadrant
    BY <1>2, <2>1, <2>2
  <2> QED
    BY <2>3 DEF b
<1> QED
  BY <1>2, <1>3, <1>4 DEF Covering, EdgesInside

\* Regridding makes no value out of nothing: what it gives a cell lies between the values that
\* the cell overlaps with a weight, of the whole latitude at a pole with mean_polar, or is DATMIS.
\* For any two regular grids, whichever offsets they have: hntr.cpp, regrid() and mean_polar.
THEOREM FieldsBounded ==
    ASSUME OffsetsInCell, FieldValues
    PROVE  Spec => []FieldBounded
<1>1. ASSUME ToolInv PROVE FieldBounded
  <2> SUFFICES ASSUME tool # None, Regular(tool.A), Regular(tool.B), NEW b \in Cells(tool.B)
               PROVE  \/ tool.out[b] = Missing
                      \/ /\ Sources(b) # {}
                         /\ tool.out[b] >= Precision * Min(Sources(b))
                         /\ tool.out[b] <= Precision * Max(Sources(b))
    BY DEF FieldBounded
  <2>1. PICK A \in Specs, B \in Specs, meanPolar \in BOOLEAN :
            \E f \in Fields(A) : tool = ToolOf(A, B, f, meanPolar)
    BY <1>1 DEF ToolInv
  <2>2. PICK f \in Fields(A) : tool = ToolOf(A, B, f, meanPolar)
    BY <2>1
  <2>3. /\ tool.A = A /\ tool.B = B /\ tool.wta = f.wta /\ tool.field = f.field
        /\ tool.polar = meanPolar /\ tool.out = RegridField(A, B, f.wta, f.field, meanPolar)
    BY <2>2 DEF ToolOf
  <2>4. Covering(A) /\ Covering(B)
    BY <2>3, RegularCovers
  <2>5. Weighted(A, f.wta, f.field)
    BY DEF FieldValues, Weighted
  <2>6. Sources(b) = SourcesOf(A, B, f.wta, f.field, RowOf(B, meanPolar, b))
    BY <2>3 DEF Sources, SourcesOf, RowOf
  <2> DEFINE S == SourcesOf(A, B, f.wta, f.field, RowOf(B, meanPolar, b))
             out == RegridField(A, B, f.wta, f.field, meanPolar)[b]
  <2>7. \/ out = Missing
        \/ S # {} /\ Precision * Min(S) <= out /\ out <= Precision * Max(S)
    BY <2>3, <2>4, <2>5, FieldBounds
  <2>8. tool.out[b] = out
    BY <2>3
  <2> HIDE DEF S, out
  <2> QED
    BY <2>6, <2>7, <2>8 DEF S
<1> QED
  BY <1>1, ToolInvariant, PTL

-----------------------------------------------------------------------------
(* What grids have in common *)

\* A grid whose areas are those between its edges
Tiling(g) == Covering(g) /\ Regular(g) /\ g.jm % 2 = 0

\* In a regular grid with an even number of latitudes, make_dxyp() has the latitudes between the
\* edges of the partition.
LEMMA EvenRows ==
    ASSUME NEW g, Tiling(g), NEW j \in 1..(g.jm)
    PROVE  Dxyp(g, j) = NorthEdge(g, j) - NorthEdge(g, j - 1)
<1> DEFINE lat(k) == (2 * Quadrant * (k - g.jm \div 2)) \div g.jm
           m == g.jm
           d == g.dlat
           h == m \div 2
<1>1. m \in Nat \ {0} /\ d \in Nat \ {0} /\ Quadrant = m * d /\ m % 2 = 0 /\ Quadrant \in Nat \ {0}
  BY QuadrantIn DEF Tiling, Covering, Regular
<1>2. h \in Nat /\ m = 2 * h
  BY <1>1
<1>3. ASSUME NEW k \in 0..m
      PROVE  lat(k) = (2 * k - m) * d /\ NorthEdge(g, k) = Sine(lat(k))
  <2>1. 2 * Quadrant * (k - h) = m * ((2 * k - m) * d)
    <3> HIDE DEF m, d, h
    <3>1. 2 * Quadrant * (k - h) = 2 * (m * d) * (k - h)
      BY <1>1
    <3>2. 2 * (m * d) * (k - h) = m * ((2 * (k - h)) * d)
      BY <1>1, <1>2
    <3>3. 2 * (k - h) = 2 * k - m
      BY <1>2
    <3> QED
      BY <3>1, <3>2, <3>3
  <2>2. (2 * k - m) * d \in Int
    BY <1>1
  <2>3. lat(k) = (2 * k - m) * d
    <3> DEFINE q == (2 * k - m) * d
               n == 2 * Quadrant * (k - h)
    <3>1. n = m * q /\ q \in Int /\ lat(k) = n \div m
      BY <2>1, <2>2
    <3> HIDE DEF q, n, m
    <3>2. (m * q) \div m = q
      BY <1>1, <3>1, DivExact
    <3> QED
      BY <3>1, <3>2 DEF q
  <2> HIDE DEF lat
  <2>4. CASE k = 0
    <3>1. (2 * k - m) * d = -Quadrant
      BY <1>1, <2>4
    <3>2. Sine(-Quadrant) = -(Quadrant * Quadrant)
      <4>1. Sine(-Quadrant) = (-Quadrant) * (2 * Quadrant - (-(-Quadrant)))
        BY QuadrantIn DEF Sine
      <4> QED
        BY QuadrantIn, <4>1
    <3>3. NorthEdge(g, k) = -(Quadrant * Quadrant)
      BY <2>4 DEF NorthEdge
    <3>4. lat(k) = -Quadrant
      BY <2>3, <3>1
    <3> QED
      BY <2>3, <3>2, <3>3, <3>4
  <2>5. CASE k # 0 /\ k = m
    <3>1. (2 * k - m) * d = Quadrant
      BY <1>1, <2>5
    <3>2. Sine(Quadrant) = Quadrant * Quadrant
      <4>1. Sine(Quadrant) = Quadrant * (2 * Quadrant - Quadrant)
        BY <1>1 DEF Sine
      <4> QED
        BY <1>1, <4>1
    <3>3. NorthEdge(g, k) = Quadrant * Quadrant
      BY <2>5 DEF NorthEdge
    <3>4. lat(k) = Quadrant
      BY <2>3, <3>1
    <3> QED
      BY <2>3, <3>2, <3>3, <3>4
  <2>6. CASE k # 0 /\ k # m
    <3>1. NorthEdge(g, k) = Sine((2 * k - m) * d)
      BY <2>6 DEF NorthEdge
    <3> QED
      BY <2>3, <3>1
  <2> QED
    BY <2>4, <2>5, <2>6
<1>4. Dxyp(g, j) = Sine(lat(j)) - Sine(lat(j - 1))
  BY DEF Dxyp
<1>5. j \in 0..m /\ j - 1 \in 0..m
  BY <1>1
<1> HIDE DEF lat, m
<1> QED
  BY <1>3, <1>4, <1>5

\* What two intervals have in common, either way
LEMMA ClampSwap ==
    ASSUME NEW u \in Int, NEW v \in Int, NEW x \in Int, NEW y \in Int, u <= v, x <= y
    PROVE  Clamp(y, u, v) - Clamp(x, u, v) = Clamp(v, x, y) - Clamp(u, x, y)
BY DEF Clamp

\* The visited cells fill the width of a cell.
LEMMA WidthsSum ==
    ASSUME NEW A, Covering(A), NEW B, Covering(B), NEW b \in Cells(B),
           NEW g, \A ia \in Columns(A, B, b) : g[ia] = Width(A, B, b[1], ia)
    PROVE  Sum(g, Columns(A, B, b)) = 4 * A.im
<1> DEFINE ib == b[1]
           w == West(A, B, ib)
           e == East(A, B, ib)
           x == RIB(A, B, ib)
           y == RIB(A, B, ib + 1)
           R(i) == RIA(A, B, i)
           f == [i \in Int |-> Clamp(R(i), x, y)]
           m == w.cell
           n == e.cell
<1>1. ib \in 1..(B.im) /\ ib \in Int /\ A.im \in Nat \ {0} /\ B.im \in Nat \ {0}
  BY DEF Cells, Covering
<1>2. /\ m \in 1..(2 * A.im + 2) /\ w.cut = x - R(m - 1) /\ w.cut \in 0..(4 * B.im)
      /\ n \in 1..(3 * A.im + 1) /\ e.cut = R(n) - y /\ e.cut \in 0..(4 * B.im)
  BY <1>1, WestFound, EastFound
<1>3. EquallySpaced(A, B)
  BY EdgesSpaced
<1>4. (\A i \in Int : R(i) \in Int) /\ x \in Int /\ y \in Int /\ y = x + 4 * A.im
  BY <1>1, <1>3 DEF EquallySpaced
<1>5. Columns(A, B, b) = m..n
  BY DEF Columns
<1>6. \A ia \in Int : Width(A, B, ib, ia) = Clamp(y, R(ia - 1), R(ia)) - Clamp(x, R(ia - 1), R(ia))
  BY DEF Width
<1>7. \A i, k \in Int : i <= k => R(i) <= R(k)
  BY EastwardEdges
<1> HIDE DEF ib, w, e, x, y, R, m, n
<1>8. m \in Int /\ n \in Int
  BY <1>1, <1>2
<1>9. R(m - 1) <= x /\ y <= R(n) /\ R(m - 1) \in Int /\ R(n) \in Int
  <2>1. R(m - 1) \in Int /\ R(n) \in Int
    BY <1>4, <1>8, m - 1 \in Int
  <2> QED
    BY <1>1, <1>2, <1>4, <2>1
<1>10. m <= n
  <2> SUFFICES ASSUME n <= m - 1 PROVE FALSE
    BY <1>8
  <2>1. R(n) <= R(m - 1)
    BY <1>7, <1>8, m - 1 \in Int
  <2> QED
    BY <1>1, <1>4, <1>9, <2>1
<1>11. \A k \in (m - 1)..n : f[k] \in Int
  <2> SUFFICES ASSUME NEW k \in (m - 1)..n PROVE f[k] \in Int
    OBVIOUS
  <2>1. k \in Int /\ R(k) \in Int
    BY <1>4, <1>8
  <2> QED
    BY <1>4, <2>1 DEF Clamp
<1>12. \A k \in m..n : g[k] = f[k] - f[k - 1]
  <2> SUFFICES ASSUME NEW k \in m..n PROVE g[k] = f[k] - f[k - 1]
    OBVIOUS
  <2>1. k \in Int /\ k - 1 \in Int /\ k - 1 <= k
    BY <1>8
  <2>2. R(k) \in Int /\ R(k - 1) \in Int /\ R(k - 1) <= R(k) /\ x <= y
    BY <1>1, <1>4, <1>7, <2>1
  <2>3. Clamp(y, R(k - 1), R(k)) - Clamp(x, R(k - 1), R(k))
        = Clamp(R(k), x, y) - Clamp(R(k - 1), x, y)
    BY <1>4, <2>2, ClampSwap
  <2>4. g[k] = Width(A, B, ib, k)
    BY <1>5 DEF ib
  <2>5. f[k] = Clamp(R(k), x, y) /\ f[k - 1] = Clamp(R(k - 1), x, y)
    BY <2>1
  <2> HIDE DEF f
  <2> QED
    BY <1>6, <2>1, <2>3, <2>4, <2>5
<1>13. f[n] = y /\ f[m - 1] = x
  <2>1. f[n] = Clamp(R(n), x, y) /\ f[m - 1] = Clamp(R(m - 1), x, y)
    BY <1>8
  <2> QED
    BY <1>1, <1>4, <1>9, <2>1 DEF Clamp
<1>14. Sum(g, m..n) = f[n] - f[m - 1]
  <2> HIDE DEF f
  <2> QED
    BY <1>8, <1>10, <1>11, <1>12, SumTelescopes
<1>15. Sum(g, m..n) = y - x
  BY <1>13, <1>14
<1>16. y - x = 4 * A.im
  BY <1>1, <1>4
<1> QED
  BY <1>5, <1>15, <1>16

\* The visited latitudes fill the height of a cell.
LEMMA HeightsSum ==
    ASSUME NEW A, Covering(A), NEW B, Covering(B), NEW b \in Cells(B),
           NEW g, \A ja \in Latitudes(A, B, b) : g[ja] = Height(A, B, b[2], ja)
    PROVE  Sum(g, Latitudes(A, B, b)) = NorthEdge(B, b[2]) - NorthEdge(B, b[2] - 1)
<1> DEFINE jb == b[2]
           s == South(A, B, jb)
           t == North(A, B, jb)
           x == NorthEdge(B, jb - 1)
           y == NorthEdge(B, jb)
           E(j) == NorthEdge(A, j)
           m == s.row
           n == t.row
           f == [j \in 0..(A.jm) |-> Clamp(E(j), x, y)]
<1>1. jb \in 1..(B.jm) /\ jb \in Int /\ A.jm \in Nat \ {0} /\ B.jm \in Nat \ {0}
  BY DEF Cells, Covering
<1>2. /\ m \in 1..(A.jm) /\ E(m - 1) <= x
      /\ n \in 1..(A.jm) /\ y <= E(n)
  BY <1>1, SouthFound, NorthFound
<1>3. /\ \A j \in 0..(A.jm) : E(j) \in Int
      /\ \A i, j \in 0..(A.jm) : i < j => E(i) < E(j)
      /\ \A j \in 0..(B.jm) : NorthEdge(B, j) \in Int
      /\ \A i, j \in 0..(B.jm) : i < j => NorthEdge(B, i) < NorthEdge(B, j)
  BY EdgesIncrease DEF Covering
<1>4. x \in Int /\ y \in Int /\ x < y
  BY <1>1, <1>3, jb - 1 \in 0..(B.jm), jb \in 0..(B.jm), jb - 1 < jb
<1>5. Latitudes(A, B, b) = m..n
  BY DEF Latitudes
<1>6. \A ja \in Int : Height(A, B, jb, ja) = Clamp(y, E(ja - 1), E(ja)) - Clamp(x, E(ja - 1), E(ja))
  BY DEF Height
<1> HIDE DEF jb, s, t, x, y, E, m, n
<1>7. m \in Int /\ n \in Int /\ m - 1 \in 0..(A.jm) /\ n \in 0..(A.jm) /\ m \in 0..(A.jm)
  BY <1>1, <1>2
<1>8. E(m - 1) \in Int /\ E(n) \in Int
  BY <1>3, <1>7
<1>9. m <= n
  <2> SUFFICES ASSUME n <= m - 1 PROVE FALSE
    BY <1>7
  <2>1. E(n) <= E(m - 1)
    <3>1. CASE n = m - 1
      BY <1>8, <3>1
    <3>2. CASE n < m - 1
      <4>1. E(n) < E(m - 1)
        BY <1>3, <1>7, <3>2
      <4> QED
        BY <1>8, <4>1
    <3> QED
      BY <1>7, <3>1, <3>2
  <2> QED
    BY <1>2, <1>4, <1>8, <2>1
<1>10. \A k \in (m - 1)..n : f[k] \in Int
  <2> SUFFICES ASSUME NEW k \in (m - 1)..n PROVE f[k] \in Int
    OBVIOUS
  <2>1. k \in 0..(A.jm)
    BY <1>1, <1>2, <1>7
  <2>2. E(k) \in Int /\ f[k] = Clamp(E(k), x, y)
    BY <1>3, <2>1
  <2> QED
    BY <1>4, <2>2 DEF Clamp
<1>11. \A k \in m..n : g[k] = f[k] - f[k - 1]
  <2> SUFFICES ASSUME NEW k \in m..n PROVE g[k] = f[k] - f[k - 1]
    OBVIOUS
  <2>1. k \in Int /\ k \in 0..(A.jm) /\ k - 1 \in 0..(A.jm) /\ k - 1 < k
    BY <1>1, <1>2, <1>7
  <2>2. E(k) \in Int /\ E(k - 1) \in Int /\ E(k - 1) <= E(k) /\ x <= y
    <3>1. E(k) \in Int /\ E(k - 1) \in Int /\ E(k - 1) < E(k)
      BY <1>3, <2>1
    <3> QED
      BY <1>4, <3>1
  <2>3. Clamp(y, E(k - 1), E(k)) - Clamp(x, E(k - 1), E(k))
        = Clamp(E(k), x, y) - Clamp(E(k - 1), x, y)
    BY <1>4, <2>2, ClampSwap
  <2>4. g[k] = Height(A, B, jb, k)
    BY <1>5 DEF jb
  <2>5. f[k] = Clamp(E(k), x, y) /\ f[k - 1] = Clamp(E(k - 1), x, y)
    BY <2>1
  <2> HIDE DEF f
  <2> QED
    BY <1>6, <2>1, <2>3, <2>4, <2>5
<1>12. f[n] = y /\ f[m - 1] = x
  <2>1. f[n] = Clamp(E(n), x, y) /\ f[m - 1] = Clamp(E(m - 1), x, y)
    BY <1>7
  <2> QED
    BY <1>2, <1>4, <1>8, <2>1 DEF Clamp
<1>13. Sum(g, m..n) = f[n] - f[m - 1]
  <2> HIDE DEF f
  <2> QED
    BY <1>7, <1>9, <1>10, <1>11, SumTelescopes
<1>14. Sum(g, m..n) = y - x
  BY <1>12, <1>13
<1> QED
  BY <1>5, <1>14 DEF x, y, jb

\* The overlaps of a cell with those it meets are, together, its own area.
LEMMA VisitsFill ==
    ASSUME NEW A, Covering(A), NEW B, Covering(B), NEW b \in Cells(B)
    PROVE  LET P == Columns(A, B, b) \X Latitudes(A, B, b)
           IN  /\ Weight(Visits(A, B, b))
                    = (4 * A.im) * (NorthEdge(B, b[2]) - NorthEdge(B, b[2] - 1))
               /\ Sum([p \in P |-> Visit(A, B, b, p)[3]], P) = Weight(Visits(A, B, b))
<1> DEFINE I == Columns(A, B, b)
           J == Latitudes(A, B, b)
           P == I \X J
           V == Visits(A, B, b)
           f == [ia \in I |-> Width(A, B, b[1], ia)]
           g == [ja \in J |-> Height(A, B, b[2], ja)]
           h == [p \in P |-> Visit(A, B, b, p)[3]]
           name == [p \in P |-> Visit(A, B, b, p)]
           third == [v \in V |-> v[3]]
<1>1. /\ IsFiniteSet(P) /\ IsFiniteSet(V)
      /\ \A p \in P : /\ p[1] \in Int /\ p[2] \in 1..(A.jm)
                      /\ h[p] = Width(A, B, b[1], p[1]) * Height(A, B, b[2], p[2])
                      /\ h[p] \in Nat
      /\ \A v \in V : v[3] \in Nat
  BY VisitsGood
<1>2. b[1] \in 1..(B.im) /\ b[2] \in 1..(B.jm)
  BY DEF Cells
<1>3. V = {Visit(A, B, b, p) : p \in P}
  BY VisitsOf
<1>4. Sum(h, P) = Sum(third, V)
  <2>1. Ints(h, P)
    BY <1>1 DEF Ints
  <2>2. \A p \in P : name[p] \in V /\ third[name[p]] = h[p]
    BY <1>3
  <2>3. \A p, q \in P : name[p] = name[q] => p = q
    <3> SUFFICES ASSUME NEW p \in P, NEW q \in P, name[p] = name[q] PROVE p = q
      OBVIOUS
    <3>1. name[p][1] = p /\ name[q][1] = q
      BY DEF Visit
    <3> QED
      BY <3>1
  <2>4. \A v \in V : \E p \in P : name[p] = v
    BY <1>3
  <2> HIDE DEF h, P, third, V, name
  <2> QED
    BY <1>1, <2>1, <2>2, <2>3, <2>4, SumRename
<1>5. Weight(V) = Sum(third, V)
  <2> DEFINE F(v) == v[3]
  <2>1. ASSUME NEW Z PROVE MapThenSumSet(LAMBDA v : F(v), Z) = Sum([v \in Z |-> F(v)], Z)
    BY DEF Sum, MapThenSumSet, MapThenFoldSet
  <2> QED
    BY <2>1 DEF Weight
<1>6. Sum(f, I) = 4 * A.im /\ Sum(g, J) = NorthEdge(B, b[2]) - NorthEdge(B, b[2] - 1)
  <2>1. /\ \A ia \in I : f[ia] = Width(A, B, b[1], ia)
        /\ \A ja \in J : g[ja] = Height(A, B, b[2], ja)
    OBVIOUS
  <2> HIDE DEF f, g
  <2> QED
    BY <2>1, WidthsSum, HeightsSum
<1>7. /\ IsFiniteSet(I) /\ IsFiniteSet(J)
      /\ I \in SUBSET Int /\ J \in SUBSET (1..(A.jm))
  <2>1. /\ West(A, B, b[1]).cell \in 1..(2 * A.im + 2) /\ East(A, B, b[1]).cell \in 1..(3 * A.im + 1)
        /\ South(A, B, b[2]).row \in 1..(A.jm) /\ North(A, B, b[2]).row \in 1..(A.jm)
    BY <1>2, WestFound, EastFound, SouthFound, NorthFound
  <2> DEFINE m == West(A, B, b[1]).cell
             n == East(A, B, b[1]).cell
             k == South(A, B, b[2]).row
             l == North(A, B, b[2]).row
  <2>2. I = m..n /\ J = k..l /\ A.im \in Nat /\ A.jm \in Nat
    BY DEF Columns, Latitudes, Covering
  <2> HIDE DEF m, n, k, l, I, J
  <2>3. m \in Int /\ n \in Int /\ k \in 1..(A.jm) /\ l \in 1..(A.jm) /\ k \in Int /\ l \in Int
    BY <2>1, <2>2 DEF m, n, k, l
  <2> QED
    BY <2>2, <2>3, FS_Interval
<1>8. Ints(f, I) /\ Ints(g, J)
  <2>1. \A ia \in I : Width(A, B, b[1], ia) \in Nat
    BY <1>2, <1>7, WidthIs
  <2>2. \A ja \in J : Height(A, B, b[2], ja) \in Nat
    BY <1>2, <1>7, HeightIs
  <2> HIDE DEF I, J
  <2> QED
    BY <2>1, <2>2 DEF Ints
<1>9. Sum(h, P) = Sum(f, I) * Sum(g, J)
  <2>1. \A p \in I \X J : h[p] = f[p[1]] * g[p[2]]
    <3> SUFFICES ASSUME NEW p \in I \X J PROVE h[p] = f[p[1]] * g[p[2]]
      OBVIOUS
    <3>1. p[1] \in I /\ p[2] \in J /\ p \in P
      OBVIOUS
    <3>2. f[p[1]] = Width(A, B, b[1], p[1]) /\ g[p[2]] = Height(A, B, b[2], p[2])
      BY <3>1
    <3> HIDE DEF f, g, h
    <3> QED
      BY <1>1, <3>1, <3>2
  <2>2. P = I \X J
    OBVIOUS
  <2> HIDE DEF f, g, h, I, J, P
  <2> QED
    BY <1>7, <1>8, <2>1, <2>2, SumProducts
<1>10. Weight(V) = (4 * A.im) * (NorthEdge(B, b[2]) - NorthEdge(B, b[2] - 1))
  <2> HIDE DEF f, g, h, I, J, P, V, third
  <2> QED
    BY <1>4, <1>5, <1>6, <1>9
<1> QED
  BY <1>4, <1>5, <1>10

\* What the cells of B meet, and what they have in common with it
Meets(A, B, b) == Columns(A, B, b) \X Latitudes(A, B, b)
Crossings(A, B) == UNION {{<<b, p>> : p \in Meets(A, B, b)} : b \in Cells(B)}
Crossing(A, B, d) == <<d[2], d[1], Visit(A, B, d[1], d[2])[2], Visit(A, B, d[1], d[2])[3]>>
CrossingsOf(A, B) == {Crossing(A, B, d) : d \in Crossings(A, B)}

\* They are finitely many, and each has a length and a height.
LEMMA CrossingsGood ==
    ASSUME NEW A, Covering(A), NEW B, Covering(B)
    PROVE  /\ IsFiniteSet(Crossings(A, B)) /\ Entries(CrossingsOf(A, B))
           /\ \A d \in Crossings(A, B) : d[1] \in Cells(B) /\ d[2] \in Meets(A, B, d[1])
<1> DEFINE D == Crossings(A, B)
           F(b) == {<<b, p>> : p \in Meets(A, B, b)}
<1>1. \A d \in D : d[1] \in Cells(B) /\ d[2] \in Meets(A, B, d[1])
  BY DEF Crossings
<1>2. IsFiniteSet(Cells(B))
  <2> DEFINE m == B.im
             n == B.jm
  <2>1. 1 \in Int /\ m \in Int /\ n \in Int
    BY DEF Covering
  <2> HIDE DEF m, n
  <2>2. IsFiniteSet((1..m) \X (1..n))
    BY <2>1, FS_Interval, FS_Product
  <2> QED
    BY <2>2 DEF Cells, m, n
<1>3. ASSUME NEW b \in Cells(B) PROVE IsFiniteSet(F(b))
  <2> DEFINE f == [p \in Meets(A, B, b) |-> <<b, p>>]
  <2>1. IsFiniteSet(Meets(A, B, b))
    BY VisitsGood DEF Meets
  <2>2. F(b) = {f[p] : p \in Meets(A, B, b)}
    OBVIOUS
  <2> HIDE DEF f, F
  <2> QED
    BY <2>1, <2>2, ImageFinite
<1> HIDE DEF F
<1>4. IsFiniteSet(D)
  <2> DEFINE f == [b \in Cells(B) |-> F(b)]
             Z == {f[b] : b \in Cells(B)}
  <2>1. IsFiniteSet(Z)
    <3> HIDE DEF f
    <3> QED
      BY <1>2, ImageFinite
  <2>2. \A s \in Z : IsFiniteSet(s)
    BY <1>3
  <2>3. D = UNION Z
    <3>1. Z = {F(b) : b \in Cells(B)}
      OBVIOUS
    <3> QED
      BY <3>1 DEF Crossings, F
  <2> HIDE DEF Z, D
  <2> QED
    BY <2>1, <2>2, <2>3, FS_UNION
<1>5. Entries(CrossingsOf(A, B))
  <2> DEFINE f == [d \in D |-> Crossing(A, B, d)]
             T == CrossingsOf(A, B)
  <2>1. T = {f[d] : d \in D}
    BY DEF CrossingsOf
  <2>2. IsFiniteSet({f[d] : d \in D})
    <3> HIDE DEF f, D
    <3> QED
      BY <1>4, ImageFinite
  <2>3. \A t \in T : t[4] \in Int
    <3> SUFFICES ASSUME NEW d \in D PROVE Crossing(A, B, d)[4] \in Int
      BY DEF CrossingsOf
    <3>1. Visit(A, B, d[1], d[2])[3] \in Nat
      <4>1. d[1] \in Cells(B) /\ d[2] \in Columns(A, B, d[1]) \X Latitudes(A, B, d[1])
        BY <1>1 DEF Meets
      <4> QED
        BY <4>1, VisitsGood
    <3>2. Crossing(A, B, d)[4] = Visit(A, B, d[1], d[2])[3]
      BY DEF Crossing
    <3> QED
      BY <3>1, <3>2
  <2> QED
    BY <2>1, <2>2, <2>3 DEF Entries
<1> QED
  BY <1>1, <1>4, <1>5

\* What overlap() divides by and multiplies with are the same: an area of the matrix is what two
\* cells have in common.
LEMMA OverlapExact ==
    ASSUME NEW A, Covering(A), NEW B, Tiling(B)
    PROVE  Overlap(A, B, Cells(B)) = Accumulate(CrossingsOf(A, B))
<1> DEFINE Part(b, v) == <<v[1], b, v[2],
                           (v[3] * Dxyp(B, b[2]) * 4 * A.im) \div Weight(Visits(A, B, b))>>
           Z == UNION {{Part(b, v) : v \in Visits(A, B, b)} : b \in Cells(B)}
           T == CrossingsOf(A, B)
<1>1. Overlap(A, B, Cells(B)) = Accumulate(Z)
  BY DEF Overlap
<1>2. Covering(B)
  BY DEF Tiling
<1>3. ASSUME NEW b \in Cells(B), NEW p \in Meets(A, B, b)
      PROVE  Part(b, Visit(A, B, b, p)) = Crossing(A, B, <<b, p>>)
  <2> DEFINE v == Visit(A, B, b, p)
             a == A.im
             h == NorthEdge(B, b[2]) - NorthEdge(B, b[2] - 1)
             W == Weight(Visits(A, B, b))
  <2>1. W = (4 * a) * h
    BY <1>2, VisitsFill
  <2>2. Dxyp(B, b[2]) = h
    <3>1. b[2] \in 1..(B.jm)
      BY DEF Cells
    <3> QED
      BY <3>1, EvenRows
  <2>3. h \in Nat \ {0} /\ a \in Nat \ {0}
    <3>1. b[2] \in 1..(B.jm) /\ B.jm \in Nat
      BY <1>2 DEF Cells, Covering
    <3>2. /\ \A j \in 0..(B.jm) : NorthEdge(B, j) \in Int
          /\ \A i, j \in 0..(B.jm) : i < j => NorthEdge(B, i) < NorthEdge(B, j)
      BY <1>2, EdgesIncrease DEF Covering
    <3>3. b[2] - 1 \in 0..(B.jm) /\ b[2] \in 0..(B.jm) /\ b[2] - 1 < b[2]
      BY <3>1
    <3>4. NorthEdge(B, b[2]) \in Int /\ NorthEdge(B, b[2] - 1) \in Int
          /\ NorthEdge(B, b[2] - 1) < NorthEdge(B, b[2])
      BY <3>2, <3>3
    <3>5. a \in Nat \ {0}
      BY DEF Covering
    <3> QED
      BY <3>4, <3>5
  <2>4. v[3] \in Nat
    BY <1>2, VisitsGood DEF Meets
  <2>5. v[1] = p
    BY DEF Visit
  <2> DEFINE n == v[3]
  <2>6. (n * Dxyp(B, b[2]) * 4 * a) \div W = n
    <3> HIDE DEF a, h, n, W
    <3>1. n \in Nat /\ h \in Nat \ {0} /\ a \in Nat \ {0}
      BY <2>3, <2>4 DEF n
    <3>2. n * Dxyp(B, b[2]) * 4 * a = ((4 * a) * h) * n /\ (4 * a) * h \in Nat \ {0}
      BY <2>2, <3>1
    <3> DEFINE d == (4 * a) * h
    <3>3. d \in Nat \ {0} /\ n * Dxyp(B, b[2]) * 4 * a = d * n /\ W = d
      BY <2>1, <3>2
    <3> HIDE DEF d
    <3>4. (d * n) \div d = n
      BY <3>1, <3>3, DivExact
    <3> QED
      BY <3>3, <3>4
  <2>7. Part(b, v) = <<v[1], b, v[2], (n * Dxyp(B, b[2]) * 4 * a) \div W>>
    OBVIOUS
  <2>8. Crossing(A, B, <<b, p>>) = <<p, b, v[2], n>>
    BY DEF Crossing
  <2> HIDE DEF v, a, h, W, Part, n
  <2> QED
    BY <2>5, <2>6, <2>7, <2>8 DEF v
<1> HIDE DEF Part
<1>4. ASSUME NEW t \in Z PROVE t \in T
  <2>1. PICK b \in Cells(B) : \E v \in Visits(A, B, b) : t = Part(b, v)
    OBVIOUS
  <2>2. PICK p \in Meets(A, B, b) : t = Part(b, Visit(A, B, b, p))
    <3>1. Visits(A, B, b) = {Visit(A, B, b, p) : p \in Meets(A, B, b)}
      BY VisitsOf DEF Meets
    <3> QED
      BY <2>1, <3>1
  <2>3. t = Crossing(A, B, <<b, p>>) /\ <<b, p>> \in Crossings(A, B)
    BY <1>3, <2>2 DEF Crossings
  <2> QED
    BY <2>3 DEF CrossingsOf
<1>5. ASSUME NEW t \in T PROVE t \in Z
  <2>1. PICK d \in Crossings(A, B) : t = Crossing(A, B, d)
    BY DEF CrossingsOf
  <2>2. PICK b \in Cells(B) : \E p \in Meets(A, B, b) : d = <<b, p>>
    BY DEF Crossings
  <2>5. PICK p \in Meets(A, B, b) : d = <<b, p>>
    BY <2>2
  <2>3. t = Part(b, Visit(A, B, b, p))
    BY <1>3, <2>1, <2>5
  <2>4. Visit(A, B, b, p) \in Visits(A, B, b)
    BY VisitsOf DEF Meets
  <2> QED
    BY <2>3, <2>4
<1> HIDE DEF Z, T
<1>6. Z = T
  BY <1>4, <1>5
<1> QED
  BY <1>1, <1>6 DEF T

\* A cell of B is the sum of what it has in common with those of A.
LEMMA RowsTile ==
    ASSUME NEW A, Covering(A), NEW B, Tiling(B), NEW b \in Cells(B)
    PROVE  At(RowSum(Overlap(A, B, Cells(B))), b) = AreaB(A, B, b)
<1> DEFINE T == CrossingsOf(A, B)
           P == Meets(A, B, b)
           f == [p \in P |-> Visit(A, B, b, p)[3]]
           route == [p \in P |-> Crossing(A, B, <<b, p>>)]
           Tb == {t \in T : t[2] = b}
<1>1. Covering(B) /\ Entries(T)
  BY CrossingsGood DEF Tiling
<1>2. At(RowSum(Accumulate(T)), b) = Total(Tb)
  <2>1. RowSum(Accumulate(T)) = Tally(T, RowIn(T))
    <3> HIDE DEF T
    <3> QED
      BY <1>1, RowSumTally
  <2>2. At(Tally(T, RowIn(T)), b) = Total({t \in T : RowIn(T)[t] = b})
    BY AtTally
  <2>3. {t \in T : RowIn(T)[t] = b} = Tb
    BY DEF RowIn
  <2> HIDE DEF T, Tb
  <2> QED
    BY <2>1, <2>2, <2>3
<1>3. /\ IsFiniteSet(P)
      /\ \A p \in P : f[p] \in Nat
      /\ Sum(f, P) = (4 * A.im) * (NorthEdge(B, b[2]) - NorthEdge(B, b[2] - 1))
  <2>1. IsFiniteSet(P) /\ \A p \in P : f[p] \in Nat
    BY <1>1, VisitsGood DEF Meets
  <2>2. Sum(f, P) = Weight(Visits(A, B, b))
        /\ Weight(Visits(A, B, b)) = (4 * A.im) * (NorthEdge(B, b[2]) - NorthEdge(B, b[2] - 1))
    BY <1>1, VisitsFill DEF Meets
  <2> HIDE DEF f, P
  <2> QED
    BY <2>1, <2>2
<1>4. Total(Tb) = Sum(f, P)
  <2>1. \A p \in P : route[p] = <<p, b, Visit(A, B, b, p)[2], f[p]>>
    BY DEF Crossing
  <2>2. Tb = {route[p] : p \in P}
    <3>1. ASSUME NEW t \in Tb PROVE t \in {route[p] : p \in P}
      <4>1. PICK d \in Crossings(A, B) : t = Crossing(A, B, d)
        BY DEF CrossingsOf
      <4>2. t[2] = b /\ t[2] = d[1]
        BY <4>1 DEF Crossing
      <4>3. PICK c \in Cells(B) : \E p \in Meets(A, B, c) : d = <<c, p>>
        BY DEF Crossings
      <4>4. PICK p \in Meets(A, B, c) : d = <<c, p>>
        BY <4>3
      <4>5. c = b /\ p \in P
        BY <4>2, <4>4
      <4> QED
        BY <4>1, <4>4, <4>5
    <3>2. ASSUME NEW p \in P PROVE route[p] \in Tb
      <4>1. <<b, p>> \in Crossings(A, B)
        BY DEF Crossings
      <4>2. route[p] \in T
        BY <4>1 DEF CrossingsOf
      <4>3. route[p][2] = b
        BY <2>1
      <4> QED
        BY <4>2, <4>3
    <3>3. \A t \in {route[p] : p \in P} : t \in Tb
      BY <3>2
    <3> DEFINE R == {route[p] : p \in P}
    <3> HIDE DEF Tb, R
    <3> QED
      BY <3>1, <3>3 DEF R
  <2>3. /\ \A p, q \in P : route[p] = route[q] => p = q
        /\ \A p \in P : route[p][4] = f[p]
    <3> HIDE DEF route, f
    <3>1. \A p \in P : route[p][1] = p /\ route[p][4] = f[p]
      BY <2>1
    <3> QED
      BY <3>1
  <2>4. Ints(f, P)
    BY <1>3 DEF Ints
  <2> HIDE DEF f, P, route, Tb
  <2> QED
    BY <1>3, <2>2, <2>3, <2>4, NamedTotal
<1>5. Dxyp(B, b[2]) = NorthEdge(B, b[2]) - NorthEdge(B, b[2] - 1)
  <2>1. b[2] \in 1..(B.jm)
    BY DEF Cells
  <2> QED
    BY <2>1, EvenRows
<1>6. (4 * A.im) * Dxyp(B, b[2]) = AreaB(A, B, b)
  <2>1. A.im \in Int
    BY DEF Covering
  <2>2. Dxyp(B, b[2]) \in Int
    <3>1. b[2] \in 0..(B.jm) /\ b[2] - 1 \in 0..(B.jm)
      BY <1>1 DEF Cells, Covering
    <3>2. \A j \in 0..(B.jm) : NorthEdge(B, j) \in Int
      BY <1>1, EdgesIncrease DEF Covering
    <3>3. NorthEdge(B, b[2]) \in Int /\ NorthEdge(B, b[2] - 1) \in Int
      BY <3>1, <3>2
    <3> QED
      BY <1>5, <3>3
  <2> DEFINE x == Dxyp(B, b[2])
             a == A.im
  <2>3. AreaB(A, B, b) = x * 4 * a
    BY DEF AreaB
  <2> HIDE DEF x, a
  <2>4. x \in Int /\ a \in Int
    BY <2>1, <2>2 DEF x, a
  <2>5. x * 4 * a = (4 * a) * x
    BY <2>4
  <2> QED
    BY <2>3, <2>5 DEF x, a
<1> QED
  BY <1>2, <1>3, <1>4, <1>5, <1>6, OverlapExact

\* What cell a of A, as it is counted k turns later, and a cell of B have in common
Turns == 0..3
TurnWidth(A, B, a) == [q \in (1..(B.im)) \X Turns |-> Width(A, B, q[1], a[1] + q[2] * A.im)]
RowHeight(A, B, a) == [jb \in 1..(B.jm) |-> Height(A, B, jb, a[2])]
Shared(A, B, a) ==
    [q \in ((1..(B.im)) \X Turns) \X (1..(B.jm)) |->
        TurnWidth(A, B, a)[q[1]] * RowHeight(A, B, a)[q[2]]]

\* Around the globe, the cells of B fill each latitude's share of a cell once.
LEMMA TurnsSum ==
    ASSUME NEW A, Covering(A), NEW B, Covering(B), NEW a \in Cells(A)
    PROVE  /\ Ints(TurnWidth(A, B, a), (1..(B.im)) \X Turns)
           /\ Sum(TurnWidth(A, B, a), (1..(B.im)) \X Turns) = 4 * B.im
<1> DEFINE i == a[1]
           m == A.im
           n == B.im
           I == 1..n
           R(x) == RIA(A, B, x)
           L(x) == RIB(A, B, x)
           X == L(1)
           turn == 4 * m * n
           C(k) == Clamp(X, R((i + k * m) - 1), R(i + k * m))
           h == TurnWidth(A, B, a)
           f == [k \in -1..3 |-> k * turn - C(k)]
           g == [k \in Turns |-> f[k] - f[k - 1]]
<1>1. m \in Nat \ {0} /\ n \in Nat \ {0} /\ i \in 1..m /\ i \in Int
  BY DEF Covering, Cells
<1>2. turn \in Nat /\ 4 * n \in Nat
  BY <1>1
<1>3. EquallySpaced(A, B)
  BY EdgesSpaced
<1>4. /\ \A x \in Int : R(x) \in Int /\ L(x) \in Int
      /\ \A x \in Int : R(x) = R(x - 1) + 4 * n
  BY <1>3 DEF EquallySpaced
<1>5. /\ \A x \in Int : R(x + m) = R(x) + turn
      /\ L(1 + n) = X + turn
  BY EdgesSpaced
<1>6. \A x, y \in Int : x <= y => R(x) <= R(y) /\ L(x) <= L(y)
  BY EastwardEdges
<1>7. \A q \in I \X Turns : h[q] = Width(A, B, q[1], i + q[2] * m)
  BY DEF TurnWidth
<1>8. \A ib, ia \in Int :
        Width(A, B, ib, ia) = Clamp(L(ib + 1), R(ia - 1), R(ia)) - Clamp(L(ib), R(ia - 1), R(ia))
  BY DEF Width
<1>9. R(0) <= X
  <2>1. 1 \in 1..n
    BY <1>1
  <2>2. R(EdgeCell(A, B, 1) - 1) <= X /\ EdgeCell(A, B, 1) \in 1..(2 * m + 1)
    BY <2>1, EdgeCellFound
  <2> DEFINE c == EdgeCell(A, B, 1)
  <2> HIDE DEF c, R, X
  <2>3. c \in Int /\ c >= 1 /\ c - 1 \in Int /\ R(c - 1) <= X
    BY <1>1, <2>2 DEF c
  <2>4. R(0) <= R(c - 1)
    BY <1>6, <2>3
  <2>5. R(0) \in Int /\ R(c - 1) \in Int /\ X \in Int
    BY <1>4, <2>3 DEF X
  <2> QED
    BY <2>3, <2>4, <2>5
<1>10. X <= R(3 * m)
  <2>1. 1 \in 1..n
    BY <1>1
  <2>2. X <= R(EdgeCell(A, B, 1)) /\ EdgeCell(A, B, 1) \in 1..(2 * m + 1)
    BY <2>1, EdgeCellFound
  <2> DEFINE c == EdgeCell(A, B, 1)
  <2> HIDE DEF c, R, X
  <2>3. c \in Int /\ c <= 3 * m /\ X <= R(c) /\ 3 * m \in Int
    BY <1>1, <2>2 DEF c
  <2>4. R(c) <= R(3 * m)
    BY <1>6, <2>3
  <2>5. R(3 * m) \in Int /\ R(c) \in Int /\ X \in Int
    BY <1>4, <2>3 DEF X
  <2> QED
    BY <2>3, <2>4, <2>5
<1> HIDE DEF i, m, n, R, L, h, turn
<1>11. \A k \in -1..3 : /\ k * m \in Int /\ i + k * m \in Int /\ (i + k * m) - 1 \in Int
                        /\ C(k) \in Int /\ k * turn \in Int
  <2> SUFFICES ASSUME NEW k \in -1..3
               PROVE  /\ k * m \in Int /\ i + k * m \in Int /\ (i + k * m) - 1 \in Int
                      /\ C(k) \in Int /\ k * turn \in Int
    OBVIOUS
  <2>1. k \in Int /\ k * m \in Int /\ k * turn \in Int
    BY <1>1, <1>2
  <2> DEFINE x == k * m
  <2>2. i + x \in Int /\ (i + x) - 1 \in Int
    BY <1>1, <2>1
  <2>3. R(i + x) \in Int /\ R((i + x) - 1) \in Int /\ X \in Int
    BY <1>4, <2>2
  <2>4. C(k) \in Int
    BY <2>3 DEF Clamp
  <2> HIDE DEF x, C
  <2> QED
    BY <2>1, <2>2, <2>4 DEF x
<1>12. \A k \in Turns : g[k] = C(k - 1) + turn - C(k)
  <2> SUFFICES ASSUME NEW k \in Turns PROVE g[k] = C(k - 1) + turn - C(k)
    OBVIOUS
  <2>1. k \in Int /\ k \in -1..3 /\ k - 1 \in -1..3 /\ k - 1 \in Int
    BY DEF Turns
  <2>2. f[k] = k * turn - C(k) /\ f[k - 1] = (k - 1) * turn - C(k - 1)
    BY <2>1
  <2>3. C(k) \in Int /\ C(k - 1) \in Int
    BY <1>11, <2>1
  <2>4. g[k] = f[k] - f[k - 1]
    OBVIOUS
  <2> HIDE DEF f, g, C
  <2>5. k * turn = (k - 1) * turn + turn
    BY <1>2, <2>1
  <2> DEFINE y == (k - 1) * turn
  <2>6. y \in Int
    BY <1>2, <2>1
  <2> HIDE DEF y
  <2>7. k * turn = y + turn /\ f[k - 1] = y - C(k - 1)
    BY <2>2, <2>5 DEF y
  <2> QED
    BY <1>2, <2>2, <2>3, <2>4, <2>6, <2>7
<1>13. ASSUME NEW k \in Turns
       PROVE  g[k] = Sum(Slice(h, I, k), I)
  <2> DEFINE x == i + k * m
             p == [ib \in 0..n |-> Clamp(L(ib + 1), R(x - 1), R(x))]
             s == Slice(h, I, k)
  <2>1. k \in -1..3 /\ k - 1 \in -1..3 /\ k \in Int
    BY DEF Turns
  <2>2. x \in Int /\ x - 1 \in Int
    BY <1>11, <2>1
  <2>3. R(x) \in Int /\ R(x - 1) \in Int /\ R(x - 1) <= R(x) /\ X \in Int
    <3>1. R(x) \in Int /\ R(x - 1) \in Int /\ X \in Int
      BY <1>4, <2>2
    <3>2. x - 1 <= x
      BY <2>2
    <3>3. R(x - 1) <= R(x)
      BY <1>6, <2>2, <3>2
    <3> QED
      BY <3>1, <3>3
  <2>4. \A ib \in 0..n : p[ib] \in Int
    <3> SUFFICES ASSUME NEW ib \in 0..n PROVE p[ib] \in Int
      OBVIOUS
    <3>1. L(ib + 1) \in Int
      BY <1>1, <1>4, ib + 1 \in Int
    <3> QED
      BY <2>3, <3>1 DEF Clamp
  <2>5. \A ib \in 1..n : s[ib] = p[ib] - p[ib - 1]
    <3> SUFFICES ASSUME NEW ib \in 1..n PROVE s[ib] = p[ib] - p[ib - 1]
      OBVIOUS
    <3>1. ib \in 0..n /\ ib - 1 \in 0..n /\ ib \in Int /\ (ib - 1) + 1 = ib
      BY <1>1
    <3>2. s[ib] = h[<<ib, k>>]
      BY DEF Slice
    <3>3. h[<<ib, k>>] = Width(A, B, ib, x)
      <4>1. <<ib, k>> \in I \X Turns /\ <<ib, k>>[1] = ib /\ <<ib, k>>[2] = k
        OBVIOUS
      <4> QED
        BY <1>7, <4>1
    <3>4. Width(A, B, ib, x) = Clamp(L(ib + 1), R(x - 1), R(x)) - Clamp(L(ib), R(x - 1), R(x))
      BY <1>8, <2>2, <3>1
    <3>5. p[ib] = Clamp(L(ib + 1), R(x - 1), R(x)) /\ p[ib - 1] = Clamp(L(ib), R(x - 1), R(x))
      BY <3>1
    <3> HIDE DEF p, s, x
    <3> QED
      BY <3>2, <3>3, <3>4, <3>5
  <2>6. Sum(s, I) = p[n] - p[0]
    <3>1. 1 \in Int /\ n \in Int /\ 1 <= n /\ 1 - 1 = 0
      BY <1>1
    <3>2. \A ib \in (1 - 1)..n : p[ib] \in Int
      BY <2>4, <3>1
    <3>3. \A ib \in 1..n : s[ib] = p[ib] - p[ib - 1]
      BY <2>5
    <3> HIDE DEF p, s
    <3>4. Sum(s, 1..n) = p[n] - p[1 - 1]
      BY <3>1, <3>2, <3>3, SumTelescopes
    <3>5. p[1 - 1] = p[0]
      OBVIOUS
    <3> QED
      BY <3>4, <3>5
  <2>7. p[0] = C(k)
    <3>1. 0 \in 0..n /\ 0 + 1 = 1
      BY <1>1
    <3>2. p[0] = Clamp(L(0 + 1), R(x - 1), R(x))
      BY <3>1
    <3> QED
      BY <3>1, <3>2
  <2>8. p[n] = C(k - 1) + turn
    <3>1. n \in 0..n /\ n + 1 = 1 + n
      BY <1>1
    <3>2. p[n] = Clamp(X + turn, R(x - 1), R(x))
      <4>1. p[n] = Clamp(L(n + 1), R(x - 1), R(x))
        BY <3>1
      <4> HIDE DEF X, x
      <4> QED
        BY <1>5, <3>1, <4>1
    <3> DEFINE y == i + (k - 1) * m
    <3>3. y + m = x /\ (y - 1) + m = x - 1 /\ y \in Int /\ y - 1 \in Int
      <4>1. k * m = (k - 1) * m + m /\ (k - 1) * m \in Int
        BY <1>1, <2>1
      <4> DEFINE z == (k - 1) * m
      <4>2. z \in Int /\ k * m = z + m
        BY <4>1
      <4> HIDE DEF z
      <4>3. (i + z) + m = i + k * m /\ ((i + z) - 1) + m = (i + k * m) - 1
            /\ i + z \in Int /\ (i + z) - 1 \in Int
        BY <1>1, <4>2
      <4> QED
        BY <4>3 DEF z
    <3>4. R(x) = R(y) + turn /\ R(x - 1) = R(y - 1) + turn /\ R(y) \in Int /\ R(y - 1) \in Int
      <4> HIDE DEF x, y
      <4>1. R(y + m) = R(y) + turn /\ R((y - 1) + m) = R(y - 1) + turn
        BY <1>5, <3>3
      <4> QED
        BY <1>4, <3>3, <4>1
    <3>5. C(k - 1) = Clamp(X, R(y - 1), R(y))
      OBVIOUS
    <3> HIDE DEF x, y, C, X, p
    <3>6. Clamp(X + turn, R(y - 1) + turn, R(y) + turn) = Clamp(X, R(y - 1), R(y)) + turn
      BY <1>2, <2>3, <3>4 DEF Clamp
    <3> QED
      BY <3>2, <3>4, <3>5, <3>6
  <2>9. C(k) \in Int /\ C(k - 1) \in Int
    BY <1>11, <2>1
  <2>10. g[k] = C(k - 1) + turn - C(k)
    BY <1>12
  <2> HIDE DEF p, s, C, g
  <2> QED
    BY <1>2, <2>6, <2>7, <2>8, <2>9, <2>10 DEF s
<1>14. Ints(h, I \X Turns)
  <2> SUFFICES ASSUME NEW q \in I \X Turns PROVE h[q] \in Int
    BY DEF Ints
  <2>1. q[1] \in I /\ q[2] \in Turns
    OBVIOUS
  <2>2. i + q[2] * m \in Int
    <3>1. q[2] \in -1..3
      BY <2>1 DEF Turns
    <3> QED
      BY <1>11, <3>1
  <2>3. Width(A, B, q[1], i + q[2] * m) \in Nat
    BY <2>1, <2>2, WidthIs DEF n
  <2> QED
    BY <1>7, <2>3
<1>15. IsFiniteSet(I) /\ IsFiniteSet(Turns)
  BY <1>1, FS_Interval, 1 \in Int, n \in Int, 0 \in Int, 3 \in Int DEF Turns
<1>16. Sum(h, I \X Turns) = Sum(g, Turns)
  <2> HIDE DEF g, I
  <2> QED
    BY <1>13, <1>14, <1>15, SumPairs
<1>17. Sum(g, Turns) = f[3] - f[-1]
  <2>1. \A k \in (0 - 1)..3 : f[k] \in Int
    <3> SUFFICES ASSUME NEW k \in -1..3 PROVE f[k] \in Int
      OBVIOUS
    <3>1. f[k] = k * turn - C(k) /\ k * turn \in Int /\ C(k) \in Int
      BY <1>11
    <3> HIDE DEF f, C
    <3> QED
      BY <3>1
  <2>2. \A k \in 0..3 : g[k] = f[k] - f[k - 1]
    BY DEF Turns
  <2> HIDE DEF f, g
  <2>0. 0 \in Int /\ 3 \in Int /\ 0 <= 3
    OBVIOUS
  <2>3. Sum(g, 0..3) = f[3] - f[0 - 1]
    BY <2>0, <2>1, <2>2, SumTelescopes
  <2>4. 0 - 1 = -1
    OBVIOUS
  <2> QED
    BY <2>3, <2>4 DEF Turns
<1>18. f[3] = 3 * turn - C(3) /\ f[-1] = (-1) * turn - C(-1)
  OBVIOUS
<1>19. C(-1) = R(i) - turn
  <2> DEFINE y == i + (-1) * m
  <2>1. y + m = i /\ y \in Int /\ y - 1 \in Int /\ y <= 0 /\ y - 1 <= y
    BY <1>1
  <2>2. C(-1) = Clamp(X, R(y - 1), R(y))
    OBVIOUS
  <2> HIDE DEF y, C
  <2>3. R(y) <= R(0) /\ R(y - 1) <= R(y) /\ R(y) \in Int /\ R(y - 1) \in Int /\ R(0) \in Int /\ X \in Int
    BY <1>4, <1>6, <2>1
  <2>4. R(i) = R(y) + turn
    BY <1>5, <2>1
  <2> HIDE DEF X
  <2>5. Clamp(X, R(y - 1), R(y)) = R(y)
    BY <1>9, <2>3 DEF Clamp
  <2> QED
    BY <1>2, <2>2, <2>3, <2>4, <2>5
<1>20. C(3) = R(i - 1) + 3 * turn
  <2> DEFINE y == i + 3 * m
  <2>1. y \in Int /\ y - 1 \in Int /\ 3 * m \in Int /\ 3 * m <= y - 1 /\ y - 1 <= y
    BY <1>1
  <2>2. C(3) = Clamp(X, R(y - 1), R(y))
    OBVIOUS
  <2>3. y - 1 = (((i - 1) + m) + m) + m
    BY <1>1
  <2> HIDE DEF y, C
  <2>4. /\ R(3 * m) <= R(y - 1) /\ R(y - 1) <= R(y)
        /\ R(y) \in Int /\ R(y - 1) \in Int /\ R(3 * m) \in Int /\ X \in Int /\ R(i - 1) \in Int
    BY <1>1, <1>4, <1>6, <2>1, i - 1 \in Int
  <2>5. R(y - 1) = R(i - 1) + 3 * turn
    <3>1. i - 1 \in Int /\ (i - 1) + m \in Int /\ ((i - 1) + m) + m \in Int
      BY <1>1
    <3>2. /\ R((i - 1) + m) = R(i - 1) + turn
          /\ R(((i - 1) + m) + m) = R((i - 1) + m) + turn
          /\ R((((i - 1) + m) + m) + m) = R(((i - 1) + m) + m) + turn
      BY <1>5, <3>1
    <3> QED
      BY <1>2, <2>3, <2>4, <3>2
  <2> HIDE DEF X
  <2>6. Clamp(X, R(y - 1), R(y)) = R(y - 1)
    BY <1>10, <2>4 DEF Clamp
  <2> QED
    BY <2>2, <2>5, <2>6
<1>21. R(i) = R(i - 1) + 4 * n /\ R(i) \in Int /\ R(i - 1) \in Int
  BY <1>1, <1>4, i - 1 \in Int
<1>22. f[3] - f[-1] = 4 * n
  <2> HIDE DEF f, C
  <2> QED
    BY <1>1, <1>2, <1>18, <1>19, <1>20, <1>21
<1> QED
  BY <1>14, <1>16, <1>17, <1>22 DEF h, n

\* The latitudes of B fill each latitude of A.
LEMMA RowsSum ==
    ASSUME NEW A, Covering(A), NEW B, Covering(B), NEW a \in Cells(A)
    PROVE  /\ Ints(RowHeight(A, B, a), 1..(B.jm))
           /\ Sum(RowHeight(A, B, a), 1..(B.jm)) = NorthEdge(A, a[2]) - NorthEdge(A, a[2] - 1)
<1> DEFINE j == a[2]
           n == B.jm
           u == NorthEdge(A, j - 1)
           v == NorthEdge(A, j)
           E(k) == NorthEdge(B, k)
           h == RowHeight(A, B, a)
           p == [k \in 0..n |-> Clamp(E(k), u, v)]
<1>1. n \in Nat \ {0} /\ A.jm \in Nat \ {0} /\ j \in 1..(A.jm) /\ j \in Int
  BY DEF Covering, Cells
<1>2. /\ \A k \in 0..(A.jm) : NorthEdge(A, k) \in Int
      /\ \A i, k \in 0..(A.jm) : i < k => NorthEdge(A, i) < NorthEdge(A, k)
      /\ \A k \in 0..n : E(k) \in Int
  BY EdgesIncrease DEF Covering
<1>3. u \in Int /\ v \in Int /\ u <= v /\ E(0) <= u /\ v <= E(n) /\ E(0) \in Int /\ E(n) \in Int
  <2>1. E(0) = NorthEdge(A, 0) /\ E(n) = NorthEdge(A, A.jm)
    BY <1>1 DEF NorthEdge
  <2>2. 0 \in 0..(A.jm) /\ A.jm \in 0..(A.jm) /\ j \in 0..(A.jm) /\ j - 1 \in 0..(A.jm)
        /\ j - 1 < j /\ 0 \in 0..n /\ n \in 0..n
    BY <1>1
  <2>3. u \in Int /\ v \in Int /\ u < v /\ E(0) \in Int /\ E(n) \in Int
    BY <1>2, <2>2
  <2>4. E(0) <= u
    <3>1. CASE j - 1 = 0
      BY <2>1, <2>3, <3>1
    <3>2. CASE j - 1 # 0
      <4>1. 0 < j - 1
        BY <2>2, <3>2
      <4>2. NorthEdge(A, 0) < u
        BY <1>2, <2>2, <4>1
      <4> QED
        BY <2>1, <2>3, <4>2
    <3> QED
      BY <3>1, <3>2
  <2>5. v <= E(n)
    <3>1. CASE j = A.jm
      BY <2>1, <2>3, <3>1
    <3>2. CASE j # A.jm
      <4>1. j < A.jm
        BY <1>1, <3>2
      <4>2. v < NorthEdge(A, A.jm)
        BY <1>2, <2>2, <4>1
      <4> QED
        BY <2>1, <2>3, <4>2
    <3> QED
      BY <3>1, <3>2
  <2> HIDE DEF u, v, E
  <2> QED
    BY <2>3, <2>4, <2>5
<1>4. \A k \in 1..n : h[k] = Clamp(E(k), u, v) - Clamp(E(k - 1), u, v)
  BY DEF RowHeight, Height
<1> HIDE DEF u, v, E, h, n, j
<1>5. \A k \in (1 - 1)..n : p[k] \in Int
  <2> SUFFICES ASSUME NEW k \in 0..n PROVE p[k] \in Int
    OBVIOUS
  <2>1. E(k) \in Int /\ p[k] = Clamp(E(k), u, v)
    BY <1>2
  <2> QED
    BY <1>3, <2>1 DEF Clamp
<1>6. \A k \in 1..n : h[k] = p[k] - p[k - 1]
  <2> SUFFICES ASSUME NEW k \in 1..n PROVE h[k] = p[k] - p[k - 1]
    OBVIOUS
  <2>1. k \in 0..n /\ k - 1 \in 0..n
    BY <1>1
  <2>2. p[k] = Clamp(E(k), u, v) /\ p[k - 1] = Clamp(E(k - 1), u, v)
    BY <2>1
  <2> HIDE DEF p
  <2> QED
    BY <1>4, <2>2
<1>7. p[n] = v /\ p[1 - 1] = u
  <2>1. n \in 0..n /\ 0 \in 0..n /\ 1 - 1 = 0
    BY <1>1
  <2>2. p[n] = Clamp(E(n), u, v) /\ p[1 - 1] = Clamp(E(0), u, v)
    BY <2>1
  <2> QED
    BY <1>3, <2>2 DEF Clamp
<1>8. Ints(h, 1..n)
  <2> SUFFICES ASSUME NEW k \in 1..n PROVE h[k] \in Int
    BY DEF Ints
  <2>1. k \in (1 - 1)..n /\ k - 1 \in (1 - 1)..n
    BY <1>1
  <2>2. p[k] \in Int /\ p[k - 1] \in Int
    BY <1>5, <2>1
  <2> HIDE DEF p
  <2> QED
    BY <1>6, <2>2
<1>9. Sum(h, 1..n) = p[n] - p[1 - 1]
  <2> HIDE DEF p
  <2> QED
    BY <1>1, <1>5, <1>6, SumTelescopes, 1 \in Int, n \in Int
<1> QED
  BY <1>7, <1>8, <1>9 DEF h, n, u, v, j

\* What a cell a of A may meet: a cell of B, and a as it is counted some turns later
Turned(A, B) == ((1..(B.im)) \X Turns) \X (1..(B.jm))
Place(A, a, q) == << <<q[1][1], q[2]>>, <<a[1] + q[1][2] * A.im, a[2]>> >>
Met(A, B, a) == {q \in Turned(A, B) : Place(A, a, q)[2] \in Meets(A, B, Place(A, a, q)[1])}

\* A column that is visited is one of the grid's cells, counted some turns later.
LEMMA TurnsApart ==
    ASSUME NEW m \in Nat \ {0}
    PROVE  /\ \A p \in 1..(3 * m + 1) : \E k \in Turns : p = (((p - 1) % m) + 1) + k * m
           /\ \A i \in 1..m, k \in Turns : (((i + k * m) - 1) % m) + 1 = i
<1>1. ASSUME NEW p \in 1..(3 * m + 1)
      PROVE  \E k \in Turns : p = (((p - 1) % m) + 1) + k * m
  <2> DEFINE x == p - 1
             k == x \div m
             r == x % m
  <2>1. x \in Int /\ 0 <= x /\ x <= 3 * m
    OBVIOUS
  <2> HIDE DEF x
  <2>2. k \in Int /\ r \in 0..(m - 1) /\ x = m * k + r
    BY <2>1, DivModInt
  <2> HIDE DEF k, r
  <2>3. k \in 0..3
    <3>1. CASE k >= 4
      <4>1. m * (k - 4) \in Nat
        BY <2>2, <3>1
      <4>2. m * (k - 4) = m * k - 4 * m /\ m * k \in Int
        BY <2>2
      <4> DEFINE z == m * k
      <4>3. z \in Int /\ z - 4 * m >= 0 /\ x = z + r
        BY <2>2, <4>1, <4>2
      <4> HIDE DEF z
      <4> QED
        BY <2>1, <2>2, <4>3
    <3>2. CASE k <= -1
      <4>1. m * ((-1) - k) \in Nat
        BY <2>2, <3>2
      <4>2. m * ((-1) - k) = -m - m * k /\ m * k \in Int
        BY <2>2
      <4> DEFINE z == m * k
      <4>3. z \in Int /\ -m - z >= 0 /\ x = z + r
        BY <2>2, <4>1, <4>2
      <4> HIDE DEF z
      <4> QED
        BY <2>1, <2>2, <4>3
    <3> QED
      BY <2>2, <3>1, <3>2
  <2>4. p = (r + 1) + k * m
    <3>1. m * k = k * m /\ k * m \in Int
      BY <2>2
    <3> DEFINE z == k * m
    <3>2. z \in Int /\ x = z + r /\ p = x + 1
      BY <2>2, <3>1 DEF x
    <3> HIDE DEF z
    <3>3. p = (r + 1) + z
      BY <2>2, <3>2
    <3> QED
      BY <3>3 DEF z
  <2>5. k \in Turns
    BY <2>3 DEF Turns
  <2> QED
    BY <2>4, <2>5 DEF r, x
<1>2. ASSUME NEW i \in 1..m, NEW k \in Turns
      PROVE  (((i + k * m) - 1) % m) + 1 = i
  <2>1. k \in Nat /\ i - 1 \in 0..(m - 1) /\ i \in Int
    BY DEF Turns
  <2>2. (m * k + (i - 1)) % m = i - 1
    BY <2>1, DivUnique
  <2>3. (i + k * m) - 1 = m * k + (i - 1)
    <3>1. m * k = k * m /\ k * m \in Int
      BY <2>1
    <3> QED
      BY <2>1, <3>1
  <2>4. ((i + k * m) - 1) % m = i - 1
    BY <2>2, <2>3
  <2> DEFINE y == ((i + k * m) - 1) % m
  <2>5. y = i - 1
    BY <2>4
  <2> HIDE DEF y
  <2>6. y + 1 = i
    BY <2>1, <2>5
  <2> QED
    BY <2>6 DEF y
<1> QED
  BY <1>1, <1>2

\* The crossings of a cell of A are those of its turns with what they meet.
LEMMA ColumnOfCell ==
    ASSUME NEW A, Covering(A), NEW B, Covering(B), NEW a \in Cells(A)
    PROVE  InCol(CrossingsOf(A, B), a) = {Crossing(A, B, Place(A, a, q)) : q \in Met(A, B, a)}
<1> DEFINE L == InCol(CrossingsOf(A, B), a)
           R == {Crossing(A, B, Place(A, a, q)) : q \in Met(A, B, a)}
           m == A.im
<1>1. m \in Nat \ {0} /\ a[1] \in 1..m /\ a = <<a[1], a[2]>>
  BY DEF Covering, Cells
<1>2. \A d : Crossing(A, B, d)[3] = <<((d[2][1] - 1) % m) + 1, d[2][2]>>
  BY DEF Crossing, Visit
<1>3. ASSUME NEW t \in L PROVE t \in R
  <2>1. PICK d \in Crossings(A, B) : t = Crossing(A, B, d)
    BY DEF InCol, CrossingsOf
  <2>2. PICK b \in Cells(B) : \E p \in Meets(A, B, b) : d = <<b, p>>
    BY DEF Crossings
  <2>3. PICK p \in Meets(A, B, b) : d = <<b, p>>
    BY <2>2
  <2>4. p[1] \in Columns(A, B, b) /\ p[2] \in Latitudes(A, B, b) /\ p = <<p[1], p[2]>>
    BY DEF Meets
  <2>5. b[1] \in 1..(B.im) /\ b[2] \in 1..(B.jm) /\ b = <<b[1], b[2]>>
    BY DEF Cells
  <2>6. p[1] \in 1..(3 * m + 1)
    <3> DEFINE w == West(A, B, b[1]).cell
               e == East(A, B, b[1]).cell
    <3>1. w \in 1..(2 * m + 2) /\ e \in 1..(3 * m + 1) /\ p[1] \in w..e
      BY <2>4, <2>5, WestFound, EastFound DEF Columns
    <3> HIDE DEF w, e, m
    <3> QED
      BY <1>1, <3>1
  <2>7. PICK k \in Turns : p[1] = (((p[1] - 1) % m) + 1) + k * m
    <3> HIDE DEF m
    <3> QED
      BY <1>1, <2>6, TurnsApart
  <2>8. a = <<((p[1] - 1) % m) + 1, p[2]>>
    <3>1. t[3] = a
      BY DEF InCol
    <3>2. d[2] = p
      BY <2>3
    <3>3. t[3] = <<((p[1] - 1) % m) + 1, p[2]>>
      BY <1>2, <2>1, <3>2
    <3> QED
      BY <3>1, <3>3
  <2>9. p = <<a[1] + k * m, a[2]>>
    <3>1. a[1] = ((p[1] - 1) % m) + 1 /\ a[2] = p[2]
      BY <2>8
    <3> QED
      BY <2>4, <2>7, <3>1
  <2> DEFINE q == << <<b[1], k>>, b[2]>>
  <2>10. q \in Turned(A, B) /\ Place(A, a, q) = <<b, p>>
    BY <2>5, <2>9 DEF Turned, Place
  <2>11. Place(A, a, q)[2] = p /\ Place(A, a, q)[1] = b
    BY <2>10
  <2>12. q \in Met(A, B, a)
    <3> HIDE DEF q
    <3> QED
      BY <2>10, <2>11 DEF Met
  <2> HIDE DEF q
  <2> QED
    BY <2>1, <2>3, <2>10, <2>12
<1>4. ASSUME NEW t \in R PROVE t \in L
  <2>1. PICK q \in Met(A, B, a) : t = Crossing(A, B, Place(A, a, q))
    OBVIOUS
  <2> DEFINE b == Place(A, a, q)[1]
             p == Place(A, a, q)[2]
             k == q[1][2]
  <2>2. q \in Turned(A, B) /\ p \in Meets(A, B, b)
    BY DEF Met
  <2>3. q[1][1] \in 1..(B.im) /\ k \in Turns /\ q[2] \in 1..(B.jm)
    BY <2>2 DEF Turned
  <2>4. b = <<q[1][1], q[2]>> /\ p = <<a[1] + k * m, a[2]>> /\ Place(A, a, q) = <<b, p>>
    BY DEF Place
  <2>5. b \in Cells(B)
    BY <2>3, <2>4 DEF Cells
  <2>6. Place(A, a, q) \in Crossings(A, B)
    <3> HIDE DEF b, p, k
    <3> QED
      BY <2>2, <2>4, <2>5 DEF Crossings
  <2>7. t \in CrossingsOf(A, B)
    BY <2>1, <2>6 DEF CrossingsOf
  <2>8. t[3] = a
    <3>1. (((a[1] + k * m) - 1) % m) + 1 = a[1]
      <4> HIDE DEF m, k
      <4> QED
        BY <1>1, <2>3, TurnsApart
    <3>2. t[3] = <<((p[1] - 1) % m) + 1, p[2]>>
      <4> HIDE DEF m
      <4>1. t[3] = <<((Place(A, a, q)[2][1] - 1) % m) + 1, Place(A, a, q)[2][2]>>
        BY <1>2, <2>1
      <4> QED
        BY <4>1
    <3>3. p[1] = a[1] + k * m /\ p[2] = a[2]
      BY <2>4
    <3> HIDE DEF p, k, m
    <3>4. t[3] = <<(((a[1] + k * m) - 1) % m) + 1, a[2]>>
      BY <3>2, <3>3
    <3> QED
      BY <1>1, <3>1, <3>4
  <2> QED
    BY <2>7, <2>8 DEF InCol
<1> HIDE DEF L, R
<1>5. L = R
  BY <1>3, <1>4
<1> QED
  BY <1>5 DEF L, R

\* What a turn of a cell has in common with a cell of B: nothing, unless they meet.
LEMMA SharedIs ==
    ASSUME NEW A, Covering(A), NEW B, Covering(B), NEW a \in Cells(A)
    PROVE  /\ IsFiniteSet(Turned(A, B)) /\ Ints(Shared(A, B, a), Turned(A, B))
           /\ \A q \in Met(A, B, a) : Crossing(A, B, Place(A, a, q))[4] = Shared(A, B, a)[q]
           /\ \A q \in Turned(A, B) \ Met(A, B, a) : Shared(A, B, a)[q] = 0
<1> DEFINE Q == Turned(A, B)
           F == Shared(A, B, a)
           i(q) == a[1] + q[1][2] * A.im
           W(q) == Width(A, B, q[1][1], i(q))
           H(q) == Height(A, B, q[2], a[2])
<1>1. A.im \in Nat \ {0} /\ B.im \in Nat \ {0} /\ B.jm \in Nat \ {0}
      /\ a[1] \in Int /\ a[2] \in 1..(A.jm)
  BY DEF Covering, Cells
<1>2. IsFiniteSet(Q)
  <2> DEFINE m == B.im
             n == B.jm
  <2>1. 1 \in Int /\ m \in Int /\ n \in Int /\ 0 \in Int /\ 3 \in Int
    BY <1>1
  <2> HIDE DEF m, n
  <2>2. IsFiniteSet(((1..m) \X (0..3)) \X (1..n))
    BY <2>1, FS_Interval, FS_Product
  <2> QED
    BY <2>2 DEF Turned, Turns, m, n
<1>3. ASSUME NEW q \in Q
      PROVE  /\ q[1][1] \in 1..(B.im) /\ q[2] \in 1..(B.jm) /\ i(q) \in Int
             /\ F[q] = W(q) * H(q) /\ W(q) \in Nat /\ H(q) \in Nat
  <2>1. q[1] \in (1..(B.im)) \X Turns /\ q[1][1] \in 1..(B.im) /\ q[1][2] \in Turns /\ q[2] \in 1..(B.jm)
    BY DEF Turned
  <2>2. i(q) \in Int
    <3>1. q[1][2] \in Int
      BY <2>1 DEF Turns
    <3> QED
      BY <1>1, <3>1
  <2>3. W(q) \in Nat /\ H(q) \in Nat
    <3> HIDE DEF i
    <3> QED
      BY <1>1, <2>1, <2>2, WidthIs, HeightIs
  <2>4. F[q] = TurnWidth(A, B, a)[q[1]] * RowHeight(A, B, a)[q[2]]
    BY DEF Shared, Turned
  <2>5. TurnWidth(A, B, a)[q[1]] = W(q) /\ RowHeight(A, B, a)[q[2]] = H(q)
    BY <2>1 DEF TurnWidth, RowHeight
  <2> QED
    BY <2>1, <2>2, <2>3, <2>4, <2>5
<1>4. Ints(F, Q)
  <2> SUFFICES ASSUME NEW q \in Q PROVE F[q] \in Int
    BY DEF Ints
  <2> HIDE DEF F, W, H, Q
  <2>1. F[q] = W(q) * H(q) /\ W(q) \in Nat /\ H(q) \in Nat
    BY <1>3
  <2> QED
    BY <2>1
<1>5. ASSUME NEW q \in Met(A, B, a)
      PROVE  Crossing(A, B, Place(A, a, q))[4] = F[q]
  <2> DEFINE b == <<q[1][1], q[2]>>
             p == <<i(q), a[2]>>
  <2>1. q \in Q /\ Place(A, a, q) = <<b, p>>
    BY DEF Met, Place
  <2>2. p \in Meets(A, B, b)
    <3>1. Place(A, a, q)[2] \in Meets(A, B, Place(A, a, q)[1])
      BY DEF Met
    <3>2. Place(A, a, q)[2] = p /\ Place(A, a, q)[1] = b
      BY <2>1
    <3> QED
      BY <3>1, <3>2
  <2>3. b \in Cells(B)
    BY <1>3, <2>1 DEF Cells
  <2>4. Visit(A, B, b, p)[3] = Width(A, B, b[1], p[1]) * Height(A, B, b[2], p[2])
    <3> HIDE DEF b, p
    <3> QED
      BY <2>2, <2>3, VisitsGood DEF Meets
  <2>5. Crossing(A, B, <<b, p>>)[4] = Visit(A, B, b, p)[3]
    BY DEF Crossing
  <2>6. b[1] = q[1][1] /\ b[2] = q[2] /\ p[1] = i(q) /\ p[2] = a[2]
    OBVIOUS
  <2> HIDE DEF b, p, i, F, Q
  <2> QED
    BY <1>3, <2>1, <2>4, <2>5, <2>6
<1>6. ASSUME NEW q \in Q \ Met(A, B, a)
      PROVE  F[q] = 0
  <2> DEFINE b == <<q[1][1], q[2]>>
             p == <<i(q), a[2]>>
             I == West(A, B, q[1][1]).cell..East(A, B, q[1][1]).cell
             J == South(A, B, q[2]).row..North(A, B, q[2]).row
  <2>1. Place(A, a, q)[2] = p /\ Place(A, a, q)[1] = b
    BY DEF Place
  <2>2. p \notin Meets(A, B, b)
    BY <2>1 DEF Met
  <2>3. Meets(A, B, b) = I \X J
    BY DEF Meets, Columns, Latitudes
  <2>4. i(q) \notin I \/ a[2] \notin J
    <3> HIDE DEF I, J, i
    <3> QED
      BY <2>2, <2>3
  <2> HIDE DEF F, Q
  <2>5. /\ q[1][1] \in 1..(B.im) /\ q[2] \in 1..(B.jm) /\ i(q) \in Int
        /\ F[q] = W(q) * H(q) /\ W(q) \in Nat /\ H(q) \in Nat
    BY <1>3
  <2>6. CASE i(q) \notin I
    <3>1. W(q) = 0
      <4> HIDE DEF i
      <4> QED
        BY <1>1, <2>5, <2>6, WidthIs
    <3> HIDE DEF W, H
    <3> QED
      BY <2>5, <3>1
  <2>7. CASE a[2] \notin J
    <3>1. H(q) = 0
      BY <1>1, <2>5, <2>7, HeightIs
    <3> HIDE DEF W, H
    <3> QED
      BY <2>5, <3>1
  <2> QED
    BY <2>4, <2>6, <2>7
<1> QED
  BY <1>2, <1>4, <1>5, <1>6

\* A cell of A is the sum of what it has in common with those of B.
LEMMA ColsTile ==
    ASSUME NEW A, Tiling(A), NEW B, Tiling(B), NEW a \in Cells(A)
    PROVE  At(ColSum(Overlap(A, B, Cells(B))), a) = AreaA(A, B, a)
<1> DEFINE T == CrossingsOf(A, B)
           Q == Turned(A, B)
           N == Met(A, B, a)
           F == Shared(A, B, a)
           S == (1..(B.im)) \X Turns
           J == 1..(B.jm)
           h == NorthEdge(A, a[2]) - NorthEdge(A, a[2] - 1)
           n == B.im
           route == [q \in N |-> Crossing(A, B, Place(A, a, q))]
<1>1. Covering(A) /\ Covering(B)
  BY DEF Tiling
<1>2. At(ColSum(Accumulate(T)), a) = Total(InCol(T, a))
  <2>1. Entries(T)
    BY <1>1, CrossingsGood
  <2> HIDE DEF T
  <2> QED
    BY <2>1, AccumulatedCol
<1>3. /\ IsFiniteSet(Q) /\ Ints(F, Q)
      /\ \A q \in N : Crossing(A, B, Place(A, a, q))[4] = F[q]
      /\ \A q \in Q \ N : F[q] = 0
  BY <1>1, SharedIs
<1>4. N \in SUBSET Q
  BY DEF Met
<1>5. Total(InCol(T, a)) = Sum(F, N)
  <2>1. IsFiniteSet(N) /\ Ints(F, N)
    <3> HIDE DEF N, Q, F
    <3> QED
      BY <1>3, <1>4, FS_Subset DEF Ints
  <2>2. \A q \in N : route[q] = Crossing(A, B, Place(A, a, q)) /\ route[q][4] = F[q]
    BY <1>3
  <2>3. ASSUME NEW q \in N, NEW r \in N, route[q] = route[r]
        PROVE  q = r
    <3>1. Crossing(A, B, Place(A, a, q)) = Crossing(A, B, Place(A, a, r))
      BY <2>2, <2>3
    <3>2. /\ Place(A, a, q)[1] = Place(A, a, r)[1]
          /\ Place(A, a, q)[2] = Place(A, a, r)[2]
      BY <3>1 DEF Crossing
    <3>3. /\ <<q[1][1], q[2]>> = <<r[1][1], r[2]>>
          /\ a[1] + q[1][2] * A.im = a[1] + r[1][2] * A.im
      BY <3>2 DEF Place
    <3>4. /\ q \in Q /\ r \in Q
          /\ q[1][2] \in Int /\ r[1][2] \in Int
          /\ q = << <<q[1][1], q[1][2]>>, q[2]>> /\ r = << <<r[1][1], r[1][2]>>, r[2]>>
      <4>1. q \in Q /\ r \in Q
        BY <1>4
      <4>2. q \in ((1..(B.im)) \X (0..3)) \X (1..(B.jm)) /\ r \in ((1..(B.im)) \X (0..3)) \X (1..(B.jm))
        BY <4>1 DEF Turned, Turns
      <4> HIDE DEF Q
      <4> QED
        BY <4>1, <4>2
    <3>5. q[1][2] = r[1][2]
      <4> DEFINE k == q[1][2]
                 l == r[1][2]
                 m == A.im
      <4>1. k \in Int /\ l \in Int /\ m \in Nat \ {0} /\ a[1] \in Int
        BY <1>1, <3>4 DEF Covering, Cells
      <4>2. k * m = l * m
        <5> DEFINE x == k * m
                   y == l * m
        <5>1. x \in Int /\ y \in Int /\ a[1] + x = a[1] + y
          BY <3>3, <4>1
        <5> HIDE DEF x, y
        <5>2. x = y
          BY <4>1, <5>1
        <5> QED
          BY <5>2 DEF x, y
      <4> HIDE DEF k, l, m
      <4>3. (k - l) * m = 0
        <5>1. (k - l) * m = k * m - l * m /\ k * m \in Int
          BY <4>1
        <5> QED
          BY <4>2, <5>1
      <4>4. k = l
        BY <4>1, <4>3
      <4> QED
        BY <4>4 DEF k, l
    <3>6. q[1][1] = r[1][1] /\ q[2] = r[2]
      BY <3>3
    <3> QED
      BY <3>4, <3>5, <3>6
  <2>4. InCol(T, a) = {route[q] : q \in N}
    <3>1. InCol(T, a) = {Crossing(A, B, Place(A, a, q)) : q \in N}
      BY <1>1, ColumnOfCell
    <3> QED
      BY <3>1
  <2> HIDE DEF T, N, F, route
  <2>5. /\ \A q, r \in N : route[q] = route[r] => q = r
        /\ \A q \in N : route[q][4] = F[q]
    BY <2>2, <2>3
  <2> QED
    BY <2>1, <2>4, <2>5, NamedTotal
<1>6. Sum(F, N) = Sum(F, Q)
  <2> HIDE DEF N, F, Q
  <2>1. Ints(F, N)
    BY <1>3, <1>4 DEF Ints
  <2> QED
    BY <1>3, <1>4, <2>1, SumSupport
<1>7. Sum(F, Q) = Sum(TurnWidth(A, B, a), S) * Sum(RowHeight(A, B, a), J)
  <2>1. Q = S \X J
    BY DEF Turned
  <2>2. \A q \in S \X J : F[q] = TurnWidth(A, B, a)[q[1]] * RowHeight(A, B, a)[q[2]]
    BY DEF Shared
  <2>3. IsFiniteSet(S) /\ IsFiniteSet(J)
    <3> DEFINE m == B.jm
    <3>1. 1 \in Int /\ n \in Int /\ m \in Int /\ 0 \in Int /\ 3 \in Int
      BY <1>1 DEF Covering
    <3> HIDE DEF m, n
    <3>2. IsFiniteSet((1..n) \X (0..3)) /\ IsFiniteSet(1..m)
      BY <3>1, FS_Interval, FS_Product
    <3> QED
      BY <3>2 DEF m, n, Turns
  <2>4. Ints(TurnWidth(A, B, a), S) /\ Ints(RowHeight(A, B, a), J)
    BY <1>1, TurnsSum, RowsSum
  <2> HIDE DEF S, J, F, Q
  <2> QED
    BY <2>1, <2>2, <2>3, <2>4, SumProducts
<1>8. Sum(TurnWidth(A, B, a), S) = 4 * n /\ Sum(RowHeight(A, B, a), J) = h
  BY <1>1, TurnsSum, RowsSum
<1>9. Dxyp(A, a[2]) = h
  <2>1. a[2] \in 1..(A.jm)
    BY DEF Cells
  <2> QED
    BY <2>1, EvenRows
<1>10. (4 * n) * h = AreaA(A, B, a)
  <2>1. n \in Int
    BY <1>1 DEF Covering
  <2>2. h \in Int
    <3>1. a[2] \in 0..(A.jm) /\ a[2] - 1 \in 0..(A.jm)
      BY <1>1 DEF Cells, Covering
    <3>2. \A j \in 0..(A.jm) : NorthEdge(A, j) \in Int
      BY <1>1, EdgesIncrease DEF Covering
    <3>3. NorthEdge(A, a[2]) \in Int /\ NorthEdge(A, a[2] - 1) \in Int
      BY <3>1, <3>2
    <3> QED
      BY <3>3
  <2>3. AreaA(A, B, a) = Dxyp(A, a[2]) * 4 * n
    BY DEF AreaA
  <2> HIDE DEF h, n
  <2>4. h * 4 * n = (4 * n) * h
    BY <2>1, <2>2
  <2> QED
    BY <1>9, <2>3, <2>4
<1>11. Overlap(A, B, Cells(B)) = Accumulate(T)
  BY <1>1, OverlapExact
<1> HIDE DEF T, Q, N, F, S, J, h, n
<1> QED
  BY <1>2, <1>5, <1>6, <1>7, <1>8, <1>10, <1>11

\* The overlap matrix of Hntr tiles both of its grids: for any two regular grids with an even
\* number of latitudes, however their cells straddle each other or the date line, each cell of
\* either is the sum of what it has in common with those of the other, no more and no less.
\* hntr.hpp, Hntr::matrix(), with partition_east_west() and partition_north_south().
THEOREM OverlapsFill ==
    ASSUME OffsetsInCell
    PROVE  Spec => []OverlapsTile
<1>1. ASSUME ToolInv PROVE OverlapsTile
  <2> SUFFICES ASSUME tool # None, Regular(tool.A), Regular(tool.B),
                      tool.A.jm % 2 = 0, tool.B.jm % 2 = 0
               PROVE  /\ \A a \in Cells(tool.A) : At(ColSum(tool.M), a) = AreaA(tool.A, tool.B, a)
                      /\ \A b \in Cells(tool.B) : At(RowSum(tool.M), b) = AreaB(tool.A, tool.B, b)
    BY DEF OverlapsTile
  <2>1. PICK A \in Specs, B \in Specs, meanPolar \in BOOLEAN :
            \E f \in Fields(A) : tool = ToolOf(A, B, f, meanPolar)
    BY <1>1 DEF ToolInv
  <2>2. tool.A = A /\ tool.B = B /\ tool.M = Overlap(A, B, Cells(B))
    BY <2>1 DEF ToolOf
  <2>3. Tiling(A) /\ Tiling(B) /\ Covering(A)
    BY <2>2, RegularCovers DEF Tiling
  <2>4. \A a \in Cells(A) : At(ColSum(Overlap(A, B, Cells(B))), a) = AreaA(A, B, a)
    BY <2>3, ColsTile
  <2>5. \A b \in Cells(B) : At(RowSum(Overlap(A, B, Cells(B))), b) = AreaB(A, B, b)
    BY <2>3, RowsTile
  <2> QED
    BY <2>2, <2>4, <2>5
<1> QED
  BY <1>1, ToolInvariant, PTL
===============================================================================
