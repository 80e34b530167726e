-------------------------- MODULE TopoTools_proofs --------------------------
(***************************************************************************)
(* Theorems about the topography tools, for any planet: ice stays off the  *)
(* ocean whichever way it got there, and the surfaces of a cell make up    *)
(* the cell whatever is rounded.                                           *)
(***************************************************************************)
EXTENDS GlobalEC_proofs

-----------------------------------------------------------------------------
(* etopo1_ice *)

\* Ice of ETOPO1 and of the snow is put on continent only.
LEMMA IceOnContinent ==
    ASSUME NEW raw, NEW greenland \in BOOLEAN
    PROVE  \A f \in Etopo1Ice(raw, greenland).fgice :
              f \in Fine => Etopo1Ice(raw, greenland).focean[f] # OCEAN
<1> DEFINE e == Etopo1Ice(raw, greenland)
<1>1. \A f \in Fine :
        e.focean[f] = IF raw.focean[f] # GREENLAND_VAL THEN raw.focean[f]
                      ELSE IF f[2] <= JM \div 2 THEN GREENLAND_VAL
                      ELSE IF greenland THEN LAND ELSE OCEAN
  BY DEF Etopo1Ice
<1>2. \A f \in e.fgice :
        \/ raw.focean[f] = LAND
        \/ greenland /\ f[2] > JM \div 2 /\ raw.focean[f] = GREENLAND_VAL
  BY DEF Etopo1Ice, IceOfETOPO1, Downscaled, SnowCells
<1>3. LAND # OCEAN /\ LAND # GREENLAND_VAL /\ OCEAN # GREENLAND_VAL
  BY DEF LAND, OCEAN, GREENLAND_VAL
<1>4. ASSUME NEW f \in e.fgice, f \in Fine PROVE e.focean[f] # OCEAN
  <2>1. CASE raw.focean[f] = LAND
    BY <1>1, <1>3, <1>4, <2>1
  <2>2. CASE greenland /\ f[2] > JM \div 2 /\ raw.focean[f] = GREENLAND_VAL
    <3>1. f[2] \in 1..JM /\ JM \in Nat
      BY <1>4, TopoGridAssumption DEF Fine
    <3>2. ~ (f[2] <= JM \div 2)
      BY <2>2, <3>1
    <3> QED
      BY <1>1, <1>3, <1>4, <2>2, <3>2
  <2> QED
    BY <1>2, <1>4, <2>1, <2>2
<1> QED
  BY <1>4

\* No file of etopo1_ice has ice on the ocean, and no other program changes it.
THEOREM IceNeverOnOcean == Spec => []IceOnLand
<1>1. Init => IceOnLand
  BY DEF Init, IceOnLand
<1>2. Init => input.greenland \in BOOLEAN
  BY DEF Init
<1>3. IceOnLand /\ input.greenland \in BOOLEAN /\ [Next]_vars
        => IceOnLand' /\ (input.greenland \in BOOLEAN)'
  <2> SUFFICES ASSUME IceOnLand, input.greenland \in BOOLEAN, [Next]_vars
               PROVE  IceOnLand' /\ input'.greenland \in BOOLEAN
    OBVIOUS
  <2>1. CASE Etopo1
    <3>1. etopo1' = Etopo1Ice(input.raw, input.greenland) /\ input' = input
      BY <2>1 DEF Etopo1
    <3>2. \A f \in etopo1'.fgice : f \in Fine => etopo1'.focean[f] # OCEAN
      BY <3>1, IceOnContinent
    <3> QED
      BY <3>1, <3>2 DEF IceOnLand, OceanFine
  <2>2. CASE UNCHANGED <<input, etopo1>>
    BY <2>2 DEF IceOnLand, OceanFine
  <2>3. Etopo1 \/ UNCHANGED <<input, etopo1>>
    BY DEF Next, NextEC, PlanChunks, RunChunk, CrashChunk, Combine, MakeTopoO,
           MakeMergedTopoO, MakeTopoa, vars
  <2> QED
    BY <2>1, <2>2, <2>3
<1> QED
  BY <1>1, <1>2, <1>3, PTL DEF Spec

-----------------------------------------------------------------------------
(* Hntr::regrid() from the fine grid to O *)

\* The part of an O cell that a fine cell is
Grain == Unit \div NSub

\* A count of fine cells is a whole number of grains.
LEMMA GrainIs ==
    /\ Grain \in Nat \ {0} /\ Unit = NSub * Grain /\ NSub \in Nat \ {0}
    /\ \A n \in Nat : (Unit * n) \div NSub = Grain * n
<1>1. Unit \in Nat \ {0} /\ NSub \in Nat \ {0} /\ IM \in Nat \ {0}
  BY TopoGridAssumption
<1>2. NSub \in 1..(IM * NSub)
  <2>1. \A i, n \in Nat \ {0} : n <= i * n /\ i * n \in Nat
    <3> SUFFICES ASSUME NEW i \in Nat \ {0}, NEW n \in Nat \ {0}
                 PROVE  n <= i * n /\ i * n \in Nat
      OBVIOUS
    <3>1. i * n = n + (i - 1) * n
      OBVIOUS
    <3>2. i - 1 \in Nat /\ (i - 1) * n \in Nat
      OBVIOUS
    <3> QED
      BY <3>1, <3>2
  <2> QED
    BY <1>1, <2>1
<1>3. Unit % NSub = 0
  BY <1>2, TopoGridAssumption
<1>4. Grain \in Nat /\ Unit = NSub * Grain
  BY <1>1, <1>3, DivMod DEF Grain
<1>5. Grain # 0
  BY <1>1, <1>4
<1>6. ASSUME NEW n \in Nat PROVE (Unit * n) \div NSub = Grain * n
  <2>1. Grain * n \in Nat /\ 0 \in 0..(NSub - 1)
    BY <1>1, <1>4
  <2>2. Unit * n = NSub * (Grain * n) + 0
    BY <1>1, <1>4, <2>1
  <2> QED
    BY <1>1, <2>1, <2>2, DivUnique
<1> QED
  BY <1>1, <1>4, <1>5, <1>6

\* An O cell has NSub fine cells.
LEMMA FineCells ==
    ASSUME NEW o \in OCells
    PROVE  /\ IsFiniteSet(FineOf(o)) /\ Cardinality(FineOf(o)) = NSub
           /\ FineOf(o) \subseteq Fine /\ FineOf(o) # {}
           /\ \A f \in Fine : f \in FineOf(o) <=> OofF(f) = o
<1>1. NSub \in Nat \ {0}
  BY GrainIs
<1> DEFINE name == [k \in 1..NSub |-> <<o[1], o[2], k>>]
<1>2. FineOf(o) = {name[k] : k \in 1..NSub}
  BY DEF FineOf
<1>3. IsFiniteSet(1..NSub) /\ Cardinality(1..NSub) = NSub
  BY <1>1, FS_Interval
<1>4. \A j, k \in 1..NSub : name[j] = name[k] => j = k
  OBVIOUS
<1>5. IsFiniteSet(FineOf(o)) /\ Cardinality(FineOf(o)) = NSub
  <2> DEFINE S == 1..NSub
  <2>1. IsFiniteSet(S) /\ Cardinality(S) = NSub /\ \A j, k \in S : name[j] = name[k] => j = k
    BY <1>3, <1>4
  <2> HIDE DEF name, S
  <2>2. LET N == {name[k] : k \in S} IN IsFiniteSet(N) /\ Cardinality(N) = Cardinality(S)
    BY <2>1, ImageCardinality
  <2> QED
    BY <1>2, <2>1, <2>2 DEF S
<1>6. FineOf(o) \subseteq Fine /\ FineOf(o) # {}
  <2>1. o[1] \in 1..IM /\ o[2] \in 1..JM /\ 1 \in 1..NSub
    BY <1>1 DEF OCells
  <2>2. \A k \in 1..NSub : <<o[1], o[2], k>> \in Fine
    BY <2>1 DEF Fine
  <2>3. <<o[1], o[2], 1>> \in FineOf(o)
    BY <2>1 DEF FineOf
  <2> QED
    BY <2>2, <2>3 DEF FineOf
<1>7. \A f \in Fine : f \in FineOf(o) <=> OofF(f) = o
  BY DEF FineOf, Fine, OofF, OCells
<1> QED
  BY <1>5, <1>6, <1>7

\* Fine cells of a set in an O cell
CountIn(o, S) == Cardinality(FineOf(o) \cap S)

\* Sets that do not overlap share the fine cells of an O cell.
LEMMA CountsFit ==
    ASSUME NEW o \in OCells, NEW S, NEW T, S \cap T = {}
    PROVE  /\ CountIn(o, S) \in Nat /\ CountIn(o, T) \in Nat
           /\ CountIn(o, S) + CountIn(o, T) <= NSub
<1> DEFINE A == FineOf(o) \cap S
           B == FineOf(o) \cap T
<1>1. IsFiniteSet(FineOf(o)) /\ Cardinality(FineOf(o)) = NSub
  BY FineCells
<1>2. A \subseteq FineOf(o) /\ B \subseteq FineOf(o) /\ A \cap B = {} /\ A \cup B \subseteq FineOf(o)
  OBVIOUS
<1> HIDE DEF A, B
<1>3. IsFiniteSet(A) /\ IsFiniteSet(B)
  BY <1>1, <1>2, FS_Subset
<1>4. Cardinality(A) \in Nat /\ Cardinality(B) \in Nat
  BY <1>3, FS_CardinalityType
<1>5. Cardinality(A \cup B) = Cardinality(A) + Cardinality(B) - Cardinality(A \cap B)
  BY <1>3, FS_Union
<1>6. Cardinality(A \cap B) = 0
  BY <1>2, FS_EmptySet
<1>7. Cardinality(A \cup B) <= NSub
  BY <1>1, <1>2, FS_Subset
<1> QED
  BY <1>4, <1>5, <1>6, <1>7 DEF A, B, CountIn

\* The mean over an O cell of what is 1 on S and 0 elsewhere
Share(o, S) == MeanOver([f \in FineOf(o) |-> IF f \in S THEN 1 ELSE 0])

\* The share of S is as many grains as there are fine cells of S.
LEMMA ShareCounts ==
    ASSUME NEW o \in OCells, NEW S
    PROVE  Share(o, S) = Grain * CountIn(o, S)
<1> DEFINE val == [f \in FineOf(o) |-> IF f \in S THEN 1 ELSE 0]
<1>1. DOMAIN val = FineOf(o)
  OBVIOUS
<1>2. SumOver(DOMAIN val, LAMBDA f : val[f]) = Sum(val, FineOf(o))
  BY <1>1 DEF SumOver, Sum
<1>3. Sum(val, FineOf(o)) = CountIn(o, S) /\ CountIn(o, S) \in Nat
  <2>1. \A f \in FineOf(o) : val[f] = IF f \in S THEN 1 ELSE 0
    OBVIOUS
  <2> HIDE DEF val
  <2> QED
    BY <2>1, FineCells, SumCounts DEF CountIn
<1>4. MeanOver(val) = (Unit * Sum(val, FineOf(o))) \div Cardinality(FineOf(o))
  BY <1>1, <1>2, FineCells DEF MeanOver
<1> QED
  BY <1>3, <1>4, FineCells, GrainIs DEF Share

\* The sum along a row, and the equation of its fold
RowFrom(f, j, S, h) ==
    h = [s \in SUBSET S |->
            IF s = {} THEN 0 ELSE f[<<First(s), j>>] + h[s \ {First(s)}]]

\* The operator for sums along a row is a sum over a function.
LEMMA SumAlongRow ==
    ASSUME NEW f, NEW j, NEW S
    PROVE  MapThenSumSet(LAMBDA i : f[<<i, j>>], S) = Sum([i \in S |-> f[<<i, j>>]], S)
<1> DEFINE g == [i \in S |-> f[<<i, j>>]]
<1>1. MapThenSumSet(LAMBDA i : f[<<i, j>>], S) = (CHOOSE h : RowFrom(f, j, S, h))[S]
  BY DEF MapThenSumSet, MapThenFoldSet, RowFrom, First
<1>2. \A s \in SUBSET S : s # {} => f[<<First(s), j>>] = g[First(s)]
  BY FirstIn
<1> HIDE DEF g
<1>3. ASSUME NEW h PROVE RowFrom(f, j, S, h) <=> SumsFrom(g, S, h)
  <2>1. [s \in SUBSET S |-> IF s = {} THEN 0 ELSE f[<<First(s), j>>] + h[s \ {First(s)}]]
        = [s \in SUBSET S |-> IF s = {} THEN 0 ELSE g[First(s)] + h[s \ {First(s)}]]
    BY <1>2
  <2> QED
    BY <2>1 DEF RowFrom, SumsFrom
<1>4. (CHOOSE h : RowFrom(f, j, S, h)) = (CHOOSE h : SumsFrom(g, S, h))
  BY <1>3
<1> QED
  BY <1>1, <1>4, SumDef DEF g

\* mean_polar keeps fractions that have room beside one another that way.
LEMMA MeanPolarRoom ==
    ASSUME NEW B, NEW C,
           \A o \in OCells : B[o] \in Nat /\ C[o] \in Nat /\ B[o] + C[o] <= Unit,
           NEW o \in OCells
    PROVE  /\ MeanPolar(B)[o] \in Nat /\ MeanPolar(C)[o] \in Nat
           /\ MeanPolar(B)[o] + MeanPolar(C)[o] <= Unit
<1> DEFINE row == 1..IM
           b == [i \in row |-> B[<<i, o[2]>>]]
           c == [i \in row |-> C[<<i, o[2]>>]]
           d == [i \in row |-> b[i] + c[i]]
           u == [i \in row |-> Unit]
<1>1. IM \in Nat \ {0} /\ Unit \in Nat \ {0} /\ IsFiniteSet(row) /\ Cardinality(row) = IM
  <2>1. IM \in Nat \ {0} /\ Unit \in Nat \ {0}
    BY TopoGridAssumption
  <2> QED
    BY <2>1, FS_Interval
<1>2. \A i \in row : b[i] \in Nat /\ c[i] \in Nat /\ b[i] + c[i] <= Unit /\ d[i] = b[i] + c[i]
                     /\ u[i] = Unit
  <2>1. \A i \in row : <<i, o[2]>> \in OCells
    BY DEF OCells
  <2> QED
    BY <2>1
<1>3. /\ SumOver(1..IM, LAMBDA i : B[<<i, o[2]>>]) = Sum(b, row)
      /\ SumOver(1..IM, LAMBDA i : C[<<i, o[2]>>]) = Sum(c, row)
  BY SumAlongRow DEF SumOver
<1> HIDE DEF row, b, c, d, u
<1>4. Sum(b, row) \in Nat /\ Sum(c, row) \in Nat /\ Sum(b, row) + Sum(c, row) <= IM * Unit
  <2>1. Ints(b, row) /\ Ints(c, row) /\ Ints(d, row) /\ Ints(u, row)
    BY <1>1, <1>2 DEF Ints
  <2>2. Sum(b, row) \in Nat /\ Sum(c, row) \in Nat
    BY <1>1, <1>2, SumNat
  <2>3. Sum(d, row) = Sum(b, row) + Sum(c, row)
    BY <1>1, <1>2, <2>1, SumPlus
  <2>4. Sum(d, row) <= Sum(u, row)
    BY <1>1, <1>2, <2>1, SumMonotone
  <2>5. Sum(u, row) = Unit * Cardinality(row)
    BY <1>1, <1>2, SumConst
  <2> QED
    BY <1>1, <2>2, <2>3, <2>4, <2>5
<1> DEFINE x == Sum(b, row) \div IM
           y == Sum(c, row) \div IM
<1>5. x \in Nat /\ y \in Nat /\ IM * x <= Sum(b, row) /\ IM * y <= Sum(c, row)
  <2>1. \A n \in Nat : n \div IM \in Nat /\ IM * (n \div IM) <= n
    <3> SUFFICES ASSUME NEW n \in Nat PROVE n \div IM \in Nat /\ IM * (n \div IM) <= n
      OBVIOUS
    <3>1. n \div IM \in Nat /\ n % IM \in 0..(IM - 1) /\ n = IM * (n \div IM) + (n % IM)
      BY <1>1, DivMod
    <3>2. IM * (n \div IM) \in Nat
      BY <1>1, <3>1
    <3> HIDE DEF x, y
    <3> QED
      BY <1>1, <3>1, <3>2
  <2> QED
    BY <1>4, <2>1
<1>6. MeanPolar(B)[o] \in {B[o], 0, x} /\ MeanPolar(C)[o] \in {C[o], 0, y}
      /\ (Pole(o) => MeanPolar(B)[o] \in {0, x} /\ MeanPolar(C)[o] \in {0, y})
      /\ (~Pole(o) => MeanPolar(B)[o] = B[o] /\ MeanPolar(C)[o] = C[o])
  BY <1>3 DEF MeanPolar
<1> HIDE DEF x, y
<1>7. x + y <= Unit
  <2>1. IM * (x + y) = IM * x + IM * y /\ IM * x \in Nat /\ IM * y \in Nat
    BY <1>1, <1>5
  <2>2. IM * (x + y) <= IM * Unit
    BY <1>1, <1>4, <1>5, <2>1
  <2> QED
    BY <1>1, <1>5, <2>2, MultOrder
<1>8. B[o] \in Nat /\ C[o] \in Nat /\ B[o] + C[o] <= Unit
  OBVIOUS
<1> QED
  BY <1>1, <1>5, <1>6, <1>7, <1>8

\* Away from the poles, a fraction counts fine cells.
LEMMA FractionCounts ==
    ASSUME NEW o \in OCells, ~Pole(o), NEW S
    PROVE  FractionOf(S)[o] = Grain * CountIn(o, S)
BY ShareCounts DEF FractionOf, MeanPolar, Share

\* The fractions of sets that do not overlap have room beside one another.
LEMMA FractionsFit ==
    ASSUME NEW S, NEW T, S \cap T = {}, NEW o \in OCells
    PROVE  /\ FractionOf(S)[o] \in Nat /\ FractionOf(T)[o] \in Nat
           /\ FractionOf(S)[o] + FractionOf(T)[o] <= Unit
<1> DEFINE B == [p \in OCells |-> Share(p, S)]
           C == [p \in OCells |-> Share(p, T)]
<1>1. FractionOf(S) = MeanPolar(B) /\ FractionOf(T) = MeanPolar(C)
  BY DEF FractionOf, Share
<1>2. ASSUME NEW p \in OCells PROVE B[p] \in Nat /\ C[p] \in Nat /\ B[p] + C[p] <= Unit
  <2> DEFINE m == CountIn(p, S)
             n == CountIn(p, T)
  <2>1. m \in Nat /\ n \in Nat /\ m + n <= NSub
    BY CountsFit
  <2>2. B[p] = Grain * m /\ C[p] = Grain * n
    BY ShareCounts
  <2> HIDE DEF B, C, m, n
  <2>3. \A g, k \in Nat : m + n <= k => g * m \in Nat /\ g * n \in Nat /\ g * m + g * n <= k * g
    <3> SUFFICES ASSUME NEW g \in Nat, NEW k \in Nat, m + n <= k
                 PROVE  g * m \in Nat /\ g * n \in Nat /\ g * m + g * n <= k * g
      OBVIOUS
    <3>1. k = m + n + (k - m - n) /\ k - m - n \in Nat
      BY <2>1
    <3> DEFINE r == k - m - n
    <3>2. g * k = g * m + g * n + g * r
      BY <2>1, <3>1
    <3>3. g * m \in Nat /\ g * n \in Nat /\ g * r \in Nat
      BY <2>1, <3>1
    <3> QED
      BY <3>2, <3>3
  <2> QED
    BY <2>1, <2>2, <2>3, GrainIs
<1> HIDE DEF B, C
<1> QED
  BY <1>1, <1>2, MeanPolarRoom

-----------------------------------------------------------------------------
(* _make_topoO() *)

\* Rounding to a quantum leaves nothing below zero.
LEMMA RoundNat ==
    ASSUME NEW x \in Nat, NEW q \in Nat \ {0}
    PROVE  RoundTo(x, q) \in Nat
<1>1. 2 * x + q \in Nat /\ 2 * q \in Nat \ {0}
  OBVIOUS
<1>2. (2 * x + q) \div (2 * q) \in Nat
  BY <1>1
<1> QED
  BY <1>2 DEF RoundTo

\* The fractions that _make_topoO() reads in a cell are fractions, and the cell's
\* ice and ocean have room in it, but for the south pole, which is all ice.
FractionsIn(r, o) ==
    /\ r.FOCEANF[o] \in 0..Unit /\ r.FGICEF[o] \in 0..Unit /\ r.FLAKE[o] \in 0..Unit
    /\ o[2] # 1 => r.FOCEANF[o] + r.FGICEF[o] <= Unit

\* Ice is scaled to land, but never to more than all of it.
LEMMA IceFraction ==
    ASSUME NEW r, NEW o \in OCells, FractionsIn(r, o)
    PROVE  /\ FGICE(r, o) \in 0..Unit
           /\ IsOcean(r.FOCEANF, o) => FGICE(r, o) = 0
<1>1. Unit \in Nat \ {0}
  BY TopoGridAssumption
<1>2. CASE o[2] = 1 \/ IsOcean(r.FOCEANF, o) \/ r.FOCEANF[o] = Unit
  BY <1>1, <1>2 DEF FGICE, IsOcean
<1>3. CASE ~ (o[2] = 1 \/ IsOcean(r.FOCEANF, o) \/ r.FOCEANF[o] = Unit)
  <2> DEFINE x == r.FGICEF[o]
             d == Unit - r.FOCEANF[o]
  <2>1. x \in Nat /\ d \in Nat \ {0} /\ x <= d
    BY <1>1, <1>3 DEF FractionsIn
  <2>2. FGICE(r, o) = (x * Unit) \div d
    BY <1>3 DEF FGICE
  <2> HIDE DEF x, d
  <2>3. (x * Unit) \div d \in 0..Unit
    BY <1>1, <2>1, ShareBound
  <2> QED
    BY <1>3, <2>2, <2>3
<1> QED
  BY <1>2, <1>3

\* Lakes are scaled and rounded without regard to the ice beside them; in the
\* rows of Antarctica there are none.
LEMMA LakeFraction ==
    ASSUME NEW r, NEW o \in OCells, FractionsIn(r, o)
    PROVE  /\ ApportionedLake(r, o) \in Nat
           /\ o[2] <= JM \div 6 => ApportionedLake(r, o) = 0
<1> DEFINE lake == IF LakeFree(o) THEN 0 ELSE r.FLAKE[o]
           fcontf == Unit - r.FOCEANF[o]
<1>1. Unit \in Nat \ {0} /\ LakeQuantum \in Nat \ {0}
  BY TopoGridAssumption
<1>2. lake \in Nat /\ (o[2] <= JM \div 6 => lake = 0)
  BY <1>1 DEF FractionsIn, LakeFree
<1>3. fcontf \in Nat
  BY <1>1 DEF FractionsIn
<1>4. ApportionedLake(r, o) = IF fcontf = 0 THEN lake
                              ELSE IF IsOcean(r.FOCEANF, o) THEN 0
                              ELSE RoundTo((lake * Unit) \div fcontf, LakeQuantum)
  BY DEF ApportionedLake
<1> HIDE DEF lake, fcontf
<1>5. fcontf # 0 => (lake * Unit) \div fcontf \in Nat
  BY <1>1, <1>2, <1>3
<1>6. fcontf # 0 => RoundTo((lake * Unit) \div fcontf, LakeQuantum) \in Nat
  BY <1>1, <1>5, RoundNat
<1>7. ASSUME o[2] <= JM \div 6, fcontf # 0
      PROVE  RoundTo((lake * Unit) \div fcontf, LakeQuantum) = 0
  <2>1. lake = 0 /\ 0 * Unit = 0 /\ 0 \div fcontf = 0
    BY <1>1, <1>2, <1>3, <1>7
  <2>2. LakeQuantum \div (2 * LakeQuantum) = 0
    BY <1>1
  <2>3. RoundTo(0, LakeQuantum) = 0
    BY <1>1, <2>2 DEF RoundTo
  <2> QED
    BY <2>1, <2>3
<1> QED
  BY <1>2, <1>4, <1>6, <1>7

\* The surface types of an O cell are fractions that make up the cell, before and
\* after its lakes are turned to ground: whatever is rounded, and in whatever row.
THEOREM SurfacesCover ==
    ASSUME NEW r, NEW o \in OCells, FractionsIn(r, o)
    PROVE  LET fr == LandFractions(r, o)
               ground == LakesToGround(r, fr, o)
           IN  /\ {fr.FOCEAN, fr.FGICE, fr.FLAKE, fr.FGRND} \subseteq 0..Unit
               /\ {ground.FLAKE, ground.FGRND} \subseteq 0..Unit
               /\ fr.FOCEAN + fr.FLAKE + fr.FGRND + fr.FGICE = Unit
               /\ fr.FOCEAN + ground.FLAKE + ground.FGRND + fr.FGICE = Unit
<1> DEFINE fr == LandFractions(r, o)
           ground == LakesToGround(r, fr, o)
           ocean == IF IsOcean(r.FOCEANF, o) THEN Unit ELSE 0
           ice == FGICE(r, o)
           lake == ApportionedLake(r, o)
           flake == IF o[2] > JM \div 6 /\ lake + ice + ocean > Unit
                    THEN Unit - ice - ocean ELSE lake
<1>1. Unit \in Nat \ {0}
  BY TopoGridAssumption
<1>2. ocean \in {0, Unit} /\ ice \in 0..Unit /\ (ocean = Unit => ice = 0)
  BY <1>1, IceFraction
<1>3. lake \in Nat /\ (o[2] <= JM \div 6 => lake = 0)
  BY LakeFraction
<1>4. o[2] > JM \div 6 \/ o[2] <= JM \div 6
  BY TopoGridAssumption DEF OCells
<1>5. fr = [FOCEAN |-> ocean, FGICE |-> ice, FLAKE |-> flake,
            FGRND |-> Unit - ocean - flake - ice]
  <2>1. Clamp(ice) = ice
    BY <1>1, <1>2 DEF Clamp
  <2> QED
    BY <2>1 DEF LandFractions
<1> HIDE DEF ocean, ice, lake, fr
<1>6. flake \in 0..Unit /\ ocean + flake + ice <= Unit
  BY <1>1, <1>2, <1>3, <1>4
<1> HIDE DEF flake
<1>7. /\ fr.FOCEAN = ocean /\ fr.FGICE = ice /\ fr.FLAKE = flake
      /\ fr.FGRND = Unit - ocean - flake - ice
  BY <1>5
<1>8. /\ {fr.FOCEAN, fr.FGICE, fr.FLAKE, fr.FGRND} \subseteq 0..Unit
      /\ fr.FOCEAN + fr.FLAKE + fr.FGRND + fr.FGICE = Unit
  BY <1>1, <1>2, <1>6, <1>7
<1>9. \/ ground.FLAKE = flake /\ ground.FGRND = fr.FGRND
      \/ ground.FLAKE = 0 /\ ground.FGRND = fr.FGRND + flake
  BY <1>5 DEF LakesToGround
<1> HIDE DEF ground
<1>10. /\ {ground.FLAKE, ground.FGRND} \subseteq 0..Unit
       /\ fr.FOCEAN + ground.FLAKE + ground.FGRND + fr.FGICE = Unit
  BY <1>1, <1>2, <1>6, <1>7, <1>9
<1> QED
  BY <1>8, <1>10 DEF fr, ground

-----------------------------------------------------------------------------
(* merge_topoO() *)

\* The fields of a cell of TOPOO
OCellFields ==
    {"FOCEAN", "FOCEANF", "FLAKE", "FGRND", "FGICE", "FGICEF", "ZATMO", "ZATMOF", "ZICETOP",
     "ZLAND_MIN", "ZLAND_MAX", "MERGEMASK"}
IsOCell(t) == OCellFields \subseteq DOMAIN t

\* The raw fractions of a cell of ocean have room for its ice, should it turn to land.
RoomForIce(t) == t.FOCEANF \in Int /\ t.FGICEF \in Nat /\ t.FOCEANF + t.FGICEF <= Unit

\* Its surfaces make a cell up, and ocean is all or nothing.
CellCovered(t) ==
    /\ {t.FOCEAN, t.FLAKE, t.FGRND, t.FGICE} \subseteq 0..Unit
    /\ t.FOCEAN + t.FLAKE + t.FGRND + t.FGICE = Unit
    /\ t.FOCEAN \in {0, Unit}
    /\ t.FOCEAN = Unit => RoomForIce(t)

\* What a sheet adds to a cell: ice on its land.
SheetFits(d) == d.gice \in Nat /\ d.cont \in Nat /\ d.gice <= d.cont

\* A cell that turns to land is made up of ice and ground.
LEMMA ToLandCovers ==
    ASSUME NEW t, IsOCell(t), t.FLAKE = 0, RoomForIce(t), t.FOCEANF # Unit
    PROVE  CellCovered(ToLandCell(t)) /\ IsOCell(ToLandCell(t))
<1> DEFINE d == Unit - t.FOCEANF
           ice == (t.FGICEF * Unit) \div d
           u == ToLandCell(t)
<1>1. Unit \in Nat \ {0} /\ d \in Nat \ {0} /\ t.FGICEF \in Nat /\ t.FGICEF <= d
  BY TopoGridAssumption DEF RoomForIce
<1>2. ice \in 0..Unit
  BY <1>1, ShareBound
<1>3. /\ u.FOCEAN = 0 /\ u.FGICE = ice /\ u.FLAKE = 0
      /\ u.FGRND = Unit - ice - t.FLAKE
  BY DEF ToLandCell, IsOCell, OCellFields
<1>4. IsOCell(u)
  BY DEF ToLandCell, IsOCell, OCellFields
<1> HIDE DEF ice, d, u
<1> QED
  BY <1>1, <1>2, <1>3, <1>4 DEF CellCovered, u

\* Merging a sheet that fits keeps a cell covered, whether it turns to land or
\* not, so that merges can follow one another.
THEOREM MergeCovers ==
    ASSUME NEW t, IsOCell(t), NEW d, CellCovered(t), SheetFits(d)
    PROVE  CellCovered(UpdatedCell(t, d)) /\ IsOCell(UpdatedCell(t, d))
<1> DEFINE ice  == (Unit * d.gice) \div NSub
           land == (Unit * d.cont) \div NSub
           g    == GrownOp(t, d)
<1>1. Unit \in Nat \ {0} /\ NSub \in Nat \ {0}
  BY TopoGridAssumption
<1>2. ice \in Nat /\ land \in Nat /\ ice <= land
  <2>1. Unit * d.gice \in Nat /\ Unit * d.cont \in Nat /\ Unit * d.gice <= Unit * d.cont
    <3>1. PICK k \in Nat : d.cont = d.gice + k
      <4>1. d.cont - d.gice \in Nat /\ d.cont = d.gice + (d.cont - d.gice)
        BY DEF SheetFits
      <4> QED
        BY <4>1
    <3>2. Unit * d.cont = Unit * d.gice + Unit * k /\ Unit * k \in Nat
      BY <1>1, <3>1 DEF SheetFits
    <3> QED
      BY <1>1, <3>2 DEF SheetFits
  <2> QED
    BY <1>1, <2>1, DivMonotone DEF SheetFits
<1>3. /\ g.FOCEAN = t.FOCEAN /\ g.FLAKE = t.FLAKE /\ g.FGRND = t.FGRND /\ g.FGICE = t.FGICE
      /\ g.FOCEANF = t.FOCEANF - land /\ g.FGICEF = t.FGICEF + ice
      /\ IsOCell(g)
  BY DEF GrownOp, IsOCell, OCellFields
<1> HIDE DEF ice, land, g
<1>4. g.FOCEAN = Unit => RoomForIce(g)
  BY <1>1, <1>2, <1>3 DEF CellCovered, RoomForIce
<1>5. CellCovered(g)
  BY <1>3, <1>4 DEF CellCovered
<1>6. ASSUME Flips(g) PROVE CellCovered(ToLandCell(g)) /\ IsOCell(ToLandCell(g))
  <2>1. 2 * g.FOCEANF < Unit /\ g.FOCEAN = Unit
    BY <1>6 DEF Flips
  <2>2. g.FLAKE = 0 /\ g.FOCEANF # Unit
    BY <1>1, <1>4, <1>5, <2>1 DEF CellCovered, RoomForIce
  <2> QED
    BY <1>3, <1>4, <2>1, <2>2, ToLandCovers
<1> QED
  BY <1>3, <1>5, <1>6 DEF UpdatedCell, g

-----------------------------------------------------------------------------
(* The files and what they were made from *)

\* Every file is what its program makes of the files it read; nothing that was read
\* changes afterwards.
FilesMade ==
    /\ etopo1 # None => etopo1 = Etopo1Ice(input.raw, input.greenland)
    /\ topoo # None => /\ etopo1 # None /\ ~CallZFails(etopo1)
                       /\ topoo = TopoO(etopo1, input.lakes)
    /\ ec # None => /\ etopo1 # None /\ ec \in WholeOutcomes(etopo1)
                    /\ "EvO" \in DOMAIN ec => /\ GridOption = "ocean"
                                               /\ Classed(etopo1, etopo1.fgice)
    /\ merged # None =>
         LET s == Sheets(merged.geometry)
             m == MergedEOpvAOp(ec["EvO"].M, s, Hcdefs(etopo1))
         IN  /\ topoo # None /\ ec # None /\ "EvO" \in DOMAIN ec
             /\ ~LocalFails(s) /\ (input.greenland => merged.geometry = "none")
             /\ merged.t = MergeTopoO(topoo, s) /\ merged.m \in {m, Squashed(m)}
    /\ topoa # None => /\ merged # None /\ ~FoceanFails(merged.t, merged.m)
                       /\ topoa = MakeTopoA(merged.t, merged.m)

\* Only chunks of an ocean grid have the matrix that the merge reads, and only if no ice
\* is outside of the elevation classes.
LEMMA CombinedForOcean ==
    ASSUME ECInv, Combine, "EvO" \in DOMAIN ec'
    PROVE  GridOption = "ocean" /\ Classed(etopo1, etopo1.fgice)
<1> DEFINE files == Restrict(chunkfile, mk)
<1>1. PICK n \in 1..Len(MatrixNames) : ec' = CombinedFiles(files, n)
  <2>1. Len(MatrixNames) \in 1..Len(MatrixNames)
        /\ \A n \in 1..(Len(MatrixNames) - 1) : n \in 1..Len(MatrixNames)
    BY NamesMade
  <2> QED
    BY <2>1 DEF Combine
<1>2. PICK k \in DOMAIN MatrixNames : CombinedName(MatrixNames[k]) = "EvO"
  BY <1>1, NamesMade DEF CombinedFiles
<1>3. mk = Chunks(etopo1) /\ mk \subseteq DOMAIN chunkfile /\ CanCombine(files)
  BY DEF ECInv, PlanCurrent, Combine
<1>4. PICK c : c \in mk
  <2>1. 1 \in ChunkStarts(etopo1)
    BY StartsIn
  <2> QED
    BY <1>3, <2>1, ChunksDef
<1>5. "EvO" \in DOMAIN chunkfile[c].matrices
  BY <1>2, <1>3, <1>4 DEF CanCombine, Combinable, Restrict
<1>6. PICK i \in 0..Len(MatrixOrder) : chunkfile[c].matrices = Section(etopo1, c, i)
  BY <1>3, <1>4 DEF ECInv, FilesCurrent
<1>7. PICK g \in Generated(i) : FileName[g] = "EvO"
  BY <1>5, <1>6 DEF Section
<1>8. g \in Names
  BY NamesMade
<1>9. GridOption = "ocean"
  BY <1>7, <1>8, GlobalECAssumption DEF FileName, Names
<1>10. Classed(etopo1, etopo1.fgice)
  <2>1. MatrixNames[k] \in Range(MatrixNames) /\ MatrixNames[k] \in Names
    BY <1>2, NamesMade DEF Range
  <2>2. MatrixNames[k] = "EvA"
    BY <1>2, <2>1 DEF CombinedName, Names
  <2>3. "EvA" \in Range(MatrixNames) /\ UsesClasses("EvA")
    BY <2>1, <2>2 DEF UsesClasses
  <2>4. etopo1.fgice \subseteq Fine
    BY DEF ECInv, PlanCurrent, IceFile, Combine
  <2>5. ASSUME NEW f \in etopo1.fgice
        PROVE  ~OutOfBounds(Hcdefs(etopo1), Max({etopo1.ztop[f], 0}))
    <3>1. PICK d \in Chunks(etopo1) : f \in ChunkIce(etopo1, d)
      BY <2>4, ChunksPartitionIce
    <3>2. ~SectionFails(etopo1, d)
      BY <1>3, <3>1 DEF ECInv, FilesCurrent
    <3>3. Classed(etopo1, ChunkIce(etopo1, d))
      BY <2>3, <3>2, ChunksClassed
    <3> QED
      BY <3>1, <3>3 DEF Classed
  <2> QED
    BY <2>5 DEF Classed
<1> QED
  BY <1>9, <1>10

\* It holds at the start and every step keeps it.
LEMMA MadeKept ==
    /\ Init => FilesMade
    /\ ECInv /\ FilesMade /\ [Next]_vars => FilesMade'
<1>1. Init => FilesMade
  BY DEF Init, FilesMade
<1>2. ASSUME ECInv, FilesMade, [Next]_vars PROVE FilesMade'
  <2>1. CASE Etopo1
    BY <1>2, <2>1 DEF Etopo1, FilesMade
  <2>2. CASE MakeTopoO
    BY <1>2, <2>2 DEF MakeTopoO, FilesMade, Sheets, GreenlandCells
  <2>3. CASE Combine
    <3>1. UNCHANGED <<input, etopo1, topoo, merged, topoa>> /\ ec = None
      BY <2>3 DEF Combine
    <3>2. etopo1 # None /\ ec' \in WholeOutcomes(etopo1')
      BY <1>2, <2>3, <3>1, CombineStep
    <3>3. "EvO" \in DOMAIN ec' => GridOption = "ocean" /\ Classed(etopo1', etopo1'.fgice)
      <4>1. "EvO" \in DOMAIN ec' => GridOption = "ocean" /\ Classed(etopo1, etopo1.fgice)
        BY <1>2, <2>3, CombinedForOcean
      <4> QED
        BY <3>1, <4>1
    <3>4. merged = None /\ topoa = None
      BY <1>2, <3>1 DEF FilesMade
    <3> QED
      BY <1>2, <3>1, <3>2, <3>3, <3>4 DEF FilesMade
  <2>4. CASE MakeMergedTopoO
    <3>1. /\ UNCHANGED <<input, crashes, etopo1, topoo, mk, chunkfile, uptodate, ec, topoa>>
          /\ topoo # None /\ ec # None /\ merged = None
      BY <2>4 DEF MakeMergedTopoO
    <3>2. topoa = None
      BY <1>2, <3>1 DEF FilesMade
    <3>3. \A g : Sheets(g)' = Sheets(g)
      BY <3>1 DEF Sheets, GreenlandCells
    <3>4. CASE merged' = merged
      BY <1>2, <3>1, <3>2, <3>4 DEF FilesMade
    <3>5. CASE merged' # merged
      <4>1. PICK g \in Geometries, squash \in BOOLEAN :
              /\ input.greenland => g = "none"
              /\ "EvO" \in DOMAIN ec /\ ~LocalFails(Sheets(g))
              /\ LET m == MergedEOpvAOp(ec["EvO"].M, Sheets(g), Hcdefs(etopo1))
                 IN  merged' = [t |-> MergeTopoO(topoo, Sheets(g)), geometry |-> g,
                                m |-> IF squash THEN Squashed(m) ELSE m]
        BY <2>4, <3>5 DEF MakeMergedTopoO
      <4> DEFINE m == MergedEOpvAOp(ec["EvO"].M, Sheets(g), Hcdefs(etopo1))
      <4>2. /\ merged'.geometry = g /\ merged'.t = MergeTopoO(topoo, Sheets(g))
            /\ merged'.m \in {m, Squashed(m)}
        BY <4>1
      <4>3. Sheets(merged.geometry)' = Sheets(g)
        BY <3>1, <4>2 DEF Sheets, GreenlandCells
      <4> QED
        BY <1>2, <3>1, <3>2, <4>1, <4>2, <4>3 DEF FilesMade
    <3> QED
      BY <3>4, <3>5
  <2>5. CASE MakeTopoa
    <3>1. UNCHANGED <<input, etopo1, topoo, ec, merged>> /\ merged # None
      BY <2>5 DEF MakeTopoa
    <3>2. topoa' = topoa \/ (~FoceanFails(merged.t, merged.m)
                            /\ topoa' = MakeTopoA(merged.t, merged.m))
      BY <2>5 DEF MakeTopoa
    <3>3. Sheets(merged.geometry)' = Sheets(merged.geometry)
      BY <3>1 DEF Sheets, GreenlandCells
    <3> QED
      BY <1>2, <3>1, <3>2, <3>3 DEF FilesMade
  <2>6. CASE UNCHANGED <<input, etopo1, topoo, ec, merged, topoa>>
    BY <1>2, <2>6 DEF FilesMade, Sheets, GreenlandCells
  <2>7. \/ Etopo1 \/ MakeTopoO \/ Combine \/ MakeMergedTopoO \/ MakeTopoa
        \/ UNCHANGED <<input, etopo1, topoo, ec, merged, topoa>>
    BY <1>2 DEF Next, NextEC, PlanChunks, RunChunk, CrashChunk, vars
  <2> QED
    BY <2>1, <2>2, <2>3, <2>4, <2>5, <2>6, <2>7
<1> QED
  BY <1>1, <1>2

\* Files are what their programs make of the files they read.
THEOREM MadeInvariant == Spec => [](ECInv /\ FilesMade)
BY MadeKept, ECInvariant, PTL DEF Spec

-----------------------------------------------------------------------------
(* The file of make_topoo *)

\* Raw data and lakes as the programs read them
RawOK(raw) ==
    raw \in RawTopo([Fine -> {LAND, OCEAN, GREENLAND_VAL}], [Fine -> Int], [Fine -> Int],
                    [OCells -> 0..Unit])
LakesOK(lakes) == lakes \in [OCells -> 0..Unit]

\* The fractions of an ice file that is not on the ocean, with any lakes, are such
\* as _make_topoO() can read.
LEMMA RawFractions ==
    ASSUME NEW e, e.fgice \cap OceanFine(e) = {}, NEW lakes, LakesOK(lakes), NEW o \in OCells
    PROVE  FractionsIn(OnO(e, lakes), o)
<1> DEFINE r == OnO(e, lakes)
<1>1. Unit \in Nat \ {0}
  BY TopoGridAssumption
<1>2. /\ FractionOf(OceanFine(e))[o] \in Nat /\ FractionOf(e.fgice)[o] \in Nat
      /\ FractionOf(OceanFine(e))[o] + FractionOf(e.fgice)[o] <= Unit
  BY FractionsFit
<1>3. MeanPolar(lakes)[o] \in 0..Unit
  <2> DEFINE zero == [p \in OCells |-> 0]
  <2>1. \A p \in OCells : lakes[p] \in Nat /\ zero[p] \in Nat /\ lakes[p] + zero[p] <= Unit
    BY <1>1 DEF LakesOK
  <2> HIDE DEF zero
  <2>2. /\ MeanPolar(lakes)[o] \in Nat /\ MeanPolar(zero)[o] \in Nat
        /\ MeanPolar(lakes)[o] + MeanPolar(zero)[o] <= Unit
    BY <2>1, MeanPolarRoom
  <2> QED
    BY <1>1, <2>2
<1>4. /\ r.FOCEANF = FractionOf(OceanFine(e))
      /\ r.FGICEF[o] = IF o[2] = 1 THEN Unit ELSE FractionOf(e.fgice)[o]
      /\ r.FLAKE = MeanPolar(lakes)
  BY DEF OnO, FOCEANF, FGICEF
<1> HIDE DEF r
<1> QED
  BY <1>1, <1>2, <1>3, <1>4 DEF FractionsIn, r

\* What a cell of TOPOO holds, of its fractions and elevations
LEMMA TopoOFields ==
    ASSUME NEW e, NEW lakes, NEW o \in OCells
    PROVE  LET r  == OnO(e, lakes)
               fr == LandFractions(r, o)
               ground == LakesToGround(r, fr, o)
               z  == Reset(Replicated(e, r, o), o)
               t  == TopoO(e, lakes)[o]
           IN  /\ IsOCell(t)
               /\ t.FOCEAN = fr.FOCEAN /\ t.FGICE = fr.FGICE
               /\ t.FLAKE = ground.FLAKE /\ t.FGRND = ground.FGRND
               /\ t.FOCEANF = r.FOCEANF[o] /\ t.FGICEF = r.FGICEF[o]
               /\ t.ZSGLO = z.ZSGLO /\ t.ZLAKE = z.ZLAKE /\ t.ZGRND = z.ZGRND
               /\ t.ZSGHI = z.ZSGHI /\ t.ZICETOP = z.ZICETOP
<1> DEFINE r == OnO(e, lakes)
           fr == [p \in OCells |-> LandFractions(r, p)]
<1>1. TopoO(e, lakes) = TopoOCells(e, r, fr)
  BY DEF TopoO
<1>2. TopoOCells(e, r, fr)[o]
      = TopoOCell(r, fr[o], LakesToGround(r, fr[o], o), Reset(Replicated(e, r, o), o), o)
  BY DEF TopoOCells
<1>3. fr[o] = LandFractions(r, o)
  OBVIOUS
<1> HIDE DEF r, fr
<1>4. TopoO(e, lakes)[o]
      = TopoOCell(r, LandFractions(r, o), LakesToGround(r, LandFractions(r, o), o),
                  Reset(Replicated(e, r, o), o), o)
  BY <1>1, <1>2, <1>3
<1>5. ASSUME NEW fractions, NEW ground, NEW z
      PROVE  LET t == TopoOCell(r, fractions, ground, z, o)
             IN  /\ IsOCell(t)
                 /\ t.FOCEAN = fractions.FOCEAN /\ t.FGICE = fractions.FGICE
                 /\ t.FLAKE = ground.FLAKE /\ t.FGRND = ground.FGRND
                 /\ t.FOCEANF = r.FOCEANF[o] /\ t.FGICEF = r.FGICEF[o]
                 /\ t.ZSGLO = z.ZSGLO /\ t.ZLAKE = z.ZLAKE /\ t.ZGRND = z.ZGRND
                 /\ t.ZSGHI = z.ZSGHI /\ t.ZICETOP = z.ZICETOP
  BY DEF TopoOCell, IsOCell, OCellFields
<1> QED
  BY <1>4, <1>5 DEF r

\* Every cell of TOPOO is covered, and is ocean exactly where it is rounded to it.
THEOREM TopoOCovered ==
    ASSUME NEW e, e.fgice \cap OceanFine(e) = {}, NEW lakes, LakesOK(lakes), NEW o \in OCells
    PROVE  /\ IsOCell(TopoO(e, lakes)[o]) /\ CellCovered(TopoO(e, lakes)[o])
           /\ TopoO(e, lakes)[o].FOCEAN = IF IsOcean(FOCEANF(e), o) THEN Unit ELSE 0
           /\ OceanInBlock(FOCEANF(e), o) => TopoO(e, lakes)[o].FLAKE = 0
<1> DEFINE r == OnO(e, lakes)
           fr == LandFractions(r, o)
           ground == LakesToGround(r, fr, o)
           t == TopoO(e, lakes)[o]
<1>1. Unit \in Nat \ {0}
  BY TopoGridAssumption
<1>2. FractionsIn(r, o)
  BY RawFractions
<1>3. /\ IsOCell(t)
      /\ t.FOCEAN = fr.FOCEAN /\ t.FGICE = fr.FGICE
      /\ t.FLAKE = ground.FLAKE /\ t.FGRND = ground.FGRND
      /\ t.FOCEANF = r.FOCEANF[o] /\ t.FGICEF = r.FGICEF[o]
  BY TopoOFields
<1>4. r.FOCEANF = FOCEANF(e)
  BY DEF OnO
<1>5. fr.FOCEAN = IF IsOcean(FOCEANF(e), o) THEN Unit ELSE 0
  BY <1>4 DEF LandFractions
<1>6. OceanInBlock(FOCEANF(e), o) => ground.FLAKE = 0
  BY <1>4 DEF LakesToGround, LandFractions
<1>7. /\ {fr.FOCEAN, fr.FGICE, fr.FLAKE, fr.FGRND} \subseteq 0..Unit
      /\ {ground.FLAKE, ground.FGRND} \subseteq 0..Unit
      /\ fr.FOCEAN + ground.FLAKE + ground.FGRND + fr.FGICE = Unit
  BY <1>2, SurfacesCover
<1>8. IsOcean(FOCEANF(e), o) => o[2] # 1
  BY DEF IsOcean
<1> HIDE DEF r, fr, ground, t
<1>9. t.FOCEAN = Unit => RoomForIce(t)
  BY <1>1, <1>2, <1>3, <1>5, <1>8 DEF FractionsIn, RoomForIce
<1>10. CellCovered(t)
  BY <1>1, <1>3, <1>5, <1>7, <1>9 DEF CellCovered
<1> QED
  BY <1>3, <1>5, <1>6, <1>10 DEF t

\* A file of make_topoo has its cells covered, and so has a merge of sheets into it.
LEMMA TopoOFile ==
    ASSUME ECInv, FilesMade, IceOnLand, topoo # None
    PROVE  /\ topoo \in [OCells -> {topoo[o] : o \in OCells}]
           /\ \A o \in OCells : IsOCell(topoo[o]) /\ CellCovered(topoo[o])
           /\ \A o \in OCells :
                 /\ topoo[o].FOCEAN = IF IsOcean(FOCEANF(etopo1), o) THEN Unit ELSE 0
                 /\ OceanInBlock(FOCEANF(etopo1), o) => topoo[o].FLAKE = 0
<1>1. /\ topoo = TopoO(etopo1, input.lakes) /\ etopo1 # None
      /\ etopo1.fgice \cap OceanFine(etopo1) = {} /\ LakesOK(input.lakes)
  BY DEF FilesMade, IceOnLand, ECInv, InputOK, LakesOK
<1>2. topoo \in [OCells -> {topoo[o] : o \in OCells}]
  <2>1. DOMAIN TopoO(etopo1, input.lakes) = OCells
        /\ TopoO(etopo1, input.lakes) = [o \in OCells |-> TopoO(etopo1, input.lakes)[o]]
    BY DEF TopoO, TopoOCells
  <2> QED
    BY <1>1, <2>1
<1> QED
  BY <1>1, <1>2, TopoOCovered

\* The invariant of the proofs: files are what their programs make of others, and ice is
\* on land.
THEOREM FilesInvariant == Spec => [](ECInv /\ FilesMade /\ IceOnLand)
BY MadeInvariant, IceNeverOnOcean, PTL

-----------------------------------------------------------------------------
(* callZ() *)

\* The heights from the n-th lowest cell up
From(S, z, n) == {z[f] : f \in {g \in S : Cardinality({h \in S : z[h] <= z[g]}) >= n}}

\* The n-th height of some cells grows with n.
LEMMA NthOrdered ==
    ASSUME NEW S, IsFiniteSet(S), NEW z, \A f \in S : z[f] \in Int,
           NEW m \in 1..Cardinality(S), NEW n \in 1..Cardinality(S), m <= n
    PROVE  Nth(S, z, m) \in Int /\ Nth(S, z, n) \in Int /\ Nth(S, z, m) <= Nth(S, z, n)
<1> DEFINE upto(g) == {h \in S : z[h] <= z[g]}
           Z == {z[f] : f \in S}
<1>1. Cardinality(S) \in Nat
  BY FS_CardinalityType
<1>2. \A g \in S : Cardinality(upto(g)) \in Nat
  BY FS_Subset, FS_CardinalityType
<1>3. IsFiniteSet(Z) /\ Z \in SUBSET Int
  BY ImageFinite
<1>4. ASSUME NEW k \in 1..Cardinality(S)
      PROVE  From(S, z, k) # {} /\ From(S, z, k) \subseteq Z
  <2>1. S # {}
    <3>1. S = {} => Cardinality(S) = 0
      BY FS_EmptySet
    <3> QED
      BY <1>1, <3>1
  <2>2. Max(Z) \in Z /\ \A y \in Z : y <= Max(Z)
    <3>1. Z # {}
      BY <2>1
    <3> HIDE DEF Z
    <3> QED
      BY <1>3, <3>1, MinMaxIn
  <2>3. PICK g \in S : \A h \in S : z[h] <= z[g]
    BY <2>2
  <2>4. upto(g) = S
    BY <2>3
  <2>5. Cardinality(upto(g)) >= k
    <3> HIDE DEF upto
    <3> QED
      BY <1>1, <2>4
  <2>6. z[g] \in From(S, z, k)
    BY <2>3, <2>5 DEF From
  <2> QED
    BY <2>6 DEF From
<1>5. From(S, z, n) \subseteq From(S, z, m)
  <2>1. ASSUME NEW g \in S, Cardinality(upto(g)) >= n PROVE Cardinality(upto(g)) >= m
    <3>1. Cardinality(upto(g)) \in Nat
      BY <1>2
    <3> HIDE DEF upto
    <3> QED
      BY <1>1, <2>1, <3>1
  <2> QED
    BY <2>1 DEF From
<1>6. ASSUME NEW k \in 1..Cardinality(S)
      PROVE  /\ Min(From(S, z, k)) \in From(S, z, k) /\ Min(From(S, z, k)) \in Int
             /\ \A y \in From(S, z, k) : Min(From(S, z, k)) <= y
  <2>1. From(S, z, k) # {} /\ From(S, z, k) \subseteq Z
    BY <1>4
  <2> HIDE DEF Z
  <2>2. IsFiniteSet(From(S, z, k)) /\ From(S, z, k) \in SUBSET Int
    BY <1>3, <2>1, FS_Subset
  <2> QED
    BY <2>1, <2>2, MinMaxIn
<1>7. \A k : Nth(S, z, k) = Min(From(S, z, k))
  BY DEF Nth, From
<1> QED
  BY <1>5, <1>6, <1>7

\* A break is one of the cells.
LEMMA BreakIn ==
    ASSUME NEW n \in Nat \ {0}, NEW frac \in Nat
    PROVE  BreakAt(n, frac) \in 1..n
<1> DEFINE k == (frac * n) \div Unit + 1
<1>1. k \in Nat \ {0}
  <2>1. frac * n \in Nat /\ Unit \in Nat \ {0}
    BY TopoGridAssumption
  <2>2. (frac * n) \div Unit \in Nat
    BY <2>1, DivMod
  <2> QED
    BY <2>2
<1> HIDE DEF k
<1>2. IsFiniteSet({n, k}) /\ {n, k} \in SUBSET Int /\ {n, k} # {}
  BY <1>1, PairFinite
<1>3. Min({n, k}) \in {n, k} /\ \A y \in {n, k} : Min({n, k}) <= y
  BY <1>2, MinMaxIn
<1> QED
  BY <1>1, <1>3 DEF BreakAt, k

\* Ground starts at or above the lake.
LEMMA GroundAboveLake ==
    ASSUME NEW n \in Nat \ {0}, NEW fr, fr.FLAKE \in Nat, fr.FGRND \in Nat
    PROVE  GroundBreak(n, fr) \in 1..n /\ BreakAt(n, fr.FLAKE) <= GroundBreak(n, fr)
<1> DEFINE a == BreakAt(n, fr.FLAKE)
           b == BreakAt(n, fr.FLAKE + fr.FGRND)
<1>1. a \in 1..n /\ b \in 1..n
  <2>1. fr.FLAKE + fr.FGRND \in Nat
    OBVIOUS
  <2> QED
    BY <2>1, BreakIn
<1> HIDE DEF a, b
<1>2. IsFiniteSet({a, b}) /\ {a, b} \in SUBSET Int /\ {a, b} # {}
  <2>1. a \in Int /\ b \in Int
    BY <1>1
  <2> QED
    BY <2>1, PairFinite
<1>3. Max({a, b}) \in {a, b} /\ \A y \in {a, b} : y <= Max({a, b})
  BY <1>2, MinMaxIn
<1> QED
  BY <1>1, <1>3 DEF GroundBreak, a, b

Ordered(z) == z.ZSGLO <= z.ZLAKE /\ z.ZLAKE <= z.ZGRND /\ z.ZGRND <= z.ZSGHI

\* The surfaces of a land cell that has continent lie above one another.
LEMMA ElevationsOrdered ==
    ASSUME NEW e, e.ztop \in [Fine -> Int], NEW o \in OCells, Continent(e, o) # {},
           NEW fr, fr.FOCEAN = 0, fr.FLAKE \in Nat, fr.FGRND \in Nat
    PROVE  Ordered(CellElevations(e, fr, o))
<1> DEFINE S == Continent(e, o)
           n == Cardinality(S)
           lake == BreakAt(n, fr.FLAKE)
           ground == GroundBreak(n, fr)
           z == CellElevations(e, fr, o)
<1>1. S \subseteq Fine
  <2>1. FineOf(o) \subseteq Fine
    BY FineCells
  <2> QED
    BY <2>1 DEF Continent, Described
<1>2. IsFiniteSet(S) /\ \A f \in S : e.ztop[f] \in Int
  BY <1>1, IceFinite, FS_Subset
<1>3. n \in Nat \ {0}
  BY <1>2, FS_CardinalityType, FS_EmptySet
<1>4. /\ z.ZSGLO = Nth(S, e.ztop, 1) /\ z.ZLAKE = Nth(S, e.ztop, lake)
      /\ z.ZGRND = Nth(S, e.ztop, ground) /\ z.ZSGHI = Nth(S, e.ztop, n)
  BY DEF CellElevations
<1> HIDE DEF S, z
<1>5. lake \in 1..n /\ ground \in 1..n /\ lake <= ground /\ 1 \in 1..n /\ n \in 1..n
  <2>1. BreakAt(n, fr.FLAKE) \in 1..n
    BY <1>3, BreakIn
  <2>2. GroundBreak(n, fr) \in 1..n /\ BreakAt(n, fr.FLAKE) <= GroundBreak(n, fr)
    BY <1>3, GroundAboveLake
  <2> HIDE DEF n
  <2> QED
    BY <1>3, <2>1, <2>2
<1> HIDE DEF lake, ground
<1>6. \A i, j \in 1..n : i <= j => Nth(S, e.ztop, i) <= Nth(S, e.ztop, j)
  BY <1>2, NthOrdered
<1>7. 1 <= lake /\ ground <= n
  BY <1>5
<1> HIDE DEF n
<1>8. Ordered(z)
  BY <1>4, <1>5, <1>6, <1>7 DEF Ordered
<1> QED
  BY <1>8 DEF z

\* A polar row is ocean or is not, as a whole.
LEMMA RowsAlike ==
    ASSUME NEW e, NEW o \in OCells, Pole(o), NEW p \in OCells, p[2] = o[2]
    PROVE  IsOcean(FOCEANF(e), p) <=> IsOcean(FOCEANF(e), o)
<1>1. Pole(p)
  BY DEF Pole
<1>2. ASSUME NEW B PROVE MeanPolar(B)[p] = MeanPolar(B)[o]
  <2>1. ASSUME NEW q \in {o, p}
        PROVE  MeanPolar(B)[q] = IF \E i \in 1..IM : B[<<i, o[2]>>] = 0 THEN 0
                                 ELSE Sum([i \in 1..IM |-> B[<<i, o[2]>>]], 1..IM) \div IM
    <3>1. SumOver(1..IM, LAMBDA i : B[<<i, q[2]>>]) = Sum([i \in 1..IM |-> B[<<i, q[2]>>]], 1..IM)
      BY SumAlongRow DEF SumOver
    <3>2. q \in OCells /\ Pole(q) /\ q[2] = o[2]
      BY <1>1
    <3> QED
      BY <3>1, <3>2 DEF MeanPolar
  <2> QED
    BY <2>1
<1>3. FOCEANF(e)[p] = FOCEANF(e)[o]
  BY <1>2 DEF FOCEANF, FractionOf
<1>4. o \notin ToLand \cup ToOcean /\ p \notin ToLand \cup ToOcean
  BY <1>1, SetToAssumption
<1> QED
  BY <1>3, <1>4 DEF IsOcean

\* In land cells of TOPOO, lakes lie at or above the lowest land, ground at or above the
\* lakes and the highest land at or above the ground.
THEOREM LandOrdered == Spec => []SurfacesOrdered
<1>1. ASSUME ECInv, FilesMade, IceOnLand, topoo # None, NEW o \in OCells \ DOMAIN Resets,
             topoo[o].FOCEAN = 0
      PROVE  Ordered(topoo[o])
  <2> DEFINE e == etopo1
             r == OnO(e, input.lakes)
             p == IF Pole(o) THEN <<1, o[2]>> ELSE o
             fr == LandFractions(r, p)
             z == CellElevations(e, fr, p)
  <2>1. /\ topoo = TopoO(e, input.lakes) /\ e # None /\ ~CallZFails(e)
        /\ e.fgice \cap OceanFine(e) = {} /\ LakesOK(input.lakes) /\ e.ztop \in [Fine -> Int]
    BY <1>1 DEF FilesMade, IceOnLand, ECInv, InputOK, LakesOK, IceFile
  <2>2. p \in OCells /\ (IsOcean(FOCEANF(e), p) <=> IsOcean(FOCEANF(e), o))
    <3>1. CASE Pole(o)
      <4>1. p \in OCells /\ p[2] = o[2]
        BY <3>1, TopoGridAssumption DEF OCells
      <4> QED
        BY <3>1, <4>1, RowsAlike
    <3>2. CASE ~Pole(o)
      BY <3>2
    <3> QED
      BY <3>1, <3>2
  <2>3. ~IsOcean(FOCEANF(e), p)
    <3>1. topoo[o].FOCEAN = IF IsOcean(FOCEANF(e), o) THEN Unit ELSE 0
      BY <1>1, TopoOFile
    <3> QED
      BY <1>1, <2>2, <3>1, TopoGridAssumption
  <2>4. Continent(e, p) # {}
    BY <2>1, <2>2, <2>3 DEF CallZFails
  <2>5. fr.FOCEAN = 0
    BY <2>3 DEF LandFractions, OnO
  <2>6. fr.FLAKE \in Nat /\ fr.FGRND \in Nat
    <3>1. FractionsIn(r, p)
      BY <2>1, <2>2, RawFractions
    <3>2. {fr.FOCEAN, fr.FGICE, fr.FLAKE, fr.FGRND} \subseteq 0..Unit
      BY <2>2, <3>1, SurfacesCover
    <3> HIDE DEF fr
    <3> QED
      BY <3>2, TopoGridAssumption
  <2>7. Ordered(z)
    <3> HIDE DEF fr, p
    <3> QED
      BY <2>1, <2>2, <2>4, <2>5, <2>6, ElevationsOrdered
  <2> DEFINE w == Reset(Replicated(e, r, o), o)
  <2>8. /\ topoo[o].ZSGLO = w.ZSGLO /\ topoo[o].ZLAKE = w.ZLAKE
        /\ topoo[o].ZGRND = w.ZGRND /\ topoo[o].ZSGHI = w.ZSGHI
    BY <2>1, TopoOFields
  <2>9. w.ZSGLO = z.ZSGLO /\ w.ZLAKE = z.ZLAKE /\ w.ZGRND = z.ZGRND /\ w.ZSGHI = z.ZSGHI
    <3>1. w = [z EXCEPT !.ZATMOF = IF o = p THEN @ ELSE 0]
      BY DEF Reset, Replicated
    <3>2. {"ZSGLO", "ZLAKE", "ZGRND", "ZSGHI"} \subseteq DOMAIN z
      BY DEF CellElevations
    <3> HIDE DEF z, w
    <3> QED
      BY <3>1, <3>2
  <2> HIDE DEF w, z
  <2> QED
    BY <2>7, <2>8, <2>9 DEF Ordered
<1>2. ECInv /\ FilesMade /\ IceOnLand => SurfacesOrdered
  BY <1>1 DEF SurfacesOrdered, Ordered
<1> QED
  BY <1>2, FilesInvariant, PTL
=============================================================================
