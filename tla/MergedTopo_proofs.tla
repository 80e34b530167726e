-------------------------- MODULE MergedTopo_proofs --------------------------
(***************************************************************************)
(* Theorems about ice sheets merged into the topography, for any planet    *)
(* and any of the sheets that the tools merge: the merged file covers its  *)
(* cells and its matrix has all the ice, Greenland that was taken out and  *)
(* merged back in is as before, and the A grid made of the merged file     *)
(* keeps lakes off the ocean, has its ghosts ready and classes for its ice.*)
(***************************************************************************)
EXTENDS TopoTools_proofs

-----------------------------------------------------------------------------
(* Local sheets on the ocean grid *)

\* The places of fine cells in a matrix to O
ByO(S) == {<<OofF(f), f>> : f \in S}

\* A sheet of fine cells G, and elevations of some of them
SheetGrid(G) == ExchangeGrid(G, [f \in G |-> OofF(f)])

\* The matrices of a sheet have a one for each of its fine cells that elev has.
LEMMA SheetMatrices ==
    ASSUME NEW G, NEW elev, DOMAIN elev \subseteq G
    PROVE  LET S == DOMAIN elev  x == SheetGrid(G)
           IN  /\ UsedX(x, elev) = S /\ \A f \in G : x.area[f] = 1
               /\ GvAp(x, elev) = Ones({<<f, OofF(f)>> : f \in S})
               /\ GvI(x, elev) = Ones({<<f, f>> : f \in S})
               /\ Through(x, GvAp(x, elev), GvI(x, elev)) = Ones(ByO(S))
<1> DEFINE S == DOMAIN elev
           x == SheetGrid(G)
           A == {<<f, f, OofF(f), 1>> : f \in S}
           I == {<<f, f, f, 1>> : f \in S}
           a == Ones({<<f, OofF(f)>> : f \in S})
           i == Ones({<<f, f>> : f \in S})
<1>1. /\ x.cells = G /\ \A f \in G : x.a[f] = OofF(f) /\ x.i[f] = f /\ x.area[f] = 1
  BY DEF ExchangeGrid, SheetGrid
<1>2. UsedX(x, elev) = S
  BY <1>1 DEF UsedX
<1> HIDE DEF x
<1>3. GvAp(x, elev) = Accumulate(A) /\ GvI(x, elev) = Accumulate(I)
  <2>1. {d \in UsedX(x, elev) : x.area[d] > 0} = S
    BY <1>1, <1>2
  <2>2. {<<c, c, x.a[c], x.area[c]>> : c \in S} = A /\ {<<c, c, x.i[c], x.area[c]>> : c \in S} = I
    BY <1>1
  <2> QED
    BY <1>2, <2>1, <2>2 DEF GvAp, GvI
<1>4. Accumulate(A) = a
  <2> DEFINE g == [f \in S |-> OofF(f)]
  <2>1. A = {<<f, f, g[f], 1>> : f \in S} /\ a = Ones({<<f, g[f]>> : f \in S})
    OBVIOUS
  <2> HIDE DEF A, a, g, S
  <2> QED
    BY <2>1, AccumulateOnes
<1>5. Accumulate(I) = i
  <2> DEFINE g == [f \in S |-> f]
  <2>1. I = {<<f, f, g[f], 1>> : f \in S} /\ i = Ones({<<f, g[f]>> : f \in S})
    OBVIOUS
  <2> HIDE DEF I, i, g, S
  <2> QED
    BY <2>1, AccumulateOnes
<1>6. Through(x, a, i) = Ones(ByO(S))
  <2> DEFINE R == Routes(x.area, a, i)
             T == {<<<<<<f, OofF(f)>>, <<f, f>>>>, OofF(f), f, 1>> : f \in S}
  <2>1. R = T
    <3>1. ASSUME NEW f \in S
          PROVE  {c \in DOMAIN i : c[1] = f} = {<<f, f>>}
      BY DEF Ones
    <3>2. \A f \in S : a[<<f, OofF(f)>>] = 1 /\ i[<<f, f>>] = 1 /\ x.area[f] = 1
      BY <1>1 DEF Ones
    <3>3. DOMAIN a = {<<f, OofF(f)>> : f \in S}
      BY DEF Ones
    <3>4. (1 * 1) \div 1 = 1
      OBVIOUS
    <3>5. R = UNION {{<<<<b, c>>, b[2], c[2], (a[b] * i[c]) \div x.area[b[1]]>> :
                          c \in {d \in DOMAIN i : d[1] = b[1]}} : b \in DOMAIN a}
      BY DEF Routes
    <3> HIDE DEF a, i, R
    <3>6. ASSUME NEW t \in R PROVE t \in T
      <4>1. PICK b \in DOMAIN a :
              t \in {<<<<b, c>>, b[2], c[2], (a[b] * i[c]) \div x.area[b[1]]>> :
                        c \in {d \in DOMAIN i : d[1] = b[1]}}
        BY <3>5, <3>6
      <4>2. PICK f \in S : b = <<f, OofF(f)>>
        BY <3>3
      <4>3. PICK c \in {d \in DOMAIN i : d[1] = b[1]} :
              t = <<<<b, c>>, b[2], c[2], (a[b] * i[c]) \div x.area[b[1]]>>
        BY <4>1
      <4>4. c = <<f, f>>
        BY <3>1, <4>2, <4>3
      <4> QED
        BY <3>2, <3>4, <4>2, <4>3, <4>4
    <3>7. ASSUME NEW f \in S
          PROVE  <<<<<<f, OofF(f)>>, <<f, f>>>>, OofF(f), f, 1>> \in R
      <4> DEFINE b == <<f, OofF(f)>>
                 c == <<f, f>>
      <4>1. b \in DOMAIN a /\ c \in {d \in DOMAIN i : d[1] = b[1]}
        BY <3>1, <3>3
      <4>2. <<<<b, c>>, b[2], c[2], (a[b] * i[c]) \div x.area[b[1]]>> \in R
        BY <3>5, <4>1
      <4> QED
        BY <3>2, <3>4, <4>2
    <3> QED
      BY <3>6, <3>7
  <2>2. /\ \A t \in T : t[4] = 1 /\ t[4] \in Int
        /\ \A t, u \in T : t[2] = u[2] /\ t[3] = u[3] => t = u
        /\ {<<t[2], t[3]>> : t \in T} = ByO(S)
    <3>1. \A t \in T : /\ t[2] = OofF(t[3]) /\ t[4] = 1 /\ t[3] \in S
                       /\ t[1] = <<<<t[3], OofF(t[3])>>, <<t[3], t[3]>>>>
      OBVIOUS
    <3>2. \A t \in T : t = <<t[1], t[2], t[3], t[4]>>
      OBVIOUS
    <3>3. \A f \in S : \E t \in T : t[3] = f
      <4> SUFFICES ASSUME NEW f \in S PROVE \E t \in T : t[3] = f
        OBVIOUS
      <4> DEFINE u == <<<<<<f, OofF(f)>>, <<f, f>>>>, OofF(f), f, 1>>
      <4>1. u \in T /\ u[3] = f
        OBVIOUS
      <4> QED
        BY <4>1
    <3> HIDE DEF T
    <3>4. \A t, u \in T : t[3] = u[3] => t = u
      BY <3>1, <3>2
    <3>5. {<<t[2], t[3]>> : t \in T} = {<<OofF(f), f>> : f \in S}
      BY <3>1, <3>3
    <3> QED
      BY <3>1, <3>4, <3>5 DEF ByO
  <2> HIDE DEF T, R, a, i
  <2>3. Through(x, a, i) = Accumulate(T)
    BY <2>1, ThroughRoutes DEF R
  <2>4. /\ DOMAIN Accumulate(T) = {<<t[2], t[3]>> : t \in T}
        /\ \A t \in T : Accumulate(T)[<<t[2], t[3]>>] = t[4]
    BY <2>2, AccumulateApart
  <2> QED
    BY <2>2, <2>3, <2>4 DEF Ones, Accumulate
<1> QED
  BY <1>1, <1>2, <1>3, <1>4, <1>5, <1>6 DEF x

\* A count of fine cells in an O cell is at most all of them.
LEMMA CountNat ==
    ASSUME NEW o \in OCells, NEW S
    PROVE  CountIn(o, S) \in Nat /\ CountIn(o, S) <= NSub
<1>1. S \cap {} = {}
  OBVIOUS
<1>2. CountIn(o, S) \in Nat /\ CountIn(o, {}) \in Nat /\ CountIn(o, S) + CountIn(o, {}) <= NSub
  BY <1>1, CountsFit
<1> QED
  BY <1>2, GrainIs

\* The fine cells of S in an O cell are its entries of the row.
LEMMA OnesRowSum ==
    ASSUME NEW S, S \subseteq Fine
    PROVE  LET M == Ones(ByO(S))
           IN  /\ IsFiniteSet(S) /\ DOMAIN M = ByO(S)
               /\ RowsOf(M) = {OofF(f) : f \in S}
               /\ DOMAIN RowSum(M) = {OofF(f) : f \in S}
               /\ \A o \in OCells : At(RowSum(M), o) = CountIn(o, S)
<1> DEFINE M == Ones(ByO(S))
<1>1. IsFiniteSet(S)
  BY IceFinite, FS_Subset
<1>2. DOMAIN M = ByO(S) /\ \A rc \in DOMAIN M : M[rc] = 1
  BY DEF Ones
<1>3. RowsOf(M) = {OofF(f) : f \in S}
  <2>1. {rc[1] : rc \in ByO(S)} \subseteq {OofF(f) : f \in S}
    BY DEF ByO
  <2>2. ASSUME NEW f \in S PROVE OofF(f) \in {rc[1] : rc \in ByO(S)}
    <3>1. <<OofF(f), f>> \in ByO(S) /\ <<OofF(f), f>>[1] = OofF(f)
      BY DEF ByO
    <3> QED
      BY <3>1
  <2> QED
    BY <1>2, <2>1, <2>2 DEF RowsOf
<1>4. DOMAIN RowSum(M) = {OofF(f) : f \in S}
  BY <1>3 DEF RowSum
<1>5. ASSUME NEW o \in OCells PROVE At(RowSum(M), o) = CountIn(o, S)
  <2> DEFINE C == FineOf(o) \cap S
             P == {rc \in ByO(S) : rc[1] = o}
             name == [f \in C |-> <<o, f>>]
  <2>1. P = {name[f] : f \in C}
    <3>1. \A f \in S : OofF(f) = o <=> f \in C
      BY FineCells
    <3> QED
      BY <3>1 DEF ByO
  <2>2. IsFiniteSet(C) /\ \A f, g \in C : name[f] = name[g] => f = g
    BY FineCells, FS_Subset
  <2>3. IsFiniteSet(P) /\ Cardinality(P) = Cardinality(C)
    <3> HIDE DEF name, C, P
    <3>1. LET N == {name[f] : f \in C} IN IsFiniteSet(N) /\ Cardinality(N) = Cardinality(C)
      BY <2>2, ImageCardinality
    <3> QED
      BY <2>1, <3>1
  <2>4. Sum(M, P) = 1 * Cardinality(C)
    <3>1. \A rc \in P : M[rc] = 1
      BY <1>2
    <3> HIDE DEF M, P, C
    <3> QED
      BY <2>3, <3>1, SumConst
  <2>5. CountIn(o, S) \in Nat /\ Cardinality(C) = CountIn(o, S)
    BY CountNat DEF CountIn
  <2>6. o \in DOMAIN RowSum(M) => RowSum(M)[o] = Sum(M, P)
    <3>1. {rc \in DOMAIN M : rc[1] = o} = P
      BY <1>2
    <3> QED
      BY <1>3, <1>4, <3>1 DEF RowSum, Sum
  <2>7. o \notin DOMAIN RowSum(M) => C = {}
    BY <1>4, FineCells
  <2>8. C = {} => Cardinality(C) = 0
    BY FS_EmptySet
  <2>9. \A n \in Nat : 1 * n = n
    OBVIOUS
  <2> HIDE DEF M, P, C
  <2> QED
    BY <2>4, <2>5, <2>6, <2>7, <2>8, <2>9 DEF At
<1> QED
  BY <1>1, <1>2, <1>3, <1>4, <1>5

\* A sheet of fine cells has ice on its land.
IsSheet(s) ==
    \E G \in SUBSET Fine :
        /\ s.x = SheetGrid(G)
        /\ DOMAIN s.ice \subseteq DOMAIN s.land /\ DOMAIN s.land \subseteq G

\* The matrix from a sheet to O has an entry for every fine cell of the sheet, and
\* its weights count them, corrected or not.
LEMMA OverlapCounts ==
    ASSUME NEW s, NEW G \in SUBSET Fine, s.x = SheetGrid(G), NEW elev, DOMAIN elev \subseteq G,
           NEW c \in BOOLEAN
    PROVE  /\ OvI(s, elev, c).M = Ones(ByO(DOMAIN elev))
           /\ DOMAIN OvI(s, elev, c).wM = {OofF(f) : f \in DOMAIN elev}
           /\ \A o \in OCells : At(OvI(s, elev, c).wM, o) = CountIn(o, DOMAIN elev)
<1> DEFINE S == DOMAIN elev
           M == Ones(ByO(S))
           w == RowSum(M)
<1>1. OvI(s, elev, c).M = M
      /\ OvI(s, elev, c).wM = IF c THEN Corrected(OGeometry, "A", w) ELSE w
  BY SheetMatrices DEF OvI, AEvI
<1>2. /\ DOMAIN w = {OofF(f) : f \in S} /\ \A o \in OCells : At(w, o) = CountIn(o, S)
  BY OnesRowSum
<1>3. DOMAIN w \subseteq OCells
  BY <1>2 DEF Fine, OofF, OCells
<1> HIDE DEF w
<1>4. DOMAIN Corrected(OGeometry, "A", w) = DOMAIN w
  BY DEF Corrected
<1>5. ASSUME NEW o \in DOMAIN w PROVE Corrected(OGeometry, "A", w)[o] = w[o]
  <2>1. w[o] \in Nat
    <3>1. w[o] = CountIn(o, S)
      BY <1>2, <1>3, <1>5 DEF At
    <3> QED
      BY <1>3, <1>5, <3>1, CountNat
  <2>2. Corrected(OGeometry, "A", w)[o] = (w[o] * NSub) \div NSub
    BY <1>3, <1>5 DEF Corrected, OGeometry, CellIn
  <2>3. NSub \in Nat \ {0}
    BY GrainIs
  <2>4. \A n \in Nat : (n * NSub) \div NSub = n
    <3> SUFFICES ASSUME NEW n \in Nat PROVE (n * NSub) \div NSub = n
      OBVIOUS
    <3>1. n * NSub = NSub * n + 0 /\ 0 \in 0..(NSub - 1)
      BY <2>3
    <3> QED
      BY <2>3, <3>1, DivUnique
  <2> QED
    BY <2>1, <2>2, <2>4
<1> HIDE DEF S, M
<1> QED
  BY <1>1, <1>2, <1>3, <1>4, <1>5 DEF At, S, M

\* A sum over sheets of their weights at one place
WeightsFrom(f, o, S, h) ==
    h = [s \in SUBSET S |->
            IF s = {} THEN 0 ELSE At(f[First(s)], o) + h[s \ {First(s)}]]

\* The operator for sums over sheets is a sum over a function.
LEMMA SumOfWeights ==
    ASSUME NEW f, NEW o, NEW S
    PROVE  MapThenSumSet(LAMBDA s : At(f[s], o), S) = Sum([s \in S |-> At(f[s], o)], S)
<1> DEFINE g == [s \in S |-> At(f[s], o)]
<1>1. MapThenSumSet(LAMBDA s : At(f[s], o), S) = (CHOOSE h : WeightsFrom(f, o, S, h))[S]
  BY DEF MapThenSumSet, MapThenFoldSet, WeightsFrom, First
<1>2. \A s \in SUBSET S : s # {} => At(f[First(s)], o) = g[First(s)]
  BY FirstIn
<1> HIDE DEF g
<1>3. ASSUME NEW h PROVE WeightsFrom(f, o, S, h) <=> SumsFrom(g, S, h)
  <2>1. [s \in SUBSET S |-> IF s = {} THEN 0 ELSE At(f[First(s)], o) + h[s \ {First(s)}]]
        = [s \in SUBSET S |-> IF s = {} THEN 0 ELSE g[First(s)] + h[s \ {First(s)}]]
    BY <1>2
  <2> QED
    BY <2>1 DEF WeightsFrom, SumsFrom
<1>4. (CHOOSE h : WeightsFrom(f, o, S, h)) = (CHOOSE h : SumsFrom(g, S, h))
  BY <1>3
<1> QED
  BY <1>1, <1>4, SumDef DEF g

\* Sheets with what make_merged_topoo computes of them
OnOcean(sheets) == [s \in DOMAIN sheets |-> SheetOnO(sheets[s])]

\* Merging counts the fine cells of ice and of land that the sheets have in an O
\* cell.
LEMMA AddedCounts ==
    ASSUME NEW sheets, IsFiniteSet(DOMAIN sheets), \A s \in DOMAIN sheets : IsSheet(sheets[s]),
           NEW o \in OCells
    PROVE  LET d == Added(OnOcean(sheets), o)
           IN  /\ d.gice = Sum([s \in DOMAIN sheets |-> CountIn(o, DOMAIN sheets[s].ice)],
                              DOMAIN sheets)
               /\ d.cont = Sum([s \in DOMAIN sheets |-> CountIn(o, DOMAIN sheets[s].land)],
                              DOMAIN sheets)
<1> DEFINE on == OnOcean(sheets)
           D == DOMAIN sheets
           ice == [s \in D |-> on[s].iceArea.wM]
           land == [s \in D |-> on[s].landArea.wM]
           d == Added(on, o)
<1>1. DOMAIN on = D /\ \A s \in D : on[s] = SheetOnO(sheets[s])
  BY DEF OnOcean
<1>2. \A s \in D : /\ on[s].iceArea = OvI(sheets[s], sheets[s].ice, TRUE)
                   /\ on[s].landArea = OvI(sheets[s], sheets[s].land, TRUE)
  <2>1. ASSUME NEW s
        PROVE  /\ SheetOnO(s).iceArea = OvI(s, s.ice, TRUE)
               /\ SheetOnO(s).landArea = OvI(s, s.land, TRUE)
    BY DEF SheetOnO
  <2> HIDE DEF on
  <2> QED
    BY <1>1, <2>1
<1> HIDE DEF on
<1>3. /\ d.gice = MapThenSumSet(LAMBDA s : At(ice[s], o), D)
      /\ d.cont = MapThenSumSet(LAMBDA s : At(land[s], o), D)
  <2>1. DOMAIN ice = D /\ DOMAIN land = D
    OBVIOUS
  <2>2. /\ d.gice = SumOver(DOMAIN ice, LAMBDA s : At(ice[s], o))
        /\ d.cont = SumOver(DOMAIN land, LAMBDA s : At(land[s], o))
    BY <1>1 DEF Added
  <2> QED
    BY <2>1, <2>2 DEF SumOver
<1>4. /\ d.gice = Sum([s \in D |-> At(ice[s], o)], D)
      /\ d.cont = Sum([s \in D |-> At(land[s], o)], D)
  <2> HIDE DEF ice, land, d, D
  <2> QED
    BY <1>3, SumOfWeights
<1>5. ASSUME NEW s \in D
      PROVE  /\ At(ice[s], o) = CountIn(o, DOMAIN sheets[s].ice)
             /\ At(land[s], o) = CountIn(o, DOMAIN sheets[s].land)
  <2>1. PICK G \in SUBSET Fine :
          /\ sheets[s].x = SheetGrid(G)
          /\ DOMAIN sheets[s].ice \subseteq DOMAIN sheets[s].land
          /\ DOMAIN sheets[s].land \subseteq G
    BY DEF IsSheet
  <2>2. DOMAIN sheets[s].ice \subseteq G
    BY <2>1
  <2>3. ASSUME NEW elev, DOMAIN elev \subseteq G
        PROVE  At(OvI(sheets[s], elev, TRUE).wM, o) = CountIn(o, DOMAIN elev)
    <3>1. ASSUME NEW c \in BOOLEAN
          PROVE  At(OvI(sheets[s], elev, c).wM, o) = CountIn(o, DOMAIN elev)
      BY <2>1, <2>3, OverlapCounts
    <3> QED
      BY <3>1
  <2>4. /\ At(OvI(sheets[s], sheets[s].ice, TRUE).wM, o) = CountIn(o, DOMAIN sheets[s].ice)
        /\ At(OvI(sheets[s], sheets[s].land, TRUE).wM, o) = CountIn(o, DOMAIN sheets[s].land)
    BY <2>1, <2>2, <2>3
  <2>5. ice[s] = OvI(sheets[s], sheets[s].ice, TRUE).wM /\ land[s] = OvI(sheets[s], sheets[s].land, TRUE).wM
    BY <1>2
  <2> QED
    BY <2>4, <2>5
<1>6. /\ [s \in D |-> At(ice[s], o)] = [s \in D |-> CountIn(o, DOMAIN sheets[s].ice)]
      /\ [s \in D |-> At(land[s], o)] = [s \in D |-> CountIn(o, DOMAIN sheets[s].land)]
  <2> HIDE DEF ice, land, D
  <2> QED
    BY <1>5
<1> HIDE DEF ice, land
<1> QED
  BY <1>4, <1>6 DEF on, d, D

\* So they add ice on their land.
LEMMA SheetsFit ==
    ASSUME NEW sheets, IsFiniteSet(DOMAIN sheets), \A s \in DOMAIN sheets : IsSheet(sheets[s]),
           NEW o \in OCells
    PROVE  SheetFits(Added(OnOcean(sheets), o))
<1> DEFINE D == DOMAIN sheets
           ice == [s \in D |-> CountIn(o, DOMAIN sheets[s].ice)]
           land == [s \in D |-> CountIn(o, DOMAIN sheets[s].land)]
<1>1. ASSUME NEW s \in D PROVE ice[s] \in Nat /\ land[s] \in Nat /\ ice[s] <= land[s]
  <2>1. DOMAIN sheets[s].ice \subseteq DOMAIN sheets[s].land
    BY DEF IsSheet
  <2> DEFINE A == FineOf(o) \cap DOMAIN sheets[s].ice
             B == FineOf(o) \cap DOMAIN sheets[s].land
  <2>2. A \subseteq B /\ B \subseteq FineOf(o)
    BY <2>1
  <2> HIDE DEF A, B
  <2>3. IsFiniteSet(B)
    BY <2>2, FineCells, FS_Subset
  <2>4. Cardinality(A) <= Cardinality(B)
    BY <2>2, <2>3, FS_Subset
  <2>5. ice[s] = Cardinality(A) /\ land[s] = Cardinality(B)
    BY DEF A, B, CountIn
  <2> QED
    BY <2>4, <2>5, CountNat
<1>2. /\ Added(OnOcean(sheets), o).gice = Sum(ice, D)
      /\ Added(OnOcean(sheets), o).cont = Sum(land, D)
  BY AddedCounts
<1>3. IsFiniteSet(D)
  OBVIOUS
<1> HIDE DEF ice, land, D
<1>4. Sum(ice, D) \in Nat /\ Sum(land, D) \in Nat /\ Sum(ice, D) <= Sum(land, D)
  <2>1. Ints(ice, D) /\ Ints(land, D)
    BY <1>1 DEF Ints
  <2> QED
    BY <1>1, <1>3, <2>1, SumNat, SumMonotone
<1> QED
  BY <1>2, <1>4 DEF SheetFits

\* The sheet that make_merged_topoo reads of an ice model of Greenland is one.
LEMMA GreenlandSheet ==
    ASSUME NEW g
    PROVE  /\ IsFiniteSet(DOMAIN Sheets(g))
           /\ Sheets(g) # <<>> => DOMAIN Sheets(g) = {1}
           /\ \A s \in DOMAIN Sheets(g) : IsSheet(Sheets(g)[s])
<1>1. GreenlandCells \subseteq Fine
  <2>1. \A o \in OCells : FineOf(o) \subseteq Fine
    BY FineCells
  <2> QED
    BY <2>1 DEF GreenlandCells
<1> DEFINE land == IF g = "half" THEN {f \in GreenlandCells : f[3] = 1} ELSE GreenlandCells
           ice  == IF g = "grown" THEN land
                   ELSE {f \in land : input.raw.thick[f] >= MinThickness}
           elev(S) == [f \in S |-> input.raw.ztop[f] + (IF g = "grown" THEN 1 ELSE 0)]
           sheet == [x |-> SheetGrid(GreenlandCells), land |-> elev(land), ice |-> elev(ice)]
<1>2. Sheets(g) = IF g = "none" THEN <<>> ELSE <<sheet>>
  BY DEF Sheets, SheetGrid
<1>3. ice \subseteq land /\ land \subseteq GreenlandCells
  OBVIOUS
<1>4. IsSheet(sheet)
  <2>1. DOMAIN elev(land) = land /\ DOMAIN elev(ice) = ice
    OBVIOUS
  <2> HIDE DEF land, ice, elev
  <2> QED
    BY <1>1, <1>3, <2>1 DEF IsSheet
<1> HIDE DEF sheet
<1>5. DOMAIN <<sheet>> = {1} /\ <<sheet>>[1] = sheet /\ DOMAIN <<>> = {}
  OBVIOUS
<1>6. IsFiniteSet({1}) /\ IsFiniteSet({})
  BY FS_EmptySet, FS_Singleton
<1> QED
  BY <1>2, <1>4, <1>5, <1>6

-----------------------------------------------------------------------------
(* The scan for single-cell oceans *)

\* A step of the scan, at a position
FillStep(p, u) ==
    IF IsSingleOcean(u, CellAt(p)) THEN [u EXCEPT ![CellAt(p)] = ToLandCell(@)] ELSE u

\* The scan as a recursion that takes the last position out first
FillFrom(t, h) ==
    h = [s \in SUBSET DOMAIN Order |->
            IF s = {} THEN t ELSE FillStep(Order[Max(s)], h[s \ {Max(s)}])]

\* The scan is the value, at all positions, of a function with that recursion.
LEMMA FillDef ==
    ASSUME NEW t
    PROVE  FillSingleOceans(t) = (CHOOSE h : FillFrom(t, h))[DOMAIN Order]
BY DEF FillSingleOceans, FoldLeft, MapThenFoldSet, FillFrom, FillStep, Order

\* A cell of ocean, with some land, that turned to land
Filled(t, u, o) ==
    ~Pole(o) /\ t[o].FOCEAN = Unit /\ t[o].FOCEANF # Unit /\ u[o] = ToLandCell(t[o])

\* What the scan may make of t
Fills(t) ==
    {u \in [OCells -> {t[o] : o \in OCells} \cup {ToLandCell(t[o]) : o \in OCells}] :
        \A o \in OCells : u[o] = t[o] \/ Filled(t, u, o)}

\* A step of the scan changes a cell from ocean to land or none.
LEMMA FillStepIn ==
    ASSUME NEW t, \A o \in OCells : IsOCell(t[o]), NEW p \in Positions, NEW u \in Fills(t)
    PROVE  FillStep(p, u) \in Fills(t)
<1> DEFINE o == CellAt(p)
           v == [u EXCEPT ![o] = ToLandCell(@)]
<1>1. CASE ~IsSingleOcean(u, o)
  BY <1>1 DEF FillStep
<1>2. CASE IsSingleOcean(u, o)
  <2>1. FillStep(p, u) = v
    BY <1>2 DEF FillStep
  <2>2. o \in OCells
    BY CellOfPosition
  <2>3. u[o].FOCEAN = Unit /\ u[o].FOCEANF # Unit /\ ~Pole(o)
    <3>1. o[2] \in 2..(JM - 1) /\ u[o].FOCEAN = Unit /\ u[o].FOCEANF # Unit
      BY <1>2 DEF IsSingleOcean
    <3>2. JM \in Nat
      BY TopoGridAssumption
    <3> HIDE DEF o
    <3> QED
      BY <3>1, <3>2 DEF Pole
  <2> HIDE DEF o
  <2>4. u[o] = t[o]
    <3>1. ASSUME u[o] = ToLandCell(t[o]) PROVE FALSE
      <4>1. ToLandCell(t[o]).FOCEAN = 0
        BY <2>2 DEF ToLandCell, IsOCell, OCellFields
      <4>2. Unit # 0
        BY TopoGridAssumption
      <4> QED
        BY <2>3, <3>1, <4>1, <4>2
    <3> QED
      BY <2>2, <3>1 DEF Fills, Filled
  <2>5. /\ DOMAIN v = OCells /\ v[o] = ToLandCell(t[o])
        /\ \A q \in OCells : q # o => v[q] = u[q]
    BY <2>2, <2>4 DEF Fills
  <2>6. v \in [OCells -> {t[q] : q \in OCells} \cup {ToLandCell(t[q]) : q \in OCells}]
    BY <2>2, <2>4 DEF Fills
  <2> HIDE DEF v
  <2>7. ASSUME NEW q \in OCells PROVE v[q] = t[q] \/ Filled(t, v, q)
    <3>1. CASE q = o
      BY <2>3, <2>4, <2>5, <3>1 DEF Filled
    <3>2. CASE q # o
      BY <2>5, <3>2 DEF Fills, Filled
    <3> QED
      BY <3>1, <3>2
  <2> QED
    BY <2>1, <2>6, <2>7 DEF Fills
<1> QED
  BY <1>1, <1>2

\* Removing single-cell oceans turns some ocean cells with land in them to land, none of
\* them twice, and leaves the other cells alone.
THEOREM FillsOceans ==
    ASSUME NEW W, NEW t \in [OCells -> W], \A o \in OCells : IsOCell(t[o])
    PROVE  FillSingleOceans(t) \in Fills(t)
<1> DEFINE V == Fills(t)
           ch == [s \in SUBSET Positions |-> Max(s)]
           step == [q \in Positions \X V |-> FillStep(q[1], q[2])]
<1>1. DOMAIN Order = Positions
  BY DEF Order
<1>2. t \in V
  BY DEF Fills
<1>3. \A s \in SUBSET Positions : ch[s] = Max(s) /\ (s # {} => ch[s] \in s)
  BY LastPosition
<1>4. \A p \in Positions : \A v \in V : FillStep(p, v) \in V
  BY FillStepIn
<1> HIDE DEF V
<1>5. step \in [Positions \X V -> V]
  BY <1>4
<1>6. \A p \in Positions : \A v \in V : step[<<p, v>>] = FillStep(p, v)
  OBVIOUS
<1> HIDE DEF ch, step
<1>7. PICK g : FoldsBy(ch, t, step, Positions, V, g)
  BY <1>2, <1>3, <1>5, IceFinite, FoldExists
<1>8. \A s \in SUBSET Positions :
          g[s] = IF s = {} THEN t ELSE FillStep(Order[Max(s)], g[s \ {Max(s)}])
  <2> SUFFICES ASSUME NEW s \in SUBSET Positions
               PROVE  g[s] = IF s = {} THEN t ELSE FillStep(Order[Max(s)], g[s \ {Max(s)}])
    OBVIOUS
  <2>1. g[s] = IF s = {} THEN t ELSE step[<<ch[s], g[s \ {ch[s]}]>>]
    BY <1>7 DEF FoldsBy
  <2>2. CASE s # {}
    <3>1. ch[s] = Max(s) /\ Max(s) \in Positions /\ Order[Max(s)] = Max(s)
      BY <1>3, <2>2, LastPosition
    <3>2. g[s \ {Max(s)}] \in V
      BY <1>7 DEF FoldsBy
    <3> QED
      BY <1>6, <2>1, <2>2, <3>1, <3>2
  <2> QED
    BY <2>1, <2>2
<1>9. FillFrom(t, g)
  <2>1. g \in [SUBSET Positions -> V]
    BY <1>7 DEF FoldsBy
  <2> QED
    BY <1>1, <1>8, <2>1 DEF FillFrom
<1> DEFINE i == CHOOSE h : FillFrom(t, h)
<1>10. FillFrom(t, i)
  BY <1>9
<1> HIDE DEF i
<1>11. \A s \in SUBSET Positions :
          i[s] = IF s = {} THEN t ELSE FillStep(Order[Max(s)], i[s \ {Max(s)}])
  BY <1>1, <1>10 DEF FillFrom
<1> DEFINE T == {s \in SUBSET Positions : i[s] \notin V}
<1>12. ASSUME T # {} PROVE FALSE
  <2>1. T \in SUBSET (SUBSET Positions)
    OBVIOUS
  <2>2. PICK s \in T : \A x \in s : s \ {x} \notin T
    <3> HIDE DEF T
    <3> QED
      BY <1>12, <2>1, IceFinite, SmallestSubset
  <2>3. s \in SUBSET Positions /\ s # {}
    BY <1>2, <1>11, <2>2
  <2>4. Max(s) \in s /\ Order[Max(s)] = Max(s)
    BY <2>3, LastPosition
  <2>5. i[s \ {Max(s)}] \in V
    BY <2>2, <2>3, <2>4
  <2>6. i[s] \in V
    BY <1>4, <1>11, <2>3, <2>4, <2>5
  <2> QED
    BY <2>2, <2>6
<1>13. i[Positions] \in V
  BY <1>12
<1>14. FillSingleOceans(t) = i[Positions]
  BY <1>1, FillDef DEF i
<1> QED
  BY <1>13, <1>14 DEF V

-----------------------------------------------------------------------------
(* The cells of a merged file *)

\* Nothing takes a field from a cell.
LEMMA FieldsStay ==
    ASSUME NEW t, IsOCell(t), NEW d
    PROVE  /\ IsOCell(GrownOp(t, d)) /\ IsOCell(ToLandCell(t)) /\ IsOCell(UpdatedCell(t, d))
           /\ GrownOp(t, d).FOCEAN = t.FOCEAN /\ GrownOp(t, d).FLAKE = t.FLAKE
           /\ ToLandCell(t).FOCEAN = 0 /\ ToLandCell(t).FLAKE = t.FLAKE
           /\ ToLandCell(t).FOCEANF = t.FOCEANF /\ ToLandCell(t).FGICEF = t.FGICEF
           /\ ToLandCell(t).ZICETOP = t.ZICETOP
<1>1. ASSUME NEW u, IsOCell(u)
      PROVE  /\ IsOCell(ToLandCell(u)) /\ ToLandCell(u).FOCEAN = 0
             /\ ToLandCell(u).FLAKE = u.FLAKE /\ ToLandCell(u).FOCEANF = u.FOCEANF
             /\ ToLandCell(u).FGICEF = u.FGICEF /\ ToLandCell(u).ZICETOP = u.ZICETOP
  BY <1>1 DEF ToLandCell, IsOCell, OCellFields
<1>2. /\ IsOCell(GrownOp(t, d))
      /\ GrownOp(t, d).FOCEAN = t.FOCEAN /\ GrownOp(t, d).FLAKE = t.FLAKE
  BY DEF GrownOp, IsOCell, OCellFields
<1>3. UpdatedCell(t, d) \in {t, GrownOp(t, d), ToLandCell(GrownOp(t, d))}
  BY DEF UpdatedCell
<1> QED
  BY <1>1, <1>2, <1>3

\* A cell u of the file that is made of a cell t of TOPOO where d is added
MergedFrom(t, d, u) ==
    /\ IsOCell(u)
    /\ u.FLAKE = t.FLAKE /\ u.FOCEAN \in {t.FOCEAN, 0}
    /\ d.cont = 0 => u.FOCEANF = t.FOCEANF /\ u.FGICEF = t.FGICEF /\ u.ZICETOP = t.ZICETOP
    /\ d.cont # 0 => LET g == GrownOp(t, d)
                     IN  u.FOCEANF = g.FOCEANF /\ u.FGICEF = g.FGICEF /\ u.ZICETOP = g.ZICETOP

\* What merge_topoO() makes of a cell: it adds the sheets, may fill the cell if it is
\* ocean on its own, and notes where it merged.
THEOREM MergedCell ==
    ASSUME NEW W, NEW t \in [OCells -> W], \A o \in OCells : IsOCell(t[o]),
           NEW sheets, NEW o \in OCells
    PROVE  LET on == OnOcean(sheets)
               d  == Added(on, o)
               u  == UpdatedCell(t[o], d)
               v  == MergeTopoO(t, sheets)[o]
           IN  /\ MergedFrom(t[o], d, v)
               /\ v.MERGEMASK = MergeMask(t[o], d, on, o)
               /\ v.ZLAND_MIN = IF v.MERGEMASK THEN d.zmin ELSE NoElev
               /\ v.ZLAND_MAX = IF v.MERGEMASK THEN d.zmax ELSE NoElev
               /\ \E w : /\ w = u \/ (/\ ~Pole(o) /\ u.FOCEAN = Unit /\ u.FOCEANF # Unit
                                     /\ w = ToLandCell(u))
                       /\ \A k \in {"FOCEAN", "FLAKE", "FGRND", "FGICE", "FOCEANF", "FGICEF"} :
                             v[k] = w[k]
<1> DEFINE on == OnOcean(sheets)
           dd == [p \in OCells |-> Added(on, p)]
           d  == Added(on, o)
           uu == [p \in OCells |-> UpdatedCell(t[p], dd[p])]
           u  == UpdatedCell(t[o], d)
           m  == [p \in OCells |-> MergeMask(t[p], dd[p], on, p)]
           ww == FillSingleOceans(uu)
           w  == ww[o]
           v  == MergeTopoO(t, sheets)[o]
<1>1. MergeTopoO(t, sheets) = WithMask(ww, dd, m)
  BY DEF MergeTopoO, Merge, OnOcean
<1>2. dd[o] = d /\ uu[o] = u /\ m[o] = MergeMask(t[o], d, on, o) /\ w = ww[o]
  OBVIOUS
<1>3. \A p \in OCells : IsOCell(uu[p])
  BY FieldsStay
<1>4. w = u \/ Filled(uu, ww, o)
  <2> DEFINE all == {uu[p] : p \in OCells}
  <2>1. uu \in [OCells -> all]
    OBVIOUS
  <2> HIDE DEF all, uu
  <2>2. ww \in Fills(uu)
    BY <1>3, <2>1, FillsOceans
  <2> QED
    BY <1>2, <2>2 DEF Fills
<1> HIDE DEF uu, ww, m, dd
<1>5. v = [w EXCEPT !.ZLAND_MIN = IF m[o] THEN dd[o].zmin ELSE NoElev,
                    !.ZLAND_MAX = IF m[o] THEN dd[o].zmax ELSE NoElev,
                    !.MERGEMASK = m[o]]
  BY <1>1 DEF WithMask
<1>6. IsOCell(u) /\ IsOCell(w)
  <2>1. IsOCell(u)
    BY <1>2, <1>3
  <2> QED
    BY <1>2, <1>4, <2>1, FieldsStay DEF Filled
<1> HIDE DEF u, w, v
<1>7. /\ IsOCell(v) /\ v.MERGEMASK = m[o]
      /\ v.ZLAND_MIN = IF m[o] THEN dd[o].zmin ELSE NoElev
      /\ v.ZLAND_MAX = IF m[o] THEN dd[o].zmax ELSE NoElev
      /\ v.FOCEAN = w.FOCEAN /\ v.FLAKE = w.FLAKE /\ v.FGRND = w.FGRND /\ v.FGICE = w.FGICE
      /\ v.FOCEANF = w.FOCEANF /\ v.FGICEF = w.FGICEF /\ v.ZICETOP = w.ZICETOP
  BY <1>5, <1>6 DEF IsOCell, OCellFields
<1>8. \A k \in {"FOCEAN", "FLAKE", "FGRND", "FGICE", "FOCEANF", "FGICEF"} : v[k] = w[k]
  BY <1>7
<1>9. w = u \/ (~Pole(o) /\ u.FOCEAN = Unit /\ u.FOCEANF # Unit /\ w = ToLandCell(u))
  BY <1>2, <1>4 DEF Filled
<1>10. /\ w.FLAKE = u.FLAKE /\ w.FOCEAN \in {u.FOCEAN, 0}
       /\ w.FOCEANF = u.FOCEANF /\ w.FGICEF = u.FGICEF /\ w.ZICETOP = u.ZICETOP
  BY <1>6, <1>9, FieldsStay
<1>11. MergedFrom(t[o], d, u)
  <2> DEFINE a == t[o]
             g == GrownOp(a, d)
  <2>1. IsOCell(a) /\ IsOCell(g) /\ g.FLAKE = a.FLAKE /\ g.FOCEAN = a.FOCEAN
    BY FieldsStay
  <2>2. u = IF d.cont = 0 THEN a ELSE IF Flips(g) THEN ToLandCell(g) ELSE g
    BY DEF u, UpdatedCell
  <2> HIDE DEF a, g, d
  <2>3. /\ ToLandCell(g).FOCEAN = 0 /\ ToLandCell(g).FLAKE = g.FLAKE
        /\ ToLandCell(g).FOCEANF = g.FOCEANF /\ ToLandCell(g).FGICEF = g.FGICEF
        /\ ToLandCell(g).ZICETOP = g.ZICETOP
    BY <2>1, FieldsStay
  <2>4. MergedFrom(a, d, u)
    BY <1>6, <2>1, <2>2, <2>3 DEF MergedFrom, g
  <2> QED
    BY <2>4 DEF a
<1>12. MergedFrom(t[o], d, v)
  <2> HIDE DEF d
  <2> QED
    BY <1>7, <1>10, <1>11 DEF MergedFrom
<1> QED
  BY <1>2, <1>7, <1>8, <1>9, <1>12 DEF u, v

\* Merging sheets keeps every cell covered.
LEMMA MergedCovered ==
    ASSUME NEW W, NEW t \in [OCells -> W], \A o \in OCells : IsOCell(t[o]) /\ CellCovered(t[o]),
           NEW sheets, \A o \in OCells : SheetFits(Added(OnOcean(sheets), o)), NEW o \in OCells
    PROVE  CellCovered(MergeTopoO(t, sheets)[o])
<1> DEFINE d == Added(OnOcean(sheets), o)
           u == UpdatedCell(t[o], d)
           v == MergeTopoO(t, sheets)[o]
<1>1. PICK w : /\ w = u \/ (u.FOCEAN = Unit /\ u.FOCEANF # Unit /\ w = ToLandCell(u))
               /\ \A k \in {"FOCEAN", "FLAKE", "FGRND", "FGICE", "FOCEANF", "FGICEF"} :
                     v[k] = w[k]
  BY MergedCell
<1>2. CellCovered(u) /\ IsOCell(u)
  BY MergeCovers
<1> HIDE DEF u, v
<1>3. CellCovered(w)
  <2>1. ASSUME u.FOCEAN = Unit, u.FOCEANF # Unit PROVE CellCovered(ToLandCell(u))
    <3>1. u.FLAKE = 0 /\ RoomForIce(u)
      BY <1>2, <2>1, TopoGridAssumption DEF CellCovered
    <3> QED
      BY <1>2, <2>1, <3>1, ToLandCovers
  <2> QED
    BY <1>1, <1>2, <2>1
<1>4. /\ v.FOCEAN = w.FOCEAN /\ v.FLAKE = w.FLAKE /\ v.FGRND = w.FGRND /\ v.FGICE = w.FGICE
      /\ v.FOCEANF = w.FOCEANF /\ v.FGICEF = w.FGICEF
  BY <1>1
<1>5. CellCovered(v)
  BY <1>3, <1>4 DEF CellCovered, RoomForIce
<1> QED
  BY <1>5 DEF v

\* The range of the land of the sheets in a cell is kept where the mask is set.
HeightsMasked(d, u) ==
    /\ u.ZLAND_MIN = IF u.MERGEMASK THEN d.zmin ELSE NoElev
    /\ u.ZLAND_MAX = IF u.MERGEMASK THEN d.zmax ELSE NoElev

\* What a file of make_merged_topoo holds of the TOPOO file and of the sheets
LEMMA MergedFile ==
    ASSUME ECInv, FilesMade, IceOnLand, merged # None
    PROVE  LET sheets == Sheets(merged.geometry)
           IN  /\ topoo # None /\ merged.t = MergeTopoO(topoo, sheets)
               /\ \A o \in OCells :
                     /\ SheetFits(Added(OnOcean(sheets), o))
                     /\ MergedFrom(topoo[o], Added(OnOcean(sheets), o), merged.t[o])
                     /\ merged.t[o].MERGEMASK
                        = MergeMask(topoo[o], Added(OnOcean(sheets), o), OnOcean(sheets), o)
                     /\ HeightsMasked(Added(OnOcean(sheets), o), merged.t[o])
                     /\ CellCovered(merged.t[o])
<1> DEFINE sheets == Sheets(merged.geometry)
<1>1. topoo # None /\ merged.t = MergeTopoO(topoo, sheets)
  BY DEF FilesMade
<1>2. /\ topoo \in [OCells -> {topoo[o] : o \in OCells}]
      /\ \A o \in OCells : IsOCell(topoo[o]) /\ CellCovered(topoo[o])
  BY <1>1, TopoOFile
<1>3. IsFiniteSet(DOMAIN sheets) /\ \A s \in DOMAIN sheets : IsSheet(sheets[s])
  BY GreenlandSheet
<1> HIDE DEF sheets
<1>4. \A o \in OCells : SheetFits(Added(OnOcean(sheets), o))
  BY <1>3, SheetsFit
<1>5. ASSUME NEW o \in OCells
      PROVE  /\ MergedFrom(topoo[o], Added(OnOcean(sheets), o), merged.t[o])
             /\ merged.t[o].MERGEMASK
                = MergeMask(topoo[o], Added(OnOcean(sheets), o), OnOcean(sheets), o)
             /\ HeightsMasked(Added(OnOcean(sheets), o), merged.t[o])
             /\ CellCovered(merged.t[o])
  <2> DEFINE W == {topoo[p] : p \in OCells}
             on == OnOcean(sheets)
  <2>1. topoo \in [OCells -> W] /\ \A p \in OCells : IsOCell(topoo[p])
    BY <1>2
  <2> HIDE DEF W
  <2>2. /\ MergedFrom(topoo[o], Added(on, o), MergeTopoO(topoo, sheets)[o])
        /\ MergeTopoO(topoo, sheets)[o].MERGEMASK = MergeMask(topoo[o], Added(on, o), on, o)
        /\ HeightsMasked(Added(on, o), MergeTopoO(topoo, sheets)[o])
    BY <2>1, MergedCell DEF HeightsMasked
  <2>3. CellCovered(MergeTopoO(topoo, sheets)[o])
    BY <1>2, <1>4, <2>1, MergedCovered
  <2> QED
    BY <1>1, <2>2, <2>3
<1> QED
  BY <1>1, <1>4, <1>5 DEF sheets

\* The surfaces of every cell make it up, in the file of make_topoo and in that of
\* make_merged_topoo, whatever the sheets.
THEOREM AllCellsCovered == Spec => []CellsCovered
<1>1. ECInv /\ FilesMade /\ IceOnLand => CellsCovered
  <2> SUFFICES ASSUME ECInv, FilesMade, IceOnLand PROVE CellsCovered
    OBVIOUS
  <2>1. ASSUME NEW t, NEW o \in OCells, CellCovered(t[o]) PROVE Covered(t, o)
    BY <2>1 DEF CellCovered, Covered
  <2>2. topoo # None => \A o \in OCells : Covered(topoo, o)
    BY <2>1, TopoOFile
  <2>3. merged # None => \A o \in OCells : Covered(merged.t, o)
    BY <2>1, MergedFile
  <2> QED
    BY <2>2, <2>3 DEF CellsCovered
<1> QED
  BY <1>1, FilesInvariant, PTL

-----------------------------------------------------------------------------
(* Lakes and ocean on the A grid *)

\* There are finitely many O cells.
LEMMA OCellsFinite == IsFiniteSet(OCells)
<1> DEFINE at == [p \in Positions |-> CellAt(p)]
<1>1. IsFiniteSet({at[p] : p \in Positions})
  BY IceFinite, ImageFinite
<1>2. \A o \in OCells : PosOf(o) \in Positions /\ at[PosOf(o)] = o
  BY CellOfPosition
<1>3. OCells \subseteq {at[p] : p \in Positions}
  BY <1>2
<1> QED
  BY <1>1, <1>3, FS_Subset

\* An A cell covers some O cells.
LEMMA BlockOf ==
    ASSUME NEW a \in ACells
    PROVE  /\ IsFiniteSet(Block(a)) /\ Cardinality(Block(a)) \in Nat \ {0}
           /\ Block(a) \subseteq OCells
<1>1. Block(a) \subseteq OCells
  BY DEF Block
<1>2. IsFiniteSet(Block(a))
  BY <1>1, OCellsFinite, FS_Subset
<1>3. Block(a) # {}
  <2> DEFINE o == <<2 * a[1], 2 * a[2]>>
  <2>1. a[1] \in 1..(IM \div 2) /\ a[2] \in 1..(JM \div 2)
    BY DEF ACells
  <2>2. \A n \in Nat : \A i \in 1..(n \div 2) : 2 * i \in 1..n /\ (2 * i + 1) \div 2 = i
    OBVIOUS
  <2>3. 2 * a[1] \in 1..IM /\ 2 * a[2] \in 1..JM /\ AofO(o) = <<a[1], a[2]>>
    BY <2>1, <2>2, TopoGridAssumption DEF AofO
  <2>4. a = <<a[1], a[2]>>
    BY DEF ACells
  <2>5. o \in Block(a)
    BY <2>3, <2>4 DEF Block, OCells
  <2> QED
    BY <2>5
<1>4. Cardinality(Block(a)) \in Nat /\ Cardinality(Block(a)) # 0
  BY <1>2, <1>3, FS_CardinalityType, FS_EmptySet
<1> QED
  BY <1>1, <1>2, <1>4

\* The mean of nothing but zeros
LEMMA MeanOfZeros ==
    ASSUME NEW a \in ACells, NEW f, \A o \in Block(a) : f[o] = 0
    PROVE  MeanOfBlock(f, a) = 0
<1> DEFINE n == Cardinality(Block(a))
<1>1. n \in Nat \ {0} /\ IsFiniteSet(Block(a))
  BY BlockOf
<1>2. Sum(f, Block(a)) = 0
  BY <1>1, SumZero
<1>3. MeanOfBlock(f, a) = Sum(f, Block(a)) \div n
  BY DEF MeanOfBlock, SumOver, Sum
<1> HIDE DEF n
<1>4. 0 \div n = 0
  BY <1>1
<1> QED
  BY <1>2, <1>3, <1>4

\* What make_topoa writes of the surfaces, away from its poles
LEMMA LandOf ==
    ASSUME NEW t, NEW m, NEW a \in ACells, ~APole(a)
    PROVE  LET land == MakeTopoA(t, m).land[a]
           IN  /\ land.FLAKE = MeanOfBlock([o \in Block(a) |-> t[o].FLAKE], a)
               /\ land.FOCEAN = MeanOfBlock([o \in Block(a) |-> t[o].FOCEAN], a)
<1>1. ASSUME NEW field
      PROVE  RegridA(t, field)[a] = MeanOfBlock([o \in Block(a) |-> t[o][field]], a)
  BY DEF RegridA, MergePoles
<1>2. /\ MakeTopoA(t, m).land[a].FLAKE = RegridA(t, "FLAKE")[a]
      /\ MakeTopoA(t, m).land[a].FOCEAN = RegridA(t, "FOCEAN")[a]
  BY DEF MakeTopoA
<1> QED
  BY <1>1, <1>2

\* No A cell has both lakes and ocean: the O cells of a block have none of the one or
\* none of the other, and merging adds neither.
THEOREM LakesAwayFromOcean == Spec => []NoLakeByOcean
<1>1. ASSUME ECInv, FilesMade, IceOnLand, topoa # None,
             NEW a \in ACells, ~APole(a), topoa.land[a].FLAKE > 0
      PROVE  topoa.land[a].FOCEAN = 0
  <2> DEFINE t == merged.t
             lake == [o \in Block(a) |-> t[o].FLAKE]
             sea == [o \in Block(a) |-> t[o].FOCEAN]
  <2>1. merged # None /\ topoa = MakeTopoA(t, merged.m)
    BY <1>1 DEF FilesMade
  <2>2. topoa.land[a].FLAKE = MeanOfBlock(lake, a) /\ topoa.land[a].FOCEAN = MeanOfBlock(sea, a)
    BY <1>1, <2>1, LandOf
  <2>3. PICK o \in Block(a) : lake[o] # 0
    <3>1. ~ (0 > 0)
      OBVIOUS
    <3> HIDE DEF lake
    <3> QED
      BY <1>1, <2>2, <3>1, MeanOfZeros
  <2>4. topoo # None /\ \A p \in OCells : \E d : MergedFrom(topoo[p], d, t[p])
    BY <1>1, <2>1, MergedFile
  <2>5. ASSUME NEW p \in OCells
        PROVE  t[p].FLAKE = topoo[p].FLAKE /\ t[p].FOCEAN \in {topoo[p].FOCEAN, 0}
    BY <2>4 DEF MergedFrom
  <2>6. o \in OCells /\ AofO(o) = a
    BY DEF Block
  <2>7. ~OceanInBlock(FOCEANF(etopo1), o)
    BY <1>1, <2>3, <2>4, <2>5, <2>6, TopoOFile
  <2>8. ASSUME NEW p \in Block(a) PROVE sea[p] = 0
    <3>1. p \in OCells /\ ~IsOcean(FOCEANF(etopo1), p)
      BY <2>6, <2>7 DEF OceanInBlock, Block
    <3>2. topoo[p].FOCEAN = 0
      BY <1>1, <2>4, <3>1, TopoOFile
    <3> QED
      BY <2>5, <3>1, <3>2
  <2> HIDE DEF sea
  <2> QED
    BY <2>2, <2>8, MeanOfZeros
<1>2. ECInv /\ FilesMade /\ IceOnLand => NoLakeByOcean
  BY <1>1 DEF NoLakeByOcean
<1> QED
  BY <1>2, FilesInvariant, PTL

-----------------------------------------------------------------------------
(* Means that come out even *)

\* A sum over some cells of one O cell is shared out among them evenly: Unit is a
\* multiple of their number.
LEMMA EvenShare ==
    ASSUME NEW n \in 1..NSub, NEW s \in Int
    PROVE  (Unit * s) \div n \in Int /\ n * ((Unit * s) \div n) = Unit * s
<1>1. Unit \in Nat \ {0} /\ NSub \in Nat \ {0} /\ IM \in Nat \ {0}
  BY TopoGridAssumption
<1>2. n \in 1..(IM * NSub) /\ n \in Nat \ {0}
  <2>1. IM * NSub = NSub + (IM - 1) * NSub /\ IM - 1 \in Nat
    BY <1>1
  <2>2. (IM - 1) * NSub \in Nat
    BY <1>1, <2>1
  <2>3. IM * NSub \in Nat /\ NSub <= IM * NSub
    BY <1>1, <2>1, <2>2
  <2> QED
    BY <1>1, <2>3
<1> DEFINE k == Unit \div n
<1>3. k \in Nat /\ Unit = n * k
  <2>1. Unit % n = 0
    BY <1>2, TopoGridAssumption
  <2> QED
    BY <1>1, <1>2, <2>1, DivMod
<1> HIDE DEF k
<1>4. Unit * s = n * (k * s) /\ k * s \in Int
  BY <1>2, <1>3
<1>5. (Unit * s) \div n = k * s
  BY <1>2, <1>4, DivExact
<1> QED
  BY <1>4, <1>5

\* A mean over cells of an O cell is exact.
LEMMA MeanExact ==
    ASSUME NEW o \in OCells, NEW D \in SUBSET FineOf(o), NEW v, \A f \in D : v[f] \in Int
    PROVE  LET m == MeanOver([f \in D |-> v[f]])
           IN  /\ m \in Int /\ Cardinality(D) \in 0..NSub
               /\ Cardinality(D) * m = Unit * Sum(v, D) /\ Sum(v, D) \in Int
               /\ D = {} => m = 0
<1> DEFINE val == [f \in D |-> v[f]]
           n == Cardinality(D)
           m == MeanOver(val)
<1>1. IsFiniteSet(D) /\ n \in 0..NSub
  <2>1. IsFiniteSet(FineOf(o)) /\ Cardinality(FineOf(o)) = NSub
    BY FineCells
  <2>2. IsFiniteSet(D) /\ Cardinality(D) <= NSub /\ Cardinality(D) \in Nat
    BY <2>1, FS_Subset, FS_CardinalityType
  <2> QED
    BY <2>2, GrainIs
<1>2. Sum(val, D) = Sum(v, D) /\ Sum(v, D) \in Int
  <2>1. Ints(v, D) /\ \A f \in D : val[f] = v[f]
    BY DEF Ints
  <2> HIDE DEF val
  <2> QED
    BY <1>1, <2>1, SumSame, SumInt
<1>3. CASE D = {}
  <2>1. n = 0 /\ Sum(v, D) = 0
    BY <1>3, FS_EmptySet, SumEmpty
  <2>2. m = 0
    BY <1>3 DEF MeanOver
  <2>3. 0 * 0 = Unit * 0
    BY TopoGridAssumption
  <2> HIDE DEF n, m
  <2>4. n * m = Unit * Sum(v, D)
    BY <2>1, <2>2, <2>3
  <2> QED
    BY <1>1, <1>2, <2>2, <2>4 DEF n, m
<1>4. CASE D # {}
  <2>1. n \in 1..NSub
    <3>1. n # 0
      BY <1>1, <1>4, FS_EmptySet
    <3> HIDE DEF n
    <3> QED
      BY <1>1, <3>1
  <2>2. m = (Unit * Sum(v, D)) \div n
    <3>1. DOMAIN val = D /\ SumOver(DOMAIN val, LAMBDA f : val[f]) = Sum(val, D)
      BY DEF SumOver, Sum
    <3> HIDE DEF val
    <3> QED
      BY <1>2, <1>4, <3>1 DEF MeanOver
  <2> HIDE DEF n, m
  <2>3. m \in Int /\ n * m = Unit * Sum(v, D)
    BY <1>2, <2>1, <2>2, EvenShare
  <2> QED
    BY <1>1, <1>2, <1>4, <2>3 DEF n, m
<1> QED
  BY <1>3, <1>4

-----------------------------------------------------------------------------
(* The height of the ice of a sheet *)

\* The heights along a row of a matrix, and the equation of their fold
HeightsFrom(M, elev, S, h) ==
    h = [s \in SUBSET S |->
            IF s = {} THEN 0
            ELSE M[First(s)] * elev[First(s)[2]] + h[s \ {First(s)}]]

\* The operator for sums of heights is a sum over a function.
LEMMA SumOfHeights ==
    ASSUME NEW M, NEW elev, NEW S
    PROVE  MapThenSumSet(LAMBDA rc : M[rc] * elev[rc[2]], S)
           = Sum([rc \in S |-> M[rc] * elev[rc[2]]], S)
<1> DEFINE g == [rc \in S |-> M[rc] * elev[rc[2]]]
<1>1. MapThenSumSet(LAMBDA rc : M[rc] * elev[rc[2]], S)
      = (CHOOSE h : HeightsFrom(M, elev, S, h))[S]
  BY DEF MapThenSumSet, MapThenFoldSet, HeightsFrom, First
<1>2. \A s \in SUBSET S : s # {} => M[First(s)] * elev[First(s)[2]] = g[First(s)]
  BY FirstIn
<1> HIDE DEF g
<1>3. ASSUME NEW h PROVE HeightsFrom(M, elev, S, h) <=> SumsFrom(g, S, h)
  <2>1. [s \in SUBSET S |-> IF s = {} THEN 0
                            ELSE M[First(s)] * elev[First(s)[2]] + h[s \ {First(s)}]]
        = [s \in SUBSET S |-> IF s = {} THEN 0 ELSE g[First(s)] + h[s \ {First(s)}]]
    BY <1>2
  <2> QED
    BY <2>1 DEF HeightsFrom, SumsFrom
<1>4. (CHOOSE h : HeightsFrom(M, elev, S, h)) = (CHOOSE h : SumsFrom(g, S, h))
  BY <1>3
<1> QED
  BY <1>1, <1>4, SumDef DEF g

\* The mean elevation of a sheet in an O cell is that of its fine cells there.
LEMMA SheetElevation ==
    ASSUME NEW s, NEW G \in SUBSET Fine, s.x = SheetGrid(G), NEW elev, DOMAIN elev \subseteq G,
           \A f \in DOMAIN elev : elev[f] \in Int, NEW o \in OCells
    PROVE  LET D == FineOf(o) \cap DOMAIN elev
               m == At(MeanElev(OvI(s, elev, FALSE), elev), o)
           IN  /\ m \in Int /\ Cardinality(D) * m = Unit * Sum(elev, D) /\ Sum(elev, D) \in Int
               /\ D = {} => m = 0
<1> DEFINE S == DOMAIN elev
           D == FineOf(o) \cap S
           V == OvI(s, elev, FALSE)
           E == MeanElev(V, elev)
           M == Ones(ByO(S))
           P == {rc \in DOMAIN M : rc[1] = o}
           n == Cardinality(D)
<1>1. /\ V.M = M /\ DOMAIN V.wM = {OofF(f) : f \in S}
      /\ At(V.wM, o) = n
  <2>1. ASSUME NEW c \in BOOLEAN
        PROVE  /\ OvI(s, elev, c).M = Ones(ByO(DOMAIN elev))
               /\ DOMAIN OvI(s, elev, c).wM = {OofF(f) : f \in DOMAIN elev}
               /\ At(OvI(s, elev, c).wM, o) = CountIn(o, DOMAIN elev)
    BY OverlapCounts
  <2> QED
    BY <2>1, FALSE \in BOOLEAN DEF CountIn
<1>2. DOMAIN M = ByO(S) /\ RowsOf(M) = {OofF(f) : f \in S}
  <2>1. S \subseteq Fine
    OBVIOUS
  <2> HIDE DEF S
  <2> QED
    BY <2>1, OnesRowSum
<1>3. DOMAIN E = {OofF(f) : f \in S} /\ (o \in DOMAIN E <=> D # {})
  <2>1. \A f \in S : OofF(f) = o <=> f \in D
    BY FineCells
  <2>2. DOMAIN E = RowsOf(V.M)
    BY DEF MeanElev
  <2> QED
    BY <1>1, <1>2, <2>1, <2>2
<1>4. IsFiniteSet(D) /\ n \in 0..NSub /\ (D # {} => n # 0) /\ (D = {} => n = 0)
  <2>1. IsFiniteSet(D) /\ D \subseteq FineOf(o)
    BY FineCells, FS_Subset
  <2>2. n \in Nat /\ n <= NSub
    BY CountNat DEF CountIn
  <2> HIDE DEF D
  <2> QED
    BY <2>1, <2>2, FS_EmptySet, GrainIs
<1>5. Sum(elev, D) \in Int
  <2>1. Ints(elev, D)
    BY DEF Ints
  <2> HIDE DEF D
  <2> QED
    BY <1>4, <2>1, SumInt
<1>6. CASE D = {}
  <2>1. At(E, o) = 0 /\ Sum(elev, D) = 0
    <3>1. o \notin DOMAIN E
      BY <1>3, <1>6
    <3> HIDE DEF E, D
    <3> QED
      BY <1>6, <3>1, SumEmpty DEF At
  <2>2. 0 * 0 = Unit * 0
    BY TopoGridAssumption
  <2> HIDE DEF E, D, n, S
  <2>3. n * At(E, o) = Unit * Sum(elev, D)
    BY <1>4, <1>6, <2>1, <2>2
  <2> QED
    BY <1>5, <2>1, <2>3 DEF E, D, n, V, S
<1>7. CASE D # {}
  <2> DEFINE g == [rc \in P |-> M[rc] * elev[rc[2]]]
  <2>1. At(E, o) = (Unit * Sum(g, P)) \div n
    <3>1. V.wM[o] = n
      <4>1. o \in DOMAIN V.wM
        BY <1>1, <1>3, <1>7
      <4> QED
        BY <1>1, <4>1 DEF At
    <3>2. At(E, o) = E[o] /\ o \in RowsOf(V.M)
      <4>1. DOMAIN E = RowsOf(V.M)
        BY DEF MeanElev
      <4> QED
        BY <1>3, <1>7, <4>1 DEF At
    <3>3. E[o] = (Unit * MapThenSumSet(LAMBDA rc : V.M[rc] * elev[rc[2]],
                                       {rc \in DOMAIN V.M : rc[1] = o})) \div V.wM[o]
      BY <3>2 DEF MeanElev
    <3> HIDE DEF E, V, M, n, S, D
    <3> DEFINE Q == {rc \in DOMAIN V.M : rc[1] = o}
    <3>4. MapThenSumSet(LAMBDA rc : V.M[rc] * elev[rc[2]], Q)
          = Sum([rc \in Q |-> V.M[rc] * elev[rc[2]]], Q)
      BY SumOfHeights
    <3>5. Q = P /\ [rc \in Q |-> V.M[rc] * elev[rc[2]]] = g
      BY <1>1
    <3>6. E[o] = (Unit * Sum([rc \in Q |-> V.M[rc] * elev[rc[2]]], Q)) \div V.wM[o]
      BY <3>3, <3>4
    <3> HIDE DEF P, Q, g
    <3> QED
      BY <3>1, <3>2, <3>5, <3>6
  <2>2. Sum(elev, D) = Sum(g, P)
    <3> DEFINE name == [f \in D |-> <<o, f>>]
    <3>1. P = {<<o, f>> : f \in D}
      <4>1. \A f \in S : OofF(f) = o <=> f \in D
        BY FineCells
      <4> QED
        BY <1>2, <4>1 DEF ByO
    <3>2. /\ \A f \in D : name[f] \in P
          /\ \A f, h \in D : name[f] = name[h] => f = h
          /\ \A k \in P : \E f \in D : name[f] = k
      <4>1. \A f \in D : name[f] = <<o, f>>
        OBVIOUS
      <4> HIDE DEF D, P, name
      <4>2. \A f \in D : name[f] \in P
        BY <3>1, <4>1
      <4>3. \A f, h \in D : name[f] = name[h] => f = h
        BY <4>1
      <4>4. \A k \in P : \E f \in D : name[f] = k
        BY <3>1, <4>1
      <4> QED
        BY <4>2, <4>3, <4>4
    <3>3. \A f \in D : g[name[f]] = elev[f]
      <4> SUFFICES ASSUME NEW f \in D PROVE g[name[f]] = elev[f]
        OBVIOUS
      <4>1. name[f] = <<o, f>> /\ name[f] \in P
        BY <3>2
      <4>2. M[<<o, f>>] = 1 /\ elev[f] \in Int
        BY <4>1 DEF Ones
      <4>3. g[<<o, f>>] = M[<<o, f>>] * elev[f]
        BY <4>1
      <4>4. \A i \in Int : 1 * i = i
        OBVIOUS
      <4> HIDE DEF g, M, name
      <4> QED
        BY <4>1, <4>2, <4>3, <4>4
    <3>4. IsFiniteSet(P)
      <4> HIDE DEF name, P, D
      <4>1. P = {name[f] : f \in D}
        BY <3>1, <3>2
      <4> QED
        BY <1>4, <4>1, ImageFinite
    <3>5. Ints(elev, D)
      BY DEF Ints
    <3> HIDE DEF name, P, D, g, M
    <3> QED
      BY <1>4, <3>2, <3>3, <3>4, <3>5, SumRename
  <2> HIDE DEF E, D, n, g, P
  <2>3. n \in 1..NSub
    BY <1>4, <1>7
  <2>4. At(E, o) \in Int /\ n * At(E, o) = Unit * Sum(elev, D)
    BY <1>5, <2>1, <2>2, <2>3, EvenShare
  <2> QED
    BY <1>5, <1>7, <2>4 DEF E, D, n, V, S
<1> QED
  BY <1>6, <1>7

-----------------------------------------------------------------------------
(* Greenland taken out and put back *)

\* Greenland, and what ETOPO1 shows of its ice
GreenlandOf(raw) == {f \in Fine : f[2] > JM \div 2 /\ raw.focean[f] = GREENLAND_VAL}
GreenlandIce(raw) == {f \in GreenlandOf(raw) : raw.thick[f] >= MinThickness}

\* r0 is r1 with Greenland made ocean and without its ice, and nothing else changed.
WithoutGreenland(raw, r0, r1) ==
    LET G == GreenlandOf(raw)  I == GreenlandIce(raw)
    IN  /\ OceanFine(r0) = OceanFine(r1) \cup G /\ OceanFine(r1) \cap G = {}
        /\ r1.fgice = r0.fgice \cup I /\ r0.fgice \cap G = {}
        /\ \A f \in Fine : r1.ztop[f] = raw.ztop[f] /\ (f \notin G => r0.ztop[f] = raw.ztop[f])

\* That is what etopo1_ice makes of the raw data.
LEMMA TakenOut ==
    ASSUME NEW raw, NEW r0, r0 = Etopo1Ice(raw, FALSE), NEW r1, r1 = Etopo1Ice(raw, TRUE)
    PROVE  WithoutGreenland(raw, r0, r1)
<1> DEFINE G == GreenlandOf(raw)
           I == GreenlandIce(raw)
<1>1. LAND # OCEAN /\ LAND # GREENLAND_VAL /\ OCEAN # GREENLAND_VAL
  BY DEF LAND, OCEAN, GREENLAND_VAL
<1>2. ASSUME NEW g \in BOOLEAN, NEW f \in Fine
      PROVE  /\ Etopo1Ice(raw, g).focean[f]
                = IF raw.focean[f] # GREENLAND_VAL THEN raw.focean[f]
                  ELSE IF f[2] <= JM \div 2 THEN GREENLAND_VAL
                  ELSE IF g THEN LAND ELSE OCEAN
             /\ Etopo1Ice(raw, g).ztop[f] = IF ~g /\ f \in G THEN -300 ELSE raw.ztop[f]
  BY DEF Etopo1Ice, GreenlandOf
<1>3. ASSUME NEW f \in Fine PROVE f[2] > JM \div 2 <=> ~ (f[2] <= JM \div 2)
  <2>1. f[2] \in 1..JM /\ JM \in Nat
    BY TopoGridAssumption DEF Fine
  <2> QED
    BY <2>1
<1>4. ASSUME NEW f \in Fine
      PROVE  /\ f \in OceanFine(r0) <=> (raw.focean[f] = OCEAN \/ f \in G)
             /\ f \in OceanFine(r1) <=> raw.focean[f] = OCEAN
  BY <1>1, <1>2, <1>3 DEF OceanFine, GreenlandOf
<1>5. OceanFine(r0) = OceanFine(r1) \cup G /\ OceanFine(r1) \cap G = {}
  <2>1. OceanFine(r0) \subseteq Fine /\ OceanFine(r1) \subseteq Fine /\ G \subseteq Fine
    BY DEF OceanFine, GreenlandOf
  <2>2. \A f \in G : raw.focean[f] # OCEAN
    BY <1>1 DEF GreenlandOf
  <2> QED
    BY <1>4, <2>1, <2>2
<1> DEFINE snow == UNION {Downscaled(raw, o) : o \in NorthernBoxes}
<1>6. r0.fgice = IceOfETOPO1(raw, FALSE) \cup snow /\ r1.fgice = IceOfETOPO1(raw, TRUE) \cup snow
  BY DEF Etopo1Ice
<1>7. IceOfETOPO1(raw, TRUE) = IceOfETOPO1(raw, FALSE) \cup I
  BY DEF IceOfETOPO1, GreenlandOf, GreenlandIce
<1>8. (IceOfETOPO1(raw, FALSE) \cup snow) \cap G = {}
  <2>1. \A f \in IceOfETOPO1(raw, FALSE) : raw.focean[f] = LAND
    BY DEF IceOfETOPO1
  <2>2. \A f \in snow : raw.focean[f] = LAND
    BY DEF Downscaled, SnowCells
  <2>3. \A f \in G : raw.focean[f] = GREENLAND_VAL
    BY DEF GreenlandOf
  <2> HIDE DEF G, snow
  <2> QED
    BY <1>1, <2>1, <2>2, <2>3
<1>9. r1.fgice = r0.fgice \cup I /\ r0.fgice \cap G = {}
  <2> HIDE DEF G, I, snow
  <2> QED
    BY <1>6, <1>7, <1>8
<1>10. \A f \in Fine : r1.ztop[f] = raw.ztop[f] /\ (f \notin G => r0.ztop[f] = raw.ztop[f])
  BY <1>2
<1> QED
  BY <1>5, <1>9, <1>10 DEF WithoutGreenland

\* Counts of sets that do not overlap add up.
LEMMA CountsAdd ==
    ASSUME NEW o \in OCells, NEW S, NEW T, S \cap T = {}
    PROVE  CountIn(o, S \cup T) = CountIn(o, S) + CountIn(o, T)
<1> DEFINE A == FineOf(o) \cap S
           B == FineOf(o) \cap T
<1>1. A \subseteq FineOf(o) /\ B \subseteq FineOf(o) /\ A \cap B = {}
      /\ FineOf(o) \cap (S \cup T) = A \cup B
  OBVIOUS
<1> HIDE DEF A, B
<1>2. IsFiniteSet(A) /\ IsFiniteSet(B)
  BY <1>1, FineCells, FS_Subset
<1>3. Cardinality(A \cup B) = Cardinality(A) + Cardinality(B) - Cardinality(A \cap B)
  BY <1>2, FS_Union
<1>4. Cardinality(A \cap B) = 0 /\ Cardinality(A) \in Nat /\ Cardinality(B) \in Nat
  BY <1>1, <1>2, FS_EmptySet, FS_CardinalityType
<1>5. /\ CountIn(o, S \cup T) = Cardinality(A \cup B)
      /\ CountIn(o, S) = Cardinality(A) /\ CountIn(o, T) = Cardinality(B)
  BY DEF A, B, CountIn
<1> QED
  BY <1>3, <1>4, <1>5

\* The mean height of the ice in an O cell
IceHeight(e, o) == MeanOver([f \in FineOf(o) \cap e.fgice |-> e.ztop[f]])

\* The raw fields of TOPOO away from the poles count fine cells, and the height of the
\* ice is their mean.
LEMMA TopoORaw ==
    ASSUME NEW e, e.fgice \cap OceanFine(e) = {}, NEW lakes, NEW o \in OCells, ~Pole(o)
    PROVE  LET t == TopoO(e, lakes)[o]
           IN  /\ t.FOCEANF = Grain * CountIn(o, OceanFine(e))
               /\ t.FGICEF = Grain * CountIn(o, e.fgice)
               /\ t.ZICETOP = IceHeight(e, o)
<1> DEFINE r == OnO(e, lakes)
           t == TopoO(e, lakes)[o]
           fr == LandFractions(r, o)
           c == CellElevations(e, fr, o)
<1>1. /\ t.FOCEANF = r.FOCEANF[o] /\ t.FGICEF = r.FGICEF[o]
      /\ t.ZICETOP = Reset(Replicated(e, r, o), o).ZICETOP
  BY TopoOFields
<1>2. r.FOCEANF[o] = FractionOf(OceanFine(e))[o] /\ r.FGICEF[o] = FractionOf(e.fgice)[o]
  <2>1. o[2] # 1
    BY DEF Pole
  <2> QED
    BY <2>1 DEF OnO, FOCEANF, FGICEF
<1>3. c.ZICETOP = IceHeight(e, o)
  <2>1. Continent(e, o) \cap e.fgice = FineOf(o) \cap e.fgice
    BY DEF Continent, Described
  <2>2. c.ZICETOP = MeanOver([f \in Continent(e, o) \cap e.fgice |-> e.ztop[f]])
    BY DEF CellElevations
  <2> QED
    BY <2>1, <2>2 DEF IceHeight
<1>4. Reset(Replicated(e, r, o), o).ZICETOP = c.ZICETOP
  <2>1. Replicated(e, r, o) = [c EXCEPT !.ZATMOF = @]
    BY DEF Replicated
  <2>2. {"dZLAKE", "ZATMO", "ZLAKE", "ZICETOP", "ZATMOF"} \subseteq DOMAIN c
    BY DEF CellElevations
  <2> HIDE DEF c, r
  <2> QED
    BY <2>1, <2>2 DEF Reset
<1> HIDE DEF t, r, c
<1>5. FractionOf(OceanFine(e))[o] = Grain * CountIn(o, OceanFine(e))
      /\ FractionOf(e.fgice)[o] = Grain * CountIn(o, e.fgice)
  BY FractionCounts
<1> QED
  BY <1>1, <1>2, <1>3, <1>4, <1>5 DEF t

\* The weighted mean of two exact means is exact.
LEMMA MeansMerge ==
    ASSUME NEW n0 \in Nat, NEW n1 \in Nat, n0 + n1 \in 1..NSub,
           NEW m0 \in Int, NEW m1 \in Int, NEW m \in Int,
           NEW s0 \in Int, NEW s1 \in Int,
           n0 * m0 = Unit * s0, n1 * m1 = Unit * s1, (n0 + n1) * m = Unit * (s0 + s1)
    PROVE  /\ Grain * n0 + Grain * n1 # 0
           /\ (m0 * (Grain * n0) + m1 * (Grain * n1)) \div (Grain * n0 + Grain * n1) = m
<1>1. Grain \in Nat \ {0} /\ Unit \in Nat \ {0}
  BY GrainIs, TopoGridAssumption
<1> DEFINE d == Grain * (n0 + n1)
<1>2. d \in Nat \ {0} /\ d = Grain * n0 + Grain * n1
  BY <1>1
<1>3. m0 * (Grain * n0) + m1 * (Grain * n1) = Grain * (n0 * m0 + n1 * m1)
  BY <1>1
<1>4. n0 * m0 + n1 * m1 = (n0 + n1) * m
  BY <1>1
<1>5. Grain * ((n0 + n1) * m) = d * m
  BY <1>1
<1> HIDE DEF d
<1>6. (d * m) \div d = m
  BY <1>2, DivExact
<1> QED
  BY <1>2, <1>3, <1>4, <1>5, <1>6

\* A single sheet adds the fine cells of its land, those of its ice, and the mean height of
\* those.
LEMMA AddedByOne ==
    ASSUME NEW s, NEW G \in SUBSET Fine, s.x = SheetGrid(G),
           DOMAIN s.ice \subseteq DOMAIN s.land, DOMAIN s.land \subseteq G,
           \A f \in DOMAIN s.ice : s.ice[f] \in Int,
           NEW o \in OCells
    PROVE  LET d == Added(OnOcean(<<s>>), o)
               D == FineOf(o) \cap DOMAIN s.ice
           IN  /\ d.gice = CountIn(o, DOMAIN s.ice) /\ d.cont = CountIn(o, DOMAIN s.land)
               /\ d.zicetop \div NSub \in Int
               /\ Cardinality(D) * (d.zicetop \div NSub) = Unit * Sum(s.ice, D)
<1> DEFINE sheets == <<s>>
           on == OnOcean(sheets)
           d == Added(on, o)
           D == FineOf(o) \cap DOMAIN s.ice
           m == At(MeanElev(OvI(s, s.ice, FALSE), s.ice), o)
           zice == [k \in {1} |-> on[k].iceElev]
<1>1. DOMAIN sheets = {1} /\ sheets[1] = s /\ IsFiniteSet({1})
  <2>1. IsFiniteSet({1})
    BY FS_Singleton
  <2>2. DOMAIN sheets = {1} /\ sheets[1] = s
    OBVIOUS
  <2> QED
    BY <2>1, <2>2
<1>2. IsSheet(s)
  BY DEF IsSheet
<1>3. ASSUME NEW f, f[1] \in Int PROVE Sum(f, {1}) = f[1]
  <2>1. Ints(f, {1}) /\ {1} \ {1} = {}
    BY <1>3 DEF Ints
  <2>2. Sum(f, {1}) = f[1] + Sum(f, {1} \ {1})
    BY <1>1, <2>1, SumRemove
  <2> QED
    BY <1>3, <2>1, <2>2, SumEmpty
<1>4. d.gice = CountIn(o, DOMAIN s.ice) /\ d.cont = CountIn(o, DOMAIN s.land)
  <2> DEFINE fi == [k \in {1} |-> CountIn(o, DOMAIN sheets[k].ice)]
             fl == [k \in {1} |-> CountIn(o, DOMAIN sheets[k].land)]
  <2>1. IsFiniteSet(DOMAIN sheets) /\ \A k \in DOMAIN sheets : IsSheet(sheets[k])
    BY <1>1, <1>2
  <2>2. /\ d.gice = Sum([k \in DOMAIN sheets |-> CountIn(o, DOMAIN sheets[k].ice)], DOMAIN sheets)
        /\ d.cont = Sum([k \in DOMAIN sheets |-> CountIn(o, DOMAIN sheets[k].land)], DOMAIN sheets)
    <3> HIDE DEF sheets
    <3> QED
      BY <2>1, AddedCounts
  <2>3. fi[1] = CountIn(o, DOMAIN s.ice) /\ fl[1] = CountIn(o, DOMAIN s.land)
    BY <1>1
  <2>4. fi[1] \in Int /\ fl[1] \in Int
    BY <2>3, CountNat
  <2>5. d.gice = Sum(fi, {1}) /\ d.cont = Sum(fl, {1})
    <3> HIDE DEF sheets, on, d
    <3> QED
      BY <1>1, <2>2 DEF on, d
  <2> HIDE DEF fi, fl
  <2> QED
    BY <1>3, <2>3, <2>4, <2>5
<1>5. /\ m \in Int /\ Cardinality(D) * m = Unit * Sum(s.ice, D)
  <2> DEFINE ice == s.ice
  <2>1. DOMAIN ice \subseteq G /\ \A f \in DOMAIN ice : ice[f] \in Int
    OBVIOUS
  <2> HIDE DEF ice
  <2>2. LET C == FineOf(o) \cap DOMAIN ice
            q == At(MeanElev(OvI(s, ice, FALSE), ice), o)
        IN  q \in Int /\ Cardinality(C) * q = Unit * Sum(ice, C)
    BY <2>1, SheetElevation
  <2> QED
    BY <2>2 DEF ice
<1>6. d.zicetop = NSub * m
  <2>1. DOMAIN on = {1} /\ on[1] = SheetOnO(s)
    BY <1>1 DEF OnOcean
  <2>2. on[1].iceElev = MeanElev(OvI(s, s.ice, FALSE), s.ice)
    <3>1. SheetOnO(s).iceElev = MeanElev(OvI(s, s.ice, FALSE), s.ice)
      BY DEF SheetOnO
    <3> HIDE DEF on
    <3> QED
      BY <2>1, <3>1
  <2> HIDE DEF on
  <2>3. d.zicetop = NSub * SumOver(DOMAIN zice, LAMBDA k : At(zice[k], o))
    BY <2>1 DEF Added
  <2>4. DOMAIN zice = {1} /\ At(zice[1], o) = m
    BY <2>2
  <2>5. SumOver(DOMAIN zice, LAMBDA k : At(zice[k], o)) = Sum([k \in {1} |-> At(zice[k], o)], {1})
    <3> DEFINE one == {1}
    <3>1. DOMAIN zice = one
      BY <2>4
    <3> HIDE DEF zice, one
    <3>2. MapThenSumSet(LAMBDA k : At(zice[k], o), one) = Sum([k \in one |-> At(zice[k], o)], one)
      BY SumOfWeights
    <3> QED
      BY <3>1, <3>2 DEF SumOver, one
  <2>6. Sum([k \in {1} |-> At(zice[k], o)], {1}) = m
    <3> DEFINE w == [k \in {1} |-> At(zice[k], o)]
    <3>1. w[1] = m
      BY <2>4
    <3> HIDE DEF w, m
    <3>2. Sum(w, {1}) = m
      BY <1>3, <1>5, <3>1
    <3> QED
      BY <3>2 DEF w
  <2> HIDE DEF zice, d, m
  <2> QED
    BY <2>3, <2>5, <2>6
<1>7. d.zicetop \div NSub = m
  <2>1. NSub \in Nat \ {0}
    BY GrainIs
  <2> HIDE DEF d, m
  <2> QED
    BY <1>5, <1>6, <2>1, DivExact
<1> HIDE DEF m
<1> QED
  BY <1>4, <1>5, <1>7 DEF d, D, on, sheets

\* The fields that the merge restores
SameRaw(u, t) == u.FOCEANF = t.FOCEANF /\ u.FGICEF = t.FGICEF /\ u.ZICETOP = t.ZICETOP

\* What is taken off the ocean of a cell and added to its ice by merging c fine cells of
\* land, n of them with ice of mean height h, to its n0 fine cells of ice.
LEMMA GrownCounts ==
    ASSUME NEW t, IsOCell(t), NEW d, NEW a \in Nat, NEW c \in Nat, NEW n0 \in Nat, NEW n \in Nat,
           t.FOCEANF = Grain * (a + c), t.FGICEF = Grain * n0, d.cont = c, d.gice = n
    PROVE  LET g == GrownOp(t, d)
               h == d.zicetop \div NSub
           IN  /\ g.FOCEANF = Grain * a /\ g.FGICEF = Grain * (n0 + n)
               /\ g.ZICETOP = IF n0 + n = 0 THEN t.ZICETOP
                              ELSE (t.ZICETOP * (Grain * n0) + h * (Grain * n))
                                   \div (Grain * n0 + Grain * n)
<1> DEFINE g == GrownOp(t, d)
           h == d.zicetop \div NSub
<1>1. Grain \in Nat \ {0}
  BY GrainIs
<1>2. (Unit * d.gice) \div NSub = Grain * n /\ (Unit * d.cont) \div NSub = Grain * c
  BY GrainIs
<1>3. /\ g.FOCEANF = t.FOCEANF - Grain * c
      /\ g.FGICEF = t.FGICEF + Grain * n
      /\ g.ZICETOP = IF t.FGICEF + Grain * n = 0 THEN t.ZICETOP
                     ELSE (t.ZICETOP * t.FGICEF + h * (Grain * n)) \div (t.FGICEF + Grain * n)
  BY <1>2 DEF GrownOp, IsOCell, OCellFields
<1> HIDE DEF g, h
<1>4. /\ Grain * (a + c) = Grain * a + Grain * c /\ Grain * (n0 + n) = Grain * n0 + Grain * n
      /\ Grain * a \in Nat /\ Grain * c \in Nat /\ Grain * n0 \in Nat /\ Grain * n \in Nat
  BY <1>1
<1>5. Grain * n0 + Grain * n = 0 <=> n0 + n = 0
  <2>1. Grain * (n0 + n) = 0 <=> n0 + n = 0
    BY <1>1
  <2> QED
    BY <1>4, <2>1
<1> QED
  BY <1>3, <1>4, <1>5 DEF g, h

\* So merging what was taken out of t1 to make t0 restores it.
LEMMA CellPutBack ==
    ASSUME NEW t0, IsOCell(t0), NEW t1, NEW d, NEW u, MergedFrom(t0, d, u),
           NEW a \in Nat, NEW c \in Nat, NEW n0 \in Nat, NEW n \in Nat, n0 + n <= NSub, n <= c,
           t0.FOCEANF = Grain * (a + c), t0.FGICEF = Grain * n0, d.cont = c, d.gice = n,
           t1.FOCEANF = Grain * a, t1.FGICEF = Grain * (n0 + n),
           NEW s0 \in Int, NEW s \in Int,
           t0.ZICETOP \in Int, n0 * t0.ZICETOP = Unit * s0,
           d.zicetop \div NSub \in Int, n * (d.zicetop \div NSub) = Unit * s,
           t1.ZICETOP \in Int, (n0 + n) * t1.ZICETOP = Unit * (s0 + s),
           n0 + n = 0 \/ n = 0 => t1.ZICETOP = t0.ZICETOP
    PROVE  SameRaw(u, t1)
<1> DEFINE g == GrownOp(t0, d)
           h == d.zicetop \div NSub
<1>1. /\ g.FOCEANF = Grain * a /\ g.FGICEF = Grain * (n0 + n)
      /\ g.ZICETOP = IF n0 + n = 0 THEN t0.ZICETOP
                     ELSE (t0.ZICETOP * (Grain * n0) + h * (Grain * n)) \div (Grain * n0 + Grain * n)
  BY GrownCounts
<1>2. h \in Int /\ n * h = Unit * s
  OBVIOUS
<1> HIDE DEF g, h
<1>3. n0 + n # 0 => n0 + n \in 1..NSub
  BY GrainIs
<1>4. n0 + n # 0
      => (t0.ZICETOP * (Grain * n0) + h * (Grain * n)) \div (Grain * n0 + Grain * n) = t1.ZICETOP
  BY <1>2, <1>3, MeansMerge
<1>5. g.ZICETOP = t1.ZICETOP
  BY <1>1, <1>4
<1>6. CASE d.cont = 0
  <2>1. c = 0 /\ n = 0
    BY <1>6
  <2>2. t0.FOCEANF = t1.FOCEANF /\ t0.FGICEF = t1.FGICEF /\ t0.ZICETOP = t1.ZICETOP
    BY <2>1
  <2>3. u.FOCEANF = t0.FOCEANF /\ u.FGICEF = t0.FGICEF /\ u.ZICETOP = t0.ZICETOP
    BY <1>6 DEF MergedFrom
  <2> QED
    BY <2>2, <2>3 DEF SameRaw
<1>7. CASE d.cont # 0
  <2>1. u.FOCEANF = g.FOCEANF /\ u.FGICEF = g.FGICEF /\ u.ZICETOP = g.ZICETOP
    BY <1>7 DEF MergedFrom, g
  <2> QED
    BY <1>1, <1>5, <2>1 DEF SameRaw
<1> QED
  BY <1>6, <1>7

\* Greenland taken out and merged back in, in one cell
LEMMA PutBack ==
    ASSUME NEW raw, RawOK(raw), NEW lakes,
           NEW r0, r0 = Etopo1Ice(raw, FALSE), NEW r1, r1 = Etopo1Ice(raw, TRUE),
           r0.fgice \cap OceanFine(r0) = {}, r1.fgice \cap OceanFine(r1) = {},
           r0.fgice \subseteq Fine,
           NEW s, s.x = SheetGrid(GreenlandOf(raw)),
           s.land = [f \in GreenlandOf(raw) |-> raw.ztop[f]],
           s.ice = [f \in GreenlandIce(raw) |-> raw.ztop[f]],
           NEW o \in OCells, ~Pole(o),
           NEW u, MergedFrom(TopoO(r0, lakes)[o], Added(OnOcean(<<s>>), o), u)
    PROVE  SameRaw(u, TopoO(r1, lakes)[o])
<1> DEFINE G == GreenlandOf(raw)
           I == GreenlandIce(raw)
           d == Added(OnOcean(<<s>>), o)
           t0 == TopoO(r0, lakes)[o]
           t1 == TopoO(r1, lakes)[o]
           D0 == FineOf(o) \cap r0.fgice
           D  == FineOf(o) \cap I
           D1 == FineOf(o) \cap r1.fgice
           n0 == CountIn(o, r0.fgice)
           n == CountIn(o, I)
           z == raw.ztop
           h == d.zicetop \div NSub
<1>1. /\ OceanFine(r0) = OceanFine(r1) \cup G /\ OceanFine(r1) \cap G = {}
      /\ r1.fgice = r0.fgice \cup I /\ r0.fgice \cap G = {}
      /\ \A f \in Fine : r1.ztop[f] = z[f] /\ (f \notin G => r0.ztop[f] = z[f])
  <2>1. WithoutGreenland(raw, r0, r1)
    BY TakenOut
  <2> QED
    BY <2>1 DEF WithoutGreenland
<1>2. /\ G \subseteq Fine /\ I \subseteq G /\ r0.fgice \cap I = {} /\ FineOf(o) \subseteq Fine
      /\ \A f \in Fine : z[f] \in Int
  <2>1. G \subseteq Fine /\ I \subseteq G
    BY DEF GreenlandOf, GreenlandIce
  <2>2. \A f \in Fine : z[f] \in Int
    BY DEF RawOK, RawTopo
  <2> HIDE DEF G, I
  <2> QED
    BY <1>1, <2>1, <2>2, FineCells
<1>3. /\ t0.FOCEANF = Grain * CountIn(o, OceanFine(r0)) /\ t0.FGICEF = Grain * n0
      /\ t0.ZICETOP = IceHeight(r0, o)
      /\ t1.FOCEANF = Grain * CountIn(o, OceanFine(r1)) /\ t1.FGICEF = Grain * CountIn(o, r1.fgice)
      /\ t1.ZICETOP = IceHeight(r1, o)
  <2>1. ASSUME NEW e, e.fgice \cap OceanFine(e) = {}
        PROVE  LET t == TopoO(e, lakes)[o]
               IN  /\ t.FOCEANF = Grain * CountIn(o, OceanFine(e))
                   /\ t.FGICEF = Grain * CountIn(o, e.fgice)
                   /\ t.ZICETOP = IceHeight(e, o)
    BY <2>1, TopoORaw
  <2> QED
    BY <2>1
<1>4. /\ CountIn(o, OceanFine(r0)) = CountIn(o, OceanFine(r1)) + CountIn(o, G)
      /\ CountIn(o, r1.fgice) = n0 + n
  <2> HIDE DEF G, I
  <2> QED
    BY <1>1, <1>2, CountsAdd
<1>5. /\ CountIn(o, OceanFine(r1)) \in Nat /\ CountIn(o, G) \in Nat
      /\ n0 \in Nat /\ n \in Nat /\ CountIn(o, r1.fgice) <= NSub /\ n <= CountIn(o, G)
  <2>1. n <= CountIn(o, G)
    <3> DEFINE C == FineOf(o) \cap G
    <3>1. D \subseteq C /\ IsFiniteSet(C)
      BY <1>2, FineCells, FS_Subset
    <3> HIDE DEF C, D
    <3>2. Cardinality(D) <= Cardinality(C)
      BY <3>1, FS_Subset
    <3> QED
      BY <3>2 DEF C, D, CountIn
  <2> HIDE DEF G, I
  <2> QED
    BY <2>1, CountNat
<1>6. /\ d.gice = n /\ d.cont = CountIn(o, G)
      /\ h \in Int /\ n * h = Unit * Sum(z, D)
  <2>1. DOMAIN s.ice = I /\ DOMAIN s.land = G /\ \A f \in DOMAIN s.ice : s.ice[f] \in Int
    <3>1. DOMAIN s.ice = I /\ DOMAIN s.land = G
      OBVIOUS
    <3>2. \A f \in I : s.ice[f] = z[f] /\ f \in Fine
      BY <1>2
    <3> HIDE DEF I, G
    <3> QED
      BY <1>2, <3>1, <3>2
  <2>2. Sum(s.ice, D) = Sum(z, D)
    <3>1. \A f \in D : s.ice[f] = z[f]
      OBVIOUS
    <3> HIDE DEF D, z
    <3> QED
      BY <3>1, SumSame
  <2> HIDE DEF G, I, d, z
  <2>3. /\ d.gice = CountIn(o, DOMAIN s.ice) /\ d.cont = CountIn(o, DOMAIN s.land)
        /\ d.zicetop \div NSub \in Int
        /\ Cardinality(FineOf(o) \cap DOMAIN s.ice) * (d.zicetop \div NSub)
           = Unit * Sum(s.ice, FineOf(o) \cap DOMAIN s.ice)
    <3>1. /\ G \in SUBSET Fine /\ s.x = SheetGrid(G) /\ DOMAIN s.ice \subseteq DOMAIN s.land
          /\ DOMAIN s.land \subseteq G /\ \A f \in DOMAIN s.ice : s.ice[f] \in Int
      BY <1>2, <2>1 DEF G
    <3> QED
      BY <3>1, AddedByOne DEF d
  <2> QED
    BY <2>1, <2>2, <2>3 DEF CountIn
<1>7. /\ t0.ZICETOP \in Int /\ n0 * t0.ZICETOP = Unit * Sum(z, D0) /\ Sum(z, D0) \in Int
      /\ n0 = 0 => t0.ZICETOP = 0
      /\ t1.ZICETOP \in Int /\ (n0 + n) * t1.ZICETOP = Unit * Sum(z, D1) /\ Sum(z, D1) \in Int
      /\ n0 + n = 0 => t1.ZICETOP = 0
      /\ n = 0 => t1.ZICETOP = t0.ZICETOP
  <2>1. ASSUME NEW C \in SUBSET FineOf(o)
        PROVE  LET m == MeanOver([f \in C |-> z[f]])
               IN  /\ m \in Int /\ Cardinality(C) * m = Unit * Sum(z, C) /\ Sum(z, C) \in Int
                   /\ Cardinality(C) = 0 => m = 0
    <3>1. \A f \in C : z[f] \in Int
      BY <1>2
    <3>2. IsFiniteSet(C)
      BY FineCells, FS_Subset
    <3> HIDE DEF z
    <3> QED
      BY <3>1, <3>2, MeanExact, FS_EmptySet
  <2>2. [f \in D0 |-> r0.ztop[f]] = [f \in D0 |-> z[f]] /\ [f \in D1 |-> r1.ztop[f]] = [f \in D1 |-> z[f]]
    <3>1. \A f \in D0 : r0.ztop[f] = z[f]
      <4> HIDE DEF G, I
      <4> QED
        BY <1>1, <1>2
    <3>2. \A f \in D1 : r1.ztop[f] = z[f]
      <4> HIDE DEF G, I
      <4> QED
        BY <1>1, <1>2
    <3> QED
      BY <3>1, <3>2
  <2>3. D0 \in SUBSET FineOf(o) /\ D1 \in SUBSET FineOf(o)
    OBVIOUS
  <2>4. Cardinality(D0) = n0 /\ Cardinality(D1) = n0 + n
    BY <1>4 DEF CountIn
  <2>5. n = 0 => D1 = D0
    <3>1. D1 = D0 \cup D
      BY <1>1
    <3>2. IsFiniteSet(D) /\ n = Cardinality(D)
      BY FineCells, FS_Subset DEF CountIn
    <3> HIDE DEF D, D0, D1, n
    <3> QED
      BY <3>1, <3>2, FS_EmptySet
  <2>6. IceHeight(r0, o) = MeanOver([f \in D0 |-> z[f]]) /\ IceHeight(r1, o) = MeanOver([f \in D1 |-> z[f]])
    BY <2>2 DEF IceHeight
  <2> HIDE DEF D0, D1, n0, n, z, t0, t1, G, I
  <2>7. t0.ZICETOP = MeanOver([f \in D0 |-> z[f]]) /\ t1.ZICETOP = MeanOver([f \in D1 |-> z[f]])
    BY <1>3, <2>6
  <2> QED
    BY <2>1, <2>3, <2>4, <2>5, <2>7
<1>8. Sum(z, D1) = Sum(z, D0) + Sum(z, D) /\ Sum(z, D) \in Int
  <2>1. D1 = D0 \cup D /\ D0 \cap D = {} /\ IsFiniteSet(D0) /\ IsFiniteSet(D)
    <3>1. D1 = D0 \cup D /\ D0 \cap D = {}
      <4> HIDE DEF I, G
      <4> QED
        BY <1>1, <1>2
    <3>2. D0 \subseteq FineOf(o) /\ D \subseteq FineOf(o)
      OBVIOUS
    <3> HIDE DEF D, D0, D1
    <3> QED
      BY <3>1, <3>2, FineCells, FS_Subset
  <2>2. Ints(z, D0) /\ Ints(z, D)
    BY <1>2 DEF Ints
  <2> HIDE DEF D, D0, D1, z
  <2> QED
    BY <2>1, <2>2, SumUnion, SumInt
<1>9. /\ MergedFrom(t0, d, u) /\ IsOCell(t0)
      /\ CountIn(o, OceanFine(r1)) + CountIn(o, G) = CountIn(o, OceanFine(r0))
  <2>1. IsOCell(t0)
    BY TopoOFields
  <2> QED
    BY <1>4, <2>1
<1> DEFINE a == CountIn(o, OceanFine(r1))
           c == CountIn(o, G)
<1>10. SameRaw(u, t1)
  <2>1. /\ a \in Nat /\ c \in Nat /\ n0 \in Nat /\ n \in Nat /\ n0 + n <= NSub /\ n <= c
    BY <1>4, <1>5
  <2>2. /\ t0.FOCEANF = Grain * (a + c) /\ t0.FGICEF = Grain * n0 /\ d.cont = c /\ d.gice = n
        /\ t1.FOCEANF = Grain * a /\ t1.FGICEF = Grain * (n0 + n)
    BY <1>3, <1>4, <1>6
  <2>3. /\ d.zicetop \div NSub \in Int /\ n * (d.zicetop \div NSub) = Unit * Sum(z, D)
        /\ (n0 + n) * t1.ZICETOP = Unit * (Sum(z, D0) + Sum(z, D))
    BY <1>6, <1>7, <1>8
  <2>4. n0 + n = 0 \/ n = 0 => t1.ZICETOP = t0.ZICETOP
    <3> HIDE DEF a, c, G, I, d, t0, t1, D0, D, D1, n0, n, z
    <3>1. n0 + n = 0 => n0 = 0 /\ n = 0
      BY <2>1
    <3> QED
      BY <1>7, <3>1
  <2> HIDE DEF a, c, G, I, d, t0, t1, D0, D, D1, n0, n, z, h
  <2> QED
    BY <1>7, <1>8, <1>9, <2>1, <2>2, <2>3, <2>4, CellPutBack
<1> QED
  BY <1>10

\* An ice model of Greenland with the geometry of ETOPO1 covers what was taken out.
LEMMA OwnSheet ==
    ASSUME InputOK
    PROVE  LET s == Sheets("own")[1]
           IN  /\ Sheets("own") = <<s>> /\ s.x = SheetGrid(GreenlandOf(input.raw))
               /\ s.land = [f \in GreenlandOf(input.raw) |-> input.raw.ztop[f]]
               /\ s.ice = [f \in GreenlandIce(input.raw) |-> input.raw.ztop[f]]
<1>1. GreenlandCells = GreenlandOf(input.raw)
  <2>1. ASSUME NEW f \in GreenlandCells PROVE f \in GreenlandOf(input.raw)
    <3>1. PICK o \in OCells : o[2] > JM \div 2 /\ f \in FineOf(o) /\ input.raw.focean[f] = GREENLAND_VAL
      BY <2>1 DEF GreenlandCells
    <3>2. f \in Fine /\ f[2] = o[2]
      <4>1. f \in Fine
        BY <3>1, FineCells
      <4>2. f[2] = o[2]
        BY <3>1 DEF FineOf
      <4> QED
        BY <4>1, <4>2
    <3> QED
      BY <3>1, <3>2 DEF GreenlandOf
  <2>2. ASSUME NEW f \in GreenlandOf(input.raw) PROVE f \in GreenlandCells
    <3>1. f \in Fine /\ f[2] > JM \div 2 /\ input.raw.focean[f] = GREENLAND_VAL
      BY <2>2 DEF GreenlandOf
    <3>2. OofF(f) \in OCells /\ OofF(f)[2] = f[2] /\ f \in FineOf(OofF(f))
      <4>1. OofF(f) \in OCells /\ OofF(f)[2] = f[2]
        BY <3>1 DEF Fine, OofF, OCells
      <4> QED
        BY <3>1, <4>1, FineCells
    <3> QED
      BY <3>1, <3>2 DEF GreenlandCells
  <2> QED
    BY <2>1, <2>2
<1> DEFINE G == GreenlandCells
           I == {f \in G : input.raw.thick[f] >= MinThickness}
           elev(S) == [f \in S |-> input.raw.ztop[f] + 0]
           s == [x |-> SheetGrid(G), land |-> elev(G), ice |-> elev(I)]
<1>2. Sheets("own") = <<s>>
  BY DEF Sheets, SheetGrid
<1>3. ASSUME NEW S, S \subseteq G PROVE elev(S) = [f \in S |-> input.raw.ztop[f]]
  <2>1. \A f \in S : input.raw.ztop[f] \in Int
    BY <1>1, <1>3 DEF InputOK, RawTopo, GreenlandOf
  <2>2. \A f \in S : input.raw.ztop[f] + 0 = input.raw.ztop[f]
    BY <2>1
  <2> QED
    BY <2>2
<1>4. I \subseteq G /\ I = GreenlandIce(input.raw)
  BY <1>1 DEF GreenlandIce
<1>5. s.x = SheetGrid(G) /\ s.land = elev(G) /\ s.ice = elev(I)
  OBVIOUS
<1>6. elev(G) = [f \in G |-> input.raw.ztop[f]] /\ elev(I) = [f \in I |-> input.raw.ztop[f]]
  BY <1>3, <1>4
<1>7. <<s>>[1] = s
  OBVIOUS
<1> HIDE DEF s, elev, I, G
<1> QED
  BY <1>1, <1>2, <1>4, <1>5, <1>6, <1>7 DEF G

\* Greenland taken out of ETOPO1 by etopo1_ice and merged back in as a sheet of the same
\* shape leaves no trace in the raw fields, in any cell away from the poles.
THEOREM GreenlandRestored == Spec => []KnockoutRestores
<1>1. ASSUME ECInv, FilesMade, IceOnLand, merged # None, merged.geometry = "own",
             NEW o \in OCells, ~Pole(o)
      PROVE  SameRaw(merged.t[o], TopoO(Etopo1Ice(input.raw, TRUE), input.lakes)[o])
  <2> DEFINE raw == input.raw
             lakes == input.lakes
             r0 == Etopo1Ice(raw, FALSE)
             r1 == Etopo1Ice(raw, TRUE)
             s == Sheets("own")[1]
  <2>1. topoo # None /\ etopo1 # None /\ ~input.greenland /\ InputOK
    BY <1>1 DEF FilesMade, ECInv
  <2>2. etopo1 = r0 /\ topoo = TopoO(r0, lakes)
    <3>1. input.greenland = FALSE
      BY <2>1 DEF InputOK
    <3> QED
      BY <1>1, <2>1, <3>1 DEF FilesMade
  <2>3. r0.fgice \cap OceanFine(r0) = {} /\ r0.fgice \subseteq Fine
    BY <1>1, <2>1, <2>2 DEF IceOnLand, ECInv, IceFile
  <2>4. r1.fgice \cap OceanFine(r1) = {}
    <3>1. \A f \in r1.fgice : f \in Fine => r1.focean[f] # OCEAN
      BY IceOnContinent, TRUE \in BOOLEAN
    <3> QED
      BY <3>1 DEF OceanFine
  <2>5. /\ Sheets("own") = <<s>> /\ s.x = SheetGrid(GreenlandOf(raw))
        /\ s.land = [f \in GreenlandOf(raw) |-> raw.ztop[f]]
        /\ s.ice = [f \in GreenlandIce(raw) |-> raw.ztop[f]]
    BY <2>1, OwnSheet
  <2>6. MergedFrom(topoo[o], Added(OnOcean(Sheets(merged.geometry)), o), merged.t[o])
    BY <1>1, MergedFile
  <2>7. MergedFrom(TopoO(r0, lakes)[o], Added(OnOcean(<<s>>), o), merged.t[o])
    <3>1. Sheets(merged.geometry) = <<s>>
      BY <1>1, <2>5
    <3> HIDE DEF s, r0, lakes
    <3> QED
      BY <2>2, <2>6, <3>1
  <2>8. RawOK(raw)
    BY <2>1 DEF InputOK, RawOK
  <2>9. r0 = Etopo1Ice(raw, FALSE) /\ r1 = Etopo1Ice(raw, TRUE)
    OBVIOUS
  <2> HIDE DEF s, r0, r1, lakes, raw
  <2>10. SameRaw(merged.t[o], TopoO(r1, lakes)[o])
    BY <1>1, <2>3, <2>4, <2>5, <2>7, <2>8, <2>9, PutBack
  <2> QED
    BY <2>10 DEF r1, lakes, raw
<1>2. ECInv /\ FilesMade /\ IceOnLand => KnockoutRestores
  <2> SUFFICES ASSUME ECInv, FilesMade, IceOnLand, merged # None, merged.geometry = "own"
               PROVE  LET t == TopoO(Etopo1Ice(input.raw, TRUE), input.lakes)
                      IN  \A o \in {p \in OCells : ~Pole(p)} :
                             \A k \in {"FOCEANF", "FGICEF", "ZICETOP"} : merged.t[o][k] = t[o][k]
    BY DEF KnockoutRestores
  <2> QED
    BY <1>1 DEF SameRaw
<1> QED
  BY <1>2, FilesInvariant, PTL

-----------------------------------------------------------------------------
(* Ghosts *)

\* The sheet of an ice model, if it has one
LEMMA SheetForm ==
    ASSUME InputOK, NEW g, Sheets(g) # <<>>
    PROVE  LET s == Sheets(g)[1]
           IN  /\ Sheets(g) = <<s>> /\ s.x = SheetGrid(GreenlandCells)
               /\ GreenlandCells \in SUBSET Fine
               /\ DOMAIN s.ice \subseteq DOMAIN s.land /\ DOMAIN s.land \subseteq GreenlandCells
               /\ \A f \in DOMAIN s.land : s.land[f] \in Int
               /\ \A f \in DOMAIN s.ice : s.ice[f] \in Int
<1> DEFINE land == IF g = "half" THEN {f \in GreenlandCells : f[3] = 1} ELSE GreenlandCells
           ice  == IF g = "grown" THEN land
                   ELSE {f \in land : input.raw.thick[f] >= MinThickness}
           elev(S) == [f \in S |-> input.raw.ztop[f] + (IF g = "grown" THEN 1 ELSE 0)]
           s == [x |-> SheetGrid(GreenlandCells), land |-> elev(land), ice |-> elev(ice)]
<1>1. GreenlandCells \subseteq Fine
  <2>1. \A o \in OCells : FineOf(o) \subseteq Fine
    BY FineCells
  <2> QED
    BY <2>1 DEF GreenlandCells
<1>2. Sheets(g) = <<s>> /\ <<s>>[1] = s
  BY DEF Sheets, SheetGrid
<1>3. ice \subseteq land /\ land \subseteq GreenlandCells
  OBVIOUS
<1>4. ASSUME NEW S, S \subseteq GreenlandCells
      PROVE  DOMAIN elev(S) = S /\ \A f \in S : elev(S)[f] \in Int
  BY <1>1, <1>4 DEF InputOK, RawTopo
<1>5. s.x = SheetGrid(GreenlandCells) /\ s.land = elev(land) /\ s.ice = elev(ice)
  OBVIOUS
<1> HIDE DEF s, elev, land, ice
<1> QED
  BY <1>1, <1>2, <1>3, <1>4, <1>5

\* The heights that a single sheet adds to a cell span those of its land there.
LEMMA AddedHeights ==
    ASSUME NEW s, NEW G \in SUBSET Fine, s.x = SheetGrid(G), DOMAIN s.land \subseteq G,
           \A f \in DOMAIN s.land : s.land[f] \in Int, NEW o \in OCells
    PROVE  LET d == Added(OnOcean(<<s>>), o)
           IN  /\ d.zmin \in Int /\ d.zmax \in Int
               /\ \A f \in FineOf(o) \cap DOMAIN s.land :
                     d.zmin <= s.land[f] /\ s.land[f] <= d.zmax
<1> DEFINE sheets == <<s>>
           on == OnOcean(sheets)
           d == Added(on, o)
           D == FineOf(o) \cap DOMAIN s.land
           H == {s.land[f] : f \in D}
<1>1. DOMAIN on = {1} /\ on[1] = SheetOnO(s)
  BY DEF OnOcean
<1>2. SheetOnO(s).land = s.land /\ SheetOnO(s).landArea = OvI(s, s.land, TRUE)
  BY DEF SheetOnO
<1>3. OvI(s, s.land, TRUE).M = Ones(ByO(DOMAIN s.land))
  <2>1. ASSUME NEW c \in BOOLEAN PROVE OvI(s, s.land, c).M = Ones(ByO(DOMAIN s.land))
    BY OverlapCounts
  <2> QED
    BY <2>1, TRUE \in BOOLEAN
<1>4. LandHeights(on[1], o) = H
  <2> DEFINE P == {sc \in DOMAIN Ones(ByO(DOMAIN s.land)) : sc[1] = o}
  <2>1. LandHeights(on[1], o) = {s.land[rc[2]] : rc \in P}
    <3> HIDE DEF on
    <3> QED
      BY <1>1, <1>2, <1>3 DEF LandHeights
  <2>2. P = {<<o, f>> : f \in D}
    <3>1. DOMAIN s.land \subseteq Fine
      OBVIOUS
    <3>2. \A f \in DOMAIN s.land : OofF(f) = o <=> f \in D
      BY <3>1, FineCells
    <3> QED
      BY <3>2 DEF Ones, ByO
  <2>3. {s.land[rc[2]] : rc \in {<<o, f>> : f \in D}} = H
    <3>1. \A rc \in {<<o, f>> : f \in D} : rc[2] \in D
      OBVIOUS
    <3>2. \A f \in D : <<o, f>> \in {<<o, h>> : h \in D} /\ <<o, f>>[2] = f
      OBVIOUS
    <3> HIDE DEF D
    <3> QED
      BY <3>1, <3>2
  <2> HIDE DEF P, D, H
  <2> QED
    BY <2>1, <2>2, <2>3
<1>5. UNION {LandHeights(on[k], o) : k \in DOMAIN on} = H
  <2> HIDE DEF on, H
  <2> QED
    BY <1>1, <1>4
<1>6. d.zmin = (IF H = {} THEN NoElev ELSE Min(H)) /\ d.zmax = Max(H \cup {DblMin})
  <2> HIDE DEF on, H
  <2> QED
    BY <1>5 DEF Added
<1>7. IsFiniteSet(H) /\ H \in SUBSET Int /\ NoElev \in Int /\ DblMin \in Int
  <2>1. IsFiniteSet(D) /\ \A f \in D : s.land[f] \in Int
    BY FineCells, FS_Subset
  <2> HIDE DEF D
  <2> QED
    BY <2>1, ImageFinite DEF NoElev, DblMin
<1>8. \A f \in D : s.land[f] \in H
  OBVIOUS
<1> HIDE DEF H, d
<1>9. H # {} => Min(H) \in H /\ \A y \in H : Min(H) <= y
  BY <1>7, MinMaxIn
<1>10. Max(H \cup {DblMin}) \in H \cup {DblMin} /\ \A y \in H : y <= Max(H \cup {DblMin})
  <2>1. IsFiniteSet(H \cup {DblMin}) /\ H \cup {DblMin} \in SUBSET Int
    BY <1>7, FS_AddElement
  <2> QED
    BY <2>1, MinMaxIn
<1>11. d.zmin \in Int /\ d.zmax \in Int /\ \A y \in H : d.zmin <= y /\ y <= d.zmax
  <2>1. H # {} => d.zmin = Min(H)
    BY <1>6
  <2>2. H = {} => d.zmin = NoElev
    BY <1>6
  <2>3. d.zmax \in Int /\ \A y \in H : y <= d.zmax
    BY <1>6, <1>7, <1>10
  <2>4. d.zmin \in Int /\ \A y \in H : d.zmin <= y
    BY <1>7, <1>9, <2>1, <2>2
  <2> QED
    BY <2>3, <2>4
<1> QED
  BY <1>8, <1>11 DEF d

\* The ladder of the local classes
LEMMA LocalLadder ==
    /\ Len(LocalHcdefs) \in Nat /\ Len(LocalHcdefs) >= 2
    /\ DOMAIN LocalHcdefs = 1..Len(LocalHcdefs)
    /\ \A h \in 1..Len(LocalHcdefs) : LocalHcdefs[h] \in Int
    /\ \A i, j \in 1..Len(LocalHcdefs) : i < j => LocalHcdefs[i] < LocalHcdefs[j]
<1> DEFINE L == Len(LocalHcdefs)
           hc == LocalHcdefs
<1>1. L \in Nat /\ L >= 2 /\ DOMAIN hc = 1..L /\ \A h \in 1..L : hc[h] \in Int
  BY LocalHcdefsAssumption
<1>2. ECSkip \in Nat \ {0} /\ \A h \in 2..L : hc[h] - hc[h - 1] = ECSkip
  BY LocalHcdefsAssumption, GlobalECAssumption
<1> HIDE DEF L, hc
<1> DEFINE Bad == {n \in Nat : \E i, j \in 1..L : j = i + 1 + n /\ ~ (hc[i] < hc[j])}
<1>3. ASSUME Bad # {} PROVE FALSE
  <2>1. PICK n \in Bad : \A k \in Bad : n <= k
    <3>1. Bad \in SUBSET Nat
      OBVIOUS
    <3> HIDE DEF Bad
    <3> QED
      BY <1>3, <3>1, LeastNat
  <2>2. n \in Nat
    OBVIOUS
  <2>3. PICK i \in 1..L, j \in 1..L : j = i + 1 + n /\ ~ (hc[i] < hc[j])
    OBVIOUS
  <2>4. j \in 2..L /\ j - 1 \in 1..L
    BY <1>1, <2>2, <2>3
  <2>5. hc[j] - hc[j - 1] = ECSkip
    BY <1>2, <2>4
  <2>6. hc[i] \in Int /\ hc[j] \in Int /\ hc[j - 1] \in Int
    BY <1>1, <2>4
  <2>7. CASE n = 0
    <3>1. j - 1 = i
      BY <2>3, <2>7
    <3> QED
      BY <1>2, <2>3, <2>5, <2>6, <3>1
  <2>8. CASE n # 0
    <3>1. n - 1 \in Nat /\ j - 1 = i + 1 + (n - 1)
      BY <2>2, <2>3, <2>8
    <3>2. n - 1 \notin Bad
      BY <2>1, <2>2, <3>1
    <3>3. hc[i] < hc[j - 1]
      BY <2>4, <3>1, <3>2
    <3> QED
      BY <1>2, <2>3, <2>5, <2>6, <3>3
  <2> QED
    BY <2>7, <2>8
<1>4. ASSUME NEW i \in 1..L, NEW j \in 1..L, i < j PROVE hc[i] < hc[j]
  <2>1. j - i - 1 \in Nat /\ j = i + 1 + (j - i - 1)
    BY <1>1, <1>4
  <2> QED
    BY <1>3, <2>1
<1> QED
  BY <1>1, <1>4 DEF L, hc

\* An O cell lies in an A cell.
LEMMA CellOverO ==
    ASSUME NEW o \in OCells
    PROVE  AofO(o) \in ACells /\ o \in Block(AofO(o))
<1>1. \A n \in Nat : n % 2 = 0 => \A i \in 1..n : (i + 1) \div 2 \in 1..(n \div 2)
  OBVIOUS
<1>2. o[1] \in 1..IM /\ o[2] \in 1..JM
  BY DEF OCells
<1> QED
  BY <1>1, <1>2, TopoGridAssumption DEF AofO, ACells, Block

\* The range of the land in an A cell away from the poles includes the ranges of the
\* cells that were merged.
LEMMA LandRange ==
    ASSUME NEW t, \A p \in OCells : t[p].MERGEMASK => /\ t[p].ZLAND_MIN \in Int
                                                      /\ t[p].ZLAND_MAX \in Int,
           NEW o \in OCells, t[o].MERGEMASK, ~APole(AofO(o)),
           ZlandMax(t)[AofO(o)] # NoElev
    PROVE  LET a == AofO(o)
           IN  /\ ZlandMin(t)[a] \in Int /\ ZlandMin(t)[a] <= t[o].ZLAND_MIN
               /\ ZlandMax(t)[a] \in Int /\ t[o].ZLAND_MAX <= ZlandMax(t)[a]
<1> DEFINE a == AofO(o)
           lows == {t[p].ZLAND_MIN : p \in Merged(t, a)}
           highs == {t[p].ZLAND_MAX : p \in Merged(t, a)}
           low == [b \in ACells |->
                      IF Merged(t, b) = {} THEN NoElev
                      ELSE Min({t[p].ZLAND_MIN : p \in Merged(t, b)})]
           high == [b \in ACells |->
                      LET z == Max({t[p].ZLAND_MAX : p \in Merged(t, b)} \cup {DblMin})
                      IN  IF z = DblMin THEN NoElev ELSE z]
<1>1. a \in ACells /\ o \in Merged(t, a)
  BY CellOverO DEF Merged
<1>2. Merged(t, a) \subseteq OCells /\ IsFiniteSet(Merged(t, a))
  <2>1. Merged(t, a) \subseteq Block(a) /\ IsFiniteSet(Block(a)) /\ Block(a) \subseteq OCells
    BY <1>1, BlockOf DEF Merged
  <2> QED
    BY <2>1, FS_Subset
<1>3. ZlandMin(t) = MergePolesNaN(low) /\ ZlandMax(t) = MergePolesNaN(high)
  BY DEF ZlandMin, ZlandMax
<1>4. low[a] = Min(lows) /\ high[a] = LET z == Max(highs \cup {DblMin})
                                      IN  IF z = DblMin THEN NoElev ELSE z
  BY <1>1
<1>5. /\ lows \in SUBSET Int /\ t[o].ZLAND_MIN \in lows /\ IsFiniteSet(lows)
      /\ highs \in SUBSET Int /\ t[o].ZLAND_MAX \in highs /\ IsFiniteSet(highs)
  <2>1. \A p \in Merged(t, a) : t[p].ZLAND_MIN \in Int /\ t[p].ZLAND_MAX \in Int
    BY <1>2 DEF Merged
  <2>2. IsFiniteSet(lows) /\ IsFiniteSet(highs)
    <3> DEFINE S == Merged(t, a)
               fl == [p \in S |-> t[p].ZLAND_MIN]
               fh == [p \in S |-> t[p].ZLAND_MAX]
    <3>1. lows = {fl[p] : p \in S} /\ highs = {fh[p] : p \in S} /\ IsFiniteSet(S)
      BY <1>2
    <3> HIDE DEF S, fl, fh, lows, highs
    <3> QED
      BY <3>1, ImageFinite
  <2> QED
    BY <1>1, <2>1, <2>2
<1> HIDE DEF low, high, lows, highs
<1>6. ASSUME NEW f PROVE MergePolesNaN(f)[a] = f[a]
  BY <1>1 DEF MergePolesNaN, MergePoles
<1>7. Min(lows) \in Int /\ Min(lows) <= t[o].ZLAND_MIN
  BY <1>5, MinMaxIn
<1>8. Max(highs \cup {DblMin}) \in Int /\ t[o].ZLAND_MAX <= Max(highs \cup {DblMin})
  <2>1. IsFiniteSet(highs \cup {DblMin}) /\ highs \cup {DblMin} \in SUBSET Int
    BY <1>5, FS_AddElement DEF DblMin
  <2> QED
    BY <1>5, <2>1, MinMaxIn
<1> QED
  BY <1>3, <1>4, <1>6, <1>7, <1>8 DEF NoElev

\* The matrix of make_merged_topoo has the local classes first, unless they were squashed
\* together with the others; then none is known to be local.
LEMMA LocalFirst ==
    ASSUME NEW base, NEW sheets, NEW hc \in Seq(Int)
    PROVE  LET m == MergedEOpvAOp(base, sheets, hc)
               n == Len(LocalHcdefs)
           IN  /\ NhcLocal(m) = n /\ NhcLocal(Squashed(m)) = 0
               /\ \A h \in 1..n : /\ h \in DOMAIN m.hcdefs /\ m.hcdefs[h] = LocalHcdefs[h]
                                  /\ m.underice[h] = "LOCALICE"
<1> DEFINE m == MergedEOpvAOp(base, sheets, hc)
           n == Len(LocalHcdefs)
           g == Len(hc)
<1>1. n \in Nat /\ g \in Nat /\ LocalHcdefs \in Seq(Int) /\ hc \in Seq(Int)
  BY LocalHcdefsAssumption
<1>2. /\ m.hcdefs = LocalHcdefs \o hc
      /\ m.underice = [h \in 1..(n + g) |-> IF h <= n THEN "LOCALICE" ELSE "GLOBALICE"]
  BY DEF MergedEOpvAOp
<1>3. /\ DOMAIN m.hcdefs = 1..(n + g) /\ Len(m.hcdefs) = n + g
      /\ \A h \in 1..n : m.hcdefs[h] = LocalHcdefs[h]
  BY <1>1, <1>2
<1> HIDE DEF m
<1>4. \A h \in 1..n : h \in 1..(n + g) /\ h <= n
  BY <1>1
<1>5. \A h \in 1..n : m.underice[h] = "LOCALICE"
  BY <1>2, <1>4
<1>6. NhcLocal(m) = n
  <2> DEFINE K == {k \in 0..Len(m.underice) : \A h \in 1..k : m.underice[h] = "LOCALICE"}
  <2>1. Len(m.underice) = n + g
    BY <1>1, <1>2
  <2>2. n \in K /\ K \in SUBSET Int /\ \A k \in K : k <= n
    <3>1. n \in K
      BY <1>1, <1>5, <2>1
    <3>2. ASSUME NEW k \in K, n < k PROVE FALSE
      <4>1. n + 1 \in 1..k /\ n + 1 \in 1..(n + g) /\ ~(n + 1 <= n)
        BY <1>1, <2>1, <3>2
      <4>2. m.underice[n + 1] = "GLOBALICE"
        BY <1>2, <4>1
      <4>3. m.underice[n + 1] = "LOCALICE"
        BY <4>1
      <4> QED
        BY <4>2, <4>3
    <3>3. K \in SUBSET Nat
      BY <1>1, <2>1
    <3> HIDE DEF K
    <3>4. \A k \in K : ~(n < k) => k <= n
      BY <1>1, <3>3
    <3> QED
      BY <3>1, <3>2, <3>3, <3>4
  <2>3. NhcLocal(m) = Max(K)
    BY DEF NhcLocal
  <2> HIDE DEF K
  <2>4. Max(K) \in K /\ n <= Max(K)
    BY <1>1, <2>2, MaxBounded
  <2>5. Max(K) <= n /\ Max(K) \in Int
    BY <2>2, <2>4
  <2> QED
    BY <1>1, <2>3, <2>4, <2>5
<1>7. NhcLocal(Squashed(m)) = 0
  <2> DEFINE d == Distinct(m.hcdefs)
             q == Squashed(m)
             K == {k \in 0..Len(q.underice) : \A h \in 1..k : q.underice[h] = "LOCALICE"}
             c == Cardinality(Range(m.hcdefs))
  <2>1. c \in Nat
    <3>1. Range(m.hcdefs) = {m.hcdefs[h] : h \in 1..(n + g)}
      BY <1>3 DEF Range
    <3>2. IsFiniteSet(1..(n + g))
      BY <1>1, FS_Interval
    <3> QED
      BY <3>1, <3>2, ImageFinite, FS_CardinalityType
  <2>2. q.underice = [h \in DOMAIN d |-> "GLOBALICE"] /\ DOMAIN d = 1..c
    BY DEF Squashed, Distinct
  <2> HIDE DEF c, d, q
  <2>3. Len(q.underice) = c /\ \A h \in 1..c : q.underice[h] = "GLOBALICE"
    BY <2>1, <2>2
  <2>4. K = {0}
    <3>1. 0 \in K
      BY <2>1, <2>3
    <3>2. ASSUME NEW k \in K, k # 0 PROVE FALSE
      <4>1. 1 \in 1..k /\ 1 \in 1..c
        BY <2>1, <2>3, <3>2
      <4> QED
        BY <2>3, <4>1
    <3> QED
      BY <3>1, <3>2
  <2>5. NhcLocal(q) = Max(K)
    BY DEF NhcLocal
  <2> HIDE DEF K
  <2>6. Max({0}) \in {0}
    <3>1. {0} \in SUBSET Int /\ {0} # {} /\ \A y \in {0} : y <= 0
      OBVIOUS
    <3> QED
      BY <3>1, MaxBounded
  <2> QED
    BY <2>4, <2>5, <2>6 DEF q
<1> QED
  BY <1>1, <1>3, <1>4, <1>5, <1>6, <1>7 DEF m

\* The classes of a file are a sequence of elevations.
LEMMA HcdefsSeq ==
    ASSUME NEW e, IceFile(e)
    PROVE  Hcdefs(e) \in Seq(Int)
<1>1. Elevations(Hcdefs(e))
  BY HcdefsIn
<1>2. Hcdefs(e) = [h \in DOMAIN Hcdefs(e) |-> Hcdefs(e)[h]]
  BY DEF Hcdefs
<1> DEFINE hc == Hcdefs(e)
           n == Len(hc)
<1>3. hc = [h \in 1..n |-> hc[h]] /\ n \in Nat /\ \A h \in 1..n : hc[h] \in Int
  BY <1>1, <1>2 DEF Elevations
<1> HIDE DEF hc, n
<1>4. hc \in [1..n -> Int]
  BY <1>3
<1> QED
  BY <1>3, <1>4 DEF hc

\* The classes that an elevation between zmin and zmax is interpolated between are in
\* the range of ghosts of zmin and zmax, if zmin is above the first class.
LEMMA GhostsCover ==
    ASSUME NEW m, NhcLocal(m) = Len(LocalHcdefs),
           \A h \in 1..Len(LocalHcdefs) : m.hcdefs[h] = LocalHcdefs[h],
           NEW z \in Int, NEW zmin \in Int, NEW zmax \in Int, zmin <= z, z <= zmax,
           zmin > LocalHcdefs[1], NoElev \notin {zmin, zmax}, ~OutOfBounds(LocalHcdefs, z),
           NEW h \in DOMAIN Interpolated(LocalHcdefs, z)
    PROVE  h \in GhostRange(m, zmin, zmax) /\ h \in 1..Len(LocalHcdefs)
<1> DEFINE hc == LocalHcdefs
           n == Len(hc)
           b == LowerBound(hc, z)
           above == {k \in 1..n : hc[k] >= z} \cup {n + 1}
           below == {k \in 1..n : m.hcdefs[k] < zmin}
           upto == {k \in 1..n : m.hcdefs[k] <= zmax}
<1>1. /\ n \in Nat /\ n >= 2 /\ DOMAIN hc = 1..n /\ \A k \in 1..n : hc[k] \in Int
      /\ \A i, j \in 1..n : i < j => hc[i] < hc[j]
      /\ \A k \in 1..n : m.hcdefs[k] = hc[k]
  BY LocalLadder
<1>2. /\ above \in SUBSET Int /\ above # {} /\ IsFiniteSet(above)
      /\ below \in SUBSET Int /\ 1 \in below /\ IsFiniteSet(below)
      /\ upto \in SUBSET Int /\ IsFiniteSet(upto)
  <2> DEFINE R == 1..n
             U == {k \in R : hc[k] >= z}
  <2>1. IsFiniteSet(R)
    <3> HIDE DEF n
    <3> QED
      BY <1>1, FS_Interval
  <2>2. R \in SUBSET Int /\ n + 1 \in Int /\ 1 \in R /\ m.hcdefs[1] < zmin
    <3>1. 1 \in R
      BY <1>1
    <3>2. m.hcdefs[1] = hc[1]
      BY <1>1, <3>1
    <3> QED
      BY <1>1, <3>1, <3>2
  <2>3. above = U \cup {n + 1} /\ below = {k \in R : m.hcdefs[k] < zmin}
        /\ upto = {k \in R : m.hcdefs[k] <= zmax}
    OBVIOUS
  <2> HIDE DEF R, n, above, below, upto
  <2>4. IsFiniteSet(U) /\ IsFiniteSet(below) /\ IsFiniteSet(upto)
    BY <2>1, <2>3, FS_Subset
  <2>5. U \subseteq R
    OBVIOUS
  <2> HIDE DEF U
  <2>6. IsFiniteSet(U \cup {n + 1})
    BY <2>4, FS_AddElement
  <2> QED
    BY <2>2, <2>3, <2>4, <2>5, <2>6
<1>3. b = Min(above) /\ b <= n
  <2>1. b = Min(above)
    BY <1>1 DEF LowerBound
  <2>2. ~(b > n)
    BY <1>1 DEF OutOfBounds
  <2> HIDE DEF above, b, n
  <2>3. Min(above) \in Int
    BY <1>2, MinMaxIn
  <2> QED
    BY <1>1, <2>1, <2>2, <2>3
<1>4. GhostRange(m, zmin, zmax)
      = IF below = {} \/ upto = {} THEN {} ELSE Max({1, Max(below) - 1})..Min({Max(upto) + 2, n})
  BY DEF GhostRange
<1>5. DOMAIN Interpolated(hc, z) \subseteq {Max({b, 2}) - 1, Max({b, 2})}
  BY DEF Interpolated, Restrict
<1>6. above = {k \in 1..n : hc[k] >= z} \cup {n + 1}
      /\ below = {k \in 1..n : m.hcdefs[k] < zmin} /\ upto = {k \in 1..n : m.hcdefs[k] <= zmax}
  OBVIOUS
<1> HIDE DEF above, below, upto, b, n
<1>7. b \in above /\ \A k \in above : b <= k
  BY <1>2, <1>3, MinMaxIn
<1>8. b \in 1..n /\ hc[b] >= z /\ \A k \in 1..n : k < b => hc[k] < z
  <2>1. b \in 1..n
    BY <1>1, <1>3, <1>6, <1>7
  <2>2. hc[b] >= z
    BY <1>1, <1>3, <1>6, <1>7
  <2>3. ASSUME NEW k \in 1..n, k < b PROVE hc[k] < z
    <3>1. k \notin above
      BY <1>1, <1>7, <2>1, <2>3
    <3> QED
      BY <1>1, <1>6, <3>1 DEF hc
  <2> QED
    BY <2>1, <2>2, <2>3
<1>9. Max(below) \in below /\ \A k \in below : k <= Max(below)
  BY <1>2, MinMaxIn
<1>10. Max(below) \in 1..n /\ Max(below) < b
  <2> DEFINE l == Max(below)
  <2>1. l \in 1..n /\ hc[l] < zmin
    BY <1>1, <1>6, <1>9
  <2> HIDE DEF l
  <2>2. ASSUME b <= l PROVE FALSE
    <3>1. hc[b] <= hc[l]
      BY <1>1, <1>8, <2>1, <2>2
    <3> QED
      BY <1>1, <1>8, <2>1, <3>1
  <2>3. l < b
    BY <1>1, <1>8, <2>1, <2>2
  <2> QED
    BY <2>1, <2>3 DEF l
<1>11. b >= 2 /\ b - 1 \in 1..n /\ b - 1 \in upto
  <2>1. b >= 2 /\ b - 1 \in 1..n /\ b - 1 < b
    BY <1>1, <1>8, <1>10
  <2>2. hc[b - 1] < z
    BY <1>8, <2>1
  <2>3. m.hcdefs[b - 1] <= zmax
    BY <1>1, <2>1, <2>2
  <2> QED
    BY <1>6, <2>1, <2>3
<1>12. Max(upto) \in Int /\ b - 1 <= Max(upto)
  BY <1>2, <1>11, MinMaxIn
<1>13. Max({b, 2}) = b
  <2>1. {b, 2} \in SUBSET Int /\ {b, 2} # {} /\ \A y \in {b, 2} : y <= b
    BY <1>1, <1>8, <1>11
  <2>2. Max({b, 2}) \in {b, 2} /\ \A y \in {b, 2} : y <= Max({b, 2})
    BY <1>8, <2>1, MaxBounded
  <2> QED
    BY <1>8, <1>11, <2>2
<1>14. h \in {b - 1, b}
  BY <1>5, <1>13
<1>15. Max({1, Max(below) - 1}) \in Int /\ Max({1, Max(below) - 1}) <= b - 1
  <2> DEFINE l == Max(below)
             T == {1, l - 1}
  <2>1. T \in SUBSET Int /\ T # {} /\ (\A y \in T : y <= b - 1) /\ b - 1 \in Int
    BY <1>1, <1>8, <1>10, <1>11
  <2> HIDE DEF T
  <2>2. Max(T) \in T
    BY <2>1, MaxBounded
  <2> QED
    BY <2>1, <2>2 DEF T
<1>16. Min({Max(upto) + 2, n}) \in Int /\ b <= Min({Max(upto) + 2, n})
  <2> DEFINE T == {Max(upto) + 2, n}
  <2>1. T \in SUBSET Int /\ T # {} /\ \A y \in T : b <= y
    BY <1>1, <1>8, <1>12
  <2>2. IsFiniteSet(T)
    BY PairFinite
  <2> HIDE DEF T
  <2>3. Min(T) \in T
    BY <2>1, <2>2, MinMaxIn
  <2> QED
    BY <2>1, <2>3 DEF T
<1>17. GhostRange(m, zmin, zmax) = Max({1, Max(below) - 1})..Min({Max(upto) + 2, n})
  BY <1>2, <1>4, <1>11
<1> DEFINE low == Max({1, Max(below) - 1})
           high == Min({Max(upto) + 2, n})
<1>18. low \in Int /\ low <= b - 1 /\ high \in Int /\ b <= high
       /\ GhostRange(m, zmin, zmax) = low..high
  BY <1>15, <1>16, <1>17
<1> HIDE DEF low, high
<1>19. b - 1 \in low..high /\ b \in low..high
  BY <1>8, <1>18
<1> QED
  BY <1>8, <1>11, <1>14, <1>18, <1>19 DEF n

\* A class in the range of ghosts of an A cell with land is in use, under ice of local
\* kind or as a ghost, if it is a local one.
LEMMA GhostUsed ==
    ASSUME NEW t, NEW m, NEW a \in ACells, ~APole(a), RegridA(t, "FOCEAN")[a] # Unit,
           NEW h \in DOMAIN m.hcdefs, h \in GhostRange(m, ZlandMin(t)[a], ZlandMax(t)[a]),
           m.underice[h] = "LOCALICE"
    PROVE  UndericeA(t, m)[a][h] # "UNUSED"
<1> DEFINE M == AAmvEAm(t, m)
           fhc == Fhc(t, m)
<1>1. fhc[a][h] = At(M, <<a, <<a, h>>>>)
  <2>1. a[2] # 1
    BY DEF APole
  <2> HIDE DEF M
  <2> QED
    BY <2>1 DEF Fhc, M
<1>2. fhc[a][h] # 0 => <<a, <<a, h>>>> \in DOMAIN M
  <2> HIDE DEF M, fhc
  <2> QED
    BY <1>1 DEF At
<1>3. UndericeA(t, m)[a][h]
      = IF fhc[a][h] = 0 THEN "VGHOST"
        ELSE IF <<a, <<a, h>>>> \in DOMAIN M THEN m.underice[h] ELSE "UNUSED"
  BY DEF UndericeA
<1> HIDE DEF M, fhc
<1> QED
  BY <1>2, <1>3

\* Ghosts stand ready for any ice that grows on the land of a local sheet.
THEOREM GhostsStand == Spec => []GhostsReady
<1>1. ASSUME ECInv, FilesMade, IceOnLand, topoa # None, NhcLocal(merged.m) > 0,
             Sheets(merged.geometry) # <<>>, NEW f \in DOMAIN Sheets(merged.geometry)[1].land,
             ~APole(AofO(OofF(f))), topoa.land[AofO(OofF(f))].FOCEAN < Unit,
             merged.t[OofF(f)].MERGEMASK,
             topoa.land[AofO(OofF(f))].zland_min > LocalHcdefs[1],
             NoElev \notin {topoa.land[AofO(OofF(f))].zland_min,
                            topoa.land[AofO(OofF(f))].zland_max},
             ~OutOfBounds(LocalHcdefs, Sheets(merged.geometry)[1].land[f]),
             NEW h \in DOMAIN Interpolated(LocalHcdefs, Sheets(merged.geometry)[1].land[f])
      PROVE  topoa.underice[AofO(OofF(f))][h] # "UNUSED"
  <2> DEFINE sheets == Sheets(merged.geometry)
             s == sheets[1]
             o == OofF(f)
             a == AofO(o)
             z == s.land[f]
             t == merged.t
             m == merged.m
             d(p) == Added(OnOcean(sheets), p)
  <2>1. /\ merged # None /\ topoa = MakeTopoA(t, m) /\ etopo1 # None
        /\ m \in {MergedEOpvAOp(ec["EvO"].M, sheets, Hcdefs(etopo1)),
                  Squashed(MergedEOpvAOp(ec["EvO"].M, sheets, Hcdefs(etopo1)))}
    BY <1>1 DEF FilesMade
  <2>2. IceFile(etopo1) /\ InputOK
    BY <1>1, <2>1 DEF ECInv
  <2>3. /\ NhcLocal(m) = Len(LocalHcdefs)
        /\ \A k \in 1..Len(LocalHcdefs) : /\ k \in DOMAIN m.hcdefs
                                         /\ m.hcdefs[k] = LocalHcdefs[k]
                                         /\ m.underice[k] = "LOCALICE"
    <3> DEFINE base == ec["EvO"].M
               hc == Hcdefs(etopo1)
               m0 == MergedEOpvAOp(base, sheets, hc)
    <3>1. hc \in Seq(Int)
      BY <2>2, HcdefsSeq
    <3> HIDE DEF base, sheets, hc
    <3>2. /\ NhcLocal(m0) = Len(LocalHcdefs) /\ NhcLocal(Squashed(m0)) = 0
          /\ \A k \in 1..Len(LocalHcdefs) : /\ k \in DOMAIN m0.hcdefs
                                           /\ m0.hcdefs[k] = LocalHcdefs[k]
                                           /\ m0.underice[k] = "LOCALICE"
      BY <3>1, LocalFirst
    <3>3. m \in {m0, Squashed(m0)}
      BY <2>1 DEF base, sheets, hc
    <3>4. m # Squashed(m0)
      BY <1>1, <3>2
    <3> HIDE DEF m0
    <3> QED
      BY <3>2, <3>3, <3>4
  <2>4. /\ sheets = <<s>> /\ s.x = SheetGrid(GreenlandCells) /\ GreenlandCells \in SUBSET Fine
        /\ DOMAIN s.land \subseteq GreenlandCells /\ \A g \in DOMAIN s.land : s.land[g] \in Int
    BY <1>1, <2>2, SheetForm
  <2> HIDE DEF s, sheets
  <2>5. f \in DOMAIN s.land /\ f \in Fine /\ o \in OCells /\ f \in FineOf(o)
    <3>1. f \in DOMAIN s.land /\ f \in Fine
      BY <1>1, <2>4 DEF s, sheets
    <3>2. o \in OCells
      BY <3>1 DEF Fine, OCells, OofF
    <3> QED
      BY <3>1, <3>2, FineCells
  <2>6. ASSUME NEW p \in OCells
        PROVE  /\ d(p).zmin \in Int /\ d(p).zmax \in Int
               /\ \A g \in FineOf(p) \cap DOMAIN s.land :
                     d(p).zmin <= s.land[g] /\ s.land[g] <= d(p).zmax
    BY <2>4, AddedHeights
  <2>7. \A p \in OCells : HeightsMasked(d(p), t[p])
    BY <1>1, <2>1, MergedFile DEF sheets
  <2> HIDE DEF o, t, m, z, d
  <2>8. \A p \in OCells : t[p].MERGEMASK => /\ t[p].ZLAND_MIN = d(p).zmin
                                           /\ t[p].ZLAND_MAX = d(p).zmax
    BY <2>7 DEF HeightsMasked
  <2>9. a \in ACells /\ t[o].MERGEMASK /\ ~APole(a)
    BY <1>1, <2>5, CellOverO DEF o, t
  <2>10. /\ topoa.land[a].zland_min = ZlandMin(t)[a] /\ topoa.land[a].zland_max = ZlandMax(t)[a]
         /\ topoa.land[a].FOCEAN = RegridA(t, "FOCEAN")[a]
         /\ topoa.underice = UndericeA(t, m)
    <3> HIDE DEF a
    <3> QED
      BY <2>1, <2>9 DEF MakeTopoA
  <2>11. /\ ZlandMin(t)[a] > LocalHcdefs[1] /\ NoElev \notin {ZlandMin(t)[a], ZlandMax(t)[a]}
         /\ RegridA(t, "FOCEAN")[a] < Unit /\ ~OutOfBounds(LocalHcdefs, z)
         /\ h \in DOMAIN Interpolated(LocalHcdefs, z)
    BY <1>1, <2>10 DEF o, z, s, sheets
  <2>12. RegridA(t, "FOCEAN")[a] # Unit
    <3>1. ~(Unit < Unit)
      BY TopoGridAssumption
    <3> QED
      BY <2>11, <3>1
  <2>13. z \in Int /\ t[o].ZLAND_MIN <= z /\ z <= t[o].ZLAND_MAX
    BY <2>4, <2>5, <2>6, <2>8, <2>9 DEF z
  <2>14. /\ ZlandMin(t)[a] \in Int /\ ZlandMin(t)[a] <= t[o].ZLAND_MIN
         /\ ZlandMax(t)[a] \in Int /\ t[o].ZLAND_MAX <= ZlandMax(t)[a]
    BY <2>5, <2>6, <2>8, <2>9, <2>11, LandRange
  <2>15. t[o].ZLAND_MIN \in Int /\ t[o].ZLAND_MAX \in Int
    BY <2>5, <2>6, <2>8, <2>9
  <2> HIDE DEF a
  <2>16. ZlandMin(t)[a] <= z /\ z <= ZlandMax(t)[a]
    BY <2>13, <2>14, <2>15
  <2>17. h \in GhostRange(m, ZlandMin(t)[a], ZlandMax(t)[a]) /\ h \in 1..Len(LocalHcdefs)
    BY <2>3, <2>11, <2>13, <2>14, <2>16, GhostsCover
  <2>18. UndericeA(t, m)[a][h] # "UNUSED"
    BY <2>3, <2>9, <2>12, <2>17, GhostUsed
  <2> QED
    BY <2>10, <2>18 DEF a, o
<1>2. ECInv /\ FilesMade /\ IceOnLand => GhostsReady
  BY <1>1 DEF GhostsReady
<1> QED
  BY <1>2, FilesInvariant, PTL

-----------------------------------------------------------------------------
(* The columns of a merged matrix *)

\* squash_ECs() renames rows: every O cell keeps its ice.
LEMMA SquashKeeps ==
    ASSUME NEW m, Matrix(m.M), NEW o
    PROVE  At(ColSum(Squashed(m).M), o) = ColTotal(m.M, o)
<1> DEFINE hc == Distinct(m.hcdefs)
           new(h) == CHOOSE k \in DOMAIN hc : hc[k] = m.hcdefs[h]
           tag == [rc \in DOMAIN m.M |-> rc]
           row == [rc \in DOMAIN m.M |-> <<rc[1][1], new(rc[1][2])>>]
           T == Relabelled(m.M, tag, row)
<1>1. T = {<<rc, <<rc[1][1], new(rc[1][2])>>, rc[2], m.M[rc]>> : rc \in DOMAIN m.M}
  BY DEF Relabelled
<1>2. Squashed(m).M = Accumulate(T)
  BY <1>1 DEF Squashed
<1>3. \A x, y \in DOMAIN m.M : tag[x] = tag[y] => x = y
  OBVIOUS
<1> HIDE DEF tag, row
<1>4. Entries(T) /\ Total(InCol(T, o)) = ColTotal(m.M, o)
  BY <1>3, RelabelledCols
<1> HIDE DEF T
<1> QED
  BY <1>2, <1>4, AccumulatedCol

\* Stacking classes, and tagging entries with a number of the matrix they are from,
\* changes no column.
LEMMA StackedColumn ==
    ASSUME NEW M, Matrix(M), NEW above, NEW k, NEW o
    PROVE  /\ Entries(Stacked(M, above, k)) /\ \A t \in Stacked(M, above, k) : t[1][1] = k
           /\ Total(InCol(Stacked(M, above, k), o)) = ColTotal(M, o)
<1> DEFINE tag == [rc \in DOMAIN M |-> <<k, rc>>]
           row == [rc \in DOMAIN M |-> <<rc[1][1], above + rc[1][2]>>]
<1>1. Stacked(M, above, k) = Relabelled(M, tag, row)
  BY DEF Stacked, Relabelled
<1>2. \A x, y \in DOMAIN M : tag[x] = tag[y] => x = y
  OBVIOUS
<1>3. \A x \in DOMAIN M : tag[x][1] = k
  OBVIOUS
<1> HIDE DEF tag, row
<1> DEFINE T == Relabelled(M, tag, row)
<1>4. Entries(T) /\ Total(InCol(T, o)) = ColTotal(M, o)
  BY <1>2, RelabelledCols
<1>5. \A t \in T : t[1][1] = k
  BY <1>3 DEF Relabelled
<1> HIDE DEF T
<1> QED
  BY <1>1, <1>4, <1>5 DEF T

\* The merge without a sheet: an O cell has the ice of the base.
LEMMA StackedAlone ==
    ASSUME NEW base, Matrix(base), NEW hcdefs, NEW o
    PROVE  LET m == MergedEOpvAOp(base, <<>>, hcdefs)
           IN  Matrix(m.M) /\ At(ColSum(m.M), o) = ColTotal(base, o)
<1> DEFINE B == Stacked(base, Len(LocalHcdefs), 0)
           none == <<>>
           L == UNION {Stacked(LocalEvA(none[i]), 0, i) : i \in DOMAIN none}
<1>1. L = {}
  OBVIOUS
<1>2. MergedEOpvAOp(base, none, hcdefs).M = Accumulate(L \cup B)
  BY DEF MergedEOpvAOp
<1>3. Entries(B) /\ Total(InCol(B, o)) = ColTotal(base, o)
  BY StackedColumn
<1> HIDE DEF L, B
<1>4. MergedEOpvAOp(base, none, hcdefs).M = Accumulate(B)
  BY <1>1, <1>2
<1> QED
  BY <1>3, <1>4, AccumulateMatrix, AccumulatedCol

\* The merge with a sheet: an O cell has the ice of the sheet and that of the base.
LEMMA StackedKeeps ==
    ASSUME NEW base, Matrix(base), NEW s, Matrix(LocalEvA(s)), NEW hcdefs, NEW o
    PROVE  LET m == MergedEOpvAOp(base, <<s>>, hcdefs)
           IN  /\ Matrix(m.M)
               /\ At(ColSum(m.M), o) = ColTotal(LocalEvA(s), o) + ColTotal(base, o)
<1> DEFINE B == Stacked(base, Len(LocalHcdefs), 0)
           L == Stacked(LocalEvA(s), 0, 1)
           one == <<s>>
           U == UNION {Stacked(LocalEvA(one[i]), 0, i) : i \in DOMAIN one}
<1>1. U = L
  <2>1. DOMAIN one = {1} /\ one[1] = s
    OBVIOUS
  <2>2. {Stacked(LocalEvA(one[i]), 0, i) : i \in DOMAIN one} = {L}
    BY <2>1
  <2> HIDE DEF L
  <2> QED
    BY <2>2
<1>2. MergedEOpvAOp(base, one, hcdefs).M = Accumulate(U \cup B)
  BY DEF MergedEOpvAOp
<1>3. /\ Entries(B) /\ (\A t \in B : t[1][1] = 0)
      /\ Total(InCol(B, o)) = ColTotal(base, o)
  BY StackedColumn
<1>4. /\ Entries(L) /\ (\A t \in L : t[1][1] = 1)
      /\ Total(InCol(L, o)) = ColTotal(LocalEvA(s), o)
  BY StackedColumn
<1> HIDE DEF B, L, U
<1>5. L \cap B = {}
  BY <1>3, <1>4
<1>6. Entries(L \cup B)
  BY <1>3, <1>4, <1>5, TotalUnion
<1>7. Total(InCol(L \cup B, o)) = ColTotal(LocalEvA(s), o) + ColTotal(base, o)
  <2> DEFINE lo == InCol(L, o)
             bo == InCol(B, o)
  <2>1. InCol(L \cup B, o) = lo \cup bo
    BY DEF InCol
  <2>2. Entries(lo) /\ Entries(bo) /\ lo \cap bo = {}
    BY <1>3, <1>4, <1>5, EntriesSubset DEF InCol
  <2>3. Total(lo) = ColTotal(LocalEvA(s), o) /\ Total(bo) = ColTotal(base, o)
    BY <1>3, <1>4
  <2> HIDE DEF lo, bo
  <2> QED
    BY <2>1, <2>2, <2>3, TotalUnion
<1>8. MergedEOpvAOp(base, one, hcdefs).M = Accumulate(L \cup B)
  BY <1>1, <1>2
<1> QED
  BY <1>6, <1>7, <1>8, AccumulateMatrix, AccumulatedCol

-----------------------------------------------------------------------------
(* Matrices from the ocean grid to the classes of the ice *)

\* Fine cells S, at[f] over each, are of the classes that w[f] has weights for.
ClassesIn(S, at, w) == UNION {{<<f, f, <<at[f], h>>, w[f][h]>> : h \in DOMAIN w[f]} : f \in S}
CellsIn(S, at) == {<<f, f, at[f], 1>> : f \in S}

\* The entry of a class of a fine cell in the matrix from O
ClassRoute(f, h, a, n) == <<<<<<f, <<a, h>>>>, <<f, a>>>>, <<a, h>>, a, n>>
RoutesAt(f, at, w) == {ClassRoute(f, h, at[f], w[f][h]) : h \in DOMAIN w[f]}
ClassRoutes(S, at, w) == UNION {RoutesAt(f, at, w) : f \in S}

\* The weights of every cell are numbers that add up to ECSkip.
Shares(S, w) ==
    /\ IsFiniteSet(S)
    /\ \A f \in S : /\ IsFiniteSet(DOMAIN w[f]) /\ \A h \in DOMAIN w[f] : w[f][h] \in Int
                    /\ Sum(w[f], DOMAIN w[f]) = ECSkip

\* The places of the classes of the cells in the matrix from the cells to them
ClassPlaces(S, at, w) == UNION {{<<f, <<at[f], h>>>> : h \in DOMAIN w[f]} : f \in S}

\* Cells and their classes lie at places of their own in the matrices.
LEMMA ClassMatrix ==
    ASSUME NEW S, NEW at, NEW w, \A f \in S : \A h \in DOMAIN w[f] : w[f][h] \in Int
    PROVE  LET B == Accumulate(ClassesIn(S, at, w))
           IN  /\ DOMAIN B = ClassPlaces(S, at, w)
               /\ \A f \in S : \A h \in DOMAIN w[f] : B[<<f, <<at[f], h>>>>] = w[f][h]
<1> DEFINE T == ClassesIn(S, at, w)
           P == UNION {{<<f, <<at[f], h>>>> : h \in DOMAIN w[f]} : f \in S}
<1>1. ASSUME NEW t \in T
      PROVE  \E f \in S : \E h \in DOMAIN w[f] : t = <<f, f, <<at[f], h>>, w[f][h]>>
  BY DEF ClassesIn
<1>2. ASSUME NEW f \in S, NEW h \in DOMAIN w[f]
      PROVE  <<f, f, <<at[f], h>>, w[f][h]>> \in T
  <2>1. <<f, f, <<at[f], h>>, w[f][h]>> \in {<<f, f, <<at[f], k>>, w[f][k]>> : k \in DOMAIN w[f]}
    OBVIOUS
  <2> QED
    BY <2>1 DEF ClassesIn
<1> HIDE DEF T
<1>3. \A t \in T : t[4] \in Int
  BY <1>1
<1>4. ASSUME NEW t \in T, NEW u \in T, t[2] = u[2], t[3] = u[3] PROVE t = u
  <2>1. PICK f \in S : \E h \in DOMAIN w[f] : t = <<f, f, <<at[f], h>>, w[f][h]>>
    BY <1>1
  <2>2. PICK h \in DOMAIN w[f] : t = <<f, f, <<at[f], h>>, w[f][h]>>
    BY <2>1
  <2>3. PICK g \in S : \E k \in DOMAIN w[g] : u = <<g, g, <<at[g], k>>, w[g][k]>>
    BY <1>1
  <2>4. PICK k \in DOMAIN w[g] : u = <<g, g, <<at[g], k>>, w[g][k]>>
    BY <2>3
  <2>5. f = g
    BY <1>4, <2>2, <2>4
  <2>6. h = k
    BY <1>4, <2>2, <2>4
  <2> QED
    BY <2>2, <2>4, <2>5, <2>6
<1>5. /\ DOMAIN Accumulate(T) = {<<t[2], t[3]>> : t \in T}
      /\ \A t \in T : Accumulate(T)[<<t[2], t[3]>>] = t[4]
  BY <1>3, <1>4, AccumulateApart
<1>6. {<<t[2], t[3]>> : t \in T} = P
  <2>1. ASSUME NEW t \in T PROVE <<t[2], t[3]>> \in P
    <3>1. PICK f \in S : \E h \in DOMAIN w[f] : t = <<f, f, <<at[f], h>>, w[f][h]>>
      BY <1>1
    <3>2. PICK h \in DOMAIN w[f] : t = <<f, f, <<at[f], h>>, w[f][h]>>
      BY <3>1
    <3> QED
      BY <3>2
  <2>2. ASSUME NEW f \in S, NEW h \in DOMAIN w[f]
        PROVE  <<f, <<at[f], h>>>> \in {<<t[2], t[3]>> : t \in T}
    <3> DEFINE u == <<f, f, <<at[f], h>>, w[f][h]>>
    <3>1. u \in T /\ <<u[2], u[3]>> = <<f, <<at[f], h>>>>
      BY <1>2
    <3> HIDE DEF u
    <3> QED
      BY <3>1
  <2> QED
    BY <2>1, <2>2
<1>7. ASSUME NEW f \in S, NEW h \in DOMAIN w[f]
      PROVE  Accumulate(T)[<<f, <<at[f], h>>>>] = w[f][h]
  <2> DEFINE u == <<f, f, <<at[f], h>>, w[f][h]>>
  <2>1. u \in T /\ u[2] = f /\ u[3] = <<at[f], h>> /\ u[4] = w[f][h]
    BY <1>2
  <2> HIDE DEF u
  <2> QED
    BY <1>5, <2>1
<1> QED
  BY <1>5, <1>6, <1>7 DEF T, ClassPlaces

\* The routes through the fine cells: every class of a cell is shared with what is over
\* the cell.
LEMMA RoutesOfClasses ==
    ASSUME NEW S, NEW at, NEW w, \A f \in S : \A h \in DOMAIN w[f] : w[f][h] \in Int,
           NEW area, \A f \in S : area[f] = 1
    PROVE  Routes(area, Accumulate(ClassesIn(S, at, w)), Accumulate(CellsIn(S, at)))
           = ClassRoutes(S, at, w)
<1> DEFINE B == Accumulate(ClassesIn(S, at, w))
           C == Accumulate(CellsIn(S, at))
<1>1. /\ DOMAIN B = ClassPlaces(S, at, w)
      /\ \A f \in S : \A h \in DOMAIN w[f] : B[<<f, <<at[f], h>>>>] = w[f][h]
  BY ClassMatrix
<1>2. C = Ones({<<f, at[f]>> : f \in S})
  BY AccumulateOnes DEF CellsIn
<1>3. DOMAIN C = {<<f, at[f]>> : f \in S} /\ \A c \in DOMAIN C : C[c] = 1
  BY <1>2 DEF Ones
<1> HIDE DEF B, C
<1>4. \A n \in Int : (n * 1) \div 1 = n
  OBVIOUS
<1>5. ASSUME NEW f \in S, NEW h \in DOMAIN w[f]
      PROVE  LET b == <<f, <<at[f], h>>>>
                 c == <<f, at[f]>>
             IN  /\ b \in DOMAIN B /\ c \in {d \in DOMAIN C : d[1] = b[1]}
                 /\ <<<<b, c>>, b[2], c[2], (B[b] * C[c]) \div area[b[1]]>>
                    = ClassRoute(f, h, at[f], w[f][h])
  <2> DEFINE b == <<f, <<at[f], h>>>>
             c == <<f, at[f]>>
  <2>1. b \in DOMAIN B /\ B[b] = w[f][h] /\ w[f][h] \in Int
    <3>1. b \in {<<f, <<at[f], k>>>> : k \in DOMAIN w[f]}
      OBVIOUS
    <3> QED
      BY <1>1, <3>1 DEF ClassPlaces
  <2>2. c \in DOMAIN C /\ C[c] = 1 /\ c[1] = f /\ b[1] = f /\ area[f] = 1
    BY <1>3
  <2>3. (B[b] * C[c]) \div area[b[1]] = w[f][h]
    BY <1>4, <2>1, <2>2
  <2>4. b[2] = <<at[f], h>> /\ c[2] = at[f]
    OBVIOUS
  <2> QED
    BY <2>1, <2>2, <2>3, <2>4 DEF ClassRoute
<1>6. ASSUME NEW t \in Routes(area, B, C) PROVE t \in ClassRoutes(S, at, w)
  <2>1. PICK b \in DOMAIN B : \E c \in {d \in DOMAIN C : d[1] = b[1]} :
            t = <<<<b, c>>, b[2], c[2], (B[b] * C[c]) \div area[b[1]]>>
    BY <1>6 DEF Routes
  <2>2. PICK c \in {d \in DOMAIN C : d[1] = b[1]} :
            t = <<<<b, c>>, b[2], c[2], (B[b] * C[c]) \div area[b[1]]>>
    BY <2>1
  <2>3. PICK f \in S : b \in {<<f, <<at[f], h>>>> : h \in DOMAIN w[f]}
    BY <1>1 DEF ClassPlaces
  <2>4. PICK h \in DOMAIN w[f] : b = <<f, <<at[f], h>>>>
    BY <2>3
  <2>5. c = <<f, at[f]>>
    BY <1>3, <2>4
  <2>6. t = ClassRoute(f, h, at[f], w[f][h])
    BY <1>5, <2>2, <2>4, <2>5
  <2>7. t \in RoutesAt(f, at, w)
    BY <2>6 DEF RoutesAt
  <2> QED
    BY <2>7 DEF ClassRoutes
<1>7. ASSUME NEW t \in ClassRoutes(S, at, w) PROVE t \in Routes(area, B, C)
  <2>1. PICK f \in S : t \in RoutesAt(f, at, w)
    BY <1>7 DEF ClassRoutes
  <2>2. PICK h \in DOMAIN w[f] : t = ClassRoute(f, h, at[f], w[f][h])
    BY <2>1 DEF RoutesAt
  <2> DEFINE b == <<f, <<at[f], h>>>>
             c == <<f, at[f]>>
  <2>3. /\ b \in DOMAIN B /\ c \in {d \in DOMAIN C : d[1] = b[1]}
        /\ t = <<<<b, c>>, b[2], c[2], (B[b] * C[c]) \div area[b[1]]>>
    BY <1>5, <2>2
  <2> HIDE DEF b, c
  <2> QED
    BY <2>3 DEF Routes
<1> QED
  BY <1>6, <1>7 DEF B, C

\* What the classes of the cells have in a column: ECSkip for every cell under it
LEMMA ClassColumn ==
    ASSUME NEW S, NEW at, NEW w, Shares(S, w), NEW o
    PROVE  /\ Entries(ClassRoutes(S, at, w))
           /\ Total(InCol(ClassRoutes(S, at, w), o))
              = ECSkip * Cardinality({f \in S : at[f] = o})
<1> DEFINE R == ClassRoutes(S, at, w)
           A == {f \in S : at[f] = o}
           T == InCol(R, o)
           cell == [t \in T |-> t[1][1][1]]
<1>1. IsFiniteSet(S) /\ IsFiniteSet(A) /\ A \subseteq S
  BY FS_Subset DEF Shares
<1>2. ASSUME NEW f \in S
      PROVE  /\ Entries(RoutesAt(f, at, w)) /\ Total(RoutesAt(f, at, w)) = ECSkip
             /\ \A t \in RoutesAt(f, at, w) : t[1][1][1] = f /\ t[3] = at[f]
  <2> DEFINE D == DOMAIN w[f]
             name == [h \in D |-> ClassRoute(f, h, at[f], w[f][h])]
             K == RoutesAt(f, at, w)
             g == [t \in K |-> t[4]]
             v == w[f]
  <2>1. IsFiniteSet(D) /\ (\A h \in D : v[h] \in Int) /\ Sum(v, D) = ECSkip
    BY DEF Shares
  <2>2. K = {name[h] : h \in D}
    BY DEF RoutesAt
  <2>3. \A h \in D : /\ name[h][1][1][1] = f /\ name[h][1][1][2][2] = h
                     /\ name[h][3] = at[f] /\ name[h][4] = v[h]
    BY DEF ClassRoute
  <2> HIDE DEF name, K, D, v
  <2>4. IsFiniteSet(K)
    BY <2>1, <2>2, ImageFinite
  <2>5. \A t \in K : t[4] \in Int /\ t[1][1][1] = f /\ t[3] = at[f]
    BY <2>1, <2>2, <2>3
  <2>6. \A h \in D : name[h] \in K /\ g[name[h]] = v[h]
    BY <2>2, <2>3
  <2>7. \A i, j \in D : name[i] = name[j] => i = j
    BY <2>3
  <2>8. \A t \in K : \E h \in D : name[h] = t
    BY <2>2
  <2> HIDE DEF g
  <2>9. Sum(v, D) = Sum(g, K)
    <3>1. Ints(v, D)
      BY <2>1 DEF Ints
    <3> QED
      BY <2>1, <2>4, <2>6, <2>7, <2>8, <3>1, SumRename
  <2> QED
    BY <2>1, <2>4, <2>5, <2>9 DEF Entries, Total, g, K
<1>3. Entries(R)
  <2> DEFINE g == [f \in S |-> RoutesAt(f, at, w)]
  <2>1. R = UNION {g[f] : f \in S} /\ \A f \in S : Entries(g[f])
    BY <1>2 DEF ClassRoutes
  <2> HIDE DEF g, R
  <2>2. IsFiniteSet({g[f] : f \in S}) /\ \A G \in {g[f] : f \in S} : IsFiniteSet(G)
    BY <1>1, <2>1, ImageFinite DEF Entries
  <2>3. IsFiniteSet(R)
    BY <2>1, <2>2, FS_UNION
  <2> QED
    BY <2>1, <2>3 DEF Entries
<1>4. \A t \in T : cell[t] \in A /\ t \in RoutesAt(cell[t], at, w)
  <2> SUFFICES ASSUME NEW t \in T PROVE cell[t] \in A /\ t \in RoutesAt(cell[t], at, w)
    OBVIOUS
  <2>1. t \in R /\ t[3] = o
    BY DEF InCol
  <2>2. PICK f \in S : t \in RoutesAt(f, at, w)
    BY <2>1 DEF ClassRoutes
  <2>3. t[1][1][1] = f /\ t[3] = at[f]
    BY <1>2, <2>2
  <2> QED
    BY <2>1, <2>2, <2>3
<1>5. \A f \in A : {t \in T : cell[t] = f} = RoutesAt(f, at, w)
  <2> SUFFICES ASSUME NEW f \in A PROVE {t \in T : cell[t] = f} = RoutesAt(f, at, w)
    OBVIOUS
  <2>1. ASSUME NEW t \in RoutesAt(f, at, w) PROVE t \in T /\ cell[t] = f
    <3>1. t[1][1][1] = f /\ t[3] = o
      BY <1>2
    <3>2. t \in R
      BY DEF ClassRoutes
    <3>3. t \in T
      BY <3>1, <3>2 DEF InCol
    <3> QED
      BY <3>1, <3>3
  <2> HIDE DEF T, cell
  <2> QED
    BY <1>4, <2>1
<1>6. Entries(T)
  <2>1. T \in SUBSET R
    BY DEF InCol
  <2> HIDE DEF T, R
  <2> QED
    BY <1>3, <2>1, EntriesSubset
<1> HIDE DEF cell, T
<1>7. Total(T) = Sum([f \in A |-> Total({t \in T : cell[t] = f})], A)
  <2> HIDE DEF A
  <2> QED
    BY <1>1, <1>4, <1>6, TotalPartition
<1>8. Sum([f \in A |-> Total({t \in T : cell[t] = f})], A) = ECSkip * Cardinality(A)
  <2> DEFINE g == [f \in A |-> Total({t \in T : cell[t] = f})]
  <2>1. \A f \in A : g[f] = ECSkip
    BY <1>1, <1>2, <1>5
  <2>2. ECSkip \in Int
    BY GlobalECAssumption
  <2> HIDE DEF g, A
  <2>3. Sum(g, A) = ECSkip * Cardinality(A)
    BY <1>1, <2>1, <2>2, SumConst
  <2> QED
    BY <2>3 DEF g
<1> QED
  BY <1>3, <1>7, <1>8 DEF T, A, R

\* The classes of the global and of the local ice lie ECSkip apart.
LEMMA ClassesApart ==
    /\ Elevations(LocalHcdefs) /\ Spacing(LocalHcdefs) = ECSkip
    /\ \A e : IceFile(e) /\ Len(Hcdefs(e)) >= 2 => Spacing(Hcdefs(e)) = ECSkip
<1>1. Elevations(LocalHcdefs)
  BY LocalLadder DEF Elevations
<1>2. Spacing(LocalHcdefs) = ECSkip
  <2>1. 2 \in 2..Len(LocalHcdefs)
    BY LocalLadder
  <2> QED
    BY <2>1, LocalHcdefsAssumption DEF Spacing
<1>3. ASSUME NEW e, IceFile(e), Len(Hcdefs(e)) >= 2 PROVE Spacing(Hcdefs(e)) = ECSkip
  <2> DEFINE hc == Hcdefs(e)
  <2>1. ECSkip \in Int
    BY GlobalECAssumption
  <2>2. CASE e.fgice = {}
    <3>1. ECRange(e) = <<10000, -10000>>
      BY <2>2 DEF ECRange
    <3>2. Len(hc) = 0
      BY <3>1 DEF Hcdefs
    <3> QED
      BY <1>3, <3>2
  <2>3. CASE e.fgice # {}
    <3>1. /\ Len(hc) \in Nat \ {0} /\ \A h \in 1..Len(hc) : hc[h] = hc[1] + (h - 1) * ECSkip
      BY <1>3, <2>3, HcdefsSpan
    <3>2. hc[1] \in Int
      BY <1>3, <3>1, HcdefsIn DEF Elevations
    <3>3. 2 \in 1..Len(hc)
      BY <1>3, <3>1
    <3>4. hc[2] = hc[1] + (2 - 1) * ECSkip
      BY <3>1, <3>3
    <3> HIDE DEF hc
    <3> QED
      BY <2>1, <3>2, <3>4 DEF Spacing, hc
  <2> QED
    BY <2>2, <2>3
<1> QED
  BY <1>1, <1>2, <1>3

\* The weights of an elevation that the classes span
LEMMA WeightsShared ==
    ASSUME NEW hc, Elevations(hc), NEW z \in Int, ~OutOfBounds(hc, z), Spacing(hc) = ECSkip
    PROVE  LET w == ClassWeights(hc, "Z_INTERP", z)
           IN  /\ IsFiniteSet(DOMAIN w) /\ \A h \in DOMAIN w : w[h] \in Int
               /\ Sum(w, DOMAIN w) = ECSkip
BY InterpolatedIn DEF ClassWeights

-----------------------------------------------------------------------------
(* The ice in the columns *)

\* A matrix from O to the classes of some cells has ECSkip for every cell in a column.
LEMMA IceColumn ==
    ASSUME NEW S, NEW at, NEW w, Shares(S, w), NEW area, \A f \in S : area[f] = 1, NEW o
    PROVE  LET M == Accumulate(Routes(area, Accumulate(ClassesIn(S, at, w)),
                                      Accumulate(CellsIn(S, at))))
           IN  /\ Matrix(M)
               /\ ColTotal(M, o) = ECSkip * Cardinality({f \in S : at[f] = o})
<1> DEFINE R == ClassRoutes(S, at, w)
           Q == Routes(area, Accumulate(ClassesIn(S, at, w)), Accumulate(CellsIn(S, at)))
<1>1. \A f \in S : \A h \in DOMAIN w[f] : w[f][h] \in Int
  BY DEF Shares
<1>2. Q = R
  BY <1>1, RoutesOfClasses
<1>3. Entries(R) /\ Total(InCol(R, o)) = ECSkip * Cardinality({f \in S : at[f] = o})
  BY ClassColumn
<1> HIDE DEF R, Q
<1>4. Matrix(Accumulate(R)) /\ At(ColSum(Accumulate(R)), o) = Total(InCol(R, o))
  BY <1>3, AccumulateMatrix, AccumulatedCol
<1>5. At(ColSum(Accumulate(R)), o) = ColTotal(Accumulate(R), o)
  BY ColWeight
<1> QED
  BY <1>2, <1>3, <1>4, <1>5 DEF Q

\* Away from extrapolation, ice has a positive weight in each of its classes.
LEMMA InterpolatedPositive ==
    ASSUME NEW hc, Elevations(hc), NEW z \in Int, ~OutOfBounds(hc, z), hc[1] <= z,
           \A h \in 1..Len(hc) : hc[h] = hc[1] + (h - 1) * ECSkip
    PROVE  \A h \in DOMAIN Interpolated(hc, z) :
              Interpolated(hc, z)[h] \in Nat \ {0} /\ h \in 1..Len(hc)
<1> DEFINE n == Len(hc)
           b == LowerBound(hc, z)
           L == {h \in DOMAIN hc : hc[h] >= z} \cup {n + 1}
<1>1. n \in Nat /\ n >= 2 /\ DOMAIN hc = 1..n /\ \A h \in 1..n : hc[h] \in Int
  BY DEF Elevations, OutOfBounds
<1>2. b \in L
  <2>1. L \in SUBSET Int /\ L # {} /\ \A h \in L : 1 <= h
    BY <1>1
  <2>2. b = Min(L)
    BY DEF LowerBound
  <2>3. 1 \in Int
    OBVIOUS
  <2> HIDE DEF L, b, n
  <2> QED
    BY <2>1, <2>2, <2>3, MinBounded
<1>3. ~(b > n)
  BY DEF OutOfBounds
<1> HIDE DEF b
<1>4. b \in 1..n /\ hc[b] >= z
  <2>1. b # n + 1
    BY <1>1, <1>3
  <2> QED
    BY <1>1, <1>2, <2>1
<1> HIDE DEF L, n
<1>5. z <= hc[n]
  <2> DEFINE d == n - b
             x == b - 1
  <2>1. d \in Nat /\ x \in Nat /\ n - 1 = x + d /\ n \in 1..n /\ ECSkip \in Nat
    BY <1>1, <1>4, GlobalECAssumption
  <2>2. hc[n] = hc[1] + (n - 1) * ECSkip /\ hc[b] = hc[1] + (b - 1) * ECSkip
    BY <1>4, <2>1 DEF n
  <2> HIDE DEF d, x
  <2>3. (x + d) * ECSkip = x * ECSkip + d * ECSkip /\ d * ECSkip \in Nat /\ x * ECSkip \in Nat
    BY <2>1
  <2>4. hc[n] = hc[1] + (x + d) * ECSkip /\ hc[b] = hc[1] + x * ECSkip
    BY <2>1, <2>2 DEF x
  <2>5. hc[1] \in Int /\ hc[n] \in Int /\ hc[b] \in Int /\ 1 \in 1..n
    BY <1>1, <1>4
  <2> DEFINE xe == x * ECSkip
             de == d * ECSkip
             xde == (x + d) * ECSkip
  <2>6. xde = xe + de /\ de \in Nat /\ xe \in Nat
    BY <2>3
  <2>7. hc[n] = hc[1] + xde /\ hc[b] = hc[1] + xe
    BY <2>4
  <2> HIDE DEF xe, de, xde
  <2> QED
    BY <1>4, <2>5, <2>6, <2>7
<1>6. \A h \in DOMAIN Interpolated(hc, z) : Interpolated(hc, z)[h] \in Nat
  BY <1>1, <1>5, InterpolatedNat DEF n
<1> DEFINE h == Max({b, 2})
           ratio == z - hc[h - 1]
           w == [k \in {h - 1, h} |-> IF k = h THEN ratio ELSE Spacing(hc) - ratio]
<1>7. h \in 2..n
  <2> DEFINE B == {b, 2}
  <2>1. B \in SUBSET Int /\ B # {} /\ \A y \in B : y <= n
    BY <1>1, <1>4
  <2>2. n \in Int
    BY <1>1
  <2> HIDE DEF B
  <2>3. Max(B) \in B /\ \A y \in B : y <= Max(B)
    BY <2>1, <2>2, MaxBounded
  <2> QED
    BY <1>1, <1>4, <2>3 DEF B
<1>8. Interpolated(hc, z) = Restrict(w, {k \in DOMAIN w : w[k] # 0})
  BY DEF Interpolated, b
<1>9. DOMAIN w = {h - 1, h}
  OBVIOUS
<1> HIDE DEF h, w
<1>10. \A k \in DOMAIN Interpolated(hc, z) : k \in {h - 1, h} /\ Interpolated(hc, z)[k] # 0
  BY <1>8, <1>9 DEF Restrict
<1> QED
  BY <1>1, <1>6, <1>7, <1>10 DEF n

\* An entry between an O cell and a class of its own, one of n
ClassPlace(rc, n) ==
    rc[2] \in OCells /\ rc[1][2] \in 1..n /\ rc = <<<<rc[2], rc[1][2]>>, rc[2]>>

\* A matrix from O to n classes of ice: all of its entries are positive.  T is such
\* before entries at one place are added up.
IceClasses(M, n) ==
    IsFiniteSet(DOMAIN M) /\ \A rc \in DOMAIN M : M[rc] \in Nat \ {0} /\ ClassPlace(rc, n)
EntriesClassed(T, n) ==
    IsFiniteSet(T) /\ \A t \in T : t[4] \in Nat \ {0} /\ ClassPlace(<<t[2], t[3]>>, n)

\* Positive entries add up to positive ones.
LEMMA AccumulateClasses ==
    ASSUME NEW T, NEW n, EntriesClassed(T, n)
    PROVE  IceClasses(Accumulate(T), n)
<1>1. IsFiniteSet(T) /\ IsFiniteSet(DOMAIN Accumulate(T))
  BY PlacesFinite DEF EntriesClassed
<1>2. Accumulate(T) = Tally(T, PlaceOf(T))
  BY AccumulateTally
<1>3. ASSUME NEW rc \in DOMAIN Accumulate(T)
      PROVE  Accumulate(T)[rc] \in Nat \ {0} /\ ClassPlace(rc, n)
  <2> DEFINE A == {t \in T : PlaceOf(T)[t] = rc}
             f == [t \in A |-> t[4]]
  <2>1. PICK u \in T : PlaceOf(T)[u] = rc
    BY <1>2 DEF Tally
  <2>2. Accumulate(T)[rc] = Sum(f, A)
    BY <1>2 DEF Tally, Total
  <2>3. IsFiniteSet(A) /\ \A t \in A : f[t] \in Nat
    BY <1>1, FS_Subset DEF EntriesClassed
  <2>4. u \in A /\ f[u] \in Nat \ {0} /\ rc = <<u[2], u[3]>>
    BY <2>1 DEF EntriesClassed, PlaceOf
  <2>5. ClassPlace(rc, n)
    BY <2>4 DEF EntriesClassed
  <2> HIDE DEF A, f
  <2>6. Sum(f, A) \in Nat /\ f[u] <= Sum(f, A)
    BY <2>3, <2>4, SumNat
  <2> QED
    BY <2>2, <2>4, <2>5, <2>6
<1> QED
  BY <1>1, <1>3 DEF IceClasses

\* Fine cells S lie in O cells, at[f] over each, and have positive weights in classes.
WeightsIn(S, at, w, n) ==
    \A f \in S : at[f] \in OCells /\ \A h \in DOMAIN w[f] : w[f][h] \in Nat \ {0} /\ h \in 1..n

\* The matrix from O to the classes of fine cells has the classes of the cells.
LEMMA ClassesOfCells ==
    ASSUME NEW S, NEW at, NEW w, Shares(S, w), NEW area, \A f \in S : area[f] = 1,
           NEW n, WeightsIn(S, at, w, n)
    PROVE  IceClasses(Accumulate(Routes(area, Accumulate(ClassesIn(S, at, w)),
                                        Accumulate(CellsIn(S, at)))), n)
<1> DEFINE R == ClassRoutes(S, at, w)
           Q == Routes(area, Accumulate(ClassesIn(S, at, w)), Accumulate(CellsIn(S, at)))
<1>1. \A f \in S : \A h \in DOMAIN w[f] : w[f][h] \in Int
  BY DEF Shares
<1>2. Q = R
  BY <1>1, RoutesOfClasses
<1>3. Entries(R)
  BY ClassColumn
<1>4. ASSUME NEW t \in R PROVE t[4] \in Nat \ {0} /\ ClassPlace(<<t[2], t[3]>>, n)
  <2>1. PICK f \in S : t \in RoutesAt(f, at, w)
    BY DEF ClassRoutes
  <2>2. PICK h \in DOMAIN w[f] : t = ClassRoute(f, h, at[f], w[f][h])
    BY <2>1 DEF RoutesAt
  <2>3. t[2] = <<at[f], h>> /\ t[3] = at[f] /\ t[4] = w[f][h]
    BY <2>2 DEF ClassRoute
  <2>4. at[f] \in OCells /\ w[f][h] \in Nat \ {0} /\ h \in 1..n
    BY DEF WeightsIn
  <2> QED
    BY <2>3, <2>4 DEF ClassPlace
<1> HIDE DEF R, Q
<1>5. EntriesClassed(R, n)
  BY <1>3, <1>4 DEF EntriesClassed, Entries
<1> QED
  BY <1>2, <1>5, AccumulateClasses DEF Q

\* The local classes are ECSkip apart.
LEMMA LocalSteps ==
    \A h \in 1..Len(LocalHcdefs) : LocalHcdefs[h] = LocalHcdefs[1] + (h - 1) * ECSkip
<1> DEFINE L == Len(LocalHcdefs)
           hc == LocalHcdefs
           Bad == {h \in 1..L : hc[h] # hc[1] + (h - 1) * ECSkip}
<1>1. L \in Nat /\ L >= 2 /\ \A h \in 1..L : hc[h] \in Int
  BY LocalLadder
<1>2. ECSkip \in Nat /\ \A h \in 2..L : hc[h] - hc[h - 1] = ECSkip
  BY LocalHcdefsAssumption, GlobalECAssumption
<1> HIDE DEF L, hc
<1>3. ASSUME Bad # {} PROVE FALSE
  <2>1. PICK h \in Bad : \A k \in Bad : h <= k
    <3>1. Bad \in SUBSET Nat
      BY <1>1
    <3> HIDE DEF Bad
    <3> QED
      BY <1>3, <3>1, LeastNat
  <2>2. h \in 1..L /\ hc[h] # hc[1] + (h - 1) * ECSkip
    OBVIOUS
  <2>3. h # 1
    <3>1. (1 - 1) * ECSkip = 0 /\ hc[1] \in Int
      BY <1>1, <1>2
    <3> QED
      BY <2>2, <3>1
  <2> DEFINE k == h - 1
             ke == (k - 1) * ECSkip
             he == (h - 1) * ECSkip
  <2>4. k \in 1..L /\ h \in 2..L /\ k \notin Bad
    BY <1>1, <2>1, <2>2, <2>3
  <2>5. hc[k] = hc[1] + ke /\ hc[h] - hc[k] = ECSkip
    BY <1>2, <2>4
  <2>6. he = ke + ECSkip /\ ke \in Int
    BY <1>2, <2>4
  <2>7. hc[h] \in Int /\ hc[k] \in Int /\ hc[1] \in Int
    BY <1>1, <2>4
  <2>8. hc[h] # hc[1] + he
    BY <2>2
  <2> HIDE DEF k, ke, he
  <2> QED
    BY <1>2, <2>5, <2>6, <2>7, <2>8
<1> QED
  BY <1>3 DEF L, hc

\* The column of an O cell in the matrix of all the global ice
LEMMA GlobalIce ==
    ASSUME NEW e, IceFile(e), GridOption = "ocean", Classed(e, e.fgice), NEW o \in OCells
    PROVE  LET M == IceMatrix("EvA", ElevmaskOf(e, e.fgice), Hcdefs(e)).M
           IN  /\ Matrix(M) /\ IceClasses(M, Len(Hcdefs(e)))
               /\ ColTotal(M, o) = ECSkip * CountIn(o, e.fgice)
<1> DEFINE S == e.fgice
           at == [f \in S |-> OofF(f)]
           w == [f \in S |-> ClassesAt(e, f)]
           area == UnitArea(S)
<1>1. S \in SUBSET S /\ S \subseteq Fine /\ IsFiniteSet(S)
  BY IceFinite, FS_Subset DEF IceFile
<1>2. ASSUME NEW f \in S
      PROVE  /\ IsFiniteSet(DOMAIN w[f]) /\ \A h \in DOMAIN w[f] : w[f][h] \in Int
             /\ Sum(w[f], DOMAIN w[f]) = ECSkip
             /\ \A h \in DOMAIN w[f] : w[f][h] \in Nat \ {0} /\ h \in 1..Len(Hcdefs(e))
  <2> DEFINE hc == Hcdefs(e)
             z == Max({e.ztop[f], 0})
  <2>1. z \in Int /\ e.ztop[f] \in Int /\ e.ztop[f] <= z
    BY LevelIn DEF LevelOf
  <2>2. ~OutOfBounds(hc, z)
    BY DEF Classed
  <2>3. Elevations(hc)
    BY HcdefsIn
  <2>4. Spacing(hc) = ECSkip
    <3>1. Len(hc) >= 2
      BY <2>2, <2>3 DEF OutOfBounds, Elevations
    <3> QED
      BY <3>1, ClassesApart
  <2>5. w[f] = ClassWeights(hc, "Z_INTERP", z)
    BY DEF ClassesAt
  <2>6. /\ \A h \in 1..Len(hc) : hc[h] = hc[1] + (h - 1) * ECSkip
        /\ Len(hc) \in Nat \ {0} /\ hc[1] <= e.ztop[f]
    BY HcdefsSpan
  <2> HIDE DEF hc, z, w
  <2>7. hc[1] <= z
    <3>1. hc[1] \in Int
      BY <2>3, <2>6 DEF Elevations
    <3> QED
      BY <2>1, <2>6, <3>1
  <2>8. \A h \in DOMAIN Interpolated(hc, z) :
            Interpolated(hc, z)[h] \in Nat \ {0} /\ h \in 1..Len(hc)
    BY <2>1, <2>2, <2>3, <2>6, <2>7, InterpolatedPositive
  <2>9. w[f] = Interpolated(hc, z)
    BY <2>5 DEF ClassWeights
  <2> QED
    BY <2>1, <2>2, <2>3, <2>4, <2>5, <2>8, <2>9, WeightsShared DEF hc
<1>3. Shares(S, w)
  BY <1>1, <1>2 DEF Shares
<1>4. ClassEntries(e, S) = ClassesIn(S, at, w)
  <2>1. \A f \in S : GCMCell(f) = at[f] /\ ClassesAt(e, f) = w[f]
    BY DEF GCMCell
  <2>2. \A f \in S : \A h \in DOMAIN w[f] : 1 * w[f][h] = w[f][h]
    <3> HIDE DEF w, S
    <3>1. \A f \in S : \A h \in DOMAIN w[f] : w[f][h] \in Int
      BY <1>2
    <3> QED
      BY <3>1
  <2> HIDE DEF at, w, S
  <2>3. ASSUME NEW f \in S
        PROVE  {<<f, f, <<GCMCell(f), h>>, 1 * ClassesAt(e, f)[h]>> : h \in DOMAIN ClassesAt(e, f)}
               = {<<f, f, <<at[f], h>>, w[f][h]>> : h \in DOMAIN w[f]}
    BY <2>1, <2>2
  <2> QED
    BY <2>3 DEF ClassEntries, ClassesIn
<1>5. CellEntries(S) = CellsIn(S, at)
  BY DEF CellEntries, CellsIn, GCMCell
<1>6. \A f \in S : area[f] = 1
  BY DEF UnitArea
<1>7. IceMatrix("EvA", ElevmaskOf(e, S), Hcdefs(e)) = Weighed(RoutesOf("EvA", e, S))
  BY IceMatrixRoutes DEF Names
<1>8. RoutesOf("EvA", e, S)
      = Routes(area, Accumulate(ClassesIn(S, at, w)), Accumulate(CellsIn(S, at)))
  BY <1>4, <1>5 DEF RoutesOf, EntriesOf, LeftOf, RightOf
<1>9. IceMatrix("EvA", ElevmaskOf(e, S), Hcdefs(e)).M = Accumulate(RoutesOf("EvA", e, S))
  BY <1>7, AccumulateTally DEF Weighed
<1>10. {f \in S : at[f] = o} = FineOf(o) \cap S
  BY <1>1, FineCells
<1>11. WeightsIn(S, at, w, Len(Hcdefs(e)))
  <2>1. \A f \in S : at[f] \in OCells
    BY <1>1 DEF Fine, OCells, OofF
  <2> QED
    BY <1>2, <2>1 DEF WeightsIn
<1> HIDE DEF at, w, area
<1>12. /\ Matrix(Accumulate(RoutesOf("EvA", e, S)))
       /\ ColTotal(Accumulate(RoutesOf("EvA", e, S)), o)
          = ECSkip * Cardinality({f \in S : at[f] = o})
  BY <1>3, <1>6, <1>8, IceColumn
<1>13. IceClasses(Accumulate(RoutesOf("EvA", e, S)), Len(Hcdefs(e)))
  BY <1>3, <1>6, <1>8, <1>11, ClassesOfCells
<1> QED
  BY <1>9, <1>10, <1>12, <1>13 DEF CountIn

\* The column of an O cell in the matrix of a local sheet
LEMMA LocalIce ==
    ASSUME NEW s, NEW G \in SUBSET Fine, s.x = SheetGrid(G), DOMAIN s.ice \subseteq G,
           \A f \in DOMAIN s.ice : s.ice[f] \in Int,
           ~GvEpFails(s.x, s.ice, LocalHcdefs, "Z_INTERP"), NEW o \in OCells
    PROVE  /\ Matrix(LocalEvA(s))
           /\ LocalClassesLow => IceClasses(LocalEvA(s), Len(LocalHcdefs))
           /\ ColTotal(LocalEvA(s), o)
              = ECSkip * Cardinality({f \in DOMAIN s.ice : OofF(f) = o})
<1> DEFINE S == DOMAIN s.ice
           at == [f \in S |-> OofF(f)]
           z(f) == Max({s.ice[f], 0})
           w == [f \in S |-> ClassWeights(LocalHcdefs, "Z_INTERP", z(f))]
<1>1. S \subseteq Fine /\ IsFiniteSet(S)
  <2>1. S \subseteq Fine
    OBVIOUS
  <2> QED
    BY <2>1, IceFinite, FS_Subset
<1>2. /\ UsedX(s.x, s.ice) = S /\ \A f \in G : s.x.area[f] = 1
      /\ GvAp(s.x, s.ice) = Ones({<<f, OofF(f)>> : f \in S})
  BY SheetMatrices
<1>3. \A f \in S : s.x.a[f] = OofF(f) /\ s.x.i[f] = f /\ s.x.area[f] = 1
  BY DEF SheetGrid, ExchangeGrid
<1>4. ASSUME NEW f \in S PROVE z(f) \in Int /\ ~OutOfBounds(LocalHcdefs, z(f)) /\ 0 <= z(f)
  <2> DEFINE n == s.ice[f]
  <2>0. n \in Int
    OBVIOUS
  <2> HIDE DEF n
  <2>1. {n, 0} \in SUBSET Int /\ {n, 0} # {}
    BY <2>0
  <2>1a. IsFiniteSet({n, 0})
    BY PairFinite
  <2>2. Max({n, 0}) \in {n, 0} /\ 0 <= Max({n, 0})
    BY <2>1, <2>1a, MinMaxIn
  <2>3. z(f) = Max({n, 0}) /\ s.x.i[f] = f
    BY <1>3 DEF n
  <2>4. ~OutOfBounds(LocalHcdefs, Max({s.ice[s.x.i[f]], 0}))
    <3>1. f \in UsedX(s.x, s.ice)
      BY <1>2
    <3> QED
      BY <3>1 DEF GvEpFails
  <2>5. ~OutOfBounds(LocalHcdefs, z(f))
    BY <2>3, <2>4 DEF n
  <2> QED
    BY <2>0, <2>2, <2>3, <2>5
<1>5. ASSUME NEW f \in S
      PROVE  /\ IsFiniteSet(DOMAIN w[f]) /\ \A h \in DOMAIN w[f] : w[f][h] \in Int
             /\ Sum(w[f], DOMAIN w[f]) = ECSkip
  <2>1. w[f] = ClassWeights(LocalHcdefs, "Z_INTERP", z(f)) /\ z(f) \in Int
        /\ ~OutOfBounds(LocalHcdefs, z(f))
    BY <1>4
  <2> HIDE DEF z, w
  <2> QED
    BY <2>1, ClassesApart, WeightsShared
<1>6. Shares(S, w)
  BY <1>1, <1>5 DEF Shares
<1>7. GvEp(s.x, s.ice, LocalHcdefs, "Z_INTERP") = Accumulate(ClassesIn(S, at, w))
  <2> DEFINE cw(c) == ClassWeights(LocalHcdefs, "Z_INTERP", Max({s.ice[s.x.i[c]], 0}))
  <2>1. \A f \in S : cw(f) = w[f] /\ s.x.a[f] = at[f] /\ s.x.area[f] = 1
    BY <1>3
  <2>2. \A f \in S : \A h \in DOMAIN w[f] : 1 * w[f][h] = w[f][h]
    <3> HIDE DEF w, S
    <3> QED
      BY <1>5
  <2>3. GvEp(s.x, s.ice, LocalHcdefs, "Z_INTERP")
        = Accumulate(UNION {{<<c, c, <<s.x.a[c], h>>, s.x.area[c] * cw(c)[h]>> :
                                h \in DOMAIN cw(c)} : c \in S})
    BY <1>2 DEF GvEp
  <2> HIDE DEF at, w, S, cw
  <2>4. ASSUME NEW f \in S
        PROVE  {<<f, f, <<s.x.a[f], h>>, s.x.area[f] * cw(f)[h]>> : h \in DOMAIN cw(f)}
               = {<<f, f, <<at[f], h>>, w[f][h]>> : h \in DOMAIN w[f]}
    BY <2>1, <2>2
  <2>5. UNION {{<<c, c, <<s.x.a[c], h>>, s.x.area[c] * cw(c)[h]>> :
                                h \in DOMAIN cw(c)} : c \in S} = ClassesIn(S, at, w)
    BY <2>4 DEF ClassesIn
  <2> QED
    BY <2>3, <2>5
<1>8. GvAp(s.x, s.ice) = Accumulate(CellsIn(S, at))
  <2>1. {<<f, OofF(f)>> : f \in S} = {<<f, at[f]>> : f \in S}
    OBVIOUS
  <2> HIDE DEF at, S
  <2>2. Accumulate(CellsIn(S, at)) = Ones({<<f, at[f]>> : f \in S})
    BY AccumulateOnes DEF CellsIn
  <2> QED
    BY <1>2, <2>1, <2>2
<1>9. LocalEvA(s) = Accumulate(Routes(s.x.area, Accumulate(ClassesIn(S, at, w)),
                                      Accumulate(CellsIn(S, at))))
  <2>1. LocalEvA(s) = Through(s.x, GvEp(s.x, s.ice, LocalHcdefs, "Z_INTERP"),
                              GvAp(s.x, s.ice))
    BY DEF LocalEvA, EvA
  <2> HIDE DEF at, w, S
  <2> QED
    BY <1>7, <1>8, <2>1, ThroughRoutes
<1>10. {f \in S : at[f] = o} = {f \in S : OofF(f) = o}
  OBVIOUS
<1>11. ASSUME LocalClassesLow PROVE WeightsIn(S, at, w, Len(LocalHcdefs))
  <2>1. \A f \in S : at[f] \in OCells
    BY <1>1 DEF Fine, OCells, OofF
  <2>2. ASSUME NEW f \in S
        PROVE  \A h \in DOMAIN w[f] : w[f][h] \in Nat \ {0} /\ h \in 1..Len(LocalHcdefs)
    <3> DEFINE y == z(f)
    <3>1. y \in Int /\ ~OutOfBounds(LocalHcdefs, y) /\ 0 <= y
      BY <1>4
    <3>2. w[f] = Interpolated(LocalHcdefs, y)
      BY DEF ClassWeights
    <3> HIDE DEF y, w
    <3>3. LocalHcdefs[1] <= y
      <4>1. LocalHcdefs[1] \in Int
        BY LocalLadder
      <4> QED
        BY <1>11, <3>1, <4>1 DEF LocalClassesLow
    <3> QED
      BY <3>1, <3>2, <3>3, ClassesApart, LocalSteps, InterpolatedPositive
  <2> QED
    BY <2>1, <2>2 DEF WeightsIn
<1> HIDE DEF at, w, S
<1>12. /\ Matrix(LocalEvA(s))
       /\ ColTotal(LocalEvA(s), o) = ECSkip * Cardinality({f \in S : at[f] = o})
  BY <1>3, <1>6, <1>9, IceColumn
<1>13. LocalClassesLow => IceClasses(LocalEvA(s), Len(LocalHcdefs))
  BY <1>3, <1>6, <1>9, <1>11, ClassesOfCells
<1> QED
  BY <1>10, <1>12, <1>13 DEF S

\* Stacking shifts the classes.
LEMMA StackedClasses ==
    ASSUME NEW M, NEW n \in Nat, IceClasses(M, n), NEW above \in Nat, NEW k,
           NEW N \in Nat, above + n <= N
    PROVE  EntriesClassed(Stacked(M, above, k), N)
<1> DEFINE entry == [rc \in DOMAIN M |-> <<<<k, rc>>, <<rc[1][1], above + rc[1][2]>>, rc[2], M[rc]>>]
           T == Stacked(M, above, k)
<1>1. T = {entry[rc] : rc \in DOMAIN M} /\ IsFiniteSet(DOMAIN M)
  BY DEF Stacked, IceClasses
<1>2. ASSUME NEW t \in T PROVE t[4] \in Nat \ {0} /\ ClassPlace(<<t[2], t[3]>>, N)
  <2>1. PICK rc \in DOMAIN M : t = entry[rc]
    BY <1>1
  <2>2. t[2] = <<rc[1][1], above + rc[1][2]>> /\ t[3] = rc[2] /\ t[4] = M[rc]
    BY <2>1
  <2>3. /\ M[rc] \in Nat \ {0} /\ rc[2] \in OCells /\ rc[1][2] \in 1..n
        /\ rc = <<<<rc[2], rc[1][2]>>, rc[2]>>
    BY DEF IceClasses, ClassPlace
  <2>4. rc[1][1] = rc[2]
    BY <2>3
  <2>5. above + rc[1][2] \in 1..N
    BY <2>3
  <2> QED
    BY <2>2, <2>3, <2>4, <2>5 DEF ClassPlace
<1> HIDE DEF entry, T
<1>3. IsFiniteSet(T)
  BY <1>1, ImageFinite
<1> QED
  BY <1>2, <1>3 DEF EntriesClassed, T

\* Entries of two matrices, added up
LEMMA UnionClasses ==
    ASSUME NEW T, NEW R, NEW n, EntriesClassed(T, n), EntriesClassed(R, n)
    PROVE  IceClasses(Accumulate(T \cup R), n)
<1>1. EntriesClassed(T \cup R, n)
  BY FS_Union DEF EntriesClassed
<1> HIDE DEF EntriesClassed
<1> QED
  BY <1>1, AccumulateClasses

\* The merged matrix, with a sheet or without, has the classes of the sheet and those of
\* the base above them.
LEMMA StackedIce ==
    ASSUME NEW base, NEW hcdefs \in Seq(Int), IceClasses(base, Len(hcdefs)),
           NEW sheets, sheets = <<>> \/ \E s : sheets = <<s>> /\ IceClasses(LocalEvA(s), Len(LocalHcdefs))
    PROVE  LET m == MergedEOpvAOp(base, sheets, hcdefs)
               n == Len(LocalHcdefs) + Len(hcdefs)
           IN  /\ n \in Nat /\ DOMAIN m.hcdefs = 1..n /\ IceClasses(m.M, n)
               /\ \A h \in 1..n : m.hcdefs[h] \in Int /\ m.underice[h] \in {"LOCALICE", "GLOBALICE"}
<1> DEFINE m == MergedEOpvAOp(base, sheets, hcdefs)
           l == Len(LocalHcdefs)
           n == l + Len(hcdefs)
           B == Stacked(base, l, 0)
           L == UNION {Stacked(LocalEvA(sheets[i]), 0, i) : i \in DOMAIN sheets}
<1>1. l \in Nat /\ Len(hcdefs) \in Nat /\ n \in Nat /\ LocalHcdefs \in Seq(Int)
  BY LocalHcdefsAssumption
<1>2. /\ DOMAIN m.hcdefs = 1..n /\ \A h \in 1..n : m.hcdefs[h] \in Int
      /\ \A h \in 1..n : m.underice[h] \in {"LOCALICE", "GLOBALICE"}
  <2>1. /\ m.hcdefs = LocalHcdefs \o hcdefs
        /\ m.underice = [h \in 1..n |-> IF h <= l THEN "LOCALICE" ELSE "GLOBALICE"]
    BY DEF MergedEOpvAOp
  <2> HIDE DEF m
  <2>2. LocalHcdefs \o hcdefs \in Seq(Int) /\ Len(LocalHcdefs \o hcdefs) = n
    BY <1>1
  <2> QED
    BY <1>1, <2>1, <2>2
<1>3. m.M = Accumulate(L \cup B)
  BY DEF MergedEOpvAOp
<1>4. EntriesClassed(B, n)
  BY <1>1, StackedClasses
<1>5. EntriesClassed(L, n)
  <2>1. CASE sheets = <<>>
    <3>1. L = {}
      BY <2>1
    <3> QED
      BY <3>1, FS_EmptySet DEF EntriesClassed
  <2>2. ASSUME NEW s, sheets = <<s>>, IceClasses(LocalEvA(s), l)
        PROVE  EntriesClassed(L, n)
    <3> DEFINE S == Stacked(LocalEvA(s), 0, 1)
    <3>1. L = S
      <4>1. DOMAIN sheets = {1} /\ sheets[1] = s
        BY <2>2
      <4>2. {Stacked(LocalEvA(sheets[i]), 0, i) : i \in DOMAIN sheets} = {S}
        BY <4>1
      <4> HIDE DEF S
      <4> QED
        BY <4>2
    <3>2. 0 + l <= n /\ 0 \in Nat
      BY <1>1
    <3> HIDE DEF n, l, L
    <3>3. EntriesClassed(S, n)
      BY <1>1, <2>2, <3>2, StackedClasses
    <3> QED
      BY <3>1, <3>3
  <2> QED
    BY <2>1, <2>2
<1> HIDE DEF L, B, m, n
<1>6. IceClasses(m.M, n)
  BY <1>3, <1>4, <1>5, UnionClasses
<1> QED
  BY <1>1, <1>2, <1>6 DEF m, n

\* Every elevation of a list is one of its distinct elevations.
LEMMA DistinctAll ==
    ASSUME NEW hc, NEW n \in Nat, DOMAIN hc = 1..n, \A h \in 1..n : hc[h] \in Int
    PROVE  LET c == Cardinality(Range(hc))
           IN  /\ c \in Nat /\ DOMAIN Distinct(hc) = 1..c
               /\ \A h \in 1..n : \E k \in 1..c : Distinct(hc)[k] = hc[h]
<1> DEFINE R == Range(hc)
           c == Cardinality(R)
           Upto(z) == {y \in R : y <= z}
           rank(z) == Cardinality(Upto(z))
<1>1. R = {hc[h] : h \in 1..n} /\ R \subseteq Int
  BY DEF Range
<1>2. IsFiniteSet(R) /\ c \in Nat
  <2>1. IsFiniteSet(1..n)
    BY FS_Interval
  <2> QED
    BY <1>1, <2>1, ImageFinite, FS_CardinalityType
<1> HIDE DEF R, c
<1>3. ASSUME NEW z \in R
      PROVE  IsFiniteSet(Upto(z)) /\ rank(z) \in 1..c
  <2>1. Upto(z) \in SUBSET R /\ z \in Upto(z)
    BY <1>1
  <2> DEFINE U == Upto(z)
  <2> HIDE DEF U
  <2>2. U \in SUBSET R /\ z \in U
    BY <2>1 DEF U
  <2>3. IsFiniteSet(U) /\ Cardinality(U) <= c /\ Cardinality(U) \in Nat /\ Cardinality(U) # 0
    BY <1>2, <2>2, FS_Subset, FS_CardinalityType, FS_EmptySet DEF c
  <2> QED
    BY <1>2, <2>3 DEF U
<1>4. ASSUME NEW y \in R, NEW z \in R, rank(y) = rank(z) PROVE y = z
  <2>1. ASSUME NEW x \in R, NEW u \in R, rank(x) = rank(u), x <= u PROVE x = u
    <3> DEFINE A == Upto(x)
               B == Upto(u)
    <3>1. A \in SUBSET B /\ u \in B /\ (u \in A => u <= x)
      BY <1>1, <2>1
    <3>2. IsFiniteSet(B) /\ Cardinality(A) = Cardinality(B)
      BY <1>3, <2>1
    <3> HIDE DEF A, B
    <3>3. A = B
      BY <3>1, <3>2, FS_Subset
    <3>4. u <= x
      BY <3>1, <3>3
    <3> QED
      BY <1>1, <2>1, <3>4
  <2>2. y <= z \/ z <= y
    BY <1>1
  <2> HIDE DEF rank
  <2> QED
    BY <1>4, <2>1, <2>2
<1>5. Distinct(hc) = [k \in 1..c |-> CHOOSE z \in R : rank(z) = k]
  BY DEF Distinct, R, c
<1>6. ASSUME NEW h \in 1..n PROVE \E k \in 1..c : Distinct(hc)[k] = hc[h]
  <2>1. hc[h] \in R
    BY <1>1
  <2>2. rank(hc[h]) \in 1..c
    BY <1>3, <2>1
  <2> HIDE DEF rank
  <2>3. (CHOOSE z \in R : rank(z) = rank(hc[h])) = hc[h]
    BY <1>4, <2>1
  <2> QED
    BY <1>5, <2>2, <2>3
<1> QED
  BY <1>2, <1>5, <1>6 DEF c, R

\* Squashing numbers the classes anew.
LEMMA SquashedIce ==
    ASSUME NEW m, NEW n \in Nat, DOMAIN m.hcdefs = 1..n, \A h \in 1..n : m.hcdefs[h] \in Int,
           IceClasses(m.M, n)
    PROVE  LET q == Squashed(m)
               c == Cardinality(Range(m.hcdefs))
           IN  /\ c \in Nat /\ DOMAIN q.hcdefs = 1..c /\ IceClasses(q.M, c)
               /\ \A h \in 1..c : q.underice[h] = "GLOBALICE"
<1> DEFINE hc == Distinct(m.hcdefs)
           c == Cardinality(Range(m.hcdefs))
           new == [h \in 1..n |-> CHOOSE k \in DOMAIN hc : hc[k] = m.hcdefs[h]]
           entry == [rc \in DOMAIN m.M |-> <<rc, <<rc[1][1], new[rc[1][2]]>>, rc[2], m.M[rc]>>]
           T == {entry[rc] : rc \in DOMAIN m.M}
<1>1. c \in Nat /\ DOMAIN hc = 1..c /\ \A h \in 1..n : \E k \in 1..c : hc[k] = m.hcdefs[h]
  BY DistinctAll
<1>2. \A rc \in DOMAIN m.M : rc[1][2] \in 1..n
  BY DEF IceClasses, ClassPlace
<1>3. Squashed(m).M = Accumulate(T)
  <2> DEFINE old(h) == CHOOSE k \in DOMAIN hc : hc[k] = m.hcdefs[h]
             W == {<<rc, <<rc[1][1], old(rc[1][2])>>, rc[2], m.M[rc]>> : rc \in DOMAIN m.M}
  <2>1. \A rc \in DOMAIN m.M : new[rc[1][2]] = old(rc[1][2])
    BY <1>2
  <2>2. W = T
    <3> HIDE DEF new, old, hc
    <3> QED
      BY <2>1
  <2>3. Squashed(m).M = Accumulate(W)
    BY DEF Squashed
  <2> QED
    BY <2>2, <2>3
<1>4. Squashed(m).hcdefs = hc /\ Squashed(m).underice = [h \in DOMAIN hc |-> "GLOBALICE"]
  BY DEF Squashed
<1>5. \A h \in 1..n : new[h] \in 1..c
  <2> HIDE DEF hc, c
  <2> QED
    BY <1>1
<1> HIDE DEF hc, c, new
<1>6. ASSUME NEW t \in T PROVE t[4] \in Nat \ {0} /\ ClassPlace(<<t[2], t[3]>>, c)
  <2>1. PICK rc \in DOMAIN m.M : t = entry[rc]
    OBVIOUS
  <2>2. t[2] = <<rc[1][1], new[rc[1][2]]>> /\ t[3] = rc[2] /\ t[4] = m.M[rc]
    BY <2>1
  <2>3. /\ m.M[rc] \in Nat \ {0} /\ rc[2] \in OCells /\ rc[1][2] \in 1..n
        /\ rc = <<<<rc[2], rc[1][2]>>, rc[2]>>
    BY DEF IceClasses, ClassPlace
  <2>4. rc[1][1] = rc[2]
    BY <2>3
  <2>5. new[rc[1][2]] \in 1..c
    BY <1>5, <2>3
  <2> QED
    BY <2>2, <2>3, <2>4, <2>5 DEF ClassPlace
<1>7. IsFiniteSet(T)
  <2>1. IsFiniteSet(DOMAIN m.M)
    BY DEF IceClasses
  <2> HIDE DEF entry
  <2> QED
    BY <2>1, ImageFinite
<1> HIDE DEF T
<1>8. EntriesClassed(T, c)
  BY <1>6, <1>7 DEF EntriesClassed
<1>9. IceClasses(Squashed(m).M, c)
  BY <1>3, <1>8, AccumulateClasses
<1> QED
  BY <1>1, <1>4, <1>9 DEF c

\* The merged matrix is made of that of all the ice and of those of the sheets.
LEMMA MadeOfIce ==
    ASSUME ECInv, FilesMade, merged # None
    PROVE  LET sheets == Sheets(merged.geometry)
               m == MergedEOpvAOp(ec["EvO"].M, sheets, Hcdefs(etopo1))
           IN  /\ IceFile(etopo1) /\ InputOK /\ GridOption = "ocean"
               /\ Classed(etopo1, etopo1.fgice) /\ ~LocalFails(sheets)
               /\ merged.m \in {m, Squashed(m)}
               /\ ec["EvO"] = IceMatrix("EvA", ElevmaskOf(etopo1, etopo1.fgice), Hcdefs(etopo1))
<1> DEFINE sheets == Sheets(merged.geometry)
           m == MergedEOpvAOp(ec["EvO"].M, sheets, Hcdefs(etopo1))
<1>1. /\ etopo1 # None /\ ec # None /\ ec \in WholeOutcomes(etopo1) /\ "EvO" \in DOMAIN ec
      /\ GridOption = "ocean" /\ Classed(etopo1, etopo1.fgice)
      /\ ~LocalFails(sheets) /\ merged.m \in {m, Squashed(m)}
  BY DEF FilesMade
<1>2. IceFile(etopo1) /\ InputOK
  BY <1>1 DEF ECInv
<1>3. ec["EvO"] = IceMatrix("EvA", ElevmaskOf(etopo1, etopo1.fgice), Hcdefs(etopo1))
  <2>1. PICK k \in 1..Len(MatrixNames) :
            ec = [x \in {CombinedName(MatrixNames[i]) : i \in 1..k} |->
                     IceMatrix(CHOOSE g \in Range(MatrixNames) : CombinedName(g) = x,
                               ElevmaskOf(etopo1, etopo1.fgice), Hcdefs(etopo1))]
    BY <1>1 DEF WholeOutcomes
  <2>2. PICK i \in 1..k : CombinedName(MatrixNames[i]) = "EvO"
    BY <1>1, <2>1
  <2>3. MatrixNames[i] \in Range(MatrixNames) /\ Range(MatrixNames) \subseteq Names
    <3>1. i \in 1..Len(MatrixNames)
      BY <2>1, <2>2, NamesMade
    <3> QED
      BY <3>1, NamesMade DEF Range
  <2>4. \A g \in Names : CombinedName(g) = "EvO" => g = "EvA"
    BY DEF Names, CombinedName
  <2>5. (CHOOSE g \in Range(MatrixNames) : CombinedName(g) = "EvO") = "EvA"
    BY <2>2, <2>3, <2>4
  <2>6. ec["EvO"] = IceMatrix(CHOOSE g \in Range(MatrixNames) : CombinedName(g) = "EvO",
                              ElevmaskOf(etopo1, etopo1.fgice), Hcdefs(etopo1))
    BY <1>1, <2>1
  <2> QED
    BY <2>5, <2>6
<1> QED
  BY <1>1, <1>2, <1>3

\* The columns of the merged matrix, squashed or not, hold the ice of the merged file.
LEMMA MergedIce ==
    ASSUME ECInv, FilesMade, merged # None, NEW o \in OCells
    PROVE  LET sheets == Sheets(merged.geometry)
               local == IF sheets = <<>> THEN {}
                        ELSE {f \in DOMAIN sheets[1].ice : OofF(f) = o}
           IN  At(ColSum(merged.m.M), o)
               = ECSkip * (CountIn(o, etopo1.fgice) + Cardinality(local))
<1> DEFINE sheets == Sheets(merged.geometry)
           base == ec["EvO"].M
           hc == Hcdefs(etopo1)
           m == MergedEOpvAOp(base, sheets, hc)
           local == IF sheets = <<>> THEN {} ELSE {f \in DOMAIN sheets[1].ice : OofF(f) = o}
           n == CountIn(o, etopo1.fgice)
<1>1. /\ IceFile(etopo1) /\ InputOK /\ GridOption = "ocean" /\ Classed(etopo1, etopo1.fgice)
      /\ ~LocalFails(sheets) /\ merged.m \in {m, Squashed(m)}
      /\ ec["EvO"] = IceMatrix("EvA", ElevmaskOf(etopo1, etopo1.fgice), Hcdefs(etopo1))
  BY MadeOfIce
<1>4. Matrix(base) /\ ColTotal(base, o) = ECSkip * n
  BY <1>1, GlobalIce
<1>5. n \in Nat /\ ECSkip \in Nat
  BY CountNat, GlobalECAssumption
<1>6. Matrix(m.M) /\ At(ColSum(m.M), o) = ECSkip * (n + Cardinality(local))
  <2>1. CASE sheets = <<>>
    <3>1. Matrix(MergedEOpvAOp(base, <<>>, hc).M)
          /\ At(ColSum(MergedEOpvAOp(base, <<>>, hc).M), o) = ColTotal(base, o)
      <4> HIDE DEF base, hc
      <4> QED
        BY <1>4, StackedAlone
    <3>2. local = {} /\ Cardinality({}) = 0
      BY <2>1, FS_EmptySet
    <3> HIDE DEF base, hc, sheets, local, n
    <3> QED
      BY <1>4, <1>5, <2>1, <3>1, <3>2
  <2>2. CASE sheets # <<>>
    <3> DEFINE s == sheets[1]
    <3>1. /\ sheets = <<s>> /\ s.x = SheetGrid(GreenlandCells) /\ GreenlandCells \in SUBSET Fine
          /\ DOMAIN s.ice \subseteq GreenlandCells /\ \A f \in DOMAIN s.ice : s.ice[f] \in Int
      BY <1>1, <2>2, SheetForm
    <3>2. ~GvEpFails(s.x, s.ice, LocalHcdefs, "Z_INTERP")
      <4>1. 1 \in DOMAIN <<s>>
        OBVIOUS
      <4> QED
        BY <1>1, <3>1, <4>1 DEF LocalFails
    <3>3. local = {f \in DOMAIN s.ice : OofF(f) = o}
      BY <2>2
    <3> HIDE DEF s
    <3>4. /\ Matrix(LocalEvA(s))
          /\ ColTotal(LocalEvA(s), o) = ECSkip * Cardinality(local)
      BY <3>1, <3>2, <3>3, LocalIce
    <3>5. Cardinality(local) \in Nat
      <4>1. local \subseteq Fine
        BY <3>1, <3>3
      <4> QED
        BY <4>1, IceFinite, FS_Subset, FS_CardinalityType
    <3> HIDE DEF base, hc, sheets, local, n
    <3>6. /\ Matrix(MergedEOpvAOp(base, <<s>>, hc).M)
          /\ At(ColSum(MergedEOpvAOp(base, <<s>>, hc).M), o)
             = ColTotal(LocalEvA(s), o) + ColTotal(base, o)
      BY <1>4, <3>4, StackedKeeps
    <3> QED
      BY <1>4, <1>5, <3>1, <3>4, <3>5, <3>6
  <2> QED
    BY <2>1, <2>2
<1> HIDE DEF m, local, n
<1>7. At(ColSum(Squashed(m).M), o) = At(ColSum(m.M), o)
  BY <1>6, SquashKeeps, ColWeight
<1> QED
  BY <1>1, <1>6, <1>7 DEF m, local, n

\* The merge and squashing lose no ice and count none twice: the columns of the merged
\* matrix hold the global ice of each O cell and the local ice.
THEOREM MergeKeepsIce == Spec => []IceKept
<1>1. ASSUME ECInv, FilesMade, merged # None, NEW o \in OCells
      PROVE  LET sheets == Sheets(merged.geometry)
                 local == IF sheets = <<>> THEN {}
                          ELSE {f \in DOMAIN sheets[1].ice : OofF(f) = o}
             IN  At(ColSum(merged.m.M), o)
                 = ECSkip * (Cardinality(FineOf(o) \cap etopo1.fgice) + Cardinality(local))
  BY <1>1, MergedIce DEF CountIn
<1>2. ECInv /\ FilesMade => IceKept
  BY <1>1 DEF IceKept
<1> QED
  BY <1>2, MadeInvariant, PTL

-----------------------------------------------------------------------------
(* The classes of the ice, from the merged matrix to the A grid *)

\* Classes of ice of one kind or the other
IceKinds(m, n) ==
    /\ n \in Nat /\ DOMAIN m.hcdefs = 1..n /\ IceClasses(m.M, n)
    /\ \A h \in 1..n : m.underice[h] \in {"LOCALICE", "GLOBALICE"}

\* The merged matrix has positive entries, in classes that are all of ice.
LEMMA MergedClasses ==
    ASSUME ECInv, FilesMade, merged # None, LocalClassesLow
    PROVE  \E n : IceKinds(merged.m, n)
<1> DEFINE sheets == Sheets(merged.geometry)
           base == ec["EvO"].M
           hc == Hcdefs(etopo1)
           m == MergedEOpvAOp(base, sheets, hc)
           l == Len(LocalHcdefs)
           n == l + Len(hc)
           c == Cardinality(Range(m.hcdefs))
<1>1. /\ IceFile(etopo1) /\ InputOK /\ GridOption = "ocean" /\ Classed(etopo1, etopo1.fgice)
      /\ ~LocalFails(sheets) /\ merged.m \in {m, Squashed(m)}
      /\ ec["EvO"] = IceMatrix("EvA", ElevmaskOf(etopo1, etopo1.fgice), Hcdefs(etopo1))
  BY MadeOfIce
<1>2. PICK o : o \in OCells
  <2>1. <<1, 1>> \in OCells
    BY TopoGridAssumption DEF OCells
  <2> QED
    BY <2>1
<1>3. IceClasses(base, Len(hc)) /\ hc \in Seq(Int)
  BY <1>1, <1>2, GlobalIce, HcdefsSeq
<1>4. sheets = <<>> \/ \E s : sheets = <<s>> /\ IceClasses(LocalEvA(s), l)
  <2>1. CASE sheets # <<>>
    <3> DEFINE s == sheets[1]
    <3>1. /\ sheets = <<s>> /\ s.x = SheetGrid(GreenlandCells) /\ GreenlandCells \in SUBSET Fine
          /\ DOMAIN s.ice \subseteq GreenlandCells /\ \A f \in DOMAIN s.ice : s.ice[f] \in Int
      BY <1>1, <2>1, SheetForm
    <3>2. ~GvEpFails(s.x, s.ice, LocalHcdefs, "Z_INTERP")
      <4>1. 1 \in DOMAIN <<s>>
        OBVIOUS
      <4> QED
        BY <1>1, <3>1, <4>1 DEF LocalFails
    <3> HIDE DEF s
    <3>3. IceClasses(LocalEvA(s), l)
      BY <1>2, <3>1, <3>2, LocalIce
    <3> QED
      BY <3>1, <3>3
  <2> QED
    BY <2>1
<1> HIDE DEF base, sheets, hc
<1>5. /\ n \in Nat /\ DOMAIN m.hcdefs = 1..n /\ IceClasses(m.M, n)
      /\ \A h \in 1..n : m.hcdefs[h] \in Int /\ m.underice[h] \in {"LOCALICE", "GLOBALICE"}
  BY <1>3, <1>4, StackedIce
<1> HIDE DEF m, n
<1>6. /\ c \in Nat /\ DOMAIN Squashed(m).hcdefs = 1..c /\ IceClasses(Squashed(m).M, c)
      /\ \A h \in 1..c : Squashed(m).underice[h] = "GLOBALICE"
  BY <1>5, SquashedIce
<1>7. IceKinds(m, n)
  BY <1>5 DEF IceKinds
<1>8. IceKinds(Squashed(m), c)
  BY <1>6 DEF IceKinds
<1> QED
  BY <1>1, <1>7, <1>8 DEF m, base, sheets, hc

-----------------------------------------------------------------------------
(* The classes of an A cell *)

\* The columns of ice that make_topoa keeps are whole.
LEMMA ColumnsWhole ==
    ASSUME NEW t, NEW m, Matrix(m.M), NEW o \in DimAOm(t, m)
    PROVE  LET E == EOmvAOm(t, m)
           IN  /\ ColSum(E)[o] = ColTotal(m.M, o)
               /\ \A rc \in DOMAIN m.M : rc[2] = o => rc \in DOMAIN E /\ E[rc] = m.M[rc]
<1> DEFINE E == EOmvAOm(t, m)
           C == ColOf(m.M, o)
<1>1. /\ DOMAIN E = {rc \in DOMAIN m.M : rc[2] \in DimAOm(t, m)}
      /\ \A rc \in DOMAIN E : E[rc] = m.M[rc]
  BY DEF EOmvAOm
<1>2. o \in ColsOf(m.M)
  BY DEF DimAOm, DimAOp
<1> HIDE DEF E
<1>3. o \in ColsOf(E) /\ ColOf(E, o) = C
  BY <1>1, <1>2 DEF ColOf, ColsOf
<1>4. \A rc \in C : E[rc] = m.M[rc]
  BY <1>1 DEF ColOf
<1> HIDE DEF C
<1>5. Sum(E, C) = Sum(m.M, C)
  BY <1>4, SumSame
<1>6. At(ColSum(E), o) = ColTotal(E, o)
  BY ColWeight
<1>7. At(ColSum(E), o) = ColSum(E)[o]
  BY <1>3 DEF At, ColSum
<1> QED
  BY <1>1, <1>3, <1>5, <1>6, <1>7 DEF E, C, ColTotal

\* An A cell covers at most four O cells.
LEMMA BlockOfFour ==
    ASSUME NEW a \in ACells
    PROVE  Cardinality(Block(a)) <= 4
<1> DEFINE i == 2 * a[1]
           j == 2 * a[2]
           F == {<<i, j>>, <<i, j - 1>>, <<i - 1, j>>, <<i - 1, j - 1>>}
<1>1. a[1] \in Nat /\ a[2] \in Nat
  BY TopoGridAssumption DEF ACells
<1>2. ASSUME NEW o \in Block(a) PROVE o \in F
  <2>1. o = <<o[1], o[2]>> /\ o[1] \in Nat /\ o[2] \in Nat
    BY TopoGridAssumption DEF Block, OCells
  <2>2. a[1] = (o[1] + 1) \div 2 /\ a[2] = (o[2] + 1) \div 2
    BY DEF Block, AofO
  <2>3. \A x, y \in Nat : y = (x + 1) \div 2 => x = 2 * y \/ x = 2 * y - 1
    OBVIOUS
  <2>4. o[1] \in {i, i - 1} /\ o[2] \in {j, j - 1}
    BY <1>1, <2>1, <2>2, <2>3
  <2> HIDE DEF i, j
  <2> QED
    BY <2>1, <2>4
<1> HIDE DEF i, j
<1>3. IsFiniteSet(F) /\ Cardinality(F) <= 4
  <2> DEFINE F1 == {<<i, j>>}
             F2 == F1 \cup {<<i, j - 1>>}
             p3 == <<i - 1, j>>
             p4 == <<i - 1, j - 1>>
             F3 == F2 \cup {p3}
             F4 == F3 \cup {p4}
  <2>1. F = F4
    OBVIOUS
  <2>2. IsFiniteSet(F1) /\ Cardinality(F1) = 1
    BY FS_Singleton
  <2> HIDE DEF F1
  <2>3. IsFiniteSet(F2) /\ Cardinality(F2) \in Nat /\ Cardinality(F2) <= 2
    BY <2>2, FS_AddElement
  <2> HIDE DEF F2, p3, p4
  <2>4. IsFiniteSet(F3) /\ Cardinality(F3) \in Nat /\ Cardinality(F3) <= 3
    <3>1. /\ IsFiniteSet(F3)
          /\ Cardinality(F3) = IF p3 \in F2 THEN Cardinality(F2) ELSE Cardinality(F2) + 1
      BY <2>3, FS_AddElement
    <3> HIDE DEF F3
    <3> QED
      BY <2>3, <3>1
  <2> HIDE DEF F3
  <2>5. IsFiniteSet(F4) /\ Cardinality(F4) \in Nat /\ Cardinality(F4) <= 4
    BY <2>4, FS_AddElement
  <2> HIDE DEF F4, F
  <2> QED
    BY <2>1, <2>5
<1> HIDE DEF F
<1>4. Block(a) \in SUBSET F
  BY <1>2
<1>5. Cardinality(Block(a)) <= Cardinality(F) /\ Cardinality(Block(a)) \in Nat
      /\ Cardinality(F) \in Nat
  BY <1>3, <1>4, BlockOf, FS_Subset, FS_CardinalityType
<1> QED
  BY <1>3, <1>5

\* The shares of the class h in the ice of some O cells, and the equation of their fold
ShareAt(E, w, h, o) == (Unit * At(E, <<<<o, h>>, o>>)) \div w[o]
SharesFrom(E, w, k, S, g) ==
    g = [s \in SUBSET S |->
            IF s = {} THEN 0
            ELSE (Unit * At(E, <<<<First(s), k>>, First(s)>>)) \div w[First(s)] + g[s \ {First(s)}]]

\* The operator for sums of shares is a sum over a function.
LEMMA SumOfShares ==
    ASSUME NEW E, NEW w, NEW k, NEW S
    PROVE  SumOver(S, LAMBDA o : (Unit * At(E, <<<<o, k>>, o>>)) \div w[o])
           = Sum([o \in S |-> ShareAt(E, w, k, o)], S)
<1> DEFINE f == [o \in S |-> ShareAt(E, w, k, o)]
<1>1. SumOver(S, LAMBDA o : (Unit * At(E, <<<<o, k>>, o>>)) \div w[o])
      = (CHOOSE g : SharesFrom(E, w, k, S, g))[S]
  BY DEF SumOver, MapThenSumSet, MapThenFoldSet, SharesFrom, First
<1>2. \A s \in SUBSET S :
        s # {} => (Unit * At(E, <<<<First(s), k>>, First(s)>>)) \div w[First(s)] = f[First(s)]
  BY FirstIn DEF ShareAt
<1> HIDE DEF f
<1>3. ASSUME NEW g PROVE SharesFrom(E, w, k, S, g) <=> SumsFrom(f, S, g)
  <2>1. [s \in SUBSET S |->
            IF s = {} THEN 0
            ELSE (Unit * At(E, <<<<First(s), k>>, First(s)>>)) \div w[First(s)] + g[s \ {First(s)}]]
        = [s \in SUBSET S |-> IF s = {} THEN 0 ELSE f[First(s)] + g[s \ {First(s)}]]
    BY <1>2
  <2> QED
    BY <2>1 DEF SharesFrom, SumsFrom
<1>4. (CHOOSE g : SharesFrom(E, w, k, S, g)) = (CHOOSE g : SumsFrom(f, S, g))
  BY <1>3
<1> QED
  BY <1>1, <1>4, SumDef DEF f

\* An A cell has a class with a share of ice if one of its O cells has ice.
LEMMA IcedClass ==
    ASSUME FractionsFine, NEW t, NEW m, NEW n, IceKinds(m, n),
           \A p \in OCells : ColTotal(m.M, p) <= 2 * NSub * ECSkip,
           NEW a \in ACells, NEW o \in Block(a), o \in DimAOm(t, m)
    PROVE  \E h \in 1..n : At(AAmvEAm(t, m), <<a, <<a, h>>>>) > 0
<1> DEFINE E == EOmvAOm(t, m)
           w == ColSum(E)
           I == DimAOm(t, m) \cap Block(a)
           C == 2 * NSub * ECSkip
<1>1. /\ n \in Nat /\ Matrix(m.M)
      /\ \A rc \in DOMAIN m.M : m.M[rc] \in Nat \ {0} /\ ClassPlace(rc, n)
  BY DEF IceKinds, IceClasses, Matrix
<1>2. /\ \A p \in I : w[p] = ColTotal(m.M, p)
      /\ \A rc \in DOMAIN m.M : rc[2] = o => rc \in DOMAIN E /\ E[rc] = m.M[rc]
      /\ \A rc \in DOMAIN E : E[rc] \in Nat
  BY <1>1, ColumnsWhole DEF EOmvAOm
<1>3. ASSUME NEW p \in I
      PROVE  w[p] \in Nat \ {0} /\ w[p] <= C
  <2>1. p \in OCells
    BY BlockOf
  <2>2. PICK rc \in DOMAIN m.M : rc[2] = p
    BY DEF DimAOm, DimAOp, ColsOf
  <2> DEFINE S == ColOf(m.M, p)
  <2>3. IsFiniteSet(S) /\ rc \in S /\ \A sc \in S : m.M[sc] \in Nat
    BY <1>1, <2>2, FS_Subset DEF ColOf, Matrix
  <2> HIDE DEF S
  <2>4. Sum(m.M, S) \in Nat /\ m.M[rc] <= Sum(m.M, S)
    BY <2>3, SumNat
  <2>5. w[p] = Sum(m.M, S) /\ ColTotal(m.M, p) <= C
    BY <1>2, <2>1 DEF ColTotal, S
  <2>6. m.M[rc] \in Nat \ {0}
    BY <1>1
  <2> HIDE DEF C, w
  <2> QED
    BY <1>2, <2>4, <2>5, <2>6
<1>4. PICK rc \in DOMAIN m.M : rc[2] = o
  BY DEF DimAOm, DimAOp, ColsOf
<1> DEFINE k == rc[1][2]
           x == m.M[rc]
           share == [p \in I |-> ShareAt(E, w, k, p)]
<1>5. /\ k \in 1..n /\ rc = <<<<o, k>>, o>> /\ x \in Nat \ {0}
      /\ rc \in DOMAIN E /\ E[rc] = x /\ o \in I
  BY <1>1, <1>2, <1>4 DEF ClassPlace
<1>6. IsFiniteSet(I) /\ Cardinality(I) \in 1..4
  <2>1. I \in SUBSET Block(a) /\ I # {}
    BY <1>5
  <2> HIDE DEF I
  <2>2. IsFiniteSet(Block(a)) /\ Cardinality(Block(a)) <= 4 /\ Cardinality(Block(a)) \in Nat
    BY BlockOf, BlockOfFour
  <2>3. IsFiniteSet(I) /\ Cardinality(I) <= Cardinality(Block(a)) /\ Cardinality(I) \in Nat
        /\ Cardinality(I) # 0
    BY <2>1, <2>2, FS_Subset, FS_CardinalityType, FS_EmptySet
  <2> QED
    BY <2>2, <2>3
<1>7. AAmvEAm(t, m)[<<a, <<a, k>>>>] = Sum(share, I) \div Cardinality(I)
      /\ <<a, <<a, k>>>> \in DOMAIN AAmvEAm(t, m)
  <2> DEFINE keys == {<<AofO(sc[2]), <<AofO(sc[2]), sc[1][2]>>>> : sc \in DOMAIN E}
  <2>1. AofO(rc[2]) = a
    BY <1>4 DEF Block
  <2>2. <<a, <<a, k>>>> \in keys
    BY <1>5, <2>1
  <2> DEFINE v == <<a, <<a, k>>>>
             b == v[1]
             q == v[2][2]
             J == DimAOm(t, m) \cap Block(b)
  <2>3. b = a /\ q = k /\ J = I
    OBVIOUS
  <2>4. DOMAIN AAmvEAm(t, m) = keys
    BY DEF AAmvEAm
  <2>5. v \in keys
    BY <2>2
  <2> HIDE DEF v
  <2>6. AAmvEAm(t, m)[v]
        = SumOver(J, LAMBDA p : (Unit * At(E, <<<<p, q>>, p>>)) \div w[p]) \div Cardinality(J)
    BY <2>5 DEF AAmvEAm
  <2> HIDE DEF E, w, J, q
  <2>7. SumOver(J, LAMBDA p : (Unit * At(E, <<<<p, q>>, p>>)) \div w[p])
        = Sum([p \in J |-> ShareAt(E, w, q, p)], J)
    BY SumOfShares
  <2> QED
    BY <2>2, <2>3, <2>4, <2>6, <2>7 DEF v
<1>8. Unit \in Nat \ {0} /\ C \in Nat /\ 4 * C <= Unit
  <2>1. NSub \in Nat /\ ECSkip \in Nat /\ Unit \in Nat \ {0}
    BY TopoGridAssumption, GlobalECAssumption
  <2> DEFINE ne == NSub * ECSkip
  <2>2. C = 2 * ne /\ 8 * NSub * ECSkip = 8 * ne /\ ne \in Nat
    BY <2>1
  <2> HIDE DEF ne, C
  <2> QED
    BY <2>1, <2>2 DEF FractionsFine
<1>9. \A p \in I : share[p] \in Nat
  <2> SUFFICES ASSUME NEW p \in I PROVE ShareAt(E, w, k, p) \in Nat
    OBVIOUS
  <2> DEFINE e == At(E, <<<<p, k>>, p>>)
             d == w[p]
  <2>1. e \in Nat
    BY <1>2 DEF At
  <2>2. d \in Nat \ {0}
    BY <1>3
  <2>3. ShareAt(E, w, k, p) = (Unit * e) \div d
    BY DEF ShareAt
  <2> HIDE DEF e, d
  <2>4. Unit * e \in Nat
    BY <1>8, <2>1
  <2> QED
    BY <2>2, <2>3, <2>4, DivMod
<1>10. share[o] >= 4
  <2> DEFINE d == w[o]
             y == Unit * x
  <2>1. At(E, <<<<o, k>>, o>>) = x
    BY <1>5 DEF At
  <2>2. share[o] = y \div d
    BY <1>5, <2>1 DEF ShareAt
  <2>3. d \in Nat \ {0} /\ d <= C
    BY <1>3, <1>5
  <2>4. y \in Nat /\ Unit <= y
    <3> HIDE DEF x
    <3>1. Unit * x = Unit * (x - 1) + Unit /\ x - 1 \in Nat
      BY <1>5, <1>8
    <3>2. Unit * (x - 1) \in Nat
      BY <1>8, <3>1
    <3> QED
      BY <1>8, <3>1, <3>2
  <2> HIDE DEF d, y, C, share
  <2>5. d * 4 <= y
    BY <1>8, <2>3, <2>4
  <2>6. y <= d * y
    <3>1. d * y = (d - 1) * y + y /\ (d - 1) * y \in Nat
      BY <2>3, <2>4
    <3> QED
      BY <2>4, <3>1
  <2>7. 4 <= y \div d /\ y \div d \in Int
    BY <2>3, <2>4, <2>5, <2>6, DivBetween
  <2> QED
    BY <2>2, <2>7
<1> DEFINE s == Sum(share, I)
           c == Cardinality(I)
<1>11. s \in Nat /\ s >= 4
  <2>1. IsFiniteSet(I) /\ o \in I
    BY <1>5, <1>6
  <2> HIDE DEF share, I
  <2>2. Sum(share, I) \in Nat /\ share[o] <= Sum(share, I)
    BY <1>9, <2>1, SumNat
  <2>3. share[o] \in Nat
    BY <1>9, <2>1
  <2> QED
    BY <1>10, <2>2, <2>3
<1>12. c \in 1..4
  BY <1>6
<1> HIDE DEF s, c
<1>13. s \div c >= 1 /\ s \div c \in Int
  <2>1. s <= c * s
    <3>1. c * s = (c - 1) * s + s /\ (c - 1) * s \in Nat
      BY <1>11, <1>12
    <3> QED
      BY <1>11, <3>1
  <2>2. c \in Nat \ {0} /\ s \in Int /\ c * 1 <= s /\ 1 \in Int
    BY <1>11, <1>12
  <2> QED
    BY <2>1, <2>2, DivBetween
<1>14. At(AAmvEAm(t, m), <<a, <<a, k>>>>) = s \div c
  BY <1>7 DEF At, s, c
<1> HIDE DEF k
<1>15. At(AAmvEAm(t, m), <<a, <<a, k>>>>) > 0
  BY <1>13, <1>14
<1> QED
  BY <1>5, <1>15

\* The mean of fractions of which one is none is not all of the cell.
LEMMA MeanBelow ==
    ASSUME NEW a \in ACells, NEW f, \A o \in Block(a) : f[o] \in 0..Unit,
           NEW o \in Block(a), f[o] = 0
    PROVE  MeanOfBlock(f, a) < Unit
<1> DEFINE B == Block(a)
           n == Cardinality(B)
           s == Sum(f, B)
           R == B \ {o}
<1>1. IsFiniteSet(B) /\ n \in Nat \ {0} /\ Unit \in Nat \ {0}
  BY BlockOf, TopoGridAssumption
<1>2. MeanOfBlock(f, a) = s \div n
  BY DEF MeanOfBlock, SumOver, Sum
<1>3. Ints(f, B) /\ \A p \in B : f[p] <= Unit
  BY <1>1 DEF Ints
<1>4. IsFiniteSet(R) /\ Cardinality(R) = n - 1 /\ Ints(f, R)
  BY <1>1, <1>3, FS_RemoveElement DEF Ints
<1>5. s = f[o] + Sum(f, R)
  BY <1>1, <1>3, SumRemove
<1>6. Sum(f, R) <= Unit * (n - 1) /\ Sum(f, R) \in Int
  <2> DEFINE g == [p \in R |-> Unit]
  <2>1. Ints(g, R) /\ (\A p \in R : g[p] = Unit) /\ \A p \in R : f[p] <= g[p]
    BY <1>1, <1>3 DEF Ints
  <2> HIDE DEF g, R, n
  <2>2. Sum(g, R) = Unit * Cardinality(R)
    BY <1>1, <1>4, <2>1, SumConst
  <2>3. Sum(f, R) <= Sum(g, R) /\ Sum(f, R) \in Int
    BY <1>4, <2>1, SumMonotone, SumInt
  <2> QED
    BY <1>4, <2>2, <2>3
<1> HIDE DEF s, n, R
<1> DEFINE q == s \div n
           un == Unit * n
<1>7. s < un /\ s \in Int /\ un \in Int
  <2>1. Unit * (n - 1) = un - Unit /\ un \in Int
    BY <1>1
  <2> HIDE DEF un
  <2> QED
    BY <1>1, <1>5, <1>6, <2>1
<1>8. q \in Int /\ s % n \in 0..(n - 1) /\ s = n * q + (s % n)
  BY <1>1, <1>7, DivModInt
<1> HIDE DEF q
<1>9. q < Unit
  <2> SUFFICES ASSUME Unit <= q PROVE FALSE
    BY <1>1, <1>8
  <2>1. q - Unit \in Nat /\ n * q = un + n * (q - Unit)
    BY <1>1, <1>8
  <2>2. n * (q - Unit) \in Nat
    BY <1>1, <2>1
  <2> HIDE DEF un
  <2> QED
    BY <1>1, <1>7, <1>8, <2>1, <2>2
<1> QED
  BY <1>2, <1>9 DEF q

\* A cell of TOPOO without ice on its fine cells has none.
LEMMA BareCell ==
    ASSUME NEW e, e.fgice \cap OceanFine(e) = {}, NEW lakes, LakesOK(lakes),
           NEW o \in OCells, ~Pole(o), CountIn(o, e.fgice) = 0
    PROVE  TopoO(e, lakes)[o].FGICE = 0 /\ TopoO(e, lakes)[o].FGICEF = 0
<1> DEFINE r == OnO(e, lakes)
           t == TopoO(e, lakes)[o]
<1>1. t.FGICE = LandFractions(r, o).FGICE /\ t.FGICEF = r.FGICEF[o]
  BY TopoOFields
<1>2. t.FGICEF = 0
  <2>1. t.FGICEF = Grain * CountIn(o, e.fgice)
    BY TopoORaw
  <2> HIDE DEF t
  <2> QED
    BY <2>1, GrainIs
<1>3. FractionsIn(r, o)
  BY RawFractions
<1> HIDE DEF r, t
<1>4. FGICE(r, o) = 0
  <2>1. CASE IsOcean(r.FOCEANF, o) \/ r.FOCEANF[o] = Unit
    <3>1. o[2] # 1
      BY DEF Pole
    <3> QED
      BY <2>1, <3>1 DEF FGICE
  <2>2. CASE ~ (IsOcean(r.FOCEANF, o) \/ r.FOCEANF[o] = Unit)
    <3> DEFINE d == Unit - r.FOCEANF[o]
    <3>1. o[2] # 1
      BY DEF Pole
    <3>2. FGICE(r, o) = (0 * Unit) \div d
      BY <1>1, <1>2, <2>2, <3>1 DEF FGICE
    <3>3. d \in Nat \ {0} /\ Unit \in Nat
      BY <1>3, <2>2, TopoGridAssumption DEF FractionsIn
    <3> HIDE DEF d
    <3>4. 0 * Unit = 0 /\ 0 \div d = 0
      BY <3>3
    <3> QED
      BY <3>2, <3>4
  <2> QED
    BY <2>1, <2>2
<1>5. Clamp(0) = 0
  BY TopoGridAssumption DEF Clamp
<1>6. LandFractions(r, o).FGICE = 0
  BY <1>4, <1>5 DEF LandFractions
<1> QED
  BY <1>1, <1>2, <1>6 DEF t

\* A cell without ice, to which no ice is added, has none when it turns to land.
LEMMA BareUpdated ==
    ASSUME NEW t, IsOCell(t), t.FGICE = 0, t.FGICEF = 0, CellCovered(t),
           t.FOCEANF \in Int, NEW d, SheetFits(d), d.gice = 0
    PROVE  LET u == UpdatedCell(t, d)
           IN  /\ u.FGICE = 0
               /\ u.FOCEAN = Unit /\ u.FOCEANF # Unit => ToLandCell(u).FGICE = 0
<1> DEFINE g == GrownOp(t, d)
           u == UpdatedCell(t, d)
<1>1. Unit \in Nat \ {0} /\ NSub \in Nat \ {0} /\ d.cont \in Nat
  BY TopoGridAssumption DEF SheetFits
<1>2. ASSUME NEW c, IsOCell(c), c.FGICEF = 0, c.FOCEANF \in Int, c.FOCEANF < Unit
      PROVE  ToLandCell(c).FGICE = 0 /\ ToLandCell(c).FGICEF = 0
  <2> DEFINE n == Unit - c.FOCEANF
  <2>1. n \in Nat \ {0}
    BY <1>1, <1>2
  <2>2. ToLandCell(c).FGICE = (0 * Unit) \div n /\ ToLandCell(c).FGICEF = 0
    BY <1>2 DEF ToLandCell, IsOCell, OCellFields
  <2> HIDE DEF n
  <2>3. 0 * Unit = 0 /\ 0 \div n = 0
    BY <1>1, <2>1
  <2> QED
    BY <2>2, <2>3
<1>3. /\ IsOCell(g) /\ g.FGICE = 0
      /\ g.FGICEF = 0 + (Unit * 0) \div NSub
      /\ g.FOCEANF = t.FOCEANF - (Unit * d.cont) \div NSub
  BY DEF GrownOp, IsOCell, OCellFields
<1>4. (Unit * 0) \div NSub = 0 /\ (Unit * d.cont) \div NSub \in Nat
  <2>1. Unit * 0 = 0 /\ 0 \div NSub = 0 /\ Unit * d.cont \in Nat
    BY <1>1
  <2> QED
    BY <1>1, <2>1, DivMod
<1>5. g.FGICEF = 0 /\ g.FOCEANF \in Int
  <2> HIDE DEF g
  <2> QED
    BY <1>3, <1>4
<1>6. Flips(g) => g.FOCEANF < Unit
  <2> HIDE DEF g
  <2> QED
    BY <1>1, <1>5 DEF Flips
<1>7. /\ u = t \/ u = g \/ (Flips(g) /\ u = ToLandCell(g))
  BY DEF UpdatedCell
<1>8. CellCovered(u) /\ IsOCell(u)
  BY MergeCovers
<1> HIDE DEF g, u
<1>9. u.FGICE = 0 /\ u.FGICEF = 0
  <2>1. Flips(g) => ToLandCell(g).FGICE = 0 /\ ToLandCell(g).FGICEF = 0
    BY <1>2, <1>3, <1>5, <1>6
  <2> QED
    BY <1>3, <1>5, <1>7, <2>1
<1>10. ASSUME u.FOCEAN = Unit, u.FOCEANF # Unit PROVE ToLandCell(u).FGICE = 0
  <2>1. u.FOCEANF \in Int /\ u.FOCEANF + 0 <= Unit
    BY <1>8, <1>9, <1>10 DEF CellCovered, RoomForIce
  <2>2. u.FOCEANF < Unit
    BY <1>1, <1>10, <2>1
  <2> QED
    BY <1>2, <1>8, <1>9, <2>1, <2>2
<1> QED
  BY <1>9, <1>10 DEF u

\* The cells of a sheet's ice in an O cell
LocalIn(o) ==
    LET sheets == Sheets(merged.geometry)
    IN  IF sheets = <<>> THEN {} ELSE {f \in DOMAIN sheets[1].ice : OofF(f) = o}

\* No sheet has more ice in an O cell than the cell has fine cells, and where it has none,
\* the merge adds none.
LEMMA LocalCounts ==
    ASSUME InputOK, NEW o \in OCells
    PROVE  /\ Cardinality(LocalIn(o)) \in 0..NSub
           /\ Cardinality(LocalIn(o)) = 0 => Added(OnOcean(Sheets(merged.geometry)), o).gice = 0
<1> DEFINE sheets == Sheets(merged.geometry)
           d == Added(OnOcean(sheets), o)
           L == LocalIn(o)
<1>1. CASE sheets = <<>>
  <2>1. L = {} /\ Cardinality({}) = 0
    BY <1>1, FS_EmptySet DEF LocalIn
  <2>2. IsFiniteSet(DOMAIN sheets) /\ \A s \in DOMAIN sheets : IsSheet(sheets[s])
    BY GreenlandSheet
  <2>3. DOMAIN sheets = {}
    BY <1>1
  <2> HIDE DEF sheets
  <2>4. d.gice = Sum([s \in DOMAIN sheets |-> CountIn(o, DOMAIN sheets[s].ice)], DOMAIN sheets)
    BY <2>2, AddedCounts
  <2>5. d.gice = 0
    BY <2>3, <2>4, SumEmpty
  <2> QED
    BY <2>1, <2>5, GrainIs DEF sheets
<1>2. CASE sheets # <<>>
  <2> DEFINE s == sheets[1]
             D == FineOf(o) \cap DOMAIN s.ice
  <2>1. /\ sheets = <<s>> /\ s.x = SheetGrid(GreenlandCells) /\ GreenlandCells \in SUBSET Fine
        /\ DOMAIN s.ice \subseteq DOMAIN s.land /\ DOMAIN s.land \subseteq GreenlandCells
        /\ \A f \in DOMAIN s.ice : s.ice[f] \in Int
    BY <1>2, SheetForm
  <2>2. L = D
    <3>1. L = {f \in DOMAIN s.ice : OofF(f) = o}
      BY <1>2 DEF LocalIn
    <3> QED
      BY <2>1, <3>1, FineCells
  <2> HIDE DEF s
  <2>3. Added(OnOcean(<<s>>), o).gice = CountIn(o, DOMAIN s.ice)
    BY <2>1, AddedByOne
  <2>4. d.gice = Cardinality(L)
    BY <2>1, <2>2, <2>3 DEF CountIn
  <2>5. Cardinality(L) \in Nat /\ Cardinality(L) <= NSub
    BY <2>2, CountNat DEF CountIn
  <2> QED
    BY <2>4, <2>5, GrainIs
<1> QED
  BY <1>1, <1>2

\* Where neither the base nor a sheet has ice, the merged file has none.
LEMMA BareMerged ==
    ASSUME ECInv, FilesMade, IceOnLand, merged # None, NEW o \in OCells, ~Pole(o),
           CountIn(o, etopo1.fgice) = 0, Cardinality(LocalIn(o)) = 0
    PROVE  merged.t[o].FGICE = 0
<1> DEFINE sheets == Sheets(merged.geometry)
           d == Added(OnOcean(sheets), o)
           W == {topoo[p] : p \in OCells}
           u == UpdatedCell(topoo[o], d)
           v == MergeTopoO(topoo, sheets)[o]
<1>1. /\ topoo # None /\ merged.t = MergeTopoO(topoo, sheets) /\ SheetFits(d)
  BY MergedFile
<1>2. /\ topoo \in [OCells -> W]
      /\ \A p \in OCells : IsOCell(topoo[p]) /\ CellCovered(topoo[p])
  BY <1>1, TopoOFile
<1>3. /\ topoo = TopoO(etopo1, input.lakes) /\ etopo1.fgice \cap OceanFine(etopo1) = {}
      /\ LakesOK(input.lakes) /\ InputOK
  BY <1>1 DEF FilesMade, IceOnLand, ECInv, InputOK, LakesOK
<1>4. /\ topoo[o].FGICE = 0 /\ topoo[o].FGICEF = 0
  BY <1>3, BareCell
<1>5. topoo[o].FOCEANF \in Int
  <2> DEFINE t == TopoO(etopo1, input.lakes)[o]
             n == CountIn(o, OceanFine(etopo1))
  <2>1. t.FOCEANF = Grain * n
    BY <1>3, TopoORaw
  <2>2. n \in Nat
    BY CountNat
  <2> HIDE DEF n, t
  <2>3. t.FOCEANF \in Int
    BY <2>1, <2>2, GrainIs
  <2> QED
    BY <1>3, <2>3 DEF t
<1>6. d.gice = 0
  BY <1>3, LocalCounts
<1> HIDE DEF W, d, sheets
<1>7. u.FGICE = 0 /\ (u.FOCEAN = Unit /\ u.FOCEANF # Unit => ToLandCell(u).FGICE = 0)
  BY <1>1, <1>2, <1>4, <1>5, <1>6, BareUpdated
<1>8. PICK w : /\ w = u \/ (u.FOCEAN = Unit /\ u.FOCEANF # Unit /\ w = ToLandCell(u))
               /\ \A k \in {"FOCEAN", "FLAKE", "FGRND", "FGICE", "FOCEANF", "FGICEF"} :
                     v[k] = w[k]
  BY <1>2, MergedCell DEF d
<1> HIDE DEF u, v
<1>9. v.FGICE = w.FGICE
  BY <1>8
<1> QED
  BY <1>1, <1>7, <1>8, <1>9 DEF v

\* The columns of the merged matrix hold at most the ice of all fine cells twice, once of
\* the base and once of a sheet, and one without weight stands for no ice.
LEMMA ColumnBounds ==
    ASSUME ECInv, FilesMade, merged # None, NEW o \in OCells
    PROVE  /\ ColTotal(merged.m.M, o) <= 2 * NSub * ECSkip
           /\ o \notin ColsOf(merged.m.M) =>
                 CountIn(o, etopo1.fgice) = 0 /\ Cardinality(LocalIn(o)) = 0
<1> DEFINE M == merged.m.M
           c == CountIn(o, etopo1.fgice)
           l == Cardinality(LocalIn(o))
<1>1. At(ColSum(M), o) = ECSkip * (c + l)
  BY MergedIce DEF LocalIn
<1>2. InputOK
  BY MadeOfIce
<1>3. c \in Nat /\ c <= NSub /\ l \in 0..NSub
  BY <1>2, CountNat, LocalCounts
<1>4. ColTotal(M, o) = ECSkip * (c + l)
  BY <1>1, ColWeight
<1>5. o \notin ColsOf(M) => At(ColSum(M), o) = 0
  BY DEF At, ColSum
<1> HIDE DEF c, l, M
<1> DEFINE r == 2 * NSub - (c + l)
<1>6. ECSkip \in Nat \ {0} /\ NSub \in Nat
  BY GlobalECAssumption, GrainIs
<1>7. ECSkip * (c + l) <= 2 * NSub * ECSkip
  <2>1. r \in Nat /\ 2 * NSub = (c + l) + r /\ c + l \in Nat
    BY <1>3, <1>6
  <2> HIDE DEF r
  <2>2. 2 * NSub * ECSkip = ECSkip * (c + l) + ECSkip * r
    BY <1>6, <2>1
  <2>3. ECSkip * r \in Nat /\ ECSkip * (c + l) \in Nat
    BY <1>6, <2>1
  <2> QED
    BY <2>2, <2>3
<1>8. ECSkip * (c + l) = 0 => c = 0 /\ l = 0
  <2> DEFINE p == ECSkip * (c + l)
             q == (ECSkip - 1) * (c + l)
  <2>1. p = q + (c + l) /\ q \in Nat
    BY <1>3, <1>6
  <2> HIDE DEF p, q
  <2>2. p = 0 => c = 0 /\ l = 0
    BY <1>3, <2>1
  <2> QED
    BY <2>2 DEF p
<1> QED
  BY <1>1, <1>4, <1>5, <1>7, <1>8 DEF c, l, M

\* What the file topo has of the class h: its share of the matrix M, and, if that is
\* positive, the kind of ice it is in m.
ClassOf(topo, m, M, a, h) ==
    /\ topo.fhc[a][h] = At(M, <<a, <<a, h>>>>)
    /\ topo.fhc[a][h] > 0 => /\ <<a, <<a, h>>>> \in DOMAIN M
                             /\ topo.underice[a][h] = m.underice[h]

\* What make_topoa writes of the classes, away from its poles
LEMMA ClassesOf ==
    ASSUME NEW t, NEW m, NEW a \in ACells, ~APole(a)
    PROVE  LET topo == MakeTopoA(t, m)
               M == AAmvEAm(t, m)
           IN  /\ topo.hcdefs = m.hcdefs
               /\ topo.land[a].FGICE = MeanOfBlock([o \in Block(a) |-> t[o].FGICE], a)
               /\ \A h \in DOMAIN m.hcdefs : ClassOf(topo, m, M, a, h)
<1> DEFINE M == AAmvEAm(t, m)
           fhc == Fhc(t, m)
           topo == MakeTopoA(t, m)
<1>1. /\ topo.hcdefs = m.hcdefs /\ topo.fhc = fhc /\ topo.underice = UndericeA(t, m)
      /\ topo.land[a].FGICE = RegridA(t, "FGICE")[a]
  BY DEF MakeTopoA
<1>2. RegridA(t, "FGICE")[a] = MeanOfBlock([o \in Block(a) |-> t[o].FGICE], a)
  BY DEF RegridA, MergePoles
<1>3. ASSUME NEW h \in DOMAIN m.hcdefs
      PROVE  /\ fhc[a][h] = At(M, <<a, <<a, h>>>>)
             /\ fhc[a][h] > 0 => /\ <<a, <<a, h>>>> \in DOMAIN M
                                 /\ UndericeA(t, m)[a][h] = m.underice[h]
  <2>1. fhc[a][h] = At(M, <<a, <<a, h>>>>)
    <3>1. a[2] # 1
      BY DEF APole
    <3> HIDE DEF M
    <3> QED
      BY <3>1 DEF Fhc, M
  <2>2. fhc[a][h] > 0 => fhc[a][h] # 0
    OBVIOUS
  <2>3. fhc[a][h] # 0 => <<a, <<a, h>>>> \in DOMAIN M
    <3> HIDE DEF M, fhc
    <3> QED
      BY <2>1 DEF At
  <2>4. fhc[a][h] # 0 => UndericeA(t, m)[a][h]
                         = IF <<a, <<a, h>>>> \in DOMAIN M THEN m.underice[h] ELSE "UNUSED"
    BY DEF UndericeA
  <2> HIDE DEF M, fhc
  <2> QED
    BY <2>1, <2>2, <2>3, <2>4
<1> HIDE DEF M, fhc, topo
<1> QED
  BY <1>1, <1>2, <1>3 DEF M, topo, ClassOf

\* An entry of the scaled matrix comes from an O cell of its A cell that is land.
LEMMA ClassOnLand ==
    ASSUME NEW t, NEW m, NEW n, IceKinds(m, n), NEW a, NEW h, <<a, <<a, h>>>> \in DOMAIN AAmvEAm(t, m)
    PROVE  \E o \in Block(a) : t[o].FOCEAN = 0
<1> DEFINE E == EOmvAOm(t, m)
<1>1. PICK rc \in DOMAIN E : <<a, <<a, h>>>> = <<AofO(rc[2]), <<AofO(rc[2]), rc[1][2]>>>>
  BY DEF AAmvEAm
<1>2. rc \in DOMAIN m.M /\ rc[2] \in DimAOm(t, m)
  BY DEF EOmvAOm
<1>3. rc[2] \in OCells /\ AofO(rc[2]) = a /\ t[rc[2]].FOCEAN = 0
  BY <1>1, <1>2 DEF IceKinds, IceClasses, ClassPlace, DimAOm
<1> QED
  BY <1>3 DEF Block

\* Ice and classes go together on the A grid: classes have ice only where there is land,
\* an A cell with ice has classes for it, and they are those of local or of global ice.
THEOREM IceIsClassed ==
    ASSUME LocalClassesLow, FractionsFine
    PROVE  Spec => []IceHasClasses
<1>1. ASSUME ECInv, FilesMade, IceOnLand, topoa # None, NEW a \in ACells, ~APole(a)
      PROVE  LET iced == {h \in DOMAIN topoa.hcdefs : topoa.fhc[a][h] > 0}
             IN  /\ iced # {} => topoa.land[a].FOCEAN < Unit
                 /\ topoa.land[a].FGICE > 0 => iced # {}
                 /\ \A h \in iced : topoa.underice[a][h] \in {"LOCALICE", "GLOBALICE"}
  <2> DEFINE t == merged.t
             m == merged.m
             iced == {h \in DOMAIN topoa.hcdefs : topoa.fhc[a][h] > 0}
             sea == [o \in Block(a) |-> t[o].FOCEAN]
             ice == [o \in Block(a) |-> t[o].FGICE]
  <2>1. merged # None /\ topoa = MakeTopoA(t, m)
    BY <1>1 DEF FilesMade
  <2>2. PICK n : IceKinds(m, n)
    BY <1>1, <2>1, MergedClasses
  <2>3. DOMAIN m.hcdefs = 1..n /\ \A h \in 1..n : m.underice[h] \in {"LOCALICE", "GLOBALICE"}
    BY <2>2 DEF IceKinds
  <2>4. /\ topoa.hcdefs = m.hcdefs
        /\ topoa.land[a].FGICE = MeanOfBlock(ice, a)
        /\ topoa.land[a].FOCEAN = MeanOfBlock(sea, a)
        /\ \A h \in 1..n :
              /\ topoa.fhc[a][h] = At(AAmvEAm(t, m), <<a, <<a, h>>>>)
              /\ topoa.fhc[a][h] > 0 => /\ <<a, <<a, h>>>> \in DOMAIN AAmvEAm(t, m)
                                        /\ topoa.underice[a][h] = m.underice[h]
    <3> DEFINE topo == MakeTopoA(t, m)
    <3>1. topo.land[a].FGICE = MeanOfBlock(ice, a)
      BY <1>1, ClassesOf
    <3>2. topo.hcdefs = m.hcdefs /\ \A h \in DOMAIN m.hcdefs : ClassOf(topo, m, AAmvEAm(t, m), a, h)
      BY <1>1, ClassesOf
    <3>3. topo.land[a].FOCEAN = MeanOfBlock(sea, a)
      BY <1>1, LandOf
    <3>4. topo = topoa
      BY <2>1
    <3> HIDE DEF topo, t, m, sea, ice
    <3> QED
      BY <2>3, <3>1, <3>2, <3>3, <3>4 DEF ClassOf
  <2>5. \A o \in OCells : CellCovered(t[o])
    BY <1>1, <2>1, MergedFile
  <2>6. \A o \in Block(a) : o \in OCells /\ AofO(o) = a
    BY DEF Block
  <2>7. ASSUME NEW h \in iced PROVE topoa.land[a].FOCEAN < Unit
    <3>1. <<a, <<a, h>>>> \in DOMAIN AAmvEAm(t, m)
      BY <2>3, <2>4
    <3>2. PICK o \in Block(a) : t[o].FOCEAN = 0
      BY <2>2, <3>1, ClassOnLand
    <3>3. (\A p \in Block(a) : sea[p] \in 0..Unit) /\ sea[o] = 0
      BY <2>5, <2>6, <3>2 DEF CellCovered
    <3> HIDE DEF sea
    <3> QED
      BY <1>1, <2>4, <3>3, MeanBelow
  <2>8. ASSUME topoa.land[a].FGICE > 0 PROVE iced # {}
    <3>1. PICK o \in Block(a) : ice[o] # 0
      <4>1. ~ (0 > 0)
        OBVIOUS
      <4> HIDE DEF ice
      <4> QED
        BY <1>1, <2>4, <2>8, <4>1, MeanOfZeros
    <3>2. o \in OCells /\ t[o].FGICE # 0
      BY <2>6, <3>1
    <3>3. t[o].FOCEAN = 0
      <4>1. ASSUME t[o].FOCEAN = Unit PROVE t[o].FGICE = 0
        BY <2>5, <3>2, <4>1, TopoGridAssumption DEF CellCovered
      <4>2. t[o].FOCEAN \in {0, Unit}
        BY <2>5, <3>2 DEF CellCovered
      <4> QED
        BY <3>2, <4>1, <4>2
    <3>4. ~Pole(o)
      <4>1. a[2] = (o[2] + 1) \div 2
        BY <2>6 DEF AofO
      <4>2. JM \in Nat \ {0} /\ JM % 2 = 0
        BY TopoGridAssumption
      <4>3. (1 + 1) \div 2 = 1 /\ (JM + 1) \div 2 = JM \div 2
        BY <4>2
      <4> QED
        BY <1>1, <4>1, <4>3 DEF Pole, APole
    <3>5. o \in ColsOf(m.M)
      BY <1>1, <2>1, <3>2, <3>4, ColumnBounds, BareMerged
    <3>6. o \in DimAOm(t, m)
      BY <3>3, <3>5 DEF DimAOm, DimAOp
    <3>7. \A p \in OCells : ColTotal(m.M, p) <= 2 * NSub * ECSkip
      BY <1>1, <2>1, ColumnBounds
    <3> HIDE DEF t, m
    <3>8. PICK h \in 1..n : At(AAmvEAm(t, m), <<a, <<a, h>>>>) > 0
      BY <2>2, <3>6, <3>7, IcedClass
    <3> QED
      BY <2>3, <2>4, <3>8
  <2>9. ASSUME NEW h \in iced PROVE topoa.underice[a][h] \in {"LOCALICE", "GLOBALICE"}
    BY <2>3, <2>4
  <2> QED
    BY <2>7, <2>8, <2>9
<1>2. ECInv /\ FilesMade /\ IceOnLand => IceHasClasses
  BY <1>1 DEF IceHasClasses
<1> QED
  BY <1>2, FilesInvariant, PTL
=============================================================================
