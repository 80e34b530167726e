-------------------------------- MODULE TopoA --------------------------------
(***************************************************************************)
(* From the merged topography on the ocean grid O to the one that ModelE   *)
(* reads on the atmosphere grid A: slib/icebin/modele/topo.cpp, called by  *)
(* make_topoa.cpp.                                                         *)
(*                                                                         *)
(* t is the merged TOPOO, m the matrix between the elevation classes and   *)
(* the O cells with its classes (MergedEOpvAOp, Squashed).                 *)
(***************************************************************************)
EXTENDS MergedTopo

APole(a) == a[2] \in {1, JM \div 2}
RowOf(a) == {b \in ACells : b[2] = a[2]}

-----------------------------------------------------------------------------
(* _compute_AAmvEAm(): classes of the A cells *)

\* O cells with ice, as the matrix knows them
DimAOp(m) == ColsOf(m.M)

\* Faulty variant: rounded ocean is kept.
DimAOm_All(t, m) == DimAOp(m)

\* Of those, the ones that are land for ModelE
DimAOm(t, m) == {o \in DimAOp(m) : t[o].FOCEAN = 0}

\* scaled_AOmvAOp() rejects an ocean cover that is neither 0 nor 1.
FoceanFails(t, m) == \E o \in DimAOp(m) : t[o].FOCEAN \notin {0, Unit}

\* compute_wAOm(): the ice of an O cell of ModelE, magnified to the cells's area
WAOm(t, m) ==
    LET w == ColSum(m.M)
    IN  [o \in {p \in DimAOm(t, m) : t[p].FOCEANF # Unit} |->
            (w[o] * Unit) \div (Unit - t[o].FOCEANF)]

\* compute_EOmvAOm_unscaled()
EOmvAOm(t, m) ==
    LET dim == DimAOm(t, m) IN [rc \in {sc \in DOMAIN m.M : sc[2] \in dim} |-> m.M[rc]]

\* raw_EOvEA(): every class of an O cell belongs to that class of the A cell over
\* it; the entries are the weights of the O cell's class.
EOmvEAm(t, m) ==
    LET M == EOmvAOm(t, m) IN
    [rc \in {<<e, <<AofO(e[1]), e[2]>>>> : e \in RowsOf(M)} |-> RowSum(M)[rc[1]]]

\* The weights of the elevation grid of A
WEAm(t, m) == ColSum(EOmvEAm(t, m))

\* Faulty variant: the mean over all O cells of a.
AAmvEAm_WholeBlock(t, m) ==
    LET M == EOmvAOm(t, m)
        w == ColSum(M)
    IN  [ae \in {<<AofO(rc[2]), <<AofO(rc[2]), rc[1][2]>>>> : rc \in DOMAIN M} |->
            LET a == ae[1] IN
            SumOver(DimAOm(t, m) \cap Block(a),
                    LAMBDA o : (Unit * At(M, <<<<o, ae[2][2]>>, o>>)) \div w[o])
                \div Cardinality(Block(a))]

\* The scaled matrix: the mean, over the O cells of a that have ice, of the
\* share of a class in the ice of the O cell
AAmvEAm(t, m) ==
    LET M == EOmvAOm(t, m)
        w == ColSum(M)
        iced(a) == DimAOm(t, m) \cap Block(a)
    IN  [ae \in {<<AofO(rc[2]), <<AofO(rc[2]), rc[1][2]>>>> : rc \in DOMAIN M} |->
            LET a == ae[1] IN
            SumOver(iced(a), LAMBDA o : (Unit * At(M, <<<<o, ae[2][2]>>, o>>)) \div w[o])
                \div Cardinality(iced(a))]

-----------------------------------------------------------------------------
(* make_topoA() *)

MeanOfBlock(f, a) == SumOver(Block(a), LAMBDA o : f[o]) \div Cardinality(Block(a))

\* merge_poles()
MergePoles(f) ==
    [a \in ACells |->
        IF APole(a) THEN SumOver(RowOf(a), LAMBDA b : f[b]) \div Cardinality(RowOf(a))
        ELSE f[a]]

RegridA(t, field) ==
    MergePoles([a \in ACells |-> MeanOfBlock([o \in Block(a) |-> t[o][field]], a)])

\* Elevation of the ice, weighted by the ice
ZicetopA(t) ==
    MergePoles([a \in ACells |->
        LET ice == SumOver(Block(a), LAMBDA o : t[o].FGICE)
        IN  IF ice = 0 THEN 0
            ELSE SumOver(Block(a), LAMBDA o : t[o].FGICE * t[o].ZICETOP) \div ice])

\* _RegridMinMax: from the O cells that are merged.  NaN in a polar row makes the
\* whole row NaN.
Merged(t, a) == {o \in Block(a) : t[o].MERGEMASK}
MergePolesNaN(f) ==
    [a \in ACells |-> IF APole(a) /\ \E b \in RowOf(a) : f[b] = NoElev THEN NoElev
                      ELSE MergePoles(f)[a]]

ZlandMin(t) ==
    MergePolesNaN([a \in ACells |->
        IF Merged(t, a) = {} THEN NoElev ELSE Min({t[o].ZLAND_MIN : o \in Merged(t, a)})])
ZlandMax(t) ==
    MergePolesNaN([a \in ACells |->
        LET z == Max({t[o].ZLAND_MAX : o \in Merged(t, a)} \cup {DblMin})
        IN  IF z = DblMin THEN NoElev ELSE z])

\* Classes of local ice: they come first in underice_hc.
NhcLocal(m) ==
    Max({n \in 0..Len(m.underice) : \A h \in 1..n : m.underice[h] = "LOCALICE"})

\* Faulty variant: no class above the one that holds the highest land.
GhostRange_NoHalo(m, zmin, zmax) ==
    LET below == {h \in 1..NhcLocal(m) : m.hcdefs[h] < zmin}
        upto  == {h \in 1..NhcLocal(m) : m.hcdefs[h] <= zmax}
    IN  IF zmin = NoElev \/ zmax = NoElev \/ below = {} \/ upto = {}
        THEN {} ELSE Max({1, Max(below) - 1})..Min({Max(upto), NhcLocal(m)})

\* Ghost classes: from one below the highest class under the lowest land to two
\* above the highest one under the highest land.  Where no class is below the
\* lowest land, the range starts from INT_MAX: it is empty.
GhostRange(m, zmin, zmax) ==
    LET below == {h \in 1..NhcLocal(m) : m.hcdefs[h] < zmin}
        upto  == {h \in 1..NhcLocal(m) : m.hcdefs[h] <= zmax}
    IN  IF zmin = NoElev \/ zmax = NoElev \/ below = {} \/ upto = {}
        THEN {} ELSE Max({1, Max(below) - 1})..Min({Max(upto) + 2, NhcLocal(m)})

\* fhc of the classes with ice: that of the matrix, but for the south pole, where
\* it is averaged over the row
Fhc(t, m) ==
    LET M == AAmvEAm(t, m)
    IN  [a \in ACells |-> [h \in DOMAIN m.hcdefs |->
            IF a[2] = 1
            THEN SumOver(RowOf(a), LAMBDA b : At(M, <<b, <<b, h>>>>)) \div Cardinality(RowOf(a))
            ELSE At(M, <<a, <<a, h>>>>)]]

\* underice: classes in the matrix, then ghosts over land where fhc is 0 (the
\* code gives those the fhc 1e-30, which is 0 here)
UndericeA(t, m) ==
    LET fhc == Fhc(t, m)
        M == AAmvEAm(t, m)
        focean == RegridA(t, "FOCEAN")
        zmin == ZlandMin(t)
        zmax == ZlandMax(t)
    IN  [a \in ACells |-> [h \in DOMAIN m.hcdefs |->
            IF focean[a] # Unit /\ h \in GhostRange(m, zmin[a], zmax[a]) /\ fhc[a][h] = 0
            THEN "VGHOST"
            ELSE IF <<a, <<a, h>>>> \in DOMAIN M THEN m.underice[h]
            ELSE "UNUSED"]]

\* The class after the last is the land part of "sealand".
SealandA(t) == {a \in ACells : RegridA(t, "FGICE")[a] > 0}

\* make_topoA(): the TOPOA file
MakeTopoA(t, m) ==
    LET focean == RegridA(t, "FOCEAN")  flake == RegridA(t, "FLAKE")
        fgrnd == RegridA(t, "FGRND")    fgice == RegridA(t, "FGICE")
        zatmo == RegridA(t, "ZATMO")    zlake == RegridA(t, "ZLAKE")
        zicetop == ZicetopA(t)
    IN  [land |-> [a \in ACells |->
                    [FOCEAN |-> focean[a], FLAKE |-> flake[a], FGRND |-> fgrnd[a],
                     FGICE |-> fgice[a], zatmo |-> zatmo[a], zlake |-> zlake[a],
                     zicetop |-> zicetop[a],
                     zland_min |-> ZlandMin(t)[a], zland_max |-> ZlandMax(t)[a],
                     mergemask |-> Merged(t, a) # {}]],
         fhc |-> Fhc(t, m), underice |-> UndericeA(t, m), sealand |-> SealandA(t),
         hcdefs |-> m.hcdefs]

\* sanity_check_fhc(): the fractions of a cell's classes add up to 1 or 0.
FhcErrors(topoa) ==
    {a \in ACells :
        SumOver(DOMAIN topoa.hcdefs, LAMBDA h : topoa.fhc[a][h]) \notin {0, Unit}}
==============================================================================
