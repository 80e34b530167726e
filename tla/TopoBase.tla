------------------------------- MODULE TopoBase -------------------------------
(***************************************************************************)
(* The base topography, as pure functions: modele/etopo1_ice.cpp turns     *)
(* the ETOPO1 elevations and the ice fractions of ZNGDC1 into arrays on    *)
(* the 1-minute grid, slib/icebin/modele/topo_base.cpp averages those onto *)
(* the ocean grid O and rounds every O cell to ocean or continent.         *)
(*                                                                         *)
(* A fine cell <<i, j, k>> is one of the NSub 1-minute cells of the O cell *)
(* <<i, j>>; fine cells have one area.  A fraction is an integer out of    *)
(* Unit.  Mean elevations are in units of 1/Unit m.                        *)
(***************************************************************************)
EXTENDS Integers, FiniteSets, FiniteSetsExt, SequencesExt

CONSTANTS
    IM, JM,         \* the ocean grid: cells per latitude, latitudes
    NSub,           \* fine cells in an O cell
    Unit,           \* fractions are integers out of Unit
    LakeQuantum,    \* lake fractions are rounded to multiples of this
    ToLand, ToOcean,\* SET_TO: O cells made land or ocean by hand
    Resets          \* elevation of the lakes set by hand

ASSUME TopoGridAssumption ==
    /\ {IM, JM, NSub, Unit, LakeQuantum} \subseteq Nat \ {0}
    /\ JM % 2 = 0 /\ IM % 2 = 0
    /\ \A n \in 1..(IM * NSub) : Unit % n = 0
    /\ Unit % LakeQuantum = 0

OCells == (1..IM) \X (1..JM)
Fine == (1..IM) \X (1..JM) \X (1..NSub)
ACells == (1..(IM \div 2)) \X (1..(JM \div 2))

OofF(f) == <<f[1], f[2]>>
AofO(o) == <<(o[1] + 1) \div 2, (o[2] + 1) \div 2>>
Pole(o) == o[2] \in {1, JM}

\* No cell of a polar row is set by hand.
ASSUME SetToAssumption == \A o \in ToLand \cup ToOcean : ~Pole(o)

\* make_hntrA(): an A cell is a block of two by two O cells.
FineOf(o) == {<<o[1], o[2], k>> : k \in 1..NSub}
Block(a) == {o \in OCells : AofO(o) = a}

SumOver(S, Op(_)) == MapThenSumSet(Op, S)

-----------------------------------------------------------------------------
(* etopo1_ice.cpp *)

LAND == 0
OCEAN == 1
GREENLAND_VAL == 2
MinThickness == 1      \* MIN_LANDICE_THK

\* What etopo1_ice() reads: the continent mask, elevations and thicknesses of
\* ETOPO1, and the ice fraction that ZNGDC1 gives in each 1-degree box (taken to
\* be an O cell here).
RawTopo(Masks, Tops, Thicks, Snows) ==
    [focean : Masks, ztop : Tops, thick : Thicks, fgice1 : Snows]

\* Ice that ETOPO1 shows: all continent in the far north, and thick ice in the
\* south and on Greenland.
IceOfETOPO1(raw, greenland) ==
    {f \in Fine :
        \/ f[2] > (JM * 14) \div 15 /\ raw.focean[f] = LAND
        \/ f[2] <= JM \div 2 /\ raw.focean[f] = LAND /\ raw.thick[f] >= MinThickness
        \/ /\ greenland /\ f[2] > JM \div 2
           /\ raw.focean[f] = GREENLAND_VAL /\ raw.thick[f] >= MinThickness}

\* The order of std::sort of (-elev, j, i): the highest cells first
Higher(raw, f, g) ==
    \/ raw.ztop[f] > raw.ztop[g]
    \/ raw.ztop[f] = raw.ztop[g] /\ f[3] < g[3]

\* Faulty variant: ice is put on the sea.
SnowCells_AnyCell(raw, o) == FineOf(o)

\* The cells of a box that can take its snow.  The test for Greenland compares
\* a bool with 2 and never adds a cell.
SnowCells(raw, o) == {f \in FineOf(o) : raw.focean[f] = LAND}

\* The snow of a northern box goes to its highest cells; the last one is
\* rounded.
Downscaled(raw, o) ==
    LET count == (2 * raw.fgice1[o] * NSub + Unit) \div (2 * Unit)
    IN  {f \in SnowCells(raw, o) :
            Cardinality({g \in SnowCells(raw, o) : Higher(raw, g, f)}) < count}

NorthernBoxes == {o \in OCells : o[2] > JM \div 2}

\* etopo1_ice(): the 1-minute arrays that make_topoo reads.  The last check of the
\* code, "can't have focean1m and fgice1m at the same time", swaps its indices;
\* Greenland's stay inside the array, where it finds no ice on ocean to remove.
Etopo1Ice(raw, greenland) ==
    LET removed == {f \in Fine : /\ ~greenland /\ f[2] > JM \div 2
                                 /\ raw.focean[f] = GREENLAND_VAL}
    IN  [focean |-> [f \in Fine |->
                        IF raw.focean[f] # GREENLAND_VAL THEN raw.focean[f]
                        ELSE IF f[2] <= JM \div 2 THEN GREENLAND_VAL
                        ELSE IF greenland THEN LAND ELSE OCEAN],
         fgice  |-> IceOfETOPO1(raw, greenland)
                        \cup UNION {Downscaled(raw, o) : o \in NorthernBoxes},
         ztop   |-> [f \in Fine |-> IF f \in removed THEN -300 ELSE raw.ztop[f]],
         zsolg  |-> [f \in Fine |-> IF f \in removed THEN -300
                                    ELSE raw.ztop[f] - raw.thick[f]]]

-----------------------------------------------------------------------------
(* Hntr::regrid() from the fine grid to O, where cells nest *)

\* The mean of val over its cells, in 1/Unit, or 0 (DATMIS) if there is none
MeanOver(val) ==
    IF DOMAIN val = {} THEN 0
    ELSE (Unit * SumOver(DOMAIN val, LAMBDA f : val[f])) \div Cardinality(DOMAIN val)

\* mean_polar: the row becomes its mean, or DATMIS = 0 if one cell equals it.
MeanPolar(B) ==
    [o \in OCells |->
        IF ~Pole(o) THEN B[o]
        ELSE IF \E i \in 1..IM : B[<<i, o[2]>>] = 0 THEN 0
        ELSE SumOver(1..IM, LAMBDA i : B[<<i, o[2]>>]) \div IM]

FractionOf(S) ==
    MeanPolar([o \in OCells |->
        MeanOver([f \in FineOf(o) |-> IF f \in S THEN 1 ELSE 0])])

OceanFine(e) == {f \in Fine : e.focean[f] = OCEAN}

-----------------------------------------------------------------------------
(* _make_topoO() *)

FOCEANF(e) == FractionOf(OceanFine(e))

\* "South pole should be all ice"
FGICEF(e) == [o \in OCells |-> IF o[2] = 1 THEN Unit ELSE FractionOf(e.fgice)[o]]

MeanOnO(S, z) == MeanPolar([o \in OCells |-> MeanOver([f \in FineOf(o) \cap S |-> z[f]])])

\* What the rest is computed from: the fields regridded to O
OnO(e, lakes) ==
    [FOCEANF |-> FOCEANF(e), FGICEF |-> FGICEF(e), FLAKE |-> MeanPolar(lakes),
     zsolgOcean |-> MeanOnO(OceanFine(e), e.zsolg),
     ztopIce |-> MeanOnO(e.fgice, e.ztop), zsolgIce |-> MeanOnO(e.fgice, e.zsolg)]

\* FOCEAN is rounded from FOCEANF, unless SET_TO says otherwise.
IsOcean(focef, o) ==
    /\ o[2] # 1
    /\ o \notin ToLand
    /\ o \in ToOcean \/ 2 * focef[o] >= Unit

\* The ice of a land cell is scaled up to fill the ocean's part of it.  FOCEANF
\* is Unit only where CallZFails.
FGICE(r, o) ==
    IF o[2] = 1 THEN Unit
    ELSE IF IsOcean(r.FOCEANF, o) \/ r.FOCEANF[o] = Unit THEN 0
    ELSE (r.FGICEF[o] * Unit) \div (Unit - r.FOCEANF[o])

\* Antarctica, the Arctic and Greenland have no lakes.
LakeFree(o) ==
    \/ o[2] <= JM \div 6
    \/ o[2] > (JM * 14) \div 15
    \/ o[1] <= IM \div 2 /\ o[2] > (JM * 41) \div 45
    \/ /\ o[2] \in ((JM * 5) \div 6)..((JM * 11) \div 12)
       /\ o[1] \in (IM \div 3 + 1)..((20 * JM + 30 * IM * o[2] - 9 * IM * JM) \div (40 * JM))

RoundTo(x, q) == q * ((2 * x + q) \div (2 * q))

\* Lakes are apportioned to the part that is not ocean and rounded.
ApportionedLake(r, o) ==
    LET fcontf == Unit - r.FOCEANF[o]
        lake == IF LakeFree(o) THEN 0 ELSE r.FLAKE[o]
    IN  IF fcontf = 0 THEN lake
        ELSE IF IsOcean(r.FOCEANF, o) THEN 0
        ELSE RoundTo((lake * Unit) \div fcontf, LakeQuantum)

Clamp(x) == IF x < 0 THEN 0 ELSE IF x > Unit THEN Unit ELSE x

\* Faulty variant: an excess is left to the lake.
LandFractions_NoReduce(r, o) ==
    LET focean == IF IsOcean(r.FOCEANF, o) THEN Unit ELSE 0
        fgice  == FGICE(r, o)
        flake  == ApportionedLake(r, o)
    IN  [FOCEAN |-> focean, FGICE |-> fgice, FLAKE |-> flake,
         FGRND |-> Unit - focean - flake - fgice]

\* "If FGICE+FLAKE exceeds 1, reduce FLAKE", outside of Antarctica.  The ground
\* is what is left.
LandFractions(r, o) ==
    LET focean == IF IsOcean(r.FOCEANF, o) THEN Unit ELSE 0
        fgice  == IF o[2] > JM \div 6 THEN Clamp(FGICE(r, o)) ELSE FGICE(r, o)
        lake   == ApportionedLake(r, o)
        flake  == IF o[2] > JM \div 6 /\ lake + fgice + focean > Unit
                  THEN Unit - fgice - focean ELSE lake
    IN  [FOCEAN |-> focean, FGICE |-> fgice, FLAKE |-> flake,
         FGRND |-> Unit - focean - flake - fgice]

\* dZOCEN: ocean thickness
OceanThickness(r, o) == IF IsOcean(r.FOCEANF, o) THEN - r.zsolgOcean[o] ELSE 0

\* dZGICE: what ETOPO1 gives, or an estimate from the ice fraction (taken to be
\* 1 m) for ice that ETOPO1 shows no thickness of
IceThickness(r, fr, o) ==
    LET thick == r.ztopIce[o] - r.zsolgIce[o]
    IN  IF fr.FGICE = 0 THEN 0 ELSE IF thick # 0 THEN thick ELSE Unit

-----------------------------------------------------------------------------
(* callZ(): elevations of lakes and ground inside an O cell *)

\* The fine cells that describe an O cell: at the poles, the whole row.
Described(o) == IF Pole(o) THEN {f \in Fine : f[2] = o[2]} ELSE FineOf(o)

Continent(e, o) == Described(o) \ OceanFine(e)
OceanPart(e, o) == Described(o) \cap OceanFine(e)

\* icebin_error(): "has no ocean area", "has no continental area"
CallZFails(e) ==
    \E o \in OCells : IF IsOcean(FOCEANF(e), o) THEN OceanPart(e, o) = {}
                                       ELSE Continent(e, o) = {}

\* std::sort of the continental cells, lowest first: the height of the n-th
Nth(S, z, n) == Min({z[f] : f \in {g \in S : Cardinality({h \in S : z[h] <= z[g]}) >= n}})

\* The first of n cells, from the lowest up, at which the area passes frac of the
\* continent; the last one if none does.  With cells of one area that is:
BreakAt(n, frac) == Min({n, (frac * n) \div Unit + 1})

\* Faulty variant: the ground's area is counted from the lowest cell up.
GroundBreak_NoLake(n, fr) == BreakAt(n, fr.FGRND)

\* The search for the break between ground and ice goes on from the lake's.
GroundBreak(n, fr) == Max({BreakAt(n, fr.FLAKE), BreakAt(n, fr.FLAKE + fr.FGRND)})

\* Elevations in an O cell with the fractions fr
CellElevations(e, fr, o) ==
    LET size  == Cardinality(Continent(e, o))
        z(n)  == Nth(Continent(e, o), e.ztop, n)
        nlake == BreakAt(size, fr.FLAKE)
        vol   == SumOver(1..nlake, LAMBDA n : z(nlake) - z(n))
        depth == (Unit * Unit * vol) \div (size * fr.FLAKE)
        ice   == MeanOver([f \in Continent(e, o) \cap e.fgice |-> e.ztop[f]])
        land  == SumOver(Continent(e, o), LAMBDA f : e.ztop[f])
    IN  IF fr.FOCEAN # 0
        THEN [ZATMO   |-> 0, dZLAKE |-> 0, ZLAKE |-> 0, ZGRND |-> 0, ZSGHI |-> 0,
              ZSGLO   |-> Min({e.ztop[f] : f \in OceanPart(e, o)}),
              ZICETOP |-> ice,
              ZATMOF  |-> (Unit * land) \div Cardinality(Described(o))]
        ELSE [ZATMO   |-> (Unit * SumOver(1..size,
                               LAMBDA n : z(Max({n, nlake})))) \div size,
              dZLAKE  |-> IF fr.FLAKE > 0 THEN Max({depth, Unit}) ELSE 0,
              ZLAKE   |-> z(nlake),
              ZGRND   |-> z(GroundBreak(size, fr)),
              ZSGHI   |-> z(size),
              ZSGLO   |-> z(1),
              ZICETOP |-> ice,
              ZATMOF  |-> (Unit * land) \div size]

\* Elevations are computed in the first cell of a polar row and replicated, but
\* for ZATMOF, whose other cells keep what allocate() put there (0).
Replicated(e, r, o) ==
    LET first == IF Pole(o) THEN <<1, o[2]>> ELSE o
    IN  [CellElevations(e, LandFractions(r, first), first) EXCEPT
            !.ZATMOF = IF o = first THEN @ ELSE 0]

\* Lakes whose elevation is reset by hand
Reset(z, o) ==
    IF o \notin DOMAIN Resets THEN z
    ELSE [z EXCEPT !.dZLAKE = @ + Unit * (Resets[o] - z.ZLAKE),
                   !.ZATMO = Unit * Resets[o],
                   !.ZLAKE = Resets[o]]

\* Faulty variant: only the O cell itself is looked at.
OceanInBlock_Self(focef, o) == IsOcean(focef, o)

\* Some O cell of the A cell is ocean.
OceanInBlock(focef, o) == \E p \in Block(AofO(o)) : IsOcean(focef, p)

\* Lakes turn to ground if their A cell has some ocean.
LakesToGround(r, fr, o) ==
    IF OceanInBlock(r.FOCEANF, o)
    THEN [fr EXCEPT !.FGRND = @ + fr.FLAKE, !.FLAKE = 0]
    ELSE fr

\* A cell of the TOPOO file, of the fractions before and after LakesToGround.
\* The range of the land's elevation and the mask are left to the merge.
TopoOCell(r, fr, ground, z, o) ==
    [FOCEAN  |-> fr.FOCEAN, FOCEANF |-> r.FOCEANF[o],
     FLAKE   |-> ground.FLAKE, FGRND |-> ground.FGRND, FGICE |-> fr.FGICE,
     FGICEF  |-> r.FGICEF[o],
     dZOCEN  |-> OceanThickness(r, o), dZGICE |-> IceThickness(r, fr, o),
     dZLAKE  |-> IF ground.FLAKE # fr.FLAKE THEN 0 ELSE z.dZLAKE,
     ZATMO   |-> z.ZATMO, ZATMOF |-> z.ZATMOF, ZICETOP |-> z.ZICETOP,
     ZSGLO   |-> z.ZSGLO, ZLAKE |-> z.ZLAKE, ZGRND |-> z.ZGRND,
     ZSGHI   |-> z.ZSGHI, ZLAND_MIN |-> 0, ZLAND_MAX |-> 0,
     MERGEMASK |-> FALSE]

TopoOCells(e, r, fr) ==
    [o \in OCells |-> TopoOCell(r, fr[o], LakesToGround(r, fr[o], o),
                                Reset(Replicated(e, r, o), o), o)]

\* MakeTopoO, from the output of etopo1_ice and the lakes
TopoO(e, lakes) ==
    LET cells(r) == TopoOCells(e, r, [o \in OCells |-> LandFractions(r, o)])
    IN  cells(OnO(e, lakes))

==============================================================================
