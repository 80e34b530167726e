------------------------------ MODULE MergedTopo ------------------------------
(***************************************************************************)
(* Local ice sheets merged into the global topography, with elevations:    *)
(* merge_topoO(), compute_EOpvAOp_merged() and squash_ECs() of             *)
(* slib/icebin/modele/merge_topo.cpp, called by make_merged_topoo.cpp.     *)
(* (TopoMerge models the same merge in the coupler, where only presence    *)
(* and fractions matter.)                                                  *)
(*                                                                         *)
(* A local sheet is a record: x, its exchange grid with O, and land and    *)
(* ice, the elevations of its I cells with land and with ice.  The O cells *)
(* have the area NSub, in units of a fine cell.                            *)
(***************************************************************************)
EXTENDS GlobalEC

CONSTANT LocalHcdefs    \* elevation classes of the local sheets

ASSUME LocalHcdefsAssumption ==
    /\ LocalHcdefs \in Seq(Int) /\ Len(LocalHcdefs) >= 2
    /\ \A h \in 2..Len(LocalHcdefs) : LocalHcdefs[h] - LocalHcdefs[h - 1] = ECSkip

NoElev == -1000         \* NaN, or an elevation that was never set
DblMin == 0             \* the smallest positive double, below every height

OGeometry == [native |-> [o \in OCells |-> NSub], proj |-> [o \in OCells |-> NSub]]

OvI(sheet, elev, correctA) ==
    AEvI(sheet.x, GvAp(sheet.x, elev), GvI(sheet.x, elev), OGeometry, "A", correctA)

\* The scaled matrix m times elev: the mean elevation of each O cell that the
\* cells of elev overlap
MeanElev(m, elev) ==
    [o \in RowsOf(m.M) |->
        (Unit * MapThenSumSet(LAMBDA rc : m.M[rc] * elev[rc[2]],
                              {rc \in DOMAIN m.M : rc[1] = o})) \div m.wM[o]]

\* get_sheet_elevO(), with areas and with mean elevations, for land and ice
SheetOnO(s) ==
    [land     |-> s.land,
     landArea |-> OvI(s, s.land, TRUE), landElev |-> MeanElev(OvI(s, s.land, FALSE), s.land),
     iceArea  |-> OvI(s, s.ice, TRUE),  iceElev  |-> MeanElev(OvI(s, s.ice, FALSE), s.ice)]

\* Elevations of the land of a sheet in an O cell
LandHeights(s, o) == {s.land[rc[2]] : rc \in {sc \in DOMAIN s.landArea.M : sc[1] = o}}

\* The sums of the loop over the sheets, in an O cell.  Here and below, sheets are
\* the results of SheetOnO.
Added(sheets, o) ==
    LET sum(f) == SumOver(DOMAIN f, LAMBDA s : At(f[s], o))
        heights == UNION {LandHeights(sheets[s], o) : s \in DOMAIN sheets}
    IN  [gice    |-> sum([s \in DOMAIN sheets |-> sheets[s].iceArea.wM]),
         cont    |-> sum([s \in DOMAIN sheets |-> sheets[s].landArea.wM]),
         zicetop |-> NSub * sum([s \in DOMAIN sheets |-> sheets[s].iceElev]),
         zatmo   |-> NSub * sum([s \in DOMAIN sheets |-> sheets[s].landElev]),
         zmin    |-> IF heights = {} THEN NoElev ELSE Min(heights),
         zmax    |-> Max(heights \cup {DblMin})]

\* Faulty variant: the height of the ice that was there is forgotten.
GrownOp_LastHeight(t, d) ==
    LET diff  == (Unit * d.gice) \div NSub
        fgice == t.FGICEF + diff
    IN  [t EXCEPT
            !.FGICEF  = fgice,
            !.FOCEANF = @ - (Unit * d.cont) \div NSub,
            !.ZATMOF  = @ + d.zatmo \div NSub,
            !.ZICETOP = IF fgice = 0 THEN @ ELSE d.zicetop \div NSub]

\* An O cell of continent that the sheet adds, before any rounding.  zatmoOp
\* grows by the mean elevation of the added continent, whatever its share.
GrownOp(t, d) ==
    LET diff  == (Unit * d.gice) \div NSub
        fgice == t.FGICEF + diff
    IN  [t EXCEPT
            !.FGICEF  = fgice,
            !.FOCEANF = @ - (Unit * d.cont) \div NSub,
            !.ZATMOF  = @ + d.zatmo \div NSub,
            !.ZICETOP = IF fgice = 0 THEN @
                        ELSE (@ * t.FGICEF + (d.zicetop \div NSub) * diff) \div fgice]

\* An ocean cell turns to land, its ice scaled up to all of the cell.
ToLandCell(t) ==
    LET scale(x) == (x * Unit) \div (Unit - t.FOCEANF)
    IN  [t EXCEPT !.FOCEAN = 0, !.FGICE = scale(t.FGICEF),
                  !.FGRND = Unit - scale(t.FGICEF) - t.FLAKE,
                  !.ZATMO = scale(t.ZATMOF)]

Flips(t) == 2 * t.FOCEANF < Unit /\ t.FOCEAN = Unit

\* The update of one O cell; only cells with added continent are looked at.
UpdatedCell(t, d) ==
    IF d.cont = 0 THEN t
    ELSE LET g == GrownOp(t, d) IN IF Flips(g) THEN ToLandCell(g) ELSE g

\* Where local ice was merged
MergeMask(t, d, sheets, o) ==
    \/ \E s \in DOMAIN sheets : o \in DOMAIN sheets[s].iceElev
    \/ d.cont # 0 /\ (d.gice # 0 \/ Flips(GrownOp(t, d)))

\* An ocean cell with land on all sides, away from the edges of the grid
IsSingleOcean(t, o) ==
    /\ o[1] \in 2..(IM - 1) /\ o[2] \in 2..(JM - 1)
    /\ t[o].FOCEAN = Unit /\ t[o].FOCEANF # Unit
    /\ \A p \in {<<o[1], o[2] - 1>>, <<o[1], o[2] + 1>>,
                 <<o[1] - 1, o[2]>>, <<o[1] + 1, o[2]>>} : t[p].FOCEAN = 0

\* "Remove single-cell oceans", in one scan that sees what it has filled
FillSingleOceans(t) ==
    FoldLeft(LAMBDA u, p :
                 LET o == CellAt(p)
                 IN  IF IsSingleOcean(u, o) THEN [u EXCEPT ![o] = ToLandCell(@)] ELSE u,
             t, [p \in Positions |-> p])

\* The fields of TOPOO and MERGEMASK, with the range of the land's elevations
\* where the mask m is set
WithMask(t, d, m) ==
    [o \in OCells |->
        [t[o] EXCEPT !.ZLAND_MIN = IF m[o] THEN d[o].zmin ELSE NoElev,
                     !.ZLAND_MAX = IF m[o] THEN d[o].zmax ELSE NoElev,
                     !.MERGEMASK = m[o]]]

\* merge_topoO(), given what is added
Merge(topoo, sheets, d) ==
    WithMask(FillSingleOceans([o \in OCells |-> UpdatedCell(topoo[o], d[o])]), d,
             [o \in OCells |-> MergeMask(topoo[o], d[o], sheets, o)])

MergeTopoO(topoo, sheets) ==
    LET merge(on) == Merge(topoo, on, [o \in OCells |-> Added(on, o)])
    IN  merge([s \in DOMAIN sheets |-> SheetOnO(sheets[s])])

\* sanity_check_land_fractions()
LandFractionErrors(t) ==
    {c \in DOMAIN t : t[c].FOCEAN + t[c].FGRND + t[c].FLAKE + t[c].FGICE # Unit}

\* make_merged_topoo: the ocean's depth
ZOCEAN(t) == [o \in OCells |-> IF t[o].FOCEAN = Unit THEN Max({0, -t[o].ZSGLO}) ELSE 0]

-----------------------------------------------------------------------------
(* compute_EOpvAOp_merged() *)

\* The classes of the local sheets come first, the global ones are stacked on
\* top.  underice tells them apart.
LocalEvA(sheet) ==
    EvA(sheet.x, GvEp(sheet.x, sheet.ice, LocalHcdefs, "Z_INTERP"),
        GvAp(sheet.x, sheet.ice)).M

LocalFails(sheets) ==
    \E s \in DOMAIN sheets :
        GvEpFails(sheets[s].x, sheets[s].ice, LocalHcdefs, "Z_INTERP")

\* Entries of a matrix from O to E, above the first few classes
Stacked(M, above, tag) ==
    {<<<<tag, rc>>, <<rc[1][1], above + rc[1][2]>>, rc[2], M[rc]>> : rc \in DOMAIN M}

MergedEOpvAOp(base, sheets, hcdefs) ==
    [M |-> Accumulate(
              (UNION {Stacked(LocalEvA(sheets[s]), 0, s) : s \in DOMAIN sheets})
              \cup Stacked(base, Len(LocalHcdefs), 0)),
     hcdefs |-> LocalHcdefs \o hcdefs,
     underice |-> [h \in 1..(Len(LocalHcdefs) + Len(hcdefs)) |->
                      IF h <= Len(LocalHcdefs) THEN "LOCALICE" ELSE "GLOBALICE"]]

\* The distinct elevations of a list, lowest first
Distinct(hcdefs) ==
    [k \in 1..Cardinality(Range(hcdefs)) |->
        CHOOSE z \in Range(hcdefs) :
            Cardinality({y \in Range(hcdefs) : y <= z}) = k]

\* Faulty variant: of two classes that become one, only one is kept.
Squashed_Overwrite(m) ==
    LET hcdefs == Distinct(m.hcdefs)
        new(h) == CHOOSE k \in DOMAIN hcdefs : hcdefs[k] = m.hcdefs[h]
        at == {<<<<rc[1][1], new(rc[1][2])>>, rc[2]>> : rc \in DOMAIN m.M}
    IN  [M |-> [rc \in at |-> m.M[CHOOSE sc \in DOMAIN m.M :
                                     <<<<sc[1][1], new(sc[1][2])>>, sc[2]>> = rc]],
         hcdefs |-> hcdefs, underice |-> [h \in DOMAIN hcdefs |-> "GLOBALICE"]]

\* squash_ECs(): classes of one elevation become one, sorted by elevation.
Squashed(m) ==
    LET hcdefs == Distinct(m.hcdefs)
        new(h) == CHOOSE k \in DOMAIN hcdefs : hcdefs[k] = m.hcdefs[h]
    IN  [M |-> Accumulate({<<rc, <<rc[1][1], new(rc[1][2])>>, rc[2], m.M[rc]>> :
                               rc \in DOMAIN m.M}),
         hcdefs |-> hcdefs, underice |-> [h \in DOMAIN hcdefs |-> "GLOBALICE"]]
===============================================================================
