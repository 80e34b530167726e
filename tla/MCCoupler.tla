------------------------------ MODULE MCCoupler ------------------------------
(***************************************************************************)
(* Small grids, ice sheets and coastlines for model-checking Coupler: five *)
(* ocean cells, a bay with four neighbours, on three atmosphere cells.     *)
(***************************************************************************)
EXTENDS Coupler, TLC

CONSTANTS greenland, antarctica,
          north, south, east, west, bay,   \* O cells
          coast, inland, gulf              \* A cells

MCOCells == {north, south, east, west, bay}
MCACells == {coast, inland, gulf}
MCAtmOf == (north :> inland) @@ (south :> inland) @@ (east :> coast)
             @@ (west :> coast) @@ (bay :> gulf)
MCNbrs == bay :> {north, south, east, west}
MCHC == {1, 2}
MCFull == 4

\* The TOPOO file leaves the place of the local sheets to the ocean; a quarter
\* of the inner bay is land of its own.
OpenBay == [o \in MCOCells |-> MCFull]
InnerBay == [o \in MCOCells |-> IF o = bay THEN 3 ELSE MCFull]

One(g) == [s \in {greenland} |-> g]
Two(g1, g2) == (greenland :> g1) @@ (antarctica :> g2)

\* A sheet with the ice i on a continent that fills three quarters of `land`
\* and of every cell with ice, and a quarter of `beach`.
Geom(i, land, beach) ==
    [ice |-> i,
     cont |-> [o \in MCOCells |-> IF o \in land \/ \E h \in MCHC : <<o, h>> \in i THEN 3
                                  ELSE IF o \in beach THEN 1 ELSE 0]]

\* ---- Ice that advances and retreats on a continent that keeps its shape.  The
\* TOPOO file has most of the south and the east as land; the north becomes
\* land for ModelE with the first merge; the west and the bay stay ocean.
ShelfFOcean == [o \in MCOCells |-> IF o \in {south, east} THEN 1 ELSE MCFull]
ShelfOcean == {north, west, bay}
Shelf == [o \in MCOCells |-> IF o = north THEN 3 ELSE IF o \in {south, east} THEN 1 ELSE 0]
Extents == {{}, {<<north, 1>>}, {<<north, 1>>, <<north, 2>>},
            {<<north, 2>>, <<south, 1>>}, {<<east, 1>>},
            {<<north, 1>>, <<east, 2>>}, {<<south, 2>>}}
FixedGeoms == {One([ice |-> i, cont |-> Shelf]) : i \in Extents}
FixedInit == One([ice |-> {<<north, 1>>, <<east, 2>>}, cont |-> Shelf])

\* ---- Marine ice: cells of ModelE's ocean become land and ocean again
MarineExtents == {{}, {<<north, 1>>}, {<<north, 1>>, <<east, 1>>}, {<<east, 2>>},
                  {<<north, 2>>, <<east, 1>>}}
MarineGeoms == {One(Geom(i, {}, {west})) : i \in MarineExtents}
MarineInit == One(Geom({<<north, 1>>}, {}, {west}))

\* ---- Ice that closes on the bay from all sides
AllSides == {<<north, 1>>, <<south, 1>>, <<east, 1>>, <<west, 1>>}
FjordInit == One(Geom(AllSides \ {<<west, 1>>}, {}, {}))
FjordGeoms == {FjordInit, One(Geom(AllSides, {}, {}))}

\* ---- Two sheets on cells of their own
TwoInit == Two(Geom({<<north, 1>>}, {north}, {}), Geom({<<east, 1>>}, {east}, {}))
TwoGeoms == {TwoInit,
             Two(Geom({<<north, 1>>, <<north, 2>>}, {north}, {}),
                 Geom({<<east, 2>>}, {east}, {}))}
==============================================================================
