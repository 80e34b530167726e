------------------------------ MODULE MCExchange ------------------------------
(***************************************************************************)
(* An instance of Exchange.  The ocean grid is 4 by 4 cells, with and      *)
(* without an offset, the ice grid 3 by 2 cells across four of them; tools *)
(* also regrid from and to grids that do not nest with it.  ModelE's       *)
(* forcing and what the ice model makes of it are fixed functions.         *)
(***************************************************************************)
EXTENDS Exchange

Grid(im, offi) == [im |-> im, jm |-> im, offi |-> offi, dlat |-> Quadrant \div im]
MCSpecs == {Grid(4, 0), Grid(4, 2), Grid(6, 2),
            [im |-> 8, jm |-> 4, offi |-> 2, dlat |-> 3],
            [im |-> 3, jm |-> 6, offi |-> 0, dlat |-> 2],
            [im |-> 4, jm |-> 3, offi |-> 0, dlat |-> 4]}

\* Greenland as a box around the ice grid, away from the poles
MCZones == {[greenland |-> {[x0 |-> 4, x1 |-> 20, y0 |-> -3, y1 |-> 5]}, south |-> {}]}
MCXYSpecs == {[x0 |-> 3, x1 |-> 21, dx |-> 6, y0 |-> -3, y1 |-> 5, dy |-> 4]}

MCHcdefs == <<0, 2, 4>>
MCElevations == {[k \in 0..1 |-> IF k = 0 THEN 3 ELSE 2],
                 [k \in 0..1 |-> IF k = 0 THEN 3 ELSE 5]}

MCIceMasks(dimI) == {dimI, {i \in dimI : i[1] # 2}, {<<1, 0>>, <<1, 1>>}}

\* All land; a coast through the last column of cells, which ModelE has as land
\* or as ocean; and cells that only one of the two has as ocean
Col(dimO) == Max({o[1] : o \in dimO})
OceanAs(dimO, S, op, om) ==
    [op |-> [o \in dimO |-> IF o \in S THEN op ELSE 0],
     om |-> [o \in dimO |-> IF o \in S THEN om ELSE 0]]
MCOceans(dimO) ==
    LET S == {o \in dimO : o[1] = Col(dimO) - 1}
    IN  {OceanAs(dimO, {}, 0, 0), OceanAs(dimO, S, Full \div 2, 0),
         OceanAs(dimO, S, Full \div 2, Full), OceanAs(dimO, S, Full, 0)}

\* Fields that vary, with full weights and with a hole at the south pole
MCFields(g) ==
    {[field |-> [c \in Cells(g) |-> c[1] + c[2] * c[2]], wta |-> [c \in Cells(g) |-> 1]],
     [field |-> [c \in Cells(g) |-> c[1] + c[2] * c[2]],
      wta |-> [c \in Cells(g) |-> IF c[2] \div 2 = 0 /\ c[1] < 3 THEN 0 ELSE c[1] % 3]]}

\* A flow that is linear in the elevation of the class, with a specific enthalpy
\* of -3
MCForcing(h) == LET z == MCHcdefs[h] IN [massxfer |-> z + 1, enthxfer |-> -3 * (z + 1), deltah |-> h]

\* An ice model that melts all it takes on, in two places, calves by its height
\* and follows the boundary condition
MCIceModel(input, elev) ==
    LET flow(m, e) == [mass |-> m, enth |-> e]
        got(i, v) == IF input = None THEN 0 ELSE input[i][v]
        melt(i) == flow(got(i, "massxfer"), got(i, "enthxfer"))
        out(i, z) ==
            [melt_grounded |-> melt(i), melt_floating |-> melt(i),
             calving |-> flow(Precision * (z + 1), 0),
             internal_advection |-> flow(-Precision * z, Precision),
             epsilon |-> flow(0, Precision),
             ice_top_senth |-> IF input = None THEN Precision * (z + 10)
                               ELSE got(i, "ice_top_bc_senth")]
    IN  FoldSet(LAMBDA i, f : (i :> out(i, elev[i])) @@ f, <<>>, DOMAIN elev)

\* Another sheet, in one cell of the atmosphere and one class of it
MCNeighbours(dimA) ==
    LET a == CHOOSE a \in dimA : \A b \in dimA : a[1] <= b[1]
        w == 4
        flow(m, e) == [mass |-> w * Precision * Precision * m, enth |-> w * Precision * Precision * e]
    IN  [A |-> {[sheet |-> "other", index |-> a, weight |-> w,
                 vals |-> [f \in DOMAIN Flows |->
                            IF f = "basal_runoff" THEN flow(2, -6) ELSE flow(3, 0)]]},
         E |-> {[sheet |-> "other", index |-> <<a, 2>>, weight |-> w,
                 vals |-> w * Precision * Precision * 5]}]

\* The instance is one that the theorems are about.
ASSUME MCExchangeAssumption ==
    /\ NestingSpecs /\ NorthClipped /\ WithinPoles /\ LandElevations /\ OceanFractions
    /\ OffsetsInCell /\ FieldValues /\ NeighbourWeights
===============================================================================
