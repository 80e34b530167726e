------------------------------- MODULE Exchange -------------------------------
(***************************************************************************)
(* The life of a regridder for one ice sheet: the programs of gridgen/     *)
(* make an ocean grid and an ice grid and overlap them, ModelE's regridder *)
(* is built on the result, and every coupling makes its matrices anew, for *)
(* the ice and the ocean of that time, with the correction that takes the  *)
(* state of the elevation classes from the last geometry to the new one    *)
(* (GCMCoupler::couple()).  Beside that, tools regrid fields with Hntr     *)
(* between any two grids.                                                  *)
(***************************************************************************)
EXTENDS Contract, GridFiles

CONSTANTS
    Specs,          \* latitude-longitude grids: records of Hntr
    Caps,           \* values of --pole-caps
    Zones,          \* what the clip of the ocean grid keeps
    XYSpecs,        \* ice grids: bounds and size of their cells
    Hcdefs,         \* elevation classes
    Styles,         \* interpolation between them
    Elevations,     \* of ice
    IceMasks(_),    \* I cells that may have ice, of a grid's
    Oceans(_),      \* ocean that may be, as op and om of the realized O cells
    Fields(_),      \* weights and values of fields on a grid
    SmbFlags,       \* values of use_smb
    Forcing(_),     \* massxfer, enthxfer and deltah that ModelE has for a class
    IceModel(_, _), \* what the ice model makes of its input, None at first, and
                    \* of the elevation of the ice
    Neighbours(_),  \* what another sheet adds to the vectors for A and E
    MaxCouplings,   \* bound on the couplings
    None

ASSUME ExchangeAssumption ==
    /\ Specs \subseteq [im : Nat \ {0}, jm : Nat \ {0}, offi : Int, dlat : Nat \ {0}]
    /\ XYSpecs \subseteq [x0 : Int, x1 : Int, dx : Nat \ {0}, y0 : Int, y1 : Int, dy : Nat \ {0}]
    /\ Caps \subseteq BOOLEAN
    /\ \A h \in 1..(Len(Hcdefs) - 1) : Hcdefs[h + 1] = Hcdefs[h] + Spacing(Hcdefs)
    /\ Full \in Nat \ {0} /\ MaxCouplings \in Nat
    /\ Styles \subseteq {"Z_INTERP", "ELEV_CLASS_INTERP"}

VARIABLES
    phase,      \* "start", "grids", "overlap", "ready" or "failed"
    spec,       \* the ocean grid's Hntr specification
    gridO, gridI,
    files,      \* of the ocean grid, the ice grid, and what overlap writes
    sheet,      \* exchange grid x, areas geom, interpolation style
    agridA,     \* cells of the atmosphere grid that are realized
    tool,       \* what a tool regridded with Hntr
    ice,        \* elevation of the ice, op and om, at the last coupling
    matrices,   \* of the last coupling
    before,     \* ice and XvE of the coupling before
    corr,       \* E1vE0c of the last coupling
    useSmb,
    ice_ivalsI, \* input and output of the ice model at the last coupling
    ice_ovalsI,
    gcm,        \* ModelE's arrays for what it gets on A and on E
    couplings

vars == <<phase, spec, gridO, gridI, files, sheet, agridA, tool, ice, matrices, before, corr,
          useSmb, ice_ivalsI, ice_ovalsI, gcm, couplings>>
coupled == <<ice, matrices, before, corr, ice_ivalsI, ice_ovalsI, gcm, couplings>>

Init ==
    /\ phase = "start" /\ couplings = 0
    /\ spec = None /\ gridO = None /\ gridI = None /\ files = None /\ sheet = None
    /\ agridA = {}
    /\ tool = None /\ ice = None /\ matrices = None /\ before = None /\ corr = None
    /\ useSmb = FALSE /\ ice_ivalsI = None /\ ice_ovalsI = None /\ gcm = None

\* A tool regrids a field from grid A to grid B.
RegridTool ==
    /\ phase = "start" /\ tool = None
    /\ \E A \in Specs, B \in Specs, meanPolar \in BOOLEAN :
        \E f \in Fields(A) :
            tool' = [A |-> A, B |-> B, wta |-> f.wta, field |-> f.field, polar |-> meanPolar,
                     M |-> Overlap(A, B, Cells(B)),
                     out |-> RegridField(A, B, f.wta, f.field, meanPolar)]
    /\ UNCHANGED <<phase, spec, gridO, gridI, files, sheet, agridA, useSmb, coupled>>

\* modele_ll and the programs that make the grid of an ice model
MakeGrids ==
    /\ phase = "start" /\ tool = None
    /\ \E g \in Specs, caps \in Caps, zone \in Zones, xy \in XYSpecs :
        IF SpecFails(g) \/ GridSpecFails(g, caps)
        THEN phase' = "failed" /\ UNCHANGED <<spec, gridO, gridI, files>>
        ELSE /\ phase' = "grids"
             /\ spec' = g
             /\ gridO' = LonLatGrid(g, caps, zone)
             /\ gridI' = XYGrid(xy)
             /\ files' = [gridA |-> Written(MadeGrid(gridO', RowMajor(gridO'))),
                          gridI |-> Written(MadeGrid(gridI', RowMajor(gridI')))]
    /\ UNCHANGED <<sheet, agridA, tool, useSmb, coupled>>

\* overlap: the exchange grid; and the IceRegridder made of it.  The ocean grid
\* is on the sphere, the ice grid ought to be on a map.
OverlapGrids ==
    /\ phase = "grids"
    /\ \E style \in Styles, sproj \in {"", "stere"} :
        IF ProjectionsFail("", sproj) THEN phase' = "failed" /\ UNCHANGED <<files, sheet>>
        ELSE /\ phase' = "overlap"
             /\ files' = OverlapFile(ReadGrid(files.gridA), ReadGrid(files.gridI))
             /\ sheet' = [x |-> ExchangeOf(files'.exgrid),
                          geom |-> AreasOf(ReadGrid(files'.gridA), sproj), style |-> style]
    /\ UNCHANGED <<spec, gridO, gridI, agridA, tool, useSmb, coupled>>

\* GCMRegridder_ModelE(); ModelE's arrays start at 0.
NewRegridder ==
    /\ phase = "overlap"
    /\ IF HntrAFails(spec) THEN phase' = "failed" /\ UNCHANGED <<agridA, useSmb, gcm>>
       ELSE /\ phase' = "ready"
            /\ agridA' = AGridOf(spec, DOMAIN gridO)
            /\ useSmb' \in SmbFlags
            /\ gcm' = [A |-> [a \in AGridOf(spec, DOMAIN gridO) |->
                                [num |-> [f \in DOMAIN Flows |-> [mass |-> 0, enth |-> 0]],
                                 den |-> 1]],
                       E |-> [e \in AGridOf(spec, DOMAIN gridO) \X DOMAIN Hcdefs |->
                                [num |-> 0, den |-> 1]]]
    /\ UNCHANGED <<spec, gridO, gridI, files, sheet, tool, ice, matrices, before, corr, ice_ivalsI,
                   ice_ovalsI, couplings>>

\* What ModelE sends: a value for every class it was given
GcmOutput == {[index |-> e, vals |-> Forcing(e[2])] : e \in RowsOf(matrices.modele.EvI.M)}

\* The input of the ice model: none at the first coupling, which does not run it
IceInput ==
    IF matrices = None THEN None
    ELSE LET ovals == GcmOvalsE(GcmOutput, DimE(matrices.modele))
         IN  Reconstructed(IceIvalsI(matrices.modele.IvE, ovals, DOMAIN gridI),
                           ice_ovalsI, useSmb)

\* What the coupling leaves behind, once the ice model has run on its input
Coupled(elev, ocean, new, standard, input, out) ==
    /\ phase' = phase
    /\ ice' = [elev |-> elev, op |-> ocean.op, om |-> ocean.om]
    /\ matrices' = [modele |-> new, standard |-> standard]
    /\ before' = ice
    /\ corr' = IF matrices = None THEN None
               ELSE E1vE0c(new.XvE, matrices.modele.XvE, Spacing(Hcdefs))
    /\ ice_ivalsI' = input
    /\ ice_ovalsI' = out
    /\ gcm' = [A |-> AppliedA(gcm.A, GcmIvalsA("this", new.AvI, out)
                                        \cup Neighbours(agridA).A),
               E |-> AppliedE(gcm.E, GcmIvalsE("this", new.EvI, out)
                                        \cup Neighbours(agridA).E)]
    /\ couplings' = couplings + 1

CoupledWith(elev, ocean, ur, input) ==
    Coupled(elev, ocean,
            ModelEMatrices(spec, sheet, ur, ocean.op, ocean.om, Spacing(Hcdefs)),
            StandardMatrices(sheet, ur), input, IceModel(input, elev))

\* A coupling: elevmaskI and foceanAOm have changed in the meantime.
Couple ==
    /\ phase = "ready" /\ couplings < MaxCouplings
    /\ \E mask \in IceMasks(DOMAIN gridI), ocean \in Oceans(DOMAIN gridO), z \in Elevations :
        LET elev == [i \in mask |-> z[(i[1] + i[2]) % 2]]
        IN  IF \/ matrices # None /\ DenseFails(GcmOutput, DimE(matrices.modele))
               \/ GvEpFails(sheet.x, elev, Hcdefs, sheet.style)
            THEN phase' = "failed" /\ UNCHANGED coupled
            ELSE CoupledWith(elev, ocean, UrO(sheet, elev, Hcdefs, sheet.style), IceInput)
    /\ UNCHANGED <<spec, gridO, gridI, files, sheet, agridA, tool, useSmb>>

Next == RegridTool \/ MakeGrids \/ OverlapGrids \/ NewRegridder \/ Couple

Spec == Init /\ [][Next]_vars

-----------------------------------------------------------------------------
(* Properties *)

\* The files hold the grids that were made: every cell comes back with its own
\* corners and area, though the cells share vertices, and those of the exchange
\* grid were renumbered after the cells had been made of them.
FilesKeepGrids ==
    /\ phase \in {"grids", "overlap", "ready"} =>
        /\ ReadGrid(files.gridA) = gridO
        /\ ReadGrid(files.gridI) = gridI
    /\ phase \in {"overlap", "ready"} => ReadGrid(files.exgrid) = ExchangeCells(gridO, gridI)

\* Hntr::overlap() loses no area and makes none, wherever the cells of two grids
\* straddle each other or the date line: the cells of each grid are the sums of
\* what they have in common with those of the other.  (For an odd number of
\* latitudes make_dxyp() is half a cell off.)
OverlapsTile ==
    tool # None /\ Regular(tool.A) /\ Regular(tool.B)
            /\ tool.A.jm % 2 = 0 /\ tool.B.jm % 2 = 0 =>
        /\ \A a \in Cells(tool.A) : At(ColSum(tool.M), a) = AreaA(tool.A, tool.B, a)
        /\ \A b \in Cells(tool.B) : At(RowSum(tool.M), b) = AreaB(tool.A, tool.B, b)

\* What Hntr::regrid() gives a cell lies between the values, of positive weight,
\* of the cells it overlaps - at a pole, with mean_polar, of those the whole
\* latitude overlaps - or is DATMIS; it never mixes DATMIS into a mean.
Sources(b) ==
    LET row == IF tool.polar /\ b[2] \in {1, tool.B.jm}
               THEN {c \in Cells(tool.B) : c[2] = b[2]} ELSE {b}
    IN  {tool.field[v[2]] : v \in {u \in UNION {Visits(tool.A, tool.B, c) : c \in row} :
                                        tool.wta[u[2]] > 0 /\ u[3] > 0}}
FieldBounded ==
    tool # None /\ Regular(tool.A) /\ Regular(tool.B) =>
        \A b \in Cells(tool.B) :
            \/ tool.out[b] = Missing
            \/ /\ Sources(b) # {}
               /\ tool.out[b] >= Precision * Min(Sources(b))
               /\ tool.out[b] <= Precision * Max(Sources(b))

\* Every realized ocean cell lies within one atmosphere cell, as raw_EOvEA()
\* supposes, and that one is realized too, whatever the offset of the grid.
AGridNests ==
    phase = "ready" =>
        \A o \in DOMAIN gridO :
            LET M == OvA(spec, {o})
            IN  /\ Cardinality(DOMAIN M) = 1
                /\ \A rc \in DOMAIN M : /\ M[rc] = AreaB(HntrA(spec), spec, rc[1])
                                        /\ Pcell(rc[2]) \in agridA

\* The matrices of the ocean grid to the ice and from it have the same weights: of
\* the ice, and of the O cells and their classes.  compute_AEvI() corrects the sums
\* of rows for that, compute_IvAE() those of columns.
WeightsBothWays ==
    matrices # None =>
        LET m == matrices.standard IN
        /\ m.IvE.wM = m.EvI.Mw /\ m.IvE.Mw = m.EvI.wM
        /\ m.IvA.wM = m.AvI.Mw /\ m.IvA.Mw = m.AvI.wM

\* They conserve with the weights they come with: columns add up to them, and the
\* classes of an O cell weigh as much as the cell.
StandardConserves ==
    matrices # None =>
        LET m == matrices.standard IN
        /\ ColSum(m.IvE.M) = m.IvE.Mw /\ ColSum(m.EvI.M) = m.EvI.Mw
        /\ \A o \in DOMAIN gridO :
            MapThenSumSet(LAMBDA h : At(m.EvI.wM, <<o, h>>), DOMAIN Hcdefs)
                = Spacing(Hcdefs) * At(m.AvI.wM, o)

\* The classes of an atmosphere cell of ModelE weigh as much as the cell's ice,
\* although the weights of E and A take different ways (EOmvAOm, raw_EOvEA; Hntr)
\* from the cells of Op, cut by a coast that Om does not have.
ClassesWeighAsCells ==
    matrices # None =>
        \A a \in agridA :
            MapThenSumSet(LAMBDA h : At(matrices.modele.EvI.wM, <<a, h>>), DOMAIN Hcdefs)
                = Spacing(Hcdefs) * At(matrices.modele.AvI.wM, a)

\* IvE takes what ModelE computed for the classes to all the ice that is on its
\* land: ice of an I cell that the ice model does not have wholly in the ocean
\* and ModelE has as land, and no other, counts by its area.
LandIceOf(i, a) ==
    MapThenSumSet(LAMBDA c : sheet.x.area[c],
        {c \in sheet.x.cells : /\ sheet.x.i[c] = i
                               /\ Over(spec, sheet.x.a[c]) = a
                               /\ ice.om[sheet.x.a[c]] = 0
                               /\ ice.op[sheet.x.a[c]] # Full})
ForcingReachesIce ==
    matrices # None =>
        \A i \in DOMAIN ice.elev, a \in agridA :
            MapThenSumSet(LAMBDA h : At(matrices.modele.IvE.M, <<i, <<a, h>>>>), DOMAIN Hcdefs)
                = Spacing(Hcdefs) * LandIceOf(i, a)

\* The correction between two geometries is for classes of the new matrix, is 0
\* if nothing changed, and leaves a uniform state alone in a class whose ice was
\* all there before.
CorrectionNeutral ==
    corr # None =>
        /\ RowsOf(corr.M) \subseteq ColsOf(matrices.modele.XvE.M)
        /\ ice = before => \A rc \in DOMAIN corr.M : corr.M[rc] = 0
        /\ \A e \in RowsOf(corr.M) :
            (\A rc \in DOMAIN matrices.modele.XvE.M :
                rc[2] = e => LET o == sheet.x.a[rc[1]] IN
                    /\ sheet.x.i[rc[1]] \in DOMAIN before.elev
                    /\ before.om[o] = 0 /\ before.op[o] # Full)
            => RowSum(corr.M)[e] = 0

\* A class is only ever corrected from classes of its own A cell, so that the
\* error of gcmce_couple_native() ("ijk0 and ijk1 must match") does not happen.
CorrectionWithinCell ==
    corr # None => \A rc \in DOMAIN corr.M : CellOfE(rc[1]) = CellOfE(rc[2])

\* The mass that ModelE sends for classes reaches the ice as if it had been
\* computed at the elevation of the ice: for a flow that varies linearly with
\* elevation (Forcing of MCExchange is one more than the elevation of the class).
\* It reaches the ice of the last coupling, where that lay on ModelE's land, and
\* none that has come since.
InputElevation(z) ==
    LET zz == Max({z, 0})
    IN  IF sheet.style = "Z_INTERP" THEN zz ELSE Hcdefs[NearestClass(Hcdefs, zz)]
LandIceBefore(i) ==
    MapThenSumSet(LAMBDA c : sheet.x.area[c],
        {c \in sheet.x.cells : /\ sheet.x.i[c] = i
                               /\ before.om[sheet.x.a[c]] = 0
                               /\ before.op[sheet.x.a[c]] # Full})
ForcingInterpolated ==
    ice_ivalsI # None =>
        \A i \in DOMAIN gridI :
            ice_ivalsI[i].massxfer * gridI[i].native =
                IF useSmb /\ i \in DOMAIN before.elev
                THEN Precision * LandIceBefore(i) * (InputElevation(before.elev[i]) + 1)
                ELSE 0

\* ModelE and PISM measure enthalpy from different states.  What ModelE has the
\* ice take on, and the ice gives back as runoff a coupling later (as it does in
\* MCExchange), comes back with the specific enthalpy it left with, through two
\* conversions, two matrices of two geometries and the weights of two sheets.
SpecificEnthalpyKept ==
    gcm # None =>
        \A a \in DOMAIN gcm.A :
            LET runoff == gcm.A[a].num["basal_runoff"]
            IN  runoff.enth * Forcing(1).massxfer = runoff.mass * Forcing(1).enthxfer

\* A value that ModelE is given is a mean of the values of the ice there, however
\* many sheets add to it and however the coast cuts its cells.  It is not a number
\* in an A cell whose ice all lies where the ice model has only ocean although
\* ModelE has land: there 0 is divided by a weight of 0.
XOnLand == {c \in UsedX(sheet.x, ice.elev) : ice.om[sheet.x.a[c]] = 0}
\* Each entry is its mass of 2 truncated products.
IsMean(num, den, values, terms) ==
    LET slack == 2 * terms * (den \div Precision) * Max(values \cup {-v : v \in values})
    IN  den * Min(values) - slack <= num /\ num <= den * Max(values) + slack
GivenIsMean ==
    ice # None =>
        /\ \A a \in agridA :
            LET own == {c \in XOnLand : Over(spec, sheet.x.a[c]) = a}
                others == {v \in Neighbours(agridA).A : v.index = a}
                values == {ice_ovalsI[sheet.x.i[c]]["calving"].mass : c \in own}
                            \cup {v.vals["calving"].mass \div (Precision * v.weight) : v \in others}
            IN  IF \A c \in own : ice.op[sheet.x.a[c]] = Full /\ others = {}
                THEN own # {} => gcm.A[a].den = 0
                ELSE gcm.A[a].den > 0 /\ IsMean(gcm.A[a].num["calving"].mass, gcm.A[a].den,
                                                values, Cardinality(own))
        /\ \A e \in RowsOf(matrices.modele.EvI.M) :
            LET own == {c \in XOnLand : Over(spec, sheet.x.a[c]) = CellOfE(e)}
                others == {v \in Neighbours(agridA).E : v.index = e}
            IN  /\ gcm.E[e].den > 0
                /\ IsMean(gcm.E[e].num, gcm.E[e].den,
                          {ToE(ice_ovalsI[sheet.x.i[c]]) : c \in own}
                            \cup {v.vals \div (Precision * v.weight) : v \in others},
                          Cardinality(own))

\* In a cell with ice, exactly the classes that the ice now has carry a state of
\* its top, a quotient: none is left over from the ice of an earlier coupling.
ClassesFresh ==
    ice # None =>
        \A e \in DOMAIN gcm.E :
            CellOfE(e) \in {CellOfE(x) : x \in DOMAIN matrices.modele.EvI.wM} =>
                (gcm.E[e].den # 1 <=>
                    \/ e \in DOMAIN matrices.modele.EvI.wM
                    \/ \E v \in Neighbours(agridA).E : v.index = e)

-----------------------------------------------------------------------------
(* What theorems of Exchange_proofs suppose of the constants *)

\* The edges between the latitudes of a grid, but for the last ones, lie between
\* the poles: so they do in a regular grid, and with half cells at the poles.
EdgesInside(g) == (g.jm - 2) * g.dlat < Quadrant

\* The grids that modele_ll() is given: those that ModelE's regridder takes nest,
\* and the clip leaves no cap at the north pole, which gets a number one latitude
\* beyond the grid.
NestingSpecs == \A g \in Specs : ~HntrAFails(g) => g.offi % 2 = 0 /\ EdgesInside(g)
NorthClipped ==
    \A g \in Specs, zone \in Zones :
        ~HntrAFails(g) =>
            <<g.im - 1, NLat(g, TRUE)>> \notin DOMAIN LonLatGrid(g, TRUE, zone)

\* Grids are offset by a cell at most, and fields have weights, and values
\* everywhere.
OffsetsInCell == \A g \in Specs : g.offi \in 0..4
FieldValues ==
    \A g \in Specs : \A f \in Fields(g) : \A c \in Cells(g) :
        f.wta[c] \in Nat /\ f.field[c] \in Int

\* The cells of the ocean grid lie between the poles.
WithinPoles ==
    \A g \in Specs, caps \in Caps : \A p \in DOMAIN LonLatCells(g, caps) :
        LET c == LonLatCells(g, caps)[p] IN -Quadrant <= c.y0 /\ c.y1 <= Quadrant

\* Two or more classes at equal distances go down to sea level at least, and the
\* elevations of the ice are numbers.
EvenClasses(hc) ==
    /\ Len(hc) \in Nat /\ Len(hc) >= 2 /\ DOMAIN hc = 1..Len(hc)
    /\ \A h \in 1..Len(hc) : hc[h] \in Int
    /\ Spacing(hc) \in Nat \ {0}
    /\ \A h \in 1..(Len(hc) - 1) : hc[h + 1] = hc[h] + Spacing(hc)
LandElevations ==
    /\ EvenClasses(Hcdefs) /\ Hcdefs[1] <= 0
    /\ \A z \in Elevations : z[0] \in Int /\ z[1] \in Int

\* An ocean has a fraction of every cell.
OceansOn(dim) ==
    \A ocean \in Oceans(dim) :
        dim \subseteq DOMAIN ocean.om /\ \A o \in dim : ocean.op[o] \in 0..Full
OceanFractions ==
    \A g \in Specs, caps \in Caps, zone \in Zones : OceansOn(DOMAIN LonLatGrid(g, caps, zone))

\* Other sheets add finitely many values, with weights that are numbers, and quotients
\* are kept precisely enough to be told from what is cleared.
NeighboursWeigh(dimA) ==
    /\ IsFiniteSet(Neighbours(dimA).E)
    /\ \A v \in Neighbours(dimA).E : v.weight \in Int
NeighbourWeights ==
    /\ Precision > 1
    /\ \A g \in Specs, caps \in Caps, zone \in Zones :
        ~HntrAFails(g) => NeighboursWeigh(AGridOf(g, DOMAIN LonLatGrid(g, caps, zone)))
===============================================================================
