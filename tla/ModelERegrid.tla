----------------------------- MODULE ModelERegrid -----------------------------
(***************************************************************************)
(* The matrices between an ice sheet and ModelE's atmosphere grid:         *)
(* slib/icebin/modele/GCMRegridder_ModelE.cpp, with the helpers of topo.cpp *)
(* it calls, on top of the matrices that RegridMatrices_Dynamic makes for  *)
(* the ocean grid; and the correction between the elevation classes of two *)
(* geometries, slib/icebin/e1ve0.cpp.                                      *)
(*                                                                         *)
(* O is the ocean grid that the exchange grid was made for, A the one of   *)
(* half as many cells.  Op is the ocean with its fractions, out of Full,   *)
(* Om the ocean rounded for ModelE: 0 or Full.                             *)
(***************************************************************************)
EXTENDS GridGen

CONSTANT Full       \* all of an O cell

CellOfE(e) == e[1]

\* Positions of generated grids and cells of Hntr
Hcell(p) == <<p[1] + 1, p[2] + 1>>
Pcell(c) == <<c[1] - 1, c[2] - 1>>

-----------------------------------------------------------------------------
(* make_agridA(): the atmosphere cells over the realized ocean cells *)

OvA(specO, dimO) == Overlap(HntrA(specO), specO, {Hcell(p) : p \in dimO})

AGridOf(specO, dimO) == {Pcell(rc[2]) : rc \in DOMAIN OvA(specO, dimO)}

\* The A cell over an O cell
Over(specO, o) == CHOOSE a \in AGridOf(specO, {o}) : TRUE

-----------------------------------------------------------------------------
(* RegridMatrices_Dynamic of the ocean grid *)

\* The four Ur matrices that regrid_matrices() binds; sheet: its exchange grid x
\* and the areas geom
UrO(sheet, elev, hcdefs, style) ==
    [A |-> GvAp(sheet.x, elev), E |-> GvEp(sheet.x, elev, hcdefs, style),
     I |-> GvI(sheet.x, elev)]

\* GCMRegridder_Standard::regrid_matrices() with correctA, unscaled
StandardMatrices(sheet, ur) ==
    [AvI |-> AEvI(sheet.x, ur.A, ur.I, sheet.geom, "A", TRUE),
     EvI |-> AEvI(sheet.x, ur.E, ur.I, sheet.geom, "E", TRUE),
     IvA |-> IvAE(sheet.x, ur.A, ur.I, sheet.geom, "A", TRUE),
     IvE |-> IvAE(sheet.x, ur.E, ur.I, sheet.geom, "E", TRUE)]

-----------------------------------------------------------------------------
(* ComputeXAmvGp_Helper *)

\* compute_wAOm(): the area that ModelE gives the ice of an O cell it has as
\* land, magnified to the whole cell; none where the ice model has only ocean
WAOm(wAOp, op, om) ==
    [o \in {p \in DOMAIN wAOp : om[p] = 0} |->
        IF op[o] = Full THEN 0 ELSE (wAOp[o] * Full) \div (Full - op[o])]

\* compute_EOmvAOm_unscaled(): the classes of those O cells
EOmvAOm(EOpvAOp, dimAOm) ==
    Restrict(EOpvAOp, {rc \in DOMAIN EOpvAOp : rc[2] \in dimAOm})

\* Faulty variant: every class gets all the area of its cell.
WEOm_Unshared(M, wAOm, spacing) ==
    [e \in RowsOf(M) |-> wAOm[CellOfE(e)] * spacing]

\* wEOm: the area of an O cell, shared out among its classes.  Like all weights
\* of classes it is Spacing times the code's.
WEOm(M, wAOm, spacing) ==
    LET w == ColSum(M)
    IN  [e \in RowsOf(M) |->
            MapThenSumSet(LAMBDA rc : (M[rc] * wAOm[rc[2]] * spacing) \div w[rc[2]],
                          {rc \in DOMAIN M : rc[1] = e})]

\* raw_EOvEA(): a class of O belongs to the same class of the A cell over it.
EAvEO(specO, wEOm) ==
    [rc \in {<<<<Over(specO, e[1]), e[2]>>, e>> : e \in {f \in DOMAIN wEOm : wEOm[f] # 0}}
        |-> wEOm[rc[2]]]

\* For grid A, Hntr gives the matrix: areas of the O cells.
AAvAO(specO, dimAOm) ==
    LET M == OvA(specO, dimAOm)
    IN  [rc \in {<<Pcell(sc[2]), Pcell(sc[1])>> : sc \in DOMAIN M} |->
            M[<<Hcell(rc[2]), Hcell(rc[1])>>]]

\* wXOm: the weights of the cells of O, or of the classes, that are in Om
WXOm(gridAE, EOpvAOp, wAOm, spacing) ==
    IF gridAE = "A" THEN wAOm
    ELSE WEOm(EOmvAOm(EOpvAOp, DOMAIN wAOm), wAOm, spacing)

XAvXO(gridAE, specO, wXOm) ==
    IF gridAE = "A" THEN AAvAO(specO, DOMAIN wXOm) ELSE EAvEO(specO, wXOm)

\* XAmvXOm*diag(XAmvXOms) only has ones: weights of O cells add up.
HelperOf(XOpvG, wXOm, M) ==
    [dimXOm |-> DOMAIN wXOm, wXOm |-> wXOm, XAvXO |-> M, XOpvG |-> XOpvG,
     wXAm   |-> RowSum([rc \in DOMAIN M |-> wXOm[rc[2]]])]

\* What ComputeXAmvGp_Helper computes for grid "A" or "E".  G is the grid of the
\* ice sheet: its cells I, or the exchange cells X.
Helper(gridAE, gridG, specO, sheet, ur, op, om, spacing) ==
    LET XOpvG == IF gridG = "I"
                 THEN AEvI(sheet.x, ur[gridAE], ur.I, sheet.geom, gridAE, FALSE)
                 ELSE AEvX(ur[gridAE])
        wAOm == WAOm(Corrected(sheet.geom, "A", ColSum(ur.A)), op, om)
        of(wXOm) == HelperOf(XOpvG, wXOm, XAvXO(gridAE, specO, wXOm))
    IN  of(WXOm(gridAE, EvA(sheet.x, ur.E, ur.A).M, wAOm, spacing))

\* crop_mvp(): without the rows that are not in Om
Cropped(M, dim) == Restrict(M, {rc \in DOMAIN M : rc[1] \in dim})

\* compute_XAmvGp(), scaled: the mean over the O cells of the means that the ocean
\* grid's matrix takes.  A's O cells count by their size, E's classes by their ice.
XAmvGp(h) ==
    LET XOpvG == Cropped(h.XOpvG.M, h.dimXOm)
        total == RowSum(h.XAvXO)
    IN  [M |-> Accumulate({
                <<ab, ab[1][1], ab[2][2],
                  (((Precision * XOpvG[ab[2]]) \div h.XOpvG.wM[ab[2][1]]) * h.XAvXO[ab[1]])
                        \div total[ab[1][1]]>> :
                ab \in {cd \in (DOMAIN h.XAvXO) \X (DOMAIN XOpvG) : cd[1][2] = cd[2][1]}}),
         wM |-> h.wXAm, Mw |-> h.XOpvG.Mw]

\* Faulty variant: the ice of cells that ModelE has as ocean is kept.
GpvXAm_Uncropped(specO, h, GvXO) ==
    LET up(xo) == IF \E rc \in DOMAIN h.XAvXO : rc[2] = xo
                  THEN CHOOSE xa \in RowsOf(h.XAvXO) : <<xa, xo>> \in DOMAIN h.XAvXO
                  ELSE <<Over(specO, xo[1]), xo[2]>>
    IN  [M |-> Accumulate({<<rc, rc[1], up(rc[2]), GvXO[rc]>> : rc \in DOMAIN GvXO}),
         wM |-> h.XOpvG.Mw, Mw |-> h.wXAm]

\* compute_GpvXAm(), unscaled: the columns of the O cells that are in Om, added
\* up to those of A
GpvXAm(specO, h, GvXO) ==
    [M |-> Accumulate({<<ab, ab[1][1], ab[2][1], GvXO[ab[1]]>> :
                ab \in {cd \in (DOMAIN GvXO) \X (DOMAIN h.XAvXO) :
                            cd[1][2] = cd[2][2] /\ cd[1][2] \in h.dimXOm}}),
     wM |-> h.XOpvG.Mw, Mw |-> h.wXAm]

\* The matrices of GCMRegridder_ModelE::regrid_matrices() that a coupling uses
ModelEMatrices(specO, sheet, ur, op, om, spacing) ==
    LET help(gridAE, gridG) == Helper(gridAE, gridG, specO, sheet, ur, op, om, spacing)
        IvEOp == IvAE(sheet.x, ur.E, ur.I, sheet.geom, "E", FALSE).M
        ofE == help("E", "I")
    IN  [AvI |-> XAmvGp(help("A", "I")), EvI |-> XAmvGp(ofE),
         IvE |-> GpvXAm(specO, ofE, IvEOp),
         XvE |-> GpvXAm(specO, help("E", "X"), ur.E)]

-----------------------------------------------------------------------------
(* compute_E1vE0c() *)

\* A matrix XuE with its rows divided by the weights of the exchange cells;
\* Spacing times the code's
ScaledX(XuE, spacing) ==
    [rc \in DOMAIN XuE.M |-> (XuE.M[rc] * spacing) \div XuE.wM[rc[1]]]

\* XvE0 - XvE1
Difference(M0, M1) ==
    [rc \in DOMAIN M0 \cup DOMAIN M1 |-> At(M0, rc) - At(M1, rc)]

\* Faulty variant: the classes of the earlier geometry are corrected.
E1vE0c_OldClasses(XuE1, XuE0, spacing) ==
    LET D == Difference(ScaledX(XuE0, spacing), ScaledX(XuE1, spacing))
    IN  [M |-> Accumulate({<<ab, ab[1][2], ab[2][2], XuE0.M[ab[1]] * D[ab[2]]>> :
                    ab \in {cd \in (DOMAIN XuE0.M) \X (DOMAIN D) : cd[1][1] = cd[2][1]}}),
         s |-> XuE0.Mw]

\* Faulty variant: what X cells of one I cell have in common is taken for theirs.
E1vE0c_OverI(XuE1, XuE0, spacing) ==
    LET D == Difference(ScaledX(XuE0, spacing), ScaledX(XuE1, spacing))
    IN  [M |-> Accumulate({<<ab, ab[1][2], ab[2][2], XuE1.M[ab[1]] * D[ab[2]]>> :
                    ab \in {cd \in (DOMAIN XuE1.M) \X (DOMAIN D) : cd[1][1][2] = cd[2][1][2]}}),
         s |-> XuE1.Mw]

\* E1uX*(XvE0 - XvE1), before it is scaled by the weights s of the classes
E1vE0c(XuE1, XuE0, spacing) ==
    LET D == Difference(ScaledX(XuE0, spacing), ScaledX(XuE1, spacing))
    IN  [M |-> Accumulate({<<ab, ab[1][2], ab[2][2], XuE1.M[ab[1]] * D[ab[2]]>> :
                    ab \in {cd \in (DOMAIN XuE1.M) \X (DOMAIN D) : cd[1][1] = cd[2][1]}}),
         s |-> XuE1.Mw]
===============================================================================
