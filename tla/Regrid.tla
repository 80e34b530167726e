-------------------------------- MODULE Regrid --------------------------------
(***************************************************************************)
(* The matrices of an ice sheet: icebin/IceRegridder_L0.cpp relates the    *)
(* cells of the exchange grid X to the ice grid I, the GCM grid A and the  *)
(* elevation grid E, RegridMatrices_Dynamic.cpp multiplies those into the  *)
(* matrices between A, E, I and X.                                         *)
(*                                                                         *)
(* An exchange grid x is a record: cells (a set), a and i (the A and I     *)
(* cell that each lies in) and area.  elev gives the elevation of the I    *)
(* cells that are not masked out.  A class of E is <<a, h>>, where h       *)
(* indexes the elevations hcdefs, Spacing(hcdefs) apart.  Matrices are     *)
(* functions from <<row, column>>, where they have an entry, to integers;  *)
(* those from or to E are Spacing(hcdefs) times the code's.                *)
(***************************************************************************)
EXTENDS Integers, Sequences, FiniteSets, FiniteSetsExt, Functions, TLC

(* Sparse matrices: MakeDenseEigenT and sum() *)

\* Entries <<key, row, column, value>> at one place add up.
Accumulate(T) ==
    [rc \in {<<t[2], t[3]>> : t \in T} |->
        MapThenSumSet(LAMBDA t : t[4], {t \in T : <<t[2], t[3]>> = rc})]

RowsOf(M) == {rc[1] : rc \in DOMAIN M}
ColsOf(M) == {rc[2] : rc \in DOMAIN M}

\* sum(M, 0) and sum(M, 1)
RowSum(M) ==
    [r \in RowsOf(M) |->
        MapThenSumSet(LAMBDA rc : M[rc], {rc \in DOMAIN M : rc[1] = r})]
ColSum(M) ==
    [c \in ColsOf(M) |->
        MapThenSumSet(LAMBDA rc : M[rc], {rc \in DOMAIN M : rc[2] = c})]

\* What weight a function has at a key, which need not be in its domain
At(f, k) == IF k \in DOMAIN f THEN f[k] ELSE 0

\* Functions of numbers add up key by key.
Plus(f, g) == [k \in DOMAIN f \cup DOMAIN g |-> At(f, k) + At(g, k)]

-----------------------------------------------------------------------------
(* IceRegridder_L0 *)

Spacing(hcdefs) == hcdefs[2] - hcdefs[1]

\* std::lower_bound(): the first class that is not below z, Len + 1 if none
LowerBound(hcdefs, z) ==
    Min({h \in DOMAIN hcdefs : hcdefs[h] >= z} \cup {Len(hcdefs) + 1})

\* nearest_1d(): the class nearest to z, the lower one of two
NearestClass(hcdefs, z) ==
    LET h == LowerBound(hcdefs, z)
    IN  IF h = 1 THEN 1
        ELSE IF h > Len(hcdefs) THEN Len(hcdefs)
        ELSE IF z - hcdefs[h - 1] <= hcdefs[h] - z THEN h - 1
        ELSE h

\* linterp_1d_b() rejects an elevation above the highest class, and any where
\* there is one class; GvEp() rejects an empty list.
OutOfBounds(hcdefs, z) ==
    Len(hcdefs) < 2 \/ LowerBound(hcdefs, z) > Len(hcdefs)

\* Interpolation between the classes around z.  Below the first class this
\* extrapolates, with a negative weight.
Interpolated(hcdefs, z) ==
    LET h == Max({LowerBound(hcdefs, z), 2})
        ratio == z - hcdefs[h - 1]
        w == [k \in {h - 1, h} |-> IF k = h THEN ratio ELSE Spacing(hcdefs) - ratio]
    IN  Restrict(w, {k \in DOMAIN w : w[k] # 0})

ClassWeights(hcdefs, style, z) ==
    IF style = "Z_INTERP" THEN Interpolated(hcdefs, z)
    ELSE [h \in {NearestClass(hcdefs, z)} |-> Spacing(hcdefs)]

\* The exchange cells on ice that is not masked out
UsedX(x, elev) == {c \in x.cells : x.i[c] \in DOMAIN elev}

\* GvEp(): elevation classes of the exchange cells, where ice is at least at
\* sea level
GvEp(x, elev, hcdefs, style) ==
    Accumulate(UNION {
        LET w == ClassWeights(hcdefs, style, Max({elev[x.i[c]], 0}))
        IN  {<<c, c, <<x.a[c], h>>, x.area[c] * w[h]>> : h \in DOMAIN w}
        : c \in UsedX(x, elev)})

GvEpFails(x, elev, hcdefs, style) ==
    \E c \in UsedX(x, elev) :
        \/ hcdefs = <<>>
        \/ style = "Z_INTERP" /\ OutOfBounds(hcdefs, Max({elev[x.i[c]], 0}))

\* GvAp() and GvI(), the areas of the exchange cells
GvAp(x, elev) ==
    Accumulate({<<c, c, x.a[c], x.area[c]>> :
                    c \in {d \in UsedX(x, elev) : x.area[d] > 0}})
GvI(x, elev) ==
    Accumulate({<<c, c, x.i[c], x.area[c]>> : c \in UsedX(x, elev)})

-----------------------------------------------------------------------------
(* RegridMatrices_Dynamic *)

\* B*diag(1/rowsum(G))*C: every exchange cell shares out its entry of B among
\* the columns of C.  G is B or C, whichever is not over E: its only entry in a
\* row is the cell's area.
Through(x, B, C) ==
    Accumulate(UNION {
        {<<<<b, c>>, b[2], c[2], (B[b] * C[c]) \div x.area[b[1]]>> :
            c \in {d \in DOMAIN C : d[1] = b[1]}} : b \in DOMAIN B})

\* correctA multiplies by the ratio of a cell's native to its projected area.
\* geom: native and proj, per A cell; the cells r are those of grid, A or E.
CellIn(grid, r) == IF grid = "E" THEN r[1] ELSE r
Corrected(geom, grid, w) ==
    [r \in DOMAIN w |->
        (w[r] * geom.native[CellIn(grid, r)]) \div geom.proj[CellIn(grid, r)]]

\* compute_AEvI(): the unscaled matrix to A or E, and its weights.  The scaled
\* matrix has its rows divided by wM, the row sums corrected or not.
AEvI(x, ur, gvi, geom, grid, correctA) ==
    LET M == Through(x, ur, gvi)
    IN  [M  |-> M,
         wM |-> IF correctA THEN Corrected(geom, grid, RowSum(M)) ELSE RowSum(M),
         Mw |-> ColSum(M)]

\* Igrid = 'X': the same from the exchange cells, which ur already relates
Transposed(M) == [rc \in {<<sc[2], sc[1]>> : sc \in DOMAIN M} |-> M[<<rc[2], rc[1]>>]]
AEvX(ur) ==
    [M |-> Transposed(ur), wM |-> ColSum(ur), Mw |-> RowSum(ur)]

\* Faulty variant: correctA leaves Mw alone.
IvAE_MwProjected(x, ur, gvi, geom, grid, correctA) ==
    LET M == Through(x, gvi, ur)
        ratio(c) == IF correctA THEN geom.native[CellIn(grid, c)] ELSE 1
        proj(c)  == IF correctA THEN geom.proj[CellIn(grid, c)] ELSE 1
    IN  [M  |-> [rc \in DOMAIN M |-> (M[rc] * ratio(rc[2])) \div proj(rc[2])],
         wM |-> RowSum(M),
         Mw |-> ColSum(M)]

\* compute_IvAE(): from A or E.  Correcting multiplies the columns.
IvAE(x, ur, gvi, geom, grid, correctA) ==
    LET M == Through(x, gvi, ur)
        ratio(c) == IF correctA THEN geom.native[CellIn(grid, c)] ELSE 1
        proj(c)  == IF correctA THEN geom.proj[CellIn(grid, c)] ELSE 1
    IN  [M  |-> [rc \in DOMAIN M |-> (M[rc] * ratio(rc[2])) \div proj(rc[2])],
         wM |-> RowSum(M),
         Mw |-> IF correctA THEN Corrected(geom, grid, ColSum(M)) ELSE ColSum(M)]

\* compute_EvA(), for EvA and for AvE with the roles of E and A swapped
EvA(x, urE, urA) ==
    LET M == Through(x, urE, urA) IN [M |-> M, wM |-> RowSum(M), Mw |-> ColSum(M)]
AvE(x, urE, urA) ==
    LET M == Through(x, urA, urE) IN [M |-> M, wM |-> RowSum(M), Mw |-> ColSum(M)]
===============================================================================
