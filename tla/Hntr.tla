--------------------------------- MODULE Hntr ---------------------------------
(***************************************************************************)
(* Regridding between two latitude-longitude grids: class Hntr of          *)
(* slib/icebin/modele/hntr.cpp and hntr.hpp.                               *)
(*                                                                         *)
(* A grid is a record: im cells per latitude, jm latitudes, offi (the      *)
(* offset of the grid eastward, in quarters of a cell; even where an       *)
(* atmosphere grid is made over it) and dlat.  Quadrant is the latitude of *)
(* the pole, twice dlat is the height of a cell: a regular grid has        *)
(* jm*dlat = Quadrant.  A parabola takes the place of the sine: it too is  *)
(* odd, increases from pole to pole and turns back beyond.                 *)
(* A cell is <<i, j>>, from <<1, 1>>.                                      *)
(***************************************************************************)
EXTENDS Regrid

CONSTANTS
    Quadrant,       \* latitude of the north pole
    Precision       \* a double is an integer number of 1/Precision

ASSUME HntrAssumption == {Quadrant, Precision} \subseteq Nat \ {0}

Missing == -1000000     \* DATMIS, below any value of a field

Cells(g) == (1..g.im) \X (1..g.jm)
Regular(g) == g.jm * g.dlat = Quadrant

Sine(y) == y * (2 * Quadrant - (IF y < 0 THEN -y ELSE y))

\* make_dxyp(): area of the cells of a latitude, times 2*pi/im.  The equator is
\* the edge jm/2, rounded down, whatever the parity of jm.
Dxyp(g, j) ==
    LET lat(k) == (2 * Quadrant * (k - g.jm \div 2)) \div g.jm
    IN  Sine(lat(j)) - Sine(lat(j - 1))

\* HntrSpec() takes a small dlat for degrees.
SpecFails(g) == 10 * g.dlat * g.jm < Quadrant

\* Faulty variant: the offset is in cells of the ocean grid.
HntrA_SameOffset(g) == [im |-> g.im \div 2, jm |-> g.jm \div 2,
                        offi |-> g.offi, dlat |-> 2 * g.dlat]

\* make_hntrA(): the atmosphere grid over an ocean grid
HntrA(g) == [im |-> g.im \div 2, jm |-> g.jm \div 2,
             offi |-> g.offi \div 2, dlat |-> 2 * g.dlat]
HntrAFails(g) == g.im % 2 # 0 \/ g.jm % 2 # 0

-----------------------------------------------------------------------------
(* Partition east-west.  Lengths along a latitude are in units of 1/(4*im) *)
(* of a cell of A, im being that of B.                                     *)

\* RIA - RIB: how far the eastern edge of cell ia of A lies beyond the western
\* edge of cell ib of B
Beyond(A, B, ia, ib) ==
    (4 * (ia - A.im) + A.offi) * B.im - (4 * (ib - 1) + B.offi) * A.im

\* The first cell of A whose eastern edge is not west of that edge
EdgeCell(A, B, ib) == Min({ia \in 1..(2 * A.im + 1) : Beyond(A, B, ia, ib) >= 0})

\* IMIN and FMIN: the first cell of A in cell ib of B, and what to cut off it
West(A, B, ib) ==
    LET ia == EdgeCell(A, B, ib)
        d == Beyond(A, B, ia, ib)
    IN  IF d = 0 THEN [cell |-> ia + 1, cut |-> 0]
        ELSE [cell |-> ia, cut |-> 4 * B.im - d]

\* Faulty variant: the last cell of B does not reach around the globe.
East_NoWrap(A, B, ib) ==
    LET e == (ib % B.im) + 1
        ia == EdgeCell(A, B, e)
    IN  [cell |-> ia, cut |-> Beyond(A, B, ia, e)]

\* IMAX and FMAX: the last cell.  That of the last cell of B is counted around
\* the globe.
East(A, B, ib) ==
    LET e == (ib % B.im) + 1
        ia == EdgeCell(A, B, e)
    IN  [cell |-> ia + (IF ib = B.im THEN A.im ELSE 0), cut |-> Beyond(A, B, ia, e)]

-----------------------------------------------------------------------------
(* Partition north-south *)

\* SINA and SINB: sine of the northern edge of latitude j
NorthEdge(g, j) ==
    IF j = 0 THEN -(Quadrant * Quadrant)
    ELSE IF j = g.jm THEN Quadrant * Quadrant
    ELSE Sine((2 * j - g.jm) * g.dlat)

\* The latitude of A that holds the northern edge of latitude jb of B
EdgeRow(A, B, jb) == Min({ja \in 1..A.jm : NorthEdge(A, ja) >= NorthEdge(B, jb)})

\* JMIN and GMIN
South(A, B, jb) ==
    IF jb = 1 THEN [row |-> 1, cut |-> 0]
    ELSE LET ja == EdgeRow(A, B, jb - 1)
             edge == NorthEdge(B, jb - 1)
         IN  IF NorthEdge(A, ja) = edge THEN [row |-> ja + 1, cut |-> 0]
             ELSE [row |-> ja, cut |-> edge - NorthEdge(A, ja - 1)]

\* JMAX and GMAX
North(A, B, jb) ==
    IF jb = B.jm THEN [row |-> A.jm, cut |-> 0]
    ELSE LET ja == EdgeRow(A, B, jb)
         IN  [row |-> ja, cut |-> NorthEdge(A, ja) - NorthEdge(B, jb)]

-----------------------------------------------------------------------------
(* Hntr::matrix() *)

\* The cells of A in cell b of B, as <<visit, cell, F*G>>.  A cell that b meets at
\* both of its ends is visited twice.
Visits(A, B, b) ==
    LET w == West(A, B, b[1])   e == East(A, B, b[1])
        s == South(A, B, b[2])  n == North(A, B, b[2])
        F(ia) == 4 * B.im - (IF ia = w.cell THEN w.cut ELSE 0)
                          - (IF ia = e.cell THEN e.cut ELSE 0)
        G(ja) == NorthEdge(A, ja) - NorthEdge(A, ja - 1)
                    - (IF ja = s.row THEN s.cut ELSE 0)
                    - (IF ja = n.row THEN n.cut ELSE 0)
    IN  {<<<<ia, ja>>, <<((ia - 1) % A.im) + 1, ja>>, F(ia) * G(ja)>> :
            ia \in w.cell..e.cell, ja \in s.row..n.row}

Weight(visits) == MapThenSumSet(LAMBDA v : v[3], visits)

\* overlap(): areas in common of the cells of B that are included and those of A,
\* in units of 2*pi/(4 A.im B.im)
Overlap(A, B, included) ==
    Accumulate(UNION {
        LET visits == Visits(A, B, b)
        IN  {<<v[1], b, v[2], (v[3] * Dxyp(B, b[2]) * 4 * A.im) \div Weight(visits)>> :
                v \in visits}
        : b \in included})

\* The areas of the cells in those units
AreaA(A, B, a) == Dxyp(A, a[2]) * 4 * B.im
AreaB(A, B, b) == Dxyp(B, b[2]) * 4 * A.im

-----------------------------------------------------------------------------
(* Hntr::regrid() of a field, weighted *)

RegridCell(A, B, wta, field, b) ==
    LET visits == Visits(A, B, b)
        weight == MapThenSumSet(LAMBDA v : v[3] * wta[v[2]], visits)
        value  == MapThenSumSet(LAMBDA v : v[3] * wta[v[2]] * field[v[2]], visits)
    IN  IF weight = 0 THEN Missing ELSE (value * Precision) \div weight

PolarRow(B, f, b) == {f[<<i, b[2]>>] : i \in 1..B.im}

\* Faulty variant: what is missing counts as a value.
MeanPolar_WithMissing(B, f) ==
    [b \in Cells(B) |->
        IF b[2] \notin {1, B.jm} THEN f[b]
        ELSE MapThenSumSet(LAMBDA i : f[<<i, b[2]>>], 1..B.im) \div B.im]

\* mean_polar: a polar latitude gets its mean, and no value at all as soon as one
\* of its cells has none.
MeanPolar(B, f) ==
    [b \in Cells(B) |->
        IF b[2] \notin {1, B.jm} THEN f[b]
        ELSE IF Missing \in PolarRow(B, f, b) THEN Missing
        ELSE MapThenSumSet(LAMBDA i : f[<<i, b[2]>>], 1..B.im) \div B.im]

RegridField(A, B, wta, field, meanPolar) ==
    LET f == [b \in Cells(B) |-> RegridCell(A, B, wta, field, b)]
    IN  IF meanPolar THEN MeanPolar(B, f) ELSE f
===============================================================================
