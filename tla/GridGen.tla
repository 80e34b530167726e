------------------------------- MODULE GridGen -------------------------------
(***************************************************************************)
(* Making grids: slib/icebin/GridSpec.cpp and the generators of            *)
(* slib/icebin/gridgen/, called by the programs of gridgen/.               *)
(*                                                                         *)
(* A generated grid is a function from the positions <<i, j>> of its       *)
(* realized cells, counted from 0, to records: a rectangle (x0, x1, y0,    *)
(* y1) on the map and the native area.  The map projection is external;    *)
(* here it takes longitude and latitude for x and y, so that areas shrink  *)
(* poleward on the sphere but not on the map.  The globe is 4*Quadrant     *)
(* wide.                                                                   *)
(***************************************************************************)
EXTENDS Hntr

(* make_grid_spec(): boundaries of a latitude-longitude grid *)

\* Longitude starts at -180 degrees.
LonB(g, i) == -2 * Quadrant + ((g.offi + 4 * i) * Quadrant) \div g.im

\* Latitudes are counted from the equator, jm/2 on either side, one less if the
\* last ones are made polar caps.
HalfRows(g, caps) == g.jm \div 2 - (IF caps THEN 1 ELSE 0)
LatB(g, caps, j) == 2 * (j - HalfRows(g, caps)) * g.dlat
NLat(g, caps) == 2 * HalfRows(g, caps) + (IF caps THEN 2 ELSE 0)

\* make_grid_spec() needs an even im, GridSpec_LonLat() room for the caps.
GridSpecFails(g, caps) ==
    \/ g.im % 2 # 0
    \/ caps /\ LatB(g, caps, 2 * HalfRows(g, caps)) = Quadrant

-----------------------------------------------------------------------------
(* Clipping *)

\* in_lon(), lon_intersect(): do two ranges of longitude meet, around the globe
InLon(lo, hi, x) == \E k \in -2..2 : x + 4 * Quadrant * k \in lo..hi
LonIntersect(lo0, hi0, lo1, hi1) ==
    \/ InLon(lo0, hi0, lo1) \/ InLon(lo0, hi0, hi1)
    \/ InLon(lo1, hi1, lo0) \/ InLon(lo1, hi1, hi0)

\* SphericalClip::lonlat(): cells that meet the box
InBox(box, c) ==
    /\ LonIntersect(c.x0, c.x1, box.x0, box.x1)
    /\ ~(c.y0 < box.y0 /\ c.y1 < box.y0)
    /\ ~(c.y0 > box.y1 /\ c.y1 > box.y1)

\* ice_sheet::clip(): Greenland is a box, Antarctica all that lies far south.
\* zone: the two, with "greenland" as a set of boxes and "south" as latitudes
Clip(zone, c) ==
    \/ \E box \in zone.greenland : InBox(box, c)
    \/ \E y \in zone.south : c.y0 <= y \/ c.y1 <= y

-----------------------------------------------------------------------------
(* Generators *)

\* graticule_area_exact(), and polar_graticule_area_exact() for a cap
SphereArea(x0, x1, y0, y1) == (x1 - x0) * (Sine(y1) - Sine(y0))

OnSphere(x0, x1, y0, y1) ==
    [x0 |-> x0, x1 |-> x1, y0 |-> y0, y1 |-> y1, native |-> SphereArea(x0, x1, y0, y1)]

\* The latitude-longitude cells and, with caps, one circle at each pole.  The
\* northern one is numbered one latitude beyond the grid.
LonLatCells(g, caps) ==
    LET shift == IF caps THEN 1 ELSE 0
        rows == 2 * HalfRows(g, caps)
        west == LonB(g, 0)
        east == LonB(g, g.im)
        north == <<g.im - 1, NLat(g, caps)>>
        south == <<0, 0>>
    IN  [p \in ((0..(g.im - 1)) \X (shift..(rows + shift - 1)))
                 \cup (IF caps THEN {north, south} ELSE {}) |->
            IF caps /\ p = north THEN OnSphere(west, east, LatB(g, caps, rows), Quadrant)
            ELSE IF caps /\ p = south THEN OnSphere(west, east, -Quadrant, LatB(g, caps, 0))
            ELSE OnSphere(LonB(g, p[1]), LonB(g, p[1] + 1),
                          LatB(g, caps, p[2] - shift), LatB(g, caps, p[2] - shift + 1))]

\* make_grid(GridSpec_LonLat): the cells that the clip keeps
LonLatGrid(g, caps, zone) ==
    LET all == LonLatCells(g, caps)
    IN  Restrict(all, {p \in DOMAIN all : Clip(zone, all[p])})

\* make_with_boundaries(): the size of the cells is adjusted to the domain.
NumCells(lo, hi, d) == (2 * (hi - lo) + d) \div (2 * d)
Boundary(lo, hi, n, k) == lo + ((hi - lo) * k) \div n

\* Cell::proj_area() of a rectangle
MapArea(c) == (c.x1 - c.x0) * (c.y1 - c.y0)

\* A cell of a map: its native area is that of the rectangle.
OnMap(x0, x1, y0, y1) ==
    [x0 |-> x0, x1 |-> x1, y0 |-> y0, y1 |-> y1, native |-> (x1 - x0) * (y1 - y0)]

\* make_grid(GridSpec_XY), with EuclidianClip::keep_all
XYGrid(s) ==
    LET nx == NumCells(s.x0, s.x1, s.dx)
        ny == NumCells(s.y0, s.y1, s.dy)
        x(k) == Boundary(s.x0, s.x1, nx, k)
        y(k) == Boundary(s.y0, s.y1, ny, k)
    IN  [p \in (0..(nx - 1)) \X (0..(ny - 1)) |->
            OnMap(x(p[1]), x(p[1] + 1), y(p[2]), y(p[2] + 1))]

-----------------------------------------------------------------------------
(* make_exchange_grid() *)

InCommon(lo0, hi0, lo1, hi1) == Min({hi0, hi1}) - Max({lo0, lo1})

\* poly_overlap(): cells that only touch have nothing in common
Meet(c, d) == /\ InCommon(c.x0, c.x1, d.x0, d.x1) > 0
              /\ InCommon(c.y0, c.y1, d.y0, d.y1) > 0

\* Two grids on the sphere cannot be overlapped, nor two with different
\* projections.  A projection is "" for a grid on the sphere.
ProjectionsFail(projA, projI) ==
    \/ projA = "" /\ projI = ""
    \/ projA # "" /\ projI # "" /\ projA # projI

\* The exchange grid, each of its cells a pair of an A cell and an I cell
Exchange(gridA, gridI) ==
    LET cells == {c \in (DOMAIN gridA) \X (DOMAIN gridI) : Meet(gridA[c[1]], gridI[c[2]])}
    IN  [cells |-> cells,
         a |-> [c \in cells |-> c[1]],
         i |-> [c \in cells |-> c[2]],
         area |-> [c \in cells |->
            LET p == gridA[c[1]]  q == gridI[c[2]]
            IN  InCommon(p.x0, p.x1, q.x0, q.x1) * InCommon(p.y0, p.y1, q.y0, q.y1)]]

-----------------------------------------------------------------------------
(* IceRegridder::init() *)

\* Native and projected area of the A cells; sproj = "" is an ice grid on the
\* sphere, whose areas are not projected.
AreasOf(gridA, sproj) ==
    [native |-> [p \in DOMAIN gridA |-> gridA[p].native],
     proj   |-> [p \in DOMAIN gridA |->
                    IF sproj = "" THEN gridA[p].native ELSE MapArea(gridA[p])]]
===============================================================================
