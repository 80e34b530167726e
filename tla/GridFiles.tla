------------------------------ MODULE GridFiles ------------------------------
(***************************************************************************)
(* Grids in memory and in files: slib/icebin/Grid.hpp and Grid.cpp, with   *)
(* the VertexCache of gridgen/gridutil.cpp that the generators share       *)
(* vertices with, and the ExchangeGrid and AbbrGrid of AbbrGrid.cpp that   *)
(* are left of a grid in the regridder.                                    *)
(*                                                                         *)
(* In memory, a Grid has vertices, numbered as they were added, and for    *)
(* each the point xy and the index that the file will know it by; and      *)
(* cells, each with its index, what it was made of (ijk), its area and its *)
(* vertices.  A file has only sequences; what it counts from 0 is counted  *)
(* from 1 here.                                                            *)
(***************************************************************************)
EXTENDS GridGen, SequencesExt

\* The corners of a cell, counterclockwise
Corners(c) == <<<<c.x0, c.y0>>, <<c.x1, c.y0>>, <<c.x1, c.y1>>, <<c.x0, c.y1>>>>

\* VertexCache: a vertex for every point, numbered as they come
AddVertex(xy, p) == IF p \in Range(xy) THEN xy ELSE Append(xy, p)

\* What a generator makes of the cells, in the order it comes to them
MadeGrid(grid, order) ==
    LET corners == [n \in DOMAIN order |-> Corners(grid[order[n]])]
        xy == FoldLeft(AddVertex, <<>>, FlattenSeq(corners))
        vertex(p) == CHOOSE v \in DOMAIN xy : xy[v] = p
    IN  [xy |-> xy,
         index |-> [v \in DOMAIN xy |-> v],
         cells |-> [n \in DOMAIN order |->
                    [ijk |-> order[n], native |-> grid[order[n]].native,
                     vertices |-> [k \in 1..4 |-> vertex(corners[n][k])]]]]

\* Latitude by latitude
RowMajor(grid) ==
    LET before(p, q) == p[2] < q[2] \/ (p[2] = q[2] /\ p[1] < q[1])
        place(p) == 1 + Cardinality({q \in DOMAIN grid : before(q, p)})
    IN  [n \in 1..Cardinality(DOMAIN grid) |-> CHOOSE p \in DOMAIN grid : place(p) = n]

\* In whatever order
AnyOrder(S) == FoldSet(LAMBDA c, order : Append(order, c), <<>>, S)

\* sort_renumber_vertices(): the index of a vertex is its place by x, then y.
\* Cells keep their vertices.
SortRenumbered(g) ==
    LET before(p, q) == p[1] < q[1] \/ (p[1] = q[1] /\ p[2] < q[2])
    IN  [g EXCEPT !.index = [v \in DOMAIN g.xy |->
            1 + Cardinality({u \in DOMAIN g.xy : before(g.xy[u], g.xy[v])})]]

-----------------------------------------------------------------------------
(* Files *)

\* Faulty variant: the cells refer to vertices as they were first numbered.
Written_ByKey(g) ==
    LET refs == [n \in DOMAIN g.cells |-> g.cells[n].vertices]
        starts == [n \in 1..(Len(refs) + 1) |->
                    1 + MapThenSumSet(LAMBDA m : Len(refs[m]), 1..(n - 1))]
        at(k) == CHOOSE v \in DOMAIN g.xy : g.index[v] = k
    IN  [vertices_xy |-> [k \in DOMAIN g.xy |-> g.xy[at(k)]],
         cells_ijk |-> [n \in DOMAIN g.cells |-> g.cells[n].ijk],
         native_area |-> [n \in DOMAIN g.cells |-> g.cells[n].native],
         vertex_refs |-> FlattenSeq(refs), vertex_refs_start |-> starts]

\* Grid::nc_write(): vertices by index, cells by index, and the indices of the
\* vertices of all cells one after the other, with where each starts and, in the
\* end, where one more would
Written(g) ==
    LET refs == [n \in DOMAIN g.cells |->
                    [k \in DOMAIN g.cells[n].vertices |-> g.index[g.cells[n].vertices[k]]]]
        starts == [n \in 1..(Len(refs) + 1) |->
                    1 + MapThenSumSet(LAMBDA m : Len(refs[m]), 1..(n - 1))]
        at(k) == CHOOSE v \in DOMAIN g.xy : g.index[v] = k
    IN  [vertices_xy |-> [k \in DOMAIN g.xy |-> g.xy[at(k)]],
         cells_ijk |-> [n \in DOMAIN g.cells |-> g.cells[n].ijk],
         native_area |-> [n \in DOMAIN g.cells |-> g.cells[n].native],
         vertex_refs |-> FlattenSeq(refs), vertex_refs_start |-> starts]

\* Grid::nc_read(): the polygon of each cell, found through its references
Polygon(file, n) ==
    LET start == file.vertex_refs_start[n]
    IN  [k \in 1..(file.vertex_refs_start[n + 1] - start) |->
            file.vertices_xy[file.vertex_refs[start + k - 1]]]

\* The grid again, its cells as rectangles
ReadGrid(file) ==
    LET cell(n) == LET p == Polygon(file, n)
                   IN  [x0 |-> p[1][1], y0 |-> p[1][2], x1 |-> p[3][1], y1 |-> p[3][2],
                        native |-> file.native_area[n]]
        place(ijk) == CHOOSE n \in DOMAIN file.cells_ijk : file.cells_ijk[n] = ijk
    IN  [ijk \in Range(file.cells_ijk) |-> cell(place(ijk))]

-----------------------------------------------------------------------------
(* The program overlap *)

\* overlap_callback(): a cell for each pair that overlaps, in whatever order they
\* are found
ExchangeCells(gridA, gridI) ==
    LET x == Exchange(gridA, gridI)
    IN  [c \in x.cells |->
            LET p == gridA[c[1]]  q == gridI[c[2]]
            IN  [x0 |-> Max({p.x0, q.x0}), x1 |-> Min({p.x1, q.x1}),
                 y0 |-> Max({p.y0, q.y0}), y1 |-> Min({p.y1, q.y1}), native |-> x.area[c]]]

OverlapFile(gridA, gridI) ==
    LET cells == ExchangeCells(gridA, gridI)
    IN  [gridA |-> Written(MadeGrid(gridA, RowMajor(gridA))),
         gridI |-> Written(MadeGrid(gridI, RowMajor(gridI))),
         exgrid |-> Written(SortRenumbered(MadeGrid(cells, AnyOrder(DOMAIN cells))))]

\* ExchangeGrid(Grid): pairs of cells and areas
ExchangeOf(file) ==
    LET n(c) == CHOOSE k \in DOMAIN file.cells_ijk : file.cells_ijk[k] = c
        cells == Range(file.cells_ijk)
    IN  [cells |-> cells,
         a |-> [c \in cells |-> c[1]],
         i |-> [c \in cells |-> c[2]],
         area |-> [c \in cells |-> file.native_area[n(c)]]]
===============================================================================
