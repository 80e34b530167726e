------------------------------- MODULE GlobalEC -------------------------------
(***************************************************************************)
(* Elevation classes of the global ice: modele/global_ec.cpp computes the  *)
(* regridding matrices between the ice of the fine grid and the ocean or   *)
(* atmosphere grid, in chunks of O cells, each of which is a process and a *)
(* file of its own; modele/combine_global_ec.cpp adds the chunks up.       *)
(*                                                                         *)
(* Fine cells are the I grid (g1mx1m); the exchange grid is the fine cells *)
(* with ice.  Ice means a file e of etopo1_ice.                            *)
(***************************************************************************)
EXTENDS TopoBase, Regrid

CONSTANTS
    ECSkip,         \* --elev-classes: distance between elevation classes
    ChunkSize,      \* chunk_size: fine cells with ice that close a chunk
    GridOption,     \* --gcm-grid, "ocean" or "atmosphere"
    MatrixNames     \* --matrix-names, in the order they are combined

\* The matrices that a run may generate, in the order global_ec_section() does it
MatrixOrder == <<"AvI", "EvI", "IvE", "IvA", "AvE", "EvA">>

ASSUME GlobalECAssumption ==
    /\ ECSkip \in Nat \ {0}
    /\ ChunkSize \in Nat /\ ChunkSize > NSub
    /\ GridOption \in {"ocean", "atmosphere"}
    /\ MatrixNames \in Seq(Range(MatrixOrder)) /\ MatrixNames # <<>>

Positions == 1..(IM * JM)
CellAt(p) == <<((p - 1) % IM) + 1, ((p - 1) \div IM) + 1>>
IceIn(e, p) == FineOf(CellAt(p)) \cap e.fgice

-----------------------------------------------------------------------------
(* global_ec.cpp *)

\* Faulty variant: the highest class lies below the highest ice.
ECRange_Floor(e) ==
    LET z == {e.ztop[f] : f \in e.fgice}
    IN  <<ECSkip * (Min(z) \div ECSkip), ECSkip * (Max(z) \div ECSkip)>>

\* The elevation classes span all the ice, whatever the chunk; without ice the
\* range keeps its initial values.
ECRange(e) ==
    IF e.fgice = {} THEN <<10000, -10000>>
    ELSE LET z == {e.ztop[f] : f \in e.fgice}
         IN  <<ECSkip * (Min(z) \div ECSkip),
               ECSkip * ((Max(z) + ECSkip - 1) \div ECSkip)>>

Hcdefs(e) ==
    LET r == ECRange(e)
        n == IF r[1] > r[2] THEN 0 ELSE (r[2] - r[1]) \div ECSkip + 1
    IN  [h \in 1..n |-> r[1] + (h - 1) * ECSkip]

\* Where chunks start.  The scan closes a chunk at the cell whose ice makes it too
\* large; that cell starts the next one.
ChunkStarts(e) ==
    FoldLeft(LAMBDA scan, p :
                 LET ice == Cardinality(IceIn(e, p))
                 IN  IF ice > 0 /\ scan.nice + ice >= ChunkSize
                     THEN [starts |-> scan.starts \cup {p}, nice |-> ice]
                     ELSE [scan EXCEPT !.nice = @ + ice],
             [starts |-> {1}, nice |-> 0], [p \in Positions |-> p]).starts

\* Faulty variant: the last chunk is not closed at the end of the grid.
Chunks_Unclosed(e) ==
    {<<s, Min({n \in ChunkStarts(e) : n > s} \cup {IM * JM + 2})>> : s \in ChunkStarts(e)}

\* The chunks, as intervals of positions [start, end)
Chunks(e) ==
    {<<s, Min({n \in ChunkStarts(e) : n > s} \cup {IM * JM + 1})>> : s \in ChunkStarts(e)}

\* Faulty variant: the end of the chunk belongs to it.
ChunkIce_Closed(e, c) == UNION {IceIn(e, p) : p \in {q \in c[1]..c[2] : q \in Positions}}

\* elevmaskI of a chunk
ChunkIce(e, c) == UNION {IceIn(e, p) : p \in c[1]..(c[2] - 1)}

\* ExchAccum: one exchange cell for every fine cell with ice; gridcell has the
\* GCM cell over each.
ExchangeGrid(ice, gridcell) ==
    [cells |-> ice, a |-> gridcell,
     i |-> [f \in ice |-> f], area |-> [f \in ice |-> 1]]

GCMCell(f) == IF GridOption = "ocean" THEN OofF(f) ELSE AofO(OofF(f))

\* Those of the first n matrices that the run generates
Generated(n) == {MatrixOrder[k] : k \in 1..n} \cap Range(MatrixNames)

\* Their names in a chunk's file, with the character for the GCM grid
FileName ==
    IF GridOption = "ocean"
    THEN [AvI |-> "OvI", EvI |-> "EvI", IvE |-> "IvE", IvA |-> "IvO",
          AvE |-> "OvE", EvA |-> "EvO"]
    ELSE [AvI |-> "AvI", EvI |-> "EvI", IvE |-> "IvE", IvA |-> "IvA",
          AvE |-> "AvE", EvA |-> "EvA"]

\* A matrix on the ice, unscaled and uncorrected, with its weights
IceMatrix(name, elev, hcdefs) ==
    LET ice == DOMAIN elev
        x   == ExchangeGrid(ice, [f \in ice |-> GCMCell(f)])
        geom == [native |-> [f \in ice |-> 1], proj |-> [f \in ice |-> 1]]
        urA == GvAp(x, elev)
        urE == GvEp(x, elev, hcdefs, "Z_INTERP")
        gvi == GvI(x, elev)
    IN  CASE name = "AvI" -> AEvI(x, urA, gvi, geom, "A", FALSE)
          [] name = "EvI" -> AEvI(x, urE, gvi, geom, "E", FALSE)
          [] name = "IvE" -> IvAE(x, urE, gvi, geom, "E", FALSE)
          [] name = "IvA" -> IvAE(x, urA, gvi, geom, "A", FALSE)
          [] name = "AvE" -> AvE(x, urE, urA)
          [] name = "EvA" -> EvA(x, urE, urA)

ElevmaskOf(e, ice) == [f \in ice |-> e.ztop[f]]

\* check_negative(), and the errors of GvEp() where E is used
NegativeIn(m) ==
    \/ \E k \in DOMAIN m.wM : m.wM[k] < 0
    \/ \E k \in DOMAIN m.Mw : m.Mw[k] < 0
    \/ \E k \in DOMAIN m.M : m.M[k] < 0

SectionFails(e, c) ==
    LET elev == ElevmaskOf(e, ChunkIce(e, c))
        x == ExchangeGrid(DOMAIN elev, [f \in DOMAIN elev |-> GCMCell(f)])
        made == Generated(Len(MatrixOrder))
    IN  \/ /\ made \cap {"EvI", "IvE", "AvE", "EvA"} # {}
           /\ GvEpFails(x, elev, Hcdefs(e), "Z_INTERP")
        \/ \E m \in made : NegativeIn(IceMatrix(m, elev, Hcdefs(e)))

\* Faulty variant: the classes come from the chunk's own ice.
Section_OwnClasses(e, c, n) ==
    LET elev == ElevmaskOf(e, ChunkIce(e, c))
        own == [e EXCEPT !.fgice = DOMAIN elev]
    IN  [m \in {FileName[g] : g \in Generated(n)} |->
            IceMatrix(CHOOSE g \in Generated(n) : FileName[g] = m, elev, Hcdefs(own))]

\* global_ec_section(): what a chunk's file has of the first n matrices
Section(e, c, n) ==
    LET elev == ElevmaskOf(e, ChunkIce(e, c))
    IN  [m \in {FileName[g] : g \in Generated(n)} |->
            IceMatrix(CHOOSE g \in Generated(n) : FileName[g] = m, elev, Hcdefs(e))]

-----------------------------------------------------------------------------
(* combine_global_ec.cpp *)

\* The name under which a matrix is read and written: A stands for O.
CombinedName(name) ==
    [AvI |-> "OvI", EvI |-> "EvI", IvE |-> "IvE", IvA |-> "IvO",
     AvE |-> "OvE", EvA |-> "EvO"][name]

\* A chunk file that lacks the matrix or the dimensions, which are stored last,
\* cannot be combined.
Combinable(file, name) == file.dims /\ CombinedName(name) \in DOMAIN file.matrices

\* Faulty variant: the column weights of the last file replace the others.
CombineChunks_LastMw(files, name) ==
    LET m(c) == files[c].matrices[CombinedName(name)]
        last == CHOOSE c \in DOMAIN files : \A d \in DOMAIN files : d[1] <= c[1]
    IN  [M  |-> FoldSet(LAMBDA c, sum : Plus(sum, m(c).M), <<>>, DOMAIN files),
         wM |-> FoldSet(LAMBDA c, sum : Plus(sum, m(c).wM), <<>>, DOMAIN files),
         Mw |-> m(last).Mw]

\* combine_chunks(), without --scale: the matrices and weights of the chunks'
\* files add up.
CombineChunks(files, name) ==
    LET m(c) == files[c].matrices[CombinedName(name)]
    IN  [M  |-> FoldSet(LAMBDA c, sum : Plus(sum, m(c).M), <<>>, DOMAIN files),
         wM |-> FoldSet(LAMBDA c, sum : Plus(sum, m(c).wM), <<>>, DOMAIN files),
         Mw |-> FoldSet(LAMBDA c, sum : Plus(sum, m(c).Mw), <<>>, DOMAIN files)]
===============================================================================
