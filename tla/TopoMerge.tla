------------------------------ MODULE TopoMerge ------------------------------
(***************************************************************************)
(* The topography that IceBin hands to ModelE, as pure functions of the    *)
(* geometry of the ice sheets: modele/merge_topo.cpp merges the local ice  *)
(* sheets into the global TOPOO file on the ocean grid O, modele/topo.cpp  *)
(* coarsens the result to the atmosphere grid A and its elevation grid E   *)
(* = A x HC, and modele/GCMRegridder_ModelE.cpp says which elevation       *)
(* classes a regridding matrix has rows for.                               *)
(*                                                                         *)
(* What is kept: which cells carry ice, which elevation classes it falls   *)
(* in, which ocean cells ModelE rounds to land, which cells are marked as  *)
(* merged.  Areas are integers out of Full per ocean cell; elevations,     *)
(* matrix values and weights other than zero/nonzero are left out.         *)
(***************************************************************************)
EXTENDS Integers, FiniteSets, FiniteSetsExt

CONSTANTS
    Sheets,     \* the ice sheets that are coupled (GCMCoupler::ice_couplers)
    OCells,     \* grid cells of the ocean grid O
    ACells,     \* grid cells of the atmosphere grid A
    AtmOf,      \* the A cell that contains an O cell
    HC,         \* the elevation classes of the local ice
    Full,       \* area of an O cell
    FOceanP,    \* FOCEANF of the TOPOO file: ocean area before merging
    BaseOcean,  \* FOCEAN of the TOPOO file: O cells that ModelE rounds to ocean
    Nbrs        \* the four neighbours of each O cell off the edge of the grid

Interior == DOMAIN Nbrs

\* ACells x HC: the elevation grid E
ECells == ACells \X HC

\* What IceBin sees of an ice sheet: where emI_ice is not NaN, by elevation
\* class, and how much of each O cell emI_land covers (ice and bare land).
SheetGeometry == [ice : SUBSET (OCells \X HC), cont : [OCells -> 0..Full]]
Geometry == [Sheets -> SheetGeometry]

ASSUME GridAssumption ==
    /\ IsFiniteSet(OCells)
    /\ AtmOf \in [OCells -> ACells]
    /\ Full \in Nat \ {0}
    /\ FOceanP \in [OCells -> 0..Full]
    /\ BaseOcean \subseteq OCells
    /\ Nbrs \in [Interior -> SUBSET OCells]
    /\ Interior \subseteq OCells

\* Adjacency on the grid is symmetric and no cell is next to itself.
ASSUME NbrsAssumption ==
    \A o \in Interior :
        /\ o \notin Nbrs[o]
        /\ \A p \in Interior : o \in Nbrs[p] <=> p \in Nbrs[o]

\* The TOPOO file rounds a cell without any continent to ocean.
ASSUME RoundingAssumption == \A o \in OCells \ BaseOcean : FOceanP[o] # Full

(***************************************************************************)
(* merge_topoO()                                                           *)
(***************************************************************************)
ContArea(g, o) == MapThenSumSet(LAMBDA s : g[s].cont[o], Sheets)

\* The ocean fraction seen by the ice: the continent of every sheet taken out.
MergedOp(g) == [o \in OCells |-> FOceanP[o] - ContArea(g, o)]

\* "When we add more land, some cells that used to be ocean might now become
\* land": less than half ocean after the merge, though ModelE had it as ocean.
Flipped(g) ==
    {o \in BaseOcean : ContArea(g, o) # 0 /\ 2 * MergedOp(g)[o] < Full}

\* A single ocean cell with land on its four sides.
SingleOcean(om, op, o) ==
    /\ o \in Interior
    /\ om \cap Nbrs[o] = {}
    /\ o \in om
    /\ op[o] # Full

\* The single-cell oceans are turned to land after the flips.
Filled(g) ==
    {o \in OCells : SingleOcean(BaseOcean \ Flipped(g), MergedOp(g), o)}

\* The cells that ModelE rounds to ocean (foceanOm = 1) after the merge.
MergedOm(g) == (BaseOcean \ Flipped(g)) \ Filled(g)

IceCells(g) == {o \in OCells : \E s \in Sheets, h \in HC : <<o, h>> \in g[s].ice}

\* mergemaskOm: "where merging of local into global ice took place".  The
\* cells of Filled(g) are not marked.
MergeMaskO(g) == IceCells(g) \cup Flipped(g)

(***************************************************************************)
(* From O to A                                                             *)
(***************************************************************************)
\* make_topoA() marks an A cell if one of its O cells is marked.
MergeMaskA(g) == {AtmOf[o] : o \in MergeMaskO(g)}

\* focean on A is the mean of foceanOm; the number of ocean cells stands for it.
FoceanA(g) == [a \in ACells |-> Cardinality({o \in MergedOm(g) : AtmOf[o] = a})]

\* The elevation classes a regridding matrix of one sheet has entries for:
\* ice where ModelE has continent (om = 0) and IceBin has some (op # Full).
RegridE(ice, op, om) ==
    {e \in ECells :
        \E o \in OCells : /\ AtmOf[o] = e[1]
                          /\ <<o, e[2]>> \in ice
                          /\ om[o] = 0
                          /\ op[o] # Full}

\* foceanOm as an array of 0 and 1
OmArray(om) == [o \in OCells |-> IF o \in om THEN 1 ELSE 0]

\* Elevation classes with underice = UI_LOCALICE in the fresh TOPOA, computed
\* from the merge of all the sheets.
Underice(g) ==
    UNION {RegridE(g[s].ice, MergedOp(g), OmArray(MergedOm(g))) : s \in Sheets}

==============================================================================
