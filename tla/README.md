# IceBin in TLA+

IceBin couples a climate model, ModelE, to dynamic ice-sheet models such as
PISM. ModelE computes the atmosphere on a latitude-longitude grid; each ice
model has its own grid of a few kilometres. Between the two, IceBin keeps the
*elevation grid* E = A x HC: every atmosphere cell is divided into elevation
classes, and ModelE computes surface fluxes once per class. At each coupling,
IceBin hands ModelE's fluxes to the ice models, lets them run, reads their new
extents back, merges them into the global topography, and tells ModelE which
elevation classes exist now and how to carry its state from the old classes to
the new ones.

Before a job can run, a chain of programs makes its input: grids and exchange
grids, the topography on the ocean and the atmosphere grid (TOPOO, TOPOA), and
the matrices of elevation classes for the ice that no local model covers. They
hand files to one another.

The modules model both. Of the coupled job they keep the state that the parts
hold from one coupling to the next, crashes and restarts, and how the MPI ranks
run through a coupling. Of the numerics, which the repository's own tests
(`tests/`, `pylib/`) check on one data set each, they keep the algorithms in
integers, on every small instance: what overlaps what, what weights add up to,
what a value is a mean of.

## The system

Paths are relative to `src/slib/icebin/`.

| Part | State it keeps | Operations | Modelled in |
|---|---|---|---|
| ModelE (external) | clock; arrays `underice`, `focean`, ... per rank | calls the `gcmce_*` functions on all ranks | `gcm` of `Coupler`, `underice` of `MpiCouple` |
| `modele/GCMCoupler_ModelE` | `mergemaskA0`, `E1vE0c`, domain tables | `gcmce_new`, `gcmce_io_rsf`, `gcmce_model_start`, `gcmce_couple_native`, `update_topo`, `apply_gcm_ivals` | `Coupler`, `MpiCouple` |
| `GCMCoupler` | `timespan`, `XuE0s` | `model_start`, `couple`, `ncio_rsf` | `Coupler` |
| `IceCoupler` (one per sheet) | `dimE0`, `IvE0`, `emI_ice`, `emI_land` | `model_start`, `couple`, `ncio_icebin_rsf` | `Coupler`, `MpiCouple` |
| `pism/IceCoupler_PISM` | the ice model and its clock | `_model_start` (`-i` override), `run_timestep`, `icemodel_rsf` | `ice` of `Coupler`, `IceEnter`/`IceLeave` of `MpiCouple` |
| `modele/GCMRegridder_ModelE`, `WrapE` | `foceanOp`, `foceanOm` | `regrid_matrices`, `global_AvE` | `fw` of `Coupler`, `RegridE` of `TopoMerge`; values in `ModelERegrid` |
| `modele/merge_topo`, `modele/topo` | none | `merge_topoO`, `make_topoA` | `TopoMerge`; values in `MergedTopo`, `TopoA` |
| `DomainDecomposer_ModelE` | `rank_of_j` | `get_domain` | `MpiCouple` |
| `e1ve0` | none | `compute_E1vE0c` | `E1vE0c` of `Coupler` (its two ends), of `ModelERegrid` (its values) |
| `IceRegridder(_L0)`, `RegridMatrices_Dynamic` | exchange grid, areas | `GvEp`, `GvAp`, `GvI`; matrices between A, E, I and X | `Regrid` |
| `multivec`, `contracts` | the variables exchanged | `setup_modele_pism`, `reconstruct_ice_ivalsI`, `to_dense_scale` | `Contract` |
| `Grid`, `AbbrGrid`, `GridSpec`, `gridgen/` | grid files | `make_grid`, `make_exchange_grid`, `sort_renumber_vertices`, `ncio` | `GridGen`, `GridFiles` |
| `modele/hntr` | none | `overlap`, `regrid`, `make_hntrA` | `Hntr` |
| `etopo1_ice`, `modele/topo_base` (`make_topoo`) | files | `etopo1_ice`, `_make_topoO`, `callZ` | `TopoBase` |
| `global_ec`, `combine_global_ec` | makefile, one file per chunk | `global_ec_section`, `combine_chunks` | `GlobalEC`, abstractly `WholeEC` |
| `make_merged_topoo`, `make_topoa` | files | `compute_EOpvAOp_merged`, `squash_ECs`, `make_topoA` | `MergedTopo`, `TopoA` |
| smoother, `pylib`, ISSM, one-way coupling | | | see "What is not modelled" |

How they interact: ModelE calls a `gcmce_*` function on every MPI rank. On the
root, `GCMCoupler_ModelE::couple` calls `GCMCoupler::couple`, which calls
`IceCoupler::couple` for each sheet in turn, which calls the ice model's
`run_timestep`. The other ranks skip to `run_timestep`, which is collective.
The root then merges the topography, splits the result by domain and scatters
it. All state is in memory; checkpoints go to one file of ModelE, one per sheet
and one of IceBin.

The programs before the job interact through files only: `etopo1_ice` makes
ETOPO1's ice and mask, `make_topoo` the base topography from it, `global_ec` a
makefile with one command per chunk of the ice and `combine_global_ec` the sum of the
chunks' files; `make_merged_topoo` adds the local sheets to both, `make_topoa`
coarsens the result. `overlap` reads the files of two grids and writes a third with
their exchange grid. `make` may run chunks in any order and keeps the
file of one that was killed.

### What is hard, and what makes it correct

* *Several parts keep the same fact in their own form.* The set of elevation
  classes in use is in ModelE's `underice`, in `dimE0` of each sheet and in the
  columns of `XuE0s`. They are computed along different paths from copies of
  the ocean mask taken at different times. Correct means: what ModelE sends can
  be looked up (`ECsKnown`, `ECsKnownLater`), and what it holds is what a fresh merge would give
  (`GcmViewCurrent`, `FoceanCurrent`).
* *Incremental updates.* A coupling rewrites only cells marked as merged now or
  at the last coupling. A cell that ice leaves is in no present merge.
* *A transition joins two moments.* `E1vE0c` must lead from the grid that ModelE
  had to the one it has (`TransitionSpansCoupling`).
* *Crash and restart.* The state is spread over ModelE's, PISM's and IceBin's
  files and read by different code (`ClockAgrees`, `ReadyToCouple`).
* *Many ranks, few rules.* Collective calls match by their order alone, ranks
  run ahead of the root, and an error is often seen by the root only
  (`SameCollective`, `SentIsWhatWasGiven`, `EveryCallReturns`).

* *Files that look finished.* A chunk's file exists once its first matrix is
  written, and from then on `make` takes it for up to date (`ImplementsWhole`).
* *Pieces that must number alike.* Chunks, sheets and the merged matrix each have
  elevation classes of their own (`ClassesSpanChunks`, `IceKept`,
  `ClassesMakeUpIce`, `GhostsReady`); cells of the exchange grid are renumbered
  after cells have been made of them (`FilesKeepGrids`).
* *Fractions rounded one at a time.* Ocean is rounded first, then lakes, ice and
  ground are each scaled to what is left and rounded, and an ice sheet may
  undo it (`CellsCovered`, `SurfacesOrdered`, `KnockoutRestores`).
* *Two coasts.* Matrices join the ice model's ocean with its fractions to
  ModelE's rounded one; weights take one way and values another
  (`ClassesWeighAsCells`, `ForcingReachesIce`, `GivenIsMean`).
* *Two geometries in one product.* The correction multiplies matrices of this
  and the last coupling (`CorrectionNeutral`, `CorrectionWithinCell`), and what
  comes back from the ice was sent a coupling ago (`SpecificEnthalpyKept`).

`PROJECT.json` lists each hazard at its line with the properties that cover it.

## The modules

* **`TopoMerge`**: pure operators of the geometry of the ice. `MergedOp`,
  `Flipped`, `Filled`, `MergedOm`, `MergeMaskO` are `merge_topoO`; `MergeMaskA`
  and `FoceanA` the coarsening in `make_topoA`; `RegridE` the classes a matrix of
  `GCMRegridder_ModelE` has rows for; `Underice` the classes that
  `global_AvE` and `make_topoA` mark as local ice. Areas are integers out of
  `Full`; elevations and matrix values other than zero are left out.
* **`Coupler`** extends it with the life of a job as the root executes it. One
  action is one call from ModelE: `GcmceNewCold` and `GcmceNewWarm`
  (`gcmce_new` with the start file that `make_ice_coupler_params` selects),
  `IoRsfRead` and `IoRsfWrite` (`gcmce_io_rsf`), `ModelStartCold`,
  `ModelStartWarm` (`gcmce_model_start`, the cold one with its coupling without
  ice), `CoupleNative` (`gcmce_couple_native`). `ModelStartFails` and
  `CoupleFails` are the error paths of the latter two, which end the job;
  `Crash` ends it at any time. The ice model is a free choice from `Geoms`.
* **`MpiCouple`** has one coupling as `NRanks` ranks run it: `Enter` (pack and
  join the gather), `Gather`, `IceEnter` and `IceLeave` (the collective
  `run_timestep` of each sheet), `Couple` (what the root does after the ice),
  `ScatterSend`, `Return`; `ToDenseFails` and `IceFails` end the job. What the ice
  leads to is a choice from `Outcomes`: the classes of the new topography, and those
  that each sheet keeps as its own `dimE0`. What to rewrite and whom to send it to is
  computed as in the code.
* **`CouplingBarrier`** is the abstract specification ModelE relies on: a
  coupling is a barrier after which every rank holds its part of one agreed
  view. `MpiCouple` is shown to implement it (`ImplementsBarrier`).
* **`MCCoupler`, `MCMpiCouple`** give the constants small values.
* **`Coupler_proofs`** and **`MpiCouple_proofs`** hold the theorems about them.

The programs that make the topography:

* **`TopoBase`**: `Etopo1Ice` is `etopo1_ice` (Greenland in or out, ice and snow
  of small ice caps), `TopoO` is `make_topoo`: `IsOcean`, `LandFractions`,
  `OceanInBlock` are the passes of `_make_topoO` over ocean, land and lakes,
  `CellElevations` is `callZ`.
* **`GlobalEC`**: `Hcdefs`, `Chunks`, `ChunkIce`, `Section` are `global_ec`,
  `CombineChunks` is `combine_global_ec`. The matrices are those of `Regrid`.
* **`MergedTopo`**: `MergeTopoO` with fractions and elevations,
  `MergedEOpvAOp` (local classes, then the global ones stacked on top) and
  `Squashed`. `TopoMerge` has the same merge without elevations, for `Coupler`.
* **`TopoA`**: `make_topoA`, with `fhc`, `underice`, ghosts and the elevations of
  the classes.
* **`TopoTools`** is the state machine: each variable is a file. `Etopo1`,
  `MakeTopoO`, `PlanChunks` (`global_ec` writes the makefile), `RunChunk`,
  `CrashChunk` (killed after any number of matrices), `Combine` (killed or not),
  `MakeMergedTopoO` and `MakeTopoa` are the programs.
* **`WholeEC`** is the abstract specification of the elevation-class part: the
  matrices of all the ice, once. `ImplementsWhole` is the refinement.
* **`GlobalEC_proofs`**, **`TopoTools_proofs`** and **`MergedTopo_proofs`** hold the
  theorems about `TopoTools`: its elevation classes, its base topography, and what is
  merged and coarsened. Each extends the one before.

Grids, matrices and what is exchanged:

* **`Hntr`**: `Overlap` (`partition_east_west`, `partition_north_south`),
  `RegridField` with `MeanPolar`, `HntrA` (`make_hntrA`).
* **`GridGen`**: `GridSpec_LonLat` and `GridSpec_XY`, clipping, areas, the exchange
  grid. **`GridFiles`**: vertices, their cache and renumbering, `Written`
  and `ReadGrid`.
* **`Regrid`**: `GvEp` with both interpolation styles, `GvAp`, `GvI`, and the
  products `AEvI`, `IvAE`, `EvA`, `AvE` with their weights `wM`, `Mw`.
  **`Regrid_proofs`** has the theorems about sums of matrices, **`SumTheorems`** those
  about finite sums that all of these proofs use.
* **`ModelERegrid`**: `Helper` (`ComputeXAmvGp_Helper`), `XAmvGp`, `GpvXAm`, and
  `E1vE0c`.
* **`Contract`**: the variables of `contracts/modele_pism.cpp` (`ToIce`, `ToA`,
  `ToE`), `Reconstructed` (`reconstruct_ice_ivalsI`), what a sheet adds to the
  vectors for ModelE and what `apply_gcm_ivals` makes of them.
* **`Exchange`** is the state machine: `RegridTool` is a tool that uses Hntr,
  `MakeGrids`, `OverlapGrids`, `NewRegridder` build the regridder from files,
  `Couple` is a coupling with new ice and a new ocean.

**`Exchange_proofs`** has the theorems about the files of grids, Hntr, how the grids nest,
the correction and the forcing.

**`MCTopoTools`** and **`MCExchange`** give the instances.

Operators whose comment begins with "Faulty variant" are deliberately wrong
copies of the definition they stand before. Nothing uses them; they serve to show that
each property fails when the code is wrong in that way.

Abstractions that a reader should know:

* In `Coupler` and `MpiCouple`, values of fluxes, elevations and matrix entries are
  left out; only which cells and classes are present is kept. A matrix is its set
  of elevation classes and the time it is of.
* Classes of the global (base) ice are never sent (`gcmce_couple_native` loops
  over the local classes) and are left out.
* `gcmce_new` allocates gcmW's `foceanOm` and does not set it, and the first
  coupling reads it. `RawFocean` says what it may read as: 0, a value taken for
  ocean, or a value that `scaled_AOmvAOp` rejects. `foceanOp` read from such
  memory is taken to be an array of zeros: it only matters where it is exactly 1.
* The write of `rank_of_j(0)`, one element before its array, is not modelled as
  one: the memory is taken to be used by nothing else, so that the later read gives what
  was written.
* Numbers are integers. Fractions are in 1/`Unit`, means in 1/`Precision`, both
  with so many divisors that what the properties compare exactly is exact in the
  instances. Weights of elevation classes are `Spacing` times the code's.
* A matrix is a function from the pairs where it has an entry; cells are named by
  their position, not by an index, and dense numbering (`SparseSet`) is left out.
* Cells are rectangles: the projection takes longitude and latitude for x and y,
  sides have one point (`points_in_side` = 1), a polar cap is a rectangle as well.
  `Sine` is an odd, increasing function to integers. Smoothing (`sigma`) is off.
* `etopo1_ice` reads a planet with two fine cells per ocean cell. ETOPO1's
  literals (rows of Antarctica, boxes of the Arctic) are fractions of `JM`.
* `MCExchange` fixes ModelE's forcing (linear in the elevation of the class) and
  an ice model that gives back as runoff what it took on. The change of
  enthalpy of the boundary condition is in units of `dt*kappa`.
* A checkpoint is one unit in `Coupler` and is written at once.
* `icebin_error` ends all ranks. It calls everytrace, which is outside of this
  repository and is taken to stop the whole MPI job.

## The runs

| Run | What it asks | Result |
|---|---|---|
| `coupler_fixed_ocean` | One sheet on a continent that keeps its shape, every content of the memory that is not set. Any sequence of starts, couplings, checkpoints and crashes: `TypeOK`, `GcmViewCurrent`, `ECsKnownLater`, `ClockAgrees`, `TransitionSpansCoupling`. | pass |
| `coupler_marine` | Ice that flips ocean cells to land and lets them go again, from every content of the memory that is not set: `GcmViewCurrent`, `FoceanCurrent`. | pass |
| `mpi_couple` | Three ranks, two sheets that share all classes or lack some, three couplings, all interleavings: `TypeOK`, `OwnDomain`, `SentIsWhatWasGiven`, `SameCollective`, `ImplementsBarrier`, `EveryCallReturns`. | pass |
| `topo_tools` | The programs from ETOPO1 to TOPOA, over coasts, islands, lakes and snow, with Greenland kept, taken out, and merged back in three shapes: `CellsCovered`, `SurfacesOrdered`, `NoLakeByOcean`, `IceKept`, `KnockoutRestores`, `ClassesMakeUpIce`, `IceHasClasses`, `GhostsReady`. | pass |
| `topo_chunks` | Chunks in any order, one process killed at any point: `TypeOK`, `ClassesSpanChunks`, `IceOnLand`, `ImplementsWhole`. | pass |
| `exchange` | From the grid generators to two couplings, over several masks of the ice, coasts and elevations: `FilesKeepGrids`, `OverlapsTile`, `FieldBounded`, `AGridNests`, `WeightsBothWays`, `StandardConserves`, `ClassesWeighAsCells`, `ForcingReachesIce`, `CorrectionNeutral`, `CorrectionWithinCell`, `ForcingInterpolated`, `SpecificEnthalpyKept`, `GivenIsMean`, `ClassesFresh`. | pass |
| `topo_stale_ice` | Are all fields adjusted where an ice sheet is merged? `RoundedIceAdjusted` | violated |
| `ocean_shape` | Does ModelE's ocean keep its shape, as `GCMCoupler_ModelE.hpp` says? `OceanShapeFixed` | violated |
| `marine_ecs` | Does ModelE send only known classes when the coast moves? `ECsKnown` | violated |
| `fjord_fill` | Is a filled single-cell ocean sent? `FoceanCurrent` | violated |
| `two_sheets` | Does ModelE send only known classes with two sheets? `ECsKnown` | violated |
| `warm_restart` | Does a warm start have the matrices and the mask of the last coupling? `ReadyToCouple` | violated |

The violated runs are disagreements between the code and what its comments say:

* `ocean_shape`: `update_topo` sends `focean` of every marked cell; advancing
  marine ice makes it change.
* `marine_ecs`: gcmW keeps the first coupling's `foceanOm` while `underice` is
  computed with the fresh one. After the coast has moved, ModelE sends classes
  that `dimE0` does not have, and `to_dense()` ends the job.
* `topo_stale_ice`: `merge_topoO` adds a sheet's ice to the fraction `fgiceOp` of every
  cell it covers, but recomputes the rounded `fgiceOm` only in cells that it turns
  to land. In a cell that is land already, FGICE lacks the sheet.
* `fjord_fill`: the loop over single-cell oceans does not set the merge mask
  that the flips set.
* `two_sheets`: after a coupling `dimE0` has the classes of its own sheet but
  is asked for those of all.
* `warm_restart`: `ncio_rsf` skips the null pointers that it has just created,
  so nothing is read. Nothing saves `mergemaskA0`, which a comment says must be
  saved: were the matrices there, a coupling would not rewrite the cells that ice has left.

### Bounds, and why they are enough

`Coupler` runs on five O cells in three A cells, with two elevation classes and
a bounded number of couplings between starts (`MaxTime`: four in
`coupler_fixed_ocean`, three elsewhere); crashes and restarts are unbounded. The bay has four neighbours, the least that the single-cell fill needs; an A
cell with two O cells, one with ice and one without, is the least for a partial
mask. A stale cell shows two couplings after the ice came: one to mark it, one
to forget it. `Full` = 4 gives a cell less than half ocean (flipped), more than
half (kept), and none. The geometries are chosen by hand so that ice appears,
disappears, moves between classes and between cells, flips a cell and returns
it.

Because of the restart bug, no job couples after a warm start: in the passing
runs a warm start only reaches `ready`, may write another checkpoint, and aborts
at its first coupling. `ClockAgrees` and `GcmViewCurrent` are therefore about the
state before that coupling. Cold restarts couple freely.

`MpiCouple` uses ranks with one, two and one rows, so that an off-by-one in the
row table shows, two sheets, so that collectives can be confused, and three
couplings, so that a message of one can meet the next. In most of its outcomes both
sheets have every class in use, as sheets over the same elevation cells would, so that the
couplings go on; in two of them a sheet lacks a class, as in `two_sheets`, and the
root ends the job at the first or the second sheet while others wait in `run_timestep`.

The checkpoint and the coupler stop when ModelE's clock is at `MaxTime`; a crash is
possible then, so deadlock checking stays on. `MpiCouple` has the explicit step
`Stop` for a job that is over.

`TopoTools` runs on an ocean grid of 4 by 8 cells with two fine cells each: the
least with two A rows between the poles' rows, and with a cell that has four
neighbours and is half ocean. Row 1 is Antarctica, row 8 the Arctic. 49 inputs
vary Greenland's shape, the coast beside it, lakes and snow. `Unit` = 3360 is
divisible by what the cells are divided by. `ECSkip` = 2 and four local classes
leave ice between two classes, on one, and in the lowest. `ChunkSize` = 8 gives
a few chunks, 5 in `topo_chunks` more, with a chunk closed in the middle of a
row and at the end of the grid. One killed process is enough for a file that is
incomplete: planning anew makes all files old again, so a second crash finds the
state that the first one found.

`Exchange` runs on ocean grids of 4 by 4 cells with and without an offset at the
date line, and for tools also on grids whose cells straddle theirs; the ice grid has 3 by 2
cells, some across two ocean cells and some across two atmosphere cells.
`Quadrant` = 12 lets all grid lines be integers, `Precision` = 48 all shares,
`Full` = 4 an ocean cell be a quarter, half or all ocean. Two couplings are what
the correction, the ice model's input and the return of runoff join. A second sheet is
a constant that adds to the vectors for ModelE (`Neighbours`).

These four configurations do not check deadlock: the programs end when
all files are made, the chain of couplings at its bound, and a failed program
ends everything.

### Fairness

Only `MpiCouple` has liveness: weak fairness on the steps of each rank. An MPI
rank is a process that the machine schedules, a blocking receive returns once its message
is there, and `run_timestep` returns when all ranks have called it. The root's
`ToDenseFails` is one of its steps and fair: `to_dense()` does report a class that it
does not find. `IceFails` is not: the ice model need not fail. `Coupler` has no fairness, since nothing obliges
ModelE to call, and `TopoTools` and `Exchange` have none, since nobody has to run the
next program.

## The proofs

`Coupler_proofs` proves for every grid, set of sheets, set of geometries and
bound on time, from the assumptions named in `TopoMerge` and `Coupler`
(`GridAssumption`, `NbrsAssumption`, `RoundingAssumption`, `GeomsAssumption`,
`FitAssumption`, `RawFoceanAssumption`):

* `TypeCorrect`: `Spec => []TypeOK`, which is inductive. The non-trivial part is
  the bound on `focean`: a count of ocean cells per A cell never exceeds the
  number of cells, because columns are cleared before they are added to.
* `ViewCurrent`: `Spec => []GcmViewCurrent`. Not inductive by itself: a coupling
  rewrites only marked columns, so the proof needs that every column that ModelE
  has classes in is in the mask kept from the last coupling, and that a
  checkpoint holds an array that was current when it was written. `ViewInv`
  states this, and also that the array read by a cold start is that of the
  initial geometry. `ApplyTopoCurrent` is the step that uses it.
* `ClocksAgree`: `Spec => []ClockAgrees` with `ClockInv`, which adds the clocks
  within the checkpoint and in the phases of a start.
* `ECsAlwaysKnown`: `ECsKnownLater` for one sheet, and `TransitionsSpan`:
  `TransitionSpansCoupling` for any number of sheets, both under `FixedCoast`: all
  geometries share one merged ocean mask. One sheet and the fixed coast are
  needed: the runs `two_sheets` and `marine_ecs` violate `ECsKnown` without them. Nothing
  is supposed of the array that `gcmce_new` leaves unset. It reaches the matrices of
  `model_start` only, which is why `ECsKnownLater` begins one coupling later than
  `ECsKnown`, which does depend on it: with the `RawFocean` of `coupler_fixed_ocean`, TLC
  finds that `model_start` can make a `dimE0` without classes that ModelE then gets (the
  violated runs take 0, so that this is not what they show). The inductive
  invariant `ECsInv` says that between calls gcmW's ocean arrays are those of the
  merge, which have continent wherever ModelE's rounded ocean has land, so that the matrices of
  the next coupling have a row for each class in `underice` (`MatricesCover`).
* `OceanCurrent`: `FoceanCurrent` under `FillsMarked`: a single-cell ocean that one
  geometry fills and another does not lies in an A cell that one of them marks. This holds
  in `coupler_marine`, whose coast moves, and fails in `fjord_fill`, where the property is
  violated: what the theorem assumes is exactly what the code forgets. `OceanInv`
  is about ModelE's array and the one in the checkpoint; the masks come from `ViewInv`.
* `FillOrder`: the fill changes the array it scans, yet the cells it fills do
  not depend on the order. The argument is that two neighbours cannot both be
  single-cell oceans. This justifies that `Filled` is a set and not a loop.

`MpiCouple_proofs` proves for any number of ranks, sheets and couplings, any
grid, any choice of outcomes and any split of the rows in which each rank has at
least one (`SizeAssumption`, `EndJAssumption`):

* `TypeCorrect`: `Spec => []TypeOK`. The non-trivial part is that no channel
  ever holds more than one message and that no rank exceeds its calls.
* `DomainsKept`: `Spec => []OwnDomain`. The lemmas are `RankOfRow` (the one walk
  over the rows by the constructor of `DomainDecomposer_ModelE` gives each row to
  the rank that ModelE gave it to) and `RowOfCell` (dividing an E index by the
  row length and then by the rows gives the row of its A cell, the reason why
  one `get_domain` serves A and E).
* `NothingLost`: `Spec => []SentIsWhatWasGiven`; `CollectivesMatch`:
  `Spec => []SameCollective`.
* `BarrierImplemented`: `Spec => ImplementsBarrier`, the whole refinement. `Enter`
  is a call, the root's `Couple` is the moment of agreement, `Return` a return,
  `ToDenseFails` and `IceFails` the end; every other step stutters. The step that needs the invariant
  is `Return`: what the rank then holds must be its part of the agreed view.

None of these is inductive. `Inv` adds: `CountInv`, how many messages a channel
holds given where its two ends are, so that ranks are at most one coupling apart;
`StepInv`, that a rank has made `NSheets` collective calls per coupling and as
many as its place says in this one; `ContentInv`, that a rank's share, be it in its
array, in a channel, or with the root, is what the split of the agreed view makes
of it, and that the mask kept by the root covers that view. The last is why
columns the root does not send may stay as they are.

The theorems about the topography programs hold for every planet, grid, set of raw
inputs, set of elevation classes, size of the chunks and number of killed processes,
from the named assumptions: `TopoGridAssumption` (even grids; `Unit` divisible by all
numbers of fine cells in a row), `SetToAssumption` (no cell at a pole is set to land or
ocean by hand), `GlobalECAssumption`, `LocalHcdefsAssumption` (local classes are `ECSkip`
apart), `RawInputsAssumption` (raw files are complete, fractions are fractions) and
`MaxCrashesAssumption`.

Nearly all of these properties are about sums over cells, so the proofs rest on
`SumTheorems`. The community modules define sums as folds that take out one chosen
element after the other. `FoldExists` shows that such a fold is a function: take the least
size of a set for which none exists. From then on a sum is what its two equations say, and
`SubsetInduction`, the same argument for any set of subsets, gives that a sum may be
split, scaled, compared, counted, grouped by a key, renamed or factored, and that differences
telescope (`SumRemove`, `SumUnion`, `SumScale`, `SumMonotone`, `SumCounts`, `SumPartition`,
`SumRename`, `SumProducts`, `SumTelescopes`).

`Regrid_proofs` is about matrices: each is the tally of a set of entries, its
weights `wM` and `Mw` are the tallies of the same entries by row and by column, and if
entries are cut into parts the matrices and weights of the parts add up to those of the
whole (`WeighedParts`). The last section is about the columns of products and of stacked and
squashed matrices.

`GlobalEC_proofs`:

* `ChunksPartitionIce`: the scan that closes chunks puts each ice cell in one chunk.
* `ChunkMatricesAddUp`: so the chunks' matrices and weights add up to those of the ice.
* `WholeImplemented`: `Spec => ImplementsWhole`, the whole refinement. `Combine`
  is the computation of `WholeEC`; all other steps stutter. It needs `ECInv`: the makefile
  plans the chunks of the present ice, and a file has the first so many matrices of its
  chunk's section. What a killed process leaves lacks the dimensions, and the
  combiner refuses it.
* `TypeCorrect`: `Spec => []TypeOK`.
* `ClassesSpan`: `Spec => []ClassesSpanChunks`, for ice with `Relief`: it gives at least two
  classes, the highest not below the sea. Without this `global_ec` does end with an error
  (see below); a planet with mountains under its ice has it.

`TopoTools_proofs`:

* `FilesInvariant`: the inductive invariant. `FilesMade` says that each file is what
  its program makes of the files that it has read. This holds because no program runs
  again once its file is there, but for chunks, which `ECInv` is about. With it, a property of
  a file becomes one of the operator that makes it.
* `IceNeverOnOcean`: `Spec => []IceOnLand`.
* `SurfacesCover`: in any row, the surfaces that `LandFractions` and then
  `LakesToGround` make of a cell are fractions and add up to `Unit`, whatever is
  rounded. Both places where the code tests the row are used: north of Antarctica an
  excess of lake is cut off, in Antarctica there is none. `TopoOCovered` shows that what
  they are given (`FractionsIn`) holds for the sums over fine cells, since ice is on land.
* `LandOrdered`: `Spec => []SurfacesOrdered`. `callZ` takes the heights at
  given ranks of the sorted land; the ranks of lowest land, lake, ground and highest land
  are in this order (`GroundBreak` is never below `BreakAt`), and so are the heights.
* `MergeCovers`: a cell that is covered stays so when `merge_topoO` adds a sheet
  that fits (`SheetFits`: ice on its own land, land where there was ocean).

`MergedTopo_proofs`:

* `FillsOceans`: the loop over single-cell oceans changes the array that it scans;
  it is shown to turn some set of ocean cells to land, each once. `MergedCell` says
  what the merge makes of a cell.
* `AllCellsCovered`: `Spec => []CellsCovered`. The sheets that the tools merge fit, and
  a cell that is filled has been fitted before.
* `LakesAwayFromOcean`: `Spec => []NoLakeByOcean`. `make_topoo` clears the lakes of a block with
  ocean, sheets and fills never make ocean.
* `GreenlandRestored`: `Spec => []KnockoutRestores`. Per cell, what is taken out and what
  the sheet adds are sums over the same fine cells; all divisions are exact, because
  `Unit` is a multiple of what is divided by.
* `MergeKeepsIce`: `Spec => []IceKept`. The classes of a fine cell share exactly `ECSkip`
  (`ClassesAt` sums to `Spacing`), so a column of EvO adds up to `ECSkip` per cell of
  ice; stacking the local on the global classes and squashing equal ones only rename
  rows, and columns do not change.
* `GhostsStand`: `Spec => []GhostsReady`. The land of a sheet lies within
  `zland_min..zland_max` of its A cell, and `GhostRange` has both classes that a height
  in this range is interpolated between.
* `IceIsClassed`: `Spec => []IceHasClasses`. All entries of the merged matrix are positive
  and lie in a class of local or of global ice (`MergedClasses`). An entry of the
  scaled matrix of A comes from an O cell that is land, so the mean of the ocean is not
  all of the cell (`MeanBelow`). Conversely ice in an A cell is ice in an O cell, which is
  land because ocean has no ice; the base or a sheet has ice there (`BareMerged`), so the
  column of that cell is not empty (`ColumnBounds`), and the largest that it can be leaves
  each class a share that is not 0 (`IcedClass`). It supposes `LocalClassesLow` (the
  classes of sheets begin at the sea or below it: below the first class `GvEp` extrapolates
  with a negative weight) and `FractionsFine` (`Unit` is at least `8 * NSub * ECSkip`: the
  code's doubles do not truncate a share to 0). `MCTopoTools` assumes both, so that TLC
  evaluates them there.

`Exchange_proofs`:

* `CorrectionStaysInCell`: `Spec => []CorrectionWithinCell`, for any grids, ice and coasts.
  `CouplingInv` is inductive: from the first coupling on grids and sheet stay, the
  matrices are those of the ice and ocean kept beside them, and the correction is that
  between this ice and the one before. The classes that ModelE's matrix gives an exchange cell
  are over one A cell, which the grids determine and no geometry, and an entry of
  the product joins two classes of one exchange cell.
* `FilesKept`: `Spec => []FilesKeepGrids`. It rests on `ReadWritten`: what `Written` makes
  of a grid, `ReadGrid` turns into the grid again, for any finite set of rectangles, any
  order in which a generator came to them, and any numbering of the vertices in which no
  two have the same index. Cells share vertices (`AddVertices`: after `VertexCache` has
  seen all corners, each point is a vertex exactly once), and refer to them by an index,
  as they were added or by `sort_renumber_vertices` (`MadeNumbered`; `RankBijection` makes
  ranks in a strict order a numbering). The references of all cells lie in one array
  (`FlattenFours`). `GridsInv` says that files hold what was written of the grids in
  memory; `overlap` writes anew what it has read, which the theorem for the grids of
  the generators makes the same. That the generators only make rectangles with an
  area is `LonLatGridGood`, `XYGridGood` and `ExchangeCellsGood`.
* `AtmosphereNests`: `Spec => []AGridNests`. The work is in `Hntr`: the edges that
  `partition_east_west` finds for an ocean cell with an offset lie in the atmosphere cell that
  `make_hntrA` counts it into, also around the date line (`EdgeCellNests`), and the edges
  between latitudes are among those of the finer grid (`EdgesIncrease`). So an ocean cell is
  visited in one cell, and `overlap` divides by what it multiplied with (`FactorCancels`).
  `NestInv` is inductive: the realized cells are positions of the grid, and `agridA` is made of
  them.
* `CorrectionsNeutral`: `Spec => []CorrectionNeutral`. An entry of XvE divided by its row's
  sum and added up over the row is the weight of the class again (`PlacedSum`, `NamedTotal`); what the
  last geometry gives back is the part of the class that had ice and land then, which is
  all of it where the property says so.
* `ForcingReaches`: `Spec => []ForcingReachesIce`. Two weights, of two neighbouring classes
  and with `Spacing` for a sum, are shared out over whatever classes the elevation has
  and added up again (`GroupedSum`); the cells that either model has as ocean are left out by both.
  It and `CorrectionsNeutral` rest on `GroundInv`, which is inductive with `GridsInv`: the exchange
  cells are the pieces that the two grids have in common, their areas on a map do not exceed those
  on the sphere, and the ice, op and om beside the matrices, and those of the coupling
  before, are of these grids.

* `FieldsBounded`: `Spec => []FieldBounded`, for any two regular grids. The edges that
  `partition_east_west` and `partition_north_south` find are those that a cell of B reaches
  to (`EdgeCellFound`, `WestFound`, `EastFound`; `EdgeRowFound`, `SouthFound`, `NorthFound`),
  so that what `overlap` makes of the cut first and last columns is what two cells have in
  common: the difference of two edges, each clamped to the other cell (`WidthIs`,
  `HeightIs`), which is never negative. A mean with such weights lies between the least and
  the greatest value, and so does the quotient that is truncated
  (`MeanBounds`, `CellBounds`). `ToolInv`, which is inductive, says that what a tool holds was made by
  Hntr of grids of `Specs`.
* `OverlapsFill`: `Spec => []OverlapsTile`. `overlap` divides by the sum of the visits of a cell,
  which is what it multiplied with (`VisitsFill`), so its areas are exact (`OverlapExact`); for that
  the area of `make_dxyp` must be the one between the edges, which takes an even number of
  latitudes (`EvenRows`). Clamped edges are then summed as differences (`SumTelescopes`): over the
  columns that a cell of B reaches for its row, and for a column of A over all cells of B
  and over up to four turns around the globe, as B may count a cell of A beyond the date line
  (`TurnsSum`, `RowsSum`, `ColumnOfCell`).
* `WeightsAgree`: `Spec => []WeightsBothWays`. The entries of the product through the exchange grid
  one way are those of the other way with rows and columns exchanged (`RoutesSwapped`), so that the
  sums of rows of one are the sums of columns of the other (`TallySwapped`). That the entries are integers
  comes from `GroundInv`, which also says that every exchange cell that is used has an area.
* `ClassesAreFresh`: `Spec => []ClassesFresh`. The weights of the classes are sums of finitely many
  integers (`WeightsWhole`, from `GroundOf` of the new ice: `CoupledGround`), so that a class that is
  sent anything is divided by `Precision` times an integer, never by the 1 of a class that was
  cleared (`AppliedFresh`), whatever the quotient is rounded to. `FreshInv` is inductive with
  `GroundInv`.

These seven suppose something of the constants, which the last section of `Exchange` defines:
`NestingSpecs` (where an atmosphere grid is made, its ocean grid is offset by an even number
of quarter cells: half a quarter is no integer in this model; and its last edges lie between the
poles, as they do in a regular grid and with half cells at the poles), `NorthClipped`
(for such a grid the clip leaves no north cap, which has the number of a latitude beyond the
grid), `WithinPoles` (cells lie between the poles, where a map only shrinks them),
`LandElevations` (classes are evenly spaced and begin at or below the sea, as `GvEp` raises
elevations to 0: below the first class it would extrapolate with a negative weight),
`OceanFractions` (an ocean has a fraction, 0 to `Full`, of every realized cell), `OffsetsInCell`
(a grid begins a cell east of the date line at most: the model looks for an edge within two
turns, where `partition_east_west` goes on until it finds one), `FieldValues` (weights are not
negative) and `NeighbourWeights` (other sheets add finitely many values, with integers as
weights, and `Precision` is not 1). `MCExchange` assumes all eight of its instance, so that TLC evaluates them there.

Each invariant was checked with TLC before it was proved. Only model-checked are:

* `ClassesMakeUpIce`: it compares fractions that are averaged to A with divisions that
  truncate, which `MCTopoTools` chooses its numbers to avoid;
* all other properties of `Exchange`. Those about rounded means (`ClassesWeighAsCells`,
  `GivenIsMean`, `StandardConserves`) are exact in the instance only;
* `EveryCallReturns`, which is liveness.

The loops over positions (`ChunkStarts`, `FillSingleOceans`, the vertices of `MadeGrid`) are
folds as well and are treated in the same way: the fold is a function by `FoldExists`, and
what it keeps is shown of the least set of positions for which it would fail.

## What is not modelled

* PISM itself, a git submodule: any of a set of geometries may follow any other.
  ISSM's wrapper and the Fortran API declare interfaces.
* Smoothing (`smoother`, `sigma`), which is real-valued and off in the coupler but for
  IvE, and rounding errors of floating point.
* Projections other than the linear one, polygons (CGAL), the clip by azimuth, and
  `make_abbr_grid`. `filter_cellsA/B` of the grids have no caller.
* `z1qx1n_bs1`, an older form of `topo_base` that returns before most of its
  computation; `modele/oneway.cpp`, unfinished; `icebin22m`, `giss2nc`: conversions.
* Configuration, unit strings and dictionaries (`VarSet`), log files
  (`IceWriter`), `--scale` of `combine_global_ec`.
* Python bindings, plots, examples and tests.

Noticed while modelling, and outside of what the runs state:

* `to_dense_scale` (`multivec.cpp:49`) divides by the weight, so that an index
  whose weights are all 0 becomes NaN; `GivenIsMean` says when.
* `combine_global_ec.cpp:125` renames A to O in every matrix, so it only works for
  chunks made with `--gcm-grid ocean`; the default list of matrices
  (`global_ec.cpp:226`) has no EvA, which `make_merged_topoo` needs.
* `callZ` replicates elevations over the polar rows but for `ZATMOF`
  (`topo_base.cpp:209-219`).
* For an odd number of latitudes `make_dxyp` is half a cell off (`hntr.cpp:45`);
  `OverlapsTile` is about even ones.
* With polar caps, the northern one is numbered `j = nlat()`, one beyond the grid
  (`GridGen_LonLat.cpp:181`); `make_abbr_grid` takes the sine of degrees (`:261`).
* A cells that ice has left altogether keep the last value they were sent in A and E
  variables. `ClassesFresh` leaves them out; by `GcmViewCurrent` no class of local ice is
  left there that would use it.
* `global_ec` ends with an error when all ice lies on one elevation class (no interval to
  interpolate in, `linterp_1d_b` gets one point) and when the highest class is below the sea
  (heights are raised to 0 first). `ClassesSpan` excludes both.
* With `--gcm-grid atmosphere` the combiner finds only EvI and IvE.
* The search for the highest land begins at `numeric_limits<double>::min()`, the smallest
  positive double (`merge_topo.cpp:182`, `topo.cpp:640`), so a cell whose land all lies
  below the sea has no highest land and gets no ghosts; `GhostsReady` leaves such
  cells out, and no input of the runs has one.
* `foceanOm` of gcmW is used unset (`GCMRegridder_ModelE.cpp:676`): if it reads as ocean,
  the coupling after `model_start` ends in `to_dense()`. From then on it has no
  effect (`ECsKnownLater`).

## Plan

Done: the coupled job (`TopoMerge`, `Coupler`, `MpiCouple` with
`CouplingBarrier`), the topography (`TopoTools` with `WholeEC`), grids, matrices
and contracts (`Exchange`), and the theorems about `Coupler`, `MpiCouple` and
`TopoTools`. To do, in order of weight:

1. **`RestartFiles`**: the files of a checkpoint one by one, ModelE's
   alternating `fort.1`/`fort.2`, symbolic links, all ranks opening
   `-icebin.nc`, a crash between two files. Abstract specification: a checkpoint is
   atomic, as `Coupler` assumes.
