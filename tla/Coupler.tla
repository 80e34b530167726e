------------------------------- MODULE Coupler -------------------------------
(***************************************************************************)
(* The coupling cycle of a ModelE job with dynamic ice sheets, as its MPI  *)
(* root executes it: gcmce_new, gcmce_io_rsf, gcmce_model_start and        *)
(* gcmce_couple_native (modele/GCMCoupler_ModelE.cpp), the generic coupler *)
(* under them (GCMCoupler.cpp), one IceCoupler per sheet (IceCoupler.cpp)  *)
(* and its PISM implementation (pism/IceCoupler_PISM.cpp).                 *)
(*                                                                         *)
(* One step is one call from ModelE.  The ranks and messages inside a call *)
(* are the subject of MpiCouple; the files of a checkpoint are one unit    *)
(* here.                                                                   *)
(***************************************************************************)
EXTENDS TopoMerge

CONSTANTS
    Geoms,      \* the geometries the ice model can produce
    InitGeom,   \* the geometry in the ice model's initial input file
    RawFocean,  \* what fresh memory may hold when read as a foceanOm array
    MaxTime     \* bound on ModelE's clock, in coupling intervals

ASSUME GeomsAssumption ==
    /\ Geoms \subseteq Geometry
    /\ InitGeom \in Geoms
    /\ MaxTime \in Nat

\* Ice lies on the continent of its sheet, and the sheets fit into the part of
\* a cell that the TOPOO file left to them (or merge_topoO's checks stop it).
ASSUME FitAssumption ==
    \A g \in Geoms :
        /\ \A s \in Sheets : \A c \in g[s].ice : g[s].cont[c[1]] # 0
        /\ \A o \in OCells : ContArea(g, o) \in 0..FOceanP[o]

\* A double of unknown content read as foceanOm: 0.0, a value that the code
\* takes for ocean (1.0, or one too small for 1.0 - v to differ from 1.0), or
\* one that scaled_AOmvAOp() rejects ("must be 0 or 1").
Rejected == 2
ASSUME RawFoceanAssumption == RawFocean # {} /\ RawFocean \subseteq 0..Rejected

VARIABLES
    proc,         \* where the job is in its life
    gcm,          \* ModelE: its clock, and its underice and focean arrays
    timespan,     \* GCMCoupler::timespan
    ice,          \* PISM: the geometry and the clock of each sheet
    dimE0,        \* IceCoupler::dimE0 and IvE0, of each sheet
    XuE0s,        \* GCMCoupler::XuE0s
    fw,           \* GCMRegridder_WrapE::foceanOp and foceanOm
    mergemaskA0,  \* GCMCoupler_ModelE::mergemaskA0
    E1vE0c,       \* GCMCoupler_ModelE::E1vE0c, the matrix of the last coupling
    rsf           \* the last complete checkpoint on disk

volatile == <<gcm, timespan, ice, dimE0, XuE0s, fw, mergemaskA0, E1vE0c>>
vars == <<proc, volatile, rsf>>

-----------------------------------------------------------------------------
(* Data *)

Times == 0..MaxTime

\* A matrix with columns for the elevation classes ecs, computed at time.
\* A null pointer is a matrix with set = FALSE.
Matrix(ecs, t) == [set |-> TRUE, ecs |-> ecs, time |-> t]
NoMatrix == [set |-> FALSE, ecs |-> {}, time |-> 0]
NoMatrices == [s \in Sheets |-> NoMatrix]
MatrixType == [set : BOOLEAN, ecs : SUBSET ECells, time : Times]

NoMask == [set |-> FALSE, cells |-> {}]
NoTransition == [set |-> FALSE, from |-> NoMatrices, to |-> NoMatrices]

\* ModelE's arrays as a properly computed TOPO file initialises them
TopoFile(g, t) == [time |-> t, underice |-> Underice(g), focean |-> FoceanA(g)]

IceState(g, t) == [geom |-> g, time |-> [s \in Sheets |-> t]]

NoRsf == [set |-> FALSE, gcm |-> TopoFile(InitGeom, 0),
          ice |-> IceState(InitGeom, 0),
          XuE0s |-> NoMatrices, dimE0 |-> NoMatrices]

-----------------------------------------------------------------------------
(* Helpers: the parts of one coupling *)

\* Faulty variant: the matrices are built from emI_ice before run_timestep().
NewMatrices_OldIce(g, t) ==
    [s \in Sheets |-> Matrix(RegridE(ice.geom[s].ice, fw.op, fw.om), t)]

\* IceCoupler::couple() builds EvI and XvE from the new emI_ice, but with the
\* ocean fractions that update_topo() left in gcmW at the previous coupling.
NewMatrices(g, t) ==
    [s \in Sheets |-> Matrix(RegridE(g[s].ice, fw.op, fw.om), t)]

\* "fcont_m must be 0 or 1", on a cell with ice
FoceanRejected(g) == \E o \in IceCells(g) : fw.om[o] = Rejected

\* to_dense() of every elevation class sent finds it in dimE0 of the sheet.
CanDensify(s) == dimE0[s].set /\ gcm.underice \subseteq dimE0[s].ecs

\* Faulty variant: only the cells merged now are packed.
Touched_NowOnly(g, mask0) == MergeMaskA(g)

\* Cells packed by update_topo(): merged now or at the last coupling.
Touched(g, mask0) == MergeMaskA(g) \cup mask0

\* Faulty variant: += into columns that were not cleared.
ApplyTopo_NoClear(g, touched, t) ==
    [time     |-> t,
     underice |-> gcm.underice \cup {e \in Underice(g) : e[1] \in touched},
     focean   |-> [a \in ACells |-> gcm.focean[a] +
                                      (IF a \in touched THEN FoceanA(g)[a] ELSE 0)]]

\* apply_gcm_ivals() of what update_topo() packed: a touched column is cleared
\* and rewritten, the others are left as they are.
ApplyTopo(g, touched, t) ==
    [time     |-> t,
     underice |-> {e \in gcm.underice : e[1] \notin touched}
                    \cup {e \in Underice(g) : e[1] \in touched},
     focean   |-> [a \in ACells |-> IF a \in touched THEN FoceanA(g)[a]
                                                     ELSE gcm.focean[a]]]

\* Faulty variant: the mask is local to the call.
KeepMask_Dropped(g) == [set |-> TRUE, cells |-> {}]

\* The mask kept for the next coupling.
KeepMask(g) == [set |-> TRUE, cells |-> MergeMaskA(g)]

Abort == proc' = "aborted" /\ UNCHANGED <<volatile, rsf>>

-----------------------------------------------------------------------------
(* Actions *)

Init ==
    /\ proc = "down"
    /\ gcm = TopoFile(InitGeom, 0)
    /\ timespan = <<-1, 0>>
    /\ ice = IceState(InitGeom, 0)
    /\ dimE0 = NoMatrices
    /\ XuE0s = NoMatrices
    /\ fw = [op |-> [o \in OCells |-> 0], om |-> [o \in OCells |-> 0]]
    /\ mergemaskA0 = NoMask
    /\ E1vE0c = NoTransition
    /\ rsf = NoRsf

\* A job starts.  ISTART = 2 reads the TOPO file and leaves PISM its own -i
\* file; the other ISTARTs read ModelE's checkpoint and point -i to the sheet's
\* file of the same checkpoint (make_ice_coupler_params).  ice is what -i names.
\* gcmW's ocean arrays are allocated and not set.
StartJob(start, g, i) ==
    /\ proc \in {"down", "aborted"}
    /\ proc' = start
    /\ gcm' = g
    /\ ice' = i
    /\ timespan' = <<-1, 0>>
    /\ dimE0' = NoMatrices
    /\ XuE0s' = NoMatrices
    /\ \E raw \in RawFocean : fw' = [op |-> [o \in OCells |-> 0],
                                     om |-> [o \in OCells |-> raw]]
    /\ mergemaskA0' = NoMask
    /\ E1vE0c' = NoTransition
    /\ UNCHANGED rsf

GcmceNewCold == StartJob("cold", TopoFile(InitGeom, 0), IceState(InitGeom, 0))

\* Faulty variant: a warm start does not override PISM's -i.
GcmceNewWarm_NoOverride ==
    rsf.set /\ StartJob("warm", rsf.gcm, IceState(InitGeom, 0))

GcmceNewWarm == rsf.set /\ StartJob("warm", rsf.gcm, rsf.ice)

\* gcmce_io_rsf(.., 'r'): PISM ignores it; GCMCoupler::ncio_rsf() first fills
\* XuE0s with null pointers and then reads only the sheets whose pointer is not
\* null.
RsfSheets(pointers) == {s \in Sheets : pointers[s].set}

IoRsfRead ==
    /\ proc = "warm"
    /\ proc' = "restored"
    /\ LET slots == NoMatrices
           read == RsfSheets(slots)
       IN  /\ XuE0s' = [s \in Sheets |-> IF s \in read THEN rsf.XuE0s[s] ELSE slots[s]]
           /\ dimE0' = [s \in Sheets |-> IF s \in read THEN rsf.dimE0[s] ELSE dimE0[s]]
    /\ UNCHANGED <<gcm, timespan, ice, fw, mergemaskA0, E1vE0c, rsf>>

\* gcmce_model_start(cold_start=true): the coupling with run_ice=false.
\* dimE0 is made of what ModelE sends, so to_dense() cannot fail.
ModelStartCold ==
    /\ proc = "cold"
    /\ ~FoceanRejected(ice.geom)
    /\ proc' = "ready"
    /\ timespan' = <<gcm.time, gcm.time>>
    /\ dimE0' = NewMatrices(ice.geom, gcm.time)
    /\ XuE0s' = NewMatrices(ice.geom, gcm.time)
    /\ fw' = [op |-> MergedOp(ice.geom), om |-> OmArray(MergedOm(ice.geom))]
    /\ gcm' = ApplyTopo(ice.geom, Touched(ice.geom, MergeMaskA(ice.geom)), gcm.time)
    /\ mergemaskA0' = KeepMask(ice.geom)
    /\ E1vE0c' = NoTransition
    /\ UNCHANGED <<ice, rsf>>

ModelStartFails ==
    /\ proc = "cold"
    /\ FoceanRejected(ice.geom)
    /\ Abort

\* gcmce_model_start(cold_start=false)
ModelStartWarm ==
    /\ proc = "restored"
    /\ proc' = "ready"
    /\ timespan' = <<-1, gcm.time>>
    /\ UNCHANGED <<gcm, ice, dimE0, XuE0s, fw, mergemaskA0, E1vE0c, rsf>>

\* gcmce_couple_native(run_ice=true) that goes well: the ice runs to the new
\* time and ends in any geometry.
CanCouple == mergemaskA0.set /\ \A s \in Sheets : CanDensify(s) /\ XuE0s[s].set

\* Faulty variant: XuE0s is overwritten before E1vE0c is computed.
Couple_MovedFirst(g, t) ==
    /\ timespan' = <<timespan[2], t>>
    /\ ice' = IceState(g, t)
    /\ dimE0' = NewMatrices(g, t)
    /\ XuE0s' = NewMatrices(g, t)
    /\ E1vE0c' = [set |-> TRUE, from |-> XuE0s', to |-> XuE0s']
    /\ gcm' = ApplyTopo(g, Touched(g, mergemaskA0.cells), t)
    /\ fw' = [op |-> MergedOp(g), om |-> fw.om]
    /\ mergemaskA0' = KeepMask(g)

Couple(g, t) ==
    /\ timespan' = <<timespan[2], t>>
    /\ ice' = IceState(g, t)
    /\ dimE0' = NewMatrices(g, t)
    /\ E1vE0c' = [set |-> TRUE, from |-> XuE0s, to |-> NewMatrices(g, t)]
    /\ XuE0s' = NewMatrices(g, t)
    /\ gcm' = ApplyTopo(g, Touched(g, mergemaskA0.cells), t)
    /\ fw' = [op |-> MergedOp(g), om |-> fw.om]
    /\ mergemaskA0' = KeepMask(g)

CoupleNative ==
    /\ proc = "ready"
    /\ gcm.time < MaxTime
    /\ CanCouple
    /\ \E g \in Geoms : ~FoceanRejected(g) /\ Couple(g, gcm.time + 1)
    /\ UNCHANGED <<proc, rsf>>

\* A null pointer, an elevation class that dimE0 does not know, or a rejected
\* foceanOm ends the whole job.
CoupleFails ==
    /\ proc = "ready"
    /\ gcm.time < MaxTime
    /\ ~CanCouple \/ \E g \in Geoms : FoceanRejected(g)
    /\ Abort

\* gcmce_io_rsf(.., 'w') together with ModelE's own checkpoint.  A sheet
\* without XuE0 is not written.
IoRsfWrite ==
    /\ proc = "ready"
    /\ rsf' = [set |-> TRUE, gcm |-> gcm, ice |-> ice,
               XuE0s |-> XuE0s,
               dimE0 |-> [s \in Sheets |-> IF s \in RsfSheets(XuE0s)
                                             THEN dimE0[s] ELSE NoMatrix]]
    /\ UNCHANGED <<proc, volatile>>

\* The job is killed, or the ice model or a NaN check stops it.
Crash ==
    /\ proc \notin {"down", "aborted"}
    /\ proc' = "down"
    /\ UNCHANGED <<volatile, rsf>>

Next ==
    \/ GcmceNewCold \/ GcmceNewWarm
    \/ IoRsfRead
    \/ ModelStartCold \/ ModelStartFails \/ ModelStartWarm
    \/ CoupleNative \/ CoupleFails
    \/ IoRsfWrite
    \/ Crash

Spec == Init /\ [][Next]_vars
-----------------------------------------------------------------------------
(* Properties *)

\* Every variable keeps the shape its C++ type gives it; a focean count never
\* exceeds the number of O cells, as it would if += met a value not cleared.
GcmType == [time : Times, underice : SUBSET ECells,
            focean : [ACells -> 0..Cardinality(OCells)]]
IceType == [geom : Geoms, time : [Sheets -> Times]]
MatricesType == [Sheets -> MatrixType]
TypeOK ==
    /\ proc \in {"down", "cold", "warm", "restored", "ready", "aborted"}
    /\ gcm \in GcmType
    /\ timespan \in (Times \cup {-1}) \X Times
    /\ ice \in IceType
    /\ dimE0 \in MatricesType
    /\ XuE0s \in MatricesType
    /\ fw \in [op : [OCells -> 0..Full], om : [OCells -> 0..Rejected]]
    /\ mergemaskA0 \in [set : BOOLEAN, cells : SUBSET ACells]
    /\ E1vE0c \in [set : BOOLEAN, from : MatricesType, to : MatricesType]
    /\ rsf \in [set : BOOLEAN, gcm : GcmType, ice : IceType,
                XuE0s : MatricesType, dimE0 : MatricesType]

\* After any sequence of couplings, crashes and restarts, ModelE's underice
\* equals the one a fresh merge of the present ice would give, in every cell,
\* although a coupling rewrites only cells merged now or at the last coupling.
GcmViewCurrent == proc = "ready" => gcm.underice = Underice(ice.geom)

\* ModelE's ocean mask equals that of a fresh merge in every cell.
FoceanCurrent == proc = "ready" => gcm.focean = FoceanA(ice.geom)

\* "This should ONLY involve iE already mentioned in IvE0": ModelE sends only
\* elevation classes that the IceCoupler of every sheet can densify.
ECsKnown ==
    (proc = "ready" /\ mergemaskA0.set) => \A s \in Sheets : CanDensify(s)

\* The same from the first coupling with run_ice on: its matrices were made with
\* the ocean that update_topo() has put into gcmW, whatever the memory held when
\* those of model_start were made.
ECsKnownLater ==
    (proc = "ready" /\ E1vE0c.set) => \A s \in Sheets : CanDensify(s)

\* The GCM's clock, the coupler's and every ice model's agree between calls,
\* also after restarts and aborted jobs.
ClockAgrees ==
    proc = "ready" => /\ timespan[2] = gcm.time
                      /\ \A s \in Sheets : ice.time[s] = gcm.time

\* A job that can couple has what the last coupling left to it: the matrices of every
\* sheet ("for warm start, the infor was already saved in a restart file"), and a
\* merge mask ("must be saved in restart files") with all cells where ModelE has a
\* class, so that the next coupling clears those that ice has left.
ReadyToCouple ==
    proc = "ready" => /\ \A s \in Sheets : dimE0[s].set /\ XuE0s[s].set
                      /\ {e[1] : e \in gcm.underice} \subseteq mergemaskA0.cells

ECsOf(m) == UNION {m[s].ecs : s \in Sheets}

\* E1vE0c leads from the elevation grid ModelE had when it called to the one it
\* has when the call returns: every class of either is a column or a row, and
\* the two matrices are of the two ends of the interval.
TransitionSpansCoupling ==
    [][E1vE0c'.set /\ gcm'.time # gcm.time =>
        /\ gcm.underice \subseteq ECsOf(E1vE0c'.from)
        /\ gcm'.underice \subseteq ECsOf(E1vE0c'.to)
        /\ \A s \in Sheets : /\ E1vE0c'.from[s].time = gcm.time
                             /\ E1vE0c'.to[s].time = gcm'.time
       ]_vars

\* "does NOT change over the course of a ModelE run, because the ModelE ocean is
\* not able to change shape mid-run": a coupling leaves ModelE's ocean mask.
OceanShapeFixed ==
    [][(proc = "ready" /\ proc' = "ready") => gcm'.focean = gcm.focean]_vars

==============================================================================
