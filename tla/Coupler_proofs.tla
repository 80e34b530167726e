---------------------------- MODULE Coupler_proofs ----------------------------
(***************************************************************************)
(* Theorems about Coupler, for any grid, coastline, set of sheets and      *)
(* sequence of ice geometries.                                             *)
(***************************************************************************)
EXTENDS Coupler, FiniteSetTheorems, TLAPS

-----------------------------------------------------------------------------
(* Facts about the merge *)

\* An elevation class that carries local ice lies in an A cell of the merge mask.
LEMMA UndericeMasked ==
    ASSUME NEW g, NEW e \in Underice(g)
    PROVE  e[1] \in MergeMaskA(g)
<1>1. PICK s \in Sheets :
        e \in RegridE(g[s].ice, MergedOp(g), OmArray(MergedOm(g)))
  BY DEF Underice
<1>2. PICK o \in OCells : AtmOf[o] = e[1] /\ <<o, e[2]>> \in g[s].ice
  BY <1>1 DEF RegridE
<1>3. e[2] \in HC
  BY <1>1 DEF RegridE, ECells
<1>4. o \in MergeMaskO(g)
  BY <1>2, <1>3 DEF MergeMaskO, IceCells
<1> QED
  BY <1>2, <1>4 DEF MergeMaskA

\* Rewriting the columns marked now or before makes the whole array current.
LEMMA ApplyTopoCurrent ==
    ASSUME NEW g0, NEW g, NEW mask0, NEW t,
           gcm.underice = Underice(g0),
           MergeMaskA(g0) \subseteq mask0
    PROVE  ApplyTopo(g, Touched(g, mask0), t).underice = Underice(g)
<1>1. ASSUME NEW e \in Underice(g0), e[1] \notin Touched(g, mask0)
      PROVE  FALSE
  BY <1>1, UndericeMasked DEF Touched
<1>2. ASSUME NEW e \in Underice(g)
      PROVE  e[1] \in Touched(g, mask0)
  BY <1>2, UndericeMasked DEF Touched
<1> QED
  BY <1>1, <1>2 DEF ApplyTopo

\* merge_topoO() fills single-cell oceans one after the other in the array it
\* tests.  Cells already filled never change the verdict on another cell, so the
\* loop fills the cells of Filled(g) in whatever order it visits them.
THEOREM FillOrder ==
    ASSUME NEW om, NEW op,
           NEW done \in SUBSET {o \in OCells : SingleOcean(om, op, o)},
           NEW c \in OCells \ done
    PROVE  SingleOcean(om \ done, op, c) <=> SingleOcean(om, op, c)
<1>1. SingleOcean(om, op, c) => SingleOcean(om \ done, op, c)
  BY DEF SingleOcean
<1>2. ASSUME SingleOcean(om \ done, op, c), NEW p \in om \cap Nbrs[c]
      PROVE  FALSE
  <2>1. c \in Interior /\ c \in om /\ p \in done
    BY <1>2 DEF SingleOcean
  <2>2. p \in Interior /\ om \cap Nbrs[p] = {}
    BY <2>1 DEF SingleOcean
  <2>3. c \in Nbrs[p]
    BY <1>2, <2>1, <2>2, NbrsAssumption
  <2> QED
    BY <2>1, <2>2, <2>3
<1> QED
  BY <1>1, <1>2 DEF SingleOcean

\* What merging a geometry gives lies in the grids.
LEMMA MergeTypes ==
    ASSUME NEW g \in Geoms
    PROVE  /\ MergedOp(g) \in [OCells -> 0..Full]
           /\ Underice(g) \in SUBSET ECells
           /\ FoceanA(g) \in [ACells -> 0..Cardinality(OCells)]
           /\ MergeMaskA(g) \in SUBSET ACells
<1>1. MergedOp(g) \in [OCells -> 0..Full]
  <2> SUFFICES ASSUME NEW o \in OCells
               PROVE  FOceanP[o] - ContArea(g, o) \in 0..Full
    BY DEF MergedOp
  <2>1. FOceanP[o] \in 0..Full /\ ContArea(g, o) \in 0..FOceanP[o] /\ Full \in Nat
    BY GridAssumption, FitAssumption
  <2> QED
    BY <2>1
<1>2. Underice(g) \in SUBSET ECells
  BY DEF Underice, RegridE
<1>3. FoceanA(g) \in [ACells -> 0..Cardinality(OCells)]
  <2> SUFFICES ASSUME NEW a \in ACells
               PROVE  Cardinality({o \in MergedOm(g) : AtmOf[o] = a})
                        \in 0..Cardinality(OCells)
    BY DEF FoceanA
  <2> DEFINE S == {o \in MergedOm(g) : AtmOf[o] = a}
  <2>1. S \subseteq OCells /\ IsFiniteSet(OCells)
    BY GridAssumption DEF MergedOm, Flipped
  <2>2. IsFiniteSet(S) /\ Cardinality(S) <= Cardinality(OCells)
    BY <2>1, FS_Subset
  <2>3. Cardinality(S) \in Nat /\ Cardinality(OCells) \in Nat
    BY <2>1, <2>2, FS_CardinalityType
  <2> QED
    BY <2>2, <2>3
<1>4. MergeMaskA(g) \in SUBSET ACells
  BY GridAssumption DEF MergeMaskA, MergeMaskO, IceCells, Flipped
<1> QED
  BY <1>1, <1>2, <1>3, <1>4

\* What a coupling with a geometry computes has its type.
LEMMA CouplingTypes ==
    ASSUME NEW g \in Geoms, NEW t \in Times
    PROVE  /\ NewMatrices(g, t) \in MatricesType
           /\ NoMatrices \in MatricesType
           /\ TopoFile(g, t) \in GcmType
           /\ IceState(g, t) \in IceType
           /\ KeepMask(g) \in [set : BOOLEAN, cells : SUBSET ACells]
           /\ gcm \in GcmType =>
                \A touched : ApplyTopo(g, touched, t) \in GcmType
<1>1. NewMatrices(g, t) \in MatricesType
  BY DEF NewMatrices, Matrix, RegridE, MatricesType, MatrixType
<1>2. NoMatrices \in MatricesType
  BY GeomsAssumption DEF NoMatrices, NoMatrix, MatricesType, MatrixType, Times
<1>3. TopoFile(g, t) \in GcmType
  BY MergeTypes DEF TopoFile, GcmType
<1>4. IceState(g, t) \in IceType
  BY DEF IceState, IceType
<1>5. KeepMask(g) \in [set : BOOLEAN, cells : SUBSET ACells]
  BY MergeTypes DEF KeepMask
<1>6. ASSUME gcm \in GcmType, NEW touched
      PROVE  ApplyTopo(g, touched, t) \in GcmType
  BY <1>6, MergeTypes DEF ApplyTopo, GcmType
<1> QED
  BY <1>1, <1>2, <1>3, <1>4, <1>5, <1>6

-----------------------------------------------------------------------------
(* Type correctness *)

\* A job starts with well-typed variables whenever its inputs are well typed.
LEMMA StartJobType ==
    ASSUME TypeOK, NEW g \in GcmType, NEW i \in IceType,
           NEW start \in {"cold", "warm"}, StartJob(start, g, i)
    PROVE  TypeOK'
<1>1. PICK raw \in RawFocean : fw' = [op |-> [o \in OCells |-> 0],
                                      om |-> [o \in OCells |-> raw]]
  BY DEF StartJob
<1>2. raw \in 0..Rejected /\ 0 \in 0..Full
  BY RawFoceanAssumption, GridAssumption
<1>3. fw' \in [op : [OCells -> 0..Full], om : [OCells -> 0..Rejected]]
  BY <1>1, <1>2
<1>4. InitGeom \in Geoms /\ 0 \in Times
  BY GeomsAssumption DEF Times
<1>5. NoMatrices \in MatricesType
  BY <1>4, CouplingTypes
<1> QED
  BY <1>3, <1>4, <1>5 DEF StartJob, TypeOK, NoMask, NoTransition
  
\* Every variable keeps its type.
THEOREM TypeCorrect == Spec => []TypeOK
<1>1. Init => TypeOK
  <2> SUFFICES ASSUME Init PROVE TypeOK
    OBVIOUS
  <2>1. InitGeom \in Geoms /\ 0 \in Times /\ Full \in Nat
    BY GeomsAssumption, GridAssumption DEF Times
  <2>2. /\ NoMatrices \in MatricesType
        /\ TopoFile(InitGeom, 0) \in GcmType
        /\ IceState(InitGeom, 0) \in IceType
    BY <2>1, CouplingTypes
  <2> QED
    BY <2>1, <2>2 DEF Init, TypeOK, NoMask, NoTransition, NoRsf, Rejected
<1>2. TypeOK /\ [Next]_vars => TypeOK'
  <2> SUFFICES ASSUME TypeOK, [Next]_vars PROVE TypeOK'
    OBVIOUS
  <2>0. InitGeom \in Geoms /\ 0 \in Times
    BY GeomsAssumption DEF Times
  <2>1. CASE GcmceNewCold
    BY <2>0, <2>1, CouplingTypes, StartJobType DEF GcmceNewCold
  <2>2. CASE GcmceNewWarm
    <3>1. rsf.gcm \in GcmType /\ rsf.ice \in IceType
      BY DEF TypeOK
    <3> QED
      BY <2>2, <3>1, StartJobType DEF GcmceNewWarm
  <2>3. CASE IoRsfRead
    <3>1. NoMatrices \in MatricesType
      BY <2>0, CouplingTypes
    <3>2. XuE0s' \in MatricesType /\ dimE0' \in MatricesType
      BY <2>3, <3>1 DEF IoRsfRead, TypeOK, MatricesType
    <3> QED
      BY <2>3, <3>2 DEF IoRsfRead, TypeOK
  <2>4. CASE ModelStartCold
    <3>1. ice.geom \in Geoms /\ gcm.time \in Times
      BY DEF TypeOK, IceType, GcmType
    <3>2. /\ NewMatrices(ice.geom, gcm.time) \in MatricesType
          /\ NoMatrices \in MatricesType
          /\ KeepMask(ice.geom) \in [set : BOOLEAN, cells : SUBSET ACells]
          /\ ApplyTopo(ice.geom, Touched(ice.geom, MergeMaskA(ice.geom)), gcm.time) \in GcmType
      BY <3>1, CouplingTypes DEF TypeOK
    <3>3. fw' \in [op : [OCells -> 0..Full], om : [OCells -> 0..Rejected]]
      <4>1. MergedOp(ice.geom) \in [OCells -> 0..Full]
        BY <3>1, MergeTypes
      <4>2. OmArray(MergedOm(ice.geom)) \in [OCells -> 0..Rejected]
        BY DEF OmArray, Rejected
      <4> QED
        BY <2>4, <4>1, <4>2 DEF ModelStartCold
    <3> QED
      BY <2>4, <3>1, <3>2, <3>3 DEF ModelStartCold, TypeOK, NoTransition
  <2>5. CASE ModelStartFails
    BY <2>5 DEF ModelStartFails, Abort, TypeOK, volatile
  <2>6. CASE ModelStartWarm
    <3>1. gcm.time \in Times
      BY DEF TypeOK, GcmType
    <3> QED
      BY <2>6, <3>1 DEF ModelStartWarm, TypeOK
  <2>7. CASE CoupleNative
    <3> DEFINE t == gcm.time + 1
    <3>1. PICK g \in Geoms : Couple(g, t)
      BY <2>7 DEF CoupleNative
    <3>2. t \in Times
      BY <2>7, GeomsAssumption DEF CoupleNative, TypeOK, GcmType, Times
    <3> HIDE DEF t
    <3>3. /\ NewMatrices(g, t) \in MatricesType
          /\ IceState(g, t) \in IceType
          /\ KeepMask(g) \in [set : BOOLEAN, cells : SUBSET ACells]
          /\ ApplyTopo(g, Touched(g, mergemaskA0.cells), t) \in GcmType
      BY <3>2, CouplingTypes DEF TypeOK
    <3>4. fw' \in [op : [OCells -> 0..Full], om : [OCells -> 0..Rejected]]
      BY <3>1, MergeTypes DEF Couple, TypeOK
    <3>5. timespan' \in (Times \cup {-1}) \X Times
      BY <3>1, <3>2 DEF Couple, TypeOK
    <3>6. E1vE0c' \in [set : BOOLEAN, from : MatricesType, to : MatricesType]
      BY <3>1, <3>3 DEF Couple, TypeOK
    <3> QED
      BY <2>7, <3>1, <3>3, <3>4, <3>5, <3>6 DEF CoupleNative, Couple, TypeOK
  <2>8. CASE CoupleFails
    BY <2>8 DEF CoupleFails, Abort, TypeOK, volatile
  <2>9. CASE IoRsfWrite
    <3>1. NoMatrices \in MatricesType
      BY <2>0, CouplingTypes
    <3>2. [s \in Sheets |-> IF s \in RsfSheets(XuE0s) THEN dimE0[s] ELSE NoMatrix]
             \in MatricesType
      BY <3>1 DEF TypeOK, MatricesType, NoMatrices
    <3> QED
      BY <2>9, <3>2 DEF IoRsfWrite, TypeOK, volatile
  <2>10. CASE Crash
    BY <2>10 DEF Crash, TypeOK, volatile
  <2>11. CASE UNCHANGED vars
    BY <2>11 DEF TypeOK, vars, volatile
  <2> QED
    BY <2>1, <2>2, <2>3, <2>4, <2>5, <2>6, <2>7, <2>8, <2>9, <2>10, <2>11 DEF Next
<1> QED
  BY <1>1, <1>2, PTL DEF Spec

-----------------------------------------------------------------------------
(* ModelE's view of the ice *)

Running == {"cold", "warm", "restored", "ready"}

\* Inductive: the view is current from the moment the job has its inputs, the
\* mask kept is the mask of the present ice, and a checkpoint is a consistent
\* pair.
ViewInv ==
    /\ proc \in Running => gcm.underice = Underice(ice.geom)
    /\ mergemaskA0.set => proc \notin {"cold", "warm", "restored"}
    /\ (proc = "ready" /\ mergemaskA0.set) =>
          mergemaskA0.cells = MergeMaskA(ice.geom)
    /\ rsf.gcm.underice = Underice(rsf.ice.geom)

\* ViewInv holds in every state.
LEMMA ViewInvariant == Spec => []ViewInv
<1>1. Init => ViewInv
  BY DEF Init, ViewInv, Running, TopoFile, IceState, NoMask, NoRsf
<1>2. ViewInv /\ [Next]_vars => ViewInv'
  <2> SUFFICES ASSUME ViewInv, [Next]_vars PROVE ViewInv'
    OBVIOUS
  <2> USE DEF ViewInv, Running
  <2>1. CASE GcmceNewCold
    BY <2>1 DEF GcmceNewCold, StartJob, TopoFile, IceState, NoMask
  <2>2. CASE GcmceNewWarm
    BY <2>2 DEF GcmceNewWarm, StartJob, NoMask
  <2>3. CASE IoRsfRead
    BY <2>3 DEF IoRsfRead
  <2>4. CASE ModelStartCold
    <3>1. ApplyTopo(ice.geom, Touched(ice.geom, MergeMaskA(ice.geom)), gcm.time).underice
             = Underice(ice.geom)
      BY <2>4, ApplyTopoCurrent DEF ModelStartCold
    <3> QED
      BY <2>4, <3>1 DEF ModelStartCold, KeepMask
  <2>5. CASE ModelStartFails
    BY <2>5 DEF ModelStartFails, Abort, volatile
  <2>6. CASE ModelStartWarm
    BY <2>6 DEF ModelStartWarm
  <2>7. CASE CoupleNative
    <3>1. PICK g \in Geoms : Couple(g, gcm.time + 1)
      BY <2>7 DEF CoupleNative
    <3>2. ApplyTopo(g, Touched(g, mergemaskA0.cells), gcm.time + 1).underice = Underice(g)
      BY <2>7, ApplyTopoCurrent DEF CoupleNative, CanCouple
    <3> QED
      BY <2>7, <3>1, <3>2 DEF CoupleNative, Couple, KeepMask, IceState
  <2>8. CASE CoupleFails
    BY <2>8 DEF CoupleFails, Abort, volatile
  <2>9. CASE IoRsfWrite
    BY <2>9 DEF IoRsfWrite, volatile
  <2>10. CASE Crash
    BY <2>10 DEF Crash, volatile
  <2>11. CASE UNCHANGED vars
    BY <2>11 DEF vars, volatile
  <2> QED
    BY <2>1, <2>2, <2>3, <2>4, <2>5, <2>6, <2>7, <2>8, <2>9, <2>10, <2>11 DEF Next
<1> QED
  BY <1>1, <1>2, PTL DEF Spec

\* Whatever the coast does and however many sheets there are, ModelE's underice
\* is that of a fresh merge whenever the job is ready for a coupling.
THEOREM ViewCurrent == Spec => []GcmViewCurrent
<1>1. ViewInv => GcmViewCurrent
  BY DEF ViewInv, GcmViewCurrent, Running
<1> QED
  BY <1>1, ViewInvariant, PTL

-----------------------------------------------------------------------------
(* ModelE's ocean, where fills leave no trace that is not sent *)

\* A single-cell ocean that one geometry fills and another does not lies in an A cell
\* that one of them marks.
FillsMarked ==
    \A g, h \in Geoms : \A o \in Filled(g) \ Filled(h) :
        AtmOf[o] \in MergeMaskA(g) \cup MergeMaskA(h)

\* The A cells that neither geometry marks have the same ocean with both.
LEMMA UnmarkedOcean ==
    ASSUME FillsMarked, NEW g \in Geoms, NEW h \in Geoms,
           NEW a, a \notin MergeMaskA(g), a \notin MergeMaskA(h)
    PROVE  {o \in MergedOm(g) : AtmOf[o] = a} = {o \in MergedOm(h) : AtmOf[o] = a}
<1>1. ASSUME NEW k \in Geoms, NEW o \in Flipped(k)
      PROVE  AtmOf[o] \in MergeMaskA(k)
  BY DEF MergeMaskA, MergeMaskO
<1>2. ASSUME NEW o, AtmOf[o] = a
      PROVE  o \in Filled(g) <=> o \in Filled(h)
  BY <1>2 DEF FillsMarked
<1>3. ASSUME NEW o, AtmOf[o] = a
      PROVE  o \in MergedOm(g) <=> o \in MergedOm(h)
  <2>1. o \notin Flipped(g) /\ o \notin Flipped(h)
    BY <1>1, <1>3
  <2> QED
    BY <1>2, <1>3, <2>1 DEF MergedOm
<1> QED
  BY <1>3

\* Where unmarked fills stand still, rewriting the columns marked now or before makes the
\* ocean mask current.
LEMMA ApplyTopoOcean ==
    ASSUME FillsMarked, NEW g0 \in Geoms, NEW g \in Geoms, NEW mask0, NEW t,
           gcm.focean = FoceanA(g0), MergeMaskA(g0) \subseteq mask0
    PROVE  ApplyTopo(g, Touched(g, mask0), t).focean = FoceanA(g)
<1>1. ASSUME NEW a \in ACells, a \notin Touched(g, mask0)
      PROVE  gcm.focean[a] = FoceanA(g)[a]
  <2>1. {o \in MergedOm(g0) : AtmOf[o] = a} = {o \in MergedOm(g) : AtmOf[o] = a}
    BY <1>1, UnmarkedOcean DEF Touched
  <2> QED
    BY <2>1 DEF FoceanA
<1>2. FoceanA(g) = [a \in ACells |-> FoceanA(g)[a]]
  BY DEF FoceanA
<1> QED
  BY <1>1, <1>2 DEF ApplyTopo

\* Inductive, with ViewInv and TypeOK: the ocean is current from the moment the job has its
\* inputs, and in every checkpoint.
OceanInv ==
    /\ proc \in Running => gcm.focean = FoceanA(ice.geom)
    /\ rsf.gcm.focean = FoceanA(rsf.ice.geom)

\* Unless a fill comes or goes in an unmarked cell, ModelE's ocean mask is that of a fresh
\* merge whenever the job is ready for a coupling, with any coast that moves and any
\* content of the memory that is not set.
THEOREM OceanCurrent == ASSUME FillsMarked PROVE Spec => []FoceanCurrent
<1>1. Init => OceanInv
  BY DEF Init, OceanInv, Running, TopoFile, IceState, NoRsf
<1>2. TypeOK /\ ViewInv /\ OceanInv /\ [Next]_vars => OceanInv'
  <2> SUFFICES ASSUME TypeOK, ViewInv, OceanInv, [Next]_vars PROVE OceanInv'
    OBVIOUS
  <2> USE DEF OceanInv, Running
  <2>0. ice.geom \in Geoms
    BY DEF TypeOK, IceType
  <2>1. CASE GcmceNewCold
    BY <2>1 DEF GcmceNewCold, StartJob, TopoFile, IceState
  <2>2. CASE GcmceNewWarm
    BY <2>2 DEF GcmceNewWarm, StartJob
  <2>3. CASE IoRsfRead
    BY <2>3 DEF IoRsfRead
  <2>4. CASE ModelStartCold
    <3>1. gcm.focean = FoceanA(ice.geom)
      BY <2>4 DEF ModelStartCold
    <3>2. ApplyTopo(ice.geom, Touched(ice.geom, MergeMaskA(ice.geom)), gcm.time).focean
             = FoceanA(ice.geom)
      BY <2>0, <3>1, ApplyTopoOcean
    <3> QED
      BY <2>4, <3>2 DEF ModelStartCold
  <2>5. CASE ModelStartFails
    BY <2>5 DEF ModelStartFails, Abort, volatile
  <2>6. CASE ModelStartWarm
    BY <2>6 DEF ModelStartWarm
  <2>7. CASE CoupleNative
    <3>1. PICK g \in Geoms : Couple(g, gcm.time + 1)
      BY <2>7 DEF CoupleNative
    <3>2. gcm.focean = FoceanA(ice.geom) /\ mergemaskA0.cells = MergeMaskA(ice.geom)
      BY <2>7 DEF CoupleNative, CanCouple, ViewInv
    <3>3. ApplyTopo(g, Touched(g, mergemaskA0.cells), gcm.time + 1).focean = FoceanA(g)
      BY <2>0, <3>2, ApplyTopoOcean
    <3> QED
      BY <2>7, <3>1, <3>3 DEF CoupleNative, Couple, IceState
  <2>8. CASE CoupleFails
    BY <2>8 DEF CoupleFails, Abort, volatile
  <2>9. CASE IoRsfWrite
    BY <2>9 DEF IoRsfWrite, volatile
  <2>10. CASE Crash
    BY <2>10 DEF Crash, volatile
  <2>11. CASE UNCHANGED vars
    BY <2>11 DEF vars, volatile
  <2> QED
    BY <2>1, <2>2, <2>3, <2>4, <2>5, <2>6, <2>7, <2>8, <2>9, <2>10, <2>11 DEF Next
<1>3. OceanInv => FoceanCurrent
  BY DEF OceanInv, FoceanCurrent, Running
<1> QED
  BY <1>1, <1>2, <1>3, TypeCorrect, ViewInvariant, PTL DEF Spec

-----------------------------------------------------------------------------
(* Clocks *)

\* Inductive: the clocks agree from the moment the job has its inputs, and in
\* every checkpoint.
ClockInv ==
    /\ proc \in Running => \A s \in Sheets : ice.time[s] = gcm.time
    /\ proc = "ready" => timespan[2] = gcm.time
    /\ \A s \in Sheets : rsf.ice.time[s] = rsf.gcm.time

\* ModelE, the coupler and every ice model agree on the time between calls.
THEOREM ClocksAgree == Spec => []ClockAgrees
<1>1. Init => ClockInv
  BY DEF Init, ClockInv, Running, TopoFile, IceState, NoRsf
<1>2. ClockInv /\ [Next]_vars => ClockInv'
  <2> SUFFICES ASSUME ClockInv, [Next]_vars PROVE ClockInv'
    OBVIOUS
  <2> USE DEF ClockInv, Running
  <2>1. CASE GcmceNewCold
    BY <2>1 DEF GcmceNewCold, StartJob, TopoFile, IceState
  <2>2. CASE GcmceNewWarm
    BY <2>2 DEF GcmceNewWarm, StartJob
  <2>3. CASE IoRsfRead
    BY <2>3 DEF IoRsfRead
  <2>4. CASE ModelStartCold
    BY <2>4 DEF ModelStartCold, ApplyTopo
  <2>5. CASE ModelStartFails
    BY <2>5 DEF ModelStartFails, Abort, volatile
  <2>6. CASE ModelStartWarm
    BY <2>6 DEF ModelStartWarm
  <2>7. CASE CoupleNative
    BY <2>7 DEF CoupleNative, Couple, IceState, ApplyTopo
  <2>8. CASE CoupleFails
    BY <2>8 DEF CoupleFails, Abort, volatile
  <2>9. CASE IoRsfWrite
    BY <2>9 DEF IoRsfWrite, volatile
  <2>10. CASE Crash
    BY <2>10 DEF Crash, volatile
  <2>11. CASE UNCHANGED vars
    BY <2>11 DEF vars, volatile
  <2> QED
    BY <2>1, <2>2, <2>3, <2>4, <2>5, <2>6, <2>7, <2>8, <2>9, <2>10, <2>11 DEF Next
<1>3. ClockInv => ClockAgrees
  BY DEF ClockInv, ClockAgrees, Running
<1> QED
  BY <1>1, <1>2, <1>3, PTL DEF Spec

-----------------------------------------------------------------------------
(* Elevation classes, where the coast does not move *)

\* The ocean mask is the same for every geometry the ice can take.
FixedCoast == \A g, h \in Geoms : MergedOm(g) = MergedOm(h)

\* A cell that ModelE rounds to land has some continent for IceBin.
LEMMA LandHasContinent ==
    ASSUME NEW g \in Geoms, NEW o \in OCells, o \notin MergedOm(g)
    PROVE  MergedOp(g)[o] # Full
<1> DEFINE op == MergedOp(g)
<1>1. /\ op[o] = FOceanP[o] - ContArea(g, o)
      /\ ContArea(g, o) \in 0..FOceanP[o]
      /\ FOceanP[o] \in 0..Full
      /\ Full \in Nat \ {0}
  BY FitAssumption, GridAssumption DEF MergedOp
<1>2. CASE o \notin BaseOcean
  BY <1>1, <1>2, RoundingAssumption
<1>3. CASE o \in Flipped(g)
  BY <1>1, <1>3 DEF Flipped
<1>4. CASE o \in Filled(g)
  BY <1>4 DEF Filled, SingleOcean
<1> QED
  BY <1>2, <1>3, <1>4 DEF MergedOm

\* Ocean arrays with continent on every land cell give matrices that have, together,
\* every elevation class of the fresh topography.
LEMMA MatricesCover ==
    ASSUME NEW g \in Geoms, NEW t,
           \A o \in OCells \ MergedOm(g) : fw.om[o] = 0 /\ fw.op[o] # Full
    PROVE  Underice(g) \subseteq ECsOf(NewMatrices(g, t))
<1> SUFFICES ASSUME NEW e \in Underice(g)
             PROVE  \E s \in Sheets : e \in RegridE(g[s].ice, fw.op, fw.om)
  BY DEF ECsOf, NewMatrices, Matrix
<1>1. PICK s \in Sheets : e \in RegridE(g[s].ice, MergedOp(g), OmArray(MergedOm(g)))
  BY DEF Underice
<1>2. PICK o \in OCells : /\ AtmOf[o] = e[1]
                          /\ <<o, e[2]>> \in g[s].ice
                          /\ OmArray(MergedOm(g))[o] = 0
  BY <1>1 DEF RegridE
<1>3. o \notin MergedOm(g)
  BY <1>2 DEF OmArray
<1> QED
  BY <1>1, <1>2, <1>3 DEF RegridE

\* Inductive: once a job has coupled at its start, gcmW holds the ocean of the present
\* ice and XuE0s are the matrices that the IceCouplers have kept; once it has run the
\* ice, these know every class that ModelE has.
ECsInv ==
    /\ proc \in {"cold", "warm", "restored"} => ~mergemaskA0.set /\ ~E1vE0c.set
    /\ (proc = "ready" /\ mergemaskA0.set) =>
          /\ fw.om = OmArray(MergedOm(ice.geom))
          /\ fw.op = MergedOp(ice.geom)
          /\ XuE0s = dimE0
          /\ \A s \in Sheets : dimE0[s].set /\ dimE0[s].time = gcm.time
    /\ (proc = "ready" /\ E1vE0c.set) =>
          /\ mergemaskA0.set
          /\ Underice(ice.geom) \subseteq ECsOf(dimE0)

\* Init establishes ECsInv.
LEMMA ECsInvInit == Init => ECsInv
  BY DEF Init, ECsInv, NoMask, NoTransition

\* Every step preserves ECsInv.
LEMMA ECsInvNext ==
    ASSUME FixedCoast, TypeOK, ECsInv, [Next]_vars
    PROVE  ECsInv'
<1> USE DEF ECsInv
<1>1. ASSUME NEW start, NEW g, NEW i, StartJob(start, g, i), start \in {"cold", "warm"}
      PROVE  ECsInv'
  BY <1>1 DEF StartJob, NoMask, NoTransition
<1>2. CASE GcmceNewCold
  BY <1>1, <1>2 DEF GcmceNewCold
<1>3. CASE GcmceNewWarm
  BY <1>1, <1>3 DEF GcmceNewWarm
<1>4. CASE IoRsfRead
  BY <1>4 DEF IoRsfRead
<1>5. CASE ModelStartCold
  BY <1>5 DEF ModelStartCold, NewMatrices, Matrix, ApplyTopo, NoTransition
<1>6. CASE ModelStartFails
  BY <1>6 DEF ModelStartFails, Abort, volatile
<1>7. CASE ModelStartWarm
  BY <1>7 DEF ModelStartWarm
<1>8. CASE CoupleNative
  <2> DEFINE t == gcm.time + 1
  <2>1. PICK g \in Geoms : Couple(g, t)
    BY <1>8 DEF CoupleNative
  <2>2. ice.geom \in Geoms /\ MergedOm(g) = MergedOm(ice.geom)
    BY DEF TypeOK, IceType, FixedCoast
  <2>3. \A o \in OCells \ MergedOm(g) : fw.om[o] = 0 /\ fw.op[o] # Full
    BY <1>8, <2>2, LandHasContinent DEF CoupleNative, CanCouple, OmArray
  <2>4. Underice(g) \subseteq ECsOf(NewMatrices(g, t))
    BY <2>3, MatricesCover
  <2> HIDE DEF t
  <2>5. ice'.geom = g /\ gcm'.time = t
    BY <2>1 DEF Couple, IceState, ApplyTopo
  <2>6. dimE0' = NewMatrices(g, t) /\ XuE0s' = dimE0' /\ mergemaskA0'.set
    BY <2>1 DEF Couple, KeepMask
  <2>7. \A s \in Sheets : dimE0'[s].set /\ dimE0'[s].time = gcm'.time
    BY <2>5, <2>6 DEF NewMatrices, Matrix
  <2>8. fw'.om = OmArray(MergedOm(ice'.geom)) /\ fw'.op = MergedOp(ice'.geom)
    BY <1>8, <2>1, <2>2, <2>5 DEF CoupleNative, CanCouple, Couple
  <2> QED
    BY <1>8, <2>4, <2>5, <2>6, <2>7, <2>8 DEF CoupleNative
<1>9. CASE CoupleFails
  BY <1>9 DEF CoupleFails, Abort, volatile
<1>10. CASE IoRsfWrite
  BY <1>10 DEF IoRsfWrite, volatile
<1>11. CASE Crash
  BY <1>11 DEF Crash, volatile
<1>12. CASE UNCHANGED vars
  BY <1>12 DEF vars, volatile
<1> QED
  BY <1>2, <1>3, <1>4, <1>5, <1>6, <1>7, <1>8, <1>9, <1>10, <1>11, <1>12 DEF Next

\* Where the coast does not move, to_dense() of the one sheet's IceCoupler never meets a
\* class it does not know, from the first coupling with the ice on: whatever the unset
\* arrays of gcmW held at model_start has then gone from the matrices.
THEOREM ECsAlwaysKnown ==
    ASSUME FixedCoast, \E s : Sheets = {s}
    PROVE  Spec => []ECsKnownLater
<1>1. TypeOK /\ ECsInv /\ [Next]_vars => ECsInv'
  BY ECsInvNext
<1>2. ECsInv /\ GcmViewCurrent => ECsKnownLater
  <2> SUFFICES ASSUME ECsInv, GcmViewCurrent, proc = "ready", E1vE0c.set, NEW s \in Sheets
               PROVE  CanDensify(s)
    BY DEF ECsKnownLater
  <2>1. Sheets = {s}
    OBVIOUS
  <2>2. ECsOf(dimE0) = dimE0[s].ecs
    BY <2>1 DEF ECsOf
  <2> QED
    BY <2>2 DEF ECsInv, GcmViewCurrent, CanDensify
<1> QED
  BY <1>1, <1>2, ECsInvInit, TypeCorrect, ViewCurrent, PTL DEF Spec

\* Where the coast does not move, E1vE0c leads from the grid ModelE had to the grid it
\* gets, at the two ends of the coupling interval, for any number of sheets and whatever
\* the unset arrays of gcmW held: a coupling for which they were wrong does not return.
THEOREM TransitionsSpan == ASSUME FixedCoast PROVE Spec => TransitionSpansCoupling
<1> DEFINE Spans == E1vE0c'.set /\ gcm'.time # gcm.time =>
        /\ gcm.underice \subseteq ECsOf(E1vE0c'.from)
        /\ gcm'.underice \subseteq ECsOf(E1vE0c'.to)
        /\ \A s \in Sheets : /\ E1vE0c'.from[s].time = gcm.time
                             /\ E1vE0c'.to[s].time = gcm'.time
<1>1. TypeOK /\ ECsInv /\ [Next]_vars => ECsInv'
  BY ECsInvNext
<1>2. ASSUME ECsInv, ECsInv', GcmViewCurrent, GcmViewCurrent', Next
      PROVE  Spans
  <2>1. CASE CoupleNative
    <3>1. PICK g \in Geoms : Couple(g, gcm.time + 1)
      BY <2>1 DEF CoupleNative
    <3>2. /\ proc = "ready" /\ mergemaskA0.set
          /\ proc' = "ready" /\ mergemaskA0'.set
      BY <2>1, <3>1 DEF CoupleNative, CanCouple, Couple, KeepMask
    <3>3. E1vE0c'.from = dimE0 /\ E1vE0c'.to = dimE0'
      BY <1>2, <3>1, <3>2 DEF Couple, ECsInv
    <3>4. gcm.underice \subseteq ECsOf(dimE0)
      <4>1. CASE Sheets = {}
        BY <1>2, <3>2, <4>1 DEF GcmViewCurrent, Underice
      <4>2. CASE Sheets # {}
        BY <2>1, <4>2 DEF CoupleNative, CanCouple, CanDensify, ECsOf
      <4> QED
        BY <4>1, <4>2
    <3>5. gcm'.underice \subseteq ECsOf(dimE0')
      <4>1. E1vE0c'.set
        BY <3>1 DEF Couple
      <4> QED
        BY <1>2, <3>2, <4>1 DEF ECsInv, GcmViewCurrent, ECsOf
    <3>6. \A r \in Sheets : dimE0[r].time = gcm.time /\ dimE0'[r].time = gcm'.time
      BY <1>2, <3>2 DEF ECsInv
    <3> QED
      BY <3>3, <3>4, <3>5, <3>6
  <2>2. CASE GcmceNewCold
    BY <2>2 DEF GcmceNewCold, StartJob, NoTransition
  <2>3. CASE GcmceNewWarm
    BY <2>3 DEF GcmceNewWarm, StartJob, NoTransition
  <2>4. CASE ModelStartCold
    BY <2>4 DEF ModelStartCold, NoTransition
  <2>5. CASE IoRsfRead \/ ModelStartWarm
    BY <2>5 DEF IoRsfRead, ModelStartWarm
  <2>6. CASE ModelStartFails \/ CoupleFails \/ IoRsfWrite \/ Crash
    BY <2>6 DEF ModelStartFails, CoupleFails, Abort, IoRsfWrite, Crash, volatile
  <2> QED
    BY <1>2, <2>1, <2>2, <2>3, <2>4, <2>5, <2>6 DEF Next
<1>3. TypeOK /\ ECsInv /\ GcmViewCurrent /\ GcmViewCurrent' /\ [Next]_vars => [Spans]_vars
  BY <1>1, <1>2
<1>4. Spec => [][Spans]_vars
  BY <1>1, <1>3, ECsInvInit, TypeCorrect, ViewCurrent, PTL DEF Spec
<1> QED
  BY <1>4 DEF TransitionSpansCoupling
==============================================================================
