------------------------------- MODULE Contract -------------------------------
(***************************************************************************)
(* What ModelE and PISM exchange at a coupling: the variables of the       *)
(* contract (contracts/modele_pism.cpp) and their conversions, the way     *)
(* IceCoupler::couple() regrids them both ways, the VectorMultivec that    *)
(* carries them (multivec.cpp) and ModelE's arrays they end in             *)
(* (GCMCoupler_ModelE::apply_gcm_ivals()).                                 *)
(*                                                                         *)
(* A VectorMultivec is a set of records: the index, the weight, the values *)
(* and the sheet that added it; sheets add to the same index.  Values on   *)
(* the ice grid are Precision times the code's.                            *)
(***************************************************************************)
EXTENDS ModelERegrid

CONSTANT EnthLiquid     \* enth_modele_to_pism: of water at 0 C, for PISM

Summed(S, f(_)) == MapThenSumSet(f, S)

-----------------------------------------------------------------------------
(* The conversions of setup_modele_pism() *)

\* Faulty variant: the reference state of the transferred ice is not converted.
ToIce_SameReference(o) == o

\* var_trans_inE, for massxfer, enthxfer and deltah of a class
ToIce(o) == [o EXCEPT !.enthxfer = @ + EnthLiquid * o.massxfer]

\* The flows of mass and enthalpy that ModelE gets on A, and the ice model's
\* outputs that they are made of.  (Heat alone is passed on as it is.)
Flows == ("basal_runoff" :> {"melt_grounded", "melt_floating"})
            @@ [f \in {"calving", "internal_advection", "epsilon"} |-> {f}]

\* var_trans_outAE[A]
ToA(out) ==
    [f \in DOMAIN Flows |->
        LET mass == Summed(Flows[f], LAMBDA s : out[s].mass)
            enth == Summed(Flows[f], LAMBDA s : out[s].enth)
        IN  [mass |-> mass, enth |-> enth - EnthLiquid * mass]]

\* var_trans_outAE[E]: the specific enthalpy of the top of the ice
ToE(out) == out.ice_top_senth - Precision * EnthLiquid

-----------------------------------------------------------------------------
(* GCM -> ice *)

\* The classes that an IceCoupler knows, dimE1 and next time dimE0: as the
\* matrices over E are computed, each adds its own.
DimE(m) == RowsOf(m.EvI.M) \cup ColsOf(m.IvE.M) \cup ColsOf(m.XvE.M)

\* gcm_ovalsE_s is made dense; classes that were not sent count as 0.
DenseFails(vec, dimE0) == \E v \in vec : v.index \notin dimE0
GcmOvalsE(vec, dimE0) ==
    [e \in dimE0 |->
        LET at == {v \in vec : v.index = e}
        IN  [var \in {"massxfer", "enthxfer", "deltah"} |->
                Summed(at, LAMBDA v : v.vals[var])]]

\* Faulty variant: the matrix is not scaled.
IceIvalsI_Unscaled(IvE0, gcm_ovalsE, dimI) ==
    [i \in dimI |->
        LET row == {rc \in DOMAIN IvE0.M : rc[1] = i}
        IN  [var \in {"massxfer", "enthxfer", "deltah"} |->
                Precision * Summed(row, LAMBDA rc : IvE0.M[rc] * ToIce(gcm_ovalsE[rc[2]])[var])]]

\* construct_ice_ivalsI(): conversion, and the matrix IvE of the last coupling,
\* its rows divided by all the ice of the cell
IceIvalsI(IvE0, gcm_ovalsE, dimI) ==
    [i \in dimI |->
        LET row == {rc \in DOMAIN IvE0.M : rc[1] = i}
        IN  [var \in {"massxfer", "enthxfer", "deltah"} |->
                IF row = {} THEN 0
                ELSE (Precision * Summed(row,
                        LAMBDA rc : IvE0.M[rc] * ToIce(gcm_ovalsE[rc[2]])[var])) \div IvE0.wM[i]]]

\* _reconstruct_ice_ivalsI(): the boundary condition at the top of the ice drives
\* deltah into it, from the state that the ice model returned last time.  dt*kappa
\* is the unit of deltah here.
Reconstructed(ivals, lastout, useSmb) ==
    [i \in DOMAIN ivals |->
        LET H1 == IF i \in DOMAIN lastout THEN lastout[i].ice_top_senth ELSE 0
        IN  IF useSmb THEN ivals[i] @@ [ice_top_bc_senth |-> H1 + ivals[i].deltah]
            ELSE [ivals[i] EXCEPT !.massxfer = 0, !.enthxfer = 0]
                    @@ [ice_top_bc_senth |-> H1]]

-----------------------------------------------------------------------------
(* Ice -> GCM *)

\* What a sheet adds to gcm_ivalss_s: the unscaled matrix, which is wM times the
\* scaled one, times the converted values, and with each row its weight.
GcmIvals(name, X1vI, vals) ==
    {[sheet |-> name, index |-> x, weight |-> X1vI.wM[x],
      vals |-> vals[x]] : x \in DOMAIN X1vI.wM}

Regridded(X1vI, x, v) ==
    Summed({rc \in DOMAIN X1vI.M : rc[1] = x},
          LAMBDA rc : X1vI.wM[x] * X1vI.M[rc] * v[rc[2]])

GcmIvalsA(name, A1vI, out) ==
    GcmIvals(name, A1vI, [a \in DOMAIN A1vI.wM |->
        [f \in DOMAIN Flows |->
            [mass |-> Regridded(A1vI, a, [i \in DOMAIN out |-> ToA(out[i])[f].mass]),
             enth |-> Regridded(A1vI, a, [i \in DOMAIN out |-> ToA(out[i])[f].enth])]]])

GcmIvalsE(name, E1vI, out) ==
    LET converted == [i \in DOMAIN out |-> ToE(out[i])]
    IN  GcmIvals(name, E1vI,
                 [e \in DOMAIN E1vI.wM |-> Regridded(E1vI, e, converted)])

\* Faulty variant: one sheet's weight stands for all of them.
DenseScale_OneSheet(vec, x) ==
    Precision * (CHOOSE v \in vec : v.index = x).weight

\* to_dense_scale(), before it is inverted
DenseScale(vec, x) == Precision * Summed({v \in vec : v.index = x}, LAMBDA v : v.weight)

\* An entry of ModelE's arrays is a quotient, num by den: not a number if den is
\* 0.  The flows of an A cell share theirs.
AppliedA(gcmA, vec) ==
    [a \in DOMAIN gcmA |->
        LET at == {v \in vec : v.index = a}
        IN  IF at = {} THEN gcmA[a]
            ELSE [num |-> [f \in DOMAIN Flows |->
                            [mass |-> Summed(at, LAMBDA v : v.vals[f].mass),
                             enth |-> Summed(at, LAMBDA v : v.vals[f].enth)]],
                  den |-> DenseScale(vec, a)]]

\* Faulty variant: only the classes that are sent are cleared.
AppliedE_OwnClass(gcmE, vec) ==
    [e \in DOMAIN gcmE |->
        LET at == {v \in vec : v.index = e}
        IN  IF at # {} THEN [num |-> Summed(at, LAMBDA v : v.vals), den |-> DenseScale(vec, e)]
            ELSE gcmE[e]]

\* On E, all classes of a cell that has any are cleared first.
AppliedE(gcmE, vec) ==
    [e \in DOMAIN gcmE |->
        LET at == {v \in vec : v.index = e}
        IN  IF at # {} THEN [num |-> Summed(at, LAMBDA v : v.vals), den |-> DenseScale(vec, e)]
            ELSE IF \E v \in vec : CellOfE(v.index) = CellOfE(e) THEN [num |-> 0, den |-> 1]
            ELSE gcmE[e]]
===============================================================================
