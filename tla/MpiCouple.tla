------------------------------ MODULE MpiCouple ------------------------------
(***************************************************************************)
(* One coupling as the MPI ranks of a job execute it: every rank calls     *)
(* gcmce_couple_native() (modele/GCMCoupler_ModelE.cpp), which gathers     *)
(* what the ranks send, runs the ice sheets on all ranks and the coupler   *)
(* on the root, and scatters the new topography by domain.                 *)
(*                                                                         *)
(* A message carries elevation classes, the values that go with them are   *)
(* left out.  What the root computes from the ice (the subject of Coupler) *)
(* is a choice from Outcomes.                                              *)
(***************************************************************************)
EXTENDS Integers, Sequences, FiniteSets

CONSTANTS
    NRanks,     \* number of MPI ranks; the ranks are 0 .. NRanks-1
    Root,       \* GCMParams::gcm_root
    NSheets,    \* number of ice sheets
    IM, JM,     \* size of the atmosphere grid
    NHC,        \* number of elevation classes
    EndJ,       \* first row after the domain of each rank
    Outcomes,   \* what the ice of a coupling can lead to: see Outcome
    InitOutcome,\* what that of model_start has led to
    MaxRound    \* bound on the number of couplings

Ranks == 0..(NRanks - 1)
Rows == 0..(JM - 1)
AIndex == 0..(IM * JM - 1)
EIndex == 0..(IM * JM * NHC - 1)

\* What a coupling makes of the ice: the classes of the new topography, from all
\* the sheets and the present ocean, and those of each sheet's own EvI matrix,
\* which its IceCoupler keeps as dimE0 (see Coupler for how they may differ).
Sheets == 1..NSheets
Outcome == [view : SUBSET EIndex, dimE0 : [Sheets -> SUBSET EIndex]]

\* The A cell of an E index, and its row.
CellOf(e) == e % (IM * JM)
RowOf(a) == a \div IM

\* The rows of a rank: domainA[1], a closed-open range.
BeginJ(r) == IF r = 0 THEN 0 ELSE EndJ[r - 1]
OwnRows(r) == BeginJ(r)..(EndJ[r] - 1)
OwnE(r) == {e \in EIndex : RowOf(CellOf(e)) \in OwnRows(r)}

ASSUME SizeAssumption ==
    /\ NRanks \in Nat \ {0} /\ IM \in Nat \ {0} /\ JM \in Nat \ {0}
    /\ NHC \in Nat \ {0} /\ NSheets \in Nat /\ MaxRound \in Nat
    /\ Root \in Ranks
    /\ InitOutcome \in Outcome /\ Outcomes \subseteq Outcome

\* ModelE splits its rows in order, every rank has at least one.
ASSUME EndJAssumption ==
    /\ EndJ \in [Ranks -> 1..JM]
    /\ \A r \in Ranks : BeginJ(r) < EndJ[r]
    /\ EndJ[NRanks - 1] = JM

(***************************************************************************)
(* DomainDecomposer_ModelE: the constructor walks the rows once, giving    *)
(* row j to the first rank with j < endj; get_domain() serves A and E.     *)
(***************************************************************************)
RankOfJ == [j \in Rows |-> CHOOSE r \in Ranks :
                              j < EndJ[r] /\ \A q \in 0..(r - 1) : j >= EndJ[q]]

\* Faulty variant: the row is taken as 1-based.
GetDomain_OneBased(ix) == RankOfJ[((ix \div IM) + 1) % JM]

GetDomain(ix) == RankOfJ[(ix \div IM) % JM]

VARIABLES
    pc,        \* where each rank is in gcmce_couple_native
    round,     \* couplings each rank has returned from
    underice,  \* the rank's array: local-ice classes in its own cells
    sheet,     \* next ice sheet of each rank's loop over ice_couplers
    steps,     \* calls of run_timestep() each rank has made
    up,        \* gather messages on their way to the root, from each rank
    down,      \* scatter messages on their way from the root, to each rank
    root,      \* the root's data: see RootType
    aborted    \* icebin_error() has ended the job

vars == <<pc, round, underice, sheet, steps, up, down, root, aborted>>

\* A domain's share of the coupler output: the cells that are packed and the
\* classes they now have.
Message == [cells : SUBSET AIndex, ecs : SUBSET EIndex]

\* gathered: the concatenated input; dimE0: that of each sheet's IceCoupler;
\* view, mask: the topography and merge mask of the last coupling; outs:
\* every_outs; dest: the rank that scatter sends to next.
RootType == [gathered : SUBSET EIndex, dimE0 : [Sheets -> SUBSET EIndex],
             view : SUBSET EIndex, mask : SUBSET AIndex,
             outs : [Ranks -> Message], dest : 0..NRanks]

Nothing == [cells |-> {}, ecs |-> {}]

Init ==
    /\ pc = [r \in Ranks |-> "model"]
    /\ round = [r \in Ranks |-> 0]
    /\ underice = [r \in Ranks |-> InitOutcome.view \cap OwnE(r)]
    /\ sheet = [r \in Ranks |-> 1]
    /\ steps = [r \in Ranks |-> 0]
    /\ up = [r \in Ranks |-> <<>>]
    /\ down = [r \in Ranks |-> <<>>]
    /\ root = [gathered |-> {}, dimE0 |-> InitOutcome.dimE0, view |-> InitOutcome.view,
               mask |-> {CellOf(e) : e \in InitOutcome.view},
               outs |-> [r \in Ranks |-> Nothing], dest |-> 0]
    /\ aborted = FALSE

Goto(r, label) == pc' = [pc EXCEPT ![r] = label]

\* Faulty variant: the root's loop over the sheets starts at the second.
Enter_RootSkips(r) ==
    /\ pc[r] = "model"
    /\ round[r] < MaxRound
    /\ up' = [up EXCEPT ![r] = Append(@, underice[r])]
    /\ sheet' = [sheet EXCEPT ![r] = IF r = Root THEN 2 ELSE 1]
    /\ Goto(r, IF r = Root THEN "gather" ELSE "sheets")
    /\ UNCHANGED <<round, underice, steps, down, root, aborted>>

\* A rank packs what lies in its domain and joins the gather.  Only the root
\* waits there.
Enter(r) ==
    /\ pc[r] = "model"
    /\ round[r] < MaxRound
    /\ up' = [up EXCEPT ![r] = Append(@, underice[r])]
    /\ sheet' = [sheet EXCEPT ![r] = 1]
    /\ Goto(r, IF r = Root THEN "gather" ELSE "sheets")
    /\ UNCHANGED <<round, underice, steps, down, root, aborted>>

Gather ==
    /\ pc[Root] = "gather"
    /\ \A r \in Ranks : up[r] # <<>>
    /\ root' = [root EXCEPT !.gathered = UNION {Head(up[r]) : r \in Ranks}]
    /\ up' = [r \in Ranks |-> Tail(up[r])]
    /\ Goto(Root, "sheets")
    /\ UNCHANGED <<round, underice, sheet, steps, down, aborted>>

\* to_dense() finds every class gathered, of whatever sheet, in dimE0 of the sheet
\* whose turn it is.  Only the root has dimE0.
Dense(r) == r = Root => root.gathered \subseteq root.dimE0[sheet[r]]

\* IceCoupler::couple() up to run_timestep()
IceEnter(r) ==
    /\ pc[r] = "sheets"
    /\ sheet[r] <= NSheets
    /\ Dense(r)
    /\ steps' = [steps EXCEPT ![r] = @ + 1]
    /\ Goto(r, "ice")
    /\ UNCHANGED <<round, underice, sheet, up, down, root, aborted>>

\* run_timestep() is collective (get_from_proc0, run_to, the copies to proc0):
\* no rank finishes its n-th call before every rank has made n calls.
IceLeave(r) ==
    /\ pc[r] = "ice"
    /\ \A q \in Ranks : steps[q] >= steps[r]
    /\ sheet' = [sheet EXCEPT ![r] = @ + 1]
    /\ Goto(r, "sheets")
    /\ UNCHANGED <<round, underice, steps, up, down, root, aborted>>

\* icebin_error() ends all ranks: everytrace is taken to stop the whole MPI job.
Abort ==
    /\ aborted' = TRUE
    /\ UNCHANGED <<pc, round, underice, sheet, steps, up, down, root>>

\* Faulty variant: the root leaves out the sheet instead of ending the job.
ToDenseFails_Skips ==
    /\ pc[Root] = "sheets"
    /\ sheet[Root] <= NSheets
    /\ ~Dense(Root)
    /\ sheet' = [sheet EXCEPT ![Root] = @ + 1]
    /\ UNCHANGED <<pc, round, underice, steps, up, down, root, aborted>>

\* to_dense() on the root meets a class that the sheet does not have, while the
\* other ranks are in run_timestep() of the sheet already or on their way.
ToDenseFails ==
    /\ pc[Root] = "sheets"
    /\ sheet[Root] <= NSheets
    /\ ~Dense(Root)
    /\ Abort

\* A rank's part of the ice model fails, or the root finds a NaN in what the ice
\* returns.
IceFails(r) == pc[r] = "ice" /\ Abort

\* split_by_domain() of the cells packed by update_topo(): those merged now or
\* at the last coupling.
SplitByDomain(view, touched) ==
    [r \in Ranks |->
        [cells |-> {a \in touched : GetDomain(a) = r},
         ecs   |-> {e \in view : CellOf(e) \in touched /\ GetDomain(e) = r}]]

\* Faulty variant: the cells merged at the last coupling are not packed.
Couple_NowOnly ==
    /\ pc[Root] = "sheets"
    /\ sheet[Root] > NSheets
    /\ \E new \in Outcomes :
         LET mask == {CellOf(e) : e \in new.view}
         IN  root' = [root EXCEPT !.view = new.view, !.dimE0 = new.dimE0, !.mask = mask,
                                  !.outs = SplitByDomain(new.view, mask), !.dest = 0]
    /\ Goto(Root, "scatter")
    /\ UNCHANGED <<round, underice, sheet, steps, up, down, aborted>>

\* The rest of GCMCoupler_ModelE::couple() on the root.  Each IceCoupler has
\* replaced its dimE0 at the end of its own couple(); none is read again before
\* the next coupling.
Couple ==
    /\ pc[Root] = "sheets"
    /\ sheet[Root] > NSheets
    /\ \E new \in Outcomes :
         LET mask == {CellOf(e) : e \in new.view}
         IN  root' = [root EXCEPT !.view = new.view, !.dimE0 = new.dimE0, !.mask = mask,
                                  !.outs = SplitByDomain(new.view, mask \cup root.mask),
                                  !.dest = 0]
    /\ Goto(Root, "scatter")
    /\ UNCHANGED <<round, underice, sheet, steps, up, down, aborted>>

\* Faulty variant: a message is sent twice.
ScatterSend_Twice ==
    /\ pc[Root] = "scatter"
    /\ root.dest \in Ranks
    /\ down' = [down EXCEPT ![root.dest] = @ \o <<root.outs[root.dest], root.outs[root.dest]>>]
    /\ root' = [root EXCEPT !.dest = @ + 1]
    /\ UNCHANGED <<pc, round, underice, sheet, steps, up, aborted>>

ScatterSend ==
    /\ pc[Root] = "scatter"
    /\ root.dest \in Ranks
    /\ down' = [down EXCEPT ![root.dest] = Append(@, root.outs[root.dest])]
    /\ root' = [root EXCEPT !.dest = @ + 1]
    /\ UNCHANGED <<pc, round, underice, sheet, steps, up, aborted>>

\* Faulty variant: columns are not cleared.
Applied_NoClear(ecs, m) == ecs \cup m.ecs

\* apply_gcm_ivals(): columns in the message are cleared, then set.
Applied(ecs, m) == {e \in ecs : CellOf(e) \notin m.cells} \cup m.ecs

\* A rank gets its share of the scatter, applies it and returns to ModelE.
Return(r) ==
    /\ \/ r = Root /\ pc[r] = "scatter" /\ root.dest = NRanks
       \/ r # Root /\ pc[r] = "sheets" /\ sheet[r] > NSheets
    /\ down[r] # <<>>
    /\ underice' = [underice EXCEPT ![r] = Applied(@, Head(down[r]))]
    /\ down' = [down EXCEPT ![r] = Tail(@)]
    /\ round' = [round EXCEPT ![r] = @ + 1]
    /\ Goto(r, "model")
    /\ UNCHANGED <<sheet, steps, up, root, aborted>>

\* The job is over: ModelE has made its last coupling, or was aborted.
Over == aborted \/ \A r \in Ranks : pc[r] = "model" /\ round[r] = MaxRound
Stop == Over /\ UNCHANGED vars

RankStep(r) ==
    /\ ~aborted
    /\ \/ Enter(r) \/ IceEnter(r) \/ IceLeave(r) \/ Return(r)
       \/ r = Root /\ (Gather \/ ToDenseFails \/ Couple \/ ScatterSend)

Next ==
    \/ \E r \in Ranks : RankStep(r) \/ (~aborted /\ IceFails(r))
    \/ Stop

\* Every rank keeps executing, and ModelE makes the same couplings on each.  The
\* root does report an unknown class; the ice model need not fail.
Spec == Init /\ [][Next]_vars /\ \A r \in Ranks : WF_vars(RankStep(r))
-----------------------------------------------------------------------------
(* Properties *)

\* The shape of every variable; no channel holds more than one message.
TypeOK ==
    /\ pc \in [Ranks -> {"model", "gather", "sheets", "ice", "scatter"}]
    /\ round \in [Ranks -> 0..MaxRound]
    /\ underice \in [Ranks -> SUBSET EIndex]
    /\ sheet \in [Ranks -> 1..(NSheets + 1)]
    /\ steps \in [Ranks -> 0..(NSheets * MaxRound)]
    /\ up \in [Ranks -> Seq(SUBSET EIndex)]
    /\ down \in [Ranks -> Seq(Message)]
    /\ \A r \in Ranks : Len(up[r]) <= 1 /\ Len(down[r]) <= 1
    /\ root \in RootType
    /\ aborted \in BOOLEAN

\* A rank only ever holds and receives classes of cells in its own rows: the
\* domain that get_domain() computes from an A or E index is the domain ModelE
\* gave the rank (outside it, apply_gcm_ivals would write past its arrays).
OwnDomain ==
    \A r \in Ranks :
        /\ underice[r] \subseteq OwnE(r)
        /\ \A k \in DOMAIN down[r] :
              /\ down[r][k].ecs \subseteq OwnE(r)
              /\ \A a \in down[r][k].cells : RowOf(a) \in OwnRows(r)

\* What the root gathers is exactly what it handed out at the last coupling: no
\* class is lost, duplicated or left over in a split, a channel or an array.
SentIsWhatWasGiven ==
    pc[Root] = "sheets" => root.gathered = root.view

\* Collective calls match by their order alone; two ranks that meet in the n-th
\* run_timestep() are there for the same sheet of the same coupling.
SameCollective ==
    \A r, q \in Ranks : (pc[r] = "ice" /\ pc[q] = "ice" /\ steps[r] = steps[q]) =>
        round[r] = round[q] /\ sheet[r] = sheet[q]

\* A rank that enters a coupling returns from it or the job is aborted, also when
\* the root alone meets a class it does not know and the others wait for it.
EveryCallReturns ==
    \A r \in Ranks : (pc[r] # "model") ~> (pc[r] = "model" \/ aborted)

\* The coupling is the barrier ModelE takes it for.
BarrierPart(r, v) == v \cap OwnE(r)
Barrier == INSTANCE CouplingBarrier WITH
    Part <- BarrierPart,
    Views <- {new.view : new \in Outcomes},
    InitView <- InitOutcome.view,
    calls <- [r \in Ranks |-> IF pc[r] = "model" THEN round[r] ELSE round[r] + 1],
    returns <- round,
    agreed <- IF pc[Root] = "scatter" THEN round[Root] + 1 ELSE round[Root],
    view <- root.view,
    holds <- underice,
    dead <- aborted
ImplementsBarrier == Barrier!Spec

==============================================================================
