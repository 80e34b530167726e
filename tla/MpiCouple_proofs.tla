-------------------------- MODULE MpiCouple_proofs --------------------------
(***************************************************************************)
(* Theorems about MpiCouple, for any number of ranks, sheets and couplings,*)
(* any grid and any split of its rows.  At the end, the refinement of      *)
(* CouplingBarrier.                                                        *)
(***************************************************************************)
EXTENDS MpiCouple, SumTheorems, SequenceTheorems, TLAPS

-----------------------------------------------------------------------------
(* Domains *)

\* get_domain() takes the row of an E index by division first and remainder then;
\* it is the row of the index's A cell.
LEMMA RowOfCell ==
    ASSUME NEW e \in EIndex
    PROVE  /\ CellOf(e) \in AIndex
           /\ RowOf(CellOf(e)) = (e \div IM) % JM
           /\ (e \div IM) % JM \in Rows
<1> USE SizeAssumption DEF EIndex, AIndex, Rows
<1>0. IM \in Nat \ {0} /\ JM \in Nat \ {0} /\ IM * JM \in Nat \ {0}
  <2>1. IM > 0 /\ JM > 0
    OBVIOUS
  <2>2. IM * JM > 0
    BY <2>1, MultLess
  <2> QED
    BY <2>2
<1>e. e \in Nat
  <2>1. IM * JM * NHC \in Nat
    BY <1>0
  <2> QED
    BY <2>1
<1> DEFINE b == e \div IM
           s == e % IM
           t == b \div JM
           u == b % JM
<1>1. b \in Nat /\ s \in 0..(IM - 1) /\ e = IM * b + s
  BY <1>0, <1>e, DivMod
<1>2. t \in Nat /\ u \in 0..(JM - 1) /\ b = JM * t + u
  BY <1>0, <1>1, DivMod
<1> HIDE DEF b, s, t, u
<1>3. e = (IM * JM) * t + (IM * u + s)
  BY <1>0, <1>1, <1>2
<1>4. IM * u + s \in 0..(IM * JM - 1)
  <2>1. IM * u + IM <= IM * JM
    BY <1>0, <1>2, MultLess
  <2>2. IM * u \in Nat
    BY <1>0, <1>2
  <2>3. IM * JM \in Nat
    BY <1>0
  <2> QED
    BY <2>1, <2>2, <2>3, <1>1, <1>0
<1>5. CellOf(e) = IM * u + s
  BY <1>0, <1>2, <1>3, <1>4, DivUnique DEF CellOf
<1>6. RowOf(CellOf(e)) = u
  <2>1. (IM * u + s) \div IM = u
    BY <1>0, <1>1, <1>2, DivUnique
  <2> QED
    BY <2>1, <1>5 DEF RowOf
<1> QED
  BY <1>0, <1>2, <1>4, <1>5, <1>6 DEF b, u

\* For an A index, the remainder changes nothing.
LEMMA RowOfA ==
    ASSUME NEW a \in AIndex
    PROVE  RowOf(a) \in Rows /\ (a \div IM) % JM = RowOf(a)
<1> USE SizeAssumption DEF AIndex, Rows, RowOf
<1>0. IM \in Nat \ {0} /\ JM \in Nat \ {0} /\ a \in Nat /\ IM * JM \in Nat
  OBVIOUS
<1> DEFINE b == a \div IM
<1>1. b \in Nat /\ a % IM \in 0..(IM - 1) /\ a = IM * b + (a % IM)
  BY <1>0, DivMod
<1> HIDE DEF b
<1>2. b < JM
  <2>1. CASE b = JM
    BY <2>1, <1>0, <1>1
  <2>2. CASE JM < b
    <3>1. IM * JM + IM <= IM * b
      BY <1>0, <1>1, <2>2, MultLess
    <3>2. IM * b \in Nat
      BY <1>0, <1>1
    <3> QED
      BY <3>1, <3>2, <1>0, <1>1
  <2> QED
    BY <2>1, <2>2, <1>0, <1>1
<1>3. (JM * 0 + b) % JM = b
  BY <1>0, <1>1, <1>2, DivUnique
<1>4. b % JM = b
  BY <1>3, <1>0, <1>1
<1> QED
  BY <1>1, <1>2, <1>4, <1>0 DEF b

\* The domains are in order.
LEMMA EndJIncreases ==
    ASSUME NEW q \in Ranks, NEW r \in Ranks, q < r
    PROVE  EndJ[q] <= EndJ[r - 1]
<1> USE SizeAssumption, EndJAssumption DEF Ranks
<1> DEFINE Bad == {d \in Nat : d <= r - 1 /\ EndJ[r - 1 - d] > EndJ[r - 1]}
<1>1. SUFFICES ASSUME Bad # {} PROVE FALSE
  <2>1. r - 1 - q \in Nat /\ r - 1 - (r - 1 - q) = q
    OBVIOUS
  <2>2. r - 1 - q \notin Bad
    BY <1>1
  <2>3. EndJ[q] \in Nat /\ EndJ[r - 1] \in Nat
    OBVIOUS
  <2> QED
    BY <2>1, <2>2, <2>3
<1>2. PICK d \in Bad : \A y \in Bad : d <= y
  BY <1>1, LeastNat
<1>3. d > 0
  <2>1. r - 1 - 0 = r - 1 /\ EndJ[r - 1] \in Nat
    OBVIOUS
  <2>2. 0 \notin Bad
    BY <2>1
  <2>3. d \in Nat /\ d # 0
    BY <1>2, <2>2
  <2> HIDE DEF Bad
  <2> QED
    BY <2>3
<1>4. d - 1 \in Nat /\ d - 1 \notin Bad /\ r - 1 - (d - 1) = r - d /\ d <= r - 1
  <2>1. d - 1 \in Nat /\ d <= r - 1 /\ r - 1 - (d - 1) = r - d
    BY <1>2, <1>3
  <2>2. d - 1 \notin Bad
    <3>1. ~ (d <= d - 1)
      BY <1>3
    <3> QED
      BY <1>2, <3>1
  <2> QED
    BY <2>1, <2>2
<1>5. r - d \in Ranks /\ r - d # 0 /\ (r - d) - 1 = r - 1 - d
  BY <1>4, <1>2
<1>6. EndJ[r - d] <= EndJ[r - 1]
  <2>1. EndJ[r - d] \in Nat /\ EndJ[r - 1] \in Nat
    BY <1>5
  <2> QED
    BY <2>1, <1>4
<1>7. EndJ[r - 1 - d] < EndJ[r - d]
  BY <1>5 DEF BeginJ
<1>8. EndJ[r - 1 - d] \in Nat /\ EndJ[r - d] \in Nat /\ EndJ[r - 1] \in Nat
  BY <1>5
<1> QED
  BY <1>2, <1>6, <1>7, <1>8

\* The constructor of DomainDecomposer_ModelE gives each row to the one rank that
\* ModelE gave it to.
LEMMA RankOfRow ==
    ASSUME NEW j \in Rows
    PROVE  /\ RankOfJ[j] \in Ranks
           /\ \A r \in Ranks : j \in OwnRows(r) <=> RankOfJ[j] = r
<1> USE SizeAssumption, EndJAssumption DEF Ranks, Rows
<1> DEFINE T == {r \in Ranks : j < EndJ[r]}
           FirstPast(r) == j < EndJ[r] /\ \A q \in 0..(r - 1) : j >= EndJ[q]
<1>1. NRanks - 1 \in T
  OBVIOUS
<1>2. PICK m \in T : \A y \in T : m <= y
  <2>1. T \in SUBSET Nat
    OBVIOUS
  <2> HIDE DEF T
  <2> QED
    BY <1>1, <2>1, LeastNat
<1>3. FirstPast(m)
  <2> SUFFICES ASSUME NEW q \in 0..(m - 1) PROVE j >= EndJ[q]
    OBVIOUS
  <2>1. q \in Ranks /\ EndJ[q] \in Nat /\ q \notin T
    BY <1>2
  <2> QED
    BY <2>1
<1>4. RankOfJ[j] \in Ranks /\ FirstPast(RankOfJ[j])
  <2>1. RankOfJ[j] = CHOOSE r \in Ranks : FirstPast(r)
    BY DEF RankOfJ
  <2> QED
    BY <1>2, <1>3, <2>1
<1>5. ASSUME NEW r \in Ranks, FirstPast(r) PROVE j \in OwnRows(r)
  <2>1. EndJ[r] \in Nat
    OBVIOUS
  <2>2. r # 0 => r - 1 \in Ranks /\ EndJ[r - 1] \in Nat /\ j >= EndJ[r - 1]
    BY <1>5
  <2> QED
    BY <1>5, <2>1, <2>2 DEF OwnRows, BeginJ
<1>6. ASSUME NEW r \in Ranks, j \in OwnRows(r) PROVE FirstPast(r)
  <2>1. j < EndJ[r] /\ BeginJ(r) <= j
    <3>1. EndJ[r] \in Nat
      OBVIOUS
    <3>2. BeginJ(r) \in Nat
      BY DEF BeginJ
    <3> QED
      BY <1>6, <3>1, <3>2 DEF OwnRows
  <2>2. ASSUME NEW q \in 0..(r - 1) PROVE j >= EndJ[q]
    <3>1. EndJ[q] <= EndJ[r - 1]
      BY EndJIncreases
    <3>2. EndJ[q] \in Nat /\ EndJ[r - 1] \in Nat
      OBVIOUS
    <3> QED
      BY <2>1, <3>1, <3>2 DEF BeginJ
  <2> QED
    BY <2>1, <2>2
<1>7. ASSUME NEW r \in Ranks, NEW q \in Ranks, FirstPast(r), FirstPast(q) PROVE r = q
  <2>1. ~ (r < q)
    BY <1>7
  <2>2. ~ (q < r)
    BY <1>7
  <2> QED
    BY <2>1, <2>2
<1> QED
  BY <1>4, <1>5, <1>6, <1>7

\* get_domain() of an index is the rank whose rows the index is in.
LEMMA OwnByDomain ==
    /\ \A e \in EIndex : /\ GetDomain(e) \in Ranks
                         /\ \A r \in Ranks : e \in OwnE(r) <=> GetDomain(e) = r
    /\ \A a \in AIndex : /\ GetDomain(a) \in Ranks
                         /\ \A r \in Ranks : RowOf(a) \in OwnRows(r) <=> GetDomain(a) = r
<1>1. ASSUME NEW e \in EIndex
      PROVE  /\ GetDomain(e) \in Ranks
             /\ \A r \in Ranks : e \in OwnE(r) <=> GetDomain(e) = r
  BY RowOfCell, RankOfRow DEF GetDomain, OwnE
<1>2. ASSUME NEW a \in AIndex
      PROVE  /\ GetDomain(a) \in Ranks
             /\ \A r \in Ranks : RowOf(a) \in OwnRows(r) <=> GetDomain(a) = r
  BY RowOfA, RankOfRow DEF GetDomain
<1> QED
  BY <1>1, <1>2

\* An elevation class is in the domain of its A cell.
LEMMA CellsByDomain ==
    ASSUME NEW e \in EIndex
    PROVE  CellOf(e) \in AIndex /\ GetDomain(CellOf(e)) = GetDomain(e)
BY RowOfCell, RowOfA DEF GetDomain

-----------------------------------------------------------------------------
(* Channels and splits *)

\* The operators on sequences that the channels are built from.
LEMMA Channel ==
    ASSUME NEW S, NEW q \in Seq(S), NEW x \in S
    PROVE  /\ Append(q, x) \in Seq(S)
           /\ Len(Append(q, x)) = Len(q) + 1
           /\ Len(q) \in Nat
           /\ q = <<>> <=> Len(q) = 0
           /\ q # <<>> => /\ Head(q) \in S
                          /\ Tail(q) \in Seq(S)
                          /\ Len(Tail(q)) = Len(q) - 1
BY EmptySeq, HeadTailProperties, AppendProperties

\* Each part of a split has cells and classes of its domain only.
LEMMA SplitShape ==
    ASSUME NEW view \in SUBSET EIndex, NEW touched \in SUBSET AIndex
    PROVE  /\ SplitByDomain(view, touched) \in [Ranks -> Message]
           /\ \A r \in Ranks :
                 /\ SplitByDomain(view, touched)[r].ecs \subseteq OwnE(r)
                 /\ \A a \in SplitByDomain(view, touched)[r].cells : RowOf(a) \in OwnRows(r)
BY OwnByDomain DEF SplitByDomain, Message

\* A split leaves out no cell that is to be packed and no class of such a cell.
LEMMA SplitComplete ==
    ASSUME NEW view \in SUBSET EIndex, NEW touched \in SUBSET AIndex, NEW r \in Ranks
    PROVE  /\ \A e \in OwnE(r) :
                 CellOf(e) \in touched => CellOf(e) \in SplitByDomain(view, touched)[r].cells
           /\ (\A e \in view : CellOf(e) \in touched) =>
                 SplitByDomain(view, touched)[r].ecs = view \cap OwnE(r)
<1>1. OwnE(r) \subseteq EIndex
  BY DEF OwnE
<1> QED
  BY <1>1, OwnByDomain, CellsByDomain DEF SplitByDomain

-----------------------------------------------------------------------------
(* The inductive invariant *)

\* Ranks are at most one coupling apart: calls made, gathers done by the root,
\* messages scattered to a rank, and the couplings that have an agreed view.
Calls(r) == IF pc[r] = "model" THEN round[r] ELSE round[r] + 1
Gathered == IF pc[Root] \in {"model", "gather"} THEN round[Root] ELSE round[Root] + 1
Scattered(r) == IF pc[Root] = "scatter" /\ root.dest > r THEN round[Root] + 1 ELSE round[Root]
Agreed == IF pc[Root] = "scatter" THEN round[Root] + 1 ELSE round[Root]

\* The types of what the ranks execute.
ControlInv ==
    /\ pc \in [Ranks -> {"model", "gather", "sheets", "ice", "scatter"}]
    /\ \A r \in Ranks : pc[r] \in {"gather", "scatter"} => r = Root
    /\ round \in [Ranks -> Nat]
    /\ sheet \in [Ranks -> 1..(NSheets + 1)]
    /\ \A r \in Ranks : pc[r] = "ice" => sheet[r] <= NSheets
    /\ \A r \in Ranks : pc[r] = "scatter" => sheet[r] = NSheets + 1
    /\ steps \in [Ranks -> Nat]
    /\ root.dest \in 0..NRanks
    /\ aborted \in BOOLEAN

\* The types of what they exchange.
DataInv ==
    /\ underice \in [Ranks -> SUBSET EIndex]
    /\ up \in [Ranks -> Seq(SUBSET EIndex)]
    /\ down \in [Ranks -> Seq(Message)]
    /\ root \in RootType

\* A channel holds what was put into it and not yet taken out.
CountInv ==
    \A r \in Ranks :
        /\ Calls(r) <= MaxRound
        /\ Len(up[r]) = Calls(r) - Gathered
        /\ Len(down[r]) = Scattered(r) - round[r]

\* The calls of run_timestep() a rank has made in the coupling it is in.
StepsNow(r) ==
    CASE pc[r] \in {"model", "gather"} -> 0
      [] pc[r] = "sheets"  -> sheet[r] - 1
      [] pc[r] = "ice"     -> sheet[r]
      [] pc[r] = "scatter" -> NSheets

\* A rank has called run_timestep() once per sheet and coupling so far.
StepInv ==
    /\ \A r \in Ranks : steps[r] = NSheets * round[r] + StepsNow(r)
    /\ \A r \in Ranks : pc[r] = "gather" => sheet[r] = 1

\* Wherever a share of the view is, in an array, in a channel or with the root,
\* it is what the split of the agreed view makes of it.
Share(r) ==
    /\ round[r] = Agreed => underice[r] = root.view \cap OwnE(r)
    /\ round[r] # Agreed => Applied(underice[r], root.outs[r]) = root.view \cap OwnE(r)
    /\ up[r] # <<>> => Head(up[r]) = root.view \cap OwnE(r)
    /\ \A k \in DOMAIN down[r] : down[r][k] = root.outs[r]

\* The root's data agree, and each rank's share with them.
ContentInv ==
    /\ root.mask = {CellOf(e) : e \in root.view}
    /\ pc[Root] \in {"sheets", "ice"} => root.gathered = root.view
    /\ \A r \in Ranks : Share(r)

\* Only classes and cells of a rank's own rows are with it or on their way to it.
DomainInv ==
    \A r \in Ranks :
        /\ underice[r] \subseteq OwnE(r)
        /\ root.outs[r].ecs \subseteq OwnE(r)
        /\ \A a \in root.outs[r].cells : RowOf(a) \in OwnRows(r)

-----------------------------------------------------------------------------
(* Every step preserves it *)

\* The assumptions in the form in which the proofs use them.
LEMMA Constants ==
    /\ NRanks \in Nat \ {0} /\ NSheets \in Nat /\ MaxRound \in Nat
    /\ Root \in Ranks
    /\ \A r \in Ranks : r \in Nat /\ r < NRanks
    /\ InitOutcome \in Outcome /\ Outcomes \subseteq Outcome
BY SizeAssumption DEF Ranks

\* The start satisfies all parts of the inductive invariant.
LEMMA InitHolds ==
    Init => ControlInv /\ DataInv /\ CountInv /\ StepInv /\ ContentInv /\ DomainInv
<1> SUFFICES ASSUME Init
             PROVE  ControlInv /\ DataInv /\ CountInv /\ StepInv /\ ContentInv /\ DomainInv
  OBVIOUS
<1>1. ControlInv
  <2>1. 1 \in 1..(NSheets + 1) /\ 0 \in 0..NRanks
    BY Constants
  <2> QED
    BY <2>1 DEF Init, ControlInv
<1>2. DataInv
  <2>1. \A S : <<>> \in Seq(S)
    BY EmptySeq
  <2>2. up \in [Ranks -> Seq(SUBSET EIndex)] /\ down \in [Ranks -> Seq(Message)]
    BY <2>1 DEF Init
  <2>3. underice \in [Ranks -> SUBSET EIndex]
    BY Constants DEF Init, Outcome
  <2>4. root \in RootType
    BY Constants, CellsByDomain DEF Init, RootType, Outcome, Message, Nothing
  <2> QED
    BY <2>2, <2>3, <2>4 DEF DataInv
<1>3. CountInv
  BY Constants, EmptySeq DEF Init, CountInv, Calls, Gathered, Scattered
<1>4. StepInv
  BY Constants DEF Init, StepInv, StepsNow
<1>5. ContentInv
  BY Constants, EmptySeq DEF Init, ContentInv, Share, Agreed
<1>6. DomainInv
  BY Constants DEF Init, DomainInv, Nothing
<1> QED
  BY <1>1, <1>2, <1>3, <1>4, <1>5, <1>6

\* One lemma for each part of the invariant: no step breaks it.
LEMMA ControlStep == ControlInv /\ [Next]_vars => ControlInv'
<1> SUFFICES ASSUME ControlInv, [Next]_vars PROVE ControlInv'
  OBVIOUS
<1> USE Constants DEF ControlInv
<1>1. ASSUME NEW r \in Ranks, Enter(r) PROVE ControlInv'
  BY <1>1 DEF Enter, Goto
<1>2. CASE Gather
  BY <1>2 DEF Gather, Goto
<1>3. ASSUME NEW r \in Ranks, IceEnter(r) PROVE ControlInv'
  BY <1>3 DEF IceEnter, Goto
<1>4. ASSUME NEW r \in Ranks, IceLeave(r) PROVE ControlInv'
  <2>1. sheet[r] + 1 \in 1..(NSheets + 1)
    BY <1>4 DEF IceLeave
  <2> QED
    BY <1>4, <2>1 DEF IceLeave, Goto
<1>5. CASE Couple
  BY <1>5 DEF Couple, Goto
<1>6. CASE ScatterSend
  BY <1>6 DEF ScatterSend
<1>7. ASSUME NEW r \in Ranks, Return(r) PROVE ControlInv'
  BY <1>7 DEF Return, Goto
<1>8. CASE Abort
  BY <1>8 DEF Abort
<1>9. CASE UNCHANGED vars
  BY <1>9 DEF vars
<1> QED
  BY <1>1, <1>2, <1>3, <1>4, <1>5, <1>6, <1>7, <1>8, <1>9
     DEF Next, RankStep, ToDenseFails, IceFails, Stop

\* What the steps on the channels do.
LEMMA ChannelFacts ==
    ASSUME DataInv, NEW r \in Ranks
    PROVE  /\ Len(up[r]) \in Nat /\ Len(down[r]) \in Nat
           /\ up[r] = <<>> <=> Len(up[r]) = 0
           /\ down[r] = <<>> <=> Len(down[r]) = 0
           /\ Append(up[r], underice[r]) \in Seq(SUBSET EIndex)
           /\ Len(Append(up[r], underice[r])) = Len(up[r]) + 1
           /\ up[r] # <<>> => /\ Head(up[r]) \in SUBSET EIndex
                              /\ Tail(up[r]) \in Seq(SUBSET EIndex)
                              /\ Len(Tail(up[r])) = Len(up[r]) - 1
           /\ root.outs[r] \in Message
           /\ Append(down[r], root.outs[r]) \in Seq(Message)
           /\ Len(Append(down[r], root.outs[r])) = Len(down[r]) + 1
           /\ down[r] # <<>> => /\ Head(down[r]) \in Message
                                /\ Tail(down[r]) \in Seq(Message)
                                /\ Len(Tail(down[r])) = Len(down[r]) - 1
<1>1. up[r] \in Seq(SUBSET EIndex) /\ underice[r] \in SUBSET EIndex
  BY DEF DataInv
<1>2. down[r] \in Seq(Message) /\ root.outs[r] \in Message
  BY DEF DataInv, RootType
<1> HIDE DEF Message
<1> QED
  BY <1>1, <1>2, Channel

\* Types of the messages.
LEMMA DataStep == ControlInv /\ DataInv /\ [Next]_vars => DataInv'
<1> SUFFICES ASSUME ControlInv, DataInv, [Next]_vars PROVE DataInv'
  OBVIOUS
<1>1. ASSUME NEW r \in Ranks, Enter(r) PROVE DataInv'
  BY <1>1, ChannelFacts DEF Enter, DataInv
<1>2. CASE Gather
  <2>1. \A r \in Ranks : Head(up[r]) \in SUBSET EIndex /\ Tail(up[r]) \in Seq(SUBSET EIndex)
    BY <1>2, ChannelFacts DEF Gather
  <2>2. UNION {Head(up[r]) : r \in Ranks} \in SUBSET EIndex
    BY <2>1
  <2>3. root' \in RootType
    BY <1>2, <2>2 DEF Gather, RootType, DataInv
  <2>4. up' \in [Ranks -> Seq(SUBSET EIndex)]
    BY <1>2, <2>1 DEF Gather
  <2> QED
    BY <1>2, <2>3, <2>4 DEF Gather, DataInv
<1>3. ASSUME NEW r \in Ranks, IceEnter(r) PROVE DataInv'
  BY <1>3 DEF IceEnter, DataInv
<1>4. ASSUME NEW r \in Ranks, IceLeave(r) PROVE DataInv'
  BY <1>4 DEF IceLeave, DataInv
<1>5. CASE Couple
  <2>1. PICK new \in Outcomes :
          root' = [root EXCEPT !.view = new.view, !.dimE0 = new.dimE0,
                               !.mask = {CellOf(e) : e \in new.view},
                               !.outs = SplitByDomain(new.view, {CellOf(e) : e \in new.view} \cup root.mask),
                               !.dest = 0]
    BY <1>5 DEF Couple
  <2> DEFINE view == new.view
  <2>2. /\ view \in SUBSET EIndex /\ {CellOf(e) : e \in view} \in SUBSET AIndex
        /\ new.dimE0 \in [Sheets -> SUBSET EIndex]
    BY Constants, CellsByDomain DEF Outcome
  <2>3. root.mask \in SUBSET AIndex
    BY DEF DataInv, RootType
  <2>4. SplitByDomain(view, {CellOf(e) : e \in view} \cup root.mask) \in [Ranks -> Message]
    BY <2>2, <2>3, SplitShape
  <2>5. 0 \in 0..NRanks
    BY Constants
  <2>6. root' \in RootType
    BY <2>1, <2>2, <2>4, <2>5 DEF DataInv, RootType
  <2> QED
    BY <1>5, <2>6 DEF Couple, DataInv
<1>6. CASE ScatterSend
  <2>1. root.dest \in Ranks /\ root.dest + 1 \in 0..NRanks
    BY <1>6, Constants DEF ScatterSend
  <2>2. root' \in RootType
    BY <1>6, <2>1 DEF ScatterSend, RootType, DataInv
  <2>3. down' \in [Ranks -> Seq(Message)]
    BY <1>6, <2>1, ChannelFacts DEF ScatterSend, DataInv
  <2> QED
    BY <1>6, <2>2, <2>3 DEF ScatterSend, DataInv
<1>7. ASSUME NEW r \in Ranks, Return(r) PROVE DataInv'
  <2>1. Head(down[r]) \in Message /\ Tail(down[r]) \in Seq(Message)
    BY <1>7, ChannelFacts DEF Return
  <2>2. Applied(underice[r], Head(down[r])) \in SUBSET EIndex
    BY <2>1 DEF Applied, Message, DataInv
  <2> QED
    BY <1>7, <2>1, <2>2 DEF Return, DataInv
<1>8. CASE Abort
  BY <1>8 DEF Abort, DataInv
<1>9. CASE UNCHANGED vars
  BY <1>9 DEF vars, DataInv
<1> QED
  BY <1>1, <1>2, <1>3, <1>4, <1>5, <1>6, <1>7, <1>8, <1>9
     DEF Next, RankStep, ToDenseFails, IceFails, Stop

\* Messages on their way follow from the counts alone.
LEMMA CountTypes ==
    ASSUME ControlInv, NEW r \in Ranks
    PROVE  Calls(r) \in Nat /\ Gathered \in Nat /\ Scattered(r) \in Nat /\ Agreed \in Nat
BY Constants DEF ControlInv, Calls, Gathered, Scattered, Agreed

\* What a channel holds follows from where the two ends are.
LEMMA CountStep == ControlInv /\ DataInv /\ CountInv /\ [Next]_vars => CountInv'
<1> SUFFICES ASSUME ControlInv, DataInv, CountInv, [Next]_vars PROVE CountInv'
  OBVIOUS
<1>c. \A q \in Ranks : /\ Len(up[q]) \in Nat /\ Len(down[q]) \in Nat
                       /\ round[q] \in Nat /\ MaxRound \in Nat
                       /\ Calls(q) \in Nat /\ Gathered \in Nat /\ Scattered(q) \in Nat
  BY ChannelFacts, CountTypes, Constants DEF ControlInv
<1>1. ASSUME NEW r \in Ranks, Enter(r) PROVE CountInv'
  <2>1. \A q \in Ranks : Len(up'[q]) = IF q = r THEN Len(up[q]) + 1 ELSE Len(up[q])
    BY <1>1, ChannelFacts DEF Enter, DataInv
  <2>2. \A q \in Ranks : Calls(q)' = IF q = r THEN Calls(q) + 1 ELSE Calls(q)
    BY <1>1 DEF Enter, Goto, ControlInv, Calls
  <2>3. Calls(r) < MaxRound
    BY <1>1 DEF Enter, Calls
  <2>4. Gathered' = Gathered
    BY <1>1 DEF Enter, Goto, ControlInv, Gathered
  <2>5. \A q \in Ranks : Scattered(q)' = Scattered(q)
    BY <1>1 DEF Enter, Goto, ControlInv, Scattered
  <2>6. round' = round /\ down' = down
    BY <1>1 DEF Enter
  <2> SUFFICES ASSUME NEW q \in Ranks
               PROVE  /\ Calls(q)' <= MaxRound
                      /\ Len(up'[q]) = Calls(q)' - Gathered'
                      /\ Len(down'[q]) = Scattered(q)' - round'[q]
    BY DEF CountInv
  <2>8. CASE q = r
    BY <2>8, <2>1, <2>2, <2>3, <2>4, <2>5, <2>6, <1>c DEF CountInv
  <2>9. CASE q # r
    BY <2>9, <2>1, <2>2, <2>3, <2>4, <2>5, <2>6, <1>c DEF CountInv
  <2> QED
    BY <2>8, <2>9
<1>2. CASE Gather
  <2>1. \A q \in Ranks : Len(up'[q]) = Len(up[q]) - 1
    BY <1>2, ChannelFacts DEF Gather
  <2>2. \A q \in Ranks : Calls(q)' = Calls(q) /\ Scattered(q)' = Scattered(q)
    BY <1>2 DEF Gather, Goto, ControlInv, DataInv, RootType, Calls, Scattered
  <2>3. Gathered' = Gathered + 1
    BY <1>2, Constants DEF Gather, Goto, ControlInv, Gathered
  <2>4. round' = round /\ down' = down
    BY <1>2 DEF Gather
  <2> QED
    BY <2>1, <2>2, <2>3, <2>4, <1>c DEF CountInv
<1>3. ASSUME NEW r \in Ranks, IceEnter(r) PROVE CountInv'
  <2>1. /\ \A q \in Ranks : Calls(q)' = Calls(q) /\ Scattered(q)' = Scattered(q)
        /\ Gathered' = Gathered
    BY <1>3 DEF IceEnter, Goto, ControlInv, Calls, Scattered, Gathered
  <2> QED
    BY <1>3, <2>1 DEF IceEnter, CountInv
<1>4. ASSUME NEW r \in Ranks, IceLeave(r) PROVE CountInv'
  <2>1. /\ \A q \in Ranks : Calls(q)' = Calls(q) /\ Scattered(q)' = Scattered(q)
        /\ Gathered' = Gathered
    BY <1>4 DEF IceLeave, Goto, ControlInv, Calls, Scattered, Gathered
  <2> QED
    BY <1>4, <2>1 DEF IceLeave, CountInv
<1>5. CASE Couple
  <2>1. root'.dest = 0
    BY <1>5 DEF Couple, DataInv, RootType
  <2>2. \A q \in Ranks : Calls(q)' = Calls(q) /\ Scattered(q)' = Scattered(q)
    BY <1>5, <2>1, Constants DEF Couple, Goto, ControlInv, Calls, Scattered
  <2>3. Gathered' = Gathered
    BY <1>5, Constants DEF Couple, Goto, ControlInv, Gathered
  <2> QED
    BY <1>5, <2>2, <2>3 DEF Couple, CountInv
<1>6. CASE ScatterSend
  <2>1. root'.dest = root.dest + 1 /\ root.dest \in Ranks
    BY <1>6 DEF ScatterSend, DataInv, RootType
  <2>2. \A q \in Ranks : Len(down'[q]) = IF q = root.dest THEN Len(down[q]) + 1 ELSE Len(down[q])
    BY <1>6, <2>1, ChannelFacts DEF ScatterSend, DataInv
  <2>3. \A q \in Ranks : Scattered(q)' = IF q = root.dest THEN Scattered(q) + 1 ELSE Scattered(q)
    BY <1>6, <2>1, Constants DEF ScatterSend, ControlInv, Scattered
  <2>4. Gathered' = Gathered /\ \A q \in Ranks : Calls(q)' = Calls(q)
    BY <1>6 DEF ScatterSend, Gathered, Calls
  <2>5. round' = round /\ up' = up
    BY <1>6 DEF ScatterSend
  <2> SUFFICES ASSUME NEW q \in Ranks
               PROVE  /\ Calls(q)' <= MaxRound
                      /\ Len(up'[q]) = Calls(q)' - Gathered'
                      /\ Len(down'[q]) = Scattered(q)' - round'[q]
    BY DEF CountInv
  <2>8. CASE q = root.dest
    <3>1. /\ Calls(q)' = Calls(q) /\ Gathered' = Gathered /\ Scattered(q)' = Scattered(q) + 1
          /\ Len(down'[q]) = Len(down[q]) + 1
      BY <2>8, <2>2, <2>3, <2>4
    <3>2. Calls(q) <= MaxRound /\ Len(up[q]) = Calls(q) - Gathered
          /\ Len(down[q]) = Scattered(q) - round[q]
      BY DEF CountInv
    <3> QED
      BY <3>1, <3>2, <2>5, <1>c
  <2>9. CASE q # root.dest
    BY <2>9, <2>2, <2>3, <2>4, <2>5, <1>c DEF CountInv
  <2> QED
    BY <2>8, <2>9
<1>7. ASSUME NEW r \in Ranks, Return(r) PROVE CountInv'
  <2>1. \A q \in Ranks : Len(down'[q]) = IF q = r THEN Len(down[q]) - 1 ELSE Len(down[q])
    BY <1>7, ChannelFacts DEF Return, DataInv
  <2>2. \A q \in Ranks : round'[q] = IF q = r THEN round[q] + 1 ELSE round[q]
    BY <1>7 DEF Return, ControlInv
  <2>3. \A q \in Ranks : Calls(q)' = Calls(q)
    BY <1>7 DEF Return, Goto, ControlInv, Calls
  <2>4. Gathered' = Gathered /\ \A q \in Ranks : Scattered(q)' = Scattered(q)
    BY <1>7, Constants DEF Return, Goto, ControlInv, Gathered, Scattered
  <2>5. up' = up
    BY <1>7 DEF Return
  <2> SUFFICES ASSUME NEW q \in Ranks
               PROVE  /\ Calls(q)' <= MaxRound
                      /\ Len(up'[q]) = Calls(q)' - Gathered'
                      /\ Len(down'[q]) = Scattered(q)' - round'[q]
    BY DEF CountInv
  <2>8. CASE q = r
    <3>1. /\ Calls(q)' = Calls(q) /\ Gathered' = Gathered /\ Scattered(q)' = Scattered(q)
          /\ Len(down'[q]) = Len(down[q]) - 1 /\ round'[q] = round[q] + 1
      BY <2>8, <2>1, <2>2, <2>3, <2>4
    <3>2. Calls(q) <= MaxRound /\ Len(up[q]) = Calls(q) - Gathered
          /\ Len(down[q]) = Scattered(q) - round[q]
      BY DEF CountInv
    <3> QED
      BY <3>1, <3>2, <2>5, <1>c
  <2>9. CASE q # r
    BY <2>9, <2>1, <2>2, <2>3, <2>4, <2>5, <1>c DEF CountInv
  <2> QED
    BY <2>8, <2>9
<1>8. CASE Abort
  BY <1>8 DEF Abort, CountInv, Calls, Gathered, Scattered
<1>9. CASE UNCHANGED vars
  BY <1>9 DEF vars, CountInv, Calls, Gathered, Scattered
<1> QED
  BY <1>1, <1>2, <1>3, <1>4, <1>5, <1>6, <1>7, <1>8, <1>9
     DEF Next, RankStep, ToDenseFails, IceFails, Stop

\* Calls of run_timestep().
LEMMA StepStep == ControlInv /\ StepInv /\ [Next]_vars => StepInv'
<1> SUFFICES ASSUME ControlInv, StepInv, [Next]_vars PROVE StepInv'
  OBVIOUS
<1>c. NSheets \in Nat /\ \A q \in Ranks : /\ round[q] \in Nat /\ steps[q] \in Nat
                                          /\ sheet[q] \in 1..(NSheets + 1)
  BY Constants DEF ControlInv
<1>1. ASSUME NEW r \in Ranks, Enter(r) PROVE StepInv'
  <2>1. \A q \in Ranks : StepsNow(q)' = StepsNow(q)
    BY <1>1, <1>c DEF Enter, Goto, ControlInv, StepsNow
  <2>2. \A q \in Ranks : pc'[q] = "gather" => sheet'[q] = 1
    BY <1>1 DEF Enter, Goto, ControlInv, StepInv
  <2> QED
    BY <1>1, <2>1, <2>2 DEF Enter, StepInv
<1>2. CASE Gather
  <2>1. \A q \in Ranks : StepsNow(q)' = StepsNow(q)
    BY <1>2, <1>c DEF Gather, Goto, ControlInv, StepInv, StepsNow
  <2>2. \A q \in Ranks : pc'[q] = "gather" => sheet'[q] = 1
    BY <1>2 DEF Gather, Goto, ControlInv, StepInv
  <2> QED
    BY <1>2, <2>1, <2>2 DEF Gather, StepInv
<1>3. ASSUME NEW r \in Ranks, IceEnter(r) PROVE StepInv'
  <2>1. \A q \in Ranks : q # r => StepsNow(q)' = StepsNow(q) /\ steps'[q] = steps[q]
    BY <1>3 DEF IceEnter, Goto, ControlInv, StepsNow
  <2>2. StepsNow(r) = sheet[r] - 1 /\ StepsNow(r)' = sheet[r] /\ steps'[r] = steps[r] + 1
    BY <1>3, Constants DEF IceEnter, Goto, ControlInv, StepsNow
  <2>3. \A q \in Ranks : pc'[q] = "gather" => sheet'[q] = 1
    BY <1>3 DEF IceEnter, Goto, ControlInv, StepInv
  <2>4. steps'[r] = NSheets * round[r] + StepsNow(r)'
    <3> DEFINE done == NSheets * round[r]
    <3>1. done \in Nat /\ steps[r] = done + (sheet[r] - 1)
      BY <1>c, <2>2 DEF StepInv
    <3> HIDE DEF done
    <3>2. steps[r] + 1 = done + sheet[r]
      BY <1>c, <3>1
    <3> QED
      BY <2>2, <3>2 DEF done
  <2> QED
    BY <1>3, <2>1, <2>3, <2>4 DEF IceEnter, StepInv
<1>4. ASSUME NEW r \in Ranks, IceLeave(r) PROVE StepInv'
  <2>1. \A q \in Ranks : StepsNow(q)' = StepsNow(q)
    BY <1>4, <1>c DEF IceLeave, Goto, ControlInv, StepsNow
  <2>2. \A q \in Ranks : pc'[q] = "gather" => sheet'[q] = 1
    BY <1>4 DEF IceLeave, Goto, ControlInv, StepInv
  <2> QED
    BY <1>4, <2>1, <2>2 DEF IceLeave, StepInv
<1>5. CASE Couple
  <2>1. \A q \in Ranks : StepsNow(q)' = StepsNow(q)
    BY <1>5, <1>c, Constants DEF Couple, Goto, ControlInv, StepsNow
  <2>2. \A q \in Ranks : pc'[q] = "gather" => sheet'[q] = 1
    BY <1>5 DEF Couple, Goto, ControlInv, StepInv
  <2> QED
    BY <1>5, <2>1, <2>2 DEF Couple, StepInv
<1>6. CASE ScatterSend
  BY <1>6 DEF ScatterSend, StepInv, StepsNow
<1>7. ASSUME NEW r \in Ranks, Return(r) PROVE StepInv'
  <2>1. \A q \in Ranks : q # r => StepsNow(q)' = StepsNow(q) /\ round'[q] = round[q]
    BY <1>7 DEF Return, Goto, ControlInv, StepsNow
  <2>2. StepsNow(r) = NSheets /\ StepsNow(r)' = 0 /\ round'[r] = round[r] + 1
    <3>1. pc'[r] = "model" /\ round'[r] = round[r] + 1
      BY <1>7 DEF Return, Goto, ControlInv
    <3>2. CASE pc[r] = "scatter"
      BY <3>1, <3>2 DEF StepsNow
    <3>3. CASE pc[r] = "sheets" /\ sheet[r] > NSheets
      <4>1. sheet[r] - 1 = NSheets
        BY <3>3, <1>c
      <4> QED
        BY <3>1, <3>3, <4>1 DEF StepsNow
    <3> QED
      BY <1>7, <3>2, <3>3 DEF Return
  <2>3. steps[r] = NSheets * round'[r] + StepsNow(r)'
    <3>1. NSheets * (round[r] + 1) = NSheets * round[r] + NSheets
      BY <1>c
    <3>2. NSheets * (round[r] + 1) \in Nat
      BY <1>c
    <3> QED
      BY <2>2, <3>1, <3>2 DEF StepInv
  <2>4. \A q \in Ranks : pc'[q] = "gather" => sheet'[q] = 1
    BY <1>7 DEF Return, Goto, ControlInv, StepInv
  <2> QED
    BY <1>7, <2>1, <2>3, <2>4 DEF Return, StepInv
<1>8. CASE Abort
  BY <1>8 DEF Abort, StepInv, StepsNow
<1>9. CASE UNCHANGED vars
  BY <1>9 DEF vars, StepInv, StepsNow
<1> QED
  BY <1>1, <1>2, <1>3, <1>4, <1>5, <1>6, <1>7, <1>8, <1>9
     DEF Next, RankStep, ToDenseFails, IceFails, Stop

\* No rank is more than one coupling from the root, a message on its way is the
\* only one in its channel, and it is of the present coupling.
LEMMA RankDistance ==
    ASSUME ControlInv, DataInv, CountInv, NEW r \in Ranks
    PROVE  /\ round[r] \in Nat /\ Agreed \in Nat
           /\ round[r] = Agreed \/ round[r] + 1 = Agreed
           /\ Len(up[r]) <= 1 /\ Len(down[r]) <= 1
           /\ up[r] # <<>> => Len(up[r]) = 1 /\ round[r] = Agreed
           /\ down[r] # <<>> => Len(down[r]) = 1 /\ round[r] + 1 = Agreed
           /\ pc[Root] \in {"sheets", "ice"} => /\ round[r] = Agreed
                                                /\ up[r] = <<>> /\ down[r] = <<>>
<1>1. /\ Len(up[r]) \in Nat /\ Len(down[r]) \in Nat
      /\ Calls(r) \in Nat /\ Gathered \in Nat /\ Scattered(r) \in Nat /\ Agreed \in Nat
      /\ round[r] \in Nat /\ round[Root] \in Nat
  BY ChannelFacts, CountTypes, Constants DEF ControlInv
<1>2. Len(up[r]) = Calls(r) - Gathered /\ Len(down[r]) = Scattered(r) - round[r]
  BY DEF CountInv
<1>3. Calls(r) <= round[r] + 1 /\ Calls(r) >= round[r]
  BY <1>1 DEF Calls
<1>4. Agreed <= Gathered /\ Gathered <= round[Root] + 1
  BY <1>1 DEF Agreed, Gathered
<1>5. Scattered(r) <= Agreed /\ Agreed <= Scattered(r) + 1
  BY <1>1 DEF Agreed, Scattered
<1>6. pc[Root] \in {"sheets", "ice"} => Gathered = Agreed + 1
  BY <1>1 DEF Agreed, Gathered
<1>7. up[r] = <<>> <=> Len(up[r]) = 0
  BY ChannelFacts
<1>8. down[r] = <<>> <=> Len(down[r]) = 0
  BY ChannelFacts
<1>9. round[r] <= Agreed /\ Agreed <= round[r] + 1
  BY <1>1, <1>2, <1>3, <1>4, <1>5
<1> QED
  BY <1>1, <1>2, <1>3, <1>4, <1>5, <1>6, <1>7, <1>8, <1>9

\* What is in a channel after a step on it.
LEMMA SentParts ==
    ASSUME DataInv, NEW r \in Ranks
    PROVE  /\ down[r] # <<>> => 1 \in DOMAIN down[r] /\ Head(down[r]) = down[r][1]
           /\ \A k \in DOMAIN Append(down[r], root.outs[r]) :
                 \/ Append(down[r], root.outs[r])[k] = root.outs[r]
                 \/ k \in DOMAIN down[r] /\ Append(down[r], root.outs[r])[k] = down[r][k]
           /\ Head(Append(up[r], underice[r])) = IF up[r] = <<>> THEN underice[r] ELSE Head(up[r])
<1>1. up[r] \in Seq(SUBSET EIndex) /\ underice[r] \in SUBSET EIndex
  BY DEF DataInv
<1>2. down[r] \in Seq(Message) /\ root.outs[r] \in Message
  BY DEF DataInv, RootType
<1> HIDE DEF Message
<1> QED
  BY <1>1, <1>2, HeadTailProperties, AppendProperties, EmptySeq, LenProperties

\* Domains.  A message that is applied is the one that was split off.
LEMMA DomainStep ==
    ControlInv /\ DataInv /\ CountInv /\ ContentInv /\ DomainInv /\ [Next]_vars => DomainInv'
<1> SUFFICES ASSUME ControlInv, DataInv, CountInv, ContentInv, DomainInv, [Next]_vars
             PROVE  DomainInv'
  OBVIOUS
<1>1. ASSUME NEW r \in Ranks, Enter(r) PROVE DomainInv'
  BY <1>1 DEF Enter, DomainInv
<1>2. CASE Gather
  BY <1>2 DEF Gather, DomainInv, DataInv, RootType
<1>3. ASSUME NEW r \in Ranks, IceEnter(r) PROVE DomainInv'
  BY <1>3 DEF IceEnter, DomainInv
<1>4. ASSUME NEW r \in Ranks, IceLeave(r) PROVE DomainInv'
  BY <1>4 DEF IceLeave, DomainInv
<1>5. CASE Couple
  <2>1. PICK new \in Outcomes :
          root' = [root EXCEPT !.view = new.view, !.dimE0 = new.dimE0,
                               !.mask = {CellOf(e) : e \in new.view},
                               !.outs = SplitByDomain(new.view, {CellOf(e) : e \in new.view} \cup root.mask),
                               !.dest = 0]
    BY <1>5 DEF Couple
  <2> DEFINE view == new.view
  <2> DEFINE touched == {CellOf(e) : e \in view} \cup root.mask
  <2>2. view \in SUBSET EIndex /\ touched \in SUBSET AIndex
    BY Constants, CellsByDomain DEF Outcome, DataInv, RootType
  <2>3. root'.outs = SplitByDomain(view, touched)
    BY <2>1 DEF DataInv, RootType
  <2> HIDE DEF touched
  <2>4. \A r \in Ranks : /\ root'.outs[r].ecs \subseteq OwnE(r)
                         /\ \A a \in root'.outs[r].cells : RowOf(a) \in OwnRows(r)
    BY <2>2, <2>3, SplitShape
  <2> QED
    BY <1>5, <2>4 DEF Couple, DomainInv
<1>6. CASE ScatterSend
  BY <1>6 DEF ScatterSend, DomainInv, DataInv, RootType
<1>7. ASSUME NEW r \in Ranks, Return(r) PROVE DomainInv'
  <2>1. Head(down[r]) = root.outs[r]
    BY <1>7, SentParts DEF Return, ContentInv, Share
  <2>2. Applied(underice[r], Head(down[r])) \subseteq OwnE(r)
    BY <2>1 DEF Applied, DomainInv
  <2> QED
    BY <1>7, <2>2 DEF Return, DomainInv, DataInv
<1>8. CASE Abort
  BY <1>8 DEF Abort, DomainInv
<1>9. CASE UNCHANGED vars
  BY <1>9 DEF vars, DomainInv
<1> QED
  BY <1>1, <1>2, <1>3, <1>4, <1>5, <1>6, <1>7, <1>8, <1>9
     DEF Next, RankStep, ToDenseFails, IceFails, Stop

\* Contents.
LEMMA ContentStep ==
    ControlInv /\ DataInv /\ CountInv /\ ContentInv /\ [Next]_vars => ContentInv'
<1> SUFFICES ASSUME ControlInv, DataInv, CountInv, ContentInv, [Next]_vars
             PROVE  ContentInv'
  OBVIOUS
<1>c. \A q \in Ranks : Share(q)
  BY DEF ContentInv
<1>e. /\ root.mask = {CellOf(e) : e \in root.view}
      /\ pc[Root] \in {"sheets", "ice"} => root.gathered = root.view
  BY DEF ContentInv
<1>1. ASSUME NEW r \in Ranks, Enter(r) PROVE ContentInv'
  <2>1. root' = root /\ round' = round /\ underice' = underice /\ down' = down
    BY <1>1 DEF Enter
  <2>2. Agreed' = Agreed /\ (pc'[Root] \in {"sheets", "ice"} => pc[Root] \in {"sheets", "ice"})
    BY <1>1, Constants DEF Enter, Goto, ControlInv, Agreed
  <2>3. \A q \in Ranks : q # r => up'[q] = up[q]
    BY <1>1 DEF Enter, DataInv
  <2>4. Head(up'[r]) = root.view \cap OwnE(r)
    <3>1. round[r] + 1 # Agreed
      <4>1. Calls(r) = round[r]
        BY <1>1 DEF Enter, Calls
      <4>2. Calls(r) >= Gathered
        BY ChannelFacts, CountTypes DEF CountInv
      <4>3. Gathered >= Agreed
        BY Constants DEF Gathered, Agreed, ControlInv
      <4> QED
        BY <4>1, <4>2, <4>3, CountTypes, RankDistance
    <3>2. underice[r] = root.view \cap OwnE(r)
      BY <3>1, <1>c, RankDistance DEF Share
    <3> QED
      BY <1>1, <3>2, <1>c, SentParts DEF Enter, Share, DataInv
  <2> QED
    BY <2>1, <2>2, <2>3, <2>4, <1>c, <1>e DEF ContentInv, Share
<1>2. CASE Gather
  <2>1. root'.gathered = root.view
    <3>1. root'.gathered = UNION {Head(up[q]) : q \in Ranks}
      BY <1>2 DEF Gather, DataInv, RootType
    <3>2. \A q \in Ranks : Head(up[q]) = root.view \cap OwnE(q)
      BY <1>2, <1>c DEF Gather, Share
    <3>3. \A e \in root.view : \E q \in Ranks : e \in OwnE(q)
      BY OwnByDomain DEF DataInv, RootType
    <3> QED
      BY <3>1, <3>2, <3>3
  <2>2. /\ root'.view = root.view /\ root'.mask = root.mask
        /\ root'.outs = root.outs
    BY <1>2 DEF Gather, DataInv, RootType
  <2>3. Agreed' = Agreed /\ round' = round /\ underice' = underice /\ down' = down
    BY <1>2, Constants DEF Gather, Goto, ControlInv, Agreed
  <2>4. \A q \in Ranks : up'[q] = <<>>
    <3> SUFFICES ASSUME NEW q \in Ranks PROVE up'[q] = <<>>
      OBVIOUS
    <3>1. up'[q] = Tail(up[q]) /\ up[q] # <<>>
      BY <1>2 DEF Gather
    <3>2. Len(up[q]) = 1
      BY <3>1, RankDistance
    <3>3. Len(Tail(up[q])) = 0 /\ Tail(up[q]) \in Seq(SUBSET EIndex)
      BY <3>1, <3>2, ChannelFacts
    <3> QED
      BY <3>1, <3>3, EmptySeq
  <2> QED
    BY <2>1, <2>2, <2>3, <2>4, <1>c, <1>e DEF ContentInv, Share
<1>3. ASSUME NEW r \in Ranks, IceEnter(r) PROVE ContentInv'
  <2>1. /\ Agreed' = Agreed
        /\ pc'[Root] \in {"sheets", "ice"} => pc[Root] \in {"sheets", "ice"}
    BY <1>3, Constants DEF IceEnter, Goto, ControlInv, Agreed
  <2> QED
    BY <1>3, <2>1, <1>c, <1>e DEF IceEnter, ContentInv, Share
<1>4. ASSUME NEW r \in Ranks, IceLeave(r) PROVE ContentInv'
  <2>1. /\ Agreed' = Agreed
        /\ pc'[Root] \in {"sheets", "ice"} => pc[Root] \in {"sheets", "ice"}
    BY <1>4, Constants DEF IceLeave, Goto, ControlInv, Agreed
  <2> QED
    BY <1>4, <2>1, <1>c, <1>e DEF IceLeave, ContentInv, Share
<1>5. CASE Couple
  <2>1. PICK new \in Outcomes :
          root' = [root EXCEPT !.view = new.view, !.dimE0 = new.dimE0,
                               !.mask = {CellOf(e) : e \in new.view},
                               !.outs = SplitByDomain(new.view, {CellOf(e) : e \in new.view} \cup root.mask),
                               !.dest = 0]
    BY <1>5 DEF Couple
  <2> DEFINE view == new.view
  <2> DEFINE touched == {CellOf(e) : e \in view} \cup root.mask
  <2>2. /\ view \in SUBSET EIndex /\ touched \in SUBSET AIndex /\ root.view \in SUBSET EIndex
        /\ \A e \in root.view \cup view : CellOf(e) \in touched
    BY Constants, CellsByDomain, <1>e DEF Outcome, DataInv, RootType
  <2>3. /\ root'.view = view /\ root'.mask = {CellOf(e) : e \in view}
        /\ root'.outs = SplitByDomain(view, touched)
    BY <2>1 DEF DataInv, RootType
  <2> HIDE DEF touched, view
  <2>4. round' = round /\ underice' = underice /\ up' = up /\ down' = down /\ pc'[Root] = "scatter"
    BY <1>5, Constants DEF Couple, Goto, ControlInv
  <2>5. Agreed' = Agreed + 1
    BY <1>5, <2>4 DEF Couple, Agreed
  <2>6. ASSUME NEW q \in Ranks PROVE Share(q)'
    <3>1. round[q] = Agreed /\ Agreed \in Nat /\ up[q] = <<>> /\ down[q] = <<>>
      BY <1>5, RankDistance DEF Couple
    <3>2. underice[q] = root.view \cap OwnE(q)
      BY <3>1, <1>c DEF Share
    <3>3. Applied(underice[q], root'.outs[q]) = view \cap OwnE(q)
      <4>1. \A e \in underice[q] : CellOf(e) \in root'.outs[q].cells
        BY <2>2, <2>3, <3>2, SplitComplete
      <4>2. root'.outs[q].ecs = view \cap OwnE(q)
        <5>1. SplitByDomain(view, touched)[q].ecs = view \cap OwnE(q)
          BY <2>2, SplitComplete
        <5> QED
          BY <2>3, <5>1
      <4> QED
        BY <4>1, <4>2 DEF Applied
    <3>4. round'[q] # Agreed'
      BY <2>4, <2>5, <3>1
    <3>5. up'[q] = <<>> /\ DOMAIN down'[q] = {}
      BY <2>4, <3>1
    <3> QED
      BY <2>3, <2>4, <3>3, <3>4, <3>5 DEF Share
  <2> QED
    BY <2>3, <2>4, <2>6 DEF ContentInv
<1>6. CASE ScatterSend
  <2>1. /\ root'.view = root.view /\ root'.mask = root.mask
        /\ root'.outs = root.outs
    BY <1>6 DEF ScatterSend, DataInv, RootType
  <2>2. pc' = pc /\ Agreed' = Agreed /\ round' = round /\ underice' = underice /\ up' = up
    BY <1>6 DEF ScatterSend, Agreed
  <2>3. ASSUME NEW q \in Ranks, NEW k \in DOMAIN down'[q] PROVE down'[q][k] = root.outs[q]
    <3>1. CASE q = root.dest
      BY <1>6, <3>1, <2>3, <1>c, SentParts DEF ScatterSend, DataInv, Share
    <3>2. CASE q # root.dest
      BY <1>6, <3>2, <2>3, <1>c DEF ScatterSend, DataInv, Share
    <3> QED
      BY <3>1, <3>2
  <2>4. pc'[Root] \notin {"sheets", "ice"}
    BY <1>6 DEF ScatterSend
  <2> QED
    BY <2>1, <2>2, <2>3, <2>4, <1>c, <1>e DEF ContentInv, Share
<1>7. ASSUME NEW r \in Ranks, Return(r) PROVE ContentInv'
  <2>1. Head(down[r]) = root.outs[r]
    BY <1>7, <1>c, SentParts DEF Return, Share
  <2>2. Len(down[r]) = 1 /\ round[r] + 1 = Agreed /\ round[r] \in Nat
    BY <1>7, RankDistance DEF Return
  <2>3. /\ round'[r] = Agreed /\ \A q \in Ranks : q # r => round'[q] = round[q]
        /\ root' = root /\ up' = up
        /\ pc'[Root] \in {"sheets", "ice"} => pc[Root] \in {"sheets", "ice"}
    BY <1>7, <2>2, Constants DEF Return, Goto, ControlInv
  <2>4. Agreed' = Agreed
    BY <1>7, Constants DEF Return, Goto, ControlInv, Agreed
  <2>5. underice'[r] = root.view \cap OwnE(r) /\ \A q \in Ranks : q # r => underice'[q] = underice[q]
    <3>1. /\ underice'[r] = Applied(underice[r], root.outs[r])
          /\ \A q \in Ranks : q # r => underice'[q] = underice[q]
      BY <1>7, <2>1 DEF Return, DataInv
    <3>2. round[r] # Agreed
      BY <2>2
    <3> QED
      BY <3>1, <3>2, <1>c DEF Share
  <2>6. DOMAIN down'[r] = {} /\ \A q \in Ranks : q # r => down'[q] = down[q]
    <3>1. down'[r] = Tail(down[r]) /\ \A q \in Ranks : q # r => down'[q] = down[q]
      BY <1>7 DEF Return, DataInv
    <3>2. Len(Tail(down[r])) = 0 /\ Tail(down[r]) \in Seq(Message)
      BY <1>7, <2>2, ChannelFacts DEF Return
    <3>3. Tail(down[r]) = <<>>
      BY <3>2, EmptySeq
    <3> QED
      BY <3>1, <3>3
  <2> QED
    BY <2>3, <2>4, <2>5, <2>6, <1>c, <1>e DEF ContentInv, Share
<1>8. CASE Abort
  BY <1>8, <1>c, <1>e DEF Abort, ContentInv, Share, Agreed
<1>9. CASE UNCHANGED vars
  BY <1>9, <1>c, <1>e DEF vars, ContentInv, Share, Agreed
<1> QED
  BY <1>1, <1>2, <1>3, <1>4, <1>5, <1>6, <1>7, <1>8, <1>9
     DEF Next, RankStep, ToDenseFails, IceFails, Stop

-----------------------------------------------------------------------------
(* The theorems *)

Inv == ControlInv /\ DataInv /\ CountInv /\ StepInv /\ ContentInv /\ DomainInv

\* All parts together are inductive.
LEMMA Invariance == Spec => []Inv
<1>1. Init => Inv
  BY InitHolds DEF Inv
<1>2. Inv /\ [Next]_vars => Inv'
  BY ControlStep, DataStep, CountStep, StepStep, ContentStep, DomainStep DEF Inv
<1> QED
  BY <1>1, <1>2, PTL DEF Spec

\* The calls of run_timestep() in a coupling are one per sheet, at most.
LEMMA StepsBound ==
    ASSUME ControlInv, NEW r \in Ranks
    PROVE  /\ StepsNow(r) \in 0..NSheets
           /\ pc[r] = "ice" => StepsNow(r) = sheet[r] /\ sheet[r] \in 1..NSheets
<1>1. /\ NSheets \in Nat /\ sheet[r] \in 1..(NSheets + 1)
      /\ pc[r] \in {"model", "gather", "sheets", "ice", "scatter"}
      /\ pc[r] = "ice" => sheet[r] <= NSheets
  BY Constants DEF ControlInv
<1>2. CASE pc[r] \in {"model", "gather", "scatter"}
  BY <1>1, <1>2 DEF StepsNow
<1>3. CASE pc[r] = "sheets"
  BY <1>1, <1>3 DEF StepsNow
<1>4. CASE pc[r] = "ice"
  BY <1>1, <1>4 DEF StepsNow
<1> QED
  BY <1>1, <1>2, <1>3, <1>4

\* No channel ever holds more than one message, and no counter leaves its bound.
THEOREM TypeCorrect == Spec => []TypeOK
<1>1. Inv => TypeOK
  <2> SUFFICES ASSUME Inv PROVE TypeOK
    OBVIOUS
  <2>1. round \in [Ranks -> 0..MaxRound]
    <3>1. \A r \in Ranks : round[r] \in Nat /\ round[r] <= MaxRound
      BY Constants DEF Inv, ControlInv, CountInv, Calls
    <3> QED
      BY <3>1, Constants DEF Inv, ControlInv
  <2>2. \A r \in Ranks : steps[r] \in 0..(NSheets * MaxRound)
    <3> SUFFICES ASSUME NEW r \in Ranks PROVE steps[r] \in 0..(NSheets * MaxRound)
      OBVIOUS
    <3>1. /\ round[r] \in Nat /\ MaxRound \in Nat /\ NSheets \in Nat
          /\ StepsNow(r) \in 0..NSheets /\ steps[r] \in Nat
          /\ steps[r] = NSheets * round[r] + StepsNow(r)
      BY Constants, StepsBound DEF Inv, ControlInv, StepInv
    <3>2. NSheets * round[r] \in Nat /\ NSheets * MaxRound \in Nat
      BY <3>1
    <3>3. CASE pc[r] = "model"
      <4>1. StepsNow(r) = 0 /\ round[r] <= MaxRound
        BY <3>3 DEF StepsNow, Inv, CountInv, Calls
      <4>2. NSheets * round[r] <= NSheets * MaxRound
        <5>1. CASE round[r] = MaxRound
          BY <5>1, <3>2
        <5>2. CASE round[r] < MaxRound
          BY <5>2, <3>1, <3>2, MultLess
        <5> QED
          BY <5>1, <5>2, <4>1, <3>1
      <4> QED
        BY <3>1, <3>2, <4>1, <4>2
    <3>4. CASE pc[r] # "model"
      <4>1. round[r] < MaxRound
        BY <3>1, <3>4 DEF Inv, CountInv, Calls
      <4>2. NSheets * round[r] + NSheets <= NSheets * MaxRound
        BY <3>1, <4>1, MultLess
      <4> QED
        BY <3>1, <3>2, <4>2
    <3> QED
      BY <3>3, <3>4
  <2>3. \A r \in Ranks : Len(up[r]) <= 1 /\ Len(down[r]) <= 1
    BY RankDistance DEF Inv
  <2>4. steps \in [Ranks -> 0..(NSheets * MaxRound)]
    BY <2>2 DEF Inv, ControlInv
  <2> QED
    BY <2>1, <2>3, <2>4 DEF Inv, ControlInv, DataInv, TypeOK
<1> QED
  BY <1>1, Invariance, PTL

\* For any split of the rows among the ranks, a rank never holds or receives a
\* class or a cell of another rank's rows.
THEOREM DomainsKept == Spec => []OwnDomain
<1>1. Inv => OwnDomain
  BY DEF Inv, DomainInv, ContentInv, Share, OwnDomain
<1> QED
  BY <1>1, Invariance, PTL

\* What the root gathers is what it handed out at the last coupling.
THEOREM NothingLost == Spec => []SentIsWhatWasGiven
<1>1. Inv => SentIsWhatWasGiven
  BY DEF Inv, ContentInv, SentIsWhatWasGiven
<1> QED
  BY <1>1, Invariance, PTL

\* Ranks that meet in a collective call are there for the same sheet of the same
\* coupling.
THEOREM CollectivesMatch == Spec => []SameCollective
<1>1. Inv => SameCollective
  <2> SUFFICES ASSUME Inv, NEW r \in Ranks, NEW q \in Ranks,
                      pc[r] = "ice", pc[q] = "ice", steps[r] = steps[q]
               PROVE  round[r] = round[q] /\ sheet[r] = sheet[q]
    BY DEF SameCollective
  <2>1. /\ NSheets \in Nat /\ round[r] \in Nat /\ round[q] \in Nat
        /\ sheet[r] \in 1..NSheets /\ sheet[q] \in 1..NSheets
        /\ NSheets * round[r] + sheet[r] = NSheets * round[q] + sheet[q]
    BY Constants, StepsBound DEF Inv, ControlInv, StepInv
  <2>2. NSheets * round[r] \in Nat /\ NSheets * round[q] \in Nat
    BY <2>1
  <2>3. ~ (round[r] < round[q])
    <3>1. round[r] < round[q] => NSheets * round[r] + NSheets <= NSheets * round[q]
      BY <2>1, MultLess
    <3> QED
      BY <2>1, <2>2, <3>1
  <2>4. ~ (round[q] < round[r])
    <3>1. round[q] < round[r] => NSheets * round[q] + NSheets <= NSheets * round[r]
      BY <2>1, MultLess
    <3> QED
      BY <2>1, <2>2, <3>1
  <2>5. round[r] = round[q]
    BY <2>1, <2>3, <2>4
  <2> QED
    BY <2>1, <2>2, <2>5
<1> QED
  BY <1>1, Invariance, PTL

\* The calls of all ranks, with their messages, are one barrier: every step of a
\* coupling is a step of CouplingBarrier, or none.
THEOREM BarrierImplemented == Spec => ImplementsBarrier
<1> DEFINE calls == [r \in Ranks |-> IF pc[r] = "model" THEN round[r] ELSE round[r] + 1]
           agreed == IF pc[Root] = "scatter" THEN round[Root] + 1 ELSE round[Root]
<1>1. Init => Barrier!Init
  BY Constants DEF Init, Barrier!Init, BarrierPart
<1>2. Inv /\ [Next]_vars => [Barrier!Next]_Barrier!vars
  <2> SUFFICES ASSUME Inv, [Next]_vars PROVE [Barrier!Next]_Barrier!vars
    OBVIOUS
  <2>c. /\ ControlInv /\ DataInv /\ CountInv /\ ContentInv
        /\ \A q \in Ranks : calls[q] = Calls(q)
        /\ agreed = Agreed
    BY DEF Inv, Calls, Agreed
  <2>1. ASSUME NEW r \in Ranks, Enter(r), ~aborted PROVE Barrier!Call(r)
    <3>1. calls[r] = round[r] /\ calls' = [calls EXCEPT ![r] = @ + 1]
      BY <2>1, <2>c DEF Enter, Goto, ControlInv
    <3>2. agreed' = agreed
      BY <2>1, <2>c, Constants DEF Enter, Goto, ControlInv
    <3> QED
      BY <2>1, <3>1, <3>2 DEF Enter, Barrier!Call
  <2>2. CASE Gather
    <3>1. calls' = calls /\ agreed' = agreed
      BY <2>2, <2>c, Constants DEF Gather, Goto, ControlInv
    <3> QED
      BY <2>2, <2>c, <3>1 DEF Gather, Barrier!vars, DataInv, RootType
  <2>3. ASSUME NEW r \in Ranks, IceEnter(r) PROVE UNCHANGED Barrier!vars
    <3>1. calls' = calls /\ agreed' = agreed
      BY <2>3, <2>c, Constants DEF IceEnter, Goto, ControlInv
    <3> QED
      BY <2>3, <3>1 DEF IceEnter, Barrier!vars
  <2>4. ASSUME NEW r \in Ranks, IceLeave(r) PROVE UNCHANGED Barrier!vars
    <3>1. calls' = calls /\ agreed' = agreed
      BY <2>4, <2>c, Constants DEF IceLeave, Goto, ControlInv
    <3> QED
      BY <2>4, <3>1 DEF IceLeave, Barrier!vars
  <2>5. ASSUME Couple, ~aborted PROVE Barrier!Agree
    <3>1. calls' = calls /\ agreed' = agreed + 1
      BY <2>5, <2>c, Constants DEF Couple, Goto, ControlInv
    <3>2. root'.view \in {new.view : new \in Outcomes}
      BY <2>5, <2>c DEF Couple, DataInv, RootType
    <3>3. \A q \in Ranks : calls[q] = agreed + 1
      <4> SUFFICES ASSUME NEW q \in Ranks PROVE Calls(q) = Agreed + 1
        BY <2>c
      <4>1. round[q] = Agreed /\ Len(up[q]) = 0 /\ Agreed \in Nat
        BY <2>5, <2>c, RankDistance, ChannelFacts DEF Couple
      <4>2. Gathered = Agreed + 1
        BY <2>5 DEF Couple, Gathered, Agreed
      <4>3. Len(up[q]) = Calls(q) - Gathered
        BY <2>c DEF CountInv
      <4> QED
        BY <2>c, <4>1, <4>2, <4>3, CountTypes
    <3> QED
      BY <2>5, <3>1, <3>2, <3>3 DEF Couple, Barrier!Agree
  <2>6. CASE ScatterSend
    BY <2>6, <2>c DEF ScatterSend, Barrier!vars, DataInv, RootType
  <2>7. ASSUME NEW r \in Ranks, Return(r), ~aborted PROVE Barrier!Return(r)
    <3>1. calls' = calls /\ agreed' = agreed
      BY <2>7, <2>c, Constants DEF Return, Goto, ControlInv
    <3>2. round[r] < calls[r] /\ calls[r] = agreed
      <4>1. calls[r] = round[r] + 1
        BY <2>7 DEF Return
      <4>2. round[r] + 1 = Agreed /\ round[r] \in Nat
        BY <2>7, <2>c, RankDistance DEF Return
      <4> QED
        BY <2>c, <4>1, <4>2
    <3>3. underice' = [underice EXCEPT ![r] = BarrierPart(r, root.view)]
      <4>1. Head(down[r]) = root.outs[r]
        BY <2>7, <2>c, SentParts DEF Return, ContentInv, Share
      <4>2. round[r] # Agreed
        BY <2>7, <2>c, RankDistance DEF Return
      <4>3. Applied(underice[r], root.outs[r]) = BarrierPart(r, root.view)
        BY <2>c, <4>2 DEF ContentInv, Share, BarrierPart
      <4> QED
        BY <2>7, <4>1, <4>3 DEF Return
    <3> QED
      BY <2>7, <3>1, <3>2, <3>3 DEF Return, Barrier!Return
  <2>8. ASSUME Abort, ~aborted PROVE Barrier!Die
    BY <2>8 DEF Abort, Barrier!Die
  <2>9. CASE UNCHANGED vars
    BY <2>9 DEF vars, Barrier!vars
  <2> QED
    BY <2>1, <2>2, <2>3, <2>4, <2>5, <2>6, <2>7, <2>8, <2>9
       DEF Next, RankStep, ToDenseFails, IceFails, Stop, Barrier!Next
<1> QED
  BY <1>1, <1>2, Invariance, PTL DEF Spec, ImplementsBarrier, Barrier!Spec
=============================================================================
