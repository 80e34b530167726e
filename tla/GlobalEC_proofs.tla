---------------------------- MODULE GlobalEC_proofs ----------------------------
(***************************************************************************)
(* The elevation-class programs do together what WholeEC promises: cutting *)
(* the ice into chunks, running those in any order, killing some of them   *)
(* and adding up their files gives the matrices of all the ice at once,    *)
(* for any ice, any grid and any size of the chunks.                       *)
(***************************************************************************)
EXTENDS TopoTools, Regrid_proofs, TLAPS

-----------------------------------------------------------------------------
(* Fine cells and positions *)

\* The position of an O cell, which CellAt() is the inverse of
PosOf(o) == (o[2] - 1) * IM + o[1]

\* Positions number the O cells.
LEMMA CellOfPosition ==
    /\ \A o \in OCells : PosOf(o) \in Positions /\ CellAt(PosOf(o)) = o
    /\ \A p \in Positions : CellAt(p) \in OCells /\ PosOf(CellAt(p)) = p
<1>1. IM \in Nat \ {0} /\ JM \in Nat \ {0} /\ IM * JM \in Nat
  BY TopoGridAssumption
<1>2. ASSUME NEW o \in OCells
      PROVE  PosOf(o) \in Positions /\ CellAt(PosOf(o)) = o
  <2> DEFINE i == o[1] - 1
             j == o[2] - 1
  <2>1. i \in 0..(IM - 1) /\ j \in Nat /\ j < JM /\ o = <<i + 1, j + 1>>
    BY <1>1 DEF OCells
  <2>2. PosOf(o) = j * IM + o[1]
    BY DEF PosOf
  <2>3. o[1] = i + 1
    BY <1>1 DEF OCells
  <2> HIDE DEF i, j
  <2>4. j * IM \in Nat /\ j * IM = IM * j
    BY <1>1, <2>1
  <2>5. PosOf(o) - 1 = IM * j + i /\ PosOf(o) \in Nat /\ PosOf(o) >= 1
    BY <1>1, <2>1, <2>2, <2>3, <2>4
  <2>6. (PosOf(o) - 1) \div IM = j /\ (PosOf(o) - 1) % IM = i
    BY <1>1, <2>1, <2>5, DivUnique
  <2>7. IM * j + IM <= IM * JM
    BY <1>1, <2>1, MultLess
  <2>8. PosOf(o) <= IM * JM
    BY <1>1, <2>1, <2>4, <2>5, <2>7
  <2> QED
    BY <1>1, <2>1, <2>5, <2>6, <2>8 DEF CellAt, Positions
<1>3. ASSUME NEW p \in Positions
      PROVE  CellAt(p) \in OCells /\ PosOf(CellAt(p)) = p
  <2> DEFINE q == (p - 1) \div IM
             r == (p - 1) % IM
  <2>1. p \in Nat /\ p >= 1 /\ p <= IM * JM /\ p - 1 \in Nat
    BY <1>1 DEF Positions
  <2>2. q \in Nat /\ r \in 0..(IM - 1) /\ p - 1 = IM * q + r
    BY <1>1, <2>1, DivMod
  <2>3. CellAt(p) = <<r + 1, q + 1>>
    BY DEF CellAt
  <2> HIDE DEF q, r
  <2>4. IM * q \in Nat /\ q * IM = IM * q
    BY <1>1, <2>2
  <2>5. q < JM
    <3>1. CASE q = JM
      BY <1>1, <2>1, <2>2, <3>1
    <3>2. CASE JM < q
      <4>1. IM * JM + IM <= IM * q
        BY <1>1, <2>2, <3>2, MultLess
      <4> QED
        BY <1>1, <2>1, <2>2, <2>4, <4>1
    <3> QED
      BY <1>1, <2>2, <3>1, <3>2
  <2>6. CellAt(p) \in OCells
    BY <1>1, <2>2, <2>3, <2>5 DEF OCells
  <2>7. PosOf(CellAt(p)) = q * IM + (r + 1)
    BY <1>1, <2>2, <2>3 DEF PosOf
  <2> QED
    BY <1>1, <2>1, <2>2, <2>4, <2>6, <2>7
<1> QED
  BY <1>2, <1>3

\* A fine cell with ice is at one position, that of its O cell.
LEMMA IcePosition ==
    ASSUME NEW e, e.fgice \subseteq Fine, NEW f \in e.fgice
    PROVE  /\ PosOf(OofF(f)) \in Positions
           /\ \A p \in Positions : f \in IceIn(e, p) <=> p = PosOf(OofF(f))
<1>1. f \in Fine /\ OofF(f) \in OCells
  BY TopoGridAssumption DEF Fine, OofF, OCells
<1>2. \A o \in OCells : f \in FineOf(o) <=> o = OofF(f)
  <2> SUFFICES ASSUME NEW o \in OCells PROVE f \in FineOf(o) <=> o = OofF(f)
    OBVIOUS
  <2>1. ASSUME f \in FineOf(o) PROVE o = OofF(f)
    <3>1. PICK k \in 1..NSub : f = <<o[1], o[2], k>>
      BY <2>1 DEF FineOf
    <3> QED
      BY <3>1 DEF OofF, OCells
  <2>2. ASSUME o = OofF(f) PROVE f \in FineOf(o)
    <3>1. f = <<o[1], o[2], f[3]>> /\ f[3] \in 1..NSub
      BY <1>1, <2>2 DEF OofF, Fine
    <3> QED
      BY <3>1 DEF FineOf
  <2> QED
    BY <2>1, <2>2
<1>3. \A p \in Positions : f \in IceIn(e, p) <=> CellAt(p) = OofF(f)
  BY <1>2, CellOfPosition DEF IceIn
<1> QED
  BY <1>1, <1>3, CellOfPosition

\* Ice is finite.
LEMMA IceFinite ==
    /\ IsFiniteSet(Positions) /\ IsFiniteSet(Fine)
    /\ \A e, p : Cardinality(IceIn(e, p)) \in Nat
<1>1. IM \in Nat /\ JM \in Nat /\ NSub \in Nat /\ IM * JM \in Nat
  BY TopoGridAssumption
<1>2. IsFiniteSet(1..IM) /\ IsFiniteSet(1..JM) /\ IsFiniteSet(1..NSub) /\ IsFiniteSet(Positions)
  BY <1>1, FS_Interval DEF Positions
<1>3. IsFiniteSet(Fine)
  <2> DEFINE Pairs == (1..IM) \X (1..JM)
             Triples == Pairs \X (1..NSub)
             g == [t \in Triples |-> <<t[1][1], t[1][2], t[2]>>]
  <2>1. IsFiniteSet(Triples)
    BY <1>2, FS_Product
  <2>2. IsFiniteSet({g[t] : t \in Triples})
    <3> HIDE DEF g, Triples
    <3> QED
      BY <2>1, ImageFinite
  <2>3. Fine \subseteq {g[t] : t \in Triples}
    <3> SUFFICES ASSUME NEW f \in Fine PROVE \E t \in Triples : f = g[t]
      OBVIOUS
    <3>1. f = <<f[1], f[2], f[3]>> /\ f[1] \in 1..IM /\ f[2] \in 1..JM /\ f[3] \in 1..NSub
      BY DEF Fine
    <3>2. <<<<f[1], f[2]>>, f[3]>> \in Triples
      BY <3>1
    <3>3. f = g[<<<<f[1], f[2]>>, f[3]>>]
      BY <3>1, <3>2
    <3> QED
      BY <3>2, <3>3
  <2> QED
    BY <2>2, <2>3, FS_Subset
<1>4. ASSUME NEW e, NEW p
      PROVE  Cardinality(IceIn(e, p)) \in Nat
  <2> DEFINE o == CellAt(p)
             g == [k \in 1..NSub |-> <<o[1], o[2], k>>]
  <2>1. FineOf(o) = {g[k] : k \in 1..NSub}
    BY DEF FineOf
  <2>2. IsFiniteSet({g[k] : k \in 1..NSub})
    <3> HIDE DEF g
    <3> QED
      BY <1>2, ImageFinite
  <2>3. IsFiniteSet(IceIn(e, p))
    <3> HIDE DEF g
    <3> QED
      BY <2>1, <2>2, FS_Subset DEF IceIn
  <2> QED
    BY <2>3, FS_CardinalityType
<1> QED
  BY <1>2, <1>3, <1>4

-----------------------------------------------------------------------------
(* Chunks *)

\* The scan that starts chunks, one position at a time
Scans == {v \in [starts : SUBSET Positions, nice : Nat] : 1 \in v.starts}
ScanStep(e, p, scan) ==
    LET ice == Cardinality(IceIn(e, p))
    IN  IF ice > 0 /\ scan.nice + ice >= ChunkSize
        THEN [starts |-> scan.starts \cup {p}, nice |-> ice]
        ELSE [scan EXCEPT !.nice = @ + ice]
ScanStart == [starts |-> {1}, nice |-> 0]
Order == [p \in Positions |-> p]
ScanFrom(e, h) ==
    h = [s \in SUBSET DOMAIN Order |->
            IF s = {} THEN ScanStart ELSE ScanStep(e, Order[Max(s)], h[s \ {Max(s)}])]

(* The scan of GlobalEC is the recursion ScanFrom, which takes the last position out first:
   the positions are folded from left to right. *)
LEMMA StartsDef ==
    ASSUME NEW e
    PROVE  ChunkStarts(e) = (CHOOSE h : ScanFrom(e, h))[DOMAIN Order].starts
BY DEF ChunkStarts, FoldLeft, MapThenFoldSet, ScanFrom, ScanStart, ScanStep, Order

(* The largest position of a set is the last that the scan meets. *)
LEMMA LastPosition ==
    \A s \in SUBSET Positions : s # {} => Max(s) \in s /\ Order[Max(s)] = Max(s)
<1> SUFFICES ASSUME NEW s \in SUBSET Positions, s # {}
             PROVE  Max(s) \in s /\ Order[Max(s)] = Max(s)
  OBVIOUS
<1>1. IsFiniteSet(s)
  BY IceFinite, FS_Subset
<1>2. s \in SUBSET Int
  <2>1. IM * JM \in Int
    BY TopoGridAssumption
  <2> QED
    BY <2>1 DEF Positions
<1>3. Max(s) \in s
  BY <1>1, <1>2, MinMaxIn
<1> QED
  BY <1>3 DEF Order

(* One step of the scan keeps a set of starts and a count. *)
LEMMA ScanStepIn ==
    ASSUME NEW e, NEW p \in Positions, NEW scan \in Scans
    PROVE  ScanStep(e, p, scan) \in Scans
<1> DEFINE ice == Cardinality(IceIn(e, p))
<1>1. ice \in Nat
  BY IceFinite
<1> HIDE DEF ice
<1>2. scan.starts \in SUBSET Positions /\ scan.nice \in Nat /\ 1 \in scan.starts
      /\ scan = [starts |-> scan.starts, nice |-> scan.nice]
  BY DEF Scans
<1>3. scan.nice + ice \in Nat
  BY <1>1, <1>2
<1>4. ScanStep(e, p, scan) = IF ice > 0 /\ scan.nice + ice >= ChunkSize
                             THEN [starts |-> scan.starts \cup {p}, nice |-> ice]
                             ELSE [starts |-> scan.starts, nice |-> scan.nice + ice]
  BY <1>2 DEF ScanStep, ice
<1> QED
  BY <1>1, <1>2, <1>3, <1>4 DEF Scans

\* Chunks start at positions, one of them at the first.
LEMMA StartsIn ==
    ASSUME NEW e
    PROVE  ChunkStarts(e) \subseteq Positions /\ 1 \in ChunkStarts(e)
<1>1. DOMAIN Order = Positions /\ 1 \in Positions
  <2>1. IM \in Nat \ {0} /\ JM \in Nat \ {0}
    BY TopoGridAssumption
  <2>2. IM * JM \in Nat /\ IM * JM # 0
    BY <2>1
  <2> QED
    BY <2>2 DEF Order, Positions
<1>2. ScanStart \in Scans
  BY <1>1 DEF ScanStart, Scans
<1> DEFINE ch == [s \in SUBSET Positions |-> Max(s)]
           step == [q \in Positions \X Scans |-> ScanStep(e, q[1], q[2])]
<1>3. \A s \in SUBSET Positions : ch[s] = Max(s) /\ (s # {} => ch[s] \in s)
  BY LastPosition
<1>4. step \in [Positions \X Scans -> Scans]
  BY ScanStepIn
<1>5. \A p \in Positions : \A v \in Scans : step[<<p, v>>] = ScanStep(e, p, v)
  OBVIOUS
<1> HIDE DEF ch, step
<1>6. PICK g : FoldsBy(ch, ScanStart, step, Positions, Scans, g)
  BY <1>2, <1>3, <1>4, IceFinite, FoldExists
<1>7. \A s \in SUBSET Positions :
          g[s] = IF s = {} THEN ScanStart ELSE ScanStep(e, Order[Max(s)], g[s \ {Max(s)}])
  <2> SUFFICES ASSUME NEW s \in SUBSET Positions
               PROVE  g[s] = IF s = {} THEN ScanStart
                             ELSE ScanStep(e, Order[Max(s)], g[s \ {Max(s)}])
    OBVIOUS
  <2>1. g[s] = IF s = {} THEN ScanStart ELSE step[<<ch[s], g[s \ {ch[s]}]>>]
    BY <1>6 DEF FoldsBy
  <2>2. CASE s # {}
    <3>1. ch[s] = Max(s) /\ Max(s) \in Positions /\ Order[Max(s)] = Max(s)
      BY <1>3, <2>2, LastPosition
    <3>2. g[s \ {Max(s)}] \in Scans
      BY <1>6 DEF FoldsBy
    <3> QED
      BY <1>5, <2>1, <2>2, <3>1, <3>2
  <2> QED
    BY <2>1, <2>2
<1>8. ScanFrom(e, g)
  <2>1. g \in [SUBSET Positions -> Scans]
    BY <1>6 DEF FoldsBy
  <2> QED
    BY <1>1, <1>7, <2>1 DEF ScanFrom
<1> DEFINE i == CHOOSE h : ScanFrom(e, h)
<1>9. ScanFrom(e, i)
  BY <1>8
<1> HIDE DEF i
<1>10. \A s \in SUBSET Positions :
          i[s] = IF s = {} THEN ScanStart ELSE ScanStep(e, Order[Max(s)], i[s \ {Max(s)}])
  BY <1>1, <1>9 DEF ScanFrom
<1> DEFINE T == {s \in SUBSET Positions : i[s] \notin Scans}
<1>11. ASSUME T # {} PROVE FALSE
  <2>1. T \in SUBSET (SUBSET Positions)
    OBVIOUS
  <2>2. PICK s \in T : \A x \in s : s \ {x} \notin T
    <3> HIDE DEF T
    <3> QED
      BY <1>11, <2>1, IceFinite, SmallestSubset
  <2>3. s \in SUBSET Positions /\ s # {}
    BY <1>2, <1>10, <2>2
  <2>4. Max(s) \in s /\ Order[Max(s)] = Max(s)
    BY <2>3, LastPosition
  <2>5. i[s \ {Max(s)}] \in Scans
    BY <2>2, <2>3, <2>4
  <2>6. i[s] \in Scans
    BY <1>10, <2>3, <2>4, <2>5, ScanStepIn
  <2> QED
    BY <2>2, <2>6
<1>12. i[Positions] \in Scans
  BY <1>11
<1>13. ChunkStarts(e) = i[Positions].starts
  BY <1>1, StartsDef DEF i
<1> QED
  BY <1>12, <1>13 DEF Scans

\* Where the chunk that starts at s ends
EndOf(e, s) == Min({n \in ChunkStarts(e) : n > s} \cup {IM * JM + 1})

(* A chunk ends after it starts, at the next start or behind the last position. *)
LEMMA EndIn ==
    ASSUME NEW e, NEW s \in ChunkStarts(e)
    PROVE  /\ s \in Positions /\ EndOf(e, s) \in (s + 1)..(IM * JM + 1)
           /\ \A n \in ChunkStarts(e) : n > s => EndOf(e, s) <= n
           /\ EndOf(e, s) \in ChunkStarts(e) \cup {IM * JM + 1}
<1> DEFINE N == {n \in ChunkStarts(e) : n > s} \cup {IM * JM + 1}
<1>1. IM * JM \in Nat
  BY TopoGridAssumption
<1>2. ChunkStarts(e) \subseteq Positions /\ s \in Positions
  BY StartsIn
<1>3. \A n \in N : n \in (s + 1)..(IM * JM + 1)
  BY <1>1, <1>2 DEF Positions
<1>4. N \in SUBSET Int /\ N # {} /\ s \in Int /\ \A n \in N : s <= n
  BY <1>1, <1>2, <1>3 DEF Positions
<1>5. Min(N) \in N /\ \A n \in N : Min(N) <= n
  <2> HIDE DEF N
  <2> QED
    BY <1>4, MinBounded
<1>6. EndOf(e, s) = Min(N)
  BY DEF EndOf
<1>7. EndOf(e, s) \in N /\ \A n \in N : EndOf(e, s) <= n
  BY <1>5, <1>6
<1> QED
  BY <1>2, <1>3, <1>7

(* Each start opens one chunk, which ends at the next start. *)
LEMMA ChunksDef ==
    ASSUME NEW e
    PROVE  Chunks(e) = {<<s, EndOf(e, s)>> : s \in ChunkStarts(e)}
BY DEF Chunks, EndOf

\* Chunks are intervals of positions that are not empty, finitely many.
LEMMA ChunksIn ==
    ASSUME NEW e
    PROVE  /\ IsFiniteSet(Chunks(e))
           /\ \A c \in Chunks(e) : c[1] \in Positions /\ c[2] \in (c[1] + 1)..(IM * JM + 1)
<1>1. IsFiniteSet(ChunkStarts(e))
  BY StartsIn, IceFinite, FS_Subset
<1>2. IsFiniteSet(Chunks(e))
  <2> DEFINE chunk == [s \in ChunkStarts(e) |-> <<s, EndOf(e, s)>>]
  <2>1. Chunks(e) = {chunk[s] : s \in ChunkStarts(e)}
    BY ChunksDef
  <2> HIDE DEF chunk
  <2> QED
    BY <1>1, <2>1, ImageFinite
<1>3. ASSUME NEW c \in Chunks(e)
      PROVE  c[1] \in Positions /\ c[2] \in (c[1] + 1)..(IM * JM + 1)
  <2>1. PICK s \in ChunkStarts(e) : c = <<s, EndOf(e, s)>>
    BY ChunksDef
  <2> QED
    BY <2>1, EndIn
<1> QED
  BY <1>2, <1>3

Inside(p, c) == c[1] <= p /\ p < c[2]

\* Every position is in one chunk.
LEMMA ChunkOfPosition ==
    ASSUME NEW e, NEW p \in Positions
    PROVE  /\ \E c \in Chunks(e) : Inside(p, c)
           /\ \A c, d \in Chunks(e) : Inside(p, c) /\ Inside(p, d) => c = d
<1>1. p \in Nat /\ p >= 1 /\ IM * JM \in Nat /\ p <= IM * JM
  BY TopoGridAssumption DEF Positions
<1>2. ChunkStarts(e) \subseteq Positions /\ 1 \in ChunkStarts(e)
  BY StartsIn
<1>3. \E c \in Chunks(e) : Inside(p, c)
  <2> DEFINE B == {s \in ChunkStarts(e) : s <= p}
  <2>1. B \in SUBSET Int /\ B # {} /\ \A s \in B : s <= p
    BY <1>1, <1>2 DEF Positions
  <2> DEFINE s == Max(B)
  <2>2. s \in B /\ \A t \in B : t <= s
    <3> HIDE DEF B
    <3> QED
      BY <1>1, <2>1, MaxBounded
  <2> HIDE DEF s
  <2>3. s \in ChunkStarts(e) /\ s <= p /\ s \in Positions
    BY <1>2, <2>2
  <2>4. EndOf(e, s) \in (s + 1)..(IM * JM + 1)
        /\ EndOf(e, s) \in ChunkStarts(e) \cup {IM * JM + 1}
    BY <2>3, EndIn
  <2>5. p < EndOf(e, s)
    <3>1. CASE EndOf(e, s) = IM * JM + 1
      BY <1>1, <3>1
    <3>2. CASE EndOf(e, s) \in ChunkStarts(e)
      <4>1. EndOf(e, s) \in Nat /\ s \in Nat /\ EndOf(e, s) > s
        BY <1>1, <2>3, <2>4 DEF Positions
      <4>2. EndOf(e, s) \notin B
        BY <2>2, <4>1
      <4> QED
        BY <1>1, <3>2, <4>1, <4>2
    <3> QED
      BY <2>4, <3>1, <3>2
  <2>6. <<s, EndOf(e, s)>> \in Chunks(e)
    BY <2>3, ChunksDef
  <2>7. Inside(p, <<s, EndOf(e, s)>>)
    BY <2>3, <2>5 DEF Inside
  <2> QED
    BY <2>6, <2>7
<1>4. ASSUME NEW c \in Chunks(e), NEW d \in Chunks(e), Inside(p, c), Inside(p, d)
      PROVE  c = d
  <2>1. PICK s \in ChunkStarts(e) : c = <<s, EndOf(e, s)>>
    BY ChunksDef
  <2>2. PICK t \in ChunkStarts(e) : d = <<t, EndOf(e, t)>>
    BY ChunksDef
  <2>3. s <= p /\ p < EndOf(e, s) /\ t <= p /\ p < EndOf(e, t)
    BY <1>4, <2>1, <2>2 DEF Inside
  <2>4. /\ s \in Nat /\ t \in Nat
        /\ t > s => EndOf(e, s) <= t
        /\ s > t => EndOf(e, t) <= s
        /\ EndOf(e, s) \in Nat /\ EndOf(e, t) \in Nat
    BY <1>1, <1>2, EndIn DEF Positions
  <2>5. s = t
    BY <1>1, <2>3, <2>4
  <2> QED
    BY <2>1, <2>2, <2>5
<1> QED
  BY <1>3, <1>4

\* Every fine cell with ice is in one chunk's ice: chunks lose none and count none
\* twice.
ChunkOf(e) == [f \in e.fgice |-> CHOOSE c \in Chunks(e) : f \in ChunkIce(e, c)]

(* The chunks partition the ice: every fine ice cell lies in the chunk ChunkOf names and in no
   other (the loop at global_ec.cpp:862-898 cuts the globe without gap or overlap). *)
THEOREM ChunksPartitionIce ==
    ASSUME NEW e, e.fgice \subseteq Fine
    PROVE  /\ \A f \in e.fgice : ChunkOf(e)[f] \in Chunks(e)
           /\ \A c \in Chunks(e) : ChunkIce(e, c) = {f \in e.fgice : ChunkOf(e)[f] = c}
<1>1. ASSUME NEW c \in Chunks(e), NEW f \in e.fgice
      PROVE  f \in ChunkIce(e, c) <=> Inside(PosOf(OofF(f)), c)
  <2> DEFINE q == PosOf(OofF(f))
  <2>1. q \in Positions /\ \A p \in Positions : f \in IceIn(e, p) <=> p = q
    BY IcePosition
  <2>2. c[1] \in Positions /\ c[2] \in (c[1] + 1)..(IM * JM + 1) /\ IM * JM \in Nat
    BY ChunksIn, TopoGridAssumption
  <2> HIDE DEF q
  <2>3. \A p \in c[1]..(c[2] - 1) : p \in Positions
    BY <2>2 DEF Positions
  <2>4. q \in c[1]..(c[2] - 1) <=> Inside(q, c)
    BY <2>1, <2>2 DEF Positions, Inside
  <2>5. f \in ChunkIce(e, c) <=> \E p \in c[1]..(c[2] - 1) : f \in IceIn(e, p)
    BY DEF ChunkIce
  <2> QED
    BY <2>1, <2>3, <2>4, <2>5 DEF q
<1>2. ASSUME NEW c \in Chunks(e)
      PROVE  ChunkIce(e, c) \subseteq e.fgice
  BY DEF ChunkIce, IceIn
<1>3. ASSUME NEW f \in e.fgice
      PROVE  /\ ChunkOf(e)[f] \in Chunks(e) /\ f \in ChunkIce(e, ChunkOf(e)[f])
             /\ \A c \in Chunks(e) : f \in ChunkIce(e, c) => c = ChunkOf(e)[f]
  <2>1. PosOf(OofF(f)) \in Positions
    BY IcePosition
  <2>2. \E c \in Chunks(e) : f \in ChunkIce(e, c)
    BY <1>1, <2>1, ChunkOfPosition
  <2>3. ChunkOf(e)[f] \in Chunks(e) /\ f \in ChunkIce(e, ChunkOf(e)[f])
    BY <2>2 DEF ChunkOf
  <2> QED
    BY <1>1, <2>1, <2>3, ChunkOfPosition
<1> QED
  BY <1>2, <1>3

-----------------------------------------------------------------------------
(* Elevation classes *)

\* The file of etopo1_ice has ice on the fine grid and an elevation everywhere.
IceFile(e) == e.fgice \subseteq Fine /\ e.ztop \in [Fine -> Int]

\* A list of elevations
Elevations(hc) == Len(hc) \in Nat /\ DOMAIN hc = 1..Len(hc) /\ \A h \in 1..Len(hc) : hc[h] \in Int

(* The elevation levels of an ice file form a sequence of integers. *)
LEMMA HcdefsIn ==
    ASSUME NEW e, IceFile(e)
    PROVE  Elevations(Hcdefs(e))
<1>1. ECSkip \in Nat \ {0}
  BY GlobalECAssumption
<1> DEFINE r == ECRange(e)
           n == IF r[1] > r[2] THEN 0 ELSE (r[2] - r[1]) \div ECSkip + 1
<1>2. r[1] \in Int /\ r[2] \in Int
  <2>1. CASE e.fgice = {}
    BY <2>1 DEF ECRange
  <2>2. CASE e.fgice # {}
    <3> DEFINE z == {e.ztop[f] : f \in e.fgice}
    <3>1. IsFiniteSet(e.fgice)
      BY IceFinite, FS_Subset DEF IceFile
    <3>2. IsFiniteSet(z)
      BY <3>1, ImageFinite
    <3>3. z \in SUBSET Int /\ z # {}
      BY <2>2 DEF IceFile
    <3>4. r = <<ECSkip * (Min(z) \div ECSkip), ECSkip * ((Max(z) + ECSkip - 1) \div ECSkip)>>
      BY <2>2 DEF ECRange
    <3> HIDE DEF z, r
    <3>5. Min(z) \in Int /\ Max(z) \in Int
      BY <3>2, <3>3, MinMaxIn
    <3> QED
      BY <1>1, <3>4, <3>5
  <2> QED
    BY <2>1, <2>2
<1> HIDE DEF r
<1>3. n \in Nat
  <2>1. CASE r[1] > r[2]
    BY <2>1
  <2>2. CASE ~ (r[1] > r[2])
    <3>1. r[2] - r[1] \in Nat
      BY <1>2, <2>2
    <3>2. (r[2] - r[1]) \div ECSkip \in Nat
      BY <1>1, <3>1, DivMod
    <3> QED
      BY <2>2, <3>2
  <2> QED
    BY <2>1, <2>2
<1>4. Hcdefs(e) = [h \in 1..n |-> r[1] + (h - 1) * ECSkip]
  BY DEF Hcdefs, r
<1> HIDE DEF n
<1>5. Len(Hcdefs(e)) = n /\ DOMAIN Hcdefs(e) = 1..n
  BY <1>3, <1>4
<1>6. \A h \in 1..n : r[1] + (h - 1) * ECSkip \in Int
  BY <1>1, <1>2, <1>3
<1> QED
  BY <1>3, <1>4, <1>5, <1>6 DEF Elevations

\* The classes that an elevation is interpolated between are two at most, and share the
\* distance between them.
LEMMA InterpolatedIn ==
    ASSUME NEW hc, Elevations(hc), NEW z \in Int, ~OutOfBounds(hc, z)
    PROVE  LET w == Interpolated(hc, z)
           IN  /\ IsFiniteSet(DOMAIN w) /\ \A k \in DOMAIN w : w[k] \in Int
               /\ Sum(w, DOMAIN w) = Spacing(hc)
<1> DEFINE L == {h \in DOMAIN hc : hc[h] >= z} \cup {Len(hc) + 1}
           b == LowerBound(hc, z)
           h == Max({b, 2})
           ratio == z - hc[h - 1]
           low == Spacing(hc) - ratio
           w == [k \in {h - 1, h} |-> IF k = h THEN ratio ELSE low]
           N == {k \in DOMAIN w : w[k] # 0}
<1>1. b \in 1..(Len(hc) + 1)
  <2>1. L \in SUBSET Int /\ L # {} /\ \A k \in L : 1 <= k
    BY DEF Elevations
  <2>2. Min(L) \in L
    <3> HIDE DEF L
    <3> QED
      BY <2>1, MinBounded
  <2> QED
    BY <2>2 DEF LowerBound, Elevations
<1>2. b \in 1..Len(hc) /\ Len(hc) \in Nat /\ Len(hc) >= 2
  BY <1>1 DEF OutOfBounds, Elevations
<1>3. h \in 2..Len(hc)
  <2> HIDE DEF b
  <2>1. {b, 2} \in SUBSET Int /\ {b, 2} # {} /\ \A y \in {b, 2} : y <= Len(hc)
    BY <1>2
  <2>2. Len(hc) \in Int
    BY <1>2
  <2>3. Max({b, 2}) \in {b, 2} /\ \A y \in {b, 2} : y <= Max({b, 2})
    BY <2>1, <2>2, MaxBounded
  <2> QED
    BY <1>2, <2>3
<1>4. Interpolated(hc, z) = Restrict(w, N)
  BY DEF Interpolated
<1>5. ratio \in Int /\ low \in Int /\ Spacing(hc) \in Int /\ low + ratio = Spacing(hc)
  <2> HIDE DEF h, b
  <2>1. hc[h - 1] \in Int /\ hc[1] \in Int /\ hc[2] \in Int
    BY <1>2, <1>3 DEF Elevations
  <2> QED
    BY <2>1 DEF Spacing
<1> HIDE DEF h, b, ratio, low
<1>6. h - 1 # h
  BY <1>3
<1>7. w[h - 1] = low /\ w[h] = ratio /\ DOMAIN w = {h - 1, h}
  BY <1>6
<1> HIDE DEF w
<1>8. /\ IsFiniteSet({h - 1, h}) /\ Ints(w, {h - 1, h})
      /\ Sum(w, {h - 1, h}) = w[h - 1] + w[h]
  BY <1>5, <1>6, <1>7, SumTwo
<1>9. DOMAIN Restrict(w, N) = N /\ \A k \in N : Restrict(w, N)[k] = w[k]
  BY DEF Restrict
<1>10. Sum(Restrict(w, N), N) = Sum(w, {h - 1, h})
  BY <1>7, <1>8, <1>9, SumNonzero
<1>11. IsFiniteSet(N) /\ \A k \in N : w[k] \in Int
  BY <1>5, <1>7, <1>8, FS_Subset
<1> QED
  BY <1>4, <1>5, <1>7, <1>8, <1>9, <1>10, <1>11

-----------------------------------------------------------------------------
(* The matrices of a part of the ice *)

\* What GvAp(), GvI() and GvEp() have for the cells S of the ice
CellEntries(S) == {<<f, f, GCMCell(f), 1>> : f \in S}
IceEntries(S) == {<<f, f, f, 1>> : f \in S}
ClassesAt(e, f) == ClassWeights(Hcdefs(e), "Z_INTERP", Max({e.ztop[f], 0}))
ClassEntries(e, S) ==
    UNION {{<<f, f, <<GCMCell(f), h>>, 1 * ClassesAt(e, f)[h]>> : h \in DOMAIN ClassesAt(e, f)} :
              f \in S}

EntriesOf(grid, e, S) ==
    IF grid = "A" THEN CellEntries(S)
    ELSE IF grid = "I" THEN IceEntries(S)
    ELSE ClassEntries(e, S)

\* The grids that a matrix goes from and to
LeftOf == [AvI |-> "A", EvI |-> "E", IvE |-> "I", IvA |-> "I", AvE |-> "A", EvA |-> "E"]
RightOf == [AvI |-> "I", EvI |-> "I", IvE |-> "E", IvA |-> "A", AvE |-> "E", EvA |-> "A"]
Names == {"AvI", "EvI", "IvE", "IvA", "AvE", "EvA"}

UnitArea(S) == [f \in S |-> 1]

RoutesOf(name, e, S) ==
    Routes(UnitArea(S), Accumulate(EntriesOf(LeftOf[name], e, S)),
           Accumulate(EntriesOf(RightOf[name], e, S)))

\* The parts of the matrices that relate the exchange grid are their rows.
LEMMA EntriesOfPart ==
    ASSUME NEW grid, NEW e, NEW S, S \subseteq e.fgice
    PROVE  EntriesOf(grid, e, S) = {t \in EntriesOf(grid, e, e.fgice) : t[2] \in S}
<1>1. CellEntries(S) = {t \in CellEntries(e.fgice) : t[2] \in S}
  BY DEF CellEntries
<1>2. IceEntries(S) = {t \in IceEntries(e.fgice) : t[2] \in S}
  BY DEF IceEntries
<1>3. ClassEntries(e, S) = {t \in ClassEntries(e, e.fgice) : t[2] \in S}
  <2>1. ASSUME NEW t \in ClassEntries(e, S)
        PROVE  t \in ClassEntries(e, e.fgice) /\ t[2] \in S
    <3>0. PICK f \in S : t \in {<<f, f, <<GCMCell(f), h>>, 1 * ClassesAt(e, f)[h]>> :
                                      h \in DOMAIN ClassesAt(e, f)}
      BY <2>1 DEF ClassEntries
    <3>1. PICK h \in DOMAIN ClassesAt(e, f) :
              t = <<f, f, <<GCMCell(f), h>>, 1 * ClassesAt(e, f)[h]>>
      BY <3>0
    <3> QED
      BY <3>1 DEF ClassEntries
  <2>2. ASSUME NEW t \in ClassEntries(e, e.fgice), t[2] \in S
        PROVE  t \in ClassEntries(e, S)
    <3>0. PICK f \in e.fgice : t \in {<<f, f, <<GCMCell(f), h>>, 1 * ClassesAt(e, f)[h]>> :
                                      h \in DOMAIN ClassesAt(e, f)}
      BY <2>2 DEF ClassEntries
    <3>1. PICK h \in DOMAIN ClassesAt(e, f) :
              t = <<f, f, <<GCMCell(f), h>>, 1 * ClassesAt(e, f)[h]>>
      BY <3>0
    <3>2. f \in S
      BY <2>2, <3>1
    <3> QED
      BY <3>1, <3>2 DEF ClassEntries
  <2> QED
    BY <2>1, <2>2
<1> QED
  BY <1>1, <1>2, <1>3 DEF EntriesOf

(* The entries behind the matrix of a part of the ice are those among the entries of all the
   ice whose fine cell lies in that part. *)
LEMMA RoutesOfPart ==
    ASSUME NEW name, NEW e, NEW S, S \subseteq e.fgice
    PROVE  RoutesOf(name, e, S) = {t \in RoutesOf(name, e, e.fgice) : t[1][1][1] \in S}
<1> DEFINE L == EntriesOf(LeftOf[name], e, e.fgice)
           R == EntriesOf(RightOf[name], e, e.fgice)
<1>1. /\ EntriesOf(LeftOf[name], e, S) = {t \in L : t[2] \in S}
      /\ EntriesOf(RightOf[name], e, S) = {t \in R : t[2] \in S}
  BY EntriesOfPart
<1> HIDE DEF L, R
<1>2. /\ Accumulate({t \in L : t[2] \in S}) = RowsIn(Accumulate(L), S)
      /\ Accumulate({t \in R : t[2] \in S}) = RowsIn(Accumulate(R), S)
  BY AccumulateRows
<1>3. \A f \in S : UnitArea(S)[f] = UnitArea(e.fgice)[f]
  BY DEF UnitArea
<1>4. Routes(UnitArea(S), RowsIn(Accumulate(L), S), RowsIn(Accumulate(R), S))
      = {t \in Routes(UnitArea(e.fgice), Accumulate(L), Accumulate(R)) : t[1][1][1] \in S}
  BY <1>3, RoutesOfRows
<1> QED
  BY <1>1, <1>2, <1>4 DEF RoutesOf, L, R

\* The ice of S lies within the elevation classes.
Classed(e, S) == \A f \in S : ~OutOfBounds(Hcdefs(e), Max({e.ztop[f], 0}))

(* The entries of GvI, for any grid G and any part of the ice that its elevation classes
   span, are finitely many integers at fine cells of that part. *)
LEMMA EntriesOfIce ==
    ASSUME NEW e, IceFile(e), NEW S, S \subseteq e.fgice,
           NEW grid, grid = "E" => Classed(e, S), grid \in {"A", "I", "E"}
    PROVE  /\ Entries(EntriesOf(grid, e, S))
           /\ \A t \in EntriesOf(grid, e, S) : t[2] \in S
<1>1. IsFiniteSet(S)
  BY IceFinite, FS_Subset DEF IceFile
<1>2. Entries(CellEntries(S))
  <2> DEFINE g == [f \in S |-> <<f, f, GCMCell(f), 1>>]
  <2>1. CellEntries(S) = {g[f] : f \in S} /\ \A t \in CellEntries(S) : t[4] = 1
    BY DEF CellEntries
  <2> HIDE DEF g
  <2> QED
    BY <1>1, <2>1, ImageFinite DEF Entries
<1>3. Entries(IceEntries(S))
  <2> DEFINE g == [f \in S |-> <<f, f, f, 1>>]
  <2>1. IceEntries(S) = {g[f] : f \in S} /\ \A t \in IceEntries(S) : t[4] = 1
    BY DEF IceEntries
  <2> HIDE DEF g
  <2> QED
    BY <1>1, <2>1, ImageFinite DEF Entries
<1>4. ASSUME Classed(e, S) PROVE Entries(ClassEntries(e, S))
  <2> DEFINE Of(f) == {<<f, f, <<GCMCell(f), h>>, 1 * ClassesAt(e, f)[h]>> :
                          h \in DOMAIN ClassesAt(e, f)}
             g == [f \in S |-> Of(f)]
  <2>1. ASSUME NEW f \in S
        PROVE  /\ IsFiniteSet(DOMAIN ClassesAt(e, f))
               /\ \A h \in DOMAIN ClassesAt(e, f) : ClassesAt(e, f)[h] \in Int
    <3>1. e.ztop[f] \in Int
      BY DEF IceFile
    <3>2. Max({e.ztop[f], 0}) \in Int
      <4> DEFINE z == e.ztop[f]
      <4>1. {z, 0} \in SUBSET Int /\ {z, 0} # {}
        BY <3>1
      <4>2. \E b \in Int : \A y \in {z, 0} : y <= b
        <5>1. CASE z <= 0
          BY <3>1, <5>1
        <5>2. CASE ~(z <= 0)
          <6>1. z \in Int /\ z <= z /\ 0 <= z
            BY <3>1, <5>2
          <6> QED
            BY <6>1
        <5> QED
          BY <5>1, <5>2
      <4> HIDE DEF z
      <4>3. Max({z, 0}) \in {z, 0}
        BY <4>1, <4>2, MaxBounded
      <4> QED
        BY <4>1, <4>3 DEF z
    <3>3. ~OutOfBounds(Hcdefs(e), Max({e.ztop[f], 0}))
      BY <1>4 DEF Classed
    <3>4. ClassesAt(e, f) = Interpolated(Hcdefs(e), Max({e.ztop[f], 0}))
      BY DEF ClassesAt, ClassWeights
    <3> QED
      BY <3>2, <3>3, <3>4, HcdefsIn, InterpolatedIn
  <2>2. ASSUME NEW f \in S PROVE IsFiniteSet(Of(f))
    <3> DEFINE D == DOMAIN ClassesAt(e, f)
               k == [h \in D |-> <<f, f, <<GCMCell(f), h>>, 1 * ClassesAt(e, f)[h]>>]
    <3>1. Of(f) = {k[h] : h \in D}
      OBVIOUS
    <3>2. IsFiniteSet(D)
      BY <2>1
    <3> HIDE DEF D, k, Of
    <3> QED
      BY <3>1, <3>2, ImageFinite
  <2>3. ClassEntries(e, S) = UNION {g[f] : f \in S}
    BY DEF ClassEntries
  <2>4. \A f \in S : IsFiniteSet(g[f])
    BY <2>2
  <2>5. \A f \in S : \A t \in g[f] : t[4] \in Int
    BY <2>1
  <2> HIDE DEF g, Of
  <2>6. IsFiniteSet({g[f] : f \in S})
    BY <1>1, ImageFinite
  <2>7. \A T \in {g[f] : f \in S} : IsFiniteSet(T)
    BY <2>4
  <2>8. IsFiniteSet(UNION {g[f] : f \in S})
    BY <2>6, <2>7, FS_UNION
  <2> QED
    BY <2>3, <2>5, <2>8 DEF Entries
<1>5. \A t \in EntriesOf(grid, e, S) : t[2] \in S
  BY EntriesOfPart
<1> QED
  BY <1>2, <1>3, <1>4, <1>5 DEF EntriesOf

\* What GvAp(), GvI() and GvEp() are for the exchange grid of some of the ice
LEMMA GvOfIce ==
    ASSUME NEW e, NEW S
    PROVE  LET elev == ElevmaskOf(e, S)
               x == ExchangeGrid(S, [f \in S |-> GCMCell(f)])
           IN  /\ DOMAIN elev = S /\ x.area = UnitArea(S) /\ UsedX(x, elev) = S
               /\ GvAp(x, elev) = Accumulate(CellEntries(S))
               /\ GvI(x, elev) = Accumulate(IceEntries(S))
               /\ GvEp(x, elev, Hcdefs(e), "Z_INTERP") = Accumulate(ClassEntries(e, S))
<1> DEFINE elev == ElevmaskOf(e, S)
           x == ExchangeGrid(S, [f \in S |-> GCMCell(f)])
<1>1. /\ x.cells = S /\ x.area = UnitArea(S)
      /\ \A f \in S : x.a[f] = GCMCell(f) /\ x.i[f] = f /\ x.area[f] = 1
  BY DEF ExchangeGrid, UnitArea
<1>2. DOMAIN elev = S /\ \A f \in S : elev[f] = e.ztop[f]
  BY DEF ElevmaskOf
<1> HIDE DEF x, elev
<1>3. UsedX(x, elev) = S
  BY <1>1, <1>2 DEF UsedX
<1>4. {<<c, c, x.a[c], x.area[c]>> : c \in {d \in UsedX(x, elev) : x.area[d] > 0}}
      = CellEntries(S)
  <2>1. {d \in UsedX(x, elev) : x.area[d] > 0} = S
    BY <1>1, <1>3
  <2> QED
    BY <1>1, <2>1 DEF CellEntries
<1>5. {<<c, c, x.i[c], x.area[c]>> : c \in UsedX(x, elev)} = IceEntries(S)
  BY <1>1, <1>3 DEF IceEntries
<1> DEFINE w(c) == ClassWeights(Hcdefs(e), "Z_INTERP", Max({elev[x.i[c]], 0}))
           Of(c) == {<<c, c, <<x.a[c], h>>, x.area[c] * w(c)[h]>> : h \in DOMAIN w(c)}
<1>6. UNION {Of(c) : c \in UsedX(x, elev)} = ClassEntries(e, S)
  <2>1. ASSUME NEW c \in S
        PROVE  Of(c) = {<<c, c, <<GCMCell(c), h>>, 1 * ClassesAt(e, c)[h]>> :
                            h \in DOMAIN ClassesAt(e, c)}
    <3>1. w(c) = ClassesAt(e, c)
      BY <1>1, <1>2 DEF ClassesAt
    <3> HIDE DEF w
    <3> QED
      BY <1>1, <3>1
  <2> HIDE DEF Of
  <2> QED
    BY <1>3, <2>1 DEF ClassEntries
<1>7. GvAp(x, elev) = Accumulate(CellEntries(S))
  BY <1>4 DEF GvAp
<1>8. GvI(x, elev) = Accumulate(IceEntries(S))
  BY <1>5 DEF GvI
<1>9. GvEp(x, elev, Hcdefs(e), "Z_INTERP") = Accumulate(ClassEntries(e, S))
  BY <1>6 DEF GvEp
<1> QED
  BY <1>1, <1>2, <1>3, <1>7, <1>8, <1>9 DEF x, elev

UsesClasses(name) == name \in {"EvI", "IvE", "AvE", "EvA"}

(* So are the entries behind each of the matrices that global_ec writes. *)
LEMMA RoutesOfIce ==
    ASSUME NEW e, IceFile(e), NEW S, S \subseteq e.fgice, NEW name \in Names,
           UsesClasses(name) => Classed(e, S)
    PROVE  /\ Entries(RoutesOf(name, e, S))
           /\ \A t \in RoutesOf(name, e, S) : t[1][1][1] \in S
<1> DEFINE L == EntriesOf(LeftOf[name], e, S)
           R == EntriesOf(RightOf[name], e, S)
<1>1. /\ LeftOf[name] \in {"A", "I", "E"} /\ RightOf[name] \in {"A", "I", "E"}
      /\ LeftOf[name] = "E" \/ RightOf[name] = "E" => UsesClasses(name)
  BY DEF LeftOf, RightOf, Names, UsesClasses
<1>2. Entries(L) /\ Entries(R) /\ \A t \in L : t[2] \in S
  BY <1>1, EntriesOfIce
<1> HIDE DEF L, R
<1>3. Matrix(Accumulate(L)) /\ Matrix(Accumulate(R))
  BY <1>2, AccumulateMatrix
<1>4. \A b \in DOMAIN Accumulate(L) : UnitArea(S)[b[1]] \in Nat \ {0} /\ b[1] \in S
  <2> SUFFICES ASSUME NEW b \in DOMAIN Accumulate(L)
               PROVE  UnitArea(S)[b[1]] \in Nat \ {0} /\ b[1] \in S
    OBVIOUS
  <2>1. PICK t \in L : b = <<t[2], t[3]>>
    BY DEF Accumulate
  <2>2. b[1] \in S
    BY <1>2, <2>1
  <2> QED
    BY <2>2 DEF UnitArea
<1>5. RoutesOf(name, e, S) = Routes(UnitArea(S), Accumulate(L), Accumulate(R))
  BY DEF RoutesOf, L, R
<1>6. Entries(RoutesOf(name, e, S))
  BY <1>3, <1>4, <1>5, RoutesEntries
<1>7. ASSUME NEW t \in RoutesOf(name, e, S) PROVE t[1][1][1] \in S
  BY <1>6, RoutesOfPart
<1> QED
  BY <1>6, <1>7

\* A matrix on the ice has the tallies of its routes.
LEMMA IceMatrixRoutes ==
    ASSUME NEW e, IceFile(e), NEW S, S \subseteq e.fgice, NEW name \in Names,
           UsesClasses(name) => Classed(e, S)
    PROVE  IceMatrix(name, ElevmaskOf(e, S), Hcdefs(e)) = Weighed(RoutesOf(name, e, S))
<1> DEFINE elev == ElevmaskOf(e, S)
           x == ExchangeGrid(S, [f \in S |-> GCMCell(f)])
           Left == Accumulate(EntriesOf(LeftOf[name], e, S))
           Right == Accumulate(EntriesOf(RightOf[name], e, S))
           T == Accumulate(RoutesOf(name, e, S))
<1>1. /\ DOMAIN elev = S /\ x.area = UnitArea(S)
      /\ GvAp(x, elev) = Accumulate(EntriesOf("A", e, S))
      /\ GvI(x, elev) = Accumulate(EntriesOf("I", e, S))
      /\ GvEp(x, elev, Hcdefs(e), "Z_INTERP") = Accumulate(EntriesOf("E", e, S))
  BY GvOfIce DEF EntriesOf
<1>2. Through(x, Left, Right) = T
  BY <1>1, ThroughRoutes DEF RoutesOf
<1>3. Entries(RoutesOf(name, e, S))
  BY RoutesOfIce
<1>4. \A rc \in DOMAIN T : T[rc] \in Int
  BY <1>3, AccumulateMatrix DEF Matrix
<1>5. [rc \in DOMAIN T |-> (T[rc] * 1) \div 1] = T
  <2>1. \A rc \in DOMAIN T : (T[rc] * 1) \div 1 = T[rc]
    BY <1>4
  <2>2. T = [rc \in DOMAIN T |-> T[rc]]
    BY DEF Accumulate
  <2> HIDE DEF T
  <2> QED
    BY <2>1, <2>2
<1> DEFINE geom == [native |-> [f \in S |-> 1], proj |-> [f \in S |-> 1]]
           M == [M |-> T, wM |-> RowSum(T), Mw |-> ColSum(T)]
<1>6. IceMatrix(name, elev, Hcdefs(e)) = M
  <2>0. IceMatrix(name, elev, Hcdefs(e))
        = LET urA == GvAp(x, elev)
              urE == GvEp(x, elev, Hcdefs(e), "Z_INTERP")
              gvi == GvI(x, elev)
          IN  CASE name = "AvI" -> AEvI(x, urA, gvi, geom, "A", FALSE)
                [] name = "EvI" -> AEvI(x, urE, gvi, geom, "E", FALSE)
                [] name = "IvE" -> IvAE(x, urE, gvi, geom, "E", FALSE)
                [] name = "IvA" -> IvAE(x, urA, gvi, geom, "A", FALSE)
                [] name = "AvE" -> AvE(x, urE, urA)
                [] name = "EvA" -> EvA(x, urE, urA)
    BY <1>1 DEF IceMatrix
  <2> HIDE DEF x, elev, geom, T
  <2>1. CASE name = "AvI"
    <3>1. IceMatrix(name, elev, Hcdefs(e)) = AEvI(x, GvAp(x, elev), GvI(x, elev), geom, "A", FALSE)
      BY <2>0, <2>1
    <3>2. Left = GvAp(x, elev) /\ Right = GvI(x, elev)
      BY <1>1, <2>1 DEF LeftOf, RightOf
    <3> QED
      BY <1>2, <3>1, <3>2 DEF AEvI
  <2>2. CASE name = "EvI"
    <3>1. IceMatrix(name, elev, Hcdefs(e))
          = AEvI(x, GvEp(x, elev, Hcdefs(e), "Z_INTERP"), GvI(x, elev), geom, "E", FALSE)
      BY <2>0, <2>2
    <3>2. Left = GvEp(x, elev, Hcdefs(e), "Z_INTERP") /\ Right = GvI(x, elev)
      BY <1>1, <2>2 DEF LeftOf, RightOf
    <3> QED
      BY <1>2, <3>1, <3>2 DEF AEvI
  <2>3. CASE name = "IvE"
    <3>1. IceMatrix(name, elev, Hcdefs(e))
          = IvAE(x, GvEp(x, elev, Hcdefs(e), "Z_INTERP"), GvI(x, elev), geom, "E", FALSE)
      BY <2>0, <2>3
    <3>2. Left = GvI(x, elev) /\ Right = GvEp(x, elev, Hcdefs(e), "Z_INTERP")
      BY <1>1, <2>3 DEF LeftOf, RightOf
    <3> QED
      BY <1>2, <1>5, <3>1, <3>2 DEF IvAE
  <2>4. CASE name = "IvA"
    <3>1. IceMatrix(name, elev, Hcdefs(e)) = IvAE(x, GvAp(x, elev), GvI(x, elev), geom, "A", FALSE)
      BY <2>0, <2>4
    <3>2. Left = GvI(x, elev) /\ Right = GvAp(x, elev)
      BY <1>1, <2>4 DEF LeftOf, RightOf
    <3> QED
      BY <1>2, <1>5, <3>1, <3>2 DEF IvAE
  <2>5. CASE name = "AvE"
    <3>1. IceMatrix(name, elev, Hcdefs(e))
          = AvE(x, GvEp(x, elev, Hcdefs(e), "Z_INTERP"), GvAp(x, elev))
      BY <2>0, <2>5
    <3>2. Left = GvAp(x, elev) /\ Right = GvEp(x, elev, Hcdefs(e), "Z_INTERP")
      BY <1>1, <2>5 DEF LeftOf, RightOf
    <3> QED
      BY <1>2, <3>1, <3>2 DEF AvE
  <2>6. CASE name = "EvA"
    <3>1. IceMatrix(name, elev, Hcdefs(e))
          = EvA(x, GvEp(x, elev, Hcdefs(e), "Z_INTERP"), GvAp(x, elev))
      BY <2>0, <2>6
    <3>2. Left = GvEp(x, elev, Hcdefs(e), "Z_INTERP") /\ Right = GvAp(x, elev)
      BY <1>1, <2>6 DEF LeftOf, RightOf
    <3> QED
      BY <1>2, <3>1, <3>2 DEF EvA
  <2> QED
    BY <2>1, <2>2, <2>3, <2>4, <2>5, <2>6 DEF Names
<1>7. M = Weighed(RoutesOf(name, e, S))
  BY <1>3, AccumulateTally, RowSumTally, ColSumTally DEF Weighed
<1> QED
  BY <1>6, <1>7

-----------------------------------------------------------------------------
(* The matrices of the chunks *)

(* The matrices asked for are all among those a chunk that ran to its end has generated. *)
LEMMA NamesMade ==
    /\ Range(MatrixNames) \subseteq Names /\ Len(MatrixNames) \in Nat \ {0}
    /\ DOMAIN MatrixNames = 1..Len(MatrixNames)
    /\ Range(MatrixNames) \subseteq Generated(Len(MatrixOrder))
    /\ \A n : Generated(n) \subseteq Names
<1>1. Len(MatrixOrder) = 6 /\ DOMAIN MatrixOrder = 1..6
  BY DEF MatrixOrder
<1>2. \A k \in 1..6 : MatrixOrder[k] \in Names
  BY DEF MatrixOrder, Names
<1>3. Range(MatrixOrder) = {MatrixOrder[k] : k \in 1..6}
  BY <1>1 DEF Range
<1>4. Range(MatrixOrder) \subseteq Names
  BY <1>2, <1>3
<1>5. MatrixNames \in Seq(Range(MatrixOrder)) /\ MatrixNames # <<>>
  BY GlobalECAssumption
<1>6. Len(MatrixNames) \in Nat \ {0} /\ DOMAIN MatrixNames = 1..Len(MatrixNames)
  BY <1>5
<1>7. Range(MatrixNames) \subseteq Range(MatrixOrder)
  BY <1>5, <1>6 DEF Range
<1>8. Range(MatrixNames) \subseteq Generated(Len(MatrixOrder))
  BY <1>1, <1>3, <1>7 DEF Generated
<1>9. \A n : Generated(n) \subseteq Range(MatrixNames)
  BY DEF Generated
<1> QED
  BY <1>4, <1>6, <1>7, <1>8, <1>9

\* Where no chunk fails, all the ice lies within the elevation classes.
LEMMA ChunksClassed ==
    ASSUME NEW e, NEW name \in Range(MatrixNames), UsesClasses(name),
           NEW c, ~SectionFails(e, c)
    PROVE  Classed(e, ChunkIce(e, c))
<1> DEFINE S == ChunkIce(e, c)
           elev == ElevmaskOf(e, S)
           x == ExchangeGrid(S, [f \in S |-> GCMCell(f)])
<1>1. DOMAIN elev = S /\ UsedX(x, elev) = S
  BY GvOfIce
<1>2. \A f \in S : elev[x.i[f]] = e.ztop[f]
  BY DEF ElevmaskOf, ExchangeGrid
<1>3. name \in Generated(Len(MatrixOrder)) \cap {"EvI", "IvE", "AvE", "EvA"}
  BY NamesMade DEF UsesClasses
<1>4. ~GvEpFails(x, elev, Hcdefs(e), "Z_INTERP")
  BY <1>1, <1>3 DEF SectionFails
<1> HIDE DEF S, x, elev
<1>5. \A f \in S : ~OutOfBounds(Hcdefs(e), Max({e.ztop[f], 0}))
  BY <1>1, <1>2, <1>4 DEF GvEpFails
<1> QED
  BY <1>5 DEF Classed, S

ChunkMatrix(e, name) ==
    [c \in Chunks(e) |-> IceMatrix(name, ElevmaskOf(e, ChunkIce(e, c)), Hcdefs(e))]

\* combine_global_ec: the matrices of the chunks and their weights, added up, are
\* those of all the ice at once.
THEOREM ChunkMatricesAddUp ==
    ASSUME NEW e, IceFile(e), NEW name \in Range(MatrixNames),
           \A c \in Chunks(e) : ~SectionFails(e, c)
    PROVE  LET K   == Chunks(e)
               gM  == [c \in K |-> ChunkMatrix(e, name)[c].M]
               gwM == [c \in K |-> ChunkMatrix(e, name)[c].wM]
               gMw == [c \in K |-> ChunkMatrix(e, name)[c].Mw]
           IN  /\ NumbersIn(gM, K) /\ NumbersIn(gwM, K) /\ NumbersIn(gMw, K)
               /\ IceMatrix(name, ElevmaskOf(e, e.fgice), Hcdefs(e))
                  = [M |-> PlusSum(gM, K), wM |-> PlusSum(gwM, K), Mw |-> PlusSum(gMw, K)]
<1> DEFINE K == Chunks(e)
           R == RoutesOf(name, e, e.fgice)
           part == [t \in R |-> ChunkOf(e)[t[1][1][1]]]
           in == [c \in K |-> RoutesOf(name, e, ChunkIce(e, c))]
<1>1. name \in Names
  BY NamesMade
<1>2. /\ \A f \in e.fgice : ChunkOf(e)[f] \in K
      /\ \A c \in K : ChunkIce(e, c) = {f \in e.fgice : ChunkOf(e)[f] = c}
  BY ChunksPartitionIce DEF IceFile
<1>3. UsesClasses(name) => \A c \in K : Classed(e, ChunkIce(e, c))
  BY ChunksClassed
<1>4. UsesClasses(name) => Classed(e, e.fgice)
  <2> SUFFICES ASSUME UsesClasses(name), NEW f \in e.fgice
               PROVE  ~OutOfBounds(Hcdefs(e), Max({e.ztop[f], 0}))
    BY DEF Classed
  <2>1. f \in ChunkIce(e, ChunkOf(e)[f]) /\ ChunkOf(e)[f] \in K
    BY <1>2
  <2> QED
    BY <1>3, <2>1 DEF Classed
<1>5. Entries(R) /\ \A t \in R : t[1][1][1] \in e.fgice
  BY <1>1, <1>4, RoutesOfIce
<1>6. IceMatrix(name, ElevmaskOf(e, e.fgice), Hcdefs(e)) = Weighed(R)
  BY <1>1, <1>4, IceMatrixRoutes
<1>7. ASSUME NEW c \in K
      PROVE  ChunkMatrix(e, name)[c] = Weighed(in[c])
  <2>1. ChunkIce(e, c) \subseteq e.fgice
    BY <1>2
  <2>2. IceMatrix(name, ElevmaskOf(e, ChunkIce(e, c)), Hcdefs(e))
        = Weighed(RoutesOf(name, e, ChunkIce(e, c)))
    BY <1>1, <1>3, <2>1, IceMatrixRoutes
  <2> QED
    BY <2>2 DEF ChunkMatrix
<1>8. ASSUME NEW c \in K
      PROVE  in[c] = {t \in R : part[t] = c}
  <2>1. ChunkIce(e, c) \subseteq e.fgice
    BY <1>2
  <2>2. in[c] = {t \in R : t[1][1][1] \in ChunkIce(e, c)}
    BY <2>1, RoutesOfPart
  <2>3. \A t \in R : t[1][1][1] \in ChunkIce(e, c) <=> part[t] = c
    BY <1>2, <1>5
  <2> HIDE DEF in, part, R
  <2> QED
    BY <2>2, <2>3
<1>9. \A t \in R : part[t] \in K
  BY <1>2, <1>5
<1> HIDE DEF in, part, R
<1>10. CutInto(R, K, part, in)
  BY <1>8, <1>9 DEF CutInto
<1>11. IsFiniteSet(K)
  BY ChunksIn
<1> HIDE DEF K
<1> DEFINE m == ChunkMatrix(e, name)
<1>12. \A c \in K : m[c] = Weighed(in[c])
  BY <1>7
<1> HIDE DEF m
<1>13. LET gM  == [c \in K |-> m[c].M]
           gwM == [c \in K |-> m[c].wM]
           gMw == [c \in K |-> m[c].Mw]
       IN  /\ NumbersIn(gM, K) /\ NumbersIn(gwM, K) /\ NumbersIn(gMw, K)
           /\ Weighed(R) = [M |-> PlusSum(gM, K), wM |-> PlusSum(gwM, K),
                            Mw |-> PlusSum(gMw, K)]
  BY <1>5, <1>10, <1>11, <1>12, WeighedParts
<1> QED
  BY <1>6, <1>13 DEF m, K

-----------------------------------------------------------------------------
(* combine_chunks() *)

\* The fold over the files adds up the functions g of the files of S.
FilesFrom(files, name, k, S, h) ==
    h = [s \in SUBSET S |->
            IF s = {} THEN <<>>
            ELSE Plus(h[s \ {First(s)}], files[First(s)].matrices[CombinedName(name)][k])]

FilesFolded(files, name, k, S) == (CHOOSE h : FilesFrom(files, name, k, S, h))[S]

(* Adding up one part of one matrix over the chunk files is a sum of functions. *)
LEMMA FilesFold ==
    ASSUME NEW S, IsFiniteSet(S), NEW files, NEW name, NEW k,
           NEW g, \A c \in S : g[c] = files[c].matrices[CombinedName(name)][k], NumbersIn(g, S)
    PROVE  FilesFolded(files, name, k, S) = PlusSum(g, S)
<1>2. ASSUME NEW h
      PROVE  FilesFrom(files, name, k, S, h) <=> PlusFrom(g, S, h)
  <2>1. \A s \in SUBSET S :
            s # {} => g[First(s)] = files[First(s)].matrices[CombinedName(name)][k]
    BY FirstIn
  <2>2. [s \in SUBSET S |->
            IF s = {} THEN <<>>
            ELSE Plus(h[s \ {First(s)}], files[First(s)].matrices[CombinedName(name)][k])]
        = [s \in SUBSET S |->
            IF s = {} THEN <<>> ELSE Plus(h[s \ {First(s)}], g[First(s)])]
    BY <2>1
  <2> QED
    BY <2>2 DEF FilesFrom, PlusFrom
<1>3. (CHOOSE h : FilesFrom(files, name, k, S, h)) = (CHOOSE h : PlusFrom(g, S, h))
  BY <1>2
<1>4. FoldSet(LAMBDA c, sum : Plus(sum, g[c]), <<>>, S) = (CHOOSE h : PlusFrom(g, S, h))[S]
  BY PlusFoldDef
<1>5. FoldSet(LAMBDA c, sum : Plus(sum, g[c]), <<>>, S) = PlusSum(g, S)
  BY PlusFold
<1> QED
  BY <1>3, <1>4, <1>5 DEF FilesFolded

(* What the combiner makes of a matrix: M, wM and Mw, each added up over the chunk files. *)
LEMMA CombineChunksSums ==
    ASSUME NEW S, IsFiniteSet(S), NEW files, DOMAIN files = S, NEW name,
           NEW gM, NumbersIn(gM, S), NEW gwM, NumbersIn(gwM, S), NEW gMw, NumbersIn(gMw, S),
           \A c \in S : LET file == files[c].matrices[CombinedName(name)]
                       IN  gM[c] = file.M /\ gwM[c] = file.wM /\ gMw[c] = file.Mw
    PROVE  CombineChunks(files, name)
           = [M |-> PlusSum(gM, S), wM |-> PlusSum(gwM, S), Mw |-> PlusSum(gMw, S)]
<1>1. /\ \A c \in S : gM[c] = files[c].matrices[CombinedName(name)]["M"]
      /\ \A c \in S : gwM[c] = files[c].matrices[CombinedName(name)]["wM"]
      /\ \A c \in S : gMw[c] = files[c].matrices[CombinedName(name)]["Mw"]
  OBVIOUS
<1>2. FoldSet(LAMBDA c, sum : Plus(sum, files[c].matrices[CombinedName(name)]["M"]), <<>>, S)
      = PlusSum(gM, S)
  <2>1. FilesFolded(files, name, "M", S) = PlusSum(gM, S)
    BY <1>1, FilesFold
  <2> QED
    BY <2>1 DEF FoldSet, MapThenFoldSet, FilesFolded, FilesFrom, First
<1>3. FoldSet(LAMBDA c, sum : Plus(sum, files[c].matrices[CombinedName(name)]["wM"]), <<>>, S)
      = PlusSum(gwM, S)
  <2>1. FilesFolded(files, name, "wM", S) = PlusSum(gwM, S)
    BY <1>1, FilesFold
  <2> QED
    BY <2>1 DEF FoldSet, MapThenFoldSet, FilesFolded, FilesFrom, First
<1>4. FoldSet(LAMBDA c, sum : Plus(sum, files[c].matrices[CombinedName(name)]["Mw"]), <<>>, S)
      = PlusSum(gMw, S)
  <2>1. FilesFolded(files, name, "Mw", S) = PlusSum(gMw, S)
    BY <1>1, FilesFold
  <2> QED
    BY <2>1 DEF FoldSet, MapThenFoldSet, FilesFolded, FilesFrom, First
<1> QED
  BY <1>2, <1>3, <1>4 DEF CombineChunks

\* A matrix that the combiner finds in a chunk's file is the one of that name.
LEMMA SectionHas ==
    ASSUME NEW e, NEW c, NEW n, NEW name \in Range(MatrixNames),
           CombinedName(name) \in DOMAIN Section(e, c, n)
    PROVE  Section(e, c, n)[CombinedName(name)]
           = IceMatrix(name, ElevmaskOf(e, ChunkIce(e, c)), Hcdefs(e))
<1>1. name \in Names /\ Generated(n) \subseteq Names
  BY NamesMade
<1>2. \A g \in Names : FileName[g] = CombinedName(name) => g = name
  <2> SUFFICES ASSUME NEW g \in Names, FileName[g] = CombinedName(name)
               PROVE  g = name
    OBVIOUS
  <2>1. CASE GridOption = "ocean"
    BY <1>1, <2>1 DEF FileName, CombinedName, Names
  <2>2. CASE GridOption # "ocean"
    BY <1>1, <2>2 DEF FileName, CombinedName, Names
  <2> QED
    BY <2>1, <2>2
<1> DEFINE nm == CombinedName(name)
<1>3. nm \in {FileName[g] : g \in Generated(n)}
  BY DEF Section
<1>4. \E g \in Generated(n) : FileName[g] = nm
  BY <1>3
<1>5. (CHOOSE g \in Generated(n) : FileName[g] = nm) = name
  <2> DEFINE g == CHOOSE g \in Generated(n) : FileName[g] = nm
  <2>1. g \in Generated(n) /\ FileName[g] = nm
    BY <1>4
  <2> HIDE DEF g
  <2> QED
    BY <1>1, <1>2, <2>1 DEF g
<1>6. Section(e, c, n)[nm]
      = IceMatrix(CHOOSE g \in Generated(n) : FileName[g] = nm,
                  ElevmaskOf(e, ChunkIce(e, c)), Hcdefs(e))
  <2> HIDE DEF nm
  <2> QED
    BY <1>3 DEF Section
<1> QED
  BY <1>5, <1>6

-----------------------------------------------------------------------------
(* The inductive invariant *)

\* The input is one of the pairs of raw files.
InputOK ==
    /\ input.raw \in RawTopo([Fine -> {LAND, OCEAN, GREENLAND_VAL}], [Fine -> Int],
                             [Fine -> Int], [OCells -> 0..Unit])
    /\ input.lakes \in [OCells -> 0..Unit]
    /\ input.greenland \in BOOLEAN

\* A chunk's file has the matrices that the chunk has now, complete or cut short:
\* neither the ice nor the classes changed since it was written.
FilesCurrent ==
    \A c \in DOMAIN chunkfile :
        /\ ~SectionFails(etopo1, c)
        /\ \E n \in 0..Len(MatrixOrder) : chunkfile[c].matrices = Section(etopo1, c, n)

\* The makefile is that of the ice; nothing is made before the ice is there.
PlanCurrent ==
    /\ etopo1 = None => mk = None /\ chunkfile = <<>>
    /\ mk # None => /\ mk = Chunks(etopo1)
                    /\ uptodate \subseteq mk /\ uptodate \subseteq DOMAIN chunkfile

ECInv ==
    /\ InputOK
    /\ etopo1 # None => IceFile(etopo1)
    /\ PlanCurrent
    /\ FilesCurrent

\* What etopo1_ice() writes is ice on the fine grid and elevations.
LEMMA Etopo1IceFile ==
    ASSUME InputOK
    PROVE  IceFile(Etopo1Ice(input.raw, input.greenland))
<1> DEFINE raw == input.raw
           e == Etopo1Ice(raw, input.greenland)
<1>1. raw.ztop \in [Fine -> Int]
  BY DEF InputOK, RawTopo
<1>2. e.fgice \subseteq Fine
  <2>1. IceOfETOPO1(raw, input.greenland) \subseteq Fine
    BY DEF IceOfETOPO1
  <2>2. \A o \in NorthernBoxes : Downscaled(raw, o) \subseteq Fine
    <3> SUFFICES ASSUME NEW o \in NorthernBoxes, NEW f \in Downscaled(raw, o)
                 PROVE  f \in Fine
      OBVIOUS
    <3>1. o \in OCells /\ f \in FineOf(o)
      BY DEF NorthernBoxes, Downscaled, SnowCells
    <3> QED
      BY <3>1 DEF FineOf, OCells, Fine
  <2>3. e.fgice = IceOfETOPO1(raw, input.greenland) \cup UNION {Downscaled(raw, o) : o \in NorthernBoxes}
    BY DEF Etopo1Ice
  <2> HIDE DEF raw, e
  <2> QED
    BY <2>1, <2>2, <2>3
<1>3. e.ztop \in [Fine -> Int]
  BY <1>1 DEF Etopo1Ice
<1> QED
  BY <1>2, <1>3 DEF IceFile

(* The invariant ECInv holds at the start. *)
LEMMA ECInit == Init => ECInv
<1> SUFFICES ASSUME Init PROVE ECInv
  OBVIOUS
<1>1. PICK r \in RawInputs, g \in BOOLEAN : input = [raw |-> r[1], lakes |-> r[2], greenland |-> g]
  BY DEF Init
<1>2. InputOK
  BY <1>1, RawInputsAssumption DEF InputOK
<1> QED
  BY <1>2 DEF Init, ECInv, PlanCurrent, FilesCurrent

\* Only four steps change the files of the elevation classes.
LEMMA ECSteps ==
    ASSUME [Next]_vars
    PROVE  \/ Etopo1
           \/ PlanChunks
           \/ mk # None /\ \E c \in mk : RunChunk(c) \/ CrashChunk(c)
           \/ Combine
           \/ UNCHANGED <<input, etopo1, mk, chunkfile, uptodate, ec, crashes>>
BY DEF Next, NextEC, MakeTopoO, MakeMergedTopoO, MakeTopoa, vars

(* Writing one chunk file, whatever dimensions it ends up with, keeps ECInv. *)
LEMMA StoreKeeps ==
    ASSUME ECInv, NEW c, mk # None, c \in mk, ~SectionFails(etopo1, c),
           NEW n \in 0..Len(MatrixOrder), NEW dims, StoreChunk(c, n, dims),
           UNCHANGED <<input, etopo1, mk>>
    PROVE  ECInv'
<1>1. DOMAIN chunkfile' = DOMAIN chunkfile \cup {c} /\ uptodate' = uptodate \cup {c}
  BY DEF StoreChunk
<1>2. FilesCurrent'
  <2> SUFFICES ASSUME NEW d \in DOMAIN chunkfile'
               PROVE  /\ ~SectionFails(etopo1', d)
                      /\ \E k \in 0..Len(MatrixOrder) :
                             chunkfile'[d].matrices = Section(etopo1', d, k)
    BY DEF FilesCurrent
  <2>1. CASE d = c
    <3>1. chunkfile'[d] = [matrices |-> Section(etopo1, c, n), dims |-> dims]
      BY <1>1, <2>1 DEF StoreChunk
    <3> QED
      BY <2>1, <3>1
  <2>2. CASE d # c
    <3>1. d \in DOMAIN chunkfile /\ chunkfile'[d] = chunkfile[d]
      BY <1>1, <2>2 DEF StoreChunk
    <3> QED
      BY <3>1 DEF ECInv, FilesCurrent
  <2> QED
    BY <2>1, <2>2
<1>3. PlanCurrent'
  BY <1>1 DEF ECInv, PlanCurrent
<1> QED
  BY <1>2, <1>3 DEF ECInv, InputOK

(* Every step of the tools keeps ECInv, crashes and reruns included. *)
LEMMA ECKept == ECInv /\ [Next]_vars => ECInv'
<1> SUFFICES ASSUME ECInv, [Next]_vars PROVE ECInv'
  OBVIOUS
<1>1. CASE Etopo1
  <2>1. IceFile(etopo1') /\ input' = input /\ mk' = mk /\ chunkfile' = chunkfile /\ uptodate' = uptodate
    BY <1>1, Etopo1IceFile DEF Etopo1, ECInv
  <2>2. mk = None /\ chunkfile = <<>>
    BY <1>1 DEF Etopo1, ECInv, PlanCurrent
  <2>3. DOMAIN chunkfile' = {}
    BY <2>1, <2>2
  <2> QED
    BY <2>1, <2>2, <2>3 DEF ECInv, InputOK, PlanCurrent, FilesCurrent
<1>2. CASE PlanChunks
  BY <1>2 DEF PlanChunks, ECInv, InputOK, PlanCurrent, FilesCurrent
<1>3. CASE mk # None /\ \E c \in mk : RunChunk(c) \/ CrashChunk(c)
  <2>1. PICK c \in mk : RunChunk(c) \/ CrashChunk(c)
    BY <1>3
  <2>2. UNCHANGED <<input, etopo1, mk>>
    BY <2>1 DEF RunChunk, CrashChunk
  <2>3. CASE SectionFails(etopo1, c)
    <3>1. UNCHANGED <<chunkfile, uptodate>>
      BY <2>1, <2>3 DEF RunChunk, CrashChunk
    <3> QED
      BY <2>2, <3>1 DEF ECInv, InputOK, PlanCurrent, FilesCurrent
  <2>4. CASE ~SectionFails(etopo1, c)
    <3>1. Len(MatrixOrder) \in 0..Len(MatrixOrder)
      BY DEF MatrixOrder
    <3>2. \E n \in 0..Len(MatrixOrder), dims \in BOOLEAN : StoreChunk(c, n, dims)
      BY <2>1, <2>4, <3>1 DEF RunChunk, CrashChunk
    <3> QED
      BY <1>3, <2>2, <2>4, <3>2, StoreKeeps
  <2> QED
    BY <2>3, <2>4
<1>4. CASE Combine
  BY <1>4 DEF Combine, ECInv, InputOK, PlanCurrent, FilesCurrent
<1>5. CASE UNCHANGED <<input, etopo1, mk, chunkfile, uptodate, ec, crashes>>
  BY <1>5 DEF ECInv, InputOK, PlanCurrent, FilesCurrent
<1> QED
  BY <1>1, <1>2, <1>3, <1>4, <1>5, ECSteps

\* The invariant holds in every state.
THEOREM ECInvariant == Spec => []ECInv
BY ECInit, ECKept, PTL DEF Spec

-----------------------------------------------------------------------------
(* Type correctness *)

\* The files of the elevation classes hold what their readers expect, however many
\* processes are killed and whatever is planned anew.
THEOREM TypeCorrect == Spec => []TypeOK
<1>1. Init => TypeOK
  <2> SUFFICES ASSUME Init PROVE TypeOK
    OBVIOUS
  <2>1. crashes \in 0..MaxCrashes
    BY MaxCrashesAssumption DEF Init
  <2>2. failed \in BOOLEAN /\ etopo1 = None /\ mk = None /\ ec = None
    BY DEF Init
  <2> QED
    BY <2>1, <2>2 DEF TypeOK
<1>2. ECInv /\ TypeOK /\ [Next]_vars => TypeOK'
  <2> SUFFICES ASSUME ECInv, TypeOK, [Next]_vars PROVE TypeOK'
    OBVIOUS
  <2>1. ECInv'
    BY ECKept
  <2>2. crashes' \in 0..MaxCrashes
    <3>1. crashes \in 0..MaxCrashes
      BY DEF TypeOK
    <3>2. crashes' = crashes \/ (crashes < MaxCrashes /\ crashes' = crashes + 1)
      BY DEF Next, NextEC, Etopo1, PlanChunks, RunChunk, CrashChunk, Combine, MakeTopoO,
             MakeMergedTopoO, MakeTopoa, vars
    <3> QED
      BY <3>1, <3>2, MaxCrashesAssumption
  <2>3. failed' \in BOOLEAN
    BY DEF TypeOK, Next, NextEC, Etopo1, PlanChunks, RunChunk, CrashChunk, Combine, MakeTopoO,
           MakeMergedTopoO, MakeTopoa, vars
  <2>4. mk' # None => \A c \in mk' : c[1] \in Positions /\ c[2] \in (c[1] + 1)..(IM * JM + 1)
    BY <2>1, ChunksIn DEF ECInv, PlanCurrent
  <2>5. ec' # None => DOMAIN ec' \subseteq {CombinedName(m) : m \in Range(MatrixNames)}
    <3>1. CASE ec' = ec
      BY <3>1 DEF TypeOK
    <3>2. CASE ec' # ec
      <4>1. Combine
        BY <3>2, ECSteps DEF Etopo1, PlanChunks, RunChunk, CrashChunk
      <4>2. PICK n \in 1..Len(MatrixNames) : ec' = CombinedFiles(Restrict(chunkfile, mk), n)
        <5>1. Len(MatrixNames) \in 1..Len(MatrixNames)
              /\ \A n \in 1..(Len(MatrixNames) - 1) : n \in 1..Len(MatrixNames)
          BY NamesMade
        <5> QED
          BY <4>1, <5>1 DEF Combine
      <4>3. DOMAIN ec' = {CombinedName(MatrixNames[k]) : k \in 1..n}
        BY <4>2 DEF CombinedFiles
      <4>4. \A k \in 1..n : MatrixNames[k] \in Range(MatrixNames)
        BY <4>2, NamesMade DEF Range
      <4> QED
        BY <4>3, <4>4
    <3> QED
      BY <3>1, <3>2
  <2> QED
    BY <2>1, <2>2, <2>3, <2>4, <2>5 DEF TypeOK, ECInv, PlanCurrent, IceFile
<1> QED
  BY <1>1, <1>2, ECInvariant, PTL DEF Spec

-----------------------------------------------------------------------------
(* Refinement *)

\* What the combiner makes of the files of all the chunks is the matrix of all the
\* ice.
LEMMA CombinedIsWhole ==
    ASSUME ECInv, mk # None, uptodate = mk, NEW name \in Range(MatrixNames),
           CanCombine(Restrict(chunkfile, mk))
    PROVE  CombineChunks(Restrict(chunkfile, mk), name)
           = IceMatrix(name, ElevmaskOf(etopo1, etopo1.fgice), Hcdefs(etopo1))
<1> DEFINE files == Restrict(chunkfile, mk)
           m == ChunkMatrix(etopo1, name)
           K == Chunks(etopo1)
<1>1. mk = K /\ K \subseteq DOMAIN chunkfile /\ IceFile(etopo1)
  BY DEF ECInv, PlanCurrent
<1>2. DOMAIN files = K /\ \A c \in K : files[c] = chunkfile[c]
  BY <1>1 DEF Restrict
<1>3. \A c \in K : ~SectionFails(etopo1, c)
  BY <1>1 DEF ECInv, FilesCurrent
<1>4. ASSUME NEW c \in K
      PROVE  files[c].matrices[CombinedName(name)] = m[c]
  <2>1. PICK n \in 0..Len(MatrixOrder) : chunkfile[c].matrices = Section(etopo1, c, n)
    BY <1>1 DEF ECInv, FilesCurrent
  <2>2. PICK k \in DOMAIN MatrixNames : name = MatrixNames[k]
    BY DEF Range
  <2>3. CombinedName(name) \in DOMAIN files[c].matrices
    BY <1>2, <2>2 DEF CanCombine, Combinable
  <2> HIDE DEF files
  <2>4. files[c].matrices = Section(etopo1, c, n)
    BY <1>2, <2>1
  <2> QED
    BY <2>3, <2>4, SectionHas DEF ChunkMatrix
<1>5. LET gM  == [c \in K |-> m[c].M]
          gwM == [c \in K |-> m[c].wM]
          gMw == [c \in K |-> m[c].Mw]
      IN  /\ NumbersIn(gM, K) /\ NumbersIn(gwM, K) /\ NumbersIn(gMw, K)
          /\ IceMatrix(name, ElevmaskOf(etopo1, etopo1.fgice), Hcdefs(etopo1))
             = [M |-> PlusSum(gM, K), wM |-> PlusSum(gwM, K), Mw |-> PlusSum(gMw, K)]
  BY <1>1, <1>3, ChunkMatricesAddUp
<1>6. IsFiniteSet(K)
  BY ChunksIn
<1> HIDE DEF files, m, K
<1> DEFINE gM  == [c \in K |-> m[c].M]
           gwM == [c \in K |-> m[c].wM]
           gMw == [c \in K |-> m[c].Mw]
<1>7. /\ \A c \in K : gM[c] = m[c].M /\ gwM[c] = m[c].wM /\ gMw[c] = m[c].Mw
      /\ NumbersIn(gM, K) /\ NumbersIn(gwM, K) /\ NumbersIn(gMw, K)
      /\ IceMatrix(name, ElevmaskOf(etopo1, etopo1.fgice), Hcdefs(etopo1))
         = [M |-> PlusSum(gM, K), wM |-> PlusSum(gwM, K), Mw |-> PlusSum(gMw, K)]
  BY <1>5
<1> HIDE DEF gM, gwM, gMw
<1>8. \A c \in K : LET file == files[c].matrices[CombinedName(name)]
                  IN  gM[c] = file.M /\ gwM[c] = file.wM /\ gMw[c] = file.Mw
  BY <1>4, <1>7
<1>9. CombineChunks(files, name)
      = [M |-> PlusSum(gM, K), wM |-> PlusSum(gwM, K), Mw |-> PlusSum(gMw, K)]
  BY <1>2, <1>6, <1>7, <1>8, CombineChunksSums
<1> QED
  BY <1>7, <1>9 DEF files

(* A step of the combiner writes one of the outcomes that one chunk over the whole globe
   would give for the ice file the chunks were made from. *)
LEMMA CombineStep ==
    ASSUME ECInv, Combine
    PROVE  etopo1 # None /\ ec = None /\ etopo1' = etopo1 /\ ec' \in WholeOutcomes(etopo1)
<1> DEFINE files == Restrict(chunkfile, mk)
<1>1. /\ mk # None /\ uptodate = mk /\ ec = None /\ CanCombine(files)
      /\ etopo1 # None /\ etopo1' = etopo1
  BY DEF Combine, ECInv, PlanCurrent
<1>2. PICK n \in 1..Len(MatrixNames) : ec' = CombinedFiles(files, n)
  <2>1. Len(MatrixNames) \in 1..Len(MatrixNames)
        /\ \A n \in 1..(Len(MatrixNames) - 1) : n \in 1..Len(MatrixNames)
    BY NamesMade
  <2> QED
    BY <2>1 DEF Combine
<1> DEFINE D == {CombinedName(MatrixNames[k]) : k \in 1..n}
           name(d) == CHOOSE g \in Range(MatrixNames) : CombinedName(g) = d
           whole == [d \in D |-> IceMatrix(name(d), ElevmaskOf(etopo1, etopo1.fgice), Hcdefs(etopo1))]
<1>3. \A d \in D : name(d) \in Range(MatrixNames)
  <2> SUFFICES ASSUME NEW d \in D PROVE name(d) \in Range(MatrixNames)
    OBVIOUS
  <2>1. PICK k \in 1..n : d = CombinedName(MatrixNames[k])
    OBVIOUS
  <2>2. MatrixNames[k] \in Range(MatrixNames)
    BY NamesMade DEF Range
  <2>3. \E g \in Range(MatrixNames) : CombinedName(g) = d
    BY <2>1, <2>2
  <2> HIDE DEF D
  <2> QED
    BY <2>3
<1>4. ec' = [d \in D |-> CombineChunks(files, name(d))]
  BY <1>2 DEF CombinedFiles
<1>5. ASSUME NEW d \in D
      PROVE  CombineChunks(files, name(d))
             = IceMatrix(name(d), ElevmaskOf(etopo1, etopo1.fgice), Hcdefs(etopo1))
  <2>1. name(d) \in Range(MatrixNames)
    BY <1>3
  <2> HIDE DEF name, D
  <2> QED
    BY <1>1, <2>1, CombinedIsWhole
<1>6. ec' = whole
  <2> HIDE DEF name, D, files
  <2> QED
    BY <1>4, <1>5
<1>7. whole \in WholeOutcomes(etopo1)
  BY DEF WholeOutcomes
<1> QED
  BY <1>1, <1>6, <1>7

\* Every step of the programs is a step of WholeEC or a stutter.
THEOREM WholeImplemented == Spec => ImplementsWhole
<1>1. Init => Whole!Init
  BY DEF Init, Whole!Init
<1>2. ECInv /\ [Next]_vars => [Whole!Next]_<<etopo1, ec>>
  <2> SUFFICES ASSUME ECInv, [Next]_vars
               PROVE  Whole!Next \/ UNCHANGED <<etopo1, ec>>
    OBVIOUS
  <2>1. CASE Etopo1
    <3>1. etopo1 = None /\ ec' = ec
      BY <2>1 DEF Etopo1
    <3> QED
      BY <3>1 DEF Whole!Next, Whole!Prepare
  <2>2. CASE Combine
    <3>1. etopo1 # None /\ ec = None /\ etopo1' = etopo1 /\ ec' \in WholeOutcomes(etopo1)
      BY <2>2, CombineStep
    <3> QED
      BY <3>1 DEF Whole!Next, Whole!Combine
  <2>3. CASE UNCHANGED <<etopo1, ec>>
    BY <2>3
  <2> QED
    BY <2>1, <2>2, <2>3, ECSteps DEF PlanChunks, RunChunk, CrashChunk
<1> QED
  BY <1>1, <1>2, ECInvariant, PTL DEF Spec, ImplementsWhole, Whole!Spec

-----------------------------------------------------------------------------
(* The classes span the ice *)

\* Where there is ice, the classes are ECSkip apart, from below the lowest of the
\* ice to above the highest.
LEMMA HcdefsSpan ==
    ASSUME NEW e, IceFile(e), e.fgice # {}
    PROVE  LET hc == Hcdefs(e)
           IN  /\ Len(hc) \in Nat \ {0}
               /\ \A h \in 1..Len(hc) : hc[h] = hc[1] + (h - 1) * ECSkip
               /\ \A f \in e.fgice : hc[1] <= e.ztop[f] /\ e.ztop[f] <= hc[Len(hc)]
<1> DEFINE hc == Hcdefs(e)
           z == {e.ztop[f] : f \in e.fgice}
           lo == Min(z)
           hi == Max(z)
           a == lo \div ECSkip
           b == (hi + ECSkip - 1) \div ECSkip
<1>1. ECSkip \in Nat \ {0}
  BY GlobalECAssumption
<1>2. lo \in Int /\ hi \in Int /\ lo <= hi /\ \A f \in e.fgice : lo <= e.ztop[f] /\ e.ztop[f] <= hi
  <2>1. IsFiniteSet(e.fgice)
    BY IceFinite, FS_Subset DEF IceFile
  <2>2. IsFiniteSet(z)
    BY <2>1, ImageFinite
  <2>3. z \in SUBSET Int /\ z # {} /\ \A f \in e.fgice : e.ztop[f] \in z
    BY DEF IceFile
  <2> HIDE DEF z
  <2>4. lo \in z /\ hi \in z /\ \A y \in z : lo <= y /\ y <= hi
    BY <2>2, <2>3, MinMaxIn
  <2> QED
    BY <2>3, <2>4
<1>3. ECRange(e) = <<ECSkip * a, ECSkip * b>>
  BY DEF ECRange
<1> HIDE DEF z, lo, hi
<1>4. a \in Int /\ ECSkip * a \in Int /\ ECSkip * a <= lo
  <2>1. a \in Int /\ lo % ECSkip \in 0..(ECSkip - 1) /\ lo = ECSkip * a + (lo % ECSkip)
    BY <1>1, <1>2, DivModInt
  <2> HIDE DEF a
  <2>2. ECSkip * a \in Int
    BY <1>1, <2>1
  <2> QED
    BY <1>1, <1>2, <2>1, <2>2
<1>5. b \in Int /\ ECSkip * b \in Int /\ hi <= ECSkip * b
  <2> DEFINE u == hi + ECSkip - 1
  <2>1. u \in Int
    BY <1>1, <1>2
  <2>2. b \in Int /\ u % ECSkip \in 0..(ECSkip - 1) /\ u = ECSkip * b + (u % ECSkip)
    BY <1>1, <2>1, DivModInt
  <2> HIDE DEF b
  <2>3. ECSkip * b \in Int
    BY <1>1, <2>2
  <2>4. u % ECSkip \in Int /\ u % ECSkip <= ECSkip - 1 /\ hi + ECSkip - 1 = ECSkip * b + (u % ECSkip)
    BY <1>1, <2>2
  <2> QED
    BY <1>1, <1>2, <2>2, <2>3, <2>4
<1> HIDE DEF a, b
<1>6. ECSkip * a <= ECSkip * b /\ a <= b
  <2>1. ECSkip * a <= ECSkip * b
    BY <1>2, <1>4, <1>5
  <2> QED
    BY <1>1, <1>4, <1>5, <2>1, MultOrder
<1> DEFINE n == b - a + 1
<1>7. (ECSkip * b - ECSkip * a) \div ECSkip = b - a
  <2> DEFINE d == b - a
  <2>1. d \in Nat /\ b = a + d
    BY <1>4, <1>5, <1>6
  <2> HIDE DEF d
  <2>2. ECSkip * b - ECSkip * a = ECSkip * d + 0
    BY <1>1, <1>4, <2>1
  <2>3. (ECSkip * d + 0) \div ECSkip = d
    BY <1>1, <2>1, DivUnique
  <2> QED
    BY <2>2, <2>3 DEF d
<1>8. hc = [h \in 1..n |-> ECSkip * a + (h - 1) * ECSkip]
  BY <1>3, <1>4, <1>5, <1>6, <1>7 DEF Hcdefs
<1>9. n \in Nat \ {0} /\ Len(hc) = n
  <2>1. n \in Nat \ {0}
    BY <1>4, <1>5, <1>6
  <2> HIDE DEF n, hc
  <2> QED
    BY <1>8, <2>1
<1>10. hc[1] = ECSkip * a /\ \A h \in 1..n : hc[h] = hc[1] + (h - 1) * ECSkip
  <2>1. \A h \in 1..n : hc[h] = ECSkip * a + (h - 1) * ECSkip
    BY <1>8
  <2>2. 1 \in 1..n /\ (1 - 1) * ECSkip = 0
    BY <1>1, <1>9
  <2> HIDE DEF n, hc
  <2>3. hc[1] = ECSkip * a + (1 - 1) * ECSkip
    BY <2>1, <2>2
  <2>4. hc[1] = ECSkip * a
    BY <1>4, <2>2, <2>3
  <2> QED
    BY <2>1, <2>4
<1>11. hc[n] = ECSkip * b
  <2> DEFINE d == b - a
  <2>1. d \in Int /\ b = a + d /\ n - 1 = d /\ n \in 1..n
    BY <1>4, <1>5, <1>9
  <2>2. hc[n] = ECSkip * a + (n - 1) * ECSkip
    BY <1>10, <2>1
  <2> HIDE DEF d, n, hc
  <2>3. (n - 1) * ECSkip = ECSkip * d
    BY <1>1, <2>1
  <2>4. ECSkip * b = ECSkip * a + ECSkip * d
    BY <1>1, <1>4, <2>1
  <2> QED
    BY <2>2, <2>3, <2>4
<1>12. \A f \in e.fgice : ECSkip * a <= e.ztop[f] /\ e.ztop[f] <= ECSkip * b
  <2>1. \A f \in e.fgice : e.ztop[f] \in Int
    BY DEF IceFile
  <2> QED
    BY <1>2, <1>4, <1>5, <2>1
<1> HIDE DEF n, hc
<1> QED
  BY <1>9, <1>10, <1>11, <1>12 DEF hc

\* The ice of a file gives two classes or more, the highest not below the sea.
Relief(e) ==
    e.fgice # {} => /\ Len(Hcdefs(e)) >= 2
                    /\ Hcdefs(e)[Len(Hcdefs(e))] >= 0

\* The elevation at which the classes of a cell are interpolated
LevelOf(e, f) == Max({e.ztop[f], 0})

(* The level of a fine ice cell, its top or the sea, is an integer not below its top. *)
LEMMA LevelIn ==
    ASSUME NEW e, IceFile(e), NEW f \in e.fgice
    PROVE  /\ e.ztop[f] \in Int /\ LevelOf(e, f) \in Int
           /\ LevelOf(e, f) >= e.ztop[f] /\ LevelOf(e, f) \in {e.ztop[f], 0}
<1> DEFINE z == e.ztop[f]
<1>1. z \in Int
  BY DEF IceFile
<1> HIDE DEF z
<1>2. {z, 0} \in SUBSET Int /\ {z, 0} # {}
  BY <1>1
<1>3. \E b \in Int : \A y \in {z, 0} : y <= b
  <2>1. CASE z <= 0
    BY <1>1, <2>1
  <2>2. CASE ~(z <= 0)
    <3>1. z \in Int /\ z <= z /\ 0 <= z
      BY <1>1, <2>2
    <3> QED
      BY <3>1
  <2> QED
    BY <2>1, <2>2
<1>4. Max({z, 0}) \in {z, 0} /\ \A y \in {z, 0} : y <= Max({z, 0})
  BY <1>2, <1>3, MaxBounded
<1>5. LevelOf(e, f) = Max({z, 0})
  BY DEF LevelOf, z
<1>6. LevelOf(e, f) \in {z, 0} /\ z <= LevelOf(e, f) /\ LevelOf(e, f) \in Int
  BY <1>1, <1>4, <1>5
<1> QED
  BY <1>1, <1>6 DEF z

\* Within the classes, every elevation is found and no weight is negative.
LEMMA InterpolatedNat ==
    ASSUME NEW hc, Elevations(hc), Len(hc) >= 2, NEW z \in Int,
           hc[1] <= z, z <= hc[Len(hc)],
           \A h \in 1..Len(hc) : hc[h] = hc[1] + (h - 1) * ECSkip
    PROVE  /\ ~OutOfBounds(hc, z)
           /\ \A h \in DOMAIN Interpolated(hc, z) : Interpolated(hc, z)[h] \in Nat
<1> DEFINE L == {h \in DOMAIN hc : hc[h] >= z} \cup {Len(hc) + 1}
           n == Len(hc)
           b == LowerBound(hc, z)
<1>1. ECSkip \in Nat \ {0}
  BY GlobalECAssumption
<1>2. n \in Nat /\ n >= 2 /\ DOMAIN hc = 1..n /\ \A h \in 1..n : hc[h] \in Int
  BY DEF Elevations
<1>3. b \in L /\ \A h \in L : b <= h
  <2>1. L \in SUBSET Int /\ L # {} /\ \A h \in L : 1 <= h
    BY <1>2
  <2>2. b = Min(L)
    BY DEF LowerBound
  <2> HIDE DEF L, b
  <2> QED
    BY <2>1, <2>2, MinBounded
<1>4. n \in L
  <2>1. n \in 1..n /\ hc[n] \in Int /\ hc[n] >= z
    BY <1>2
  <2> QED
    BY <1>2, <2>1
<1>5. b \in 1..n /\ hc[b] >= z /\ \A h \in 1..n : h < b => hc[h] < z
  <2>1. b \in 1..n
    <3> HIDE DEF b
    <3>1. \A k \in L : k \in 1..(n + 1)
      BY <1>2
    <3>2. b <= n
      BY <1>3, <1>4
    <3>3. b \in 1..(n + 1)
      BY <1>3, <3>1
    <3> QED
      BY <1>2, <3>2, <3>3
  <2>2. hc[b] >= z
    <3> HIDE DEF b
    <3>1. b # n + 1
      BY <1>2, <2>1
    <3> QED
      BY <1>2, <1>3, <3>1
  <2>3. ASSUME NEW h \in 1..n, h < b PROVE hc[h] < z
    <3> HIDE DEF b
    <3>1. h \notin L
      BY <1>2, <1>3, <2>1, <2>3
    <3>2. ~(hc[h] >= z)
      BY <1>2, <3>1
    <3> QED
      BY <1>2, <3>2
  <2> QED
    BY <2>1, <2>2, <2>3
<1>6. ~OutOfBounds(hc, z)
  BY <1>2, <1>5 DEF OutOfBounds
<1> DEFINE h == Max({b, 2})
<1>7. h \in 2..n /\ (b = 1 => h = 2) /\ (b # 1 => h = b)
  <2> HIDE DEF b, n
  <2>1. {b, 2} \in SUBSET Int /\ {b, 2} # {} /\ \A y \in {b, 2} : y <= n
    BY <1>2, <1>5
  <2>2. n \in Int
    BY <1>2
  <2>3. Max({b, 2}) \in {b, 2} /\ \A y \in {b, 2} : y <= Max({b, 2})
    BY <2>1, <2>2, MaxBounded
  <2> QED
    BY <1>2, <1>5, <2>3
<1> DEFINE ratio == z - hc[h - 1]
           low == Spacing(hc) - ratio
           w == [k \in {h - 1, h} |-> IF k = h THEN ratio ELSE low]
<1>8. Interpolated(hc, z) = Restrict(w, {k \in DOMAIN w : w[k] # 0})
  BY DEF Interpolated
<1> HIDE DEF h, b, L, n
<1>9. h - 1 \in 1..n /\ h \in 1..n /\ 1 \in 1..n /\ 2 \in 1..n
  BY <1>2, <1>7
<1>10. hc[h - 1] \in Int /\ hc[h] \in Int /\ hc[1] \in Int /\ hc[2] \in Int
  BY <1>2, <1>9
<1>11. hc[h] = hc[h - 1] + ECSkip /\ Spacing(hc) = ECSkip
  <2>1. hc[h] = hc[1] + (h - 1) * ECSkip /\ hc[h - 1] = hc[1] + (h - 2) * ECSkip
        /\ hc[2] = hc[1] + ECSkip
    <3>1. /\ hc[h] = hc[1] + (h - 1) * ECSkip
          /\ hc[h - 1] = hc[1] + ((h - 1) - 1) * ECSkip
          /\ hc[2] = hc[1] + (2 - 1) * ECSkip
      BY <1>9 DEF n
    <3>2. (h - 1) - 1 = h - 2 /\ (2 - 1) * ECSkip = ECSkip
      BY <1>1, <1>7
    <3> QED
      BY <3>1, <3>2
  <2>2. (h - 1) * ECSkip = (h - 2) * ECSkip + ECSkip
    <3> DEFINE d == h - 2
    <3>1. d \in Int /\ h - 1 = d + 1
      BY <1>7
    <3> HIDE DEF d
    <3>2. (d + 1) * ECSkip = d * ECSkip + ECSkip
      BY <1>1, <3>1
    <3> QED
      BY <3>1, <3>2 DEF d
  <2>3. (h - 2) * ECSkip \in Int
    BY <1>1, <1>7
  <2> QED
    BY <1>1, <1>10, <2>1, <2>2, <2>3 DEF Spacing
<1>12. hc[h - 1] <= z /\ z <= hc[h]
  <2>1. CASE b = 1
    <3>1. h = 2 /\ h - 1 = 1 /\ hc[1] >= z
      BY <1>5, <1>7, <2>1
    <3> QED
      BY <1>1, <1>10, <1>11, <3>1
  <2>2. CASE b # 1
    <3>1. h = b /\ h - 1 < b
      BY <1>5, <1>7, <2>2
    <3> QED
      BY <1>5, <1>9, <1>10, <3>1
  <2> QED
    BY <2>1, <2>2
<1>13. ratio \in Nat /\ low \in Nat
  BY <1>1, <1>10, <1>11, <1>12
<1> HIDE DEF ratio, low
<1>14. \A k \in DOMAIN w : w[k] \in Nat
  BY <1>13
<1> HIDE DEF w
<1>15. \A k \in DOMAIN Interpolated(hc, z) : Interpolated(hc, z)[k] \in Nat
  BY <1>8, <1>14 DEF Restrict
<1> QED
  BY <1>6, <1>15

(* With relief in the ice, every ice cell lies between two elevation classes and gives each
   of them a natural share of its area. *)
LEMMA IceInClasses ==
    ASSUME NEW e, IceFile(e), Relief(e), NEW f \in e.fgice
    PROVE  /\ ~OutOfBounds(Hcdefs(e), Max({e.ztop[f], 0}))
           /\ \A h \in DOMAIN ClassesAt(e, f) : ClassesAt(e, f)[h] \in Nat
<1> DEFINE hc == Hcdefs(e)
           z == LevelOf(e, f)
<1>1. Elevations(hc)
  BY HcdefsIn
<1>2. /\ \A h \in 1..Len(hc) : hc[h] = hc[1] + (h - 1) * ECSkip
      /\ hc[1] <= e.ztop[f] /\ e.ztop[f] <= hc[Len(hc)]
  BY HcdefsSpan
<1>3. Len(hc) >= 2 /\ hc[Len(hc)] >= 0
  BY DEF Relief
<1>4. e.ztop[f] \in Int /\ z \in Int /\ z >= e.ztop[f] /\ z \in {e.ztop[f], 0}
  BY LevelIn
<1>5. hc[1] \in Int /\ hc[Len(hc)] \in Int
  <2> HIDE DEF hc
  <2>1. 1 \in 1..Len(hc) /\ Len(hc) \in 1..Len(hc)
    BY <1>1, <1>3 DEF Elevations
  <2> QED
    BY <1>1, <2>1 DEF Elevations
<1> HIDE DEF hc, z
<1>6. hc[1] <= z /\ z <= hc[Len(hc)]
  BY <1>2, <1>3, <1>4, <1>5
<1>7. /\ ~OutOfBounds(hc, z)
      /\ \A h \in DOMAIN Interpolated(hc, z) : Interpolated(hc, z)[h] \in Nat
  BY <1>1, <1>2, <1>3, <1>4, <1>6, InterpolatedNat
<1>8. ClassesAt(e, f) = Interpolated(hc, z)
  BY DEF ClassesAt, ClassWeights, LevelOf, hc, z
<1> QED
  BY <1>7, <1>8 DEF hc, z, LevelOf

(* With relief in the ice, the entries of GvI are naturals. *)
LEMMA EntriesNat ==
    ASSUME NEW e, IceFile(e), Relief(e), NEW S, S \subseteq e.fgice, NEW grid \in {"A", "I", "E"}
    PROVE  NatEntries(EntriesOf(grid, e, S))
<1>1. Classed(e, S)
  BY IceInClasses DEF Classed
<1>2. Entries(EntriesOf(grid, e, S))
  BY <1>1, EntriesOfIce
<1>3. \A t \in CellEntries(S) \cup IceEntries(S) : t[4] \in Nat
  BY DEF CellEntries, IceEntries
<1>4. ASSUME NEW t \in ClassEntries(e, S) PROVE t[4] \in Nat
  <2>1. PICK f \in S : t \in {<<f, f, <<GCMCell(f), h>>, 1 * ClassesAt(e, f)[h]>> :
                                  h \in DOMAIN ClassesAt(e, f)}
    BY <1>4 DEF ClassEntries
  <2>2. PICK h \in DOMAIN ClassesAt(e, f) :
            t = <<f, f, <<GCMCell(f), h>>, 1 * ClassesAt(e, f)[h]>>
    BY <2>1
  <2>3. ClassesAt(e, f)[h] \in Nat
    BY IceInClasses
  <2> DEFINE w == ClassesAt(e, f)[h]
  <2>4. t[4] = 1 * w
    BY <2>2
  <2> HIDE DEF w
  <2> QED
    BY <2>3, <2>4 DEF w
<1> QED
  BY <1>2, <1>3, <1>4 DEF NatEntries, EntriesOf

\* No chunk of ice with relief fails.
LEMMA NoSectionFails ==
    ASSUME NEW e, IceFile(e), Relief(e), NEW c \in Chunks(e)
    PROVE  ~SectionFails(e, c)
<1> DEFINE S == ChunkIce(e, c)
           elev == ElevmaskOf(e, S)
           x == ExchangeGrid(S, [f \in S |-> GCMCell(f)])
<1>1. S \subseteq e.fgice
  BY ChunksPartitionIce DEF IceFile
<1>2. DOMAIN elev = S /\ UsedX(x, elev) = S
  BY GvOfIce
<1>3. \A f \in S : elev[x.i[f]] = e.ztop[f]
  BY DEF ElevmaskOf, ExchangeGrid
<1>4. ~GvEpFails(x, elev, Hcdefs(e), "Z_INTERP")
  <2>1. \A f \in S : /\ Hcdefs(e) # <<>>
                    /\ ~OutOfBounds(Hcdefs(e), Max({e.ztop[f], 0}))
    <3> SUFFICES ASSUME NEW f \in S
                 PROVE  Hcdefs(e) # <<>> /\ ~OutOfBounds(Hcdefs(e), Max({e.ztop[f], 0}))
      OBVIOUS
    <3>1. f \in e.fgice /\ Len(Hcdefs(e)) >= 2
      BY <1>1 DEF Relief
    <3>2. ~OutOfBounds(Hcdefs(e), Max({e.ztop[f], 0}))
      BY <3>1, IceInClasses
    <3>3. Hcdefs(e) # <<>>
      BY <3>1
    <3> QED
      BY <3>2, <3>3
  <2> HIDE DEF S, x, elev
  <2> QED
    BY <1>2, <1>3, <2>1 DEF GvEpFails
<1>5. ASSUME NEW name \in Names
      PROVE  ~NegativeIn(IceMatrix(name, elev, Hcdefs(e)))
  <2> DEFINE R == RoutesOf(name, e, S)
  <2>1. Classed(e, S)
    BY <1>1, IceInClasses DEF Classed
  <2>2. IceMatrix(name, elev, Hcdefs(e)) = Weighed(R)
    BY <1>1, <2>1, IceMatrixRoutes
  <2>3. NatEntries(R)
    <3> DEFINE L == EntriesOf(LeftOf[name], e, S)
               Q == EntriesOf(RightOf[name], e, S)
    <3>1. LeftOf[name] \in {"A", "I", "E"} /\ RightOf[name] \in {"A", "I", "E"}
      BY DEF LeftOf, RightOf, Names
    <3>2. NatEntries(L) /\ NatEntries(Q)
      BY <1>1, <3>1, EntriesNat
    <3>3. \A t \in L : t[2] \in S
      BY <1>1, <2>1, <3>1, EntriesOfIce
    <3> HIDE DEF L, Q, S
    <3>4. /\ Matrix(Accumulate(L)) /\ \A b \in DOMAIN Accumulate(L) : Accumulate(L)[b] \in Nat
          /\ Matrix(Accumulate(Q)) /\ \A b \in DOMAIN Accumulate(Q) : Accumulate(Q)[b] \in Nat
      BY <3>2, AccumulateNat
    <3>5. \A b \in DOMAIN Accumulate(L) : UnitArea(S)[b[1]] \in Nat \ {0}
      <4> SUFFICES ASSUME NEW b \in DOMAIN Accumulate(L)
                   PROVE  UnitArea(S)[b[1]] \in Nat \ {0}
        OBVIOUS
      <4>1. PICK t \in L : b = <<t[2], t[3]>>
        BY DEF Accumulate
      <4>2. b[1] \in S
        BY <3>3, <4>1
      <4> QED
        BY <4>2 DEF UnitArea
    <3>6. NatEntries(Routes(UnitArea(S), Accumulate(L), Accumulate(Q)))
      BY <3>4, <3>5, RoutesNat
    <3> QED
      BY <3>6 DEF RoutesOf, L, Q
  <2> HIDE DEF R, elev, S
  <2>4. /\ \A k \in DOMAIN Tally(R, PlaceOf(R)) : Tally(R, PlaceOf(R))[k] \in Nat
        /\ \A k \in DOMAIN Tally(R, RowIn(R)) : Tally(R, RowIn(R))[k] \in Nat
        /\ \A k \in DOMAIN Tally(R, ColIn(R)) : Tally(R, ColIn(R))[k] \in Nat
    BY <2>3, TallyNat
  <2>5. \A y \in Nat : ~(y < 0)
    OBVIOUS
  <2> QED
    BY <2>2, <2>4, <2>5 DEF NegativeIn, Weighed
<1>6. Generated(Len(MatrixOrder)) \subseteq Names
  BY NamesMade
<1>7. SectionFails(e, c) <=>
         LET made == Generated(Len(MatrixOrder))
         IN  \/ made \cap {"EvI", "IvE", "AvE", "EvA"} # {} /\ GvEpFails(x, elev, Hcdefs(e), "Z_INTERP")
             \/ \E name \in made : NegativeIn(IceMatrix(name, elev, Hcdefs(e)))
  BY <1>2 DEF SectionFails
<1> HIDE DEF S, x, elev
<1> QED
  BY <1>4, <1>5, <1>6, <1>7

\* global_ec never fails on ice with relief, for any classes, chunks and crashes.  It
\* does fail where all ice has one level or lies below the sea.
THEOREM ClassesSpan ==
    ASSUME \A r \in RawInputs, g \in BOOLEAN : Relief(Etopo1Ice(r[1], g))
    PROVE  Spec => []ClassesSpanChunks
<1> DEFINE Inv == /\ \E r \in RawInputs : input.raw = r[1]
                  /\ etopo1 # None => Relief(etopo1)
<1>1. Init => Inv
  BY DEF Init
<1>2. ECInv /\ Inv /\ [Next]_vars => Inv'
  <2> SUFFICES ASSUME ECInv, Inv, [Next]_vars PROVE Inv'
    OBVIOUS
  <2>1. CASE Etopo1
    <3>1. etopo1' = Etopo1Ice(input.raw, input.greenland) /\ input' = input
      BY <2>1 DEF Etopo1
    <3>2. input.greenland \in BOOLEAN
      BY DEF ECInv, InputOK
    <3> QED
      BY <3>1, <3>2
  <2>2. CASE UNCHANGED <<input, etopo1>>
    BY <2>2 DEF Relief
  <2> QED
    BY <2>1, <2>2, ECSteps DEF PlanChunks, RunChunk, CrashChunk, Combine
<1>3. ECInv /\ Inv => ClassesSpanChunks
  <2> SUFFICES ASSUME ECInv, Inv, mk # None, NEW c \in mk PROVE ~SectionFails(etopo1, c)
    BY DEF ClassesSpanChunks
  <2>1. IceFile(etopo1) /\ Relief(etopo1) /\ c \in Chunks(etopo1)
    BY DEF ECInv, PlanCurrent
  <2> QED
    BY <2>1, NoSectionFails
<1> QED
  BY <1>1, <1>2, <1>3, ECInvariant, PTL DEF Spec
===============================================================================
