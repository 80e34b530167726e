------------------------------ MODULE TopoTools ------------------------------
(***************************************************************************)
(* The programs that make ModelE's topography, as a user or a makefile     *)
(* runs them: etopo1_ice, make_topoo, global_ec, the makefile of chunks    *)
(* that it writes, combine_global_ec, make_merged_topoo and make_topoa.    *)
(* Every variable but the first two is a file, or None.  Chunks run in any *)
(* order and may be killed; what they leave behind counts as up to date,   *)
(* as the makefile keeps targets of failed commands.                       *)
(***************************************************************************)
EXTENDS TopoA

CONSTANTS
    None,
    RawInputs,      \* pairs of raw topography and lake fractions
    Geometries,     \* what the ice model makes of Greenland's cells
    MaxCrashes      \* bound: processes that are killed

\* The raw files are complete, and fractions are fractions.
ASSUME RawInputsAssumption ==
    \A r \in RawInputs :
        /\ r[1] \in RawTopo([Fine -> {LAND, OCEAN, GREENLAND_VAL}], [Fine -> Int],
                           [Fine -> Int], [OCells -> 0..Unit])
        /\ r[2] \in [OCells -> 0..Unit]
ASSUME MaxCrashesAssumption == MaxCrashes \in Nat

VARIABLES
    input,          \* the raw data: raw, lakes, and greenland (include it?)
    crashes,        \* how many processes were killed
    etopo1, topoo,  \* outputs of etopo1_ice and make_topoo
    mk,             \* the makefile of global_ec: the set of chunks
    chunkfile,      \* chunk -> file
    uptodate,       \* chunks whose file is newer than the makefile
    ec,             \* output of combine_global_ec: name -> matrix
    merged,         \* output of make_merged_topoo
    topoa,          \* output of make_topoa
    failed          \* a program ended with icebin_error()

vars == <<input, crashes, etopo1, topoo, mk, chunkfile, uptodate, ec, merged,
          topoa, failed>>

Init ==
    /\ input \in {[raw |-> r[1], lakes |-> r[2], greenland |-> g] :
                      r \in RawInputs, g \in BOOLEAN}
    /\ crashes = 0 /\ failed = FALSE
    /\ etopo1 = None /\ topoo = None /\ mk = None /\ chunkfile = <<>> /\ uptodate = {}
    /\ ec = None /\ merged = None /\ topoa = None

\* etopo1_ice
Etopo1 ==
    /\ etopo1 = None
    /\ etopo1' = Etopo1Ice(input.raw, input.greenland)
    /\ UNCHANGED <<input, crashes, topoo, mk, chunkfile, uptodate, ec, merged,
                   topoa, failed>>

\* make_topoo, which ends where a cell has none of the area it is rounded to
MakeTopoO ==
    /\ ~failed /\ etopo1 # None /\ topoo = None
    /\ IF CallZFails(etopo1)
       THEN failed' = TRUE /\ UNCHANGED topoo
       ELSE topoo' = TopoO(etopo1, input.lakes) /\ UNCHANGED failed
    /\ UNCHANGED <<input, crashes, etopo1, mk, chunkfile, uptodate, ec, merged, topoa>>

\* global_ec without --runchunk writes the makefile, anew after a crash: all the
\* chunks are older than it.
PlanChunks ==
    /\ ~failed /\ etopo1 # None
    /\ mk = None \/ (crashes > 0 /\ uptodate # {})
    /\ mk' = Chunks(etopo1) /\ uptodate' = {}
    /\ UNCHANGED <<input, crashes, etopo1, topoo, chunkfile, ec, merged, topoa, failed>>

StoreChunk(c, n, dims) ==
    /\ chunkfile' = [d \in DOMAIN chunkfile \cup {c} |->
                        IF d = c THEN [matrices |-> Section(etopo1, c, n), dims |-> dims]
                        ELSE chunkfile[d]]
    /\ uptodate' = uptodate \cup {c}

\* global_ec --runchunk
RunChunk(c) ==
    /\ ~failed /\ c \notin uptodate
    /\ IF SectionFails(etopo1, c)
       THEN failed' = TRUE /\ UNCHANGED <<chunkfile, uptodate>>
       ELSE StoreChunk(c, Len(MatrixOrder), TRUE) /\ UNCHANGED failed
    /\ UNCHANGED <<input, crashes, etopo1, topoo, mk, ec, merged, topoa>>

\* It is killed after n matrices, before it stores the dimensions.
CrashChunk(c) ==
    /\ ~failed /\ c \notin uptodate /\ crashes < MaxCrashes
    /\ ~SectionFails(etopo1, c)
    /\ \E n \in 0..Len(MatrixOrder) : StoreChunk(c, n, FALSE)
    /\ crashes' = crashes + 1
    /\ UNCHANGED <<input, etopo1, topoo, mk, ec, merged, topoa, failed>>

CanCombine(files) ==
    \A c \in DOMAIN files, k \in DOMAIN MatrixNames : Combinable(files[c], MatrixNames[k])

CombinedFiles(files, n) ==
    [m \in {CombinedName(MatrixNames[k]) : k \in 1..n} |->
        CombineChunks(files, CHOOSE g \in Range(MatrixNames) : CombinedName(g) = m)]

\* combine_global_ec, by the makefile: all or, if it is killed, some matrices.
\* It is not run again over a file that exists.  It fails on an incomplete chunk
\* before it writes anything, and the user plans anew.
Combine ==
    /\ ~failed /\ mk # None /\ uptodate = mk /\ ec = None
    /\ LET files == Restrict(chunkfile, mk)
       IN  /\ CanCombine(files)
           /\ \/ ec' = CombinedFiles(files, Len(MatrixNames)) /\ UNCHANGED crashes
              \/ /\ crashes < MaxCrashes /\ crashes' = crashes + 1
                 /\ \E n \in 1..(Len(MatrixNames) - 1) : ec' = CombinedFiles(files, n)
    /\ UNCHANGED <<input, etopo1, topoo, mk, chunkfile, uptodate, merged, topoa, failed>>

-----------------------------------------------------------------------------
(* make_merged_topoo and make_topoa *)

GreenlandCells ==
    UNION {{f \in FineOf(o) : input.raw.focean[f] = GREENLAND_VAL} :
              o \in {p \in OCells : p[2] > JM \div 2}}

\* The local sheet of an ice model of Greenland: its exchange grid is that of
\* ETOPO1's Greenland; its geometry is what ETOPO1 shows ("own"), half of it, or
\* all covered by ice and higher ("grown").
Sheets(g) ==
    LET land == IF g = "half" THEN {f \in GreenlandCells : f[3] = 1} ELSE GreenlandCells
        ice  == IF g = "grown" THEN land
                ELSE {f \in land : input.raw.thick[f] >= MinThickness}
        elev(S) == [f \in S |-> input.raw.ztop[f] + (IF g = "grown" THEN 1 ELSE 0)]
    IN  IF g = "none" THEN <<>>
        ELSE <<[x    |-> ExchangeGrid(GreenlandCells, [f \in GreenlandCells |-> OofF(f)]),
                land |-> elev(land), ice |-> elev(ice)]>>

MakeMergedTopoO ==
    /\ ~failed /\ topoo # None /\ ec # None /\ merged = None
    /\ \E g \in Geometries, squash \in BOOLEAN :
        /\ input.greenland => g = "none"
        /\ LET s == Sheets(g)
               m == MergedEOpvAOp(ec["EvO"].M, s, Hcdefs(etopo1))
           IN  IF "EvO" \notin DOMAIN ec \/ LocalFails(s)
               THEN failed' = TRUE /\ UNCHANGED merged
               ELSE /\ merged' = [t |-> MergeTopoO(topoo, s), geometry |-> g,
                                  m |-> IF squash THEN Squashed(m) ELSE m]
                    /\ UNCHANGED failed
    /\ UNCHANGED <<input, crashes, etopo1, topoo, mk, chunkfile, uptodate, ec, topoa>>

MakeTopoa ==
    /\ ~failed /\ merged # None /\ topoa = None
    /\ IF FoceanFails(merged.t, merged.m)
       THEN failed' = TRUE /\ UNCHANGED topoa
       ELSE topoa' = MakeTopoA(merged.t, merged.m) /\ UNCHANGED failed
    /\ UNCHANGED <<input, crashes, etopo1, topoo, mk, chunkfile, uptodate, ec, merged>>

\* etopo1_ice, then global_ec and combine_global_ec
NextEC ==
    \/ Etopo1
    \/ PlanChunks
    \/ mk # None /\ \E c \in mk : RunChunk(c) \/ CrashChunk(c)
    \/ Combine

Next ==
    \/ NextEC
    \/ MakeTopoO
    \/ MakeMergedTopoO
    \/ MakeTopoa

SpecEC == Init /\ [][NextEC]_vars
Spec == Init /\ [][Next]_vars

-----------------------------------------------------------------------------
(* Properties *)

\* The files hold what their readers expect; chunks are intervals that are not
\* empty.
TypeOK ==
    /\ crashes \in 0..MaxCrashes /\ failed \in BOOLEAN
    /\ etopo1 # None => etopo1.fgice \subseteq Fine /\ etopo1.ztop \in [Fine -> Int]
    /\ mk # None =>
         /\ \A c \in mk : c[1] \in Positions /\ c[2] \in (c[1] + 1)..(IM * JM + 1)
         /\ uptodate \subseteq mk /\ uptodate \subseteq DOMAIN chunkfile
    /\ ec # None => DOMAIN ec \subseteq {CombinedName(m) : m \in Range(MatrixNames)}

WholeOutcomes(e) ==
    {[m \in {CombinedName(MatrixNames[k]) : k \in 1..n} |->
         IceMatrix(CHOOSE g \in Range(MatrixNames) : CombinedName(g) = m,
                   ElevmaskOf(e, e.fgice), Hcdefs(e))] : n \in 1..Len(MatrixNames)}

Whole == INSTANCE WholeEC WITH ice <- etopo1, Outcomes <- WholeOutcomes

\* The combined matrices are those of all the ice at once: chunks lose no ice, count
\* none twice and number the elevation classes alike, and the file of a process
\* that was killed is never added in (global_ec.cpp, combine_global_ec.cpp).
ImplementsWhole == Whole!Spec

\* No chunk has ice outside of the elevation classes, which are chosen before the
\* ice is cut into chunks (ec_range of global_ec.cpp, linterp_1d_b()).
ClassesSpanChunks == mk # None => \A c \in mk : ~SectionFails(etopo1, c)

\* "We can't have focean1m and fgice1m at the same time": what etopo1_ice() takes
\* from ETOPO1 and from the snow of ZNGDC1 is on land only, Greenland included or not.
IceOnLand == etopo1 # None => etopo1.fgice \cap OceanFine(etopo1) = {}

Covered(t, c) ==
    /\ \A k \in {"FOCEAN", "FLAKE", "FGRND", "FGICE"} : t[c][k] \in 0..Unit
    /\ t[c].FOCEAN + t[c].FLAKE + t[c].FGRND + t[c].FGICE = Unit

\* The surface types of a cell are fractions that make up the whole cell: after
\* ocean is rounded, lakes and ice are scaled and rounded separately (topo_base.cpp),
\* and after an ice sheet turns ocean to land (merge_topoO()).
CellsCovered ==
    /\ topoo # None => \A o \in OCells : Covered(topoo, o)
    /\ merged # None => \A o \in OCells : Covered(merged.t, o)

\* In a land cell, the surfaces that callZ() finds lie above one another: lowest
\* land, lake, ground, highest land.
SurfacesOrdered ==
    topoo # None =>
        \A o \in OCells \ DOMAIN Resets :
            LET t == topoo[o] IN
            t.FOCEAN = 0 => t.ZSGLO <= t.ZLAKE /\ t.ZLAKE <= t.ZGRND /\ t.ZGRND <= t.ZSGHI

\* "Replace LAKES with GROUND if cell has some OCEAN", done on the O grid for the
\* sake of the A grid: it still holds on A after ice sheets were merged.  (Polar
\* rows are averaged, ocean and lakes alike.)
NoLakeByOcean ==
    topoa # None =>
        \A a \in ACells : ~APole(a) /\ topoa.land[a].FLAKE > 0 => topoa.land[a].FOCEAN = 0

\* The weights of the merged matrix add up, for an O cell, to the ice there:
\* the global ice and the local ice, whatever classes they are stacked in or
\* squashed to.
IceKept ==
    merged # None =>
        LET w == ColSum(merged.m.M)
            sheets == Sheets(merged.geometry)
            local(o) == IF sheets = <<>> THEN {}
                        ELSE {f \in DOMAIN sheets[1].ice : OofF(f) = o}
        IN  \A o \in OCells :
                At(w, o) = ECSkip * (Cardinality(FineOf(o) \cap etopo1.fgice)
                                     + Cardinality(local(o)))

\* Greenland taken out of ETOPO1 by etopo1_ice and merged back in as a local sheet
\* of the same shape gives the TOPOO fields that ETOPO1 gives with Greenland.
KnockoutRestores ==
    merged # None /\ merged.geometry = "own" /\ ~CallZFails(Etopo1Ice(input.raw, TRUE)) =>
        LET t == TopoO(Etopo1Ice(input.raw, TRUE), input.lakes)
        IN  \A o \in {p \in OCells : ~Pole(p)} :
                \A k \in {"FOCEANF", "FGICEF", "ZICETOP"} : merged.t[o][k] = t[o][k]

\* merge_topo.hpp: "Rounding means that ocean grid cells have been rounded to be
\* all-ocean or no-ocean; and other fields have been adjusted accordingly."  The
\* rounded ice fraction of land is the raw one, scaled to the land.  merge_topoO()
\* only adjusts it in cells that it turns to land.
RoundedIceAdjusted ==
    merged # None =>
        \A o \in {p \in OCells : ~Pole(p)} :
            LET t == merged.t[o] IN
            t.FOCEAN = 0 => t.FGICE = (t.FGICEF * Unit) \div (Unit - t.FOCEANF)

\* sanity_check_fhc(): the fractions of the classes of an A cell make up all of its
\* ice, or there is none.
ClassesMakeUpIce == topoa # None => FhcErrors(topoa) = {}

\* An A cell has classes with ice only if it has land, and if it has ice it has
\* classes for it (except at the poles, where rows are averaged).
IceHasClasses ==
    topoa # None =>
        \A a \in {b \in ACells : ~APole(b)} :
            LET iced == {h \in DOMAIN topoa.hcdefs : topoa.fhc[a][h] > 0}
            IN  /\ iced # {} => topoa.land[a].FOCEAN < Unit
                /\ topoa.land[a].FGICE > 0 => iced # {}
                /\ \A h \in iced : topoa.underice[a][h] \in {"LOCALICE", "GLOBALICE"}

\* Ice that grows on land around a local sheet finds the classes that its elevation
\* is interpolated between: ghosts stand ready, if the land lies above the first
\* class, its heights are not NaN (they are where all of it is below the sea), and
\* the local classes were not squashed.
GhostsReady ==
    topoa # None /\ NhcLocal(merged.m) > 0 =>
        LET sheets == Sheets(merged.geometry)
        IN  sheets # <<>> =>
            \A f \in DOMAIN sheets[1].land :
                LET a == AofO(OofF(f))
                    z == sheets[1].land[f]
                IN  /\ ~APole(a) /\ topoa.land[a].FOCEAN < Unit
                    /\ merged.t[OofF(f)].MERGEMASK
                    /\ topoa.land[a].zland_min > LocalHcdefs[1]
                    /\ NoElev \notin {topoa.land[a].zland_min, topoa.land[a].zland_max}
                    /\ ~OutOfBounds(LocalHcdefs, z)
                    => \A h \in DOMAIN Interpolated(LocalHcdefs, z) :
                           topoa.underice[a][h] # "UNUSED"

-----------------------------------------------------------------------------
(* What a theorem of MergedTopo_proofs supposes of the constants *)

\* The classes of local sheets start at sea level or below it: all ice, which is
\* taken to lie at sea level at least, is interpolated.
LocalClassesLow == LocalHcdefs[1] <= 0

\* Fractions are fine enough: the share of a class that is 1 out of the ice of an O
\* cell, of the base and of a sheet, is not 0 after it is averaged over four O cells.
FractionsFine == 8 * NSub * ECSkip <= Unit

==============================================================================
