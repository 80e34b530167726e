----------------------------- MODULE MCTopoTools -----------------------------
(***************************************************************************)
(* An instance of TopoTools: an ocean grid of 4 by 8 cells with 2 fine     *)
(* cells each.  Antarctica is the first row, row 8 the Arctic ocean.       *)
(* Greenland lies around <<2, 5>> to <<3, 6>>; a continent with lakes and  *)
(* snow, a coast and an island are the rest.                               *)
(***************************************************************************)
EXTENDS TopoTools

\* What differs between the inputs: how an O cell near Greenland is made up, and
\* one on the coast.  "gl" is two cells of Greenland, "go" Greenland and ocean,
\* "gc" Greenland and continent, "cc" continent, "co" continent and ocean, "oo"
\* ocean.
Kinds == {"gl", "go", "gc", "cc", "co", "oo"}

KindOf(v, o) ==
    CASE o[2] = 1 -> "cc"
      [] o[2] = 8 -> "oo"
      [] o = <<2, 5>> -> "gl"
      [] o = <<3, 5>> -> v.gl1
      [] o = <<2, 6>> -> v.gl2
      [] o = <<3, 6>> -> v.ne
      [] o[1] = 4 /\ o[2] \in 2..6 -> "cc"
      [] o = <<3, 3>> -> "co"
      [] o = <<3, 4>> -> v.coast
      [] o = <<2, 7>> -> IF v.gl1 = "gc" THEN "gc" ELSE "co"
      [] o \in {<<3, 7>>, <<2, 4>>} -> "co"
      [] OTHER -> "oo"

MaskOf(v, f) ==
    LET k == KindOf(v, OofF(f))
    IN  IF k = "gl" \/ (f[3] = 1 /\ k \in {"go", "gc"}) THEN GREENLAND_VAL
        ELSE IF k = "cc" \/ (f[3] = 1 /\ k = "co") \/ (f[3] = 2 /\ k = "gc") THEN LAND
        ELSE OCEAN

HeightOf(v, f) ==
    CASE MaskOf(v, f) = OCEAN -> -f[3]
      [] MaskOf(v, f) = GREENLAND_VAL -> IF f[3] = 1 THEN v.top ELSE 1
      [] OTHER -> (f[2] + f[1] + f[3]) % 4

ThickOf(v, f) ==
    IF f[2] = 1 THEN 2
    ELSE IF MaskOf(v, f) = GREENLAND_VAL /\ (f[3] = 1 \/ v.top = 3) THEN 1 ELSE 0

Raw(v) ==
    [focean |-> [f \in Fine |-> MaskOf(v, f)], ztop |-> [f \in Fine |-> HeightOf(v, f)],
     thick |-> [f \in Fine |-> ThickOf(v, f)],
     fgice1 |-> [o \in OCells |-> IF o \in {<<4, 6>>, <<4, 5>>, <<3, 5>>} THEN v.snow
                                  ELSE IF o = <<2, 7>> /\ v.gl1 # "gc" THEN Unit ELSE 0]]

Lakes(v) ==
    [o \in OCells |-> IF o[1] = 4 THEN v.lake ELSE IF o[1] = 3 THEN Unit \div 8 ELSE 0]

Variants ==
    [gl1 : {"gl", "go", "gc"}, gl2 : {"go", "oo"}, coast : {"co", "cc"}, top : {2, 3},
     snow : {Unit \div 2}, lake : {Unit}, ne : {"oo", "cc"}]
    \cup [gl1 : {"go"}, gl2 : {"go"}, coast : {"cc"}, top : {3},
          snow : {Unit \div 4}, lake : {Unit \div 4}, ne : {"oo"}]

MCRawInputs == {<<Raw(v), Lakes(v)>> : v \in Variants}
\* One of them, for the chunks
MCRawChunks == {<<Raw(v), Lakes(v)>> : v \in {w \in Variants : w.snow = Unit \div 4}}
MCResets == (<<4, 3>> :> 1)
\* With two fine cells, land that is not all of a cell needs this to be rounded to
\* land.
MCToLand == {<<2, 7>>, <<3, 7>>}
MCToOcean == {<<2, 4>>}
MCMatrixNames == <<"AvI", "IvE", "EvA">>
MCLocalHcdefs == <<-2, 0, 2, 4>>

\* What a theorem supposes of the constants
ASSUME MCTopoToolsAssumption == LocalClassesLow /\ FractionsFine
==============================================================================
