----------------------------- MODULE MCMpiCouple -----------------------------
(***************************************************************************)
(* Three ranks with one, two and one rows of an atmosphere of 2 x 4 cells  *)
(* and two elevation classes: E index e is cell e % 8 in class e \div 8.   *)
(***************************************************************************)
EXTENDS MpiCouple

\* Two sheets, in the rows of all ranks, gone from some cells, in other classes.
\* Where they share all the A cells and classes, each dimE0 has the whole view; in
\* the last two outcomes the second sheet, or each of them, lacks classes.
Alike(ecs) == [view |-> ecs, dimE0 |-> <<ecs, ecs>>]
MCInitOutcome == Alike({0, 3, 11, 6})
MCOutcomes == {MCInitOutcome, Alike({8, 5}), Alike({3, 4, 15}),
               [view |-> {0, 3, 11, 6}, dimE0 |-> <<{0, 3, 11, 6}, {3, 11}>>],
               [view |-> {8, 5}, dimE0 |-> <<{8}, {5}>>]}
MCEndJ == [r \in 0..2 |-> IF r = 0 THEN 1 ELSE IF r = 1 THEN 3 ELSE 4]
==============================================================================
