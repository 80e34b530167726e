-------------------------------- MODULE WholeEC --------------------------------
(***************************************************************************)
(* What the elevation-class programs promise together: the matrices are    *)
(* those of all the ice of the file they started from, and they do not     *)
(* change once they are there.  How the work is cut into chunks, in which  *)
(* order the chunks run and which are killed cannot be told from them.     *)
(***************************************************************************)
CONSTANTS
    None,
    Outcomes(_)     \* the files that may result from the ice

VARIABLES ice, ec

Init == ice = None /\ ec = None

Prepare == ice = None /\ ice' # None /\ UNCHANGED ec

Combine ==
    /\ ice # None /\ ec = None
    /\ ec' # None /\ ec' \in Outcomes(ice)
    /\ UNCHANGED ice

Next == Prepare \/ Combine

Spec == Init /\ [][Next]_<<ice, ec>>
===============================================================================
