CONSTANTS
    Quadrant = 12
    Precision = 48
    Full = 4
    Specs <- MCSpecs
    Caps = {FALSE, TRUE}
    Zones <- MCZones
    XYSpecs <- MCXYSpecs
    Hcdefs <- MCHcdefs
    Styles = {"Z_INTERP", "ELEV_CLASS_INTERP"}
    Elevations <- MCElevations
    IceMasks <- MCIceMasks
    Oceans <- MCOceans
    Fields <- MCFields
    EnthLiquid = 7
    SmbFlags = {FALSE, TRUE}
    Forcing <- MCForcing
    IceModel <- MCIceModel
    Neighbours <- MCNeighbours
    MaxCouplings = 2
    None = None
SPECIFICATION Spec
INVARIANT FilesKeepGrids
INVARIANT OverlapsTile
INVARIANT FieldBounded
INVARIANT AGridNests
INVARIANT WeightsBothWays
INVARIANT StandardConserves
INVARIANT ClassesWeighAsCells
INVARIANT ForcingReachesIce
INVARIANT CorrectionNeutral
INVARIANT CorrectionWithinCell
INVARIANT ForcingInterpolated
INVARIANT SpecificEnthalpyKept
INVARIANT GivenIsMean
INVARIANT ClassesFresh
CHECK_DEADLOCK FALSE
