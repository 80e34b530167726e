SPECIFICATION Spec
CONSTANTS
    NRanks = 3
    Root = 0
    NSheets = 2
    IM = 2
    JM = 4
    NHC = 2
    EndJ <- MCEndJ
    Outcomes <- MCOutcomes
    InitOutcome <- MCInitOutcome
    MaxRound = 3
INVARIANTS
    TypeOK
    OwnDomain
    SentIsWhatWasGiven
    SameCollective
PROPERTIES
    ImplementsBarrier
    EveryCallReturns
