SPECIFICATION FairSpec
CHECK_DEADLOCK FALSE
CONSTANTS
    Trees <- MCTrees
    Versions = {"1.0", "1.1"}
    Agendas <- MCAgendas
    KeySets <- MCKeySets
    MaxRetries = 2
    MaxOddities = 1
INVARIANTS
    TypeOK
    RetriesAreHonest
    CostIsKept
    MergeKeepsEvidence
    DecisionStands
    AcceptedIsLayered
    JudgmentsAreWhole
PROPERTIES
    RoundEnds
