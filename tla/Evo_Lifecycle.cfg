SPECIFICATION Spec
CONSTANTS
    Versions <- MCVersions
    First = "v0"
    NoVersion = "none"
    Source <- MCSource
    Target <- MCTarget
    AdrOf <- MCAdrOf
    RisksOf <- MCRisksOf
    ChangeAdrs = {"ADR1"}
    BootAdrs = {"ADR0"}
    BootRisks = {"K0"}
    DefaultApprover = "user"
    Requests = {"ACR1", "ACR2", "Fork", "Late"}
    SoundRequests = {"ACR1", "ACR2", "Fork", "Late"}
    Declared <- ThreeReleases
    ManagedAdrs = {"ADR2"}
    ManagedRisks = {"K1"}
    Approvers = {"user", "other"}
INVARIANTS
    TypeOK
    OneCurrentBaseline
    VersionsAreRequested
    ReasonFollowsDecision
    GateHasBaseline
PROPERTIES
    DecisionsAreFinal
    RestartChangesNothing
    HistorySpec
