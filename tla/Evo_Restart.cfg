SPECIFICATION FairSpec
CONSTANTS
    Versions <- MCVersions
    First = "v0"
    NoVersion = "none"
    Source <- MCSource
    Target <- MCTarget
    AdrOf <- MCAdrOf
    RisksOf <- MCRisksOf
    ChangeAdrs = {"ADR1"}
    BootAdrs = {"ADR0"}
    BootRisks = {"K0"}
    DefaultApprover = "user"
    Requests = {"ACR1", "ACR2", "Late"}
    SoundRequests = {"ACR1"}
    Declared <- OneRelease
    ManagedAdrs = {}
    ManagedRisks = {}
    Approvers = {"user", "other"}
INVARIANTS
    NeverRefused
PROPERTIES
    ComposeCompletes
