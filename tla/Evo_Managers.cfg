SPECIFICATION Spec
CONSTANTS
    Versions <- MCVersions
    First = "v0"
    NoVersion = "none"
    Source <- MCSource
    Target <- MCTarget
    AdrOf <- MCAdrOf
    RisksOf <- MCRisksOf
    ChangeAdrs = {"ADR1"}
    BootAdrs = {"ADR0"}
    BootRisks = {"K0"}
    DefaultApprover = "user"
    Requests = {"ACR1"}
    SoundRequests = {"ACR1"}
    Declared <- OneRelease
    ManagedAdrs = {"ADR0"}
    ManagedRisks = {}
    Approvers = {"user"}
INVARIANTS
    NeverRefused
