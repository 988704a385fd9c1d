SPECIFICATION Spec
CONSTANTS
    Steps <- TwoSteps
    MaxAttempts <- LastStepRetries
    Risk <- MediumRisk
    RequiresHuman <- LastNeedsHuman
    Modes = {"SUPERVISED", "AUTO"}
    Answers <- AnyFile
    TimeoutEnabled = TRUE
    Faults = {"crash", "ack"}
INVARIANTS
    TypeOK
    DispatchIsPublished
    TaskHasContext
    ReportKept
    RowFollowsStep
    VerifiedExactlyByGate
    AttemptHistory
    NoReviseDeadEnd
    NothingReadIsStale
    PlanOrder
    PublicationIsRecorded
PROPERTIES
    ApprovalPrecedesPublication
    LifecycleSpec
