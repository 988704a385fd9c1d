SPECIFICATION FairSpec
CONSTANTS
    Steps <- OneStep
    MaxAttempts <- TwoAttempts
    Risk <- MediumRisk
    RequiresHuman <- NoHumanNeeded
    Modes = {"AUTO"}
    Answers <- AnyFile
    TimeoutEnabled = TRUE
    Faults = {}
PROPERTIES
    DispatchResolves
