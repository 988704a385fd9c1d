SPECIFICATION FairSpec
CONSTANTS
    Steps <- OneStep
    MaxAttempts <- TwoAttempts
    Risk <- MediumRisk
    RequiresHuman <- NoHumanNeeded
    Modes = {"SUPERVISED", "AUTO"}
    Answers <- WellFormed
    TimeoutEnabled = TRUE
    Faults = {"crash", "ack"}
PROPERTIES
    DispatchResolves
    LoopComesToRest
