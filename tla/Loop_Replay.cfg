SPECIFICATION Spec
CONSTANTS
    Steps <- OneStep
    MaxAttempts <- TwoAttempts
    Risk <- MediumRisk
    RequiresHuman <- NoHumanNeeded
    Modes = {"AUTO"}
    Answers <- WellFormed
    TimeoutEnabled = TRUE
    Faults = {"crash"}
PROPERTIES
    ReportDecidesOnce
