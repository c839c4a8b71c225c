SPECIFICATION Spec
CONSTANTS
    MaxEpoch = 2
    MaxFrames = 4
INVARIANTS
    AckedSurvives
    AlwaysRecoverable
    RepairedNeverReturns
    HealthyMatchesFile
