SPECIFICATION MmapSpec
CONSTANTS
    MaxFrames = 4
INVARIANTS
    AppendsAreDefinite
    MappedViewIsHistory
