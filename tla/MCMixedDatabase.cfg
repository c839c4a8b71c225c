SPECIFICATION Spec
CONSTANTS
    oneDefinition = oneDefinition
    Slots = {1, 2}
    Predicates = {1, 2}
    Literals = {1, 2}
    StackSize = 6
    Validators = {oneDefinition}
    Rejects <- MCRejects
    MixedIntents <- MCIntents
    Strict <- MCStrict
    Queries <- MCQueries
    CodecIntents <- MCCodecIntents
    Trees <- MCTrees
    MaxEpoch = 2
    MaxFrames = 3
    MaxRoots = 2
INVARIANTS
    VmShowsWorld
    VerdictsAgree
    QueriesAgree
    FramesRoundTrip
    LoweringFaithful
CHECK_DEADLOCK FALSE
