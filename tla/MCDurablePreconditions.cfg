SPECIFICATION DatabaseSpec
CONSTANTS
    s1 = s1
    a = a
    is = is
    oneDefinition = oneDefinition
    Slots = {s1}
    Predicates = {is}
    Literals = {a}
    StackSize = 4
    Validators = {oneDefinition}
    Rejects <- MCRejects
    Intents <- MCIntents
    Writers = {w1}
    Committers = {e1}
    MaxOperations = 2
    MaxEpoch = 2
    MaxFrames = 2
INVARIANT DurablePreconditionsHold
CHECK_DEADLOCK FALSE
