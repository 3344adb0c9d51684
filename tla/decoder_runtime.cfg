SPECIFICATION Spec
CONSTANTS
    OfferedCatalogs <- MCCatalogs
    ToolSets <- MCToolSets
    InitialCaches <- MCCaches
    FetchIds = {}
    Uploads <- Refused
    Limits <- MCLimits
    Sizes = {1, 2}
    Marks <- MCMarks
    Targets = {1, Unlimited}
    Unlimited = Unlimited
    MaxLevels = 1
    NoCandidate = NoCandidate
    Artifacts <- MCArtifacts
INVARIANT
    DecoderRuntimeMatches
CHECK_DEADLOCK FALSE
