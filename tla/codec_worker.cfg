SPECIFICATION Spec
CONSTANTS
    OfferedCatalogs <- MCCatalogs
    ToolSets <- MCToolSets
    InitialCaches <- MCCaches
    FetchIds = {"snac", "liveportrait"}
    Uploads <- MCUploads
    Limits <- MCLimits
    Sizes = {1, 2}
    Marks <- MCMarks
    Targets = {1, Unlimited}
    Unlimited = Unlimited
    MaxLevels = 2
    NoCandidate = NoCandidate
    Artifacts <- MCArtifacts
INVARIANTS
    SelectionIsBest
    OnlyCoolChicImagesFailTheJob
    OnlyPinnedFilesLoaded
CHECK_DEADLOCK FALSE
