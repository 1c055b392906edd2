SPECIFICATION JRSpec
CONSTANTS
    f1 = f1  f2 = f2
    n1 = n1  n2 = n2
    Files = {f1, f2}
    Names = {}
    Last = 3
    Content <- Shortened
    Gone = Gone
    TooLarge = {}
    Yield <- MCYield
    Attached <- NothingAttached
    Chunks <- MCChunks
    NoText = NoText
    NoContent = NoContent
    NoRow = NoRow
    LastParams = 1
    Modes = {"full", "upsert", "append"}
    Scopes = {"job", "collection"}
    AppendProbe = "qdrant"
    FacetLimit = 1
    MaxDeletePct = 50
    EmptyGuard = TRUE
    StateLosses = 1
INVARIANTS
    SourceIsWhole
PROPERTIES
    UpsertDropsOnlyVanished
    DryRunTouchesNothing
