SPECIFICATION JRSpec
CONSTANTS
    f1 = f1  f2 = f2
    n1 = n1  n2 = n2
    Files = {f1}
    Names = {}
    Last = 2
    Content <- Edited
    Gone = Gone
    TooLarge = {}
    Yield <- MCYield
    Attached <- NothingAttached
    Chunks <- MCChunks
    NoText = NoText
    NoContent = NoContent
    NoRow = NoRow
    LastParams = 1
    Modes = {"full"}
    Scopes = {"collection"}
    AppendProbe = "auto"
    FacetLimit = 2
    MaxDeletePct = 50
    EmptyGuard = TRUE
    StateLosses = 0
INVARIANTS
    CrashedFullRunLosesNothing
