SPECIFICATION JRSpec
ACTION_CONSTRAINT OneHistory
CONSTANTS
    f1 = f1  f2 = f2
    n1 = n1  n2 = n2
    Files = {f1}
    Names = {n1, n2}
    Last = 10
    Content <- Both
    Gone = Gone
    TooLarge = {7}
    Yield <- BothYield
    Attached <- BothAttached
    Chunks <- MCChunks
    NoText = NoText
    NoContent = NoContent
    NoRow = NoRow
    LastParams = 2
    Modes = {"full", "upsert", "append"}
    Scopes = {"job"}
    AppendProbe = "auto"
    FacetLimit = 2
    MaxDeletePct = 50
    EmptyGuard = TRUE
    StateLosses = 1
INVARIANTS
    JRTypeOK
    IndexedRowsTruthful
    CaughtUp
    AttachmentsFollowFile
