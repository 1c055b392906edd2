SPECIFICATION JRSpec
CONSTANTS
    f1 = f1  f2 = f2
    n1 = n1  n2 = n2
    Files = {f1}
    Names = {n1}
    Last = 1
    Content <- Letter
    Gone = Gone
    TooLarge = {}
    Yield <- LetterYield
    Attached <- LetterAttached
    Chunks <- MCChunks
    NoText = NoText
    NoContent = NoContent
    NoRow = NoRow
    LastParams = 1
    Modes = {"upsert"}
    Scopes = {"job"}
    AppendProbe = "auto"
    FacetLimit = 2
    MaxDeletePct = 50
    EmptyGuard = TRUE
    StateLosses = 0
INVARIANTS
    AttachmentsCatchUp
