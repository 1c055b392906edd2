SPECIFICATION PartsSpec
CONSTANTS
    Parts = {"reload", "rules", "secrets", "limiter", "history", "oidc", "sync",
             "filters", "chunks", "startup", "orphans"}

    ja = ja  jb = jb  s1 = s1  s2 = s2  nowhere = nowhere  c1 = c1  c2 = c2
    JobIds = {ja, jb}
    Requests = {r1}
    LastVersion <- TwoVersions
    Catalog <- Edits
    Connections <- Moves
    Secrets <- SecretsOfJobs
    Unparsable = Unparsable
    Manual = Manual
    Unbuildable = {nowhere}

    JobMenu <- Menu
    LongestList = 3
    NoModel = "none"

    Lookups = {l1, l2}
    SecretNames = {"user", "key", "token"}
    LastSecrets = 5
    Stored <- SecretFiles
    Absent = Absent
    Malformed = Malformed
    Undecryptable = Undecryptable
    Environ <- Outside

    Embedders = {e1, e2, e3}
    Batches = 2
    Concurrency = 2
    Token = 2
    PerTick = 1
    Capacity = 4
    Retries = 2
    RetryDelay = 1
    Window = 3

    HistoryJobs = {h1, h2}
    RunIds = {i1, i2, i3}
    Stamps = {1, 2}
    Limit = 1
    MostEvents = 1

    Validations = {v1, v2}
    Kids = {"k1", "k2"}
    LastKeySet = 2
    KeySet <- Rotation
    Lifetime = 2
    Timeout = 1

    Syncers = {y1}
    Paths = {p1, p2, p3}
    Label <- OwnLabel
    DeletePct = 50
    SkipSync = TRUE
    LastChange = 2

    Characters = {"d", "x", "/", "*", "?", "{", "}", "[", "]", ","}
    PatternLists <- SomeLists
    TreePaths <- Tree

    Blocks <- SomeBlocks
    MaxBlocks = 3
    MaxWords = 3

    Interval = 3
    Instants = {0, 1, 4, 7, 8, 9, 12, 13, 16}
    Grace = 1
    LastInstant = 9

    OrphanDocs = {o1, o2}
    Cleaners = {k1, k2}
INVARIANTS
    PartsTypeOK
    ScheduleFollowsCatalog
    PausedTriggersRest
    LostConnectionIsReported
    AcceptedJobsRunTogether
    LookupsAreFresh
    RateIsKept
    RunningRowsAreLive
    WithdrawnKeysExpire
    RejectedKeyWasMissing
    PlainPatternsAgree
    NothingLost
    ChunksFit
    RestartsDoNotStarve
PROPERTIES
    ReloadsCatchUp
    BatchesCatchUp
    UnchangedScheduleKeepsTrigger
    EndsAreFinal
    DroppedOnlyIfGone
    RowsGoLast
CHECK_DEADLOCK FALSE
