SPECIFICATION InputsSpec
CONSTANTS
    Deploys = {d1, d2}
    Migrations = 4
    Legacy = {1, 2, 4}
    Existing = TRUE
    HasProbe = TRUE
    Generations = {g1, g2, g3, g4}
    MaxAttempts = 3
    MaxItem = 5
    Limits = {1, 2}
    RetriesAllowed = 3
    Timeouts = {2, 3, 9}
    MaxTimeout = 6
    Processors = {p1, p2}
    Disposals = {c1, c2}
    NoProcessor = none
    TestMode = FALSE
    Keys = {1}
    TransactionNames = {"a", "b"}
    CustomLabels = {"tenant"}
    Attributes <- MCAttributes
    MaxClock = 2
    Instances = {1, 2}
    Dimensions = {"x", "y"}
    Amounts = {1, 2}
    MaxTotal = 3
    Checks = {h1, h2, h3}
    MaxHealthcheckNumber = 2
    Ttl = 2
    Concurrency = 2
    Steps = 4
    Project = "p"
    UpdateColumns = {"a", "b", "c"}
    TypeByColumn <- MCTypeByColumn
    EntriesLimit = 2
    BindParametersLimit = 5
    Updates <- MCUpdates
    Retries <- MCRetries
    Polls <- MCPolls
    Tries <- MCTries
    AnswerLists <- MCWaits
    Environments <- MCEnvironments
    Topics <- MCTopics
    Commands <- MCCommands
CHECK_DEADLOCK FALSE
INVARIANTS
    NeverCollides RowsPerDeploy
    EndsCleanly ShowsOpenQueues OnceEach
    FiltersKeepMeaning SnapshotsTellApart BulkUpdatesApply ConfigsHold
    OneProcessorWorks ObservationsAreTrue
