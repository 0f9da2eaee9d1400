\* A chain of two stages, an hourly task and the API over two runs, under fairness; and
\* both edges of the process, each on its own.
SPECIFICATION MCSpec
CONSTANTS
    daily = daily
    hourly = hourly
    Tasks = {daily, hourly}
    Stages <- MCStages
    MaxRuns = 2
    Calls = {"a", "b", "c", "m", "l"}
    Kind <- MCKind
    CallStages = {"link", "resolve", "summary"}
    Provider <- MCProvider
    Limit = 2
    Window = 2
    MaxAttempts = 2
    MaxRetries = 1
    MaxWait = 1
    MaxBusy = 1
    Keys = {"x", "y", "z"}
    MaxKeys = 2
    Capacity = 2
    Refill = 40
    Hz = 1
    MaxTime = 3
    About = {"runs", "inbound", "tmdb", "gateway"}
INVARIANTS RowsTellTheTruth CallsAreExact NoClientLeaks LimiterIsExact
PROPERTIES RunningEnds
CHECK_DEADLOCK FALSE
