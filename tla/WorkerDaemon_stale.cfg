\* A run that paused once is never recovered again.
SPECIFICATION FairFleetSpec
CONSTANTS
    Runs = {r1}
    Workers = {w1}
    Queues = {q1}
    Agents = {}
    r1 = r1  r2 = r2  w1 = w1  w2 = w2  q1 = q1
    NoWorker = NoWorker
    NoAgent = NoAgent
    NoTask = NoTask
    QueueOf <- OneQueue
    Priority <- AllEqual
    MaxRetries <- OneRetry
    Preferred <- NobodyPreferred
    StickyWait <- NoDeadline
    TargetAgent <- NobodyTargeted
    AskedTTL <- NoTTLAsked
    DefaultTTL = 1
    LongestTTL = 1
    Backoff = 1
    StaleAfter = 1
    Modes = {"active"}
    Accepting = {TRUE}
    Pauses = {TRUE, FALSE}
    RetryCap = 1
    Outcomes <- PausingOutcomes
    Study = {r1}
    Overruns = FALSE
    Operators = {}
    MaxFaults = 1
PROPERTIES StaleRunsReconciled
