\* Daemons that keep up with their leases: every run settles, and nothing is executed twice at once.
SPECIFICATION FairFleetSpec
CONSTANTS
    Runs = {r1, r2}
    Workers = {w1, w2}
    Queues = {q1}
    Agents = {}
    r1 = r1  r2 = r2  w1 = w1  w2 = w2  q1 = q1
    NoWorker = NoWorker
    NoAgent = NoAgent
    NoTask = NoTask
    QueueOf <- OneQueue
    Priority <- AllEqual
    MaxRetries <- NoRetryForR2
    Preferred <- NobodyPreferred
    StickyWait <- NoDeadline
    TargetAgent <- NobodyTargeted
    AskedTTL <- NoTTLAsked
    DefaultTTL = 1
    LongestTTL = 1
    Backoff = 1
    StaleAfter = 1
    Modes = {"active"}
    Accepting = {TRUE}
    Pauses = {TRUE, FALSE}
    RetryCap = 1
    Outcomes <- FinalOutcomes
    Study = {r1}
    Overruns = FALSE
    Operators = {"cancel"}
    MaxFaults = 1
INVARIANTS ExecutorHoldsLease RetriesWithinBudget
PROPERTIES EveryRunSettles
