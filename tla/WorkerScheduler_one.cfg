\* One run with every feature: sticky with a deadline, gated by an agent,
\* pausing, asking for a lease longer than the longest allowed.
SPECIFICATION Spec
CONSTANTS
    Runs = {r1}
    Workers = {w1, w2}
    Queues = {q1}
    Agents = {a1}
    r1 = r1  r2 = r2  w1 = w1  w2 = w2  q1 = q1  a1 = a1
    NoWorker = NoWorker
    NoAgent = NoAgent
    QueueOf <- SharedQueue
    Priority <- AllEqual
    MaxRetries <- OneRetry
    Preferred <- R1PrefersW1
    StickyWait <- R1Deadline
    TargetAgent <- R1Targeted
    AskedTTL <- LongTTLAsked
    DefaultTTL = 1
    LongestTTL = 2
    Backoff = 2
    StaleAfter = 1
    Modes = {"active", "draining"}
    Accepting = {TRUE, FALSE}
    Pauses = {TRUE, FALSE}
    RetryCap = 2
INVARIANTS TypeOK LeaseMatchesRun
PROPERTIES LapsedRunCannotFinish

