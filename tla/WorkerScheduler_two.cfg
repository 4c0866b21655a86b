\* Two runs compete in one queue; the less urgent one is sticky.
SPECIFICATION Spec
CONSTANTS
    Runs = {r1, r2}
    Workers = {w1, w2}
    Queues = {q1}
    Agents = {}
    r1 = r1  r2 = r2  w1 = w1  w2 = w2  q1 = q1  a1 = a1
    NoWorker = NoWorker
    NoAgent = NoAgent
    QueueOf <- SharedQueue
    Priority <- R1Urgent
    MaxRetries <- OneRetry
    Preferred <- R2PrefersW2
    StickyWait <- NoDeadline
    TargetAgent <- NobodyTargeted
    AskedTTL <- NoTTLAsked
    DefaultTTL = 1
    LongestTTL = 1
    Backoff = 1
    StaleAfter = 1
    Modes = {"active"}
    Accepting = {TRUE}
    Pauses = {FALSE}
    RetryCap = 1
INVARIANTS OneLeasePerWorker
PROPERTIES ImplementsContract
