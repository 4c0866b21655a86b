\* Small instances of the components that share nothing with each other.
SPECIFICATION Spec
CONSTANTS
    Tasks = {t1, t2}
    Consumers = {c1, c2}
    NoTask = NoTask
    MaxRetries = 2
    MaxDeaths = 1
    Approvals = {"a1", "a2", "a3"}
    Callers = {b1, b2, b3}
    NoApproval = NoApproval
    ActionOf <- OneOfEach
    MaxKills = 1
    Jobs <- FiveJobs
    RuntimeAgents = {"reader"}
    CheckedAgents = {"fragile"}
    Reports <- TwoReports
    MaxStragglers = 1
    Clients = {d1, d2, d3}
    Nobody = Nobody
    MaxShutdowns = 1
    Updates = {1, 2}
    PerPoll = 2
    PerWindow = 1
    MaxRestarts = 2
    Runs = {x, y}
    NoRun = NoRun
    MaxAgents = 1
    Creators = 1
    Cancellers = {1, 2}
    MaxStops = 1
    \* one call of the schedules at a time, and one stop
    Schedules = {"daily", "once"}
    Once = {"once"}
    Interval = 1
    Grace = 1
    Calls = {1}
    MayRefuse = TRUE
    Horizon = 2
    MaxRuns = 0
    MaxOutages = 1
    \* three appends that may all overlap, two of them with one key; lists end
    \* after one event
    Appends = {1, 2, 3}
    SessionOf <- OneSession
    KeyOf <- TwoWithOneKey
    NoKey = ""
    Listed = 1
    \* two metered calls at a time, of which one may be a peer's task, for one unit
    Servers = {1, 2}
    Submitters = {1}
    Limit = 1
    Units = {1}
    MaxTasks = 1
    MaxCalls = 3
    \* one call of the scheduler at a time, and one kill
    Items = {"r1"}
    Workers = {"w1", "w2"}
    NoWorker = "nobody"
    Requests = {1}
    RequestKinds = {"claim", "start", "finish", "requeue", "fail", "cancel", "recover", "annotate"}
    MaxCrashes = 1
INVARIANTS
    ServicesTypeOK
    ExclusiveConsumer
    OneDecision 
     JobMatchesSchedule
    TablesAgree
     
    PlanRunsOnce EveryUpdateHasOneFate TimelineIsOrderly OverrunIsBounded 
    CancelledNeverCompletes 
PROPERTIES
    ImplementsPool EveryTaskSettles DecisionNotReversed  ViolationEndsRun RunIsSummarised AgentsSettle
