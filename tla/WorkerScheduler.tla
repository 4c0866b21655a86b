--------------------------- MODULE WorkerScheduler ---------------------------
(***************************************************************************)
(* The worker run queue of the control plane: WorkerSchedulerService with  *)
(* the two services it reads, WorkerRegistryService and                    *)
(* ButlerAgentStateService.  One action is one complete call of a service  *)
(* method; SchedulerRaces models what happens between the store accesses   *)
(* of two overlapping calls.                                               *)
(*                                                                         *)
(* Callers are unconstrained here: any worker may claim or report any run  *)
(* at any time, as the HTTP API allows.  WorkerDaemon restricts them to    *)
(* the calls the real daemon makes.                                        *)
(*                                                                         *)
(* Time is kept as distances to the current instant: the code compares     *)
(* every timestamp with now only, so "lease_expires_at > now" is left > 0, *)
(* "next_attempt_at <= now" is wait = 0 and a worker is stale when the age *)
(* of its last heartbeat exceeds StaleAfter.                               *)
(***************************************************************************)
EXTENDS Integers

CONSTANTS
    Runs, Workers, Queues, Agents,
    NoWorker, NoAgent,  \* the None of assigned_worker_id, of target_agent
    QueueOf,            \* queue_name of each run
    Priority,           \* priority of each run
    MaxRetries,         \* max_retries of each run
    Preferred,          \* metadata.preferred_worker_id, or NoWorker
    StickyWait,         \* time to metadata.sticky_deadline_at, Forever if unset
    TargetAgent,        \* metadata.target_agent, or NoAgent
    AskedTTL,           \* interactive_lease_ttl_seconds, 0 if unset
    DefaultTTL, LongestTTL, Backoff, StaleAfter,
    Modes,              \* the modes workers register with
    Accepting,          \* the accepting_work values of their heartbeats
    Pauses,             \* whether reports may carry a pause reason
    RetryCap            \* bound: operators requeue up to this retry_count

Forever == -1
Statuses == {"absent", "queued", "running", "completed", "failed", "cancelled"}
Terminal == {"completed", "failed", "cancelled"}
Reportable == {"running", "completed", "failed", "cancelled"}
WorkerModes == {"active", "standby", "draining", "offline"}
AgentStatuses == {"active", "draining", "disabled"}

Larger(a, b) == IF a > b THEN a ELSE b
Smaller(a, b) == IF a < b THEN a ELSE b

ASSUME ConstantsAssumption ==
    /\ NoWorker \notin Workers /\ NoAgent \notin Agents
    /\ QueueOf \in [Runs -> Queues]
    /\ Priority \in [Runs -> Nat] /\ MaxRetries \in [Runs -> Nat]
    /\ Preferred \in [Runs -> Workers \union {NoWorker}]
    /\ StickyWait \in [Runs -> Nat \union {Forever}]
    /\ TargetAgent \in [Runs -> Agents \union {NoAgent}]
    /\ AskedTTL \in [Runs -> Nat]
    /\ DefaultTTL \in Nat \ {0} /\ LongestTTL \in Nat
    /\ Backoff \in Nat \ {0} /\ StaleAfter \in Nat \ {0}
    /\ Modes \subseteq WorkerModes
    /\ Accepting \subseteq BOOLEAN /\ Pauses \subseteq BOOLEAN
    /\ RetryCap \in Nat

VARIABLES
    run,       \* worker_run_queue: the item of each run
    lease,     \* worker_leases: the one lease record wlease_<run_id> of each run
    worker,    \* worker_registrations
    agent,     \* butler_agent_states
    arrivals   \* how many runs were enqueued: orders created_at

vars == <<run, lease, worker, agent, arrivals>>

RunType == [status : Statuses, worker : Workers \union {NoWorker},
            retries : Nat, wait : Nat, paused : BOOLEAN, cancel : BOOLEAN,
            sticky : Nat \union {Forever}, born : Nat]
LeaseType == [holder : Workers \union {NoWorker}, active : BOOLEAN, left : Nat]
WorkerType == [known : BOOLEAN, mode : WorkerModes, accepting : BOOLEAN, age : Nat]

NoRun == [status |-> "absent", worker |-> NoWorker, retries |-> 0, wait |-> 0,
          paused |-> FALSE, cancel |-> FALSE, sticky |-> Forever, born |-> 0]
NoLease == [holder |-> NoWorker, active |-> FALSE, left |-> 0]
Unknown == [known |-> FALSE, mode |-> "offline", accepting |-> FALSE, age |-> 0]

Init ==
    /\ run = [r \in Runs |-> NoRun]
    /\ lease = [r \in Runs |-> NoLease]
    /\ worker = [w \in Workers |-> Unknown]
    /\ agent = [a \in Agents |-> "active"]
    /\ arrivals = 0

-----------------------------------------------------------------------------
(* What the handlers read. *)

\* The lease records that count: active and not yet expired.
Live(r) == lease[r].active /\ lease[r].left > 0

LiveHolder(r) == IF Live(r) THEN lease[r].holder ELSE NoWorker

\* _active_leases deactivates every expired record it meets.
Swept == [r \in Runs |->
            IF Live(r) THEN lease[r] ELSE [lease[r] EXCEPT !.active = FALSE]]

TTL(r) == LET asked == IF AskedTTL[r] = 0 THEN DefaultTTL ELSE AskedTTL[r]
          IN  Larger(DefaultTTL, Smaller(asked, LongestTTL))

Stale(w) == worker[w].age > StaleAfter

Claimable(w) ==
    /\ worker[w].known /\ ~Stale(w) /\ worker[w].accepting
    /\ worker[w].mode \notin {"draining", "offline"}

AgentAccepts(r) == TargetAgent[r] = NoAgent \/ agent[TargetAgent[r]] = "active"

\* Mutant of Ready: the leases in force are not consulted.
ReadyThoughLeased(q) == {r \in Runs :
    /\ QueueOf[r] = q /\ run[r].status = "queued" /\ run[r].wait = 0
    /\ AgentAccepts(r)}

\* The queued runs a claim on queue q may hand out at all.
Ready(q) == {r \in Runs :
    /\ QueueOf[r] = q /\ run[r].status = "queued" /\ run[r].wait = 0
    /\ ~Live(r) /\ AgentAccepts(r)}

Before(r, s) ==
    \/ Priority[r] > Priority[s]
    \/ Priority[r] = Priority[s] /\ run[r].born < run[s].born

\* The preferred worker of a sticky run is still expected to come for it.
KeptFor(r, w) ==
    /\ Preferred[r] \notin {NoWorker, w}
    /\ worker[Preferred[r]].known /\ ~Stale(Preferred[r])
    /\ worker[Preferred[r]].accepting
    /\ run[r].sticky # 0

\* First pass: the runs that prefer w; second pass: every run not kept for
\* another worker.
Offered(w, q) ==
    LET mine == {r \in Ready(q) : Preferred[r] = w}
    IN  IF mine # {} THEN mine ELSE {r \in Ready(q) : ~KeptFor(r, w)}

\* Mutant of HeldBy: a lease counts only until its run is started.
HeldUnstarted(w, q) == {r \in Runs :
    /\ Live(r) /\ lease[r].holder = w /\ QueueOf[r] = q
    /\ run[r].status = "queued"}

HeldBy(w, q) == {r \in Runs :
    Live(r) /\ lease[r].holder = w /\ QueueOf[r] = q}

\* Mutant of Requeued: a requeue that is not counted refunds a retry.
RequeuedWithRefund(r, wait, counted) ==
    [run[r] EXCEPT !.status = "queued", !.worker = NoWorker, !.wait = wait,
                   !.retries = IF counted THEN @ + 1 ELSE @ - 1]

\* Mutant of Requeued: the run stays assigned.
RequeuedToSame(r, wait, counted) ==
    [run[r] EXCEPT !.status = "queued", !.wait = wait,
                   !.retries = IF counted THEN @ + 1 ELSE @]

Requeued(r, wait, counted) ==
    [run[r] EXCEPT !.status = "queued", !.worker = NoWorker, !.wait = wait,
                   !.retries = IF counted THEN @ + 1 ELSE @]

Released(r) == [lease[r] EXCEPT !.active = FALSE]

-----------------------------------------------------------------------------
(* Registry and agent state. *)

Register(w, mode) ==
    /\ worker' = [worker EXCEPT ![w] =
         [known |-> TRUE, mode |-> mode, accepting |-> mode # "offline", age |-> 0]]
    /\ UNCHANGED <<run, lease, agent, arrivals>>

Heartbeat(w, accepting) ==
    /\ worker[w].known
    /\ worker' = [worker EXCEPT ![w].accepting = accepting, ![w].age = 0]
    /\ UNCHANGED <<run, lease, agent, arrivals>>

SetAgentStatus(a, status) ==
    /\ agent' = [agent EXCEPT ![a] = status]
    /\ UNCHANGED <<run, lease, worker, arrivals>>

-----------------------------------------------------------------------------
(* The queue. *)

Enqueue(r) ==
    /\ run[r].status = "absent"
    /\ run' = [run EXCEPT ![r] =
         [NoRun EXCEPT !.status = "queued", !.sticky = StickyWait[r],
                       !.born = arrivals]]
    /\ arrivals' = arrivals + 1
    /\ UNCHANGED <<lease, worker, agent>>

\* A worker that polls while it holds a live lease gets the leased run back.
ClaimAgain(w, q) ==
    /\ Claimable(w) /\ HeldBy(w, q) # {}
    /\ lease' = Swept
    /\ UNCHANGED <<run, worker, agent, arrivals>>

ClaimRun(w, q, r) ==
    /\ Claimable(w) /\ HeldBy(w, q) = {}
    /\ r \in Offered(w, q)
    /\ \A s \in Offered(w, q) : ~Before(s, r)
    /\ run' = [run EXCEPT ![r].worker = w]
    /\ lease' = [Swept EXCEPT ![r] =
                   [holder |-> w, active |-> TRUE, left |-> TTL(r)]]
    /\ UNCHANGED <<worker, agent, arrivals>>

ClaimNothing(w, q) ==
    /\ Claimable(w) /\ HeldBy(w, q) = {} /\ Offered(w, q) = {}
    /\ lease' = Swept
    /\ UNCHANGED <<run, worker, agent, arrivals>>

\* Mutant of MayReport: it does not ask whether a lapsed run is running.
MayReportLapsed(w, r) ==
    /\ run[r].status \in {"queued", "running"}
    /\ IF Live(r) THEN lease[r].holder = w ELSE run[r].worker = w

\* The checks report makes before it writes.
MayReport(w, r) ==
    /\ run[r].status \in {"queued", "running"}
    /\ IF Live(r) THEN lease[r].holder = w
                  ELSE run[r].status # "running" /\ run[r].worker = w

\* Mutant of LeaseAfterReport: only success gives the lease up.
LeaseKeptByFailure(r, status, pausing) ==
    IF ~Live(r) THEN Swept[r]
    ELSE IF status # "completed" /\ ~pausing THEN [lease[r] EXCEPT !.left = TTL(r)]
    ELSE Released(r)

\* A RUNNING report renews the lease, or gives it up when the run waits for
\* an outside decision; an outcome gives it up.  Without a live lease the
\* report leaves the leases as the sweep left them.
LeaseAfterReport(r, status, pausing) ==
    IF ~Live(r) THEN Swept[r]
    ELSE IF status = "running" /\ ~pausing THEN [lease[r] EXCEPT !.left = TTL(r)]
    ELSE Released(r)

Report(w, r, status, pausing) ==
    /\ MayReport(w, r)
    /\ run' = [run EXCEPT ![r].status = status, ![r].paused = @ \/ pausing]
    /\ lease' = [Swept EXCEPT ![r] = LeaseAfterReport(r, status, pausing)]
    /\ UNCHANGED <<worker, agent, arrivals>>

\* A refused report of a run that is not over has swept the leases already.
ReportRefused(w, r) ==
    /\ run[r].status \in {"queued", "running"} /\ ~MayReport(w, r)
    /\ lease' = Swept
    /\ UNCHANGED <<run, worker, agent, arrivals>>

RequeueRun(r, wait, counted) ==
    /\ run[r].status \in {"queued", "running", "failed"}
    /\ counted => run[r].retries < RetryCap
    /\ run' = [run EXCEPT ![r] = Requeued(r, wait, counted)]
    /\ lease' = [lease EXCEPT ![r] = Released(r)]
    /\ UNCHANGED <<worker, agent, arrivals>>

ForceFailRun(r) ==
    /\ run[r].status \in {"queued", "running"}
    /\ run' = [run EXCEPT ![r].status = "failed"]
    /\ lease' = [lease EXCEPT ![r] = Released(r)]
    /\ UNCHANGED <<worker, agent, arrivals>>

\* A queued run is cancelled at once; a running one is only asked to stop.
CancelRun(r) ==
    /\ \/ /\ run[r].status = "queued"
          /\ run' = [run EXCEPT ![r].status = "cancelled", ![r].cancel = TRUE]
          /\ lease' = [lease EXCEPT ![r] = Released(r)]
       \/ /\ run[r].status = "running"
          /\ run' = [run EXCEPT ![r].cancel = TRUE]
          /\ UNCHANGED lease
    /\ UNCHANGED <<worker, agent, arrivals>>

\* Mutant of Abandoned: a run without retries left is skipped.
AbandonedWithinBudget == {r \in Runs :
    /\ run[r].status = "running" /\ ~run[r].paused /\ ~Live(r)
    /\ run[r].retries < MaxRetries[r]}

\* The runs one tick of the recovery daemon reconciles.
Abandoned == {r \in Runs :
    run[r].status = "running" /\ ~run[r].paused /\ ~Live(r)}

\* Mutant of Recovered: one retry too many.
RecoveredOnceMore(r) ==
    IF run[r].retries > MaxRetries[r]
    THEN [run[r] EXCEPT !.status = "failed"]
    ELSE Requeued(r, Backoff, TRUE)

Recovered(r) ==
    IF run[r].retries >= MaxRetries[r]
    THEN [run[r] EXCEPT !.status = "failed"]
    ELSE Requeued(r, Backoff, TRUE)

RecoverStaleRuns ==
    /\ Abandoned # {}
    /\ run' = [r \in Runs |-> IF r \in Abandoned THEN Recovered(r) ELSE run[r]]
    /\ lease' = [r \in Runs |-> IF r \in Abandoned THEN Released(r) ELSE lease[r]]
    /\ UNCHANGED <<worker, agent, arrivals>>

\* One unit of time passes.
Sooner(n) == IF n > 0 THEN n - 1 ELSE n

Tick ==
    /\ run' = [r \in Runs |-> [run[r] EXCEPT !.wait = Sooner(@),
                                             !.sticky = Sooner(@)]]
    /\ lease' = [r \in Runs |-> [lease[r] EXCEPT !.left = Sooner(@)]]
    /\ worker' = [w \in Workers |->
         [worker[w] EXCEPT !.age = IF @ > StaleAfter THEN @ ELSE @ + 1]]
    /\ UNCHANGED <<agent, arrivals>>

-----------------------------------------------------------------------------

WorkerCall(w) ==
    \/ \E mode \in Modes : Register(w, mode)
    \/ \E accepting \in Accepting : Heartbeat(w, accepting)
    \/ \E q \in Queues : ClaimAgain(w, q) \/ ClaimNothing(w, q)
    \/ \E q \in Queues, r \in Runs : ClaimRun(w, q, r)
    \/ \E r \in Runs, status \in Reportable, pausing \in Pauses :
         Report(w, r, status, pausing)
    \/ \E r \in Runs : ReportRefused(w, r)

OperatorCall(r) ==
    \/ Enqueue(r)
    \/ \E wait \in {1, Backoff}, counted \in BOOLEAN : RequeueRun(r, wait, counted)
    \/ ForceFailRun(r)
    \/ CancelRun(r)

Next ==
    \/ \E w \in Workers : WorkerCall(w)
    \/ \E r \in Runs : OperatorCall(r)
    \/ \E a \in Agents, status \in AgentStatuses : SetAgentStatus(a, status)
    \/ RecoverStaleRuns
    \/ Tick

Spec == Init /\ [][Next]_vars

-----------------------------------------------------------------------------
(* Properties. *)

\* Every variable keeps its type; a record left by any sequence of calls on
\* worker_run_queue, worker_leases and the registries is one of these.
TypeOK ==
    /\ run \in [Runs -> RunType]
    /\ lease \in [Runs -> LeaseType]
    /\ worker \in [Workers -> WorkerType]
    /\ agent \in [Agents -> AgentStatuses]
    /\ arrivals \in Nat

\* A lease record that is still active belongs to the worker the run is
\* assigned to, and its run is not over: claim, report, requeue, cancel,
\* force-fail and recovery keep the two tables together although each saves
\* them separately.
LeaseMatchesRun ==
    \A r \in Runs : lease[r].active =>
        /\ run[r].status \in {"queued", "running"}
        /\ lease[r].holder = run[r].worker
        /\ lease[r].holder \in Workers

\* A worker never holds live leases on two runs of one queue, whatever it
\* asks for: polling again returns the run it has.
OneLeasePerWorker ==
    \A r, s \in Runs :
        /\ Live(r) /\ Live(s) /\ lease[r].holder = lease[s].holder
        /\ QueueOf[r] = QueueOf[s]
        => r = s

\* Once the lease of a running run has lapsed, no late report revives the
\* lease or settles the run: it stays running until it is requeued or failed.
LapsedRunCannotFinish ==
    [][\A r \in Runs : run[r].status = "running" /\ ~Live(r) =>
          /\ run'[r].status \in {"running", "queued", "failed"}
          /\ ~Live(r)']_vars

\* A report is only accepted from the worker the run is assigned to, although
\* the lease branch of report never looks at the assignment.
ReporterIsAssigned ==
    [][\A w \in Workers, r \in Runs, status \in Reportable, pausing \in Pauses :
          Report(w, r, status, pausing) => run[r].worker = w]_vars

\* What docs/worker-inventory.md says of priority: a claim never hands out a
\* run while a run of higher priority that nothing withholds is waiting in
\* the same queue.  The first pass of claim breaks it for sticky runs.
HigherPriorityFirst ==
    [][\A w \in Workers, q \in Queues, r \in Runs : ClaimRun(w, q, r) =>
          \A s \in Ready(q) : ~KeptFor(s, w) => Priority[s] <= Priority[r]]_vars

\* The contract the queue implements: an owner is the holder of a live lease.
Phase(r) ==
    CASE run[r].status \in {"queued", "running"}      -> "open"
      [] run[r].status \in {"completed", "cancelled"} -> "closed"
      [] OTHER                                        -> run[r].status

Contract == INSTANCE RunContract WITH
    phase <- [r \in Runs |-> Phase(r)],
    owner <- [r \in Runs |-> LiveHolder(r)]

\* Every call of the service, and every tick of the clock, is a step of the
\* contract or leaves phases and owners alone.
ImplementsContract == Contract!Spec

=============================================================================
