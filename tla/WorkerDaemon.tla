----------------------------- MODULE WorkerDaemon -----------------------------
(***************************************************************************)
(* The worker daemons (MacWorkerDaemon) against the scheduler.  A daemon   *)
(* is one thread that registers, heartbeats, polls for a run and processes *)
(* it, one HTTP call at a time.  A request or its reply may be lost, and   *)
(* the process may die anywhere and start again knowing nothing: the       *)
(* scheduler's tables are all that survives.                               *)
(*                                                                         *)
(* A call is an action of WorkerScheduler together with where the daemon   *)
(* goes next; an error takes it back to polling (serve_forever).           *)
(***************************************************************************)
EXTENDS WorkerScheduler

CONSTANTS
    NoTask,     \* the None of _current_run_id
    Outcomes,   \* the <<status, pausing>> an execution may end with
    Study,      \* the runs whose success enqueues a git sync run
    Overruns,   \* whether a daemon may be slower than its lease
    Operators,  \* what operators do: "cancel", "fail", "requeue"
    MaxFaults   \* bound: crashes and lost messages together

ASSUME DaemonAssumption ==
    /\ NoTask \notin Runs
    /\ Outcomes \subseteq Reportable \X BOOLEAN
    /\ Study \subseteq Runs
    /\ Overruns \in BOOLEAN
    /\ Operators \subseteq {"cancel", "fail", "requeue"}
    /\ MaxFaults \in Nat
    \* the inputs of WorkerScheduler include what daemons send
    /\ "active" \in Modes /\ TRUE \in Accepting /\ FALSE \in Pauses
    /\ \A o \in Outcomes : o[2] \in Pauses

VARIABLES
    daemon,   \* where each daemon is and the run it has in hand
    synced,   \* the study runs whose git sync run was enqueued
    faults

local == <<daemon, synced, faults>>
fleetVars == <<run, lease, worker, agent, arrivals, daemon, synced, faults>>

Places == {"down", "starting", "polling", "claimed", "asking", "cancelling",
           "executing", "reporting"}
Processing == {"claimed", "asking", "cancelling", "executing", "reporting"}

\* current: nobody claimed or requeued the run since this daemon claimed it;
\* only properties read it.
At(place) == [at |-> place, task |-> NoTask, current |-> FALSE]

FleetInit ==
    /\ Init
    /\ daemon = [w \in Workers |-> At("starting")]
    /\ synced = {}
    /\ faults = 0

-----------------------------------------------------------------------------
(* How a call ends for the daemon that made it. *)

Faulty == faults < MaxFaults /\ faults' = faults + 1

\* The daemon after step d, when the run r was taken away from the others.
Moves(w, d, r) ==
    daemon' = [u \in Workers |->
        IF u = w THEN d
        ELSE IF daemon[u].task = r THEN [daemon[u] EXCEPT !.current = FALSE]
        ELSE daemon[u]]

\* Mutant of GoesTo: the run in hand is not forgotten.
GoesToWithTask(w, place) == daemon' = [daemon EXCEPT ![w].at = place]

GoesTo(w, place) ==
    daemon' = [daemon EXCEPT ![w] =
        IF place \in Processing THEN [@ EXCEPT !.at = place] ELSE At(place)]

\* The call was carried out: its answer arrives, or is lost and the daemon
\* ends up at onError.
Returns(w, place, onError) ==
    \/ GoesTo(w, place) /\ UNCHANGED faults
    \/ GoesTo(w, onError) /\ Faulty

-----------------------------------------------------------------------------
(* The daemon. *)

RegisterSelf(w) ==
    /\ daemon[w].at = "starting"
    /\ Register(w, "active")
    /\ Returns(w, "polling", "starting")
    /\ UNCHANGED synced

\* Heartbeats are sent between runs only, so they always accept work.
SendHeartbeat(w) ==
    /\ daemon[w].at = "polling"
    /\ Heartbeat(w, TRUE)
    /\ Returns(w, "polling", "polling")
    /\ UNCHANGED synced

\* A claim that hands out r, whose answer may be lost.
Receives(w, r) ==
    \/ Moves(w, [at |-> "claimed", task |-> r, current |-> TRUE], r) /\ UNCHANGED faults
    \/ Moves(w, At("polling"), r) /\ Faulty

Poll(w) ==
    /\ daemon[w].at = "polling"
    /\ \E q \in Queues :
         \/ ClaimNothing(w, q) /\ UNCHANGED <<daemon, faults>>
         \/ \E r \in Runs : ClaimRun(w, q, r) /\ Receives(w, r)
         \/ \E r \in HeldBy(w, q) : ClaimAgain(w, q) /\ Receives(w, r)
    /\ UNCHANGED synced

\* The scheduler answers a report of the run in hand with an error.
Refused(w) ==
    \/ ReportRefused(w, daemon[w].task)
    \/ run[daemon[w].task].status \in Terminal /\ UNCHANGED vars

\* Mutant of ReportStart: an error of the first report does not stop the run.
ReportStartBlindly(w) ==
    /\ daemon[w].at = "claimed"
    /\ \/ Report(w, daemon[w].task, "running", FALSE)
       \/ Refused(w)
    /\ GoesTo(w, "asking")
    /\ UNCHANGED <<synced, faults>>

ReportStart(w) ==
    /\ daemon[w].at = "claimed"
    /\ \/ /\ Report(w, daemon[w].task, "running", FALSE)
          /\ Returns(w, "asking", "polling")
       \/ Refused(w) /\ GoesTo(w, "polling") /\ UNCHANGED faults
    /\ UNCHANGED synced

\* get_run answers None when the request fails, and None is not a
\* cancellation.
AskWhetherCancelled(w) ==
    /\ daemon[w].at = "asking"
    /\ \/ /\ GoesTo(w, IF run[daemon[w].task].cancel THEN "cancelling" ELSE "executing")
          /\ UNCHANGED faults
       \/ GoesTo(w, "executing") /\ Faulty
    /\ UNCHANGED <<vars, synced>>

\* Progress reports of an executor; their errors are swallowed.
ReportProgress(w) ==
    /\ daemon[w].at = "executing"
    /\ Report(w, daemon[w].task, "running", FALSE) \/ Refused(w)
    /\ UNCHANGED local

\* Mutant of EnqueueSync: an error of the enqueue call is swallowed.
EnqueueSyncQuietly(w) ==
    /\ daemon[w].at = "executing" /\ daemon[w].task \in Study
    /\ \/ synced' = synced \union {daemon[w].task} /\ UNCHANGED faults
       \/ UNCHANGED synced /\ Faulty
    /\ GoesTo(w, "reporting")
    /\ UNCHANGED vars

\* A study run succeeded: its git sync run is enqueued before the outcome is
\* reported.
EnqueueSync(w) ==
    /\ daemon[w].at = "executing" /\ daemon[w].task \in Study
    /\ synced' = synced \union {daemon[w].task}
    /\ Returns(w, "reporting", "polling")
    /\ UNCHANGED vars

\* The outcomes the daemon may be about to report, from where it stands.
Reports(w) ==
    CASE daemon[w].at = "cancelling" -> {<<"cancelled", FALSE>>}
      [] daemon[w].at = "reporting" -> {<<"completed", FALSE>>}
      [] daemon[w].at = "executing" ->
           {o \in Outcomes : daemon[w].task \in Study => o[1] # "completed"}
      [] OTHER -> {}

ReportOutcome(w) ==
    /\ \E o \in Reports(w) :
         \/ /\ Report(w, daemon[w].task, o[1], o[2])
            /\ Returns(w, "polling", "polling")
         \/ Refused(w) /\ GoesTo(w, "polling") /\ UNCHANGED faults
    /\ UNCHANGED synced

\* A request about a run that never reaches the control plane, or an answer
\* whose read times out: what _request_json does not turn into its own error
\* escapes get_run, too.  Losing a progress report does not stop the run, and
\* losing a registration, heartbeat or poll only delays it.
LoseRequest(w) ==
    /\ daemon[w].at \in Processing
    /\ GoesTo(w, "polling") /\ Faulty
    /\ UNCHANGED <<vars, synced>>

Crash(w) ==
    /\ daemon[w].at # "down"
    /\ GoesTo(w, "down") /\ Faulty
    /\ UNCHANGED <<vars, synced>>

Restart(w) ==
    /\ daemon[w].at = "down"
    /\ GoesTo(w, "starting")
    /\ UNCHANGED <<vars, synced, faults>>

-----------------------------------------------------------------------------
(* The control plane's side. *)

\* The runs in S lose whoever was working on them.
Supersede(S) ==
    /\ daemon' = [w \in Workers |->
         IF daemon[w].task \in S THEN [daemon[w] EXCEPT !.current = FALSE] ELSE daemon[w]]
    /\ UNCHANGED <<synced, faults>>

Recover == RecoverStaleRuns /\ Supersede(Abandoned)

\* The outside decision a paused run waits for.  The Telegram card stays
\* usable after it was used: the run is requeued whatever it does by then.
Resume(r) == run[r].paused /\ RequeueRun(r, 1, FALSE) /\ Supersede({r})

Operate(r) ==
    \/ Enqueue(r) /\ UNCHANGED local
    \/ "cancel" \in Operators /\ CancelRun(r) /\ UNCHANGED local
    \/ "fail" \in Operators /\ ForceFailRun(r) /\ UNCHANGED local
    \/ /\ "requeue" \in Operators
       /\ RequeueRun(r, Backoff, TRUE) /\ Supersede({r})

\* Time passes.  A fleet without overruns is one whose daemons make every
\* call on a run before its lease runs out, and heartbeat before they are
\* stale.
TimePasses ==
    /\ Overruns \/ \A w \in Workers :
         /\ daemon[w].at \in Processing => lease[daemon[w].task].left # 1
         /\ daemon[w].at = "polling" => worker[w].age < StaleAfter
    /\ Tick
    /\ UNCHANGED local

DaemonStep(w) ==
    \/ RegisterSelf(w) \/ SendHeartbeat(w) \/ Poll(w) \/ ReportStart(w)
    \/ AskWhetherCancelled(w) \/ ReportProgress(w) \/ EnqueueSync(w)
    \/ ReportOutcome(w) \/ LoseRequest(w) \/ Crash(w) \/ Restart(w)

FleetNext ==
    \/ \E w \in Workers : DaemonStep(w)
    \/ \E r \in Runs : Resume(r) \/ Operate(r)
    \/ Recover
    \/ TimePasses

FleetSpec == FleetInit /\ [][FleetNext]_fleetVars

\* Daemons that are up keep going, executions end, processes are restarted,
\* the recovery daemon is enabled, and the clock advances.
Work(w) ==
    \/ RegisterSelf(w) \/ ReportStart(w) \/ AskWhetherCancelled(w)
    \/ EnqueueSync(w) \/ ReportOutcome(w) \/ Restart(w)

Fairness ==
    /\ \A w \in Workers :
         /\ WF_fleetVars(Work(w)) /\ WF_fleetVars(Poll(w))
         /\ WF_fleetVars(SendHeartbeat(w))
    /\ WF_fleetVars(Recover)
    /\ WF_fleetVars(TimePasses)

FairFleetSpec == FleetSpec /\ Fairness

-----------------------------------------------------------------------------
(* Properties. *)

\* Daemons stay in the places of the code, with a run in hand exactly while
\* they process one.
FleetTypeOK ==
    /\ daemon \in [Workers -> [at : Places, task : Runs \union {NoTask}, current : BOOLEAN]]
    /\ \A w \in Workers : daemon[w].at \in Processing <=> daemon[w].task # NoTask
    /\ synced \subseteq Runs
    /\ faults \in 0..MaxFaults

\* A daemon fast enough for its lease executes only what it holds the lease
\* of, so no run is executed twice at once: crashes, restarts, lost messages
\* and cancellations notwithstanding.
ExecutorHoldsLease ==
    \A w \in Workers :
        daemon[w].at \in {"executing", "reporting"} => LiveHolder(daemon[w].task) = w

\* However late daemons are, and whatever operators do, only the last one to
\* have been given a run can settle it: reports carry no attempt number, and
\* the assignment alone tells a late report from a current one.
OnlyCurrentMayReport ==
    \A w \in Workers :
        daemon[w].task # NoTask /\ MayReport(w, daemon[w].task) => daemon[w].current

\* A study run that was completed has had its git sync run enqueued, however
\* often the daemon crashed or lost answers in between.
CompletedStudyIsSynced ==
    \A r \in Study : run[r].status = "completed" => r \in synced

\* Unless operators spend retries, no run is ever retried beyond its budget,
\* however its workers crash, fail or fall silent.
RetriesWithinBudget == \A r \in Runs : run[r].retries <= MaxRetries[r]

\* Every run that is enqueued is completed, failed or cancelled.
EveryRunSettles ==
    \A r \in Runs : run[r].status = "queued" ~> run[r].status \in Terminal

\* What docs/QUICK_START.md says of the recovery daemon: a running run whose
\* lease has expired is reconciled.  A run that paused once is not.
StaleRunsReconciled ==
    \A r \in Runs :
        /\ run[r].status = "running" /\ lease[r].active /\ lease[r].left = 0
        ~> run[r].status # "running" \/ Live(r)

=============================================================================
