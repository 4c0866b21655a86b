----------------------------- MODULE ClaudeAgents -----------------------------
(***************************************************************************)
(* ClaudeAgentService: agent runs are records in a table, executed by a    *)
(* thread each that starts a process and follows it, while requests create *)
(* and cancel runs.  A thread and a request save whole records they read   *)
(* earlier; what they share besides is the set of cancellations asked for  *)
(* and the registered processes, both in memory.  Each access to a table,  *)
(* the set or a process is one step.                                       *)
(***************************************************************************)
EXTENDS Integers, FiniteSets

CONSTANTS
    Runs,
    NoRun,
    MaxAgents,     \* max_agents
    Creators,      \* how many requests create a run at the same time
    Cancellers,    \* bound: the requests to cancel a run
    MaxStops       \* bound: how often the server stops

\* What the constants have to be.
AgentsAssumption ==
    /\ NoRun \notin Runs
    /\ MaxAgents \in Nat /\ Creators \in Nat \ {0} /\ MaxStops \in Nat

VARIABLES
    record,      \* the status saved of each run, or "absent"
    creating,    \* the runs a request found room for and has not saved
    thread,      \* what executes each run: where it is, the status of the
                 \* record it is about to save, and its process
    cancelling,  \* where each request is, its run, the status it read
    wanted,      \* _cancel_requests
    serverStops,
    confirmed,   \* runs a cancel call reported cancelled; only read by properties
    adrift       \* runs whose thread or cancel call was lost, until a cancel
                 \* call reports their end; only read by properties

agentVars == <<record, creating, thread, cancelling, wanted, serverStops, confirmed, adrift>>

Active == {"QUEUED", "RUNNING"}
Ended == {"COMPLETED", "FAILED", "CANCELLED"}

Nothing == "-"
NoThread == [at |-> "none", holds |-> Nothing, process |-> "running"]
Due == [at |-> "due", holds |-> Nothing, process |-> "running"]
Over == [at |-> "over", holds |-> Nothing, process |-> "running"]
NoCall == [at |-> "idle", run |-> NoRun, holds |-> Nothing]
AnsweredCall == [at |-> "answered", run |-> NoRun, holds |-> Nothing]

\* Between _register_process and _unregister_process.
Registered == {"polling", "previewing", "reaped", "settling", "settled", "excusing", "excused"}

\* Begin with runs that completed, requests to cancel that were answered, and
\* a number of stops of the server.
AgentsInitAfter(past, answered, stops) ==
    /\ record = [r \in Runs |-> IF r \in past THEN "COMPLETED" ELSE "absent"]
    /\ creating = {}
    /\ thread = [r \in Runs |-> IF r \in past THEN Over ELSE NoThread]
    /\ cancelling = [c \in Cancellers |-> IF c \in answered THEN AnsweredCall ELSE NoCall]
    /\ wanted = {}
    /\ serverStops = stops
    /\ confirmed = {}
    /\ adrift = {}

AgentsInit == AgentsInitAfter({}, {}, 0)

-----------------------------------------------------------------------------
(* Creating runs. *)

ActiveRuns == {r \in Runs : record[r] \in Active}

\* Mutant of HasRoom: the limit is compared after the fact.
HasRoomAfterwards == Cardinality(ActiveRuns) <= MaxAgents

HasRoom == Cardinality(ActiveRuns) < MaxAgents

\* create counts the active runs ...
Admit(r) ==
    /\ record[r] = "absent" /\ r \notin creating
    /\ Cardinality(creating) < Creators
    /\ HasRoom
    /\ creating' = creating \union {r}
    /\ UNCHANGED <<record, thread, cancelling, wanted, serverStops, confirmed, adrift>>

\* ... and saves the new one, which a thread is to execute, unless the note to
\* the session raises; retry is create again with the request of a run that
\* failed or was cancelled.
Enrol(r) ==
    /\ r \in creating
    /\ creating' = creating \ {r}
    /\ record' = [record EXCEPT ![r] = "QUEUED"]
    /\ \/ /\ thread' = [thread EXCEPT ![r] = Due]
          /\ UNCHANGED adrift
       \/ /\ thread' = [thread EXCEPT ![r] = Over]
          /\ adrift' = adrift \union {r}
    /\ UNCHANGED <<cancelling, wanted, serverStops, confirmed>>

-----------------------------------------------------------------------------
(* Executing a run. *)

\* The thread of r goes on, with a record of the given status to save.
ThreadGoes(r, at, holds) ==
    thread' = [thread EXCEPT ![r] = [at |-> at, holds |-> holds, process |-> thread[r].process]]
OnlyThreads == UNCHANGED <<creating, cancelling, serverStops, confirmed>>

\* execute reads the record: a run that ended while it waited is left alone.
\* fail_preflight does the same for a run that cannot be started, but for
\* taking the request to cancel off the books.
Prepare(r) ==
    /\ thread[r].at = "due"
    /\ \/ /\ record[r] \in Ended
          /\ ThreadGoes(r, "over", Nothing)
          /\ wanted' \in {wanted, wanted \ {r}}
       \/ /\ record[r] \in Active
          /\ \/ ThreadGoes(r, "begun", "RUNNING")
             \/ ThreadGoes(r, "rejecting", "FAILED")
          /\ UNCHANGED wanted
    /\ UNCHANGED <<record, adrift>> /\ OnlyThreads

\* The rest of fail_preflight.
RejectRun(r) ==
    /\ thread[r].at = "rejecting"
    /\ record' = [record EXCEPT ![r] = thread[r].holds]
    /\ ThreadGoes(r, "over", Nothing)
    /\ wanted' = wanted \ {r}
    /\ UNCHANGED adrift /\ OnlyThreads

\* After images and history were fetched, which may take any time.
SaveRunning(r) ==
    /\ thread[r].at = "begun"
    /\ record' = [record EXCEPT ![r] = thread[r].holds]
    /\ ThreadGoes(r, "entered", Nothing)
    /\ UNCHANGED <<wanted, adrift>> /\ OnlyThreads

\* Whatever raises before the try statement ends the thread and nothing else.
Raise(r) ==
    /\ thread[r].at \in {"begun", "rejecting", "entered"}
    /\ ThreadGoes(r, "over", Nothing)
    /\ adrift' = adrift \union {r}
    /\ UNCHANGED <<record, wanted>> /\ OnlyThreads

\* Popen fails, or the process runs and is registered in the next step.
Launch(r) ==
    /\ thread[r].at = "entered"
    /\ \/ ThreadGoes(r, "launched", Nothing)
       \/ ThreadGoes(r, "excusing", "FAILED")
    /\ UNCHANGED <<record, wanted, adrift>> /\ OnlyThreads

Register(r) ==
    /\ thread[r].at = "launched"
    /\ ThreadGoes(r, "polling", Nothing)
    /\ UNCHANGED <<record, wanted, adrift>> /\ OnlyThreads

\* The threads once this became of the process of r.
Found(r, process) ==
    [thread EXCEPT ![r] = [at |-> thread[r].at, holds |-> thread[r].holds, process |-> process]]

\* The process ends by itself.
ProcessExits(r) ==
    /\ thread[r].at \in {"launched", "polling", "previewing"} /\ thread[r].process # "gone"
    /\ thread' = Found(r, "gone")
    /\ UNCHANGED <<record, wanted, adrift>> /\ OnlyThreads

\* The wall clock passes the deadline of the run.
Overrun(r) ==
    /\ thread[r].at \in {"polling", "previewing"} /\ thread[r].process = "running"
    /\ thread' = Found(r, "overdue")
    /\ UNCHANGED <<record, wanted, adrift>> /\ OnlyThreads

\* Until then _persist_running_stdout_preview reads the record and saves the copy.
ReadForPreview(r) ==
    /\ thread[r].at = "polling" /\ thread[r].process = "running" /\ record[r] \in Active
    /\ ThreadGoes(r, "previewing", record[r])
    /\ UNCHANGED <<record, wanted, adrift>> /\ OnlyThreads

SavePreview(r) ==
    /\ thread[r].at = "previewing"
    /\ record' = [record EXCEPT ![r] = thread[r].holds]
    /\ ThreadGoes(r, "polling", Nothing)
    /\ UNCHANGED <<wanted, adrift>> /\ OnlyThreads

\* A process that ended is left to Conclude, one that is overdue is killed.
Reap(r) ==
    /\ thread[r].at = "polling"
    /\ \/ thread[r].process = "gone" /\ ThreadGoes(r, "reaped", Nothing)
       \/ thread[r].process = "overdue" /\ ThreadGoes(r, "settling", "FAILED")
    /\ UNCHANGED <<record, wanted, adrift>> /\ OnlyThreads

\* Mutant of WasCancelled: only the record tells.
WasCancelledOnRecord(r) == record[r] = "CANCELLED"

WasCancelled(r) == r \in wanted \/ record[r] = "CANCELLED"

\* The outcome is decided by what was asked for and how the process ended ...
Conclude(r) ==
    /\ thread[r].at = "reaped"
    /\ \/ WasCancelled(r) /\ ThreadGoes(r, "settling", "CANCELLED")
       \/ ~WasCancelled(r) /\ \E outcome \in {"COMPLETED", "FAILED"} : ThreadGoes(r, "settling", outcome)
    /\ UNCHANGED <<record, wanted, adrift>> /\ OnlyThreads

\* ... and saved, whatever became of the record meanwhile.
Settle(r) ==
    /\ thread[r].at = "settling"
    /\ record' = [record EXCEPT ![r] = thread[r].holds]
    /\ ThreadGoes(r, "settled", Nothing)
    /\ UNCHANGED <<wanted, adrift>> /\ OnlyThreads

\* Anything that raises inside the try statement, the note to the session
\* after the outcome was saved included, fails the run.
Fail(r) ==
    /\ thread[r].at \in {"polling", "previewing", "reaped", "settling", "settled"}
    /\ ThreadGoes(r, "excusing", "FAILED")
    /\ UNCHANGED <<record, wanted, adrift>> /\ OnlyThreads

\* The except clause saves the failure.
Excuse(r) ==
    /\ thread[r].at = "excusing"
    /\ record' = [record EXCEPT ![r] = thread[r].holds]
    /\ ThreadGoes(r, "excused", Nothing)
    /\ UNCHANGED <<wanted, adrift>> /\ OnlyThreads

\* The finally clause takes the request to cancel and the process off the books.
Finish(r) ==
    /\ thread[r].at \in {"settled", "excused"}
    /\ ThreadGoes(r, "over", Nothing)
    /\ wanted' = wanted \ {r}
    /\ UNCHANGED <<record, adrift>> /\ OnlyThreads

ThreadStep(r) ==
    \/ Prepare(r) \/ RejectRun(r) \/ SaveRunning(r) \/ Raise(r) \/ Launch(r) \/ Register(r)
    \/ ReadForPreview(r) \/ SavePreview(r)
    \/ Reap(r) \/ Conclude(r) \/ Settle(r) \/ Fail(r) \/ Excuse(r) \/ Finish(r)

-----------------------------------------------------------------------------
(* Cancelling a run. *)

OnlyCancelling == UNCHANGED <<creating, serverStops>>

CallGoes(c, at) ==
    cancelling' = [cancelling EXCEPT
        ![c] = [at |-> at, run |-> cancelling[c].run, holds |-> cancelling[c].holds]]

\* The call returns the record of r with this status.
Answers(c, r, status) ==
    /\ cancelling' = [cancelling EXCEPT ![c] = AnsweredCall]
    /\ confirmed' = IF status = "CANCELLED" THEN confirmed \union {r} ELSE confirmed
    /\ adrift' = adrift \ {r}

\* cancel reads the record; that of a run that ended is its answer.
ReadToCancel(c, r) ==
    /\ cancelling[c].at = "idle"
    /\ \/ record[r] \in Ended /\ Answers(c, r, record[r])
       \/ /\ record[r] \in Active
          /\ cancelling' = [cancelling EXCEPT ![c] = [at |-> "read", run |-> r, holds |-> record[r]]]
          /\ UNCHANGED <<confirmed, adrift>>
    /\ UNCHANGED <<record, thread, wanted>> /\ OnlyCancelling

\* The reason is saved with the record that was read, and so the status of
\* that moment: a run that ended since is active again.
SaveReason(c) ==
    /\ cancelling[c].at = "read"
    /\ record' = [record EXCEPT ![cancelling[c].run] = cancelling[c].holds]
    /\ CallGoes(c, "saved")
    /\ UNCHANGED <<thread, wanted, confirmed, adrift>> /\ OnlyCancelling

AskToCancel(c) ==
    /\ cancelling[c].at = "saved"
    /\ wanted' = wanted \union {cancelling[c].run}
    /\ CallGoes(c, "asked")
    /\ UNCHANGED <<record, thread, confirmed, adrift>> /\ OnlyCancelling

\* A registered process is terminated, then killed.
Signal(c) ==
    /\ cancelling[c].at = "asked"
    /\ LET r == cancelling[c].run IN
       thread' = IF thread[r].at \in Registered THEN Found(r, "gone") ELSE thread
    /\ CallGoes(c, "waiting")
    /\ UNCHANGED <<record, wanted, confirmed, adrift>> /\ OnlyCancelling

SeesEnd(c) ==
    /\ cancelling[c].at = "waiting"
    /\ LET r == cancelling[c].run IN
       record[r] \in Ended /\ Answers(c, r, record[r])
    /\ UNCHANGED <<record, thread, wanted>> /\ OnlyCancelling

\* Mutant of Deadline: the caller is told, the record is left as it is.
DeadlineWithoutForce(c) ==
    /\ cancelling[c].at = "waiting"
    /\ LET r == cancelling[c].run IN
       record[r] \in Active /\ thread[r].at # "settling" /\ Answers(c, r, "CANCELLED")
    /\ UNCHANGED <<record, thread, wanted>> /\ OnlyCancelling

\* Nothing ended the run within 35 seconds, which is time enough to save an
\* outcome that was decided before: the call reads once more ...
Deadline(c) ==
    /\ cancelling[c].at = "waiting"
    /\ LET r == cancelling[c].run IN record[r] \in Active /\ thread[r].at # "settling"
    /\ CallGoes(c, "forcing")
    /\ UNCHANGED <<record, thread, wanted, confirmed, adrift>> /\ OnlyCancelling

\* ... and saves the end itself.  The thread goes on.
ForceEnd(c) ==
    /\ cancelling[c].at = "forcing"
    /\ LET r == cancelling[c].run IN
       /\ record' = [record EXCEPT ![r] = "CANCELLED"]
       /\ Answers(c, r, "CANCELLED")
    /\ UNCHANGED <<thread, wanted>> /\ OnlyCancelling

CancelStep(c) ==
    \/ SaveReason(c) \/ AskToCancel(c) \/ Signal(c) \/ SeesEnd(c) \/ Deadline(c) \/ ForceEnd(c)

-----------------------------------------------------------------------------

\* The server stops: the table is all that is left, and no code looks for the
\* runs that were active.
StopServer ==
    /\ serverStops < MaxStops
    /\ serverStops' = serverStops + 1
    /\ adrift' = adrift \union {r \in Runs : thread[r].at \notin {"none", "over"}}
                        \union {cancelling[c].run : c \in {c \in Cancellers : cancelling[c].run # NoRun}}
    /\ creating' = {}
    /\ thread' = [r \in Runs |->
         IF thread[r].at = "none" THEN NoThread ELSE Over]
    /\ cancelling' = [c \in Cancellers |-> IF cancelling[c].run = NoRun THEN cancelling[c] ELSE AnsweredCall]
    /\ wanted' = {}
    /\ UNCHANGED <<record, confirmed>>

AgentsNext ==
    \/ \E r \in Runs : Admit(r) \/ Enrol(r) \/ ThreadStep(r) \/ ProcessExits(r) \/ Overrun(r)
    \/ \E c \in Cancellers : CancelStep(c) \/ \E r \in Runs : ReadToCancel(c, r)
    \/ StopServer

AgentsSpec == AgentsInit /\ [][AgentsNext]_agentVars

\* Some thread or request goes on, as long as one can: the weakest assumption,
\* since every one of them has an end but for the previews of a process, which
\* the deadline of the run stops.  No process has to end by itself, and nobody
\* has to ask for anything.
GoesOn == (\E r \in Runs : ThreadStep(r)) \/ (\E c \in Cancellers : CancelStep(c))
TimePasses == \E r \in Runs : Overrun(r)
AgentsFairness == WF_agentVars(GoesOn) /\ WF_agentVars(TimePasses)
FairAgentsSpec == AgentsSpec /\ AgentsFairness

-----------------------------------------------------------------------------
(* Properties. *)

\* Records, threads and cancel calls are well formed.
AgentsTypeOK ==
    /\ record \in [Runs -> Active \union Ended \union {"absent"}]
    /\ creating \subseteq Runs /\ wanted \subseteq Runs
    /\ confirmed \subseteq Runs /\ adrift \subseteq Runs
    /\ thread \in [Runs ->
         [at : Registered \union {"none", "due", "begun", "rejecting", "entered", "launched", "over"},
          holds : Active \union Ended \union {Nothing},
          process : {"running", "overdue", "gone"}]]
    /\ cancelling \in [Cancellers -> [at : {"idle", "answered", "read", "saved", "asked", "waiting", "forcing"},
                                      run : Runs \union {NoRun},
                                      holds : Active \union {Nothing}]]
    /\ serverStops \in 0..MaxStops

\* A run that a cancel call reported cancelled never shows as completed, even
\* if the call came before its process was registered, gave up waiting for it
\* and forced the end on the record, which its thread goes on overwriting.
CancelledNeverCompletes == \A r \in confirmed : record[r] # "COMPLETED"

\* Every run ends for good, however previews, cancellations and outcomes
\* overwrite each other.  Only the stop of the server and an exception before
\* the try statement leave a run active, and a cancel call ends that too.
AgentsSettle ==
    <>[](\A r \in Runs : record[r] \in Ended \union {"absent"} \/ r \in adrift)

\* The runs that were cancelled, whose threads may go on all the same, and
\* those that are lost.
GivenUp == confirmed \union adrift \union {cancelling[c].run : c \in Cancellers}

\* max_agents is exceeded by no more than the creations that overlap, if one
\* does not count the runs that were given up; what these add, no limit holds.
AgentsWithinLimit == Cardinality(ActiveRuns \ GivenUp) < MaxAgents + Creators

=============================================================================
