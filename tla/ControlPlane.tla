---------------------------- MODULE ControlPlane ----------------------------
(***************************************************************************)
(* ControlPlaneService: tasks that may need an approval, the runs that     *)
(* attempt them, and the worker queue that executes the runs.  Every       *)
(* get, list and save of a repository is a transaction of its own, nothing *)
(* locks, and each save writes back the whole record a call read earlier;  *)
(* so a call is a sequence of accesses, calls may overlap, and a killed    *)
(* process leaves one half done.                                           *)
(*                                                                         *)
(* A run has the id of the worker run it was created for.  Of the worker   *)
(* queue only statuses are kept: WorkerScheduler models the rest.          *)
(***************************************************************************)
EXTENDS Integers, Sequences, FiniteSets

CONSTANTS
    Tasks, Runs, NoTask, NoRun,
    Risky,       \* tasks that need an approval
    Scoped,      \* tasks an annual approval grant covers
    Collects,    \* source collections, which have a follow-up
    Instant,     \* tasks answered without a worker
    Requests,    \* the calls in progress at once; one means nothing overlaps
    Kinds,       \* the calls made
    Operated,    \* tasks that are called on once they are created
    Outcomes,    \* what a worker run may be settled as, unless by Cancel
    MaxCrashes   \* bound: how often the process is killed

AllKinds == {"create", "approve", "approve_for_a_year", "reject", "get", "cancel",
             "force-fail", "retry", "sync"}

ASSUME ControlPlaneAssumption ==
    /\ NoTask \notin Tasks /\ NoRun \notin Runs
    /\ Risky \subseteq Tasks /\ Scoped \subseteq Tasks
    /\ Collects \subseteq Tasks /\ Instant \subseteq Tasks
    /\ Outcomes \subseteq {"completed", "failed", "cancelled"}
    /\ Kinds \subseteq AllKinds /\ MaxCrashes \in Nat

VARIABLES
    task,       \* control-plane tasks
    approval,   \* the approval of each task, by status
    grant,      \* the annual grant a task's approval gave: active, or ended, that is
                \* expired or revoked
    run,        \* control-plane runs
    work,       \* worker_run_queue
    request,    \* the calls in progress
    crashes

vars == <<task, approval, grant, run, work, request, crashes>>
tables == <<task, approval, grant, run, work>>

RunStates == {"queued", "running", "succeeded", "failed", "cancelled"}
Open == {"queued", "running"}

\* by: the task whose annual grant let it run.  followed: its follow-up has
\* been queued.  previous: previous_run_ids.
TaskType ==
    [status : {"absent", "created", "awaiting", "rejected"} \union RunStates,
     run : Runs \union {NoRun}, asked : BOOLEAN, by : Tasks \union {NoTask},
     followed : BOOLEAN, previous : SUBSET Runs]
RunType ==
    [status : {"absent"} \union RunStates, task : Tasks \union {NoTask},
     work : Runs \union {NoRun}]
WorkType ==
    [status : {"absent", "completed", "failed", "cancelled"} \union Open,
     task : Tasks \union {NoTask}, collect : BOOLEAN, follows : Runs \union {NoRun}]

NewTask == [status |-> "absent", run |-> NoRun, asked |-> FALSE, by |-> NoTask,
            followed |-> FALSE, previous |-> {}]
NoRunRecord == [status |-> "absent", task |-> NoTask, work |-> NoRun]
NoWork == [status |-> "absent", task |-> NoTask, collect |-> FALSE, follows |-> NoRun]
Idle == [todo |-> <<>>]

Init ==
    /\ task = [t \in Tasks |-> NewTask]
    /\ approval = [t \in Tasks |-> "none"]
    /\ grant = [t \in Tasks |-> "none"]
    /\ run = [r \in Runs |-> NoRunRecord]
    /\ work = [r \in Runs |-> NoWork]
    /\ request = [i \in Requests |-> Idle]
    /\ crashes = 0

-----------------------------------------------------------------------------
(* A call: what it is, its task, the accesses still to make, and what it   *)
(* has read so far: the task (me), the current run (cur), the worker run   *)
(* it syncs (job, seen) with the run that stands for it (r, mine).         *)

Dispatch(t) == IF t \in Instant THEN <<"answer", "answered">>
               ELSE <<"enqueue", "save_run", "save_task">>
Sync == <<"subject", "find", "keep_mine", "apply", "review", "follow">>

Accesses(kind) ==
    CASE kind = "create" -> <<"new", "gate", "policy">>
      [] kind \in {"approve", "approve_for_a_year", "reject"} -> <<"decide", "settle">>
      [] kind = "get" -> <<"task", "run", "show">>
      [] kind = "sync" -> Sync
      [] OTHER -> <<"task", "run", "show", "run", kind>>

Call(kind, t) ==
    [todo |-> Accesses(kind), kind |-> kind, task |-> t, me |-> NewTask,
     cur |-> NoRunRecord, r |-> NoRun, mine |-> NoRunRecord, job |-> NoRun, seen |-> NoWork,
     item |-> [NoWork EXCEPT !.status = "queued", !.task = t, !.collect = t \in Collects]]

Busy == {i \in Requests : request[i].todo # <<>>}
Fresh == {r \in Runs : work[r].status = "absent" /\ run[r].status = "absent"}

\* Bound: a call that may enqueue starts only if a run id is left for it.
RoomToEnqueue == Cardinality(Fresh) > Cardinality(Busy)

Doing(i, access) == request[i].todo # <<>> /\ Head(request[i].todo) = access
Goes(i, q) == request' = [request EXCEPT ![i] = q]
Ends(i) == Goes(i, Idle)
Then(i, q, accesses) == IF accesses = <<>> THEN Ends(i) ELSE Goes(i, [q EXCEPT !.todo = accesses])
Continues(i, q) == Then(i, q, Tail(q.todo))

\* Mutants of RunStatus: the worker's word is kept, or what is not open or
\* failed counts as a success.
RunStatusAsIs(status) == status
RunStatusByDefault(status) ==
    IF status \in Open \union {"failed"} THEN status ELSE "succeeded"

\* _run_status_from_worker and _task_status_from_run
RunStatus(status) == IF status = "completed" THEN "succeeded" ELSE status

-----------------------------------------------------------------------------
(* create_task *)

SaveNew(i) ==
    /\ Doing(i, "new")
    /\ LET q == request[i]  me == [NewTask EXCEPT !.status = "created"] IN
       /\ task' = [task EXCEPT ![q.task] = me]
       /\ Continues(i, [q EXCEPT !.me = me])
    /\ UNCHANGED <<approval, grant, run, work, crashes>>

\* The task is rejected if its agent is disabled or busy.
Gate(i) ==
    /\ Doing(i, "gate")
    /\ \/ Continues(i, request[i]) /\ UNCHANGED task
       \/ /\ task' = [task EXCEPT ![request[i].task] =
                        [request[i].me EXCEPT !.status = "rejected"]]
          /\ Ends(i)
    /\ UNCHANGED <<approval, grant, run, work, crashes>>

\* Mutant of NeedsApproval: what a grant might cover does not ask.
NeedsApprovalOutOfScope(t) == t \in Risky \ Scoped

NeedsApproval(t) == t \in Risky

\* _find_active_approval_grant
Usable == {g \in Tasks : grant[g] = "active"}

\* An active grant lets a task in its scope run.  Otherwise a risky task asks.
Policy(i) ==
    /\ Doing(i, "policy")
    /\ LET q == request[i]
           usable == IF q.task \in Scoped THEN Usable ELSE {}
       IN  \/ \E g \in usable :
                Then(i, [q EXCEPT !.me.by = g], <<"mark">> \o Dispatch(q.task))
           \/ usable = {} /\ NeedsApproval(q.task) /\ Then(i, q, <<"ask", "await">>)
           \/ usable = {} /\ ~NeedsApproval(q.task) /\ Then(i, q, Dispatch(q.task))
    /\ UNCHANGED <<tables, crashes>>

Ask(i) ==
    /\ Doing(i, "ask")
    /\ approval' = [approval EXCEPT ![request[i].task] = "pending"]
    /\ Continues(i, request[i])
    /\ UNCHANGED <<task, grant, run, work, crashes>>

Await(i) ==
    /\ Doing(i, "await")
    /\ task' = [task EXCEPT ![request[i].task] =
                  [request[i].me EXCEPT !.status = "awaiting", !.asked = TRUE]]
    /\ Continues(i, request[i])
    /\ UNCHANGED <<approval, grant, run, work, crashes>>

-----------------------------------------------------------------------------
(* decide_task *)

\* It reads the task, then the approval; an approval still pending at the
\* second read was pending at the first.
Decidable(t) == task[t].asked /\ approval[t] = "pending" /\ task[t].status = "awaiting"

Decide(i) ==
    /\ Doing(i, "decide")
    /\ LET q == request[i] IN
       IF Decidable(q.task) THEN Continues(i, [q EXCEPT !.me = task[q.task]]) ELSE Ends(i)
    /\ UNCHANGED <<tables, crashes>>

\* Mutant of AfterDecision: a rejection leaves the task alone.
AfterDecisionIfApproved(kind, t) == IF kind = "reject" THEN <<>> ELSE Dispatch(t)

\* A rejection is noted in the task; an approval for a year gives a grant,
\* which is noted in the task, and an approved task is dispatched.
AfterDecision(kind, t) ==
    IF kind = "reject" THEN <<"refuse">>
    ELSE (IF kind = "approve_for_a_year" /\ t \in Scoped THEN <<"grant", "mark">> ELSE <<>>)
         \o Dispatch(t)

\* The approval is saved first, the task after it.
Settle(i) ==
    /\ Doing(i, "settle")
    /\ LET q == request[i] IN
       /\ approval' = [approval EXCEPT ![q.task] =
                         IF q.kind = "reject" THEN "rejected" ELSE "approved"]
       /\ Then(i, q, AfterDecision(q.kind, q.task))
    /\ UNCHANGED <<task, grant, run, work, crashes>>

Refuse(i) ==
    /\ Doing(i, "refuse")
    /\ task' = [task EXCEPT ![request[i].task] = [request[i].me EXCEPT !.status = "rejected"]]
    /\ Continues(i, request[i])
    /\ UNCHANGED <<approval, grant, run, work, crashes>>

\* _maybe_create_approval_grant
CreateGrant(i) ==
    /\ Doing(i, "grant")
    /\ LET t == request[i].task IN
       /\ grant' = [grant EXCEPT ![t] = "active"]
       /\ Continues(i, [request[i] EXCEPT !.me.by = t])
    /\ UNCHANGED <<task, approval, run, work, crashes>>

Mark(i) ==
    /\ Doing(i, "mark")
    /\ task' = [task EXCEPT ![request[i].task] = request[i].me]
    /\ Continues(i, request[i])
    /\ UNCHANGED <<approval, grant, run, work, crashes>>

-----------------------------------------------------------------------------
(* _dispatch_task, and the enqueueing that retry and follow-up share: the  *)
(* worker run first, then the run, then the task as the call knows it.     *)

Enqueue(i) ==
    /\ Doing(i, "enqueue")
    /\ \E r \in Fresh :
         /\ work' = [work EXCEPT ![r] = request[i].item]
         /\ Continues(i, [request[i] EXCEPT !.r = r])
    /\ UNCHANGED <<task, approval, grant, run, crashes>>

SaveRun(i) ==
    /\ Doing(i, "save_run")
    /\ LET q == request[i] IN
       run' = [run EXCEPT ![q.r] = [status |-> "queued", task |-> q.task, work |-> q.r]]
    /\ Continues(i, request[i])
    /\ UNCHANGED <<task, approval, grant, work, crashes>>

SaveTask(i) ==
    /\ Doing(i, "save_task")
    /\ LET q == request[i] IN
       task' = [task EXCEPT ![q.task] = [q.me EXCEPT !.status = "queued", !.run = q.r]]
    /\ Continues(i, request[i])
    /\ UNCHANGED <<approval, grant, run, work, crashes>>

\* A capability that answers at once: the run is over when it is saved.
Answer(i) ==
    /\ Doing(i, "answer")
    /\ \E r \in Fresh, status \in {"succeeded", "failed"} :
         /\ run' = [run EXCEPT ![r] = [status |-> status, task |-> request[i].task, work |-> NoRun]]
         /\ Continues(i, [request[i] EXCEPT !.me = [@ EXCEPT !.status = status, !.run = r]])
    /\ UNCHANGED <<task, approval, grant, work, crashes>>

SaveAnswered(i) ==
    /\ Doing(i, "answered")
    /\ task' = [task EXCEPT ![request[i].task] = request[i].me]
    /\ Continues(i, request[i])
    /\ UNCHANGED <<approval, grant, run, work, crashes>>

-----------------------------------------------------------------------------
(* get_task and get_run: reading projects the worker run onto the run, and *)
(* the run onto the task, and saves what changed.  Only statuses are kept  *)
(* here, so a save for the sake of another field is left out.              *)

ReadTask(i) ==
    /\ Doing(i, "task")
    /\ LET q == request[i] IN
       IF task[q.task].status = "absent" THEN Ends(i)
       ELSE Continues(i, [q EXCEPT !.me = task[q.task]])
    /\ UNCHANGED <<tables, crashes>>

\* _project_run.
Projected(r) ==
    IF r = NoRun THEN NoRunRecord
    ELSE IF run[r].work = NoRun \/ work[run[r].work].status = "absent" THEN run[r]
    ELSE [run[r] EXCEPT !.status = RunStatus(work[run[r].work].status)]

ReadRun(i) ==
    /\ Doing(i, "run")
    /\ LET q == request[i]  r == q.me.run  cur == Projected(r)
           keeps == r # NoRun /\ cur # run[r]
       IN  Then(i, [q EXCEPT !.cur = cur], (IF keeps THEN <<"keep">> ELSE <<>>) \o Tail(q.todo))
    /\ UNCHANGED <<tables, crashes>>

KeepRun(i) ==
    /\ Doing(i, "keep")
    /\ run' = [run EXCEPT ![request[i].me.run] = request[i].cur]
    /\ Continues(i, request[i])
    /\ UNCHANGED <<task, approval, grant, work, crashes>>

\* _project_task, after get_run.
ShowTask(i) ==
    /\ Doing(i, "show")
    /\ LET q == request[i]
           shown == IF q.cur.status = "absent" THEN q.me
                    ELSE [q.me EXCEPT !.status = q.cur.status]
       IN  /\ task' = IF shown = q.me THEN task ELSE [task EXCEPT ![q.task] = shown]
           /\ Continues(i, [q EXCEPT !.me = shown])
    /\ UNCHANGED <<approval, grant, run, work, crashes>>

-----------------------------------------------------------------------------
(* Operators: cancel, force-fail and retry the current run of a task.      *)

\* _require_operator_worker_run and the worker queue's own refusal.
Stoppable(cur) ==
    cur.status \in Open /\ cur.work # NoRun /\ work[cur.work].status \in Open

\* What becomes of a call that has settled worker run w: it syncs it.
SyncsNow(i, q, w) == Goes(i, [q EXCEPT !.todo = Sync, !.job = w, !.seen = work'[w]])

\* _cancel_task_run: a queued worker run is cancelled, for a running one the
\* wish is noted, and run and task are saved as running.
Cancel(i) ==
    /\ Doing(i, "cancel")
    /\ LET q == request[i]  w == q.cur.work IN
       \/ ~Stoppable(q.cur) /\ Ends(i) /\ UNCHANGED work
       \/ /\ Stoppable(q.cur) /\ work[w].status = "queued"
          /\ work' = [work EXCEPT ![w].status = "cancelled"]
          /\ SyncsNow(i, q, w)
       \/ /\ Stoppable(q.cur) /\ work[w].status = "running"
          /\ Then(i, [q EXCEPT !.cur.status = "running", !.me.status = "running"],
                  <<"keep", "note">>)
          /\ UNCHANGED work
    /\ UNCHANGED <<task, approval, grant, run, crashes>>

Note(i) ==
    /\ Doing(i, "note")
    /\ task' = [task EXCEPT ![request[i].task] = request[i].me]
    /\ Continues(i, request[i])
    /\ UNCHANGED <<approval, grant, run, work, crashes>>

ForceFail(i) ==
    /\ Doing(i, "force-fail")
    /\ LET q == request[i]  w == q.cur.work IN
       \/ ~Stoppable(q.cur) /\ Ends(i) /\ UNCHANGED work
       \/ /\ Stoppable(q.cur)
          /\ work' = [work EXCEPT ![w].status = "failed"]
          /\ SyncsNow(i, q, w)
    /\ UNCHANGED <<task, approval, grant, run, crashes>>

\* Mutant of Retryable: a run that was never claimed may be retried too.
RetryableThoughQueued(cur) == cur.status \in {"failed", "cancelled", "queued"} /\ cur.work # NoRun

Retryable(cur) == cur.status \in {"failed", "cancelled"} /\ cur.work # NoRun

\* _retry_task_run: a new worker run like the last, for a new run.
Retry(i) ==
    /\ Doing(i, "retry")
    /\ LET q == request[i] IN
       IF ~Retryable(q.cur) THEN Ends(i)
       ELSE Then(i, [q EXCEPT !.item.collect = work[q.cur.work].collect,
                              !.me.previous = @ \union {q.me.run}],
                 <<"enqueue", "save_run", "save_task">>)
    /\ UNCHANGED <<tables, crashes>>

-----------------------------------------------------------------------------
(* sync_worker_run, with the worker run as its caller saw it. *)

ReadSubject(i) ==
    /\ Doing(i, "subject")
    /\ Continues(i, [request[i] EXCEPT !.me = task[request[i].task]])
    /\ UNCHANGED <<tables, crashes>>

\* The run made for the worker run, or failing that the task's current one.
FindRun(i) ==
    /\ Doing(i, "find")
    /\ LET q == request[i]
           made == {r \in Runs : run[r].status # "absent" /\ run[r].work = q.job}
           else == IF q.me.run = NoRun THEN q.job ELSE q.me.run
       IN  \/ \E r \in made : Continues(i, [q EXCEPT !.r = r, !.mine = run[r]])
           \/ /\ made = {} /\ run[else].status # "absent"
              /\ Continues(i, [q EXCEPT !.r = else, !.mine = run[else]])
           \/ made = {} /\ run[else].status = "absent" /\ Ends(i)
    /\ UNCHANGED <<tables, crashes>>

KeepMine(i) ==
    /\ Doing(i, "keep_mine")
    /\ LET q == request[i]
           mine == [q.mine EXCEPT !.status = RunStatus(q.seen.status), !.work = q.job]
       IN  /\ run' = [run EXCEPT ![q.r] = mine]
           /\ Continues(i, [q EXCEPT !.mine = mine])
    /\ UNCHANGED <<task, approval, grant, work, crashes>>

\* Mutant of IsCurrent: the report of an old attempt is applied as well.
IsCurrentOrOld(me, r) == TRUE

IsCurrent(me, r) == me.run \in {NoRun, r}

\* The report of a superseded attempt only refreshes the task.
Apply(i) ==
    /\ Doing(i, "apply")
    /\ LET q == request[i]
           me == [q.me EXCEPT !.status = q.mine.status, !.run = q.r]
       IN  IF IsCurrent(q.me, q.r)
           THEN /\ task' = [task EXCEPT ![q.task] = me]
                /\ Continues(i, [q EXCEPT !.me = me])
           ELSE /\ UNCHANGED task
                /\ Then(i, q, <<"run", "show">> \o Tail(q.todo))
    /\ UNCHANGED <<approval, grant, run, work, crashes>>

\* _maybe_review_failed_worker_run: the review of a failure is noted in the
\* run and the task as they were before it; there may be no reviewer.
Review(i) ==
    /\ Doing(i, "review")
    /\ LET q == request[i] IN
       \/ Continues(i, q)
       \/ q.seen.status = "failed" /\ Then(i, q, <<"review_run", "review_task">> \o Tail(q.todo))
    /\ UNCHANGED <<tables, crashes>>

ReviewRun(i) ==
    /\ Doing(i, "review_run")
    /\ run' = [run EXCEPT ![request[i].r] = request[i].mine]
    /\ Continues(i, request[i])
    /\ UNCHANGED <<task, approval, grant, work, crashes>>

ReviewTask(i) ==
    /\ Doing(i, "review_task")
    /\ task' = [task EXCEPT ![request[i].task] = request[i].me]
    /\ Continues(i, request[i])
    /\ UNCHANGED <<approval, grant, run, work, crashes>>

\* Mutant of OwesFollowUp: what is already queued is not looked at.
OwesFollowUpAgain(q) == q.seen.collect /\ q.seen.status = "completed"

OwesFollowUp(q) == q.seen.collect /\ q.seen.status = "completed" /\ ~q.me.followed

\* The call as it goes on to enqueue the follow-up of worker run q.job.
WithFollowUp(q) ==
    [q EXCEPT !.item = [q.item EXCEPT !.collect = FALSE, !.follows = q.job],
              !.me = [q.me EXCEPT !.previous = q.me.previous \union {q.r}, !.followed = TRUE]]

\* _maybe_enqueue_source_collect_downstream, if the result has a payload.
FollowUp(i) ==
    /\ Doing(i, "follow")
    /\ LET q == request[i] IN
       \/ Continues(i, q)
       \/ OwesFollowUp(q) /\ Then(i, WithFollowUp(q), <<"enqueue", "save_run", "save_task">>)
    /\ UNCHANGED <<tables, crashes>>

-----------------------------------------------------------------------------
(* The rest of the world. *)

\* The workers: a queued run is claimed and started.
Start(r) ==
    /\ work[r].status = "queued"
    /\ work' = [work EXCEPT ![r].status = "running"]
    /\ UNCHANGED <<task, approval, grant, run, request, crashes>>

\* A report or a queue operator settles a worker run, and the call goes on to
\* sync it.
Report(i, r, status) ==
    /\ request[i].todo = <<>> /\ "sync" \in Kinds /\ work[r].status \in Open
    /\ work[r].collect /\ status = "completed" => RoomToEnqueue
    /\ work' = [work EXCEPT ![r].status = status]
    /\ SyncsNow(i, Call("sync", work[r].task), r)
    /\ UNCHANGED <<task, approval, grant, run, crashes>>

\* The Telegram login card of a completed collection syncs it once more.
Resync(i, r) ==
    /\ request[i].todo = <<>> /\ "sync" \in Kinds /\ work[r].status = "completed"
    /\ RoomToEnqueue
    /\ Goes(i, [Call("sync", work[r].task) EXCEPT !.job = r, !.seen = work[r]])
    /\ UNCHANGED <<tables, crashes>>

\* The queue's own requeue and stale-run recovery tell the control plane
\* nothing.
Requeue(r) ==
    /\ work[r].status \in {"running", "failed"}
    /\ work' = [work EXCEPT ![r].status = "queued"]
    /\ UNCHANGED <<task, approval, grant, run, request, crashes>>

Recover(r) ==
    /\ work[r].status = "running"
    /\ work' = [work EXCEPT ![r].status = "failed"]
    /\ UNCHANGED <<task, approval, grant, run, request, crashes>>

\* A grant is revoked, or passes its expiry: every call that reads it then
\* saves it as expired first.
EndGrant(g) ==
    /\ grant[g] = "active"
    /\ grant' = [grant EXCEPT ![g] = "ended"]
    /\ UNCHANGED <<task, approval, run, work, request, crashes>>

\* The process is killed: the calls in progress are gone.
Crash ==
    /\ crashes < MaxCrashes /\ Busy # {}
    /\ crashes' = crashes + 1
    /\ request' = [i \in Requests |-> Idle]
    /\ UNCHANGED tables

Begin(i, kind, t) ==
    /\ request[i].todo = <<>> /\ kind \in Kinds \ {"sync"}
    /\ kind = "create" <=> task[t].status = "absent"
    /\ kind # "create" => t \in Operated
    /\ kind = "create" => \A j \in Busy : request[j].task # t
    /\ kind \in {"create", "approve", "approve_for_a_year", "retry"} => RoomToEnqueue
    /\ Goes(i, Call(kind, t))
    /\ UNCHANGED <<tables, crashes>>

Access(i) ==
    \/ SaveNew(i) \/ Gate(i) \/ Policy(i) \/ Ask(i) \/ Await(i)
    \/ Decide(i) \/ Settle(i) \/ Refuse(i) \/ CreateGrant(i) \/ Mark(i)
    \/ Enqueue(i) \/ SaveRun(i) \/ SaveTask(i) \/ Answer(i) \/ SaveAnswered(i)
    \/ ReadTask(i) \/ ReadRun(i) \/ KeepRun(i) \/ ShowTask(i)
    \/ Cancel(i) \/ Note(i) \/ ForceFail(i) \/ Retry(i)
    \/ ReadSubject(i) \/ FindRun(i) \/ KeepMine(i) \/ Apply(i)
    \/ Review(i) \/ ReviewRun(i) \/ ReviewTask(i) \/ FollowUp(i)

Next ==
    \/ \E i \in Requests : Access(i)
    \/ \E i \in Requests, kind \in AllKinds, t \in Tasks : Begin(i, kind, t)
    \/ \E i \in Requests, r \in Runs :
         \/ \E status \in Outcomes : Report(i, r, status)
         \/ Resync(i, r)
    \/ \E r \in Runs : Start(r) \/ Requeue(r) \/ Recover(r)
    \/ \E g \in Tasks : EndGrant(g)
    \/ Crash

Spec == Init /\ [][Next]_vars

-----------------------------------------------------------------------------
(* Properties. *)

\* The five tables are well formed.
TypeOK ==
    /\ task \in [Tasks -> TaskType]
    /\ approval \in [Tasks -> {"none", "pending", "approved", "rejected"}]
    /\ grant \in [Tasks -> {"none", "active", "ended"}]
    /\ run \in [Runs -> RunType]
    /\ work \in [Runs -> WorkType]

\* A worker run exists for a risky task only with consent, its own approval
\* or a grant, and a grant was given with the approval of its task: at every
\* instant, and after a kill anywhere.
ConsentBeforeWork ==
    /\ \A r \in Runs : work[r].status # "absent" /\ work[r].task \in Risky =>
         approval[work[r].task] = "approved" \/ task[work[r].task].by # NoTask
    /\ \A t \in Tasks : task[t].by # NoTask => approval[task[t].by] = "approved"

\* A task nobody is working on and nobody can act on any more: it was never
\* taken up, or its approval is decided and it still waits for it.
Stranded(t) ==
    /\ \A i \in Busy : request[i].task # t
    /\ \/ task[t].status = "created"
       \/ task[t].status = "awaiting" /\ approval[t] # "pending"

\* Creating and deciding save several records one after the other; each kill
\* strands at most the one task whose call it cut short.
StrandedOnlyByKill == Cardinality({t \in Tasks : Stranded(t)}) <= crashes

\* A task shows success only if one of its worker runs completed, or it was
\* answered at once: no stale report, projection or rebound run makes it up.
SucceededMeansDone ==
    \A t \in Tasks : task[t].status = "succeeded" =>
        \/ \E w \in Runs : work[w].task = t /\ work[w].status = "completed"
        \/ \E r \in Runs : run[r].task = t /\ run[r].work = NoRun /\ run[r].status = "succeeded"

\* A collection gets one follow-up, however often its completion is synced;
\* only a kill between enqueueing it and saving the task allows another.
FollowedUpOnce ==
    \A s \in Runs : Cardinality({r \in Runs : work[r].follows = s}) <= 1 + crashes

\* A task never goes back to an attempt it has replaced.  A call that
\* overlaps with a retry breaks this: it saves the task it read before.
NeverGoesBack ==
    [][\A t \in Tasks : task'[t].run # task[t].run => task'[t].run \notin task[t].previous]_vars

=============================================================================
