---------------------- MODULE ControlPlaneHistoryProofs ----------------------
(***************************************************************************)
(* What the control plane keeps of the past, for any number of tasks, runs *)
(* and kills, as long as calls do not overlap: a task does not go back to  *)
(* a replaced attempt, success is somebody's success, a kill strands at    *)
(* most one task and repeats at most one follow-up.  A second layer over   *)
(* CPInv: History says how the records hang together, Fits what a call     *)
(* still knows of them when h is the next access it makes.                 *)
(***************************************************************************)
EXTENDS ControlPlaneProofs, FiniteSetTheorems

-----------------------------------------------------------------------------
(* The invariant.                                                          *)

\* A task that was never taken up, or whose approval is decided while it
\* still waits for it.
HalfDone(t) ==
    \/ task[t].status = "created"
    \/ task[t].status = "awaiting" /\ approval[t] # "pending"

\* What SucceededMeansDone asks of a task that shows success.
Done(t) ==
    \/ \E w \in Runs : work[w].task = t /\ work[w].status = "completed"
    \/ \E r \in Runs : run[r].task = t /\ run[r].work = NoRun /\ run[r].status = "succeeded"

\* r is a run of task t, w a worker run of it.
RunOf(r, t) == r \in Runs /\ run[r].status # "absent" /\ run[r].task = t
WorkOf(w, t) == w \in Runs /\ work[w].status # "absent" /\ work[w].task = t

\* A run record v that may stand for a run of task t.
Stands(v, t) ==
    /\ v.status # "absent" /\ v.task = t
    /\ v.work = NoRun => t \in Instant
    /\ v.work # NoRun => WorkOf(v.work, t)
    /\ v.status = "succeeded" => Done(t)

History ==
    /\ \A r \in Runs : run[r].status # "absent" =>
         /\ Stands(run[r], run[r].task)
         /\ work[r].status # "absent" => work[r].task = run[r].task
    /\ \A w \in Runs : work[w].status # "absent" => work[w].task \notin Instant
    /\ \A t \in Tasks :
         /\ \A r \in task[t].previous : run[r].status # "absent"
         /\ task[t].run # NoRun => RunOf(task[t].run, t)
         /\ task[t].run = NoRun => task[t].previous = {}
         /\ task[t].status = "succeeded" => Done(t)

Saving == {"save_run", "save_task"}
Enqueuing == {"enqueue"} \union Saving

\* What a call knows of its task when h is its next access.
Recalls(q, h) ==
    /\ h \notin First =>
         /\ q.me.status \in RunStates \union {task[q.task].status}
         /\ q.me.status = "succeeded" => Done(q.task)
    /\ h \notin First \union Enqueuing =>
         q.me.previous = task[q.task].previous /\ q.me.followed = task[q.task].followed
    /\ h = "await" => approval[q.task] = "pending"

\* The worker run, the run and the task that are still to be saved.
Enqueues(q, h) ==
    /\ h \notin Enqueuing => q.item.follows = NoRun
    /\ h \in Enqueuing =>
         /\ q.task \notin Instant
         /\ \A r \in q.me.previous : run[r].status # "absent"
         /\ task[q.task].followed => q.me.followed
         /\ q.item.follows # NoRun => q.me.followed /\ WorkOf(q.item.follows, q.task)
    /\ h = "enqueue" /\ q.item.follows # NoRun => ~task[q.task].followed
    /\ h \in Saving => q.r \notin task[q.task].previous /\ WorkOf(q.r, q.task)
    /\ h = "save_run" => run[q.r].status = "absent"
    /\ h = "save_task" => RunOf(q.r, q.task)

Answers(q, h) ==
    /\ h \in {"answer", "answered"} => q.task \in Instant
    /\ h = "answered" =>
         /\ q.me.run \notin task[q.task].previous /\ RunOf(q.me.run, q.task)
         /\ q.me.status \in RunStates

\* The current run of the task, as the call read it.
Reads(q, h) ==
    /\ q.cur.status # "absent" => Stands(q.cur, q.task)
    /\ h = "keep" => q.cur.status # "absent" /\ q.cur.work # NoRun /\ RunOf(q.me.run, q.task)

\* The worker run that is synced, and the run that stands for it.
Syncs(q, h) ==
    InSync(q.todo) =>
      /\ WorkOf(q.job, q.task)
      /\ q.seen.status = "completed" => work[q.job].status = "completed"
      /\ h \notin {"subject", "find"} =>
           RunOf(q.r, q.task) /\ q.mine.status # "absent" /\ q.mine.task = q.task
      /\ h \notin {"subject", "find", "keep_mine"} => Stands(q.mine, q.task) /\ q.mine.work # NoRun

\* What a call does once its grant is noted, and that what it enqueues it
\* enqueues last.
Plan(t, s) ==
    /\ Head(s) \in Enqueuing => ~InSync(s)
    /\ Head(s) = "mark" => Tail(s) = Dispatch(t)
    /\ Head(s) = "grant" => Tail(s) = <<"mark">> \o Dispatch(t)

Fits(q, h) == Recalls(q, h) /\ Enqueues(q, h) /\ Answers(q, h) /\ Reads(q, h) /\ Syncs(q, h)

CallFits(q) == Fits(q, Head(q.todo)) /\ Plan(q.task, q.todo)

HInv ==
    /\ CPInv /\ History
    /\ \A i \in Requests : request[i] = Idle \/ CallFits(request[i])

\* The accesses of a call that is about to finish what it began.
Tending == {"gate", "policy", "ask", "await", "refuse", "grant", "mark", "answer", "answered"}
             \union Enqueuing
Tends(i, t) == request[i].todo # <<>> /\ Head(request[i].todo) \in Tending /\ request[i].task = t

\* The tasks that a kill has left half done.
Left == {t \in Tasks : HalfDone(t) /\ \A i \in Requests : ~Tends(i, t)}

FollowUps(s) == {r \in Runs : work[r].follows = s}

\* The follow-up of worker run s was queued, and will be known to have been.
Spent(s) ==
    \/ work[s].status # "absent" /\ task[work[s].task].followed
    \/ \E i \in Requests : /\ request[i].todo # <<>> /\ Head(request[i].todo) \in Saving
                           /\ request[i].item.follows = s

FewLeft == IsFiniteSet(Left) /\ Cardinality(Left) <= crashes
FewFollowUps ==
    \A s \in Runs :
        /\ IsFiniteSet(FollowUps(s))
        /\ Cardinality(FollowUps(s)) <= IF Spent(s) THEN crashes + 1 ELSE crashes

\* What an access of a call on task t does to the tasks.
Keeps(t) ==
    /\ \A u \in Tasks \ {t} : task'[u] = task[u] /\ approval'[u] = approval[u]
    /\ task'[t].run # task[t].run => task'[t].run \notin task[t].previous
    /\ task[t].followed => task'[t].followed

\* What a step does to all of them.
Moves ==
    /\ \A t \in Tasks :
         /\ task'[t].run # task[t].run => task'[t].run \notin task[t].previous
         /\ task[t].followed => task'[t].followed
    /\ Left' \subseteq Left

\* Records are kept, and what was achieved stays achieved.
Grows ==
    /\ \A t \in Tasks : Done(t) => Done(t)'
    /\ \A r \in Runs, t \in Tasks :
         (RunOf(r, t) => RunOf(r, t)') /\ (WorkOf(r, t) => WorkOf(r, t)')
    /\ \A r \in Runs :
         /\ run[r].status # "absent" => run'[r].status # "absent"
         /\ work[r].status = "completed" => work'[r].status = "completed"

-----------------------------------------------------------------------------
(* The tables                                                              *)

LEMMA StandsOn ==
  ASSUME Grows, NEW t \in Tasks, NEW v \in RunType, Stands(v, t)
  PROVE  Stands(v, t)'
<1>1. v.work # NoRun => v.work \in Runs /\ WorkOf(v.work, t)'
  BY DEF Stands, Grows, RunType
<1> QED BY <1>1 DEF Stands, Grows

LEMMA TablesRest ==
  ASSUME History, UNCHANGED <<task, run, work>> PROVE History' /\ Grows
<1>1. Grows
  BY DEF Grows, Done, RunOf, WorkOf
<1>2. History'
  BY DEF History, Stands, Done, RunOf, WorkOf
<1> QED BY <1>1, <1>2

LEMMA TaskKept ==
  ASSUME Tables, History, NEW t \in Tasks, NEW v \in TaskType, task' = [task EXCEPT ![t] = v],
         UNCHANGED <<run, work>>,
         \A r \in v.previous : run[r].status # "absent",
         v.run # NoRun => RunOf(v.run, t), v.run = NoRun => v.previous = {},
         v.status = "succeeded" => Done(t)
  PROVE  History' /\ Grows /\ task'[t] = v /\ \A u \in Tasks \ {t} : task'[u] = task[u]
<1>1. Grows
  BY DEF Grows, Done, RunOf, WorkOf
<1>2. task'[t] = v /\ \A u \in Tasks \ {t} : task'[u] = task[u]
  BY DEF Tables, TypeOK
<1>3. /\ \A r \in Runs : run'[r].status # "absent" =>
           /\ Stands(run[r], run[r].task)'
           /\ work'[r].status # "absent" => work'[r].task = run'[r].task
      /\ \A w \in Runs : work'[w].status # "absent" => work'[w].task \notin Instant
  BY DEF History, Stands, Done, WorkOf
<1>4. ASSUME NEW u \in Tasks
      PROVE  /\ \A r \in task'[u].previous : run'[r].status # "absent"
             /\ task'[u].run # NoRun => RunOf(task[u].run, u)'
             /\ task'[u].run = NoRun => task'[u].previous = {}
             /\ task'[u].status = "succeeded" => Done(u)'
  <2>1. CASE u = t
    BY <1>2, <2>1 DEF RunOf, Done
  <2>2. CASE u # t
    BY <1>2, <2>2 DEF History, RunOf, Done
  <2> QED BY <2>1, <2>2
<1> QED BY <1>1, <1>2, <1>3, <1>4 DEF History

\* A run record is written: the run of the same task as before, if there was
\* one, and no answer is written over.
LEMMA RunKept ==
  ASSUME Tables, History, NEW r \in Runs, NEW v \in RunType, run' = [run EXCEPT ![r] = v],
         UNCHANGED <<task, work>>, v.status # "absent", v.task \in Tasks,
         v.work = NoRun => v.task \in Instant,
         v.work # NoRun => WorkOf(v.work, v.task),
         v.status = "succeeded" => v.work = NoRun \/ Done(v.task),
         run[r].status # "absent" => v.task = run[r].task /\ v.task \notin Instant,
         work[r].status # "absent" => work[r].task = v.task
  PROVE  History' /\ Grows /\ run'[r] = v
<1>1. run'[r] = v /\ \A s \in Runs \ {r} : run'[s] = run[s]
  BY DEF Tables, TypeOK
<1>2. \A s \in Runs, t \in Tasks : (RunOf(s, t) => RunOf(s, t)') /\ (WorkOf(s, t) => WorkOf(s, t)')
  BY <1>1 DEF RunOf, WorkOf
<1>3. run[r].status # "absent" => run[r].work # NoRun
  BY DEF History, Stands
<1>4. ASSUME NEW t \in Tasks, Done(t) PROVE Done(t)'
  <2>1. CASE \E w \in Runs : work[w].task = t /\ work[w].status = "completed"
    BY <2>1 DEF Done
  <2>2. CASE \E s \in Runs : run[s].task = t /\ run[s].work = NoRun /\ run[s].status = "succeeded"
    <3>1. PICK s \in Runs : run[s].task = t /\ run[s].work = NoRun /\ run[s].status = "succeeded"
      BY <2>2
    <3>2. s # r
      BY <1>3, <3>1
    <3>3. run'[s] = run[s]
      BY <1>1, <3>2
    <3> QED BY <3>1, <3>3 DEF Done
  <2> QED BY <1>4, <2>1, <2>2 DEF Done
<1>5. Grows
  BY <1>1, <1>2, <1>4 DEF Grows
<1>6. v.status = "succeeded" => Done(v.task)'
  BY <1>1, <1>4 DEF Done
<1>7. ASSUME NEW s \in Runs, run'[s].status # "absent"
      PROVE  /\ Stands(run[s], run[s].task)'
             /\ work'[s].status # "absent" => work'[s].task = run'[s].task
  <2>1. CASE s = r
    BY <1>1, <1>6, <2>1 DEF Stands, WorkOf
  <2>2. CASE s # r
    <3>1. run'[s] = run[s] /\ run[s] \in RunType /\ Stands(run[s], run[s].task)
      BY <1>1, <1>7, <2>2 DEF History, Tables, TypeOK
    <3>2. run[s].task \in Tasks
      <4>1. CASE run[s].work # NoRun
        BY <3>1, <4>1 DEF Stands, WorkOf, Tables
      <4>2. CASE run[s].work = NoRun
        BY <3>1, <4>2, ControlPlaneAssumption DEF Stands
      <4> QED BY <4>1, <4>2
    <3>3. Stands(run[s], run[s].task)'
      BY <3>1, <3>2, <1>5, <1>4 DEF Stands, WorkOf
    <3> QED BY <3>1, <3>3, <1>7, <2>2 DEF History
  <2> QED BY <2>1, <2>2
<1>8. ASSUME NEW t \in Tasks
      PROVE  /\ \A s \in task'[t].previous : run'[s].status # "absent"
             /\ task'[t].run # NoRun => RunOf(task[t].run, t)'
             /\ task'[t].run = NoRun => task'[t].previous = {}
             /\ task'[t].status = "succeeded" => Done(t)'
  <2>1. task[t].previous \subseteq Runs
    BY DEF Tables, TypeOK, TaskType
  <2>2. task[t].run # NoRun => RunOf(task[t].run, t)'
    <3>1. task[t].run # NoRun => RunOf(task[t].run, t)
      BY DEF History
    <3> QED BY <3>1, <1>2 DEF RunOf
  <2> QED BY <1>4, <1>5, <2>1, <2>2 DEF History, Grows
<1>9. \A w \in Runs : work'[w].status # "absent" => work'[w].task \notin Instant
  BY DEF History
<1> QED BY <1>1, <1>5, <1>7, <1>8, <1>9 DEF History

\* A worker run is written: a new one for a task that needs a worker, or one
\* that has not completed.
LEMMA WorkKept ==
  ASSUME Tables, History, NEW w \in Runs, NEW v \in WorkType, work' = [work EXCEPT ![w] = v],
         UNCHANGED <<task, run>>, v.status # "absent", v.task \in Tasks,
         IF work[w].status = "absent"
         THEN v.task \notin Instant /\ run[w].status = "absent"
         ELSE v.task = work[w].task /\ work[w].status # "completed"
  PROVE  History' /\ Grows /\ work'[w] = v
<1>1. work'[w] = v /\ \A s \in Runs \ {w} : work'[s] = work[s]
  BY DEF Tables, TypeOK
<1>2. \A s \in Runs, t \in Tasks : (RunOf(s, t) => RunOf(s, t)') /\ (WorkOf(s, t) => WorkOf(s, t)')
  BY <1>1 DEF RunOf, WorkOf
<1>3. \A s \in Runs : work[s].status = "completed" => work'[s] = work[s]
  BY <1>1
<1>4. ASSUME NEW t, Done(t) PROVE Done(t)'
  BY <1>3, <1>4 DEF Done
<1>5. Grows
  BY <1>1, <1>2, <1>3, <1>4 DEF Grows
<1>6. ASSUME NEW s \in Runs, run'[s].status # "absent"
      PROVE  /\ Stands(run[s], run[s].task)'
             /\ work'[s].status # "absent" => work'[s].task = run'[s].task
  <2>1. Stands(run[s], run[s].task) /\ run[s] \in RunType
    BY <1>6 DEF History, Tables, TypeOK
  <2>2. run[s].task \in Tasks
    <3>1. CASE run[s].work # NoRun
      BY <2>1, <3>1 DEF Stands, WorkOf, Tables
    <3>2. CASE run[s].work = NoRun
      BY <2>1, <3>2, ControlPlaneAssumption DEF Stands
    <3> QED BY <3>1, <3>2
  <2>3. Stands(run[s], run[s].task)'
    BY <2>1, <2>2, <1>2, <1>4 DEF Stands, WorkOf
  <2>4. work'[s].status # "absent" => work'[s].task = run[s].task
    <3>1. CASE s = w
      BY <1>1, <1>6, <3>1 DEF History
    <3>2. CASE s # w
      BY <1>1, <1>6, <3>2 DEF History
    <3> QED BY <3>1, <3>2
  <2> QED BY <2>3, <2>4
<1>7. \A s \in Runs : work'[s].status # "absent" => work'[s].task \notin Instant
  BY <1>1 DEF History
<1>8. ASSUME NEW t \in Tasks
      PROVE  /\ \A s \in task'[t].previous : run'[s].status # "absent"
             /\ task'[t].run # NoRun => RunOf(task[t].run, t)'
             /\ task'[t].run = NoRun => task'[t].previous = {}
             /\ task'[t].status = "succeeded" => Done(t)'
  BY <1>4 DEF History, RunOf
<1> QED BY <1>1, <1>5, <1>6, <1>7, <1>8 DEF History

-----------------------------------------------------------------------------
(* How a call goes on                                                      *)

LEMMA InFit ==
  ASSUME HInv, NEW i \in Requests, NEW a, Doing(i, a), NEW q, q = request[i]
  PROVE  /\ q \in CallType /\ q.task \in Tasks /\ q.me \in TaskType /\ q.cur \in RunType
         /\ q.mine \in RunType /\ q.item \in WorkType /\ q.seen \in WorkType
         /\ WellFormed(q.todo) /\ q.todo # <<>> /\ Head(q.todo) = a
         /\ Ready(q, a) /\ Knows(q) /\ Fits(q, a) /\ Plan(q.task, q.todo)
         /\ Tables /\ History
<1>1. CallOK(q) /\ Head(q.todo) = a /\ Tables
  BY InCall DEF HInv
<1>2. q # Idle
  BY DEF Doing, Idle
<1> QED BY <1>1, <1>2 DEF HInv, CallFits, CallOK, CallType

\* After access a the call surely goes on with one that tends its task.
GoesOnTending(a) == a \notin Final /\ \A h \in AccessNames : Follows(a, h) => h \in Tending

\* Only one call is made, so a step of it says what becomes of every task.
LEMMA MovesOne ==
  ASSUME OneCall, NEW i \in Requests, NEW a, Doing(i, a), NEW t \in Tasks, request[i].task = t,
         Keeps(t),
         HalfDone(t)' => Tends(i, t)' \/ (HalfDone(t) /\ a \notin Tending)
  PROVE  Moves
<1>1. \A u \in Tasks : /\ task'[u].run # task[u].run => task'[u].run \notin task[u].previous
                       /\ task[u].followed => task'[u].followed
  BY DEF Keeps
<1>2. ASSUME NEW u \in Left' PROVE u \in Left
  <2>1. u \in Tasks /\ HalfDone(u)' /\ ~Tends(i, u)'
    BY <1>2 DEF Left
  <2>2. CASE u = t
    <3>1. HalfDone(t) /\ a \notin Tending
      BY <2>1, <2>2 DEF Keeps
    <3>2. \A j \in Requests : ~Tends(j, t)
      BY <3>1 DEF OneCall, Tends, Doing
    <3> QED BY <2>1, <2>2, <3>1, <3>2 DEF Left
  <2>3. CASE u # t
    <3>1. HalfDone(u)
      BY <2>1, <2>3 DEF Keeps, HalfDone
    <3>2. \A j \in Requests : ~Tends(j, u)
      BY <2>3 DEF OneCall, Tends
    <3> QED BY <2>1, <3>1, <3>2 DEF Left
  <2> QED BY <2>2, <2>3
<1> QED BY <1>1, <1>2 DEF Moves

\* A call goes on with s: what it knows is what Fits asks at the next access.
LEMMA FitsThen ==
  ASSUME OneCall, HInv, CPInv', History', NEW i \in Requests, NEW a, Doing(i, a),
         NEW q \in CallType, q.task = request[i].task, NEW s, Then(i, q, s),
         s # <<>> => /\ s \in Seq(AccessNames) /\ (InSync(s) => InSync(q.todo))
                     /\ Fits(q, Head(s))' /\ Plan(q.task, s),
         Keeps(q.task),
         HalfDone(q.task)' => (s # <<>> /\ Head(s) \in Tending) \/ (HalfDone(q.task) /\ a \notin Tending)
  PROVE  HInv' /\ Moves
<1>1. PICK p : p = IF s = <<>> THEN Idle ELSE [q EXCEPT !.todo = s]
  OBVIOUS
<1>2. request' = [request EXCEPT ![i] = p]
  BY <1>1 DEF Then, Ends, Goes
<1>3. request'[i] = p /\ \A j \in Requests : request'[j] = p
  BY <1>2 DEF OneCall, HInv, CPInv
<1>4. s # <<>> => p.task = q.task /\ p.todo = s
  BY <1>1 DEF CallType
<1>5. q.task \in Tasks
  BY DEF CallType
<1>6. HInv'
  <2>1. CASE s = <<>>
    <3>1. \A j \in Requests : request'[j] = Idle
      BY <1>1, <1>3, <2>1
    <3> QED BY <3>1 DEF HInv
  <2>2. CASE s # <<>>
    <3>1. PICK h : h = Head(s)
      OBVIOUS
    <3>2. Fits(q, h)' /\ s \in Seq(AccessNames) /\ (InSync(s) => InSync(q.todo))
      BY <2>2, <3>1
    <3>3. p = [q EXCEPT !.todo = s]
      BY <1>1, <2>2
    <3>4. /\ p.todo = s /\ p.item = q.item /\ p.task = q.task /\ p.me = q.me /\ p.cur = q.cur
          /\ p.seen = q.seen /\ p.job = q.job /\ p.r = q.r /\ p.mine = q.mine
      BY <3>3 DEF CallType
    <3>5. /\ Recalls(p, h)' /\ Enqueues(p, h)' /\ Answers(p, h)' /\ Reads(p, h)'
          /\ Syncs(p, h)'
      BY <3>2, <3>4 DEF Fits, Recalls, Enqueues, Answers, Reads, Syncs
    <3>6. CallFits(p)'
      BY <2>2, <3>1, <3>4, <3>5 DEF CallFits, Fits
    <3>7. ASSUME NEW j \in Requests PROVE CallFits(request[j])'
      <4>1. request'[j] = p
        BY <1>3
      <4> QED BY <3>6, <4>1 DEF CallFits, Fits, Recalls, Enqueues, Answers, Reads, Syncs
    <3> QED BY <3>7 DEF HInv
  <2> QED BY <2>1, <2>2
<1>7. s # <<>> /\ Head(s) \in Tending => Tends(i, q.task)'
  BY <1>3, <1>4 DEF Tends
<1>8. /\ Keeps(q.task)
      /\ HalfDone(q.task)' => Tends(i, q.task)' \/ (HalfDone(q.task) /\ a \notin Tending)
  BY <1>7 DEF Keeps
<1> QED BY <1>5, <1>6, <1>8, MovesOne

\* A call goes on with whatever may follow the access a it has made.
LEMMA FitsInOrder ==
  ASSUME OneCall, HInv, CPInv', History', NEW i \in Requests, NEW a, Doing(i, a),
         a \notin {"grant", "mark"},
         NEW q \in CallType, q.task = request[i].task, q.todo = request[i].todo, Continues(i, q),
         \A h \in AccessNames : Follows(a, h) => Fits(q, h)',
         Keeps(q.task),
         HalfDone(q.task)' => GoesOnTending(a) \/ (HalfDone(q.task) /\ a \notin Tending)
  PROVE  HInv' /\ Moves
<1>1. PICK s : s = Tail(q.todo)
  OBVIOUS
<1>0. WellFormed(q.todo) /\ q.todo # <<>> /\ Head(q.todo) = a /\ Plan(q.task, q.todo)
  BY InFit
<1>2. s # <<>> => WellFormed(s) /\ (InSync(s) => InSync(q.todo)) /\ Follows(a, Head(s))
  BY <1>0, <1>1, TailIsWellFormed
<1>3. s # <<>> => s \in Seq(AccessNames) /\ Head(s) \in AccessNames
  BY <1>2 DEF WellFormed
<1>4. s # <<>> => Head(s) # "grant" /\ (Head(s) = "mark" => a = "grant")
  BY <1>2 DEF Follows
<1>5. s # <<>> => Fits(q, Head(s))' /\ Plan(q.task, s)
  <2>1. s # <<>> /\ Head(s) \in Enqueuing => a \in Enqueuing
    BY <1>2 DEF Follows, Enqueuing, Saving
  <2> QED BY <1>0, <1>2, <1>3, <1>4, <2>1 DEF Plan
<1>6. a \notin Final => s # <<>>
  BY <1>0, <1>1, GoesOnUnlessFinal
<1>7. /\ Keeps(q.task)
      /\ HalfDone(q.task)' => (s # <<>> /\ Head(s) \in Tending) \/ (HalfDone(q.task) /\ a \notin Tending)
  BY <1>2, <1>3, <1>6 DEF Keeps, GoesOnTending
<1> QED BY <1>1, <1>2, <1>3, <1>5, <1>7, FitsThen DEF Continues

\* A call that saves nothing, and is not one that tends its task.
LEMMA LooksRound ==
  ASSUME OneCall, HInv, CPInv', NEW i \in Requests, NEW a, Doing(i, a), UNCHANGED tables,
         NEW q \in CallType, q.task = request[i].task, NEW s, Then(i, q, s),
         s # <<>> => /\ s \in Seq(AccessNames) /\ (InSync(s) => InSync(q.todo))
                     /\ Fits(q, Head(s)) /\ Plan(q.task, s),
         a \in Tending => s # <<>> /\ Head(s) \in Tending
  PROVE  HInv' /\ Moves
<1>1. History'
  BY TablesRest DEF HInv, tables
<1>2. s # <<>> => Fits(q, Head(s))'
  BY DEF tables, Fits, Recalls, Enqueues, Answers, Reads, Syncs, Stands, Done, RunOf, WorkOf
<1>3. /\ Keeps(q.task)
      /\ HalfDone(q.task)' => (s # <<>> /\ Head(s) \in Tending) \/ (HalfDone(q.task) /\ a \notin Tending)
  BY DEF tables, Keeps, HalfDone
<1> QED BY <1>1, <1>2, <1>3, FitsThen

LEMMA LooksInOrder ==
  ASSUME OneCall, HInv, CPInv', NEW i \in Requests, NEW a, Doing(i, a), UNCHANGED tables,
         a \notin Tending,
         NEW q \in CallType, q.task = request[i].task, q.todo = request[i].todo, Continues(i, q),
         \A h \in AccessNames : Follows(a, h) => Fits(q, h)
  PROVE  HInv' /\ Moves
<1>1. History'
  BY TablesRest DEF HInv, tables
<1>2. \A h \in AccessNames : Follows(a, h) => Fits(q, h)'
  BY DEF tables, Fits, Recalls, Enqueues, Answers, Reads, Syncs, Stands, Done, RunOf, WorkOf
<1>3. /\ Keeps(q.task)
      /\ HalfDone(q.task)' => GoesOnTending(a) \/ (HalfDone(q.task) /\ a \notin Tending)
  BY DEF tables, Keeps, HalfDone
<1>4. a \notin {"grant", "mark"}
  BY DEF Tending
<1> QED BY <1>1, <1>2, <1>3, <1>4, FitsInOrder

LEMMA EndsFitly ==
  ASSUME OneCall, HInv, CPInv', History', NEW i \in Requests, NEW a, Doing(i, a), Ends(i),
         NEW q, q = request[i], Keeps(q.task),
         HalfDone(q.task)' => HalfDone(q.task) /\ a \notin Tending
  PROVE  HInv' /\ Moves
<1>1. q \in CallType
  BY InFit
<1>2. Then(i, q, <<>>)
  BY DEF Then
<1>3. /\ Keeps(q.task)
      /\ HalfDone(q.task)' => (<<>> # <<>> /\ Head(<<>>) \in Tending) \/ (HalfDone(q.task) /\ a \notin Tending)
  BY DEF Keeps
<1> QED BY <1>1, <1>2, <1>3, FitsThen

LEMMA EndsIdly ==
  ASSUME OneCall, HInv, CPInv', NEW i \in Requests, NEW a, Doing(i, a), Ends(i),
         UNCHANGED tables, a \notin Tending
  PROVE  HInv' /\ Moves
<1>1. History'
  BY TablesRest DEF HInv, tables
<1>2. PICK q : q = request[i]
  OBVIOUS
<1>3. /\ Keeps(q.task)
      /\ HalfDone(q.task)' => HalfDone(q.task) /\ a \notin Tending
  BY DEF tables, Keeps, HalfDone
<1> QED BY <1>1, <1>2, <1>3, EndsFitly

\* An access that asks for nothing in particular.
Plain == {"gate", "policy", "ask", "settle", "refuse", "mark", "grant", "run", "show", "cancel",
          "note", "force-fail", "retry", "review", "review_run", "review_task", "follow"}

\* What a call knew, it knows later.
LEMMA FitsLater ==
  ASSUME Grows, NEW q \in CallType, NEW p \in CallType,
         p.task = q.task, p.cur = q.cur, p.item = q.item, p.r = q.r, p.mine = q.mine,
         p.job = q.job, p.seen = q.seen, InSync(p.todo) => InSync(q.todo),
         NEW a, a \notin Enqueuing \union {"subject", "find", "keep_mine"}, NEW h \in Plain, Fits(q, a),
         p.me.status \in RunStates \union {task'[q.task].status},
         p.me.status = "succeeded" => Done(q.task)',
         p.me.previous = task'[q.task].previous, p.me.followed = task'[q.task].followed
  PROVE  Fits(p, h)'
<1>1. Recalls(p, h)'
  BY DEF Recalls, Plain, First
<1>2. Enqueues(p, h)'
  BY DEF Fits, Enqueues, Enqueuing, Saving, Plain
<1>3. Answers(p, h)'
  BY DEF Answers, Plain
<1>4. p.task \in Tasks /\ p.cur \in RunType /\ p.mine \in RunType
  BY DEF CallType
<1>5. Reads(p, h)'
  <2>1. p.cur.status # "absent" => Stands(p.cur, p.task)'
    BY <1>4, StandsOn DEF Fits, Reads
  <2> QED BY <2>1 DEF Reads, Plain
<1>6. Syncs(p, h)'
  <2>1. ASSUME InSync(p.todo)
        PROVE  /\ WorkOf(p.job, p.task)' /\ (p.seen.status = "completed" => work'[p.job].status = "completed")
               /\ RunOf(p.r, p.task)' /\ p.mine.status # "absent" /\ p.mine.task = p.task
               /\ Stands(p.mine, p.task)' /\ p.mine.work # NoRun
    <3>1. /\ WorkOf(p.job, p.task) /\ (p.seen.status = "completed" => work[p.job].status = "completed")
          /\ RunOf(p.r, p.task) /\ p.mine.status # "absent" /\ p.mine.task = p.task
          /\ Stands(p.mine, p.task) /\ p.mine.work # NoRun
      BY <2>1 DEF Fits, Syncs
    <3>2. p.job \in Runs /\ p.r \in Runs
      BY <3>1 DEF WorkOf, RunOf
    <3>3. Stands(p.mine, p.task)'
      BY <1>4, <3>1, StandsOn
    <3> QED BY <1>4, <3>1, <3>2, <3>3 DEF Grows
  <2> QED BY <2>1 DEF Syncs
<1> QED BY <1>1, <1>2, <1>3, <1>5, <1>6 DEF Fits

\* A call q saves its task as v, in access a, and goes on as p.
TaskSave(i, a, q, p, v) ==
    /\ Doing(i, a) /\ a \notin {"grant", "mark"} /\ q = request[i] /\ Continues(i, p)
    /\ p \in CallType /\ p.task = q.task /\ p.todo = q.todo
    /\ v \in TaskType /\ task' = [task EXCEPT ![q.task] = v]
    /\ UNCHANGED <<approval, run, work>>
    /\ v.status = "succeeded" => Done(q.task)
    /\ \/ v.status \notin {"created", "awaiting"}
       \/ v.status = "awaiting" /\ approval[q.task] = "pending"
       \/ GoesOnTending(a)
       \/ v.status = task[q.task].status /\ a \notin Tending

LEMMA SavesFitly ==
  ASSUME OneCall, HInv, CPInv', NEW i \in Requests, NEW a, NEW q, NEW p, NEW v,
         TaskSave(i, a, q, p, v),
         \A r \in v.previous : run[r].status # "absent",
         v.run # NoRun => RunOf(v.run, q.task), v.run = NoRun => v.previous = {},
         v.run # task[q.task].run => v.run \notin task[q.task].previous,
         task[q.task].followed => v.followed,
         Grows /\ task'[q.task] = v => \A h \in AccessNames : Follows(a, h) => Fits(p, h)'
  PROVE  HInv' /\ Moves
<1>0. Doing(i, a) /\ a \notin {"grant", "mark"} /\ q = request[i] /\ Continues(i, p)
      /\ p \in CallType /\ p.task = q.task /\ p.todo = q.todo
  BY DEF TaskSave
<1>1. /\ q.task \in Tasks /\ WellFormed(q.todo) /\ q.todo # <<>> /\ Head(q.todo) = a
      /\ Tables /\ History
  BY <1>0, InFit
<1>2. /\ History' /\ Grows /\ task'[q.task] = v
      /\ \A u \in Tasks \ {q.task} : task'[u] = task[u]
  BY <1>1, TaskKept DEF TaskSave
<1>3. /\ Keeps(p.task)
      /\ HalfDone(p.task)' => GoesOnTending(a) \/ (HalfDone(p.task) /\ a \notin Tending)
  BY <1>2 DEF Keeps, HalfDone, TaskSave
<1>4. \A h \in AccessNames : Follows(a, h) => Fits(p, h)'
  BY <1>2
<1> QED BY <1>0, <1>1, <1>2, <1>3, <1>4, FitsInOrder

\* It saves no more of the task than a new status.
LEMMA SavesStatus ==
  ASSUME OneCall, HInv, CPInv', NEW i \in Requests, NEW a, NEW q, NEW p, NEW v,
         TaskSave(i, a, q, p, v),
         v.previous = task[q.task].previous, v.run = task[q.task].run,
         v.followed = task[q.task].followed,
         Grows /\ task'[q.task] = v => \A h \in AccessNames : Follows(a, h) => Fits(p, h)'
  PROVE  HInv' /\ Moves
<1>1. q.task \in Tasks /\ History
  BY InFit DEF TaskSave
<1>2. /\ \A r \in task[q.task].previous : run[r].status # "absent"
      /\ task[q.task].run # NoRun => RunOf(task[q.task].run, q.task)
      /\ task[q.task].run = NoRun => task[q.task].previous = {}
  BY <1>1 DEF History
<1>3. /\ \A r \in v.previous : run[r].status # "absent"
      /\ v.run # NoRun => RunOf(v.run, q.task)
      /\ v.run = NoRun => v.previous = {}
      /\ v.run # task[q.task].run => v.run \notin task[q.task].previous
      /\ task[q.task].followed => v.followed
  BY <1>2
<1> QED BY <1>3, SavesFitly

-----------------------------------------------------------------------------
(* create_task                                                             *)

LEMMA SaveNewFits ==
  ASSUME OneCall, HInv, CPInv', NEW i \in Requests, SaveNew(i) PROVE HInv' /\ Moves
<1>1. PICK q : q = request[i]
  OBVIOUS
<1>2. Doing(i, "new")
  BY DEF SaveNew
<1>3. /\ q \in CallType /\ q.task \in Tasks /\ Ready(q, "new") /\ Fits(q, "new")
  BY <1>1, <1>2, InFit
<1>4. task[q.task] = NewTask
  BY <1>3 DEF Ready
<1>5. PICK me : me = [NewTask EXCEPT !.status = "created"]
  OBVIOUS
<1>6. /\ me \in TaskType /\ me.status = "created" /\ me.run = NewTask.run
      /\ me.previous = NewTask.previous /\ me.followed = NewTask.followed
  BY <1>5 DEF NewTask, TaskType
<1>7. PICK p : p = [q EXCEPT !.me = me]
  OBVIOUS
<1>8. /\ p \in CallType /\ p.todo = q.todo /\ p.task = q.task /\ p.me = me /\ p.r = q.r
      /\ p.item = q.item /\ p.cur = q.cur /\ p.mine = q.mine /\ p.job = q.job /\ p.seen = q.seen
  BY <1>3, <1>6, <1>7 DEF CallType
<1>9. /\ task' = [task EXCEPT ![q.task] = me] /\ Continues(i, p)
      /\ UNCHANGED <<approval, grant, run, work>>
  BY <1>1, <1>5, <1>7 DEF SaveNew
<1>10. ASSUME Grows, task'[q.task] = me, NEW h \in AccessNames, Follows("new", h)
       PROVE  Fits(p, h)'
  <2>1. h = "gate"
    BY <1>10 DEF Follows
  <2>2. h \in Plain /\ "new" \notin Enqueuing \union {"subject", "find", "keep_mine"}
    BY <2>1 DEF Plain, Enqueuing, Saving
  <2> QED BY <1>3, <1>6, <1>8, <1>10, <2>2, FitsLater
<1>11. GoesOnTending("new")
  BY DEF GoesOnTending, Final, Follows, Tending
<1>12. /\ me.previous = task[q.task].previous /\ me.run = task[q.task].run
       /\ me.followed = task[q.task].followed
  BY <1>4, <1>6
<1>13. TaskSave(i, "new", q, p, me)
  BY <1>1, <1>2, <1>6, <1>8, <1>9, <1>11 DEF TaskSave
<1> QED BY <1>10, <1>12, <1>13, SavesStatus

\* What holds of a call that knows its task.
LEMMA KnowsTask ==
  ASSUME NEW q, NEW h, Ready(q, h), Fits(q, h), h \notin First \union Enqueuing \union {"answered"}
  PROVE  /\ q.me.previous = task[q.task].previous /\ q.me.run = task[q.task].run
         /\ q.me.followed = task[q.task].followed
         /\ q.me.status \in RunStates \union {task[q.task].status}
         /\ q.me.status = "succeeded" => Done(q.task)
BY DEF Ready, Fits, Recalls

LEMMA GateFits ==
  ASSUME OneCall, HInv, CPInv', NEW i \in Requests, Gate(i) PROVE HInv' /\ Moves
<1>1. PICK q : q = request[i]
  OBVIOUS
<1>2. Doing(i, "gate")
  BY DEF Gate
<1>3. /\ q \in CallType /\ q.task \in Tasks /\ Ready(q, "gate") /\ Fits(q, "gate")
      /\ WellFormed(q.todo) /\ q.todo # <<>> /\ q.me \in TaskType /\ Head(q.todo) = "gate"
      /\ Tables /\ History
  BY <1>1, <1>2, InFit
<1>4. /\ q.me.previous = task[q.task].previous /\ q.me.run = task[q.task].run
      /\ q.me.followed = task[q.task].followed
  BY <1>3, KnowsTask DEF First, Enqueuing, Saving
<1>5. CASE Continues(i, q) /\ UNCHANGED task
  <2>1. UNCHANGED tables
    BY <1>5 DEF Gate, tables
  <2>2. ASSUME NEW h \in AccessNames, Follows("gate", h) PROVE Fits(q, h)'
    <3>1. h = "policy"
      BY <2>2 DEF Follows
    <3>2. h \in Plain /\ "gate" \notin Enqueuing \union {"subject", "find", "keep_mine"}
      BY <3>1 DEF Plain, Enqueuing, Saving
    <3>3. Grows
      BY <1>3, <2>1, TablesRest DEF tables
    <3>4. /\ q.me.status \in RunStates \union {task'[q.task].status}
          /\ q.me.status = "succeeded" => Done(q.task)'
      BY <1>3, <1>5, <3>3, KnowsTask DEF First, Enqueuing, Saving, Grows
    <3> QED BY <1>3, <1>4, <1>5, <3>2, <3>3, <3>4, FitsLater
  <2>3. GoesOnTending("gate")
    BY DEF GoesOnTending, Final, Follows, Tending
  <2>4. History'
    BY <1>3, <2>1, TablesRest DEF tables
  <2>5. /\ Keeps(q.task)
        /\ HalfDone(q.task)' => GoesOnTending("gate") \/ (HalfDone(q.task) /\ "gate" \notin Tending)
    BY <2>1, <2>3 DEF Keeps, tables
  <2> QED BY <1>1, <1>2, <1>3, <1>5, <2>2, <2>4, <2>5, FitsInOrder
<1>6. CASE /\ task' = [task EXCEPT ![q.task] = [q.me EXCEPT !.status = "rejected"]]
           /\ Ends(i)
  <2>1. PICK v : v = [q.me EXCEPT !.status = "rejected"]
    OBVIOUS
  <2>2. /\ v \in TaskType /\ v.status = "rejected" /\ v.run = q.me.run
        /\ v.previous = q.me.previous /\ v.followed = q.me.followed
    BY <1>3, <2>1 DEF TaskType
  <2>3. UNCHANGED <<approval, run, work>> /\ task' = [task EXCEPT ![q.task] = v]
    BY <1>6, <2>1 DEF Gate
  <2>4. /\ History' /\ task'[q.task] = v /\ \A u \in Tasks \ {q.task} : task'[u] = task[u]
    <3>1. /\ \A r \in task[q.task].previous : run[r].status # "absent"
          /\ task[q.task].run # NoRun => RunOf(task[q.task].run, q.task)
          /\ task[q.task].run = NoRun => task[q.task].previous = {}
      BY <1>3 DEF History
    <3>2. /\ \A r \in v.previous : run[r].status # "absent"
          /\ v.run # NoRun => RunOf(v.run, q.task)
          /\ v.run = NoRun => v.previous = {}
          /\ v.status # "succeeded"
      BY <1>4, <2>2, <3>1
    <3> QED BY <1>3, <2>2, <2>3, <3>2, TaskKept
  <2>5. /\ Keeps(q.task)
        /\ HalfDone(q.task)' => HalfDone(q.task) /\ "gate" \notin Tending
    BY <1>4, <2>2, <2>3, <2>4 DEF Keeps, HalfDone
  <2> QED BY <1>1, <1>2, <1>6, <2>4, <2>5, EndsFitly
<1> QED BY <1>1, <1>5, <1>6 DEF Gate

\* What it takes to dispatch a task, and to note its grant before.
LEMMA DispatchFits ==
  ASSUME History', NEW q \in CallType, NEW a \in Plain, Fits(q, a)', NEW s, s = Dispatch(q.task)
  PROVE  /\ s \in Seq(AccessNames) /\ s # <<>> /\ ~InSync(s) /\ Head(s) \in Tending
         /\ Plan(q.task, s) /\ Fits(q, Head(s))'
<1>1. /\ s \in Seq(AccessNames) /\ s # <<>> /\ ~InSync(s) /\ Head(s) \in {"enqueue", "answer"}
  BY DispatchIsWellFormed DEF WellFormed
<1>2. /\ Head(s) = "enqueue" => q.task \notin Instant
      /\ Head(s) = "answer" => q.task \in Instant
  BY DEF Dispatch
<1>3. q.task \in Tasks
  BY DEF CallType
<1>4. PICK h : h = Head(s)
  OBVIOUS
<1>5. \A r \in task'[q.task].previous : run'[r].status # "absent"
  BY <1>3 DEF History
<1>6. Recalls(q, h)'
  BY <1>1, <1>4 DEF Fits, Recalls, Plain, First, Enqueuing, Saving
<1>7. Enqueues(q, h)'
  <2>1. q.item.follows = NoRun
    BY DEF Fits, Enqueues, Plain, Enqueuing, Saving
  <2>2. q.me.previous = task'[q.task].previous /\ q.me.followed = task'[q.task].followed
    BY DEF Fits, Recalls, Plain, First, Enqueuing, Saving
  <2> QED BY <1>1, <1>2, <1>4, <1>5, <2>1, <2>2 DEF Enqueues, Enqueuing, Saving
<1>8. Answers(q, h)' /\ Reads(q, h)' /\ Syncs(q, h)'
  BY <1>1, <1>2, <1>4 DEF Fits, Answers, Reads, Syncs, Plain
<1>9. Fits(q, h)' /\ Plan(q.task, s) /\ h \in Tending
  BY <1>1, <1>4, <1>6, <1>7, <1>8 DEF Fits, Plan, Tending, Enqueuing
<1> QED BY <1>1, <1>4, <1>9

LEMMA MarkIsPlanned ==
  ASSUME NEW t, NEW s, s = <<"mark">> \o Dispatch(t)
  PROVE  s \in Seq(AccessNames) /\ s # <<>> /\ ~InSync(s) /\ Head(s) = "mark" /\ Plan(t, s)
<1>1. PICK d : d = Dispatch(t)
  OBVIOUS
<1>2. WellFormed(d) /\ d # <<>> /\ ~InSync(d) /\ Head(d) \in {"enqueue", "answer"}
  BY <1>1, DispatchIsWellFormed
<1>3. "mark" \in AccessNames /\ "mark" \notin SyncAccesses /\ Follows("mark", Head(d))
  BY <1>2 DEF AccessNames, SyncAccesses, Follows
<1>4. WellFormed(s) /\ Head(s) = "mark" /\ s # <<>> /\ ~InSync(s)
  BY <1>1, <1>2, <1>3, ConsIsWellFormed
<1>5. d \in Seq(AccessNames) /\ s = <<"mark">> \o d
  BY <1>1, <1>2 DEF WellFormed
<1>6. Tail(s) = d
  BY <1>3, <1>5
<1> QED BY <1>1, <1>4, <1>6 DEF Plan, WellFormed, Enqueuing, Saving

LEMMA GrantIsPlanned ==
  ASSUME NEW t, NEW s, s = <<"grant", "mark">> \o Dispatch(t)
  PROVE  s \in Seq(AccessNames) /\ s # <<>> /\ ~InSync(s) /\ Head(s) = "grant" /\ Plan(t, s)
<1>1. PICK m : m = <<"mark">> \o Dispatch(t)
  OBVIOUS
<1>2. m \in Seq(AccessNames) /\ m # <<>> /\ ~InSync(m)
  BY <1>1, MarkIsPlanned
<1>3. Dispatch(t) \in Seq(AccessNames) /\ {"grant", "mark"} \subseteq AccessNames
  BY DispatchIsWellFormed DEF WellFormed, AccessNames
<1>4. s = <<"grant">> \o m
  BY <1>1, <1>3
<1>5. s \in Seq(AccessNames) /\ s # <<>> /\ Head(s) = "grant" /\ Tail(s) = m
  BY <1>2, <1>3, <1>4
<1>6. s[Len(s)] = m[Len(m)]
  BY <1>2, <1>3, <1>4
<1> QED BY <1>1, <1>2, <1>5, <1>6 DEF Plan, InSync, Enqueuing, Saving

LEMMA PolicyFits ==
  ASSUME OneCall, HInv, CPInv', NEW i \in Requests, Policy(i) PROVE HInv' /\ Moves
<1>1. PICK q : q = request[i]
  OBVIOUS
<1>2. Doing(i, "policy") /\ UNCHANGED tables
  BY DEF Policy
<1>3. /\ q \in CallType /\ q.task \in Tasks /\ Ready(q, "policy") /\ Fits(q, "policy")
      /\ q.me \in TaskType /\ Tables /\ History
  BY <1>1, <1>2, InFit
<1>4. History' /\ Grows
  BY <1>2, <1>3, TablesRest DEF tables
<1>5. /\ q.me.previous = task'[q.task].previous /\ q.me.followed = task'[q.task].followed
      /\ q.me.status \in RunStates \union {task'[q.task].status}
      /\ q.me.status = "succeeded" => Done(q.task)'
  BY <1>2, <1>3, <1>4, KnowsTask DEF First, Enqueuing, Saving, Grows, tables
<1>6. "policy" \notin Enqueuing \union {"subject", "find", "keep_mine"}
      /\ {"ask", "mark"} \subseteq Plain \intersect Tending
  BY DEF Plain, Enqueuing, Saving, Tending
<1>7. Keeps(q.task)
  BY <1>2 DEF Keeps, tables
<1>8. ASSUME NEW g \in Usable, NEW p, p = [q EXCEPT !.me = [q.me EXCEPT !.by = g]],
             NEW s, s = <<"mark">> \o Dispatch(q.task), Then(i, p, s)
      PROVE  HInv' /\ Moves
  <2>1. PICK me : me = [q.me EXCEPT !.by = g]
    OBVIOUS
  <2>2. g \in Tasks
    BY <1>8 DEF Usable
  <2>3. /\ me \in TaskType /\ me.status = q.me.status /\ me.run = q.me.run
        /\ me.previous = q.me.previous /\ me.followed = q.me.followed
    BY <1>3, <2>1, <2>2 DEF TaskType
  <2>4. /\ p \in CallType /\ p.todo = q.todo /\ p.task = q.task /\ p.me = me /\ p.r = q.r
        /\ p.item = q.item /\ p.cur = q.cur /\ p.mine = q.mine /\ p.job = q.job /\ p.seen = q.seen
    BY <1>3, <1>8, <2>1, <2>3 DEF CallType
  <2>5. Fits(p, "mark")'
    BY <1>3, <1>4, <1>5, <1>6, <2>3, <2>4, FitsLater
  <2>6. s \in Seq(AccessNames) /\ s # <<>> /\ ~InSync(s) /\ Head(s) = "mark" /\ Plan(p.task, s)
    BY <1>8, <2>4, MarkIsPlanned
  <2>7. /\ Keeps(p.task)
        /\ HalfDone(p.task)' => (s # <<>> /\ Head(s) \in Tending) \/ (HalfDone(p.task) /\ "policy" \notin Tending)
    BY <1>6, <1>7, <2>4, <2>6
  <2> QED BY <1>1, <1>2, <1>4, <1>8, <2>4, <2>5, <2>6, <2>7, FitsThen
<1>9. CASE Then(i, q, <<"ask", "await">>)
  <2>1. PICK s : s = <<"ask", "await">>
    OBVIOUS
  <2>2. s \in Seq(AccessNames) /\ s # <<>> /\ ~InSync(s) /\ Head(s) = "ask"
    BY <2>1, PairsAreWellFormed DEF WellFormed
  <2>3. Fits(q, "ask")' /\ Plan(q.task, s)
    BY <1>3, <1>4, <1>5, <1>6, <2>2, FitsLater DEF Plan, Enqueuing, Saving
  <2>4. /\ Keeps(q.task)
        /\ HalfDone(q.task)' => (s # <<>> /\ Head(s) \in Tending) \/ (HalfDone(q.task) /\ "policy" \notin Tending)
    BY <1>6, <1>7, <2>2
  <2> QED BY <1>1, <1>2, <1>3, <1>4, <1>9, <2>1, <2>2, <2>3, <2>4, FitsThen
<1>10. CASE Then(i, q, Dispatch(q.task))
  <2>1. PICK s : s = Dispatch(q.task)
    OBVIOUS
  <2>2. Fits(q, "mark")' /\ "mark" \in Plain
    BY <1>3, <1>4, <1>5, <1>6, FitsLater
  <2>3. /\ s \in Seq(AccessNames) /\ s # <<>> /\ ~InSync(s) /\ Head(s) \in Tending
        /\ Plan(q.task, s) /\ Fits(q, Head(s))'
    BY <1>3, <1>4, <2>1, <2>2, DispatchFits
  <2>4. /\ Keeps(q.task)
        /\ HalfDone(q.task)' => (s # <<>> /\ Head(s) \in Tending) \/ (HalfDone(q.task) /\ "policy" \notin Tending)
    BY <1>7, <2>3
  <2> QED BY <1>1, <1>2, <1>3, <1>4, <1>10, <2>1, <2>3, <2>4, FitsThen
<1>11. \/ \E g \in Usable : Then(i, [q EXCEPT !.me = [q.me EXCEPT !.by = g]],
                                <<"mark">> \o Dispatch(q.task))
       \/ Then(i, q, <<"ask", "await">>)
       \/ Then(i, q, Dispatch(q.task))
  BY <1>1 DEF Policy
<1> QED BY <1>8, <1>9, <1>10, <1>11

LEMMA AskFits ==
  ASSUME OneCall, HInv, CPInv', NEW i \in Requests, Ask(i) PROVE HInv' /\ Moves
<1>1. PICK q : q = request[i]
  OBVIOUS
<1>2. Doing(i, "ask")
  BY DEF Ask
<1>3. /\ q \in CallType /\ q.task \in Tasks /\ Ready(q, "ask") /\ Fits(q, "ask")
      /\ WellFormed(q.todo) /\ q.todo # <<>> /\ Head(q.todo) = "ask" /\ Tables /\ History
  BY <1>1, <1>2, InFit
<1>4. /\ approval' = [approval EXCEPT ![q.task] = "pending"] /\ Continues(i, q)
      /\ UNCHANGED <<task, run, work>>
  BY <1>1 DEF Ask
<1>5. /\ approval'[q.task] = "pending" /\ \A u \in Tasks \ {q.task} : approval'[u] = approval[u]
  BY <1>3, <1>4 DEF Tables, TypeOK
<1>6. History' /\ Grows
  BY <1>3, <1>4, TablesRest
<1>7. ASSUME NEW h \in AccessNames, Follows("ask", h) PROVE Fits(q, h)'
  <2>1. h = "await"
    BY <1>7 DEF Follows
  <2>2. /\ q.me.previous = task'[q.task].previous /\ q.me.followed = task'[q.task].followed
        /\ q.me.status \in RunStates \union {task'[q.task].status}
        /\ q.me.status = "succeeded" => Done(q.task)'
    BY <1>3, <1>4, <1>6, KnowsTask DEF First, Enqueuing, Saving, Grows
  <2>3. "ask" \notin Enqueuing \union {"subject", "find", "keep_mine"} /\ "mark" \in Plain
    BY DEF Plain, Enqueuing, Saving
  <2>4. Fits(q, "mark")'
    BY <1>3, <1>6, <2>2, <2>3, FitsLater
  <2> QED BY <1>5, <2>1, <2>4 DEF Fits, Recalls, Enqueues, Answers, Reads, Syncs, First,
                                 Enqueuing, Saving
<1>8. /\ Keeps(q.task)
      /\ HalfDone(q.task)' => GoesOnTending("ask") \/ (HalfDone(q.task) /\ "ask" \notin Tending)
  <2>1. GoesOnTending("ask")
    BY DEF GoesOnTending, Final, Follows, Tending
  <2> QED BY <1>4, <1>5, <2>1 DEF Keeps
<1> QED BY <1>1, <1>2, <1>3, <1>4, <1>6, <1>7, <1>8, FitsInOrder

LEMMA AwaitFits ==
  ASSUME OneCall, HInv, CPInv', NEW i \in Requests, Await(i) PROVE HInv' /\ Moves
<1>1. PICK q : q = request[i]
  OBVIOUS
<1>2. Doing(i, "await")
  BY DEF Await
<1>3. /\ q \in CallType /\ Ready(q, "await") /\ Fits(q, "await") /\ q.me \in TaskType
  BY <1>1, <1>2, InFit
<1>4. PICK v : v = [q.me EXCEPT !.status = "awaiting", !.asked = TRUE]
  OBVIOUS
<1>5. /\ v \in TaskType /\ v.status = "awaiting" /\ v.run = q.me.run
      /\ v.previous = q.me.previous /\ v.followed = q.me.followed
  BY <1>3, <1>4 DEF TaskType
<1>6. /\ q.me.previous = task[q.task].previous /\ q.me.run = task[q.task].run
      /\ q.me.followed = task[q.task].followed /\ approval[q.task] = "pending"
  BY <1>3, KnowsTask DEF First, Enqueuing, Saving, Fits, Recalls
<1>7. TaskSave(i, "await", q, q, v)
  BY <1>1, <1>2, <1>3, <1>4, <1>5, <1>6 DEF TaskSave, Await
<1>8. ~ \E h \in AccessNames : Follows("await", h)
  BY DEF Follows
<1> QED BY <1>5, <1>6, <1>7, <1>8, SavesStatus

-----------------------------------------------------------------------------
(* decide_task                                                             *)

\* A call that has read its task knows it.
LEMMA FitsAsRead ==
  ASSUME History, NEW q \in CallType, NEW p \in CallType, NEW a \in {"decide", "task", "subject"},
         Fits(q, a), p.me = task[q.task], NEW h \in Plain \union {"find"},
         p.task = q.task, p.cur = q.cur, p.item = q.item, p.r = q.r, p.mine = q.mine,
         p.job = q.job, p.seen = q.seen, p.todo = q.todo, a = "subject" => h = "find"
  PROVE  Fits(p, h)
<1>1. q.task \in Tasks
  BY DEF CallType
<1>2. Recalls(p, h)
  BY <1>1 DEF History, Recalls, Plain
<1>3. Enqueues(p, h) /\ Answers(p, h)
  BY DEF Fits, Enqueues, Answers, Plain, Enqueuing, Saving
<1>4. Reads(p, h)
  BY DEF Fits, Reads, Plain
<1>5. Syncs(p, h)
  BY DEF Fits, Syncs, Plain
<1> QED BY <1>2, <1>3, <1>4, <1>5 DEF Fits

LEMMA DecideFits ==
  ASSUME OneCall, HInv, CPInv', NEW i \in Requests, Decide(i) PROVE HInv' /\ Moves
<1>1. PICK q : q = request[i]
  OBVIOUS
<1>2. Doing(i, "decide") /\ UNCHANGED tables
  BY DEF Decide
<1>3. /\ q \in CallType /\ q.task \in Tasks /\ Fits(q, "decide")
      /\ WellFormed(q.todo) /\ q.todo # <<>> /\ Head(q.todo) = "decide" /\ Tables /\ History
  BY <1>1, <1>2, InFit
<1>4. "decide" \notin Tending
  BY DEF Tending, Enqueuing, Saving
<1>5. PICK p : p = [q EXCEPT !.me = task[q.task]]
  OBVIOUS
<1>6. task[q.task] \in TaskType
  BY <1>3 DEF Tables, TypeOK
<1>7. /\ p \in CallType /\ p.todo = q.todo /\ p.task = q.task /\ p.me = task[q.task] /\ p.r = q.r
      /\ p.item = q.item /\ p.cur = q.cur /\ p.mine = q.mine /\ p.job = q.job /\ p.seen = q.seen
  BY <1>3, <1>5, <1>6 DEF CallType
<1>8. CASE Continues(i, p)
  <2>1. ASSUME NEW h \in AccessNames, Follows("decide", h) PROVE Fits(p, h)
    <3>1. h \in Plain
      BY <2>1 DEF Follows, Plain
    <3> QED BY <1>3, <1>7, <3>1, FitsAsRead
  <2> QED BY <1>1, <1>2, <1>3, <1>4, <1>7, <1>8, <2>1, LooksInOrder
<1>9. CASE Ends(i)
  BY <1>2, <1>4, <1>9, EndsIdly
<1>10. Continues(i, p) \/ Ends(i)
  BY <1>1, <1>5 DEF Decide
<1> QED BY <1>8, <1>9, <1>10

LEMMA SettleFits ==
  ASSUME OneCall, HInv, CPInv', NEW i \in Requests, Settle(i) PROVE HInv' /\ Moves
<1>1. PICK q : q = request[i]
  OBVIOUS
<1>2. Doing(i, "settle") /\ UNCHANGED <<task, run, work>>
  BY DEF Settle
<1>3. /\ q \in CallType /\ q.task \in Tasks /\ Ready(q, "settle") /\ Fits(q, "settle")
      /\ Tables /\ History
  BY <1>1, <1>2, InFit
<1>4. \A u \in Tasks \ {q.task} : approval'[u] = approval[u]
  BY <1>1, <1>3 DEF Settle, Tables, TypeOK
<1>5. History' /\ Grows
  BY <1>2, <1>3, TablesRest
<1>6. ASSUME NEW h \in Plain PROVE Fits(q, h)'
  <2>1. /\ q.me.previous = task'[q.task].previous /\ q.me.followed = task'[q.task].followed
        /\ q.me.status \in RunStates \union {task'[q.task].status}
        /\ q.me.status = "succeeded" => Done(q.task)'
    BY <1>2, <1>3, <1>5, KnowsTask DEF First, Enqueuing, Saving, Grows
  <2>2. "settle" \notin Enqueuing \union {"subject", "find", "keep_mine"}
    BY DEF Enqueuing, Saving
  <2> QED BY <1>3, <1>5, <2>1, <2>2, FitsLater
<1>7. PICK s : s = AfterDecision(q.kind, q.task)
  OBVIOUS
<1>8. /\ s \in Seq(AccessNames) /\ s # <<>> /\ ~InSync(s) /\ Head(s) \in Tending
      /\ Plan(q.task, s) /\ Fits(q, Head(s))'
  <2>1. CASE q.kind = "reject"
    <3>1. s = <<"refuse">>
      BY <1>7, <2>1 DEF AfterDecision
    <3>2. s \in Seq(AccessNames) /\ s # <<>> /\ ~InSync(s) /\ Head(s) = "refuse"
      BY <3>1, PairsAreWellFormed DEF WellFormed
    <3>3. "refuse" \in Plain \intersect Tending
      BY DEF Plain, Tending
    <3> QED BY <1>6, <3>2, <3>3 DEF Plan, Enqueuing, Saving
  <2>2. CASE s = Dispatch(q.task)
    <3>1. "settle" \in Plain
      BY DEF Plain
    <3> QED BY <1>3, <1>5, <1>6, <2>2, <3>1, DispatchFits
  <2>3. CASE s = <<"grant", "mark">> \o Dispatch(q.task)
    <3>1. "grant" \in Plain \intersect Tending
      BY DEF Plain, Tending
    <3>2. s \in Seq(AccessNames) /\ s # <<>> /\ ~InSync(s) /\ Head(s) = "grant" /\ Plan(q.task, s)
      BY <2>3, GrantIsPlanned
    <3> QED BY <1>6, <3>1, <3>2
  <2>4. CASE q.kind # "reject"
    <3>1. CASE q.kind = "approve_for_a_year" /\ q.task \in Scoped
      BY <1>7, <2>3, <3>1 DEF AfterDecision
    <3>2. CASE ~(q.kind = "approve_for_a_year" /\ q.task \in Scoped)
      <4>1. Dispatch(q.task) \in Seq(AccessNames)
        BY DispatchIsWellFormed DEF WellFormed
      <4>2. <<>> \o Dispatch(q.task) = Dispatch(q.task)
        BY <4>1
      <4> QED BY <1>7, <2>2, <2>4, <3>2, <4>2 DEF AfterDecision
    <3> QED BY <3>1, <3>2
  <2> QED BY <2>1, <2>4
<1>9. Then(i, q, s)
  BY <1>1, <1>7 DEF Settle
<1>10. Keeps(q.task)
  BY <1>2, <1>4 DEF Keeps
<1> QED BY <1>1, <1>2, <1>3, <1>5, <1>8, <1>9, <1>10, FitsThen

LEMMA RefuseFits ==
  ASSUME OneCall, HInv, CPInv', NEW i \in Requests, Refuse(i) PROVE HInv' /\ Moves
<1>1. PICK q : q = request[i]
  OBVIOUS
<1>2. Doing(i, "refuse")
  BY DEF Refuse
<1>3. /\ q \in CallType /\ Ready(q, "refuse") /\ Fits(q, "refuse") /\ q.me \in TaskType
  BY <1>1, <1>2, InFit
<1>4. PICK v : v = [q.me EXCEPT !.status = "rejected"]
  OBVIOUS
<1>5. /\ v \in TaskType /\ v.status = "rejected" /\ v.run = q.me.run
      /\ v.previous = q.me.previous /\ v.followed = q.me.followed
  BY <1>3, <1>4 DEF TaskType
<1>6. /\ q.me.previous = task[q.task].previous /\ q.me.run = task[q.task].run
      /\ q.me.followed = task[q.task].followed
  BY <1>3, KnowsTask DEF First, Enqueuing, Saving
<1>7. TaskSave(i, "refuse", q, q, v)
  BY <1>1, <1>2, <1>3, <1>4, <1>5, <1>6 DEF TaskSave, Refuse
<1>8. ~ \E h \in AccessNames : Follows("refuse", h)
  BY DEF Follows
<1> QED BY <1>5, <1>6, <1>7, <1>8, SavesStatus

LEMMA CreateGrantFits ==
  ASSUME OneCall, HInv, CPInv', NEW i \in Requests, CreateGrant(i) PROVE HInv' /\ Moves
<1>1. PICK q : q = request[i]
  OBVIOUS
<1>2. Doing(i, "grant") /\ UNCHANGED <<task, approval, run, work>>
  BY DEF CreateGrant
<1>3. /\ q \in CallType /\ q.task \in Tasks /\ Ready(q, "grant") /\ Fits(q, "grant")
      /\ WellFormed(q.todo) /\ q.todo # <<>> /\ Head(q.todo) = "grant" /\ q.me \in TaskType
      /\ Plan(q.task, q.todo) /\ Tables /\ History
  BY <1>1, <1>2, InFit
<1>4. PICK me : me = [q.me EXCEPT !.by = q.task]
  OBVIOUS
<1>5. /\ me \in TaskType /\ me.status = q.me.status /\ me.run = q.me.run
      /\ me.previous = q.me.previous /\ me.followed = q.me.followed
  BY <1>3, <1>4 DEF TaskType
<1>6. PICK p : p = [q EXCEPT !.me = me]
  OBVIOUS
<1>7. /\ p \in CallType /\ p.todo = q.todo /\ p.task = q.task /\ p.me = me /\ p.r = q.r
      /\ p.item = q.item /\ p.cur = q.cur /\ p.mine = q.mine /\ p.job = q.job /\ p.seen = q.seen
  BY <1>3, <1>5, <1>6 DEF CallType
<1>8. History' /\ Grows
  BY <1>2, <1>3, TablesRest
<1>9. Fits(p, "mark")'
  <2>1. /\ q.me.previous = task'[q.task].previous /\ q.me.followed = task'[q.task].followed
        /\ q.me.status \in RunStates \union {task'[q.task].status}
        /\ q.me.status = "succeeded" => Done(q.task)'
    BY <1>2, <1>3, <1>8, KnowsTask DEF First, Enqueuing, Saving, Grows
  <2>2. "grant" \notin Enqueuing \union {"subject", "find", "keep_mine"} /\ "mark" \in Plain
    BY DEF Plain, Enqueuing, Saving
  <2> QED BY <1>3, <1>5, <1>7, <1>8, <2>1, <2>2, FitsLater
<1>10. PICK s : s = Tail(q.todo)
  OBVIOUS
<1>11. s \in Seq(AccessNames) /\ s # <<>> /\ ~InSync(s) /\ Head(s) = "mark" /\ Plan(q.task, s)
  BY <1>3, <1>10, MarkIsPlanned DEF Plan
<1>12. Then(i, p, s) /\ "mark" \in Tending
  BY <1>1, <1>4, <1>6, <1>7, <1>10 DEF CreateGrant, Continues, Tending
<1>13. Keeps(p.task)
  BY <1>2 DEF Keeps
<1> QED BY <1>1, <1>2, <1>7, <1>8, <1>9, <1>11, <1>12, <1>13, FitsThen

\* A call that saves its task as it knows it.
LEMMA SavesItsOwn ==
  ASSUME OneCall, HInv, CPInv', NEW i \in Requests, NEW a, Doing(i, a), NEW q, q = request[i],
         a \notin First \union Enqueuing \union {"answered", "grant", "mark"},
         task' = [task EXCEPT ![q.task] = q.me], UNCHANGED <<approval, run, work>>, Continues(i, q),
         GoesOnTending(a) \/ a \notin Tending,
         Grows /\ task'[q.task] = q.me => \A h \in AccessNames : Follows(a, h) => Fits(q, h)'
  PROVE  HInv' /\ Moves
<1>1. /\ q \in CallType /\ Ready(q, a) /\ Fits(q, a) /\ q.me \in TaskType
  BY InFit
<1>2. /\ q.me.previous = task[q.task].previous /\ q.me.run = task[q.task].run
      /\ q.me.followed = task[q.task].followed
      /\ q.me.status \in RunStates \union {task[q.task].status}
      /\ q.me.status = "succeeded" => Done(q.task)
  BY <1>1, KnowsTask
<1>3. \/ q.me.status \notin {"created", "awaiting"}
      \/ GoesOnTending(a)
      \/ q.me.status = task[q.task].status /\ a \notin Tending
  BY <1>2 DEF RunStates
<1>4. TaskSave(i, a, q, q, q.me)
  BY <1>1, <1>2, <1>3 DEF TaskSave
<1> QED BY <1>2, <1>4, SavesStatus

LEMMA MarkFits ==
  ASSUME OneCall, HInv, CPInv', NEW i \in Requests, Mark(i) PROVE HInv' /\ Moves
<1>1. PICK q : q = request[i]
  OBVIOUS
<1>2. Doing(i, "mark")
  BY DEF Mark
<1>3. /\ q \in CallType /\ q.task \in Tasks /\ Ready(q, "mark") /\ Fits(q, "mark")
      /\ WellFormed(q.todo) /\ q.todo # <<>> /\ Head(q.todo) = "mark" /\ q.me \in TaskType
      /\ Plan(q.task, q.todo) /\ Tables /\ History
  BY <1>1, <1>2, InFit
<1>4. /\ q.me.previous = task[q.task].previous /\ q.me.run = task[q.task].run
      /\ q.me.followed = task[q.task].followed
      /\ q.me.status \in RunStates \union {task[q.task].status}
      /\ q.me.status = "succeeded" => Done(q.task)
  BY <1>3, KnowsTask DEF First, Enqueuing, Saving
<1>5. /\ task' = [task EXCEPT ![q.task] = q.me] /\ Continues(i, q)
      /\ UNCHANGED <<approval, run, work>>
  BY <1>1 DEF Mark
<1>6. /\ History' /\ Grows /\ task'[q.task] = q.me
      /\ \A u \in Tasks \ {q.task} : task'[u] = task[u]
  <2>1. /\ \A r \in q.me.previous : run[r].status # "absent"
        /\ q.me.run # NoRun => RunOf(q.me.run, q.task)
        /\ q.me.run = NoRun => q.me.previous = {}
    <3>1. /\ \A r \in task[q.task].previous : run[r].status # "absent"
          /\ task[q.task].run # NoRun => RunOf(task[q.task].run, q.task)
          /\ task[q.task].run = NoRun => task[q.task].previous = {}
      BY <1>3 DEF History
    <3> QED BY <1>4, <3>1
  <2> QED BY <1>3, <1>4, <1>5, <2>1, TaskKept
<1>7. Fits(q, "mark")' /\ "mark" \in Plain
  <2>1. /\ q.me.status \in RunStates \union {task'[q.task].status}
        /\ q.me.status = "succeeded" => Done(q.task)'
        /\ q.me.previous = task'[q.task].previous /\ q.me.followed = task'[q.task].followed
    BY <1>3, <1>4, <1>6 DEF Grows
  <2>2. "mark" \notin Enqueuing \union {"subject", "find", "keep_mine"} /\ "mark" \in Plain
    BY DEF Plain, Enqueuing, Saving
  <2> QED BY <1>3, <1>6, <2>1, <2>2, FitsLater
<1>8. PICK s : s = Dispatch(q.task)
  OBVIOUS
<1>9. /\ s \in Seq(AccessNames) /\ s # <<>> /\ ~InSync(s) /\ Head(s) \in Tending
      /\ Plan(q.task, s) /\ Fits(q, Head(s))'
  BY <1>3, <1>6, <1>7, <1>8, DispatchFits
<1>10. Then(i, q, s)
  BY <1>3, <1>5, <1>8 DEF Plan, Continues
<1>11. Keeps(q.task)
  BY <1>4, <1>5, <1>6 DEF Keeps
<1> QED BY <1>1, <1>2, <1>3, <1>6, <1>9, <1>10, <1>11, FitsThen

-----------------------------------------------------------------------------
(* _dispatch_task                                                          *)

\* What a call that enqueues goes on to know.
LEMMA EnqueuesOn ==
  ASSUME Grows, UNCHANGED <<task, approval>>, NEW q \in CallType, NEW p \in CallType,
         p.task = q.task, p.cur = q.cur, p.item = q.item, p.me = q.me, p.todo = q.todo,
         ~InSync(q.todo), NEW a \in Enqueuing, NEW h \in Saving, Fits(q, a),
         \A r \in task[q.task].previous : run[r].status # "absent",
         p.r \notin task[q.task].previous, WorkOf(p.r, q.task)',
         h = "save_run" => run'[p.r].status = "absent",
         h = "save_task" => RunOf(p.r, q.task)'
  PROVE  Fits(p, h)'
<1>1. q.task \in Tasks /\ q.me \in TaskType /\ q.cur \in RunType /\ q.item \in WorkType
  BY DEF CallType
<1>2. Recalls(p, h)'
  BY <1>1 DEF Fits, Recalls, Enqueuing, Saving, First, Grows
<1>3. Enqueues(p, h)'
  <2>1. \A r \in q.me.previous : run'[r].status # "absent"
    BY <1>1 DEF Fits, Enqueues, Grows, TaskType
  <2>2. q.item.follows # NoRun => q.me.followed /\ WorkOf(q.item.follows, q.task)'
    BY <1>1 DEF Fits, Enqueues, Grows, WorkType
  <2> QED BY <2>1, <2>2 DEF Fits, Enqueues, Enqueuing, Saving
<1>4. Answers(p, h)' /\ Syncs(p, h)'
  BY DEF Answers, Syncs, Saving
<1>5. Reads(p, h)'
  BY <1>1, StandsOn DEF Fits, Reads, Saving
<1> QED BY <1>2, <1>3, <1>4, <1>5 DEF Fits

LEMMA EnqueueFits ==
  ASSUME OneCall, HInv, CPInv', NEW i \in Requests, Enqueue(i) PROVE HInv' /\ Moves
<1>1. PICK q : q = request[i]
  OBVIOUS
<1>2. Doing(i, "enqueue") /\ UNCHANGED <<task, approval, run>>
  BY DEF Enqueue
<1>3. /\ q \in CallType /\ q.task \in Tasks /\ Fits(q, "enqueue") /\ Head(q.todo) = "enqueue"
      /\ q.item \in WorkType /\ Knows(q) /\ Plan(q.task, q.todo) /\ Tables /\ History
  BY <1>1, <1>2, InFit
<1>4. PICK r \in Fresh : /\ work' = [work EXCEPT ![r] = q.item]
                         /\ Continues(i, [q EXCEPT !.r = r])
  BY <1>1 DEF Enqueue
<1>5. r \in Runs /\ work[r].status = "absent" /\ run[r].status = "absent"
  BY DEF Fresh
<1>6. q.item.status = "queued" /\ q.item.task = q.task
  BY <1>3 DEF Knows
<1>7. "enqueue" \in Enqueuing /\ q.task \notin Instant /\ ~InSync(q.todo)
  BY <1>3 DEF Enqueuing, Fits, Enqueues, Plan
<1>8. History' /\ Grows /\ work'[r] = q.item
  BY <1>2, <1>3, <1>4, <1>5, <1>6, <1>7, WorkKept
<1>9. PICK p : p = [q EXCEPT !.r = r]
  OBVIOUS
<1>10. /\ p \in CallType /\ p.todo = q.todo /\ p.task = q.task /\ p.me = q.me /\ p.r = r
       /\ p.item = q.item /\ p.cur = q.cur
  BY <1>3, <1>5, <1>9 DEF CallType
<1>11. ASSUME NEW h \in AccessNames, Follows("enqueue", h) PROVE Fits(p, h)'
  <2>1. h = "save_run" /\ h \in Saving
    BY <1>11 DEF Follows, Saving
  <2>2. \A s \in task[q.task].previous : run[s].status # "absent"
    BY <1>3 DEF History
  <2>3. r \notin task[q.task].previous /\ WorkOf(r, q.task)' /\ run'[r].status = "absent"
    BY <1>2, <1>5, <1>6, <1>8, <2>2 DEF WorkOf
  <2> QED BY <1>2, <1>3, <1>7, <1>8, <1>10, <2>1, <2>2, <2>3, EnqueuesOn
<1>12. GoesOnTending("enqueue") /\ Keeps(p.task)
  BY <1>2 DEF GoesOnTending, Final, Follows, Tending, Enqueuing, Saving, Keeps
<1>13. Continues(i, p)
  BY <1>4, <1>9
<1> QED BY <1>1, <1>2, <1>8, <1>10, <1>11, <1>12, <1>13, FitsInOrder

LEMMA SaveRunFits ==
  ASSUME OneCall, HInv, CPInv', NEW i \in Requests, SaveRun(i) PROVE HInv' /\ Moves
<1>1. PICK q : q = request[i]
  OBVIOUS
<1>2. Doing(i, "save_run") /\ UNCHANGED <<task, approval, work>> /\ Continues(i, q)
  BY <1>1 DEF SaveRun
<1>3. /\ q \in CallType /\ q.task \in Tasks /\ Fits(q, "save_run") /\ Head(q.todo) = "save_run"
      /\ Plan(q.task, q.todo) /\ Tables /\ History
  BY <1>1, <1>2, InFit
<1>4. PICK v : v = [status |-> "queued", task |-> q.task, work |-> q.r]
  OBVIOUS
<1>5. run' = [run EXCEPT ![q.r] = v]
  BY <1>1, <1>4 DEF SaveRun
<1>6. /\ "save_run" \in Enqueuing /\ ~InSync(q.todo) /\ run[q.r].status = "absent"
      /\ q.r \notin task[q.task].previous /\ WorkOf(q.r, q.task)
  BY <1>3 DEF Enqueuing, Saving, Fits, Enqueues, Plan
<1>7. q.r \in Runs /\ q.r # NoRun /\ work[q.r].task = q.task
  BY <1>6, ControlPlaneAssumption DEF WorkOf
<1>8. v \in RunType /\ v.status = "queued" /\ v.task = q.task /\ v.work = q.r
  BY <1>3, <1>4, <1>7 DEF RunType, RunStates
<1>9. History' /\ Grows /\ run'[q.r] = v
  BY <1>2, <1>3, <1>5, <1>6, <1>7, <1>8, RunKept
<1>10. ASSUME NEW h \in AccessNames, Follows("save_run", h) PROVE Fits(q, h)'
  <2>1. h = "save_task" /\ h \in Saving
    BY <1>10 DEF Follows, Saving
  <2>2. \A s \in task[q.task].previous : run[s].status # "absent"
    BY <1>3 DEF History
  <2>3. WorkOf(q.r, q.task)' /\ RunOf(q.r, q.task)'
    BY <1>2, <1>6, <1>7, <1>8, <1>9 DEF WorkOf, RunOf
  <2> QED BY <1>2, <1>3, <1>6, <1>9, <2>1, <2>2, <2>3, EnqueuesOn
<1>11. GoesOnTending("save_run") /\ Keeps(q.task)
  BY <1>2 DEF GoesOnTending, Final, Follows, Tending, Enqueuing, Saving, Keeps
<1> QED BY <1>1, <1>2, <1>3, <1>9, <1>10, <1>11, FitsInOrder

LEMMA SaveTaskFits ==
  ASSUME OneCall, HInv, CPInv', NEW i \in Requests, SaveTask(i) PROVE HInv' /\ Moves
<1>1. PICK q : q = request[i]
  OBVIOUS
<1>2. Doing(i, "save_task")
  BY DEF SaveTask
<1>3. /\ q \in CallType /\ q.task \in Tasks /\ Fits(q, "save_task") /\ q.me \in TaskType
  BY <1>1, <1>2, InFit
<1>4. /\ RunOf(q.r, q.task) /\ q.r \notin task[q.task].previous
      /\ \A r \in q.me.previous : run[r].status # "absent"
      /\ task[q.task].followed => q.me.followed
  BY <1>3 DEF Fits, Enqueues, Enqueuing, Saving
<1>5. q.r \in Runs /\ q.r # NoRun
  BY <1>4, ControlPlaneAssumption DEF RunOf
<1>6. PICK v : v = [q.me EXCEPT !.status = "queued", !.run = q.r]
  OBVIOUS
<1>7. /\ v \in TaskType /\ v.status = "queued" /\ v.run = q.r
      /\ v.previous = q.me.previous /\ v.followed = q.me.followed
  BY <1>3, <1>5, <1>6 DEF TaskType, RunStates
<1>8. TaskSave(i, "save_task", q, q, v)
  BY <1>1, <1>2, <1>3, <1>6, <1>7 DEF TaskSave, SaveTask
<1>9. ~ \E h \in AccessNames : Follows("save_task", h)
  BY DEF Follows
<1>10. /\ \A r \in v.previous : run[r].status # "absent"
       /\ v.run # NoRun => RunOf(v.run, q.task)
       /\ v.run = NoRun => v.previous = {}
       /\ v.run # task[q.task].run => v.run \notin task[q.task].previous
       /\ task[q.task].followed => v.followed
  BY <1>4, <1>5, <1>7
<1> QED BY <1>8, <1>9, <1>10, SavesFitly

LEMMA AnswerFits ==
  ASSUME OneCall, HInv, CPInv', NEW i \in Requests, Answer(i) PROVE HInv' /\ Moves
<1>1. PICK q : q = request[i]
  OBVIOUS
<1>2. Doing(i, "answer") /\ UNCHANGED <<task, approval, work>>
  BY DEF Answer
<1>3. /\ q \in CallType /\ q.task \in Tasks /\ Fits(q, "answer") /\ q.me \in TaskType
      /\ q.cur \in RunType /\ q.mine \in RunType /\ Tables /\ History
  BY <1>1, <1>2, InFit
<1>4. PICK r \in Fresh, status \in {"succeeded", "failed"} :
        /\ run' = [run EXCEPT ![r] = [status |-> status, task |-> q.task, work |-> NoRun]]
        /\ Continues(i, [q EXCEPT !.me = [q.me EXCEPT !.status = status, !.run = r]])
  BY <1>1 DEF Answer
<1>5. r \in Runs /\ r # NoRun /\ work[r].status = "absent" /\ run[r].status = "absent"
  BY ControlPlaneAssumption DEF Fresh
<1>6. PICK v : v = [status |-> status, task |-> q.task, work |-> NoRun]
  OBVIOUS
<1>7. /\ v \in RunType /\ v.status = status /\ v.task = q.task /\ v.work = NoRun
      /\ status \in RunStates /\ status # "absent"
  BY <1>3, <1>6 DEF RunType, RunStates
<1>8. q.task \in Instant
  BY <1>3 DEF Fits, Answers
<1>9. History' /\ Grows /\ run'[r] = v
  BY <1>2, <1>3, <1>4, <1>5, <1>6, <1>7, <1>8, RunKept
<1>10. PICK me : me = [q.me EXCEPT !.status = status, !.run = r]
  OBVIOUS
<1>11. /\ me \in TaskType /\ me.status = status /\ me.run = r
       /\ me.previous = q.me.previous /\ me.followed = q.me.followed
  BY <1>3, <1>5, <1>7, <1>10 DEF TaskType
<1>12. PICK p : p = [q EXCEPT !.me = me]
  OBVIOUS
<1>13. /\ p \in CallType /\ p.todo = q.todo /\ p.task = q.task /\ p.me = me /\ p.r = q.r
       /\ p.item = q.item /\ p.cur = q.cur /\ p.mine = q.mine /\ p.job = q.job /\ p.seen = q.seen
  BY <1>3, <1>11, <1>12 DEF CallType
<1>14. ASSUME NEW h \in AccessNames, Follows("answer", h) PROVE Fits(p, h)'
  <2>1. h = "answered"
    BY <1>14 DEF Follows
  <2>2. \A s \in task[q.task].previous : run[s].status # "absent"
    BY <1>3 DEF History
  <2>3. r \notin task[q.task].previous /\ RunOf(r, q.task)'
    BY <1>5, <1>7, <1>9, <2>2 DEF RunOf
  <2>4. status = "succeeded" => Done(q.task)'
    BY <1>5, <1>7, <1>9 DEF Done
  <2>5. /\ me.previous = task[q.task].previous /\ me.followed = task[q.task].followed
    BY <1>3, <1>11 DEF Fits, Recalls, First, Enqueuing, Saving
  <2>6. Fits(p, "mark")'
    <3>1. "answer" \notin Enqueuing \union {"subject", "find", "keep_mine"} /\ "mark" \in Plain
      BY DEF Enqueuing, Saving, Plain
    <3>2. /\ p.me.status \in RunStates \union {task'[q.task].status}
          /\ p.me.status = "succeeded" => Done(q.task)'
          /\ p.me.previous = task'[q.task].previous /\ p.me.followed = task'[q.task].followed
      BY <1>2, <1>7, <1>11, <1>13, <2>4, <2>5
    <3> QED BY <1>3, <1>9, <1>13, <3>1, <3>2, FitsLater
  <2>7. Answers(p, "answered")'
    BY <1>2, <1>7, <1>8, <1>11, <1>13, <2>3 DEF Answers
  <2>8. Recalls(p, "answered")' /\ Enqueues(p, "answered")' /\ Reads(p, "answered")' /\ Syncs(p, "answered")'
    BY <2>6 DEF Fits, Recalls, Enqueues, Reads, Syncs, First, Enqueuing, Saving
  <2> QED BY <2>1, <2>7, <2>8 DEF Fits
<1>15. GoesOnTending("answer") /\ Keeps(p.task)
  BY <1>2 DEF GoesOnTending, Final, Follows, Tending, Keeps
<1>16. Continues(i, p)
  BY <1>4, <1>10, <1>12
<1> QED BY <1>1, <1>2, <1>9, <1>13, <1>14, <1>15, <1>16, FitsInOrder

LEMMA SaveAnsweredFits ==
  ASSUME OneCall, HInv, CPInv', NEW i \in Requests, SaveAnswered(i) PROVE HInv' /\ Moves
<1>1. PICK q : q = request[i]
  OBVIOUS
<1>2. Doing(i, "answered")
  BY DEF SaveAnswered
<1>3. /\ q \in CallType /\ q.task \in Tasks /\ Fits(q, "answered") /\ q.me \in TaskType
      /\ Ready(q, "answered") /\ History
  BY <1>1, <1>2, InFit
<1>4. /\ q.me.run \notin task[q.task].previous /\ RunOf(q.me.run, q.task)
      /\ q.me.status \in RunStates /\ q.me.run # NoRun
      /\ q.me.status = "succeeded" => Done(q.task)
      /\ q.me.previous = task[q.task].previous /\ q.me.followed = task[q.task].followed
  BY <1>3 DEF Fits, Answers, Recalls, First, Enqueuing, Saving, Ready
<1>5. TaskSave(i, "answered", q, q, q.me)
  BY <1>1, <1>2, <1>3, <1>4 DEF TaskSave, SaveAnswered, RunStates
<1>6. ~ \E h \in AccessNames : Follows("answered", h)
  BY DEF Follows
<1>7. \A r \in task[q.task].previous : run[r].status # "absent"
  BY <1>3 DEF History
<1>8. /\ \A r \in q.me.previous : run[r].status # "absent"
      /\ q.me.run # NoRun => RunOf(q.me.run, q.task)
      /\ q.me.run = NoRun => q.me.previous = {}
      /\ q.me.run # task[q.task].run => q.me.run \notin task[q.task].previous
      /\ task[q.task].followed => q.me.followed
  BY <1>4, <1>7
<1> QED BY <1>5, <1>6, <1>8, SavesFitly

-----------------------------------------------------------------------------
(* get_task and get_run                                                    *)

LEMMA ReadTaskFits ==
  ASSUME OneCall, HInv, CPInv', NEW i \in Requests, ReadTask(i) PROVE HInv' /\ Moves
<1>1. PICK q : q = request[i]
  OBVIOUS
<1>2. Doing(i, "task") /\ UNCHANGED tables /\ "task" \notin Tending
  BY DEF ReadTask, Tending, Enqueuing, Saving
<1>3. q \in CallType /\ q.task \in Tasks /\ Fits(q, "task") /\ Tables /\ History
  BY <1>1, <1>2, InFit
<1>4. PICK p : p = [q EXCEPT !.me = task[q.task]]
  OBVIOUS
<1>5. task[q.task] \in TaskType
  BY <1>3 DEF Tables, TypeOK
<1>6. /\ p \in CallType /\ p.todo = q.todo /\ p.task = q.task /\ p.me = task[q.task] /\ p.r = q.r
      /\ p.item = q.item /\ p.cur = q.cur /\ p.mine = q.mine /\ p.job = q.job /\ p.seen = q.seen
  BY <1>3, <1>4, <1>5 DEF CallType
<1>7. CASE Continues(i, p)
  <2>1. ASSUME NEW h \in AccessNames, Follows("task", h) PROVE Fits(p, h)
    <3>1. h \in Plain
      BY <2>1 DEF Follows, Plain
    <3> QED BY <1>3, <1>6, <3>1, FitsAsRead
  <2> QED BY <1>1, <1>2, <1>6, <1>7, <2>1, LooksInOrder
<1>8. Continues(i, p) \/ Ends(i)
  BY <1>1, <1>4 DEF ReadTask
<1> QED BY <1>2, <1>7, <1>8, EndsIdly

\* What a call that looks further knew of its task, it still knows.
LEMMA FitsStill ==
  ASSUME History, NEW q \in CallType, NEW p \in CallType, NEW a, NEW h,
         a \notin First \union Enqueuing \union {"answered", "keep_mine", "find"}, h \in Plain \union {"keep"},
         Fits(q, a), p.task = q.task, p.me = q.me, p.item = q.item, p.seen = q.seen, p.job = q.job,
         p.r = q.r, p.mine = q.mine, p.todo = q.todo
  PROVE  Recalls(p, h) /\ Enqueues(p, h) /\ Answers(p, h) /\ Syncs(p, h)
<1>1. Recalls(p, h)
  BY DEF Fits, Recalls, Plain, First, Enqueuing, Saving
<1>2. Enqueues(p, h) /\ Answers(p, h)
  BY DEF Fits, Enqueues, Answers, Plain, Enqueuing, Saving
<1>3. Syncs(p, h)
  BY DEF Fits, Syncs, First
<1> QED BY <1>1, <1>2, <1>3

\* A run as it is read, with the state of its worker run.
LEMMA ProjectedStands ==
  ASSUME Tables, History, NEW t \in Tasks, NEW r, RunOf(r, t), NEW v, v = Projected(r)
  PROVE  /\ v \in RunType /\ Stands(v, t) /\ (v # run[r] => v.work # NoRun)
<1>1. r \in Runs /\ run[r].status # "absent" /\ run[r].task = t /\ r # NoRun /\ run[r] \in RunType
  BY ControlPlaneAssumption DEF RunOf, Tables, TypeOK
<1>2. Stands(run[r], t)
  BY <1>1 DEF History
<1>3. CASE run[r].work = NoRun \/ work[run[r].work].status = "absent"
  BY <1>1, <1>2, <1>3 DEF Projected
<1>4. CASE ~(run[r].work = NoRun \/ work[run[r].work].status = "absent")
  <2>1. PICK w : w = run[r].work
    OBVIOUS
  <2>2. w \in Runs /\ w # NoRun /\ WorkOf(w, t) /\ work[w] \in WorkType
    BY <1>2, <1>4, <2>1 DEF Stands, WorkOf, Tables, TypeOK
  <2>3. v = [run[r] EXCEPT !.status = RunStatus(work[w].status)]
    BY <1>1, <1>4, <2>1 DEF Projected
  <2>4. RunStatus(work[w].status) \in RunStates
    BY <2>2 DEF RunStatus, WorkOf, WorkType, Open, RunStates
  <2>5. /\ v \in RunType /\ v.status = RunStatus(work[w].status) /\ v.task = t /\ v.work = w
    BY <1>1, <2>1, <2>3, <2>4 DEF RunType
  <2>6. v.status = "succeeded" => Done(t)
    BY <2>2, <2>5 DEF RunStatus, Done, WorkOf, WorkType, Open
  <2> QED BY <2>2, <2>4, <2>5, <2>6 DEF Stands, RunStates
<1> QED BY <1>3, <1>4

LEMMA ReadRunFits ==
  ASSUME OneCall, HInv, CPInv', NEW i \in Requests, ReadRun(i) PROVE HInv' /\ Moves
<1>1. PICK q : q = request[i]
  OBVIOUS
<1>2. Doing(i, "run") /\ UNCHANGED tables /\ "run" \notin Tending
  BY DEF ReadRun, Tending, Enqueuing, Saving
<1>3. /\ q \in CallType /\ q.task \in Tasks /\ Fits(q, "run") /\ Ready(q, "run") /\ Tables /\ History
      /\ WellFormed(q.todo) /\ q.todo # <<>> /\ Head(q.todo) = "run" /\ Plan(q.task, q.todo)
  BY <1>1, <1>2, InFit
<1>4. q.me.run # NoRun => RunOf(q.me.run, q.task)
  BY <1>3 DEF Ready, First, History
<1>5. PICK cur : cur = Projected(q.me.run)
  OBVIOUS
<1>6. NoRunRecord \in RunType /\ NoRunRecord.status = "absent"
  BY DEF NoRunRecord, RunType
<1>7. /\ cur \in RunType /\ (cur.status # "absent" => Stands(cur, q.task))
      /\ q.me.run # NoRun /\ cur # run[q.me.run] =>
           cur.status # "absent" /\ cur.work # NoRun /\ RunOf(q.me.run, q.task)
  <2>1. CASE q.me.run = NoRun
    BY <1>5, <1>6, <2>1 DEF Projected
  <2>2. CASE q.me.run # NoRun
    <3>1. /\ cur \in RunType /\ Stands(cur, q.task) /\ (cur # run[q.me.run] => cur.work # NoRun)
      BY <1>3, <1>4, <1>5, <2>2, ProjectedStands
    <3> QED BY <1>4, <2>2, <3>1 DEF Stands
  <2> QED BY <2>1, <2>2
<1>8. PICK p : p = [q EXCEPT !.cur = cur]
  OBVIOUS
<1>9. /\ p \in CallType /\ p.todo = q.todo /\ p.task = q.task /\ p.me = q.me /\ p.item = q.item
      /\ p.cur = cur /\ p.seen = q.seen /\ p.job = q.job /\ p.r = q.r /\ p.mine = q.mine
  BY <1>3, <1>7, <1>8 DEF CallType
<1>10. ASSUME NEW h \in Plain \union {"keep"}, h = "keep" => q.me.run # NoRun /\ cur # run[q.me.run]
       PROVE  Fits(p, h)
  <2>1. "run" \notin First \union Enqueuing \union {"answered", "keep_mine", "find"}
    BY DEF First, Enqueuing, Saving
  <2>2. Recalls(p, h) /\ Enqueues(p, h) /\ Answers(p, h) /\ Syncs(p, h)
    BY <1>3, <1>9, <2>1, FitsStill
  <2>3. Reads(p, h)
    BY <1>7, <1>9, <1>10 DEF Reads
  <2> QED BY <2>2, <2>3 DEF Fits
<1>11. PICK t : t = Tail(q.todo)
  OBVIOUS
<1>12. /\ t # <<>> /\ t \in Seq(AccessNames) /\ (InSync(t) => InSync(q.todo)) /\ WellFormed(t)
       /\ Head(t) \in {"show", "cancel", "force-fail", "retry"}
  <2>1. "run" \notin Final
    BY DEF Final
  <2>2. t # <<>>
    BY <1>3, <1>11, <2>1, GoesOnUnlessFinal
  <2>3. WellFormed(t) /\ (InSync(t) <=> InSync(q.todo)) /\ Follows("run", Head(t))
    BY <1>3, <1>11, <2>2, TailIsWellFormed
  <2> QED BY <2>2, <2>3 DEF Follows, WellFormed
<1>13. \/ Then(i, p, t)
       \/ q.me.run # NoRun /\ cur # run[q.me.run] /\ Then(i, p, <<"keep">> \o t)
  <2>1. <<>> \o t = t
    BY <1>12
  <2>2. Then(i, [q EXCEPT !.cur = cur],
             (IF q.me.run # NoRun /\ cur # run[q.me.run] THEN <<"keep">> ELSE <<>>) \o t)
    BY <1>1, <1>5, <1>11 DEF ReadRun
  <2> QED BY <1>8, <2>1, <2>2
<1>14. CASE Then(i, p, t)
  <2>1. Fits(p, Head(t)) /\ Plan(p.task, t)
    BY <1>10, <1>12 DEF Plain, Plan, Enqueuing, Saving
  <2> QED BY <1>1, <1>2, <1>9, <1>12, <1>14, <2>1, LooksRound
<1>15. CASE q.me.run # NoRun /\ cur # run[q.me.run] /\ Then(i, p, <<"keep">> \o t)
  <2>1. Follows("keep", Head(t)) /\ "keep" \in AccessNames \ SyncAccesses
    BY <1>12 DEF Follows, AccessNames, SyncAccesses
  <2>2. PICK s : s = <<"keep">> \o t
    OBVIOUS
  <2>3. WellFormed(s) /\ Head(s) = "keep" /\ s # <<>> /\ (InSync(s) <=> InSync(t))
    BY <1>12, <2>1, <2>2, ConsIsWellFormed
  <2>4. Fits(p, Head(s)) /\ Plan(p.task, s)
    BY <1>10, <1>15, <2>3 DEF Plan, Enqueuing, Saving
  <2>5. s \in Seq(AccessNames) /\ (InSync(s) => InSync(p.todo))
    BY <1>9, <1>12, <2>3 DEF WellFormed
  <2> QED BY <1>1, <1>2, <1>9, <1>15, <2>2, <2>3, <2>4, <2>5, LooksRound
<1> QED BY <1>13, <1>14, <1>15

LEMMA KeepRunFits ==
  ASSUME OneCall, HInv, CPInv', NEW i \in Requests, KeepRun(i) PROVE HInv' /\ Moves
<1>1. PICK q : q = request[i]
  OBVIOUS
<1>2. Doing(i, "keep") /\ UNCHANGED <<task, approval, work>> /\ Continues(i, q) /\ "keep" \notin Tending
  BY <1>1 DEF KeepRun, Tending, Enqueuing, Saving
<1>3. /\ q \in CallType /\ q.task \in Tasks /\ Fits(q, "keep") /\ Ready(q, "keep") /\ q.cur \in RunType
      /\ Tables /\ History
  BY <1>1, <1>2, InFit
<1>4. PICK r, v : r = q.me.run /\ v = q.cur
  OBVIOUS
<1>5. /\ v.status # "absent" /\ v.work # NoRun /\ RunOf(r, q.task) /\ Stands(v, q.task)
  BY <1>3, <1>4 DEF Fits, Reads
<1>6. /\ r \in Runs /\ v.task = q.task /\ run[r].task = q.task /\ q.task \notin Instant
      /\ work[r].status # "absent" => work[r].task = v.task
  BY <1>3, <1>5 DEF RunOf, Stands, WorkOf, History
<1>7. run' = [run EXCEPT ![r] = v]
  BY <1>1, <1>4 DEF KeepRun
<1>8. History' /\ Grows
  BY <1>2, <1>3, <1>4, <1>5, <1>6, <1>7, RunKept DEF Stands
<1>9. ASSUME NEW h \in AccessNames, Follows("keep", h) PROVE Fits(q, h)'
  <2>1. h \in Plain
    BY <1>9 DEF Follows, Plain
  <2>2. "keep" \notin Enqueuing \union {"subject", "find", "keep_mine", "answered"} \union First
    BY DEF Enqueuing, Saving, First
  <2>3. /\ q.me.previous = task'[q.task].previous /\ q.me.followed = task'[q.task].followed
        /\ q.me.status \in RunStates \union {task'[q.task].status}
        /\ q.me.status = "succeeded" => Done(q.task)'
    BY <1>2, <1>3, <1>8, <2>2, KnowsTask DEF Grows
  <2> QED BY <1>3, <1>8, <2>1, <2>2, <2>3, FitsLater
<1>10. /\ Keeps(q.task)
       /\ HalfDone(q.task)' => GoesOnTending("keep") \/ (HalfDone(q.task) /\ "keep" \notin Tending)
  BY <1>2 DEF Keeps, HalfDone
<1> QED BY <1>1, <1>2, <1>3, <1>8, <1>9, <1>10, FitsInOrder

LEMMA ShowTaskFits ==
  ASSUME OneCall, HInv, CPInv', NEW i \in Requests, ShowTask(i) PROVE HInv' /\ Moves
<1>1. PICK q : q = request[i]
  OBVIOUS
<1>2. Doing(i, "show") /\ UNCHANGED <<approval, grant, run, work>>
  BY DEF ShowTask
<1>3. /\ q \in CallType /\ q.task \in Tasks /\ Fits(q, "show") /\ Ready(q, "show") /\ q.cur \in RunType
      /\ q.me \in TaskType /\ Tables /\ History
  BY <1>1, <1>2, InFit
<1>4. "show" \notin Enqueuing \union {"subject", "find", "keep_mine", "answered"} \union First \union Tending
  BY DEF Enqueuing, Saving, First, Tending
<1>5. /\ q.me.previous = task[q.task].previous /\ q.me.run = task[q.task].run
      /\ q.me.followed = task[q.task].followed
      /\ q.me.status \in RunStates \union {task[q.task].status}
      /\ q.me.status = "succeeded" => Done(q.task)
  BY <1>3, <1>4, KnowsTask
<1>6. PICK me : me = IF q.cur.status = "absent" THEN q.me
                     ELSE [q.me EXCEPT !.status = q.cur.status]
  OBVIOUS
<1>7. /\ me \in TaskType /\ me.run = q.me.run
      /\ me.previous = q.me.previous /\ me.followed = q.me.followed
      /\ me.status \in RunStates \/ me.status = q.me.status
      /\ me.status = "succeeded" => Done(q.task)
  <2>1. CASE q.cur.status = "absent"
    BY <1>3, <1>5, <1>6, <2>1
  <2>2. CASE q.cur.status # "absent"
    <3>1. me = [q.me EXCEPT !.status = q.cur.status]
      BY <1>6, <2>2
    <3>2. q.cur.status \in RunStates
      BY <1>3, <2>2 DEF RunType
    <3>3. q.cur.status = "succeeded" => Done(q.task)
      BY <1>3, <2>2 DEF Fits, Reads, Stands
    <3> QED BY <1>3, <3>1, <3>2, <3>3 DEF TaskType
  <2> QED BY <2>1, <2>2
<1>8. PICK p : p = [q EXCEPT !.me = me]
  OBVIOUS
<1>9. /\ p \in CallType /\ p.todo = q.todo /\ p.task = q.task /\ p.me = me /\ p.r = q.r
      /\ p.item = q.item /\ p.cur = q.cur /\ p.mine = q.mine /\ p.job = q.job /\ p.seen = q.seen
  BY <1>3, <1>7, <1>8 DEF CallType
<1>10. /\ task' = IF me = q.me THEN task ELSE [task EXCEPT ![q.task] = me]
       /\ Continues(i, p)
  BY <1>1, <1>6, <1>8 DEF ShowTask
<1>11. ASSUME Grows, task'[q.task] = task[q.task] \/ task'[q.task] = me,
              task'[q.task] = task[q.task] => me = q.me \/ task[q.task] = me,
              NEW h \in AccessNames, Follows("show", h)
       PROVE  Fits(p, h)'
  <2>1. h \in Plain
    BY <1>11 DEF Follows, Plain
  <2>2. /\ p.me.status \in RunStates \union {task'[q.task].status}
        /\ p.me.status = "succeeded" => Done(q.task)'
        /\ p.me.previous = task'[q.task].previous /\ p.me.followed = task'[q.task].followed
    BY <1>3, <1>5, <1>7, <1>9, <1>11 DEF Grows
  <2> QED BY <1>3, <1>4, <1>9, <1>11, <2>1, <2>2, FitsLater
<1>12. CASE me = q.me
  <2>1. UNCHANGED tables /\ History'
    BY <1>2, <1>3, <1>10, <1>12, TablesRest DEF tables
  <2>2. \A h \in AccessNames : Follows("show", h) => Fits(p, h)'
    BY <1>2, <1>3, <1>10, <1>11, <1>12, <2>1, TablesRest DEF tables
  <2>3. /\ Keeps(p.task)
        /\ HalfDone(p.task)' => GoesOnTending("show") \/ (HalfDone(p.task) /\ "show" \notin Tending)
    BY <1>4, <2>1 DEF Keeps, tables, HalfDone
  <2> QED BY <1>1, <1>2, <1>9, <1>10, <2>1, <2>2, <2>3, FitsInOrder
<1>13. CASE me # q.me
  <2>1. task' = [task EXCEPT ![q.task] = me]
    BY <1>10, <1>13
  <2>2. \/ me.status \notin {"created", "awaiting"}
        \/ me.status = task[q.task].status /\ "show" \notin Tending
    BY <1>4, <1>5, <1>7 DEF RunStates
  <2>3. TaskSave(i, "show", q, p, me)
    BY <1>1, <1>2, <1>7, <1>9, <1>10, <2>1, <2>2 DEF TaskSave
  <2>4. Grows /\ task'[q.task] = me => \A h \in AccessNames : Follows("show", h) => Fits(p, h)'
    BY <1>11
  <2> QED BY <1>5, <1>7, <2>3, <2>4, SavesStatus
<1> QED BY <1>12, <1>13

-----------------------------------------------------------------------------
(* Operators                                                               *)

\* A call that goes on to sync worker run w.
LEMMA SyncBegins ==
  ASSUME OneCall, HInv, CPInv', History', NEW i \in Requests, NEW q \in CallType, NEW w \in Runs,
         SyncsNow(i, q, w), WorkOf(w, q.task)', q.item.follows = NoRun,
         q.cur.status # "absent" => Stands(q.cur, q.task)'
  PROVE  HInv' /\ \A t \in Tasks : ~Tends(i, t)'
<1>1. PICK p : p = [q EXCEPT !.todo = Sync, !.job = w, !.seen = work'[w]]
  OBVIOUS
<1>2. /\ p.todo = Sync /\ p.task = q.task /\ p.item = q.item
      /\ p.cur = q.cur /\ p.seen = work'[w] /\ p.job = w
  BY <1>1 DEF CallType
<1>3. request' = [request EXCEPT ![i] = p]
  BY <1>1 DEF SyncsNow, Goes
<1>4. request'[i] = p /\ \A j \in Requests : request'[j] = p
  BY <1>3 DEF OneCall, HInv, CPInv
<1>5. Head(Sync) = "subject" /\ Sync # <<>>
  BY SyncIsWellFormed
<1>6. "subject" \in First /\ "subject" \notin Enqueuing \union Tending
  BY DEF First, Enqueuing, Saving, Tending
<1>7. Recalls(p, "subject")' /\ Answers(p, "subject")' /\ Syncs(p, "subject")'
  BY <1>2, <1>6 DEF Recalls, Answers, Syncs
<1>8. Enqueues(p, "subject")' /\ Reads(p, "subject")'
  BY <1>2, <1>6 DEF Enqueues, Reads, Saving
<1>9. CallFits(p)'
  BY <1>2, <1>5, <1>6, <1>7, <1>8 DEF CallFits, Fits, Plan
<1>10. ASSUME NEW j \in Requests PROVE CallFits(request[j])'
  <2>1. request'[j] = p
    BY <1>4
  <2> QED BY <1>9, <2>1 DEF CallFits, Fits, Recalls, Enqueues, Answers, Reads, Syncs
<1>11. \A t \in Tasks : ~Tends(i, t)'
  BY <1>2, <1>4, <1>5, <1>6 DEF Tends
<1> QED BY <1>10, <1>11 DEF HInv

\* A worker run that has not completed gets another status.
LEMMA WorkMovesOn ==
  ASSUME Tables, History, NEW w \in Runs, work[w].status \notin {"absent", "completed"},
         NEW status \in {"queued", "running", "completed", "failed", "cancelled"},
         work' = [work EXCEPT ![w] = [work[w] EXCEPT !.status = status]], UNCHANGED <<task, run>>
  PROVE  History' /\ Grows /\ \A t \in Tasks : WorkOf(w, t) => WorkOf(w, t)'
<1>1. PICK v : v = [work[w] EXCEPT !.status = status]
  OBVIOUS
<1>2. work[w] \in WorkType /\ work[w].task \in Tasks
  BY DEF Tables, TypeOK
<1>3. v \in WorkType /\ v.status = status /\ v.task = work[w].task
  BY <1>1, <1>2 DEF WorkType, Open
<1>4. work' = [work EXCEPT ![w] = v]
  BY <1>1
<1>5. History' /\ Grows
  BY <1>2, <1>3, <1>4, WorkKept
<1> QED BY <1>5 DEF Grows

\* An operator may stop a run that is open, and settles it as status.
LEMMA StopsFitly ==
  ASSUME OneCall, HInv, CPInv', NEW i \in Requests, NEW a \in {"cancel", "force-fail"}, Doing(i, a),
         NEW q, q = request[i], Stoppable(q.cur), NEW status \in {"cancelled", "failed"},
         work' = [work EXCEPT ![q.cur.work] = [work[q.cur.work] EXCEPT !.status = status]],
         UNCHANGED <<task, approval, grant, run>>, SyncsNow(i, q, q.cur.work)
  PROVE  HInv' /\ Moves
<1>1. /\ q \in CallType /\ q.task \in Tasks /\ Fits(q, a) /\ q.cur \in RunType /\ Tables /\ History
  BY InFit
<1>2. q.cur.status # "absent" /\ q.cur.work # NoRun /\ work[q.cur.work].status \in Open
  BY DEF Stoppable, Open
<1>3. Stands(q.cur, q.task) /\ q.item.follows = NoRun
  BY <1>1, <1>2 DEF Fits, Reads, Enqueues, Enqueuing, Saving
<1>4. PICK w : w = q.cur.work
  OBVIOUS
<1>5. w \in Runs /\ WorkOf(w, q.task)
  BY <1>2, <1>3, <1>4 DEF Stands, WorkOf
<1>6. History' /\ Grows
  BY <1>1, <1>2, <1>4, <1>5, WorkMovesOn DEF Open
<1>7. WorkOf(w, q.task)'
  BY <1>1, <1>5, <1>6 DEF Grows
<1>8. Stands(q.cur, q.task)'
  BY <1>1, <1>3, <1>6, StandsOn
<1>9. HInv'
  BY <1>1, <1>3, <1>4, <1>5, <1>6, <1>7, <1>8, SyncBegins
<1>10. a \notin Tending
  BY DEF Tending, Enqueuing, Saving
<1>11. /\ Keeps(q.task)
       /\ HalfDone(q.task)' => Tends(i, q.task)' \/ (HalfDone(q.task) /\ a \notin Tending)
  BY <1>10 DEF Keeps, HalfDone
<1> QED BY <1>1, <1>9, <1>11, MovesOne

LEMMA CancelFits ==
  ASSUME OneCall, HInv, CPInv', NEW i \in Requests, Cancel(i) PROVE HInv' /\ Moves
<1>1. PICK q : q = request[i]
  OBVIOUS
<1>2. Doing(i, "cancel") /\ UNCHANGED <<task, approval, grant, run>> /\ "cancel" \notin Tending
  BY DEF Cancel, Tending, Enqueuing, Saving
<1>3. /\ q \in CallType /\ q.task \in Tasks /\ Fits(q, "cancel") /\ Ready(q, "cancel") /\ Knows(q)
      /\ q.me \in TaskType /\ q.cur \in RunType /\ Tables /\ History
  BY <1>1, <1>2, InFit
<1>4. CASE Ends(i) /\ UNCHANGED work
  BY <1>2, <1>4, EndsIdly DEF tables
<1>5. CASE /\ Stoppable(q.cur) /\ SyncsNow(i, q, q.cur.work)
           /\ work' = [work EXCEPT ![q.cur.work] = [work[q.cur.work] EXCEPT !.status = "cancelled"]]
  BY <1>1, <1>2, <1>5, StopsFitly
<1>6. CASE /\ Stoppable(q.cur) /\ UNCHANGED work
           /\ Then(i, [q EXCEPT !.cur.status = "running", !.me.status = "running"],
                   <<"keep", "note">>)
  <2>1. PICK p : p = [q EXCEPT !.cur.status = "running", !.me.status = "running"]
    OBVIOUS
  <2>2. PICK me : me = [q.me EXCEPT !.status = "running"]
    OBVIOUS
  <2>3. /\ me \in TaskType /\ me.run = q.me.run /\ me.status = "running"
        /\ me.previous = q.me.previous /\ me.followed = q.me.followed
    BY <1>3, <2>2 DEF TaskType, RunStates
  <2>4. PICK cur : cur = [q.cur EXCEPT !.status = "running"]
    OBVIOUS
  <2>5. cur \in RunType /\ cur.status = "running" /\ cur.work = q.cur.work /\ cur.task = q.cur.task
    BY <1>3, <2>4 DEF RunType, RunStates
  <2>6. p = [q EXCEPT !.cur = cur, !.me = me]
    BY <1>3, <2>1, <2>2, <2>4 DEF CallType
  <2>7. /\ p \in CallType /\ p.todo = q.todo /\ p.task = q.task /\ p.me = me /\ p.item = q.item
        /\ p.cur = cur /\ p.seen = q.seen /\ p.job = q.job /\ p.r = q.r /\ p.mine = q.mine
    BY <1>3, <2>3, <2>5, <2>6 DEF CallType
  <2>8. "cancel" \notin First \union Enqueuing \union {"answered", "keep_mine", "find", "subject"}
    BY DEF First, Enqueuing, Saving
  <2>9. /\ q.me.previous = task[q.task].previous /\ q.me.run = task[q.task].run
        /\ q.me.followed = task[q.task].followed
    BY <1>3, <2>8, KnowsTask
  <2>10. /\ q.cur.status # "absent" /\ q.cur.work # NoRun /\ Stands(q.cur, q.task)
         /\ RunOf(q.me.run, q.task)
    <3>1. q.cur.status # "absent" /\ q.cur.work # NoRun
      BY <1>6 DEF Stoppable, Open
    <3>2. task[q.task].run # NoRun
      BY <1>3, <3>1 DEF Knows
    <3> QED BY <1>3, <2>9, <3>1, <3>2 DEF Fits, Reads, History
  <2>11. Reads(p, "keep")
    BY <2>3, <2>5, <2>7, <2>10 DEF Reads, Stands
  <2>12. Recalls(p, "keep")
    BY <2>3, <2>7, <2>9 DEF Recalls, RunStates
  <2>13. Enqueues(p, "keep") /\ Answers(p, "keep") /\ Syncs(p, "keep")
    BY <1>3, <2>7, <2>8 DEF Fits, Enqueues, Answers, Syncs, Enqueuing, Saving
  <2>14. PICK s : s = <<"keep", "note">>
    OBVIOUS
  <2>15. s \in Seq(AccessNames) /\ s # <<>> /\ ~InSync(s) /\ Head(s) = "keep"
    BY <2>14, PairsAreWellFormed DEF WellFormed
  <2>16. Fits(p, Head(s)) /\ Plan(p.task, s)
    BY <2>11, <2>12, <2>13, <2>15 DEF Fits, Plan, Enqueuing, Saving
  <2>17. Then(i, p, s) /\ UNCHANGED tables
    BY <1>2, <1>6, <2>1, <2>14 DEF tables
  <2> QED BY <1>1, <1>2, <2>7, <2>15, <2>16, <2>17, LooksRound
<1> QED BY <1>1, <1>4, <1>5, <1>6 DEF Cancel

LEMMA NoteFits ==
  ASSUME OneCall, HInv, CPInv', NEW i \in Requests, Note(i) PROVE HInv' /\ Moves
<1>1. PICK q : q = request[i]
  OBVIOUS
<1>2. /\ Doing(i, "note") /\ Continues(i, q)
      /\ task' = [task EXCEPT ![q.task] = q.me] /\ UNCHANGED <<approval, run, work>>
  BY <1>1 DEF Note
<1>3. "note" \notin First \union Enqueuing \union {"answered", "grant", "mark"} \union Tending
  BY DEF First, Enqueuing, Saving, Tending
<1>4. ~ \E h \in AccessNames : Follows("note", h)
  BY DEF Follows
<1> QED BY <1>1, <1>2, <1>3, <1>4, SavesItsOwn

LEMMA ForceFailFits ==
  ASSUME OneCall, HInv, CPInv', NEW i \in Requests, ForceFail(i) PROVE HInv' /\ Moves
<1>1. PICK q : q = request[i]
  OBVIOUS
<1>2. Doing(i, "force-fail") /\ UNCHANGED <<task, approval, grant, run>> /\ "force-fail" \notin Tending
  BY DEF ForceFail, Tending, Enqueuing, Saving
<1>3. CASE Ends(i) /\ UNCHANGED work
  BY <1>2, <1>3, EndsIdly DEF tables
<1>4. CASE /\ Stoppable(q.cur) /\ SyncsNow(i, q, q.cur.work)
           /\ work' = [work EXCEPT ![q.cur.work] = [work[q.cur.work] EXCEPT !.status = "failed"]]
  BY <1>1, <1>2, <1>4, StopsFitly
<1> QED BY <1>1, <1>3, <1>4 DEF ForceFail

LEMMA RetryFits ==
  ASSUME OneCall, HInv, CPInv', NEW i \in Requests, Retry(i) PROVE HInv' /\ Moves
<1>1. PICK q : q = request[i]
  OBVIOUS
<1>2. Doing(i, "retry") /\ UNCHANGED tables /\ "retry" \notin Tending
  BY DEF Retry, Tending, Enqueuing, Saving
<1>3. /\ q \in CallType /\ q.task \in Tasks /\ Fits(q, "retry") /\ Ready(q, "retry") /\ Knows(q)
      /\ q.me \in TaskType /\ q.cur \in RunType /\ q.item \in WorkType /\ Tables /\ History
  BY <1>1, <1>2, InFit
<1>4. CASE Ends(i)
  BY <1>2, <1>4, EndsIdly
<1>5. CASE /\ Retryable(q.cur)
           /\ Then(i, [q EXCEPT !.item.collect = work[q.cur.work].collect,
                                !.me.previous = q.me.previous \union {q.me.run}],
                   <<"enqueue", "save_run", "save_task">>)
  <2>1. PICK p : p = [q EXCEPT !.item.collect = work[q.cur.work].collect,
                               !.me.previous = q.me.previous \union {q.me.run}]
    OBVIOUS
  <2>2. q.cur.status # "absent" /\ q.cur.work # NoRun /\ q.cur.work \in Runs
    BY <1>3, <1>5 DEF Retryable, RunType
  <2>3. work[q.cur.work].collect \in BOOLEAN
    BY <1>3, <2>2 DEF Tables, TypeOK, WorkType
  <2>4. "retry" \notin First \union Enqueuing \union {"answered", "keep_mine", "find", "subject"}
    BY DEF First, Enqueuing, Saving
  <2>5. /\ q.me.previous = task[q.task].previous /\ q.me.run = task[q.task].run
        /\ q.me.followed = task[q.task].followed
        /\ q.me.status \in RunStates \union {task[q.task].status}
        /\ q.me.status = "succeeded" => Done(q.task)
    BY <1>3, <2>4, KnowsTask
  <2>6. /\ q.task \notin Instant /\ RunOf(q.me.run, q.task) /\ Stands(q.cur, q.task)
        /\ \A r \in q.me.previous \union {q.me.run} : run[r].status # "absent"
    <3>1. task[q.task].run # NoRun
      BY <1>3, <2>2 DEF Knows
    <3>2. WorkOf(q.cur.work, q.task) /\ Stands(q.cur, q.task)
      BY <1>3, <2>2 DEF Fits, Reads, Stands
    <3> QED BY <1>3, <2>5, <3>1, <3>2 DEF History, WorkOf, RunOf
  <2>7. PICK item, me : /\ item = [q.item EXCEPT !.collect = work[q.cur.work].collect]
                        /\ me = [q.me EXCEPT !.previous = q.me.previous \union {q.me.run}]
    OBVIOUS
  <2>8. p = [q EXCEPT !.item = item, !.me = me]
    BY <1>3, <2>1, <2>7 DEF CallType
  <2>9. item \in WorkType /\ item.follows = q.item.follows
    BY <1>3, <2>3, <2>7 DEF WorkType
  <2>10. /\ me \in TaskType /\ me.status = q.me.status /\ me.followed = q.me.followed
         /\ me.previous = q.me.previous \union {q.me.run}
    <3>1. q.me.previous \union {q.me.run} \in SUBSET Runs
      BY <1>3, <2>6 DEF TaskType, RunOf
    <3> QED BY <1>3, <2>7, <3>1 DEF TaskType
  <2>11. /\ p \in CallType /\ p.todo = q.todo /\ p.task = q.task /\ p.me = me /\ p.item = item
         /\ p.cur = q.cur /\ p.seen = q.seen /\ p.job = q.job /\ p.r = q.r /\ p.mine = q.mine
    BY <1>3, <2>8, <2>9, <2>10 DEF CallType
  <2>12. q.item.follows = NoRun
    BY <1>3, <2>4 DEF Fits, Enqueues
  <2>13. Recalls(p, "enqueue")
    BY <2>5, <2>10, <2>11 DEF Recalls, Enqueuing
  <2>14. Enqueues(p, "enqueue")
    BY <2>5, <2>6, <2>9, <2>10, <2>11, <2>12 DEF Enqueues, Saving
  <2>15. Answers(p, "enqueue") /\ Reads(p, "enqueue") /\ Syncs(p, "enqueue")
    BY <1>3, <2>4, <2>11 DEF Fits, Answers, Reads, Syncs
  <2>16. PICK s : s = <<"enqueue", "save_run", "save_task">>
    OBVIOUS
  <2>17. s \in Seq(AccessNames) /\ s # <<>> /\ ~InSync(s) /\ Head(s) = "enqueue"
    BY <2>16, EnqueueIsWellFormed DEF WellFormed
  <2>18. Fits(p, Head(s)) /\ Plan(p.task, s)
    BY <2>13, <2>14, <2>15, <2>17 DEF Fits, Plan
  <2>19. Then(i, p, s)
    BY <1>5, <2>1, <2>16
  <2> QED BY <1>1, <1>2, <2>11, <2>17, <2>18, <2>19, LooksRound
<1> QED BY <1>1, <1>4, <1>5 DEF Retry

-----------------------------------------------------------------------------
(* sync_worker_run                                                         *)

LEMMA ReadSubjectFits ==
  ASSUME OneCall, HInv, CPInv', NEW i \in Requests, ReadSubject(i) PROVE HInv' /\ Moves
<1>1. PICK q : q = request[i]
  OBVIOUS
<1>2. Doing(i, "subject") /\ UNCHANGED tables /\ "subject" \notin Tending
  BY DEF ReadSubject, Tending, Enqueuing, Saving
<1>3. q \in CallType /\ q.task \in Tasks /\ Fits(q, "subject") /\ Tables /\ History
  BY <1>1, <1>2, InFit
<1>4. PICK p : p = [q EXCEPT !.me = task[q.task]]
  OBVIOUS
<1>5. task[q.task] \in TaskType
  BY <1>3 DEF Tables, TypeOK
<1>6. /\ p \in CallType /\ p.todo = q.todo /\ p.task = q.task /\ p.me = task[q.task] /\ p.r = q.r
      /\ p.item = q.item /\ p.cur = q.cur /\ p.mine = q.mine /\ p.job = q.job /\ p.seen = q.seen
  BY <1>3, <1>4, <1>5 DEF CallType
<1>7. Continues(i, p)
  BY <1>1, <1>4 DEF ReadSubject
<1>8. ASSUME NEW h \in AccessNames, Follows("subject", h) PROVE Fits(p, h)
  <2>1. h = "find"
    BY <1>8 DEF Follows
  <2> QED BY <1>3, <1>6, <2>1, FitsAsRead
<1> QED BY <1>1, <1>2, <1>6, <1>7, <1>8, LooksInOrder

\* The records a sync finds are of the task of its worker run.
LEMMA FoundIsOfTask ==
  ASSUME Tables, History, NEW t \in Tasks, NEW w, WorkOf(w, t)
  PROVE  /\ \A r \in Runs : run[r].status # "absent" /\ run[r].work = w => RunOf(r, t)
         /\ run[w].status # "absent" => RunOf(w, t)
<1>1. w \in Runs /\ w # NoRun /\ work[w].status # "absent" /\ work[w].task = t
  BY ControlPlaneAssumption DEF WorkOf
<1>2. ASSUME NEW r \in Runs, run[r].status # "absent", run[r].work = w PROVE RunOf(r, t)
  <2>1. Stands(run[r], run[r].task)
    BY <1>2 DEF History
  <2> QED BY <1>1, <1>2, <2>1 DEF Stands, WorkOf, RunOf
<1>3. run[w].status # "absent" => RunOf(w, t)
  BY <1>1 DEF History, RunOf
<1> QED BY <1>2, <1>3

\* What a call that has found run r for its worker run knows.
Found(q, r) == [q EXCEPT !.r = r, !.mine = run[r]]

LEMMA FindRunFits ==
  ASSUME OneCall, HInv, CPInv', NEW i \in Requests, FindRun(i) PROVE HInv' /\ Moves
<1>1. PICK q : q = request[i]
  OBVIOUS
<1>2. Doing(i, "find") /\ UNCHANGED tables /\ "find" \notin Tending
  <2>1. Doing(i, "find") /\ UNCHANGED tables
    BY Zenon DEF FindRun
  <2> QED BY <2>1 DEF Tending, Enqueuing, Saving
<1>3. /\ q \in CallType /\ q.task \in Tasks /\ Fits(q, "find") /\ Ready(q, "find")
      /\ WellFormed(q.todo) /\ q.todo # <<>> /\ Head(q.todo) = "find" /\ Tables /\ History
  BY <1>1, <1>2, InFit
<1>4. InSync(q.todo)
  BY <1>3, SyncGoesOn DEF SyncAccesses
<1>5. WorkOf(q.job, q.task) /\ q.me.run = task[q.task].run
  BY <1>3, <1>4 DEF Fits, Syncs, Ready, First
<1>6. PICK else : else = IF q.me.run = NoRun THEN q.job ELSE q.me.run
  OBVIOUS
<1>7. \/ \E r \in Runs : RunOf(r, q.task) /\ Continues(i, Found(q, r))
      \/ Ends(i)
  <2>1. \A r \in Runs : run[r].status # "absent" /\ run[r].work = q.job => RunOf(r, q.task)
    BY <1>3, <1>5, FoundIsOfTask
  <2>2. run[else].status # "absent" => RunOf(else, q.task) /\ else \in Runs
    <3>1. CASE q.me.run = NoRun
      BY <1>3, <1>5, <1>6, <3>1, FoundIsOfTask DEF RunOf
    <3>2. CASE q.me.run # NoRun
      BY <1>3, <1>5, <1>6, <3>2 DEF History, RunOf
    <3> QED BY <3>1, <3>2
  <2>3. \/ \E r \in {x \in Runs : run[x].status # "absent" /\ run[x].work = q.job} : Continues(i, Found(q, r))
        \/ run[else].status # "absent" /\ Continues(i, Found(q, else))
        \/ Ends(i)
    BY <1>1, <1>6, Zenon DEF FindRun, Found
  <2> QED BY <2>1, <2>2, <2>3
<1>8. ASSUME NEW r \in Runs, RunOf(r, q.task), Continues(i, Found(q, r))
      PROVE  HInv' /\ Moves
  <2>1. PICK p : p = Found(q, r)
    OBVIOUS
  <2>2. run[r] \in RunType
    BY <1>3 DEF Tables, TypeOK
  <2>3. /\ p \in CallType /\ p.todo = q.todo /\ p.task = q.task /\ p.me = q.me /\ p.r = r
        /\ p.item = q.item /\ p.cur = q.cur /\ p.mine = run[r] /\ p.job = q.job /\ p.seen = q.seen
    BY <1>3, <2>1, <2>2 DEF CallType, Found
  <2>4. ASSUME NEW h \in AccessNames, Follows("find", h) PROVE Fits(p, h)
    <3>1. h = "keep_mine"
      BY <2>4 DEF Follows
    <3>2. Recalls(p, h) /\ Enqueues(p, h) /\ Answers(p, h) /\ Reads(p, h)
      BY <1>3, <2>3, <3>1 DEF Fits, Recalls, Enqueues, Answers, Reads, First, Enqueuing, Saving
    <3>3. Syncs(p, h)
      BY <1>3, <1>8, <2>3, <3>1 DEF Fits, Syncs, RunOf
    <3> QED BY <3>2, <3>3 DEF Fits
  <2> QED BY <1>1, <1>2, <1>8, <2>1, <2>3, <2>4, LooksInOrder
<1> QED BY <1>2, <1>7, <1>8, EndsIdly

LEMMA KeepMineFits ==
  ASSUME OneCall, HInv, CPInv', NEW i \in Requests, KeepMine(i) PROVE HInv' /\ Moves
<1>1. PICK q : q = request[i]
  OBVIOUS
<1>2. Doing(i, "keep_mine") /\ UNCHANGED <<task, approval, work>> /\ "keep_mine" \notin Tending
  BY DEF KeepMine, Tending, Enqueuing, Saving
<1>3. /\ q \in CallType /\ q.task \in Tasks /\ Fits(q, "keep_mine") /\ Knows(q)
      /\ WellFormed(q.todo) /\ q.todo # <<>> /\ Head(q.todo) = "keep_mine"
      /\ q.mine \in RunType /\ q.seen \in WorkType /\ q.cur \in RunType /\ Tables /\ History
  BY <1>1, <1>2, InFit
<1>4. InSync(q.todo)
  BY <1>3, SyncGoesOn DEF SyncAccesses
<1>5. /\ WorkOf(q.job, q.task) /\ RunOf(q.r, q.task) /\ q.mine.task = q.task
      /\ q.seen.status = "completed" => work[q.job].status = "completed"
      /\ q.seen.status # "absent"
  BY <1>3, <1>4 DEF Fits, Syncs, Knows
<1>6. /\ q.job \in Runs /\ q.job # NoRun /\ q.task \notin Instant /\ work[q.job].task = q.task
      /\ q.r \in Runs /\ run[q.r].task = q.task
      /\ work[q.r].status # "absent" => work[q.r].task = q.task
  BY <1>3, <1>5, ControlPlaneAssumption DEF WorkOf, RunOf, History
<1>7. PICK mine : mine = [q.mine EXCEPT !.status = RunStatus(q.seen.status), !.work = q.job]
  OBVIOUS
<1>8. RunStatus(q.seen.status) \in RunStates
  BY <1>3, <1>5 DEF RunStatus, RunStates, WorkType, Open
<1>9. /\ mine \in RunType /\ mine.status = RunStatus(q.seen.status) /\ mine.task = q.task
      /\ mine.work = q.job /\ mine.status # "absent"
  BY <1>3, <1>5, <1>6, <1>7, <1>8 DEF RunType, RunStates
<1>10. mine.status = "succeeded" => Done(q.task)
  BY <1>3, <1>5, <1>6, <1>9 DEF RunStatus, WorkType, Open, Done
<1>11. PICK p : p = [q EXCEPT !.mine = mine]
  OBVIOUS
<1>12. /\ p \in CallType /\ p.todo = q.todo /\ p.task = q.task /\ p.me = q.me /\ p.r = q.r
       /\ p.item = q.item /\ p.cur = q.cur /\ p.mine = mine /\ p.job = q.job /\ p.seen = q.seen
  BY <1>3, <1>9, <1>11 DEF CallType
<1>13. run' = [run EXCEPT ![q.r] = mine] /\ Continues(i, p)
  BY <1>1, <1>7, <1>11 DEF KeepMine
<1>14. History' /\ Grows
  BY <1>2, <1>3, <1>5, <1>6, <1>9, <1>10, <1>13, RunKept
<1>15. Stands(mine, q.task)
  BY <1>5, <1>6, <1>9, <1>10 DEF Stands
<1>16. ASSUME NEW h \in AccessNames, Follows("keep_mine", h) PROVE Fits(p, h)'
  <2>1. h = "apply"
    BY <1>16 DEF Follows
  <2>2. Recalls(p, h)'
    BY <1>2, <1>3, <1>12, <1>14, <2>1 DEF Fits, Recalls, First, Enqueuing, Saving, Grows
  <2>3. Enqueues(p, h)' /\ Answers(p, h)'
    BY <1>3, <1>12, <2>1 DEF Fits, Enqueues, Answers, Enqueuing, Saving
  <2>4. Reads(p, h)'
    <3>1. q.cur.status # "absent" => Stands(q.cur, q.task)'
      BY <1>3, <1>14, StandsOn DEF Fits, Reads
    <3> QED BY <1>12, <2>1, <3>1 DEF Reads
  <2>5. Syncs(p, h)'
    <3>1. Stands(mine, q.task)' /\ WorkOf(q.job, q.task)' /\ RunOf(q.r, q.task)'
      BY <1>3, <1>5, <1>6, <1>9, <1>14, <1>15, StandsOn DEF Grows
    <3>2. q.seen.status = "completed" => work'[q.job].status = "completed"
      BY <1>2, <1>5
    <3> QED BY <1>6, <1>9, <1>12, <2>1, <3>1, <3>2 DEF Syncs
  <2> QED BY <2>2, <2>3, <2>4, <2>5 DEF Fits
<1>17. /\ Keeps(p.task)
       /\ HalfDone(p.task)' => GoesOnTending("keep_mine") \/ (HalfDone(p.task) /\ "keep_mine" \notin Tending)
  BY <1>2 DEF Keeps, HalfDone
<1> QED BY <1>1, <1>2, <1>12, <1>13, <1>14, <1>16, <1>17, FitsInOrder

LEMMA ApplyFits ==
  ASSUME OneCall, HInv, CPInv', NEW i \in Requests, Apply(i) PROVE HInv' /\ Moves
<1>1. PICK q : q = request[i]
  OBVIOUS
<1>2. Doing(i, "apply") /\ UNCHANGED <<approval, grant, run, work>> /\ "apply" \notin Tending
  BY DEF Apply, Tending, Enqueuing, Saving
<1>3. /\ q \in CallType /\ q.task \in Tasks /\ Fits(q, "apply") /\ Ready(q, "apply")
      /\ WellFormed(q.todo) /\ q.todo # <<>> /\ Head(q.todo) = "apply" /\ Plan(q.task, q.todo)
      /\ q.me \in TaskType /\ q.mine \in RunType /\ q.cur \in RunType /\ Tables /\ History
  BY <1>1, <1>2, InFit
<1>4. InSync(q.todo) /\ Tail(q.todo) # <<>>
  BY <1>3, SyncGoesOn DEF SyncAccesses
<1>5. RunOf(q.r, q.task) /\ Stands(q.mine, q.task)
  BY <1>3, <1>4 DEF Fits, Syncs
<1>6. "apply" \notin First \union Enqueuing \union {"answered", "keep_mine", "find", "subject"}
  BY DEF First, Enqueuing, Saving
<1>7. /\ q.me.previous = task[q.task].previous /\ q.me.run = task[q.task].run
      /\ q.me.followed = task[q.task].followed
  BY <1>3, <1>6, KnowsTask
<1>8. q.r \in Runs /\ q.r # NoRun
  BY <1>5, ControlPlaneAssumption DEF RunOf
<1>9. PICK me : me = [q.me EXCEPT !.status = q.mine.status, !.run = q.r]
  OBVIOUS
<1>10. /\ me \in TaskType /\ me.run = q.r /\ me.status = q.mine.status /\ me.status \in RunStates
       /\ me.previous = q.me.previous /\ me.followed = q.me.followed
       /\ me.status = "succeeded" => Done(q.task)
  BY <1>3, <1>5, <1>8, <1>9 DEF RunType, TaskType, Stands
<1>11. PICK p : p = [q EXCEPT !.me = me]
  OBVIOUS
<1>12. /\ p \in CallType /\ p.todo = q.todo /\ p.task = q.task /\ p.me = me /\ p.r = q.r
       /\ p.item = q.item /\ p.cur = q.cur /\ p.mine = q.mine /\ p.job = q.job /\ p.seen = q.seen
  BY <1>3, <1>10, <1>11 DEF CallType
<1>13. CASE q.me.run \in {NoRun, q.r} /\ task' = [task EXCEPT ![q.task] = me] /\ Continues(i, p)
  <2>1. TaskSave(i, "apply", q, p, me)
    BY <1>1, <1>2, <1>6, <1>10, <1>12, <1>13 DEF TaskSave, RunStates
  <2>2. /\ \A r \in me.previous : run[r].status # "absent"
        /\ me.run # NoRun => RunOf(me.run, q.task)
        /\ me.run = NoRun => me.previous = {}
        /\ me.run # task[q.task].run => me.run \notin task[q.task].previous
        /\ task[q.task].followed => me.followed
    <3>1. task[q.task].run = NoRun => task[q.task].previous = {}
      BY <1>3 DEF History
    <3>2. \A r \in task[q.task].previous : run[r].status # "absent"
      BY <1>3 DEF History
    <3> QED BY <1>5, <1>7, <1>8, <1>10, <1>13, <3>1, <3>2
  <2>3. ASSUME Grows, task'[q.task] = me, NEW h \in AccessNames, Follows("apply", h)
        PROVE  Fits(p, h)'
    <3>1. h \in Plain
      BY <2>3 DEF Follows, Plain
    <3>2. /\ p.me.status \in RunStates \union {task'[q.task].status}
          /\ p.me.status = "succeeded" => Done(q.task)'
          /\ p.me.previous = task'[q.task].previous /\ p.me.followed = task'[q.task].followed
      BY <1>3, <1>10, <1>12, <2>3 DEF Grows
    <3> QED BY <1>3, <1>6, <1>12, <2>3, <3>1, <3>2, FitsLater
  <2> QED BY <2>1, <2>2, <2>3, SavesFitly
<1>14. CASE UNCHANGED task /\ Then(i, q, <<"run", "show">> \o Tail(q.todo))
  <2>1. PICK t : t = Tail(q.todo)
    OBVIOUS
  <2>2. /\ WellFormed(t) /\ t # <<>> /\ (InSync(t) <=> InSync(q.todo)) /\ Head(t) = "review"
    <3>1. WellFormed(t) /\ (InSync(t) <=> InSync(q.todo)) /\ Follows("apply", Head(t))
      BY <1>3, <1>4, <2>1, TailIsWellFormed
    <3> QED BY <1>4, <2>1, <3>1 DEF Follows
  <2>3. {"run", "show"} \subseteq AccessNames \ SyncAccesses
    BY DEF AccessNames, SyncAccesses
  <2>4. Follows("run", "show") /\ Follows("show", "review")
    BY DEF Follows
  <2>5. PICK m : m = <<"show">> \o t
    OBVIOUS
  <2>6. WellFormed(m) /\ m # <<>> /\ Head(m) = "show" /\ (InSync(m) <=> InSync(t))
    BY <2>2, <2>3, <2>4, <2>5, ConsIsWellFormed
  <2>7. PICK s : s = <<"run">> \o m
    OBVIOUS
  <2>8. WellFormed(s) /\ s # <<>> /\ Head(s) = "run" /\ (InSync(s) <=> InSync(m))
    BY <2>3, <2>4, <2>6, <2>7, ConsIsWellFormed
  <2>9. <<"run", "show">> \o t = s
    <3>1. t \in Seq(AccessNames)
      BY <2>2 DEF WellFormed
    <3> QED BY <2>3, <2>5, <2>7, <3>1
  <2>10. Fits(q, "run")
    <3>1. "run" \in Plain
      BY DEF Plain
    <3>2. Recalls(q, "run") /\ Enqueues(q, "run") /\ Answers(q, "run") /\ Syncs(q, "run")
      BY <1>3, <1>6, <3>1, FitsStill
    <3>3. Reads(q, "run")
      BY <1>3 DEF Fits, Reads
    <3> QED BY <3>2, <3>3 DEF Fits
  <2>11. s \in Seq(AccessNames) /\ (InSync(s) => InSync(q.todo)) /\ Plan(q.task, s) /\ Fits(q, Head(s))
    BY <1>4, <2>8, <2>10 DEF WellFormed, Plan, Enqueuing, Saving
  <2>12. Then(i, q, s) /\ UNCHANGED tables
    BY <1>2, <1>14, <2>1, <2>9 DEF tables
  <2> QED BY <1>1, <1>2, <1>3, <2>11, <2>12, LooksRound
<1>15. \/ q.me.run \in {NoRun, q.r} /\ task' = [task EXCEPT ![q.task] = me] /\ Continues(i, p)
       \/ UNCHANGED task /\ Then(i, q, <<"run", "show">> \o Tail(q.todo))
  BY <1>1, <1>9, <1>11 DEF Apply, IsCurrent
<1> QED BY <1>13, <1>14, <1>15

LEMMA ReviewFits ==
  ASSUME OneCall, HInv, CPInv', NEW i \in Requests, Review(i) PROVE HInv' /\ Moves
<1>1. PICK q : q = request[i]
  OBVIOUS
<1>2. Doing(i, "review") /\ UNCHANGED tables /\ "review" \notin Tending
  BY DEF Review, Tending, Enqueuing, Saving
<1>3. /\ q \in CallType /\ q.task \in Tasks /\ Fits(q, "review") /\ History
      /\ WellFormed(q.todo) /\ q.todo # <<>> /\ Head(q.todo) = "review" /\ Plan(q.task, q.todo)
  BY <1>1, <1>2, InFit
<1>4. ASSUME NEW h \in {"review_run", "follow"} PROVE Fits(q, h)
  <2>1. "review" \notin First \union Enqueuing \union {"answered", "keep_mine", "find"} /\ h \in Plain
    BY DEF First, Enqueuing, Saving, Plain
  <2>2. Recalls(q, h) /\ Enqueues(q, h) /\ Answers(q, h) /\ Syncs(q, h)
    BY <1>3, <2>1, FitsStill
  <2>3. Reads(q, h)
    BY <1>3 DEF Fits, Reads
  <2> QED BY <2>2, <2>3 DEF Fits
<1>5. CASE Continues(i, q)
  <2>1. \A h \in AccessNames : Follows("review", h) => Fits(q, h)
    BY <1>4 DEF Follows
  <2> QED BY <1>1, <1>2, <1>3, <1>5, <2>1, LooksInOrder
<1>6. CASE Then(i, q, <<"review_run", "review_task">> \o Tail(q.todo))
  <2>1. PICK t : t = Tail(q.todo)
    OBVIOUS
  <2>2. InSync(q.todo) /\ t # <<>>
    BY <1>3, <2>1, SyncGoesOn DEF SyncAccesses
  <2>3. WellFormed(t) /\ InSync(t) /\ Head(t) = "follow"
    <3>1. WellFormed(t) /\ (InSync(t) <=> InSync(q.todo)) /\ Follows("review", Head(t))
      BY <1>3, <2>1, <2>2, TailIsWellFormed
    <3> QED BY <2>2, <3>1 DEF Follows
  <2>4. {"review_run", "review_task"} \subseteq AccessNames
    BY DEF AccessNames, SyncAccesses
  <2>5. Follows("review_run", "review_task") /\ Follows("review_task", "follow")
    BY DEF Follows
  <2>6. PICK m : m = <<"review_task">> \o t
    OBVIOUS
  <2>7. WellFormed(m) /\ m # <<>> /\ Head(m) = "review_task" /\ InSync(m)
    BY <2>2, <2>3, <2>4, <2>5, <2>6, ConsIsWellFormed
  <2>8. PICK s : s = <<"review_run">> \o m
    OBVIOUS
  <2>9. WellFormed(s) /\ Head(s) = "review_run" /\ s # <<>>
    BY <2>4, <2>5, <2>7, <2>8, ConsIsWellFormed
  <2>10. <<"review_run", "review_task">> \o t = s
    <3>1. t \in Seq(AccessNames)
      BY <2>3 DEF WellFormed
    <3> QED BY <2>4, <2>6, <2>8, <3>1
  <2>11. s \in Seq(AccessNames) /\ (InSync(s) => InSync(q.todo)) /\ Plan(q.task, s) /\ Fits(q, Head(s))
    BY <1>4, <2>2, <2>9 DEF WellFormed, Plan, Enqueuing, Saving
  <2>12. Then(i, q, s)
    BY <1>6, <2>1, <2>10
  <2> QED BY <1>1, <1>2, <1>3, <2>11, <2>12, LooksRound
<1> QED BY <1>1, <1>5, <1>6 DEF Review

LEMMA ReviewRunFits ==
  ASSUME OneCall, HInv, CPInv', NEW i \in Requests, ReviewRun(i) PROVE HInv' /\ Moves
<1>1. PICK q : q = request[i]
  OBVIOUS
<1>2. /\ Doing(i, "review_run") /\ UNCHANGED <<task, approval, work>> /\ Continues(i, q)
      /\ "review_run" \notin Tending
  BY <1>1 DEF ReviewRun, Tending, Enqueuing, Saving
<1>3. /\ q \in CallType /\ q.task \in Tasks /\ Fits(q, "review_run") /\ Ready(q, "review_run")
      /\ WellFormed(q.todo) /\ q.todo # <<>> /\ Head(q.todo) = "review_run"
      /\ q.mine \in RunType /\ Tables /\ History
  BY <1>1, <1>2, InFit
<1>4. InSync(q.todo)
  BY <1>3, SyncGoesOn DEF SyncAccesses
<1>5. RunOf(q.r, q.task) /\ Stands(q.mine, q.task) /\ q.mine.work # NoRun
  BY <1>3, <1>4 DEF Fits, Syncs
<1>6. PICK r, v : r = q.r /\ v = q.mine
  OBVIOUS
<1>7. /\ r \in Runs /\ v.task = q.task /\ run[r].task = q.task /\ q.task \notin Instant
      /\ work[r].status # "absent" => work[r].task = v.task
  BY <1>3, <1>5, <1>6 DEF RunOf, Stands, WorkOf, History
<1>8. run' = [run EXCEPT ![r] = v]
  BY <1>1, <1>6 DEF ReviewRun
<1>9. History' /\ Grows
  BY <1>2, <1>3, <1>5, <1>6, <1>7, <1>8, RunKept DEF Stands
<1>10. ASSUME NEW h \in AccessNames, Follows("review_run", h) PROVE Fits(q, h)'
  <2>1. h \in Plain
    BY <1>10 DEF Follows, Plain
  <2>2. "review_run" \notin Enqueuing \union {"subject", "find", "keep_mine", "answered"} \union First
    BY DEF Enqueuing, Saving, First
  <2>3. /\ q.me.previous = task'[q.task].previous /\ q.me.followed = task'[q.task].followed
        /\ q.me.status \in RunStates \union {task'[q.task].status}
        /\ q.me.status = "succeeded" => Done(q.task)'
    BY <1>2, <1>3, <1>9, <2>2, KnowsTask DEF Grows
  <2> QED BY <1>3, <1>9, <2>1, <2>2, <2>3, FitsLater
<1>11. /\ Keeps(q.task)
       /\ HalfDone(q.task)' => GoesOnTending("review_run") \/ (HalfDone(q.task) /\ "review_run" \notin Tending)
  BY <1>2 DEF Keeps, HalfDone
<1> QED BY <1>1, <1>2, <1>3, <1>9, <1>10, <1>11, FitsInOrder

LEMMA ReviewTaskFits ==
  ASSUME OneCall, HInv, CPInv', NEW i \in Requests, ReviewTask(i) PROVE HInv' /\ Moves
<1>1. PICK q : q = request[i]
  OBVIOUS
<1>2. /\ Doing(i, "review_task") /\ Continues(i, q)
      /\ task' = [task EXCEPT ![q.task] = q.me] /\ UNCHANGED <<approval, run, work>>
  BY <1>1 DEF ReviewTask
<1>3. q \in CallType /\ q.task \in Tasks /\ Fits(q, "review_task") /\ Ready(q, "review_task")
  BY <1>1, <1>2, InFit
<1>4. "review_task" \notin First \union Enqueuing \union {"answered", "grant", "mark"} \union Tending
                             \union {"subject", "find", "keep_mine"}
  BY DEF First, Enqueuing, Saving, Tending
<1>5. ASSUME Grows, task'[q.task] = q.me, NEW h \in AccessNames, Follows("review_task", h)
      PROVE  Fits(q, h)'
  <2>1. h \in Plain
    BY <1>5 DEF Follows, Plain
  <2>2. q.me.status = "succeeded" => Done(q.task)'
    BY <1>3, <1>4, <1>5, KnowsTask DEF Grows
  <2> QED BY <1>3, <1>4, <1>5, <2>1, <2>2, FitsLater
<1> QED BY <1>1, <1>2, <1>4, <1>5, SavesItsOwn

LEMMA FollowUpFits ==
  ASSUME OneCall, HInv, CPInv', NEW i \in Requests, FollowUp(i) PROVE HInv' /\ Moves
<1>1. PICK q : q = request[i]
  OBVIOUS
<1>2. Doing(i, "follow") /\ UNCHANGED tables /\ "follow" \notin Tending
  BY DEF FollowUp, Tending, Enqueuing, Saving
<1>3. /\ q \in CallType /\ q.task \in Tasks /\ Fits(q, "follow") /\ Ready(q, "follow")
      /\ WellFormed(q.todo) /\ q.todo # <<>> /\ Head(q.todo) = "follow"
      /\ q.me \in TaskType /\ q.item \in WorkType /\ Tables /\ History
  BY <1>1, <1>2, InFit
<1>4. InSync(q.todo)
  BY <1>3, SyncGoesOn DEF SyncAccesses
<1>5. "follow" \notin First \union Enqueuing \union {"answered", "keep_mine", "find", "subject"}
  BY DEF First, Enqueuing, Saving
<1>6. /\ WorkOf(q.job, q.task) /\ RunOf(q.r, q.task) /\ q.job \in Runs /\ q.r \in Runs
      /\ q.task \notin Instant /\ run[q.r].status # "absent"
  BY <1>3, <1>4, <1>5 DEF Fits, Syncs, WorkOf, RunOf, History
<1>7. /\ q.me.previous = task[q.task].previous /\ q.me.followed = task[q.task].followed
      /\ q.me.status \in RunStates \union {task[q.task].status}
      /\ q.me.status = "succeeded" => Done(q.task)
  BY <1>3, <1>5, KnowsTask
<1>8. CASE Continues(i, q)
  <2>1. \A h \in AccessNames : ~Follows("follow", h)
    BY DEF Follows
  <2> QED BY <1>1, <1>2, <1>3, <1>8, <2>1, LooksInOrder
<1>9. PICK item, me : /\ item = [q.item EXCEPT !.collect = FALSE, !.follows = q.job]
                      /\ me = [q.me EXCEPT !.previous = q.me.previous \union {q.r}, !.followed = TRUE]
  OBVIOUS
<1>10. item \in WorkType /\ item.follows = q.job
  BY <1>3, <1>6, <1>9 DEF WorkType
<1>11. /\ me \in TaskType /\ me.status = q.me.status /\ me.followed = TRUE
       /\ me.previous = q.me.previous \union {q.r}
  <2>1. q.me.previous \union {q.r} \in SUBSET Runs
    BY <1>3, <1>6 DEF TaskType
  <2> QED BY <1>3, <1>9, <2>1 DEF TaskType
<1>12. PICK p : p = [q EXCEPT !.item = item, !.me = me]
  OBVIOUS
<1>13. /\ p \in CallType /\ p.todo = q.todo /\ p.task = q.task /\ p.me = me /\ p.item = item
       /\ p.cur = q.cur /\ p.seen = q.seen /\ p.job = q.job /\ p.r = q.r /\ p.mine = q.mine
  BY <1>3, <1>10, <1>11, <1>12 DEF CallType
<1>14. CASE ~q.me.followed /\ Then(i, p, <<"enqueue", "save_run", "save_task">>)
  <2>1. Recalls(p, "enqueue")
    BY <1>7, <1>11, <1>13 DEF Recalls, Enqueuing
  <2>2. \A r \in task[q.task].previous : run[r].status # "absent"
    BY <1>3 DEF History
  <2>3. Enqueues(p, "enqueue")
    BY <1>6, <1>7, <1>10, <1>11, <1>13, <1>14, <2>2 DEF Enqueues, Enqueuing, Saving
  <2>4. Answers(p, "enqueue") /\ Reads(p, "enqueue") /\ Syncs(p, "enqueue")
    BY <1>3, <1>5, <1>13 DEF Fits, Answers, Reads, Syncs
  <2>5. PICK s : s = <<"enqueue", "save_run", "save_task">>
    OBVIOUS
  <2>6. s \in Seq(AccessNames) /\ s # <<>> /\ ~InSync(s) /\ Head(s) = "enqueue"
    BY <2>5, EnqueueIsWellFormed DEF WellFormed
  <2>7. Fits(p, Head(s)) /\ Plan(p.task, s)
    BY <2>1, <2>3, <2>4, <2>6 DEF Fits, Plan
  <2>8. Then(i, p, s)
    BY <1>14, <2>5
  <2> QED BY <1>1, <1>2, <1>13, <2>6, <2>7, <2>8, LooksRound
<1>15. Continues(i, q) \/ (~q.me.followed /\ Then(i, p, <<"enqueue", "save_run", "save_task">>))
  <2>1. \/ Continues(i, q)
        \/ ~q.me.followed /\ Then(i, WithFollowUp(q), <<"enqueue", "save_run", "save_task">>)
    BY <1>1 DEF FollowUp, OwesFollowUp
  <2>2. p = WithFollowUp(q)
    BY <1>9, <1>12 DEF WithFollowUp
  <2> QED BY <2>1, <2>2
<1> QED BY <1>8, <1>14, <1>15

-----------------------------------------------------------------------------
(* The rest of the world                                                   *)

\* What a call knows of the past stays true while others write the queue.
LEMMA FitsUndisturbed ==
  ASSUME Grows, UNCHANGED <<task, approval, run>>, NEW q \in CallType, NEW h, Fits(q, h)
  PROVE  Fits(q, h)'
<1>1. /\ q.task \in Tasks /\ q.cur \in RunType /\ q.mine \in RunType
      /\ q.item \in WorkType /\ q.me \in TaskType
  BY DEF CallType
<1>2. Recalls(q, h)' /\ Answers(q, h)'
  BY <1>1 DEF Fits, Recalls, Answers, Grows, RunOf
<1>3. Enqueues(q, h)'
  <2>1. /\ WorkOf(q.item.follows, q.task) => WorkOf(q.item.follows, q.task)'
        /\ WorkOf(q.r, q.task) => WorkOf(q.r, q.task)'
    BY <1>1 DEF Grows, WorkOf
  <2> QED BY <2>1 DEF Fits, Enqueues, RunOf
<1>4. Reads(q, h)'
  <2>1. q.cur.status # "absent" => Stands(q.cur, q.task)'
    BY <1>1, StandsOn DEF Fits, Reads
  <2> QED BY <2>1 DEF Fits, Reads, RunOf
<1>5. Syncs(q, h)'
  <2>1. /\ Stands(q.mine, q.task) => Stands(q.mine, q.task)'
        /\ WorkOf(q.job, q.task) => q.job \in Runs /\ WorkOf(q.job, q.task)'
    BY <1>1, StandsOn DEF Grows, WorkOf
  <2>2. q.job \in Runs /\ work[q.job].status = "completed" => work'[q.job].status = "completed"
    BY DEF Grows
  <2> QED BY <2>1, <2>2 DEF Fits, Syncs, RunOf
<1> QED BY <1>2, <1>3, <1>4, <1>5 DEF Fits

\* A step that leaves the tasks alone, and no call behind that tended one.
LEMMA MovesQuietly ==
  ASSUME UNCHANGED <<task, approval>>, \A j \in Requests, t \in Tasks : Tends(j, t) => Tends(j, t)'
  PROVE  Moves
<1>1. ASSUME NEW t \in Left' PROVE t \in Left
  BY <1>1 DEF Left, HalfDone
<1> QED BY <1>1 DEF Moves

LEMMA OthersFit ==
  ASSUME HInv, CPInv', History', Grows, UNCHANGED <<task, approval, run, request>>
  PROVE  HInv' /\ Moves
<1>1. ASSUME NEW j \in Requests, request[j] # Idle PROVE CallFits(request[j])'
  <2>1. PICK q, h : q = request[j] /\ h = Head(q.todo)
    OBVIOUS
  <2>2. q \in CallType /\ Fits(q, h) /\ Plan(q.task, q.todo)
    BY <1>1, <2>1 DEF HInv, CPInv, CallOK, CallFits
  <2>3. Fits(q, h)'
    BY <2>2, FitsUndisturbed
  <2>4. CallFits(q)'
    BY <2>1, <2>2, <2>3 DEF CallFits, Plan
  <2>5. request'[j] = q
    BY <2>1
  <2> QED BY <2>4, <2>5 DEF CallFits, Fits, Recalls, Enqueues, Answers, Reads, Syncs
<1>2. HInv'
  BY <1>1 DEF HInv
<1>3. Moves
  BY MovesQuietly DEF Tends
<1> QED BY <1>2, <1>3

LEMMA WorkersFit ==
  ASSUME HInv, CPInv', NEW r \in Runs, Start(r) \/ Requeue(r) \/ Recover(r) PROVE HInv' /\ Moves
<1>1. UNCHANGED <<task, approval, run, request>> /\ work[r].status \notin {"absent", "completed"}
  BY DEF Start, Requeue, Recover
<1>2. PICK status \in {"queued", "running", "completed", "failed", "cancelled"} :
        work' = [work EXCEPT ![r] = [work[r] EXCEPT !.status = status]]
  BY DEF Start, Requeue, Recover
<1>3. History' /\ Grows
  BY <1>1, <1>2, WorkMovesOn DEF HInv, CPInv
<1> QED BY <1>1, <1>3, OthersFit

LEMMA EndGrantFits ==
  ASSUME HInv, CPInv', NEW g \in Tasks, EndGrant(g) PROVE HInv' /\ Moves
<1>1. UNCHANGED <<task, approval, run, work, request>>
  BY DEF EndGrant
<1>2. History' /\ Grows
  BY <1>1, TablesRest DEF HInv
<1> QED BY <1>1, <1>2, OthersFit

\* A call enqueues nothing that follows a worker run when it begins.
LEMMA CallsFollowNothing ==
  ASSUME NEW kind \in AllKinds, NEW t \in Tasks PROVE Call(kind, t).item.follows = NoRun
<1>1. PICK item : item = [NoWork EXCEPT !.status = "queued", !.task = t, !.collect = t \in Collects]
  OBVIOUS
<1>2. item.follows = NoRun
  BY <1>1 DEF NoWork
<1>3. Call(kind, t).item = item
  BY <1>1 DEF Call
<1> QED BY <1>2, <1>3

\* A call on its own task begins to sync worker run w.
LEMMA SyncCallFits ==
  ASSUME OneCall, HInv, CPInv', History', Grows, UNCHANGED <<task, approval>>,
         NEW i \in Requests, request[i].todo = <<>>, NEW w \in Runs, NEW t \in Tasks, WorkOf(w, t),
         NEW q, q = Call("sync", t), SyncsNow(i, q, w)
  PROVE  HInv' /\ Moves
<1>1. "sync" \in AllKinds
  BY DEF AllKinds
<1>2. q \in CallType /\ q.task = t /\ q.item.follows = NoRun /\ q.cur.status = "absent"
  BY <1>1, CallsAreCalls, CallsFollowNothing
<1>3. WorkOf(w, q.task)'
  BY <1>2 DEF Grows
<1>4. HInv'
  BY <1>2, <1>3, SyncBegins
<1>5. \A j \in Requests, u \in Tasks : ~Tends(j, u)
  BY DEF OneCall, Tends
<1> QED BY <1>4, <1>5, MovesQuietly

LEMMA ReportFits ==
  ASSUME OneCall, HInv, CPInv', NEW i \in Requests, NEW r \in Runs, NEW status \in Outcomes,
         Report(i, r, status)
  PROVE  HInv' /\ Moves
<1>1. PICK t : t = work[r].task
  OBVIOUS
<1>2. /\ work[r].status \notin {"absent", "completed"} /\ Tables /\ History
      /\ status \in {"queued", "running", "completed", "failed", "cancelled"}
  BY ControlPlaneAssumption DEF Report, Open, HInv, CPInv
<1>3. t \in Tasks /\ WorkOf(r, t)
  BY <1>1, <1>2 DEF Tables, WorkOf
<1>4. PICK q : q = Call("sync", t)
  OBVIOUS
<1>5. /\ work' = [work EXCEPT ![r] = [work[r] EXCEPT !.status = status]] /\ request[i].todo = <<>>
      /\ SyncsNow(i, q, r) /\ UNCHANGED <<task, approval, run>>
  BY <1>1, <1>4 DEF Report
<1>6. History' /\ Grows
  BY <1>2, <1>5, WorkMovesOn
<1> QED BY <1>3, <1>4, <1>5, <1>6, SyncCallFits

LEMMA ResyncFits ==
  ASSUME OneCall, HInv, CPInv', NEW i \in Requests, NEW r \in Runs, Resync(i, r)
  PROVE  HInv' /\ Moves
<1>1. PICK t : t = work[r].task
  OBVIOUS
<1>2. work[r].status # "absent" /\ Tables /\ History /\ request[i].todo = <<>>
  BY DEF Resync, HInv, CPInv
<1>3. t \in Tasks /\ WorkOf(r, t)
  BY <1>1, <1>2 DEF Tables, WorkOf
<1>4. PICK q : q = Call("sync", t)
  OBVIOUS
<1>5. q \in CallType /\ q.todo = Sync
  <2>1. "sync" \in AllKinds /\ Accesses("sync") = Sync
    BY DEF AllKinds, Accesses
  <2> QED BY <1>3, <1>4, <2>1, CallsAreCalls
<1>6. UNCHANGED tables /\ Goes(i, [q EXCEPT !.job = r, !.seen = work[r]])
  BY <1>1, <1>4 DEF Resync
<1>7. History' /\ Grows /\ work' = work /\ UNCHANGED <<task, approval>>
  BY <1>2, <1>6, TablesRest DEF tables
<1>8. SyncsNow(i, q, r)
  <2>1. [q EXCEPT !.todo = Sync] = q
    BY <1>5 DEF CallType
  <2> QED BY <1>6, <1>7, <2>1 DEF SyncsNow
<1> QED BY <1>2, <1>3, <1>4, <1>7, <1>8, SyncCallFits

LEMMA BeginFits ==
  ASSUME OneCall, HInv, CPInv', NEW i \in Requests, NEW kind \in AllKinds, NEW t \in Tasks,
         Begin(i, kind, t)
  PROVE  HInv' /\ Moves
<1>1. PICK q : q = Call(kind, t)
  OBVIOUS
<1>2. /\ q \in CallType /\ q.task = t /\ q.cur.status = "absent" /\ q.todo = Accesses(kind)
      /\ q.item.follows = NoRun
  BY <1>1, CallsAreCalls, CallsFollowNothing
<1>3. kind # "sync" /\ UNCHANGED tables /\ request[i].todo = <<>>
  BY DEF Begin
<1>4. PICK h : h = Head(q.todo)
  OBVIOUS
<1>5. ~InSync(q.todo) /\ h \in First
  BY <1>2, <1>3, <1>4, AccessesAreWellFormed
<1>6. h \notin Enqueuing \union {"await", "answer", "answered", "keep", "mark", "grant"}
  BY <1>5 DEF First, Enqueuing, Saving
<1>7. Fits(q, h)' /\ Plan(q.task, q.todo)
  <2>1. Recalls(q, h)' /\ Answers(q, h)' /\ Syncs(q, h)'
    BY <1>5, <1>6 DEF Recalls, Answers, Syncs
  <2>2. h \notin Saving /\ h # "enqueue" /\ h \notin Enqueuing
    BY <1>6 DEF Enqueuing, Saving
  <2>3. Enqueues(q, h)'
    BY <1>2, <2>2 DEF Enqueues, Saving
  <2>4. Reads(q, h)'
    BY <1>2, <1>6 DEF Reads
  <2>5. Plan(q.task, q.todo)
    BY <1>4, <1>6, <2>2 DEF Plan
  <2> QED BY <2>1, <2>3, <2>4, <2>5 DEF Fits
<1>8. History'
  BY <1>3, TablesRest DEF HInv, tables
<1>9. request' = [request EXCEPT ![i] = q]
  BY <1>1 DEF Begin, Goes
<1>10. ASSUME NEW j \in Requests PROVE CallFits(request[j])'
  <2>1. request'[j] = q
    BY <1>9 DEF OneCall, HInv, CPInv
  <2>2. CallFits(q)'
    BY <1>4, <1>7 DEF CallFits, Plan
  <2> QED BY <2>1, <2>2 DEF CallFits, Fits, Recalls, Enqueues, Answers, Reads, Syncs
<1>11. HInv'
  BY <1>8, <1>10 DEF HInv
<1>12. \A j \in Requests, u \in Tasks : ~Tends(j, u)
  BY <1>3 DEF OneCall, Tends
<1>13. Moves
  BY <1>3, <1>12, MovesQuietly DEF tables
<1> QED BY <1>11, <1>13

LEMMA CrashFits ==
  ASSUME HInv, CPInv', Crash PROVE HInv'
<1>1. History'
  BY TablesRest DEF Crash, HInv, tables
<1>2. \A j \in Requests : request'[j] = Idle
  BY DEF Crash
<1> QED BY <1>1, <1>2 DEF HInv

-----------------------------------------------------------------------------
(* The invariant is kept, and what a step does to the tasks.               *)

LEMMA AccessFits ==
  ASSUME OneCall, HInv, CPInv', NEW i \in Requests, Access(i) PROVE HInv' /\ Moves
BY SaveNewFits, GateFits, PolicyFits, AskFits, AwaitFits, DecideFits, SettleFits, RefuseFits,
   CreateGrantFits, MarkFits, EnqueueFits, SaveRunFits, SaveTaskFits, AnswerFits,
   SaveAnsweredFits, ReadTaskFits, ReadRunFits, KeepRunFits, ShowTaskFits, CancelFits,
   NoteFits, ForceFailFits, RetryFits, ReadSubjectFits, FindRunFits, KeepMineFits, ApplyFits,
   ReviewFits, ReviewRunFits, ReviewTaskFits, FollowUpFits DEF Access

LEMMA HInvHoldsAtFirst == Init => HInv
<1> SUFFICES ASSUME Init PROVE HInv
  OBVIOUS
<1>1. /\ NewTask.status = "absent" /\ NewTask.run = NoRun /\ NewTask.previous = {}
      /\ NoRunRecord.status = "absent" /\ NoWork.status = "absent"
  BY DEF NewTask, NoRunRecord, NoWork
<1>2. History
  BY <1>1 DEF Init, History
<1> QED BY <1>2, CPInvHoldsAtFirst DEF Init, HInv

LEMMA HInvIsKept ==
  ASSUME OneCall, HInv, Next PROVE HInv' /\ (Moves \/ Crash)
<1>1. CPInv'
  BY CPInvIsKept DEF HInv
<1>2. ASSUME NEW i \in Requests, Access(i) PROVE HInv' /\ Moves
  BY <1>1, <1>2, AccessFits
<1>3. ASSUME NEW i \in Requests, NEW kind \in AllKinds, NEW t \in Tasks, Begin(i, kind, t)
      PROVE  HInv' /\ Moves
  BY <1>1, <1>3, BeginFits
<1>4. ASSUME NEW i \in Requests, NEW r \in Runs,
             Resync(i, r) \/ \E status \in Outcomes : Report(i, r, status)
      PROVE  HInv' /\ Moves
  BY <1>1, <1>4, ResyncFits, ReportFits
<1>5. ASSUME NEW r \in Runs, Start(r) \/ Requeue(r) \/ Recover(r) PROVE HInv' /\ Moves
  BY <1>1, <1>5, WorkersFit
<1>6. ASSUME NEW g \in Tasks, EndGrant(g) PROVE HInv' /\ Moves
  BY <1>1, <1>6, EndGrantFits
<1>7. ASSUME Crash PROVE HInv'
  BY <1>1, <1>7, CrashFits
<1> QED BY <1>2, <1>3, <1>4, <1>5, <1>6, <1>7 DEF Next

LEMMA HInvRests ==
  ASSUME HInv, UNCHANGED vars PROVE HInv' /\ Moves
<1>1. CPInv'
  <2>1. Tables' /\ UNCHANGED <<task, approval, request>>
    BY DEF vars, HInv, CPInv, Tables, TypeOK, Consent, Exists
  <2> QED BY <2>1, CallsUndisturbed DEF HInv
<1>2. History' /\ Grows
  BY TablesRest DEF HInv, vars
<1> QED BY <1>1, <1>2, OthersFit DEF vars

LEMMA HInvHolds == ASSUME OneCall PROVE Spec => []HInv
<1>1. Init => HInv
  BY HInvHoldsAtFirst
<1>2. HInv /\ [Next]_vars => HInv'
  BY HInvIsKept, HInvRests
<1> QED BY <1>1, <1>2, PTL DEF Spec

\* A task shows success only if one of its worker runs completed, or it was
\* answered at once: for any number of tasks, runs and kills, whatever was
\* requeued, retried or synced late, as long as calls do not overlap.
THEOREM SuccessIsSomebodys == ASSUME OneCall PROVE Spec => []SucceededMeansDone
<1>1. HInv => SucceededMeansDone
  BY DEF HInv, History, Done, SucceededMeansDone
<1> QED BY <1>1, HInvHolds, PTL

\* A task never goes back to an attempt it has replaced: no sync, projection,
\* note or late report of an old attempt makes it current again.
THEOREM AttemptsStayReplaced == ASSUME OneCall PROVE Spec => NeverGoesBack
<1> DEFINE Stays == \A t \in Tasks : task'[t].run # task[t].run => task'[t].run \notin task[t].previous
<1>1. HInv /\ [Next]_vars => [Stays]_vars
  <2> SUFFICES ASSUME HInv, Next PROVE Stays
    OBVIOUS
  <2>1. CASE Moves
    BY <2>1 DEF Moves
  <2>2. CASE Crash
    BY <2>2 DEF Crash, tables
  <2> QED BY <2>1, <2>2, HInvIsKept
<1>2. Spec => []HInv
  BY HInvHolds
<1> QED BY <1>1, <1>2, PTL DEF Spec, NeverGoesBack

-----------------------------------------------------------------------------
(* What a kill costs: one task left half done, one follow-up queued again. *)

\* Only an enqueuing access adds to the worker queue, and only the two of
\* them that settle a run write it otherwise.
LEMMA AccessesElsewhere ==
  ASSUME NEW i \in Requests, Access(i)
  PROVE  /\ crashes' = crashes
         /\ \/ Enqueue(i) \/ SaveRun(i) \/ SaveTask(i) \/ Cancel(i) \/ ForceFail(i)
            \/ UNCHANGED work /\ \E a \in AccessNames \ Enqueuing : Doing(i, a)
<1> DEFINE Goal == /\ crashes' = crashes
                   /\ \/ Enqueue(i) \/ SaveRun(i) \/ SaveTask(i) \/ Cancel(i) \/ ForceFail(i)
                      \/ UNCHANGED work /\ \E a \in AccessNames \ Enqueuing : Doing(i, a)
<1>1. {"new", "gate", "policy", "ask", "await", "decide", "settle", "refuse", "grant", "mark",
       "answer", "answered", "task", "run", "keep", "show", "note", "retry"}
        \subseteq AccessNames \ Enqueuing
  BY DEF AccessNames, Enqueuing, Saving
<1>2. SyncAccesses \subseteq AccessNames \ Enqueuing
  BY DEF AccessNames, SyncAccesses, Enqueuing, Saving
<1>3. ASSUME SaveNew(i) \/ Gate(i) \/ Policy(i) \/ Ask(i) \/ Await(i) \/ Decide(i) \/ Settle(i)
      PROVE  Goal
  BY <1>1, <1>3 DEF SaveNew, Gate, Policy, Ask, Await, Decide, Settle, tables
<1>4. ASSUME Refuse(i) \/ CreateGrant(i) \/ Mark(i) \/ Answer(i) \/ SaveAnswered(i)
      PROVE  Goal
  <2>1. CASE Answer(i)
    BY <1>1, <2>1, Zenon DEF Answer
  <2>2. CASE Refuse(i) \/ CreateGrant(i) \/ Mark(i) \/ SaveAnswered(i)
    BY <1>1, <2>2 DEF Refuse, CreateGrant, Mark, SaveAnswered
  <2> QED BY <1>4, <2>1, <2>2
<1>5. ASSUME ReadTask(i) \/ ReadRun(i) \/ KeepRun(i) \/ ShowTask(i) \/ Note(i) \/ Retry(i)
      PROVE  Goal
  BY <1>1, <1>5 DEF ReadTask, ReadRun, KeepRun, ShowTask, Note, Retry, tables
<1>6. ASSUME Enqueue(i) \/ SaveRun(i) \/ SaveTask(i) \/ Cancel(i) \/ ForceFail(i)
      PROVE  Goal
  BY <1>6 DEF Enqueue, SaveRun, SaveTask, Cancel, ForceFail
<1>7. ASSUME FindRun(i) PROVE Goal
  <2>1. Doing(i, "find") /\ UNCHANGED <<tables, crashes>>
    BY <1>7, Zenon DEF FindRun
  <2> QED BY <1>2, <2>1 DEF SyncAccesses, tables
<1>8. ASSUME ReadSubject(i) \/ KeepMine(i) \/ Apply(i) \/ Review(i) PROVE Goal
  BY <1>2, <1>8 DEF ReadSubject, KeepMine, Apply, Review, SyncAccesses, tables
<1>9. ASSUME ReviewRun(i) \/ ReviewTask(i) \/ FollowUp(i) PROVE Goal
  BY <1>2, <1>9 DEF ReviewRun, ReviewTask, FollowUp, SyncAccesses, tables
<1> QED BY <1>3, <1>4, <1>5, <1>6, <1>7, <1>8, <1>9 DEF Access

LEMMA CrashesAreCounted ==
  ASSUME Next PROVE crashes' = crashes \/ (Crash /\ crashes' = crashes + 1)
<1>1. ASSUME NEW i \in Requests, Access(i) PROVE crashes' = crashes
  BY <1>1, AccessesElsewhere
<1>2. ASSUME NEW i \in Requests, NEW kind, NEW t, Begin(i, kind, t) PROVE crashes' = crashes
  BY <1>2 DEF Begin
<1>3. ASSUME NEW i \in Requests, NEW r, Resync(i, r) \/ \E status \in Outcomes : Report(i, r, status)
      PROVE  crashes' = crashes
  BY <1>3 DEF Resync, Report
<1>4. ASSUME NEW r, Start(r) \/ Requeue(r) \/ Recover(r) PROVE crashes' = crashes
  BY <1>4 DEF Start, Requeue, Recover
<1>5. ASSUME NEW g, EndGrant(g) PROVE crashes' = crashes
  BY <1>5 DEF EndGrant
<1> QED BY <1>1, <1>2, <1>3, <1>4, <1>5 DEF Next, Crash

\* A kill leaves at most the task of the one call half done.
LEMMA CrashLeavesOne ==
  ASSUME OneCall, Crash PROVE \E t : Left' \subseteq Left \union {t}
<1>1. PICK i \in Requests : request[i].todo # <<>>
  BY DEF Crash, Busy
<1>2. PICK t : t = request[i].task
  OBVIOUS
<1>3. ASSUME NEW u \in Left', u # t PROVE u \in Left
  <2>1. u \in Tasks /\ HalfDone(u)
    BY <1>3 DEF Left, HalfDone, Crash, tables
  <2>2. \A j \in Requests : ~Tends(j, u)
    BY <1>2, <1>3 DEF OneCall, Tends
  <2> QED BY <2>1, <2>2 DEF Left
<1> QED BY <1>3

LEMMA FewLeftHolds == ASSUME OneCall PROVE Spec => [](HInv /\ crashes \in Nat /\ FewLeft)
<1>1. Init => crashes \in Nat /\ FewLeft
  <2> SUFFICES ASSUME Init PROVE crashes \in Nat /\ FewLeft
    OBVIOUS
  <2>1. Left = {}
    BY DEF Init, Left, HalfDone, NewTask
  <2> QED BY <2>1, FS_EmptySet DEF Init, FewLeft
<1>2. HInv /\ crashes \in Nat /\ FewLeft /\ [Next]_vars => (crashes \in Nat /\ FewLeft)'
  <2> SUFFICES ASSUME HInv, crashes \in Nat, FewLeft, [Next]_vars PROVE (crashes \in Nat /\ FewLeft)'
    OBVIOUS
  <2>1. CASE crashes' = crashes /\ Moves
    <3>1. IsFiniteSet(Left') /\ Cardinality(Left') <= Cardinality(Left)
      BY <2>1, FS_Subset DEF FewLeft, Moves
    <3>2. Cardinality(Left') \in Nat /\ Cardinality(Left) \in Nat
      BY <3>1, FS_CardinalityType DEF FewLeft
    <3> QED BY <2>1, <3>1, <3>2 DEF FewLeft
  <2>2. CASE Crash
    <3>1. PICK t : Left' \subseteq Left \union {t}
      BY <2>2, CrashLeavesOne
    <3>2. /\ IsFiniteSet(Left \union {t})
          /\ Cardinality(Left \union {t}) = IF t \in Left THEN Cardinality(Left) ELSE Cardinality(Left) + 1
      BY FS_AddElement DEF FewLeft
    <3>3. IsFiniteSet(Left') /\ Cardinality(Left') <= Cardinality(Left \union {t})
      BY <3>1, <3>2, FS_Subset
    <3>4. Cardinality(Left') \in Nat /\ Cardinality(Left) \in Nat
      BY <3>3, FS_CardinalityType DEF FewLeft
    <3>5. crashes' = crashes + 1
      BY <2>2 DEF Crash
    <3> QED BY <3>2, <3>3, <3>4, <3>5 DEF FewLeft
  <2>3. CASE UNCHANGED vars
    <3>1. Moves /\ crashes' = crashes
      BY <2>3, HInvRests DEF vars
    <3> QED BY <2>1, <3>1
  <2>4. CASE Next
    <3>1. Moves \/ Crash
      BY <2>4, HInvIsKept
    <3>2. crashes' = crashes \/ Crash
      BY <2>4, CrashesAreCounted
    <3> QED BY <2>1, <2>2, <3>1, <3>2
  <2> QED BY <2>3, <2>4
<1>3. Spec => []HInv
  BY HInvHolds
<1> QED BY <1>1, <1>2, <1>3, PTL DEF Spec

\* Creating and deciding save several records one after the other; each kill
\* strands at most the one task whose call it cut short, for any number of
\* tasks and kills, as long as calls do not overlap.
THEOREM KillsStrandFewTasks == ASSUME OneCall PROVE Spec => []StrandedOnlyByKill
<1>1. HInv /\ crashes \in Nat /\ FewLeft => StrandedOnlyByKill
  <2> SUFFICES ASSUME crashes \in Nat, FewLeft PROVE StrandedOnlyByKill
    OBVIOUS
  <2>1. PICK S : S = {t \in Tasks : Stranded(t)}
    OBVIOUS
  <2>2. S \subseteq Left
    BY <2>1 DEF Left, Stranded, HalfDone, Tends, Busy
  <2>3. IsFiniteSet(S) /\ Cardinality(S) <= Cardinality(Left)
    BY <2>2, FS_Subset DEF FewLeft
  <2>4. Cardinality(S) \in Nat /\ Cardinality(Left) \in Nat
    BY <2>3, FS_CardinalityType DEF FewLeft
  <2> QED BY <2>1, <2>3, <2>4 DEF FewLeft, StrandedOnlyByKill
<1> QED BY <1>1, FewLeftHolds, PTL

\* A step that adds no worker run: none changes what it follows, or its task.
WorksOn ==
    \A w \in Runs :
        /\ work'[w].follows = work[w].follows
        /\ work[w].status # "absent" => work'[w].status # "absent" /\ work'[w].task = work[w].task

LEMMA StatusMovesOn ==
  ASSUME Tables, NEW w \in Runs, NEW status, status # "absent",
         work' = [work EXCEPT ![w] = [work[w] EXCEPT !.status = status]]
  PROVE  WorksOn
<1>1. work[w] \in WorkType /\ work \in [Runs -> WorkType]
  BY DEF Tables, TypeOK
<1>2. PICK v : v = [work[w] EXCEPT !.status = status]
  OBVIOUS
<1>3. v.status = status /\ v.task = work[w].task /\ v.follows = work[w].follows
  BY <1>1, <1>2 DEF WorkType
<1> QED BY <1>1, <1>2, <1>3 DEF WorksOn

\* What was spent stays spent, if the call that queued a follow-up goes on.
LEMMA SpentStays ==
  ASSUME HInv, WorksOn, Moves,
         \A i \in Requests, s \in Runs :
            request[i].todo # <<>> /\ Head(request[i].todo) \in Saving /\ request[i].item.follows = s
              => Spent(s)'
  PROVE  \A s \in Runs : FollowUps(s)' \subseteq FollowUps(s) /\ (Spent(s) => Spent(s)')
<1> SUFFICES ASSUME NEW s \in Runs PROVE FollowUps(s)' \subseteq FollowUps(s) /\ (Spent(s) => Spent(s)')
  OBVIOUS
<1>1. FollowUps(s)' \subseteq FollowUps(s)
  BY DEF FollowUps, WorksOn
<1>2. ASSUME work[s].status # "absent", task[work[s].task].followed PROVE Spent(s)'
  <2>1. work[s].task \in Tasks
    BY <1>2 DEF HInv, CPInv, Tables
  <2>2. task'[work[s].task].followed
    BY <1>2, <2>1 DEF Moves
  <2>3. work'[s].status # "absent" /\ work'[s].task = work[s].task
    BY <1>2 DEF WorksOn
  <2> QED BY <2>2, <2>3 DEF Spent
<1> QED BY <1>1, <1>2 DEF Spent

\* A call that does not save what it enqueued leaves what is spent alone.
LEMMA OthersSpendNothing ==
  ASSUME HInv, WorksOn, Moves,
         \A i \in Requests : request[i].todo # <<>> => Head(request[i].todo) \notin Saving
  PROVE  \A s \in Runs : FollowUps(s)' \subseteq FollowUps(s) /\ (Spent(s) => Spent(s)')
BY SpentStays

\* So does one that goes on saving it, and in the end the task knows.
LEMMA SavingSpendsNothing ==
  ASSUME OneCall, HInv, HInv', Moves, NEW i \in Requests, SaveRun(i) \/ SaveTask(i)
  PROVE  \A s \in Runs : FollowUps(s)' \subseteq FollowUps(s) /\ (Spent(s) => Spent(s)')
<1>1. PICK q : q = request[i]
  OBVIOUS
<1>2. WorksOn
  BY DEF SaveRun, SaveTask, WorksOn
<1>3. ASSUME NEW s \in Runs, q.item.follows = s, SaveRun(i) PROVE Spent(s)'
  <2>1. Doing(i, "save_run") /\ Continues(i, q)
    BY <1>1, <1>3 DEF SaveRun
  <2>2. /\ q \in CallType /\ WellFormed(q.todo) /\ q.todo # <<>> /\ Head(q.todo) = "save_run"
    BY <1>1, <2>1, InFit
  <2>3. PICK t : t = Tail(q.todo)
    OBVIOUS
  <2>4. t # <<>>
    BY <2>2, <2>3, GoesOnUnlessFinal DEF Final
  <2>5. Follows("save_run", Head(t))
    BY <2>2, <2>3, <2>4, TailIsWellFormed
  <2>6. Head(t) \in Saving
    BY <2>5 DEF Follows, Saving
  <2>7. PICK p : p = [q EXCEPT !.todo = t]
    OBVIOUS
  <2>8. p.todo = t /\ p.item = q.item
    BY <2>2, <2>7 DEF CallType
  <2>9. request'[i] = p
    BY <2>1, <2>3, <2>4, <2>7 DEF Continues, Then, Goes, HInv, CPInv
  <2> QED BY <1>3, <2>4, <2>6, <2>8, <2>9 DEF Spent
<1>4. ASSUME NEW s \in Runs, q.item.follows = s, SaveTask(i) PROVE Spent(s)'
  <2>1. Doing(i, "save_task") /\ UNCHANGED work
    BY <1>4 DEF SaveTask
  <2>2. q \in CallType /\ q.task \in Tasks /\ Fits(q, "save_task") /\ q.me \in TaskType /\ Tables
    BY <1>1, <2>1, InFit
  <2>3. q.me.followed /\ WorkOf(s, q.task)
    BY <1>4, <2>2, ControlPlaneAssumption DEF Fits, Enqueues, Enqueuing, Saving
  <2>4. PICK v : v = [q.me EXCEPT !.status = "queued", !.run = q.r]
    OBVIOUS
  <2>5. v.followed
    BY <2>2, <2>3, <2>4 DEF TaskType
  <2>6. task' = [task EXCEPT ![q.task] = v]
    BY <1>1, <1>4, <2>4 DEF SaveTask
  <2>7. task'[q.task] = v
    BY <2>2, <2>6 DEF Tables, TypeOK
  <2> QED BY <2>1, <2>3, <2>5, <2>7 DEF Spent, WorkOf
<1>5. ASSUME NEW j \in Requests, NEW s \in Runs, request[j].item.follows = s PROVE Spent(s)'
  <2>1. j = i
    BY DEF OneCall
  <2> QED BY <1>1, <1>3, <1>4, <1>5, <2>1
<1> QED BY <1>2, <1>5, SpentStays

\* A follow-up is queued for a worker run whose follow-up is not spent, and
\* then it is.
LEMMA EnqueueSpends ==
  ASSUME OneCall, HInv, Moves, NEW i \in Requests, Enqueue(i)
  PROVE  \E r, f : \A s \in Runs :
           IF s = f THEN ~Spent(s) /\ Spent(s)' /\ FollowUps(s)' \subseteq FollowUps(s) \union {r}
           ELSE FollowUps(s)' \subseteq FollowUps(s) /\ (Spent(s) => Spent(s)')
<1>1. PICK q : q = request[i]
  OBVIOUS
<1>2. Doing(i, "enqueue") /\ UNCHANGED task
  BY DEF Enqueue
<1>3. /\ q \in CallType /\ q.task \in Tasks /\ Fits(q, "enqueue") /\ q.item \in WorkType
      /\ WellFormed(q.todo) /\ q.todo # <<>> /\ Head(q.todo) = "enqueue" /\ Tables
  BY <1>1, <1>2, InFit
<1>4. PICK r \in Fresh : /\ work' = [work EXCEPT ![r] = q.item]
                         /\ Continues(i, [q EXCEPT !.r = r])
  BY <1>1 DEF Enqueue
<1>5. PICK f : f = q.item.follows
  OBVIOUS
<1>6. /\ work'[r] = q.item /\ (\A w \in Runs \ {r} : work'[w] = work[w])
      /\ r \in Runs /\ work[r].status = "absent"
  BY <1>3, <1>4 DEF Fresh, Tables, TypeOK
<1>7. PICK t : t = Tail(q.todo)
  OBVIOUS
<1>8. t # <<>>
  BY <1>3, <1>7, GoesOnUnlessFinal DEF Final
<1>9. Head(t) \in Saving
  <2>1. Follows("enqueue", Head(t))
    BY <1>3, <1>7, <1>8, TailIsWellFormed
  <2> QED BY <2>1 DEF Follows, Saving
<1>10. PICK p : p = [q EXCEPT !.r = r]
  OBVIOUS
<1>11. p \in CallType /\ p.todo = q.todo /\ p.item = q.item
  BY <1>3, <1>6, <1>10 DEF CallType
<1>12. PICK n : n = [p EXCEPT !.todo = t]
  OBVIOUS
<1>13. n.todo = t /\ n.item = q.item
  BY <1>11, <1>12 DEF CallType
<1>14. request'[i] = n
  BY <1>4, <1>7, <1>8, <1>10, <1>11, <1>12 DEF Continues, Then, Goes, HInv, CPInv
<1>15. \A j \in Requests : Head(request[j].todo) \notin Saving
  BY <1>1, <1>3 DEF OneCall, Saving
<1>16. ASSUME NEW s \in Runs, s = f
       PROVE  ~Spent(s) /\ Spent(s)' /\ FollowUps(s)' \subseteq FollowUps(s) \union {r}
  <2>1. WorkOf(s, q.task) /\ ~task[q.task].followed
    BY <1>3, <1>5, <1>16, ControlPlaneAssumption DEF Fits, Enqueues, Enqueuing
  <2>2. ~Spent(s)
    BY <1>15, <2>1 DEF Spent, WorkOf
  <2>3. Spent(s)'
    BY <1>5, <1>8, <1>9, <1>13, <1>14, <1>16 DEF Spent
  <2>4. FollowUps(s)' \subseteq FollowUps(s) \union {r}
    BY <1>6 DEF FollowUps
  <2> QED BY <2>2, <2>3, <2>4
<1>17. ASSUME NEW s \in Runs, s # f
       PROVE  FollowUps(s)' \subseteq FollowUps(s) /\ (Spent(s) => Spent(s)')
  <2>1. FollowUps(s)' \subseteq FollowUps(s)
    BY <1>5, <1>6, <1>17 DEF FollowUps
  <2>2. ASSUME Spent(s) PROVE Spent(s)'
    <3>1. work[s].status # "absent" /\ task[work[s].task].followed
      BY <1>15, <2>2 DEF Spent
    <3>2. s # r
      BY <1>6, <3>1
    <3> QED BY <1>2, <1>6, <3>1, <3>2 DEF Spent
  <2> QED BY <2>1, <2>2
<1> QED BY <1>16, <1>17

\* No step but an enqueueing adds a follow-up, and only a kill forgets one.
LEMMA FollowUpsAreCounted ==
  ASSUME OneCall, HInv, HInv', Moves, [Next]_vars, ~Crash
  PROVE  \/ \E i \in Requests : Enqueue(i)
         \/ \A s \in Runs : FollowUps(s)' \subseteq FollowUps(s) /\ (Spent(s) => Spent(s)')
<1> DEFINE Stays == \A s \in Runs : FollowUps(s)' \subseteq FollowUps(s) /\ (Spent(s) => Spent(s)')
           Calm == \A j \in Requests : request[j].todo # <<>> => Head(request[j].todo) \notin Saving
<1>1. Tables
  BY DEF HInv, CPInv
<1>2. ASSUME UNCHANGED work PROVE WorksOn
  BY <1>2 DEF WorksOn
<1>3. ASSUME NEW i \in Requests, NEW a, a \notin Saving, Doing(i, a) PROVE Calm
  BY <1>3 DEF OneCall, Doing
<1>4. ASSUME NEW i \in Requests, request[i].todo = <<>> PROVE Calm
  BY <1>4 DEF OneCall
<1>5. "cancel" \notin Saving /\ "force-fail" \notin Saving
  BY DEF Saving
<1>6. ASSUME NEW i \in Requests, Cancel(i) PROVE Stays
  <2>1. Doing(i, "cancel") /\ WorksOn
    <3>1. PICK w : w = request[i].cur.work
      OBVIOUS
    <3>2. CASE UNCHANGED work
      BY <1>2, <1>6, <3>2 DEF Cancel
    <3>3. CASE /\ work[w].status = "queued" /\ Stoppable(request[i].cur)
               /\ work' = [work EXCEPT ![w] = [work[w] EXCEPT !.status = "cancelled"]]
      <4>1. w \in Runs
        BY <1>6, InCall, <3>1, <3>3 DEF Cancel, HInv, CallOK, CallType, RunType, Stoppable
      <4> QED BY <1>1, <1>6, <3>3, <4>1, StatusMovesOn DEF Cancel
    <3> QED BY <1>6, <3>1, <3>2, <3>3 DEF Cancel
  <2> QED BY <1>3, <1>5, <2>1, OthersSpendNothing
<1>7. ASSUME NEW i \in Requests, ForceFail(i) PROVE Stays
  <2>1. Doing(i, "force-fail") /\ WorksOn
    <3>1. PICK w : w = request[i].cur.work
      OBVIOUS
    <3>2. CASE UNCHANGED work
      BY <1>2, <1>7, <3>2 DEF ForceFail
    <3>3. CASE /\ Stoppable(request[i].cur)
               /\ work' = [work EXCEPT ![w] = [work[w] EXCEPT !.status = "failed"]]
      <4>1. w \in Runs
        BY <1>7, InCall, <3>1, <3>3 DEF ForceFail, HInv, CallOK, CallType, RunType, Stoppable
      <4> QED BY <1>1, <1>7, <3>3, <4>1, StatusMovesOn DEF ForceFail
    <3> QED BY <1>7, <3>1, <3>2, <3>3 DEF ForceFail
  <2> QED BY <1>3, <1>5, <2>1, OthersSpendNothing
<1>8. ASSUME NEW i \in Requests, Access(i), ~Enqueue(i) PROVE Stays
  <2>1. CASE SaveRun(i) \/ SaveTask(i)
    BY <2>1, SavingSpendsNothing
  <2>2. CASE UNCHANGED work /\ \E a \in AccessNames \ Enqueuing : Doing(i, a)
    <3>1. Calm
      BY <1>3, <2>2 DEF Enqueuing
    <3> QED BY <1>2, <2>2, <3>1, OthersSpendNothing
  <2> QED BY <1>6, <1>7, <1>8, <2>1, <2>2, AccessesElsewhere
<1>9. ASSUME NEW i \in Requests, NEW kind, NEW t, Begin(i, kind, t) PROVE Stays
  <2>1. UNCHANGED work /\ request[i].todo = <<>>
    BY <1>9 DEF Begin, tables
  <2> QED BY <1>2, <1>4, <2>1, OthersSpendNothing
<1>10. ASSUME NEW i \in Requests, NEW r \in Runs,
              Resync(i, r) \/ \E status \in Outcomes : Report(i, r, status)
       PROVE  Stays
  <2>1. request[i].todo = <<>>
    BY <1>10 DEF Resync, Report
  <2>2. ASSUME Resync(i, r) PROVE WorksOn
    BY <1>2, <2>2 DEF Resync, tables
  <2>3. ASSUME NEW status \in Outcomes, Report(i, r, status) PROVE WorksOn
    <3>1. work' = [work EXCEPT ![r] = [work[r] EXCEPT !.status = status]] /\ status # "absent"
      BY <2>3, ControlPlaneAssumption DEF Report
    <3> QED BY <1>1, <3>1, StatusMovesOn
  <2> QED BY <1>4, <1>10, <2>1, <2>2, <2>3, OthersSpendNothing
<1>11. ASSUME UNCHANGED request, WorksOn PROVE Stays
  BY <1>11, SpentStays DEF Spent
<1>12. ASSUME NEW r \in Runs, Start(r) \/ Requeue(r) \/ Recover(r) PROVE Stays
  <2>1. UNCHANGED request
    BY <1>12 DEF Start, Requeue, Recover
  <2>2. PICK status \in {"queued", "running", "failed"} :
          work' = [work EXCEPT ![r] = [work[r] EXCEPT !.status = status]]
    BY <1>12 DEF Start, Requeue, Recover
  <2> QED BY <1>1, <1>11, <2>1, <2>2, StatusMovesOn
<1>13. ASSUME NEW g \in Tasks, EndGrant(g) PROVE Stays
  BY <1>2, <1>11, <1>13 DEF EndGrant
<1>14. ASSUME UNCHANGED vars PROVE Stays
  BY <1>2, <1>11, <1>14 DEF vars
<1> QED BY <1>8, <1>9, <1>10, <1>12, <1>13, <1>14 DEF Next

LEMMA FewFollowUpsHolds == ASSUME OneCall PROVE Spec => [](HInv /\ crashes \in Nat /\ FewFollowUps)
<1>1. Init => crashes \in Nat /\ FewFollowUps
  <2> SUFFICES ASSUME Init PROVE crashes \in Nat /\ FewFollowUps
    OBVIOUS
  <2>1. NoWork.follows = NoRun /\ NoRun \notin Runs
    BY ControlPlaneAssumption DEF NoWork
  <2>2. crashes = 0 /\ \A s \in Runs : FollowUps(s) = {}
    BY <2>1 DEF Init, FollowUps
  <2> QED BY <2>2, FS_EmptySet DEF FewFollowUps
<1>2. HInv /\ crashes \in Nat /\ FewFollowUps /\ [Next]_vars => (crashes \in Nat /\ FewFollowUps)'
  <2> SUFFICES ASSUME HInv, crashes \in Nat, FewFollowUps, [Next]_vars
               PROVE  (crashes \in Nat /\ FewFollowUps)'
    OBVIOUS
  <2>1. HInv' /\ (Moves \/ Crash)
    BY HInvIsKept, HInvRests
  <2>2. ASSUME NEW s \in Runs, NEW S, S \subseteq FollowUps(s)
        PROVE  /\ IsFiniteSet(S) /\ Cardinality(S) \in Nat
               /\ Cardinality(S) <= IF Spent(s) THEN crashes + 1 ELSE crashes
    <3>1. IsFiniteSet(S) /\ Cardinality(S) <= Cardinality(FollowUps(s))
      BY <2>2, FS_Subset DEF FewFollowUps
    <3>2. Cardinality(S) \in Nat /\ Cardinality(FollowUps(s)) \in Nat
      BY <3>1, FS_CardinalityType DEF FewFollowUps
    <3> QED BY <3>1, <3>2 DEF FewFollowUps
  <2>3. CASE Crash
    <3>1. crashes' = crashes + 1 /\ \A s \in Runs : FollowUps(s)' \subseteq FollowUps(s)
      BY <2>3 DEF Crash, FollowUps, tables
    <3> QED BY <2>2, <3>1 DEF FewFollowUps
  <2>4. ASSUME ~Crash PROVE crashes' = crashes
    BY <2>4, CrashesAreCounted DEF vars
  <2>5. CASE /\ ~Crash
             /\ \A s \in Runs : FollowUps(s)' \subseteq FollowUps(s) /\ (Spent(s) => Spent(s)')
    BY <2>2, <2>4, <2>5 DEF FewFollowUps
  <2>6. ASSUME ~Crash, NEW i \in Requests, Enqueue(i) PROVE FewFollowUps'
    <3>1. PICK r, f : \A s \in Runs :
            IF s = f THEN ~Spent(s) /\ Spent(s)' /\ FollowUps(s)' \subseteq FollowUps(s) \union {r}
            ELSE FollowUps(s)' \subseteq FollowUps(s) /\ (Spent(s) => Spent(s)')
      BY <2>1, <2>6, EnqueueSpends
    <3> SUFFICES ASSUME NEW s \in Runs
                 PROVE  /\ IsFiniteSet(FollowUps(s)')
                        /\ Cardinality(FollowUps(s)') <= IF Spent(s)' THEN crashes + 1 ELSE crashes
      BY <2>4, <2>6 DEF FewFollowUps
    <3>2. CASE s # f
      BY <2>2, <3>1, <3>2
    <3>3. CASE s = f
      <4>1. ~Spent(s) /\ Spent(s)' /\ FollowUps(s)' \subseteq FollowUps(s) \union {r}
        BY <3>1, <3>3
      <4>2. /\ IsFiniteSet(FollowUps(s)) /\ Cardinality(FollowUps(s)) \in Nat
            /\ Cardinality(FollowUps(s)) <= crashes
        BY <2>2, <4>1
      <4>3. /\ IsFiniteSet(FollowUps(s) \union {r})
            /\ \/ Cardinality(FollowUps(s) \union {r}) = Cardinality(FollowUps(s))
               \/ Cardinality(FollowUps(s) \union {r}) = Cardinality(FollowUps(s)) + 1
        BY <4>2, FS_AddElement
      <4>4. /\ IsFiniteSet(FollowUps(s)')
            /\ Cardinality(FollowUps(s)') <= Cardinality(FollowUps(s) \union {r})
        BY <4>1, <4>3, FS_Subset
      <4>5. Cardinality(FollowUps(s)') \in Nat
        BY <4>4, FS_CardinalityType
      <4> QED BY <4>1, <4>2, <4>3, <4>4, <4>5
    <3> QED BY <3>2, <3>3
  <2> QED BY <2>1, <2>3, <2>4, <2>5, <2>6, FollowUpsAreCounted
<1>3. Spec => []HInv
  BY HInvHolds
<1> QED BY <1>1, <1>2, <1>3, PTL DEF Spec

\* A collection gets one follow-up, however often its completion is synced,
\* retried or requeued, and one more for each kill at most: for any number of
\* tasks and kills, as long as calls do not overlap.
THEOREM KillsRepeatFewFollowUps == ASSUME OneCall PROVE Spec => []FollowedUpOnce
<1>1. HInv /\ crashes \in Nat /\ FewFollowUps => FollowedUpOnce
  <2> SUFFICES ASSUME crashes \in Nat, FewFollowUps, NEW s \in Runs
               PROVE  Cardinality(FollowUps(s)) <= 1 + crashes
    BY DEF FollowedUpOnce, FollowUps
  <2>1. /\ Cardinality(FollowUps(s)) \in Nat
        /\ Cardinality(FollowUps(s)) <= IF Spent(s) THEN crashes + 1 ELSE crashes
    BY FS_CardinalityType DEF FewFollowUps
  <2> QED BY <2>1
<1> QED BY <1>1, FewFollowUpsHolds, PTL

=============================================================================
