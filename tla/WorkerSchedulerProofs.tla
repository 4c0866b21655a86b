------------------------ MODULE WorkerSchedulerProofs ------------------------
(***************************************************************************)
(* Proofs about WorkerScheduler, for any runs, workers, queues and times.  *)
(***************************************************************************)
EXTENDS WorkerScheduler, TLAPS

\* The lease a handler computes is a positive number of time units.
LEMMA TTLType == ASSUME NEW r \in Runs PROVE TTL(r) \in Nat \ {0}
  BY ConstantsAssumption DEF TTL, Larger, Smaller

\* Sweeping only clears flags.
LEMMA SweptType == lease \in [Runs -> LeaseType] => Swept \in [Runs -> LeaseType]
  BY DEF Swept, LeaseType, Live

LEMMA SoonerType ==
    /\ \A n \in Nat : Sooner(n) \in Nat
    /\ \A n \in Nat \union {Forever} : Sooner(n) \in Nat \union {Forever}
  BY DEF Sooner, Forever

\* What the assumption says of each input of a call.
LEMMA InputTypes ==
    /\ Modes \subseteq WorkerModes /\ Accepting \subseteq BOOLEAN
    /\ Pauses \subseteq BOOLEAN /\ {1, Backoff} \subseteq Nat /\ Backoff \in Nat
    /\ \A r \in Runs : StickyWait[r] \in Nat \union {Forever}
  BY ConstantsAssumption

\* A requeued item is an item.
LEMMA RequeuedType ==
  ASSUME run \in [Runs -> RunType], NEW r \in Runs, NEW wait \in Nat,
         NEW counted \in BOOLEAN
  PROVE  Requeued(r, wait, counted) \in RunType
<1> DEFINE n == IF counted THEN run[r].retries + 1 ELSE run[r].retries
<1>1. n \in Nat
  BY DEF RunType
<1>2. \A k \in Nat : [run[r] EXCEPT !.status = "queued", !.worker = NoWorker,
                                   !.wait = wait, !.retries = k] \in RunType
  BY DEF RunType, Statuses
<1>3. Requeued(r, wait, counted) =
        [run[r] EXCEPT !.status = "queued", !.worker = NoWorker,
                       !.wait = wait, !.retries = n]
  BY DEF Requeued
<1> QED BY <1>1, <1>2, <1>3

\* Every call keeps the types of the tables.
LEMMA TypeStep == TypeOK /\ [Next]_vars => TypeOK'
<1> SUFFICES ASSUME TypeOK, [Next]_vars PROVE TypeOK'
  OBVIOUS
<1>t. /\ run \in [Runs -> RunType] /\ lease \in [Runs -> LeaseType]
      /\ Swept \in [Runs -> LeaseType]
      /\ worker \in [Workers -> WorkerType]
      /\ agent \in [Agents -> AgentStatuses]
      /\ arrivals \in Nat
  BY SweptType DEF TypeOK
<1>k. ASSUME run' \in [Runs -> RunType], lease' \in [Runs -> LeaseType],
             worker' \in [Workers -> WorkerType],
             agent' \in [Agents -> AgentStatuses], arrivals' \in Nat
      PROVE TypeOK'
  BY <1>k DEF TypeOK, RunType, LeaseType, WorkerType, AgentStatuses, WorkerModes, Statuses
<1>1. ASSUME NEW w \in Workers, WorkerCall(w) PROVE TypeOK'
  <2>1. ASSUME NEW mode \in Modes, Register(w, mode) PROVE TypeOK'
    <3>1. worker' \in [Workers -> WorkerType]
      BY <2>1, <1>t, InputTypes DEF Register, WorkerType
    <3> QED BY <2>1, <3>1, <1>t, <1>k DEF Register
  <2>2. ASSUME NEW accepting \in Accepting, Heartbeat(w, accepting) PROVE TypeOK'
    <3>1. accepting \in BOOLEAN
      BY InputTypes
    <3>2. worker' \in [Workers -> WorkerType]
      BY <2>2, <3>1, <1>t DEF Heartbeat, WorkerType
    <3> QED BY <2>2, <3>2, <1>t, <1>k DEF Heartbeat
  <2>3. ASSUME NEW q \in Queues, ClaimAgain(w, q) \/ ClaimNothing(w, q) PROVE TypeOK'
    BY <2>3, <1>t, <1>k DEF ClaimAgain, ClaimNothing
  <2>4. ASSUME NEW q \in Queues, NEW r \in Runs, ClaimRun(w, q, r) PROVE TypeOK'
    <3>1. run' \in [Runs -> RunType]
      BY <2>4, <1>t DEF ClaimRun, RunType
    <3>2. [holder |-> w, active |-> TRUE, left |-> TTL(r)] \in LeaseType
      BY TTLType DEF LeaseType
    <3>3. lease' \in [Runs -> LeaseType]
      BY <2>4, <1>t, <3>2 DEF ClaimRun
    <3> QED BY <2>4, <3>1, <3>3, <1>t, <1>k DEF ClaimRun
  <2>5. ASSUME NEW r \in Runs, NEW status \in Reportable, NEW pausing \in Pauses,
               Report(w, r, status, pausing)
        PROVE TypeOK'
    <3>0. pausing \in BOOLEAN /\ status \in Statuses
      BY InputTypes DEF Reportable, Statuses
    <3>1. [run[r] EXCEPT !.status = status, !.paused = @ \/ pausing] \in RunType
      BY <3>0, <1>t DEF RunType
    <3>2. run' \in [Runs -> RunType]
      BY <2>5, <1>t, <3>1 DEF Report
    <3>3. LeaseAfterReport(r, status, pausing) \in LeaseType
      BY <1>t, TTLType DEF LeaseAfterReport, Released, LeaseType
    <3>4. lease' \in [Runs -> LeaseType]
      BY <2>5, <1>t, <3>3 DEF Report
    <3> QED BY <2>5, <3>2, <3>4, <1>t, <1>k DEF Report
  <2>6. ASSUME NEW r \in Runs, ReportRefused(w, r) PROVE TypeOK'
    BY <2>6, <1>t, <1>k DEF ReportRefused
  <2> QED BY <1>1, <2>1, <2>2, <2>3, <2>4, <2>5, <2>6 DEF WorkerCall
<1>2. ASSUME NEW r \in Runs, OperatorCall(r) PROVE TypeOK'
  <2>0. Released(r) \in LeaseType
    BY <1>t DEF Released, LeaseType
  <2>1. CASE Enqueue(r)
    <3>1. [NoRun EXCEPT !.status = "queued", !.sticky = StickyWait[r], !.born = arrivals]
            \in RunType
      BY InputTypes, <1>t DEF NoRun, RunType, Statuses
    <3>2. run' \in [Runs -> RunType]
      BY <2>1, <1>t, <3>1 DEF Enqueue
    <3> QED BY <2>1, <3>2, <1>t, <1>k DEF Enqueue
  <2>2. ASSUME NEW wait \in {1, Backoff}, NEW counted \in BOOLEAN,
               RequeueRun(r, wait, counted)
        PROVE TypeOK'
    <3>1. Requeued(r, wait, counted) \in RunType
      BY InputTypes, RequeuedType, <1>t
    <3>2. run' = [run EXCEPT ![r] = Requeued(r, wait, counted)]
          /\ lease' = [lease EXCEPT ![r] = Released(r)]
      BY <2>2 DEF RequeueRun
    <3>3. run' \in [Runs -> RunType]
      BY <3>1, <3>2, <1>t
    <3>4. lease' \in [Runs -> LeaseType]
      BY <2>0, <3>2, <1>t
    <3> QED BY <2>2, <3>3, <3>4, <1>t, <1>k DEF RequeueRun
  <2>3. CASE ForceFailRun(r)
    <3>1. run' \in [Runs -> RunType]
      BY <2>3, <1>t DEF ForceFailRun, RunType, Statuses
    <3>2. lease' \in [Runs -> LeaseType]
      BY <2>3, <2>0, <1>t DEF ForceFailRun
    <3> QED BY <2>3, <3>1, <3>2, <1>t, <1>k DEF ForceFailRun
  <2>4. CASE CancelRun(r)
    <3>1. /\ [run[r] EXCEPT !.status = "cancelled", !.cancel = TRUE] \in RunType
          /\ [run[r] EXCEPT !.cancel = TRUE] \in RunType
      BY <1>t DEF RunType, Statuses
    <3>2. run' \in [Runs -> RunType]
      BY <2>4, <1>t, <3>1 DEF CancelRun
    <3>3. lease' \in [Runs -> LeaseType]
      BY <2>4, <2>0, <1>t DEF CancelRun
    <3> QED BY <2>4, <3>2, <3>3, <1>t, <1>k DEF CancelRun
  <2> QED BY <1>2, <2>1, <2>2, <2>3, <2>4 DEF OperatorCall
<1>3. ASSUME NEW a \in Agents, NEW status \in AgentStatuses, SetAgentStatus(a, status)
      PROVE TypeOK'
  BY <1>3, <1>t, <1>k DEF SetAgentStatus
<1>4. CASE RecoverStaleRuns
  <2>1. \A r \in Runs : Recovered(r) \in RunType
    <3>1. \A r \in Runs : Requeued(r, Backoff, TRUE) \in RunType
      BY InputTypes, RequeuedType, <1>t
    <3>2. \A r \in Runs : [run[r] EXCEPT !.status = "failed"] \in RunType
      BY <1>t DEF RunType, Statuses
    <3> QED BY <3>1, <3>2 DEF Recovered
  <2>2. \A r \in Runs : Released(r) \in LeaseType
    BY <1>t DEF Released, LeaseType
  <2>3. run' \in [Runs -> RunType] /\ lease' \in [Runs -> LeaseType]
    BY <1>4, <1>t, <2>1, <2>2 DEF RecoverStaleRuns
  <2> QED BY <1>4, <2>3, <1>t, <1>k DEF RecoverStaleRuns
<1>5. CASE Tick
  <2>1. run' \in [Runs -> RunType]
    <3>1. \A r \in Runs : [run[r] EXCEPT !.wait = Sooner(@), !.sticky = Sooner(@)] \in RunType
      <4> TAKE r \in Runs
      <4>1. /\ Sooner(run[r].wait) \in Nat
            /\ Sooner(run[r].sticky) \in Nat \union {Forever}
        BY <1>t, SoonerType DEF RunType
      <4> QED BY <1>t, <4>1 DEF RunType
    <3> QED BY <1>5, <3>1 DEF Tick
  <2>2. lease' \in [Runs -> LeaseType]
    BY <1>5, <1>t, SoonerType DEF Tick, LeaseType
  <2>3. worker' \in [Workers -> WorkerType]
    <3>1. \A w \in Workers :
            (IF worker[w].age > StaleAfter THEN worker[w].age ELSE worker[w].age + 1) \in Nat
      BY <1>t DEF WorkerType
    <3>2. \A w \in Workers :
            [worker[w] EXCEPT !.age = IF @ > StaleAfter THEN @ ELSE @ + 1] \in WorkerType
      BY <1>t, <3>1 DEF WorkerType
    <3> QED BY <1>5, <3>2 DEF Tick
  <2> QED BY <1>5, <2>1, <2>2, <2>3, <1>t, <1>k DEF Tick
<1>6. CASE UNCHANGED vars
  BY <1>6, <1>t, <1>k DEF vars
<1> QED BY <1>1, <1>2, <1>3, <1>4, <1>5, <1>6 DEF Next

\* Type correctness: the records a sequence of calls leaves are well formed.
THEOREM TypeCorrect == Spec => []TypeOK
<1>1. Init => TypeOK
  BY ConstantsAssumption DEF Init, TypeOK, NoRun, NoLease, Unknown, RunType,
     LeaseType, WorkerType, Statuses, WorkerModes, AgentStatuses, Forever
<1> QED BY <1>1, TypeStep, PTL DEF Spec

-----------------------------------------------------------------------------
(* The invariant relates the two tables: LeaseMatchesRun is not inductive  *)
(* without types, and RunningIsAssigned not without LeaseMatchesRun.       *)

\* What a sweep and a release do to one record.
LEMMA SweptFacts ==
  ASSUME lease \in [Runs -> LeaseType], NEW r \in Runs
  PROVE  /\ Swept[r].holder = lease[r].holder /\ Swept[r].left = lease[r].left
         /\ Swept[r].active <=> Live(r)
         /\ Released(r).holder = lease[r].holder /\ ~Released(r).active
         /\ Released(r).left = lease[r].left
  BY DEF Swept, Released, Live, LeaseType

\* A running run is always assigned to someone.
RunningIsAssigned ==
    \A r \in Runs : run[r].status = "running" => run[r].worker \in Workers

TablesAgree == LeaseMatchesRun /\ RunningIsAssigned

\* Every call keeps the lease table in agreement with the queue table.
LEMMA TablesStep == TypeOK /\ TablesAgree /\ [Next]_vars => TablesAgree'
<1> SUFFICES ASSUME TypeOK, TablesAgree, [Next]_vars PROVE TablesAgree'
  OBVIOUS
<1>t. run \in [Runs -> RunType] /\ lease \in [Runs -> LeaseType]
  BY DEF TypeOK
<1>a. ASSUME NEW r \in Runs, lease[r].active
      PROVE  /\ run[r].status \in {"queued", "running"}
             /\ lease[r].holder = run[r].worker /\ lease[r].holder \in Workers
  BY <1>a DEF TablesAgree, LeaseMatchesRun
<1>b. ASSUME NEW r \in Runs, run[r].status = "running" PROVE run[r].worker \in Workers
  BY <1>b DEF TablesAgree, RunningIsAssigned
<1>g. SUFFICES ASSUME NEW r \in Runs
               PROVE /\ lease'[r].active =>
                          /\ run'[r].status \in {"queued", "running"}
                          /\ lease'[r].holder = run'[r].worker
                          /\ lease'[r].holder \in Workers
                     /\ run'[r].status = "running" => run'[r].worker \in Workers
  BY DEF TablesAgree, LeaseMatchesRun, RunningIsAssigned
<1> DEFINE Good == /\ lease'[r].active =>
                        /\ run'[r].status \in {"queued", "running"}
                        /\ lease'[r].holder = run'[r].worker
                        /\ lease'[r].holder \in Workers
                   /\ run'[r].status = "running" => run'[r].worker \in Workers
<1>s. ASSUME lease'[r] \in {lease[r], Swept[r]}, run'[r].status = run[r].status,
             run'[r].worker = run[r].worker
      PROVE Good
  BY <1>s, <1>a, <1>b, <1>t, SweptFacts DEF Live
<1>1. ASSUME NEW w \in Workers, WorkerCall(w) PROVE Good
  <2>2. ASSUME NEW mode \in Modes, Register(w, mode) PROVE Good
    BY <2>2, <1>s DEF Register
  <2>3. ASSUME NEW accepting \in Accepting, Heartbeat(w, accepting) PROVE Good
    BY <2>3, <1>s DEF Heartbeat
  <2>4. ASSUME NEW q \in Queues, ClaimAgain(w, q) \/ ClaimNothing(w, q) PROVE Good
    BY <2>4, <1>s DEF ClaimAgain, ClaimNothing
  <2>5. ASSUME NEW q \in Queues, NEW c \in Runs, ClaimRun(w, q, c) PROVE Good
    <3>1. CASE r = c
      <4>1. run[r].status = "queued"
        BY <2>5, <3>1 DEF ClaimRun, Offered, Ready
      <4>2. run'[r] = [run[r] EXCEPT !.worker = w]
        BY <2>5, <3>1, <1>t DEF ClaimRun
      <4>3. lease'[r] = [holder |-> w, active |-> TRUE, left |-> TTL(r)]
        BY <2>5, <3>1, <1>t DEF ClaimRun, Swept
      <4> QED BY <4>1, <4>2, <4>3, <1>t DEF RunType
    <3>2. CASE r # c
      BY <2>5, <3>2, <1>s, <1>t DEF ClaimRun, Swept
    <3> QED BY <3>1, <3>2
  <2>6. ASSUME NEW c \in Runs, NEW status \in Reportable, NEW pausing \in Pauses,
               Report(w, c, status, pausing)
        PROVE Good
    <3>1. CASE r = c
      <4>1. lease'[r] = LeaseAfterReport(r, status, pausing)
        BY <2>6, <3>1, <1>t DEF Report, Swept
      <4>2. run'[r].status = status /\ run'[r].worker = run[r].worker
        BY <2>6, <3>1, <1>t DEF Report, RunType
      <4>3. run[r].worker \in Workers
        <5>1. CASE Live(r)
          BY <5>1, <1>a DEF Live
        <5>2. CASE ~Live(r)
          BY <5>2, <2>6, <3>1 DEF Report, MayReport
        <5> QED BY <5>1, <5>2
      <4>4. CASE Live(r) /\ status = "running" /\ ~pausing
        <5>1. lease'[r].holder = lease[r].holder
          BY <4>1, <4>4, <1>t DEF LeaseAfterReport, LeaseType
        <5> QED BY <5>1, <4>2, <4>3, <4>4, <1>a DEF Live
      <4>5. CASE ~(Live(r) /\ status = "running" /\ ~pausing)
        <5>1. ~lease'[r].active
          BY <4>1, <4>5, <1>t, SweptFacts DEF LeaseAfterReport
        <5> QED BY <5>1, <4>2, <4>3
      <4> QED BY <4>4, <4>5
    <3>2. CASE r # c
      BY <2>6, <3>2, <1>s, <1>t DEF Report, Swept
    <3> QED BY <3>1, <3>2
  <2>7. ASSUME NEW c \in Runs, ReportRefused(w, c) PROVE Good
    BY <2>7, <1>s DEF ReportRefused
  <2> QED BY <1>1, <2>2, <2>3, <2>4, <2>5, <2>6, <2>7 DEF WorkerCall
<1>2. ASSUME NEW c \in Runs, OperatorCall(c) PROVE Good
  <2>0. ASSUME lease'[r] = Released(r),
               run'[r].status = "running" => run'[r].worker \in Workers
        PROVE Good
    BY <2>0, <1>t, SweptFacts
  <2>1. CASE Enqueue(c)
    <3>1. CASE r = c
      <4>1. run[r].status = "absent" /\ lease' = lease
        BY <2>1, <3>1 DEF Enqueue
      <4>2. run'[r].status = "queued"
        BY <2>1, <3>1, <1>t DEF Enqueue, NoRun
      <4> QED BY <4>1, <4>2, <1>a
    <3>2. CASE r # c
      BY <2>1, <3>2, <1>s, <1>t DEF Enqueue
    <3> QED BY <3>1, <3>2
  <2>2. ASSUME NEW wait \in {1, Backoff}, NEW counted \in BOOLEAN,
               RequeueRun(c, wait, counted)
        PROVE Good
    <3>1. CASE r = c
      <4>1. run'[r].status = "queued"
        BY <2>2, <3>1, <1>t DEF RequeueRun, Requeued, RunType
      <4>2. lease'[r] = Released(r)
        BY <2>2, <3>1, <1>t DEF RequeueRun
      <4> QED BY <4>1, <4>2, <2>0
    <3>2. CASE r # c
      BY <2>2, <3>2, <1>s, <1>t DEF RequeueRun
    <3> QED BY <3>1, <3>2
  <2>3. CASE ForceFailRun(c)
    <3>1. CASE r = c
      <4>1. run'[r].status = "failed"
        BY <2>3, <3>1, <1>t DEF ForceFailRun, RunType
      <4>2. lease'[r] = Released(r)
        BY <2>3, <3>1, <1>t DEF ForceFailRun
      <4> QED BY <4>1, <4>2, <2>0
    <3>2. CASE r # c
      BY <2>3, <3>2, <1>s, <1>t DEF ForceFailRun
    <3> QED BY <3>1, <3>2
  <2>4. CASE CancelRun(c)
    <3>1. CASE r = c /\ run[c].status = "queued"
      <4>1. run'[r].status = "cancelled" /\ lease'[r] = Released(r)
        BY <2>4, <3>1, <1>t DEF CancelRun, RunType
      <4> QED BY <4>1, <2>0
    <3>2. CASE r = c /\ run[c].status = "running"
      <4>1. /\ lease' = lease /\ run'[r].status = run[r].status
            /\ run'[r].worker = run[r].worker
        BY <2>4, <3>2, <1>t DEF CancelRun, RunType
      <4> QED BY <4>1, <1>s
    <3>3. CASE r # c
      BY <2>4, <3>3, <1>s, <1>t DEF CancelRun
    <3> QED BY <2>4, <3>1, <3>2, <3>3 DEF CancelRun
  <2> QED BY <1>2, <2>1, <2>2, <2>3, <2>4 DEF OperatorCall
<1>3. ASSUME NEW a \in Agents, NEW status \in AgentStatuses, SetAgentStatus(a, status)
      PROVE Good
  BY <1>3, <1>s DEF SetAgentStatus
<1>4. CASE RecoverStaleRuns
  <2>1. CASE r \in Abandoned
    <3>1. run'[r].status \in {"failed", "queued"}
      BY <1>4, <2>1, <1>t DEF RecoverStaleRuns, Recovered, Requeued, RunType
    <3>2. lease'[r] = Released(r)
      BY <1>4, <2>1 DEF RecoverStaleRuns
    <3> QED BY <3>1, <3>2, <1>t, SweptFacts
  <2>2. CASE r \notin Abandoned
    BY <1>4, <2>2, <1>s DEF RecoverStaleRuns
  <2> QED BY <2>1, <2>2
<1>5. CASE Tick
  <2>1. run'[r].status = run[r].status /\ run'[r].worker = run[r].worker
    BY <1>5, <1>t DEF Tick, RunType
  <2>2. lease'[r].active = lease[r].active /\ lease'[r].holder = lease[r].holder
    BY <1>5, <1>t DEF Tick, LeaseType
  <2> QED BY <2>1, <2>2, <1>a, <1>b
<1>6. CASE UNCHANGED vars
  BY <1>6, <1>s DEF vars
<1> QED BY <1>1, <1>2, <1>3, <1>4, <1>5, <1>6 DEF Next

\* The lease table and the queue table agree in every reachable state: an
\* active lease is held by the assigned worker of a run that is not over.
THEOREM LeasesMatchRuns == Spec => [](LeaseMatchesRun /\ RunningIsAssigned)
<1>1. Init => TablesAgree
  BY DEF Init, TablesAgree, LeaseMatchesRun, RunningIsAssigned, NoRun, NoLease
<1>2. TypeOK /\ TablesAgree /\ [Next]_vars => TablesAgree'
  BY TablesStep
<1>3. Spec => []TablesAgree
  BY <1>1, <1>2, TypeCorrect, PTL DEF Spec
<1> QED BY <1>3 DEF TablesAgree

-----------------------------------------------------------------------------
(* Who can come to hold a live lease, and what follows from it.            *)

\* A lease that is live after a step was live before it, in the same hands,
\* or has just been claimed.
LEMMA LiveSource ==
  ASSUME TypeOK, [Next]_vars, NEW r \in Runs, lease'[r].active, lease'[r].left > 0
  PROVE  \/ Live(r) /\ lease'[r].holder = lease[r].holder
         \/ \E w \in Workers, q \in Queues : ClaimRun(w, q, r)
<1> DEFINE Kept == Live(r) /\ lease'[r].holder = lease[r].holder
<1>t. lease \in [Runs -> LeaseType] /\ run \in [Runs -> RunType]
  BY DEF TypeOK
<1>s. ASSUME lease'[r] \in {lease[r], Swept[r]} PROVE Kept
  BY <1>s, <1>t, SweptFacts DEF Live
<1>1. ASSUME NEW w \in Workers, WorkerCall(w), \A q \in Queues : ~ClaimRun(w, q, r)
      PROVE Kept
  <2>1. ASSUME NEW mode \in Modes, Register(w, mode) PROVE Kept
    BY <2>1, <1>s DEF Register
  <2>2. ASSUME NEW accepting \in Accepting, Heartbeat(w, accepting) PROVE Kept
    BY <2>2, <1>s DEF Heartbeat
  <2>3. ASSUME NEW q \in Queues, ClaimAgain(w, q) \/ ClaimNothing(w, q) PROVE Kept
    BY <2>3, <1>s DEF ClaimAgain, ClaimNothing
  <2>4. ASSUME NEW q \in Queues, NEW c \in Runs, ClaimRun(w, q, c) PROVE Kept
    <3>1. r # c
      BY <1>1, <2>4
    <3> QED BY <2>4, <3>1, <1>s, <1>t DEF ClaimRun, Swept
  <2>5. ASSUME NEW c \in Runs, NEW status \in Reportable, NEW pausing \in Pauses,
               Report(w, c, status, pausing)
        PROVE Kept
    <3>1. CASE r = c
      <4>1. lease'[r] = LeaseAfterReport(r, status, pausing)
        BY <2>5, <3>1, <1>t DEF Report, Swept
      <4>2. CASE Live(r) /\ status = "running" /\ ~pausing
        BY <4>1, <4>2, <1>t DEF LeaseAfterReport, LeaseType
      <4>3. CASE ~(Live(r) /\ status = "running" /\ ~pausing)
        BY <4>1, <4>3, <1>t, SweptFacts DEF LeaseAfterReport
      <4> QED BY <4>2, <4>3
    <3>2. CASE r # c
      BY <2>5, <3>2, <1>s, <1>t DEF Report, Swept
    <3> QED BY <3>1, <3>2
  <2>6. ASSUME NEW c \in Runs, ReportRefused(w, c) PROVE Kept
    BY <2>6, <1>s DEF ReportRefused
  <2> QED BY <1>1, <2>1, <2>2, <2>3, <2>4, <2>5, <2>6 DEF WorkerCall
<1>2. ASSUME NEW c \in Runs, OperatorCall(c) PROVE Kept
  <2>1. lease'[r] # Released(r)
    BY <1>t, SweptFacts
  <2>2. CASE Enqueue(c)
    BY <2>2, <1>s DEF Enqueue
  <2>3. ASSUME NEW wait \in {1, Backoff}, NEW counted \in BOOLEAN,
               RequeueRun(c, wait, counted)
        PROVE Kept
    BY <2>3, <2>1, <1>s, <1>t DEF RequeueRun
  <2>4. CASE ForceFailRun(c)
    BY <2>4, <2>1, <1>s, <1>t DEF ForceFailRun
  <2>5. CASE CancelRun(c)
    BY <2>5, <2>1, <1>s, <1>t DEF CancelRun
  <2> QED BY <1>2, <2>2, <2>3, <2>4, <2>5 DEF OperatorCall
<1>3. ASSUME NEW a \in Agents, NEW status \in AgentStatuses, SetAgentStatus(a, status)
      PROVE Kept
  BY <1>3, <1>s DEF SetAgentStatus
<1>4. CASE RecoverStaleRuns
  BY <1>4, <1>s, <1>t, SweptFacts DEF RecoverStaleRuns
<1>5. CASE Tick
  <2>1. /\ lease'[r].active = lease[r].active /\ lease'[r].holder = lease[r].holder
        /\ lease'[r].left = Sooner(lease[r].left)
    BY <1>5, <1>t DEF Tick, LeaseType
  <2>2. lease[r].left > 0
    BY <2>1, <1>t DEF Sooner, LeaseType
  <2> QED BY <2>1, <2>2 DEF Live
<1>6. CASE UNCHANGED vars
  BY <1>6, <1>s DEF vars
<1> QED BY <1>1, <1>2, <1>3, <1>4, <1>5, <1>6 DEF Next

\* What a claim found before it wrote.
LEMMA ClaimFacts ==
  ASSUME lease \in [Runs -> LeaseType], run \in [Runs -> RunType],
         NEW w \in Workers, NEW q \in Queues, NEW r \in Runs, ClaimRun(w, q, r)
  PROVE  /\ QueueOf[r] = q /\ run[r].status = "queued" /\ ~Live(r)
         /\ lease'[r] = [holder |-> w, active |-> TRUE, left |-> TTL(r)]
         /\ \A s \in Runs : s # r => lease'[s] = Swept[s]
         /\ \A s \in Runs : Live(s) /\ QueueOf[s] = q => lease[s].holder # w
  BY DEF ClaimRun, Offered, Ready, HeldBy, Swept

LEMMA OneLeaseStep == TypeOK /\ OneLeasePerWorker /\ [Next]_vars => OneLeasePerWorker'
<1> SUFFICES ASSUME TypeOK, OneLeasePerWorker, [Next]_vars,
                    NEW r \in Runs, NEW s \in Runs,
                    lease'[r].active, lease'[r].left > 0,
                    lease'[s].active, lease'[s].left > 0,
                    lease'[r].holder = lease'[s].holder, QueueOf[r] = QueueOf[s],
                    r # s
             PROVE  FALSE
  BY DEF OneLeasePerWorker, Live
<1>t. lease \in [Runs -> LeaseType] /\ run \in [Runs -> RunType]
  BY DEF TypeOK
\* If one of two runs has just been claimed, the other was held already.
<1>1. ASSUME NEW c \in {r, s}, NEW w \in Workers, NEW q \in Queues, ClaimRun(w, q, c)
      PROVE FALSE
  <2> PICK d \in {r, s} : d # c
    OBVIOUS
  <2>1. /\ QueueOf[c] = q
        /\ lease'[c] = [holder |-> w, active |-> TRUE, left |-> TTL(c)]
        /\ \A x \in Runs : x # c => lease'[x] = Swept[x]
        /\ \A x \in Runs : Live(x) /\ QueueOf[x] = q => lease[x].holder # w
    <3>1. c \in Runs
      OBVIOUS
    <3> QED BY <3>1, <1>1, <1>t, ClaimFacts
  <2>2. lease'[d] = Swept[d] /\ lease'[c].holder = w /\ QueueOf[d] = q
    BY <2>1
  <2>3. Live(d) /\ Swept[d].holder = lease[d].holder
    BY <2>2, <1>t, SweptFacts
  <2>4. lease'[d].holder = w
    BY <2>2
  <2> QED BY <2>1, <2>2, <2>3, <2>4
<1>2. CASE /\ Live(r) /\ lease'[r].holder = lease[r].holder
           /\ Live(s) /\ lease'[s].holder = lease[s].holder
  BY <1>2 DEF OneLeasePerWorker
<1> QED BY <1>1, <1>2, LiveSource

\* No worker ever holds two live leases in one queue.
THEOREM OneLeasePerWorkerHolds == Spec => []OneLeasePerWorker
<1>1. Init => OneLeasePerWorker
  BY DEF Init, OneLeasePerWorker, Live, NoLease
<1> QED BY <1>1, OneLeaseStep, TypeCorrect, PTL DEF Spec

\* A running run whose lease has lapsed neither gets a lease back nor an
\* outcome by a late report.
THEOREM LapsedRunsWait == Spec => LapsedRunCannotFinish
<1> DEFINE Waits(r) == run[r].status = "running" /\ ~Live(r) =>
                         /\ run'[r].status \in {"running", "queued", "failed"}
                         /\ ~Live(r)'
<1>1. ASSUME TypeOK, [Next]_vars, NEW r \in Runs PROVE Waits(r)
  <2> SUFFICES ASSUME run[r].status = "running", ~Live(r)
               PROVE  run'[r].status \in {"running", "queued", "failed"} /\ ~Live(r)'
    OBVIOUS
  <2>t. run \in [Runs -> RunType] /\ lease \in [Runs -> LeaseType]
    BY <1>1 DEF TypeOK
  <2>1. ~Live(r)'
    <3>1. ASSUME NEW w \in Workers, NEW q \in Queues, ClaimRun(w, q, r) PROVE FALSE
      BY <3>1, <2>t, ClaimFacts
    <3> QED BY <1>1, <3>1, LiveSource DEF Live
  <2> DEFINE Fine == run'[r].status \in {"running", "queued", "failed"}
  <2>2. ASSUME run'[r].status = run[r].status PROVE Fine
    BY <2>2
  <2>3. ASSUME NEW w \in Workers, WorkerCall(w) PROVE Fine
    <3>1. ASSUME NEW q \in Queues, NEW c \in Runs, ClaimRun(w, q, c) PROVE Fine
      BY <3>1, <2>t, <2>2 DEF ClaimRun, RunType
    <3>2. ASSUME NEW c \in Runs, NEW status \in Reportable, NEW pausing \in Pauses,
                 Report(w, c, status, pausing)
          PROVE Fine
      BY <3>2, <2>t, <2>2 DEF Report, MayReport, RunType
    <3> QED BY <2>3, <3>1, <3>2, <2>2 DEF WorkerCall, Register, Heartbeat,
               ClaimAgain, ClaimNothing, ReportRefused
  <2>4. ASSUME NEW c \in Runs, OperatorCall(c) PROVE Fine
    <3>1. CASE Enqueue(c)
      BY <3>1, <2>t, <2>2 DEF Enqueue
    <3>2. ASSUME NEW wait \in {1, Backoff}, NEW counted \in BOOLEAN,
                 RequeueRun(c, wait, counted)
          PROVE Fine
      BY <3>2, <2>t, <2>2 DEF RequeueRun, Requeued, RunType
    <3>3. CASE ForceFailRun(c)
      BY <3>3, <2>t, <2>2 DEF ForceFailRun, RunType
    <3>4. CASE CancelRun(c)
      BY <3>4, <2>t, <2>2 DEF CancelRun, RunType
    <3> QED BY <2>4, <3>1, <3>2, <3>3, <3>4 DEF OperatorCall
  <2>5. ASSUME RecoverStaleRuns PROVE Fine
    <3>1. Recovered(r).status \in {"failed", "queued"}
      <4>1. [run[r] EXCEPT !.status = "failed"].status = "failed"
        BY <2>t DEF RunType
      <4>2. Requeued(r, Backoff, TRUE).status = "queued"
        BY <2>t DEF Requeued, RunType
      <4> QED BY <4>1, <4>2 DEF Recovered
    <3>2. run'[r] \in {Recovered(r), run[r]}
      BY <2>5 DEF RecoverStaleRuns
    <3> QED BY <3>1, <3>2, <2>2
  <2>6. ASSUME Tick PROVE Fine
    <3>1. run'[r].status = run[r].status
      BY <2>6, <2>t DEF Tick, RunType
    <3> QED BY <3>1, <2>2
  <2>7. ASSUME NEW a \in Agents, NEW status \in AgentStatuses, SetAgentStatus(a, status)
        PROVE  Fine
    BY <2>7, <2>2 DEF SetAgentStatus
  <2>8. ASSUME UNCHANGED vars PROVE Fine
    BY <2>8, <2>2 DEF vars
  <2>9. Fine
    BY <1>1, <2>3, <2>4, <2>5, <2>6, <2>7, <2>8 DEF Next
  <2> QED BY <2>1, <2>9
<1>2. TypeOK /\ [Next]_vars => [\A r \in Runs : Waits(r)]_vars
  BY <1>1
<1> QED BY <1>2, TypeCorrect, PTL DEF Spec, LapsedRunCannotFinish

\* Reports are accepted from the assigned worker only: where the code looks
\* at the lease alone, the invariant says who holds it.
THEOREM ReportersAreAssigned == Spec => ReporterIsAssigned
<1> DEFINE Asked == \A w \in Workers, r \in Runs, status \in Reportable,
                       pausing \in Pauses :
                      Report(w, r, status, pausing) => run[r].worker = w
<1>1. LeaseMatchesRun => [Asked]_vars
  BY DEF LeaseMatchesRun, Report, MayReport, Live
<1> QED BY <1>1, LeasesMatchRuns, PTL DEF ReporterIsAssigned

-----------------------------------------------------------------------------
(* The scheduler implements the contract.                                  *)

\* A step that moves neither statuses between phases nor leases is invisible.
LEMMA InvisibleStep ==
  ASSUME \A r \in Runs : Phase(r)' = Phase(r) /\ LiveHolder(r)' = LiveHolder(r)
  PROVE  UNCHANGED Contract!vars
  BY DEF Contract!vars

LEMMA SweptOwners ==
  ASSUME lease \in [Runs -> LeaseType], NEW r \in Runs,
         lease'[r] \in {lease[r], Swept[r]}
  PROVE  LiveHolder(r)' = LiveHolder(r)
  BY SweptFacts DEF LiveHolder, Live

\* Steps that only take owners away, or settle a set of runs.
LEMMA LoseStep ==
  ASSUME NEW S \in SUBSET Runs,
         \A r \in Runs : Phase(r)' = Phase(r),
         \A r \in S : LiveHolder(r)' = NoWorker,
         \A r \in Runs \ S : LiveHolder(r)' = LiveHolder(r)
  PROVE  Contract!Next
<1>1. Contract!Lose(S)
  BY DEF Contract!Lose
<1> QED BY <1>1 DEF Contract!Next

LEMMA SettleStep ==
  ASSUME NEW S \in SUBSET Runs, NEW outcome \in {"closed", "failed"},
         \A r \in S : Phase(r) = "open" /\ Phase(r)' = outcome /\ LiveHolder(r)' = NoWorker,
         \A r \in Runs \ S : Phase(r)' = Phase(r) /\ LiveHolder(r)' = LiveHolder(r)
  PROVE  Contract!Next
<1>1. Contract!Settle(S, outcome)
  BY DEF Contract!Settle
<1> QED BY <1>1 DEF Contract!Next

LEMMA ContractInit == Init => Contract!Init
  BY DEF Init, Contract!Init, Phase, LiveHolder, Live, NoRun, NoLease

\* Every step of the scheduler is a step of the contract or invisible to it.
LEMMA ContractStep ==
  TypeOK /\ LeaseMatchesRun /\ [Next]_vars => [Contract!Next]_(Contract!vars)
<1> DEFINE Done == Contract!Next \/ UNCHANGED Contract!vars
<1> SUFFICES ASSUME TypeOK, LeaseMatchesRun, [Next]_vars PROVE Done
  OBVIOUS
<1>t. run \in [Runs -> RunType] /\ lease \in [Runs -> LeaseType]
  BY DEF TypeOK
<1>h. \A r \in Runs : lease'[r] \in {lease[r], Swept[r]} => LiveHolder(r)' = LiveHolder(r)
  BY <1>t, SweptOwners
<1>r. \A r \in Runs : lease'[r] = Released(r) => LiveHolder(r)' = NoWorker
  BY <1>t, SweptFacts DEF LiveHolder, Live
<1>s. ASSUME run' = run, lease' = lease \/ lease' = Swept PROVE Done
  <2>1. \A r \in Runs : Phase(r)' = Phase(r) /\ LiveHolder(r)' = LiveHolder(r)
    BY <1>s, <1>h DEF Phase
  <2> QED BY <2>1, InvisibleStep
<1>1. ASSUME NEW w \in Workers, WorkerCall(w) PROVE Done
  <2>1. ASSUME NEW q \in Queues, NEW c \in Runs, ClaimRun(w, q, c) PROVE Done
    <3>0. /\ QueueOf[c] = q /\ run[c].status = "queued" /\ ~Live(c)
          /\ lease'[c] = [holder |-> w, active |-> TRUE, left |-> TTL(c)]
          /\ \A s \in Runs : s # c => lease'[s] = Swept[s]
          /\ \A s \in Runs : Live(s) /\ QueueOf[s] = q => lease[s].holder # w
      BY <2>1, <1>t, ClaimFacts
    <3>1. LiveHolder(c)' = w /\ LiveHolder(c) = NoWorker
      BY <3>0, TTLType DEF LiveHolder, Live
    <3>2. \A s \in Runs : s # c => LiveHolder(s)' = LiveHolder(s)
      BY <3>0, <1>h
    <3>3. \A s \in Runs : Phase(s)' = Phase(s)
      BY <2>1, <1>t DEF ClaimRun, Phase, RunType
    <3>4. Phase(c) = "open"
      BY <3>0 DEF Phase
    <3>5. \A s \in Runs : QueueOf[s] = QueueOf[c] => LiveHolder(s) # w
      BY <3>0, ConstantsAssumption DEF LiveHolder
    <3>6. Contract!Take(c, w)
      BY <3>1, <3>2, <3>3, <3>4, <3>5 DEF Contract!Take
    <3> QED BY <3>6 DEF Contract!Next
  <2>2. ASSUME NEW c \in Runs, NEW status \in Reportable, NEW pausing \in Pauses,
               Report(w, c, status, pausing)
        PROVE Done
    <3>0. /\ Phase(c) = "open"
          /\ run'[c].status = status /\ lease'[c] = LeaseAfterReport(c, status, pausing)
          /\ \A s \in Runs : s # c => run'[s] = run[s] /\ lease'[s] = Swept[s]
      BY <2>2, <1>t DEF Report, MayReport, Phase, Swept, RunType
    <3>1. \A s \in Runs \ {c} : Phase(s)' = Phase(s) /\ LiveHolder(s)' = LiveHolder(s)
      BY <3>0, <1>h DEF Phase
    <3>2. CASE status = "running" /\ ~(Live(c) /\ pausing)
      <4>1. Phase(c)' = Phase(c)
        BY <3>0, <3>2 DEF Phase
      <4>2. LiveHolder(c)' = LiveHolder(c)
        <5>1. CASE Live(c)
          <6>1. lease'[c].active = lease[c].active /\ lease'[c].holder = lease[c].holder
            BY <3>0, <3>2, <5>1, <1>t DEF LeaseAfterReport, LeaseType
          <6>2. lease'[c].left > 0
            BY <3>0, <3>2, <5>1, <1>t, TTLType DEF LeaseAfterReport, LeaseType
          <6> QED BY <5>1, <6>1, <6>2 DEF LiveHolder, Live
        <5>2. CASE ~Live(c)
          BY <3>0, <5>2, <1>h DEF LeaseAfterReport
        <5> QED BY <5>1, <5>2
      <4> QED BY <3>1, <4>1, <4>2, InvisibleStep
    <3>3. CASE ~(status = "running" /\ ~(Live(c) /\ pausing))
      <4>1. LiveHolder(c)' = NoWorker
        <5>1. CASE Live(c)
          BY <3>0, <3>3, <5>1, <1>r DEF LeaseAfterReport
        <5>2. CASE ~Live(c)
          BY <3>0, <5>2, <1>h DEF LeaseAfterReport, LiveHolder
        <5> QED BY <5>1, <5>2
      <4>2. CASE status = "running"
        <5>1. Phase(c)' = Phase(c)
          BY <3>0, <4>2 DEF Phase
        <5> QED BY <3>1, <4>1, <5>1, LoseStep, {c} \in SUBSET Runs
      <4>3. CASE status = "failed"
        <5>1. Phase(c)' = "failed"
          BY <3>0, <4>3 DEF Phase
        <5> QED BY <3>0, <3>1, <4>1, <5>1, SettleStep, {c} \in SUBSET Runs
      <4>4. CASE status \in {"completed", "cancelled"}
        <5>1. Phase(c)' = "closed"
          BY <3>0, <4>4 DEF Phase
        <5> QED BY <3>0, <3>1, <4>1, <5>1, SettleStep, {c} \in SUBSET Runs
      <4> QED BY <4>2, <4>3, <4>4 DEF Reportable
    <3> QED BY <3>2, <3>3
  <2> QED BY <1>1, <2>1, <2>2, <1>s DEF WorkerCall, Register, Heartbeat,
             ClaimAgain, ClaimNothing, ReportRefused
<1>2. ASSUME NEW c \in Runs, OperatorCall(c) PROVE Done
  <2>r. ASSUME run' = [run EXCEPT ![c] = run'[c]],
               lease' = [lease EXCEPT ![c] = Released(c)]
        PROVE /\ \A s \in Runs \ {c} : Phase(s)' = Phase(s) /\ LiveHolder(s)' = LiveHolder(s)
              /\ LiveHolder(c)' = NoWorker
    BY <2>r, <1>t, <1>h, <1>r DEF Phase
  <2>1. CASE Enqueue(c)
    <3>1. /\ Phase(c) = "absent" /\ Phase(c)' = "open"
          /\ \A s \in Runs : s # c => Phase(s)' = Phase(s)
      BY <2>1, <1>t DEF Enqueue, Phase, NoRun
    <3>2. \A s \in Runs : LiveHolder(s)' = LiveHolder(s)
      BY <2>1, <1>h DEF Enqueue
    <3>3. Contract!Submit(c)
      BY <3>1, <3>2 DEF Contract!Submit
    <3> QED BY <3>3 DEF Contract!Next
  <2>2. ASSUME NEW wait \in {1, Backoff}, NEW counted \in BOOLEAN,
               RequeueRun(c, wait, counted)
        PROVE Done
    <3>1. /\ run' = [run EXCEPT ![c] = run'[c]]
          /\ lease' = [lease EXCEPT ![c] = Released(c)]
          /\ run'[c].status = "queued"
      BY <2>2, <1>t DEF RequeueRun, Requeued, RunType
    <3>2. Phase(c)' = "open"
      BY <3>1 DEF Phase
    <3>3. CASE run[c].status \in {"queued", "running"}
      <4>1. Phase(c) = "open"
        BY <3>3 DEF Phase
      <4> QED BY <2>r, <3>1, <3>2, <4>1, LoseStep, {c} \in SUBSET Runs
    <3>4. CASE run[c].status = "failed"
      <4>1. Phase(c) = "failed" /\ LiveHolder(c) = NoWorker
        BY <3>4 DEF Phase, LiveHolder, Live, LeaseMatchesRun
      <4>2. Contract!Reopen(c)
        BY <2>r, <3>1, <3>2, <4>1 DEF Contract!Reopen
      <4> QED BY <4>2 DEF Contract!Next
    <3> QED BY <2>2, <3>3, <3>4 DEF RequeueRun
  <2>3. CASE ForceFailRun(c)
    <3>1. /\ run' = [run EXCEPT ![c] = run'[c]]
          /\ lease' = [lease EXCEPT ![c] = Released(c)]
          /\ run'[c].status = "failed" /\ run[c].status \in {"queued", "running"}
      BY <2>3, <1>t DEF ForceFailRun, RunType
    <3>2. Phase(c) = "open" /\ Phase(c)' = "failed"
      BY <3>1 DEF Phase
    <3> QED BY <2>r, <3>1, <3>2, SettleStep, {c} \in SUBSET Runs
  <2>4. CASE CancelRun(c)
    <3>1. CASE run[c].status = "queued"
      <4>1. /\ run' = [run EXCEPT ![c] = run'[c]]
            /\ lease' = [lease EXCEPT ![c] = Released(c)]
            /\ run'[c].status = "cancelled"
        BY <2>4, <3>1, <1>t DEF CancelRun, RunType
      <4>2. Phase(c) = "open" /\ Phase(c)' = "closed"
        BY <3>1, <4>1 DEF Phase
      <4> QED BY <2>r, <4>1, <4>2, SettleStep, {c} \in SUBSET Runs
    <3>2. CASE run[c].status # "queued"
      <4>1. \A s \in Runs : run'[s].status = run[s].status /\ lease' = lease
        BY <2>4, <3>2, <1>t DEF CancelRun, RunType
      <4>2. \A s \in Runs : Phase(s)' = Phase(s) /\ LiveHolder(s)' = LiveHolder(s)
        BY <4>1, <1>h DEF Phase
      <4> QED BY <4>2, InvisibleStep
    <3> QED BY <3>1, <3>2
  <2> QED BY <1>2, <2>1, <2>2, <2>3, <2>4 DEF OperatorCall
<1>3. ASSUME NEW a \in Agents, NEW status \in AgentStatuses, SetAgentStatus(a, status)
      PROVE Done
  BY <1>3, <1>s DEF SetAgentStatus
<1>4. CASE RecoverStaleRuns
  <2> DEFINE S == {r \in Abandoned : run[r].retries >= MaxRetries[r]}
  <2>0. S \in SUBSET Runs
    BY DEF Abandoned
  <2>1. \A r \in Runs : LiveHolder(r)' = LiveHolder(r)
    BY <1>4, <1>h, <1>r DEF RecoverStaleRuns, Abandoned, LiveHolder
  <2>2. \A r \in S : Phase(r) = "open" /\ Phase(r)' = "failed" /\ LiveHolder(r)' = NoWorker
    <3> TAKE r \in S
    <3>1. run'[r].status = "failed"
      BY <1>4, <1>t, <2>0 DEF RecoverStaleRuns, Recovered, RunType
    <3>2. r \in Runs /\ run[r].status = "running" /\ ~Live(r)
      BY DEF Abandoned
    <3> QED BY <3>1, <3>2, <2>1 DEF Phase, LiveHolder
  <2>3. \A r \in Runs \ S : Phase(r)' = Phase(r)
    <3> TAKE r \in Runs \ S
    <3>1. CASE r \in Abandoned
      <4>1. run'[r].status = "queued"
        BY <1>4, <1>t, <3>1 DEF RecoverStaleRuns, Recovered, Requeued, RunType
      <4> QED BY <3>1, <4>1 DEF Phase, Abandoned
    <3>2. CASE r \notin Abandoned
      BY <1>4, <3>2 DEF RecoverStaleRuns, Phase
    <3> QED BY <3>1, <3>2
  <2> QED BY <2>0, <2>1, <2>2, <2>3, SettleStep
<1>5. CASE Tick
  <2> DEFINE S == {r \in Runs : LiveHolder(r)' = NoWorker}
  <2>1. \A r \in Runs : Phase(r)' = Phase(r)
    <3> TAKE r \in Runs
    <3>1. run'[r].status = run[r].status
      BY <1>5, <1>t DEF Tick, RunType
    <3> QED BY <3>1 DEF Phase
  <2>2. \A r \in Runs \ S : LiveHolder(r)' = LiveHolder(r)
    <3> TAKE r \in Runs \ S
    <3>1. /\ lease'[r].active = lease[r].active /\ lease'[r].holder = lease[r].holder
          /\ lease'[r].left = Sooner(lease[r].left)
      BY <1>5, <1>t DEF Tick, LeaseType
    <3>2. lease'[r].active /\ lease'[r].left > 0
      BY DEF LiveHolder, Live
    <3>3. lease[r].left > 0
      BY <3>1, <3>2, <1>t DEF Sooner, LeaseType
    <3> QED BY <3>1, <3>2, <3>3 DEF LiveHolder, Live
  <2> QED BY <2>1, <2>2, LoseStep, S \in SUBSET Runs
<1>6. CASE UNCHANGED vars
  BY <1>6, <1>s DEF vars
<1> QED BY <1>1, <1>2, <1>3, <1>4, <1>5, <1>6 DEF Next

\* The queue with its leases, clocks, recovery and retries implements the
\* ownership contract.
THEOREM SchedulerImplementsContract == Spec => ImplementsContract
<1>1. Spec => [](TypeOK /\ LeaseMatchesRun)
  BY TypeCorrect, LeasesMatchRuns, PTL
<1> QED BY <1>1, ContractInit, ContractStep, PTL DEF Spec, ImplementsContract, Contract!Spec

-----------------------------------------------------------------------------
(* The order of claims. *)

\* Runs were enqueued one after the other.
Queued == {r \in Runs : run[r].status # "absent"}
BornInOrder ==
    /\ \A r \in Queued : run[r].born < arrivals
    /\ \A r, s \in Queued : run[r].born = run[s].born => r = s

\* No call but enqueue changes when a run was enqueued, or whether it was.
SameOrigin ==
    /\ arrivals' = arrivals
    /\ \A r \in Runs : run'[r].born = run[r].born /\ (run'[r].status = "absent" <=> run[r].status = "absent")

LEMMA OriginsKept ==
  ASSUME TypeOK, [Next]_vars, \A r \in Runs : ~Enqueue(r)
  PROVE  SameOrigin
<1>t. run \in [Runs -> RunType]
  BY DEF TypeOK
<1>o. ASSUME UNCHANGED <<run, arrivals>> PROVE SameOrigin
  BY <1>o DEF SameOrigin
<1>c. \A r \in Runs : run[r] \in RunType
  BY <1>t
<1>1. ASSUME NEW w \in Workers, WorkerCall(w) PROVE SameOrigin
  <2>1. ASSUME NEW q \in Queues, NEW r \in Runs, ClaimRun(w, q, r) PROVE SameOrigin
    BY <2>1, <1>t DEF ClaimRun, SameOrigin, RunType
  <2>2. ASSUME NEW r \in Runs, NEW status \in Reportable, NEW pausing \in Pauses,
               Report(w, r, status, pausing)
        PROVE SameOrigin
    <3>1. status # "absent" /\ run[r].status # "absent"
      BY <2>2 DEF Reportable, Report, MayReport
    <3>2. run' = [run EXCEPT ![r].status = status, ![r].paused = @ \/ pausing] /\ arrivals' = arrivals
      BY <2>2 DEF Report
    <3>3. run'[r].born = run[r].born /\ run'[r].status = status
          /\ \A s \in Runs \ {r} : run'[s] = run[s]
      BY <3>2, <1>t DEF RunType
    <3> QED BY <3>1, <3>2, <3>3 DEF SameOrigin
  <2> QED BY <1>1, <2>1, <2>2, <1>o
          DEF WorkerCall, Register, Heartbeat, ClaimAgain, ClaimNothing, ReportRefused
<1>2. ASSUME NEW r \in Runs, OperatorCall(r) PROVE SameOrigin
  <2>1. ASSUME NEW wait \in {1, Backoff}, NEW counted \in BOOLEAN, RequeueRun(r, wait, counted)
        PROVE  SameOrigin
    <3>1. /\ run' = [run EXCEPT ![r] = Requeued(r, wait, counted)] /\ arrivals' = arrivals
          /\ run[r].status # "absent"
      BY <2>1 DEF RequeueRun
    <3>2. Requeued(r, wait, counted).born = run[r].born /\ Requeued(r, wait, counted).status = "queued"
      BY <1>c DEF Requeued, RunType
    <3> QED BY <3>1, <3>2, <1>t DEF SameOrigin
  <2>2. CASE ForceFailRun(r)
    BY <2>2, <1>t DEF ForceFailRun, SameOrigin, RunType
  <2>3. CASE CancelRun(r)
    BY <2>3, <1>t DEF CancelRun, SameOrigin, RunType
  <2> QED BY <1>2, <2>1, <2>2, <2>3 DEF OperatorCall
<1>3. CASE RecoverStaleRuns
  <2>1. ASSUME NEW r \in Abandoned
        PROVE  Recovered(r).born = run[r].born /\ Recovered(r).status # "absent"
               /\ run[r].status # "absent" /\ r \in Runs
    BY <1>c DEF Abandoned, Recovered, Requeued, RunType
  <2> QED BY <1>3, <2>1 DEF RecoverStaleRuns, SameOrigin
<1>4. CASE Tick
  BY <1>4, <1>c DEF Tick, SameOrigin, RunType
<1>5. ASSUME NEW a \in Agents, NEW status \in AgentStatuses, SetAgentStatus(a, status)
      PROVE  SameOrigin
  BY <1>5, <1>o DEF SetAgentStatus
<1>6. CASE UNCHANGED vars
  BY <1>6, <1>o DEF vars
<1> QED BY <1>1, <1>2, <1>3, <1>4, <1>5, <1>6 DEF Next

LEMMA BornStep == TypeOK /\ BornInOrder /\ [Next]_vars => BornInOrder'
<1> SUFFICES ASSUME TypeOK, BornInOrder, [Next]_vars PROVE BornInOrder'
  OBVIOUS
<1>1. ASSUME NEW r \in Runs, Enqueue(r) PROVE BornInOrder'
  <2>1. /\ arrivals' = arrivals + 1 /\ arrivals \in Nat
        /\ run'[r].born = arrivals /\ \A s \in Runs \ {r} : run'[s] = run[s]
    BY <1>1 DEF Enqueue, TypeOK, NoRun
  <2>2. r \notin Queued /\ Queued' \subseteq Queued \union {r}
    BY <1>1, <2>1 DEF Enqueue, Queued
  <2>3. \A s \in Queued : run[s].born < arrivals /\ run[s].born \in Nat /\ run'[s] = run[s]
    BY <2>1, <2>2 DEF BornInOrder, Queued, TypeOK, RunType
  <2>4. \A s \in Queued' : run'[s].born < arrivals'
    BY <2>1, <2>2, <2>3
  <2>5. \A s, u \in Queued' : run'[s].born = run'[u].born => s = u
    BY <2>1, <2>2, <2>3 DEF BornInOrder
  <2> QED BY <2>4, <2>5 DEF BornInOrder
<1>2. CASE \A r \in Runs : ~Enqueue(r)
  <2>1. SameOrigin
    BY <1>2, OriginsKept
  <2>2. Queued' = Queued
    BY <2>1 DEF SameOrigin, Queued
  <2> QED BY <2>1, <2>2 DEF SameOrigin, BornInOrder, Queued
<1> QED BY <1>1, <1>2

\* What is left of "higher values are claimed first, FIFO is preserved within
\* the same priority" (docs/worker-inventory.md): a claim hands out the run
\* that comes before every other one it might hand out, unless it is the
\* claiming worker's sticky one and the other is not.
InOrder(w, q, r) ==
    \A s \in Ready(q) \ {r} :
        ~KeptFor(s, w) /\ (Preferred[r] = w => Preferred[s] = w) => Before(r, s)

THEOREM ClaimsFollowTheQueue ==
  Spec => [][\A w \in Workers, q \in Queues, r \in Runs : ClaimRun(w, q, r) => InOrder(w, q, r)]_vars
<1>1. Init => BornInOrder
  BY DEF Init, BornInOrder, Queued, NoRun
<1>2. ASSUME TypeOK, BornInOrder, NEW w \in Workers, NEW q \in Queues, NEW r \in Runs, ClaimRun(w, q, r)
      PROVE  InOrder(w, q, r)
  <2> SUFFICES ASSUME NEW s \in Ready(q) \ {r}, ~KeptFor(s, w), Preferred[r] = w => Preferred[s] = w
               PROVE  Before(r, s)
    BY DEF InOrder
  <2>1. r \in Offered(w, q) /\ \A u \in Offered(w, q) : ~Before(u, r)
    BY <1>2 DEF ClaimRun
  <2>2. s \in Offered(w, q)
    BY <2>1 DEF Offered
  <2>3. r \in Queued /\ s \in Queued /\ r \in Runs /\ s \in Runs
    BY <2>1 DEF Offered, Ready, Queued
  <2>4. run[r].born # run[s].born /\ run[r].born \in Nat /\ run[s].born \in Nat
    BY <1>2, <2>3 DEF BornInOrder, TypeOK, RunType
  <2>5. Priority[r] \in Nat /\ Priority[s] \in Nat
    BY <2>3, ConstantsAssumption
  <2>6. ~Before(s, r)
    BY <2>1, <2>2
  <2> QED BY <2>4, <2>5, <2>6 DEF Before
<1>3. TypeOK /\ BornInOrder /\ [Next]_vars =>
        [\A w \in Workers, q \in Queues, r \in Runs : ClaimRun(w, q, r) => InOrder(w, q, r)]_vars
  BY <1>2
<1> QED BY <1>1, <1>3, TypeCorrect, BornStep, PTL DEF Spec

\* HigherPriorityFirst, which sticky runs break, as long as no run prefers a
\* worker.
THEOREM PriorityWithoutPreferences ==
  ASSUME \A r \in Runs : Preferred[r] = NoWorker
  PROVE  Spec => HigherPriorityFirst
<1>1. ASSUME NEW w \in Workers, NEW q \in Queues, NEW r \in Runs, InOrder(w, q, r),
             NEW s \in Ready(q), ~KeptFor(s, w)
      PROVE  Priority[s] <= Priority[r]
  <2>1. s \in Runs /\ Priority[r] \in Nat /\ Priority[s] \in Nat
    BY ConstantsAssumption DEF Ready
  <2>2. CASE s = r
    BY <2>1, <2>2
  <2>3. CASE s # r
    <3>1. Preferred[r] # w
      BY ConstantsAssumption
    <3>2. Before(r, s)
      BY <1>1, <2>3, <3>1 DEF InOrder
    <3> QED BY <2>1, <3>2 DEF Before
  <2> QED BY <2>2, <2>3
<1>2. [\A w \in Workers, q \in Queues, r \in Runs : ClaimRun(w, q, r) => InOrder(w, q, r)]_vars =>
        [\A w \in Workers, q \in Queues, r \in Runs : ClaimRun(w, q, r) =>
            \A s \in Ready(q) : ~KeptFor(s, w) => Priority[s] <= Priority[r]]_vars
  BY <1>1
<1> QED BY <1>2, ClaimsFollowTheQueue, PTL DEF HigherPriorityFirst

=============================================================================
