-------------------------- MODULE WorkerDaemonProofs --------------------------
(***************************************************************************)
(* Proofs about the daemons and the scheduler together, for any number of  *)
(* daemons and runs, any faults and any slowness.  A step of the fleet is  *)
(* a step of the scheduler, so what WorkerSchedulerProofs proves holds for *)
(* the fleet; what is added here ties the daemons to the tables.           *)
(***************************************************************************)
EXTENDS WorkerDaemon, WorkerSchedulerProofs

DaemonType == [at : Places, task : Runs \union {NoTask}, current : BOOLEAN]

\* Where a daemon stands agrees with whether it has a run in hand.
Consistent(d) == d \in DaemonType /\ (d.at \in Processing <=> d.task # NoTask)

LEMMA AtIsConsistent ==
  ASSUME NEW place \in Places \ Processing PROVE Consistent(At(place)) /\ At(place).task = NoTask
BY DEF At, Consistent, DaemonType, Places, Processing

LEMMA FleetTypeFacts ==
  ASSUME FleetTypeOK
  PROVE  /\ daemon \in [Workers -> DaemonType]
         /\ \A w \in Workers : Consistent(daemon[w])
         /\ \A w \in Workers : daemon[w].at \in Processing => daemon[w].task \in Runs
BY DEF FleetTypeOK, Consistent, DaemonType

\* What becomes of the daemons when one of them goes on.
LEMMA GoesToFacts ==
  ASSUME FleetTypeOK, NEW w \in Workers, NEW place \in Places, GoesTo(w, place),
         place \in Processing => daemon[w].at \in Processing
  PROVE  /\ daemon' \in [Workers -> DaemonType] /\ Consistent(daemon'[w])
         /\ daemon'[w].at = place
         /\ daemon'[w].task = IF place \in Processing THEN daemon[w].task ELSE NoTask
         /\ place \in Processing => daemon'[w].current = daemon[w].current
         /\ \A u \in Workers \ {w} : daemon'[u] = daemon[u]
<1> DEFINE d == IF place \in Processing THEN [daemon[w] EXCEPT !.at = place] ELSE At(place)
<1>1. daemon' = [daemon EXCEPT ![w] = d]
  BY DEF GoesTo
<1>2. CASE place \in Processing
  BY <1>1, <1>2, FleetTypeFacts DEF Consistent, DaemonType
<1>3. CASE place \notin Processing
  <2>1. Consistent(d) /\ d.task = NoTask /\ d.at = place
    BY <1>3, AtIsConsistent DEF At
  <2> QED BY <1>1, <1>3, <2>1, FleetTypeFacts DEF Consistent
<1> QED BY <1>2, <1>3

\* The same for a claim of run r, whose answer arrives or not.
LEMMA ReceivesFacts ==
  ASSUME FleetTypeOK, NEW w \in Workers, NEW r \in Runs, Receives(w, r)
  PROVE  /\ daemon' \in [Workers -> DaemonType] /\ Consistent(daemon'[w])
         /\ \/ daemon'[w] = [at |-> "claimed", task |-> r, current |-> TRUE] /\ UNCHANGED faults
            \/ daemon'[w] = At("polling") /\ Faulty
         /\ \A u \in Workers \ {w} :
              daemon'[u] = IF daemon[u].task = r THEN [daemon[u] EXCEPT !.current = FALSE]
                           ELSE daemon[u]
<1>1. ASSUME NEW d \in DaemonType, Consistent(d), Moves(w, d, r)
      PROVE  /\ daemon' \in [Workers -> DaemonType] /\ daemon'[w] = d
             /\ \A u \in Workers \ {w} :
                  daemon'[u] = IF daemon[u].task = r THEN [daemon[u] EXCEPT !.current = FALSE]
                               ELSE daemon[u]
  BY <1>1, FleetTypeFacts DEF Moves, DaemonType
<1>2. Consistent(At("polling"))
  BY AtIsConsistent DEF Places, Processing
<1>3. Consistent([at |-> "claimed", task |-> r, current |-> TRUE])
  BY DaemonAssumption DEF Consistent, DaemonType, Places, Processing
<1> QED BY <1>1, <1>2, <1>3 DEF Receives, Consistent

LEMMA SupersedeFacts ==
  ASSUME FleetTypeOK, NEW S, Supersede(S)
  PROVE  /\ daemon' \in [Workers -> DaemonType]
         /\ \A u \in Workers :
              daemon'[u] = IF daemon[u].task \in S THEN [daemon[u] EXCEPT !.current = FALSE]
                           ELSE daemon[u]
BY FleetTypeFacts DEF Supersede, DaemonType

-----------------------------------------------------------------------------
(* Types.                                                                  *)

\* Daemons stay well formed: an error, a crash or a lost answer never leaves
\* one with a run it is not processing, or processing nothing.
LEMMA FleetTypeStep == FleetTypeOK /\ [FleetNext]_fleetVars => FleetTypeOK'
<1> SUFFICES ASSUME FleetTypeOK, [FleetNext]_fleetVars PROVE FleetTypeOK'
  OBVIOUS
<1>t. /\ daemon \in [Workers -> DaemonType] /\ synced \subseteq Runs /\ faults \in 0 .. MaxFaults
      /\ MaxFaults \in Nat /\ \A w \in Workers : Consistent(daemon[w])
  BY FleetTypeFacts, DaemonAssumption DEF FleetTypeOK
<1>k. ASSUME daemon' \in [Workers -> DaemonType], \A w \in Workers : Consistent(daemon'[w]),
             synced' \subseteq Runs, faults' \in 0 .. MaxFaults
      PROVE  FleetTypeOK'
  BY <1>k DEF FleetTypeOK, Consistent, DaemonType
<1>f. UNCHANGED faults \/ Faulty => faults' \in 0 .. MaxFaults
  BY <1>t DEF Faulty
<1>g. ASSUME NEW w \in Workers, NEW place \in Places, GoesTo(w, place),
             place \in Processing => daemon[w].at \in Processing,
             UNCHANGED faults \/ Faulty, synced' \subseteq Runs
      PROVE  FleetTypeOK'
  <2>1. \A u \in Workers : Consistent(daemon'[u])
    BY <1>g, <1>t, GoesToFacts
  <2>2. daemon' \in [Workers -> DaemonType]
    BY <1>g, GoesToFacts
  <2> QED BY <2>1, <2>2, <1>g, <1>f, <1>k
<1>s. ASSUME NEW S, Supersede(S) PROVE FleetTypeOK'
  <2>1. /\ daemon' \in [Workers -> DaemonType]
        /\ \A u \in Workers :
             daemon'[u] = IF daemon[u].task \in S THEN [daemon[u] EXCEPT !.current = FALSE]
                          ELSE daemon[u]
    BY <1>s, SupersedeFacts
  <2>2. \A u \in Workers : Consistent(daemon'[u])
    BY <2>1, <1>t DEF Consistent, DaemonType
  <2> QED BY <1>s, <2>1, <2>2, <1>t, <1>f, <1>k DEF Supersede
<1>p. {"down", "starting", "polling"} \subseteq Places \ Processing /\ Processing \subseteq Places
  BY DEF Places, Processing
<1>u. ASSUME UNCHANGED local PROVE FleetTypeOK'
  BY <1>u, <1>t, <1>k DEF local
<1>1. ASSUME NEW w \in Workers, DaemonStep(w) PROVE FleetTypeOK'
  <2>1. CASE RegisterSelf(w)
    BY <2>1, <1>g, <1>p, <1>t DEF RegisterSelf, Returns
  <2>2. CASE SendHeartbeat(w)
    BY <2>2, <1>g, <1>p, <1>t DEF SendHeartbeat, Returns
  <2>3. CASE Poll(w)
    <3>1. ASSUME NEW r \in Runs, Receives(w, r) PROVE FleetTypeOK'
      <4>1. /\ daemon' \in [Workers -> DaemonType] /\ Consistent(daemon'[w])
            /\ UNCHANGED faults \/ Faulty
            /\ \A u \in Workers \ {w} :
                 daemon'[u] = IF daemon[u].task = r THEN [daemon[u] EXCEPT !.current = FALSE]
                              ELSE daemon[u]
        BY <3>1, ReceivesFacts, ZenonT(60)
      <4>2. \A u \in Workers : Consistent(daemon'[u])
        BY <4>1, <1>t DEF Consistent, DaemonType
      <4>3. synced' = synced
        BY <2>3 DEF Poll
      <4> QED BY <4>1, <4>2, <4>3, <1>t, <1>f, <1>k
    <3>2. UNCHANGED <<daemon, faults, synced>> \/ \E r \in Runs : Receives(w, r)
      BY <2>3 DEF Poll, HeldBy
    <3> QED BY <3>1, <3>2, <1>u DEF local
  <2>4. CASE ReportStart(w)
    BY <2>4, <1>g, <1>p, <1>t DEF ReportStart, Returns, Processing
  <2>5. CASE AskWhetherCancelled(w)
    BY <2>5, <1>g, <1>p, <1>t DEF AskWhetherCancelled, Processing
  <2>6. CASE ReportProgress(w)
    BY <2>6, <1>u DEF ReportProgress
  <2>7. CASE EnqueueSync(w)
    <3>1. synced' \subseteq Runs
      BY <2>7, <1>t, DaemonAssumption DEF EnqueueSync
    <3> QED BY <2>7, <3>1, <1>g, <1>p DEF EnqueueSync, Returns, Processing
  <2>8. CASE ReportOutcome(w)
    BY <2>8, <1>g, <1>p, <1>t DEF ReportOutcome, Returns
  <2>9. CASE LoseRequest(w) \/ Crash(w) \/ Restart(w)
    BY <2>9, <1>g, <1>p, <1>t DEF LoseRequest, Crash, Restart
  <2> QED BY <1>1, <2>1, <2>2, <2>3, <2>4, <2>5, <2>6, <2>7, <2>8, <2>9 DEF DaemonStep
<1>2. ASSUME NEW r \in Runs, Resume(r) \/ Operate(r) PROVE FleetTypeOK'
  BY <1>2, <1>s, <1>u DEF Resume, Operate
<1>3. CASE Recover
  BY <1>3, <1>s DEF Recover
<1>4. CASE TimePasses
  BY <1>4, <1>u DEF TimePasses
<1>5. CASE UNCHANGED fleetVars
  BY <1>5, <1>u DEF fleetVars, local
<1> QED BY <1>1, <1>2, <1>3, <1>4, <1>5 DEF FleetNext

\* FleetTypeOK holds whatever is lost, late or killed.
THEOREM FleetTypeCorrect == FleetSpec => []FleetTypeOK
<1>1. FleetInit => FleetTypeOK
  <2>1. Consistent(At("starting")) /\ At("starting") \in DaemonType
    BY AtIsConsistent DEF Places, Processing, Consistent
  <2>2. FleetInit => daemon = [w \in Workers |-> At("starting")] /\ synced = {} /\ faults = 0
    BY DEF FleetInit
  <2> QED BY <2>1, <2>2, DaemonAssumption DEF FleetTypeOK, Consistent, DaemonType
<1> QED BY <1>1, FleetTypeStep, PTL DEF FleetSpec

-----------------------------------------------------------------------------
(* The fleet implements the scheduler.                                     *)

\* What a daemon may be about to report, by where it stands.
LEMMA ReportsFacts ==
  ASSUME NEW w \in Workers, NEW o \in Reports(w)
  PROVE  /\ \/ daemon[w].at = "cancelling" /\ o[1] = "cancelled" /\ ~o[2]
            \/ daemon[w].at = "reporting" /\ o[1] = "completed" /\ ~o[2]
            \/ /\ daemon[w].at = "executing" /\ o \in Outcomes
               /\ daemon[w].task \in Study => o[1] # "completed"
         /\ daemon[w].at \in Processing /\ o[1] \in Reportable /\ o[2] \in Pauses
<1>1. CASE daemon[w].at = "cancelling"
  <2>1. o = <<"cancelled", FALSE>>
    BY <1>1 DEF Reports
  <2> QED BY <1>1, <2>1, DaemonAssumption DEF Processing, Reportable
<1>2. CASE daemon[w].at = "reporting"
  <2>1. o = <<"completed", FALSE>>
    BY <1>2 DEF Reports
  <2> QED BY <1>2, <2>1, DaemonAssumption DEF Processing, Reportable
<1>3. CASE daemon[w].at = "executing"
  <2>1. o \in Outcomes /\ (daemon[w].task \in Study => o[1] # "completed")
    BY <1>3 DEF Reports
  <2> QED BY <1>3, <2>1, DaemonAssumption DEF Processing
<1>4. CASE daemon[w].at \notin {"cancelling", "reporting", "executing"}
  <2>1. Reports(w) = {}
    BY <1>4 DEF Reports
  <2> QED BY <2>1
<1> QED BY <1>1, <1>2, <1>3, <1>4

\* A daemon makes only calls the scheduler offers, and the rest of what it
\* does leaves the tables alone.
LEMMA FleetStepIsStep == FleetTypeOK /\ [FleetNext]_fleetVars => [Next]_vars
<1> SUFFICES ASSUME FleetTypeOK, [FleetNext]_fleetVars PROVE [Next]_vars
  OBVIOUS
<1>t. \A w \in Workers : daemon[w].at \in Processing => daemon[w].task \in Runs
  BY FleetTypeFacts
<1>c. "running" \in Reportable /\ "active" \in Modes /\ TRUE \in Accepting /\ FALSE \in Pauses
  BY DaemonAssumption DEF Reportable
<1>w. ASSUME NEW w \in Workers, WorkerCall(w) PROVE [Next]_vars
  BY <1>w DEF Next
<1>o. ASSUME NEW r \in Runs, OperatorCall(r) PROVE [Next]_vars
  BY <1>o DEF Next
<1>r. ASSUME NEW w \in Workers, daemon[w].at \in Processing, Refused(w) PROVE [Next]_vars
  BY <1>r, <1>t, <1>w DEF Refused, WorkerCall
<1>1. ASSUME NEW w \in Workers, DaemonStep(w) PROVE [Next]_vars
  <2>1. CASE RegisterSelf(w)
    BY <2>1, <1>c, <1>w DEF RegisterSelf, WorkerCall
  <2>2. CASE SendHeartbeat(w)
    BY <2>2, <1>c, <1>w DEF SendHeartbeat, WorkerCall
  <2>3. CASE Poll(w)
    BY <2>3, <1>w DEF Poll, WorkerCall
  <2>4. CASE ReportStart(w)
    <3>1. daemon[w].at \in Processing
      BY <2>4 DEF ReportStart, Processing
    <3> QED BY <2>4, <3>1, <1>t, <1>c, <1>r, <1>w DEF ReportStart, WorkerCall
  <2>5. CASE AskWhetherCancelled(w) \/ EnqueueSync(w) \/ LoseRequest(w) \/ Crash(w) \/ Restart(w)
    BY <2>5 DEF AskWhetherCancelled, EnqueueSync, LoseRequest, Crash, Restart
  <2>6. CASE ReportProgress(w)
    <3>1. daemon[w].at \in Processing
      BY <2>6 DEF ReportProgress, Processing
    <3> QED BY <2>6, <3>1, <1>t, <1>c, <1>r, <1>w DEF ReportProgress, WorkerCall
  <2>7. CASE ReportOutcome(w)
    <3>1. PICK o \in Reports(w) : Report(w, daemon[w].task, o[1], o[2]) \/ Refused(w)
      BY <2>7 DEF ReportOutcome
    <3>2. daemon[w].at \in Processing /\ o[1] \in Reportable /\ o[2] \in Pauses
      BY <3>1, ReportsFacts
    <3> QED BY <3>1, <3>2, <1>t, <1>r, <1>w DEF WorkerCall
  <2> QED BY <1>1, <2>1, <2>2, <2>3, <2>4, <2>5, <2>6, <2>7 DEF DaemonStep
<1>2. ASSUME NEW r \in Runs, Resume(r) \/ Operate(r) PROVE [Next]_vars
  BY <1>2, <1>o DEF Resume, Operate, OperatorCall
<1>3. CASE Recover
  BY <1>3 DEF Recover, Next
<1>4. CASE TimePasses
  BY <1>4 DEF TimePasses, Next
<1>5. CASE UNCHANGED fleetVars
  BY <1>5 DEF fleetVars, vars
<1> QED BY <1>1, <1>2, <1>3, <1>4, <1>5 DEF FleetNext

\* Whatever the daemons do is a behaviour of the scheduler under unconstrained
\* callers: its theorems need no daemon that behaves.
THEOREM FleetImplementsScheduler == FleetSpec => Spec
<1>1. FleetInit => Init
  BY DEF FleetInit
<1> QED BY <1>1, FleetStepIsStep, FleetTypeCorrect, PTL DEF FleetSpec, Spec

\* So the invariants of the queue hold in the fleet.
THEOREM FleetKeepsTables ==
  FleetSpec => [](TypeOK /\ LeaseMatchesRun /\ RunningIsAssigned /\ OneLeasePerWorker)
BY FleetImplementsScheduler, TypeCorrect, LeasesMatchRuns, OneLeasePerWorkerHolds, PTL

\* And it keeps the ownership contract of a run.
THEOREM FleetImplementsContract == FleetSpec => ImplementsContract
BY FleetImplementsScheduler, SchedulerImplementsContract, PTL

-----------------------------------------------------------------------------
(* Late reports.  A daemon that is no longer current either works for a    *)
(* run that was given to another or to nobody, or for one that is over.    *)

Outdated(w) ==
    daemon[w].task # NoTask /\ ~daemon[w].current =>
        \/ run[daemon[w].task].worker # w
        \/ run[daemon[w].task].status \notin {"queued", "running"}

NoLateOwner == \A w \in Workers : Outdated(w)

\* Only a claim assigns a run, and only a requeue opens one again, which
\* frees it: a worker gets a run, or gets it back, by polling for it.
LEMMA AssignmentSource ==
  ASSUME TypeOK, FleetTypeOK, [FleetNext]_fleetVars, NEW r \in Runs, NEW w \in Workers,
         run'[r].worker = w, run'[r].status \in {"queued", "running"},
         run[r].worker # w \/ run[r].status \notin {"queued", "running"}
  PROVE  daemon[w].at = "polling"
<1>t. /\ run \in [Runs -> RunType] /\ lease \in [Runs -> LeaseType] /\ NoWorker \notin Workers
      /\ \A v \in Workers : daemon[v].at \in Processing => daemon[v].task \in Runs
  BY ConstantsAssumption, FleetTypeFacts DEF TypeOK
<1>s. ASSUME run'[r].worker = run[r].worker, run'[r].status = run[r].status PROVE FALSE
  BY <1>s
<1>r. ASSUME NEW v, NEW c \in Runs, NEW status, NEW pausing, Report(v, c, status, pausing)
      PROVE FALSE
  BY <1>r, <1>t, <1>s DEF Report, MayReport, RunType
<1>f. ASSUME NEW v, Refused(v) PROVE FALSE
  BY <1>f, <1>s DEF Refused, ReportRefused, vars
<1>q. ASSUME NEW c \in Runs, NEW wait, NEW counted, RequeueRun(c, wait, counted) PROVE FALSE
  BY <1>q, <1>t, <1>s DEF RequeueRun, Requeued, RunType
<1>1. ASSUME NEW v \in Workers, DaemonStep(v) PROVE daemon[w].at = "polling"
  <2>1. CASE Poll(v)
    <3>1. ASSUME NEW q \in Queues, NEW c \in Runs, ClaimRun(v, q, c) PROVE v = w
      <4>1. CASE c = r
        BY <3>1, <4>1, <1>t DEF ClaimRun, RunType
      <4>2. CASE c # r
        BY <3>1, <4>2, <1>t, <1>s DEF ClaimRun
      <4> QED BY <4>1, <4>2
    <3> QED BY <2>1, <3>1, <1>s DEF Poll, ClaimAgain, ClaimNothing
  <2>2. CASE ReportStart(v) \/ ReportProgress(v) \/ ReportOutcome(v)
    <3>1. daemon[v].task \in Runs
      BY <2>2, <1>t, ReportsFacts DEF ReportStart, ReportProgress, ReportOutcome, Processing
    <3> QED BY <2>2, <3>1, <1>r, <1>f DEF ReportStart, ReportProgress, ReportOutcome
  <2>3. CASE RegisterSelf(v) \/ SendHeartbeat(v)
    BY <2>3, <1>s DEF RegisterSelf, SendHeartbeat, Register, Heartbeat
  <2>4. CASE AskWhetherCancelled(v) \/ EnqueueSync(v) \/ LoseRequest(v) \/ Crash(v) \/ Restart(v)
    BY <2>4, <1>s DEF AskWhetherCancelled, EnqueueSync, LoseRequest, Crash, Restart, vars
  <2> QED BY <1>1, <2>1, <2>2, <2>3, <2>4 DEF DaemonStep
<1>2. ASSUME NEW c \in Runs, Resume(c) \/ Operate(c) PROVE FALSE
  <2>1. CASE Enqueue(c)
    BY <2>1, <1>t, <1>s DEF Enqueue, NoRun
  <2>2. CASE ForceFailRun(c)
    BY <2>2, <1>t, <1>s DEF ForceFailRun, RunType
  <2>3. CASE CancelRun(c)
    BY <2>3, <1>t, <1>s DEF CancelRun, RunType
  <2> QED BY <1>2, <2>1, <2>2, <2>3, <1>q DEF Resume, Operate
<1>3. ASSUME Recover PROVE FALSE
  <2>1. CASE r \in Abandoned
    BY <1>3, <2>1, <1>t, ZenonT(60) DEF Recover, RecoverStaleRuns, Recovered, Requeued, RunType
  <2>2. CASE r \notin Abandoned
    BY <1>3, <2>2, <1>s DEF Recover, RecoverStaleRuns
  <2> QED BY <2>1, <2>2
<1>4. ASSUME TimePasses PROVE FALSE
  BY <1>4, <1>t, <1>s DEF TimePasses, Tick, RunType
<1>5. ASSUME UNCHANGED fleetVars PROVE FALSE
  BY <1>5, <1>s DEF fleetVars
<1> QED BY <1>1, <1>2, <1>3, <1>4, <1>5 DEF FleetNext

\* What daemon u has in hand is open and assigned to it.
Assigned(u) ==
    /\ run[daemon[u].task].worker = u
    /\ run[daemon[u].task].status \in {"queued", "running"}

\* A daemon stops being current only when its run is taken from it.
LEMMA TakenAway ==
  ASSUME TypeOK, LeaseMatchesRun, FleetTypeOK, [FleetNext]_fleetVars, NEW u \in Workers,
         daemon'[u].task # NoTask, ~daemon'[u].current
  PROVE  /\ daemon'[u].task \in Runs
         /\ \/ daemon[u].task = daemon'[u].task /\ ~daemon[u].current
            \/ ~Assigned(u)'
<1>t. /\ run \in [Runs -> RunType] /\ lease \in [Runs -> LeaseType] /\ NoWorker \notin Workers
      /\ daemon \in [Workers -> DaemonType]
      /\ \A v \in Workers : Consistent(daemon[v])
  BY ConstantsAssumption, FleetTypeFacts DEF TypeOK
<1>k. daemon'[u] \in DaemonType
  BY FleetTypeStep DEF FleetTypeOK, DaemonType
<1>p. daemon'[u].task \in Runs
  BY <1>k DEF DaemonType
<1> SUFFICES ASSUME ~(daemon[u].task = daemon'[u].task /\ ~daemon[u].current)
             PROVE  ~Assigned(u)'
  BY <1>p
<1>u. ASSUME daemon'[u] = daemon[u] PROVE FALSE
  BY <1>u
<1>g. ASSUME NEW w \in Workers, NEW place \in Places, GoesTo(w, place),
             place \in Processing => daemon[w].at \in Processing
      PROVE  FALSE
  <2>1. CASE u = w
    BY <1>g, <2>1, GoesToFacts
  <2>2. CASE u # w
    BY <1>g, <2>2, <1>u, GoesToFacts
  <2> QED BY <2>1, <2>2
<1>s. ASSUME NEW S, Supersede(S)
      PROVE  daemon'[u].task = daemon[u].task /\ daemon[u].task \in S
  <2>1. daemon'[u] = IF daemon[u].task \in S THEN [daemon[u] EXCEPT !.current = FALSE]
                     ELSE daemon[u]
    BY <1>s, SupersedeFacts
  <2> QED BY <2>1, <1>u, <1>t DEF DaemonType
<1>v. ASSUME NEW w \in Workers, NEW r \in Runs, Receives(w, r)
      PROVE  u # w /\ daemon'[u].task = r
  <2>1. CASE u = w
    <3>1. \/ daemon'[u] = [at |-> "claimed", task |-> r, current |-> TRUE]
          \/ daemon'[u] = At("polling")
      BY <1>v, <2>1, ReceivesFacts
    <3> QED BY <3>1 DEF At
  <2>2. CASE u # w
    <3>1. \A v \in Workers \ {w} :
            daemon'[v] = IF daemon[v].task = r THEN [daemon[v] EXCEPT !.current = FALSE]
                         ELSE daemon[v]
      BY <1>v, ReceivesFacts, ZenonT(60)
    <3> QED BY <3>1, <2>2, <1>u, <1>t DEF DaemonType
  <2> QED BY <2>1, <2>2
<1>q. ASSUME NEW c \in Runs, NEW wait, NEW counted, RequeueRun(c, wait, counted), Supersede({c})
      PROVE  ~Assigned(u)'
  <2>1. daemon'[u].task = c
    BY <1>q, <1>s
  <2> QED BY <2>1, <1>q, <1>t DEF RequeueRun, Requeued, RunType, Assigned
<1>l. {"down", "starting", "polling"} \subseteq Places \ Processing /\ Processing \subseteq Places
  BY DEF Places, Processing
<1>n. ASSUME UNCHANGED daemon PROVE FALSE
  BY <1>n, <1>u
<1>1. ASSUME NEW w \in Workers, DaemonStep(w) PROVE ~Assigned(u)'
  <2>1. CASE Poll(w)
    <3>1. ASSUME NEW q \in Queues, NEW r \in Runs, ClaimRun(w, q, r), Receives(w, r)
          PROVE  ~Assigned(u)'
      BY <3>1, <1>v, <1>t DEF ClaimRun, RunType, Assigned
    <3>2. ASSUME NEW q \in Queues, NEW r \in HeldBy(w, q), ClaimAgain(w, q), Receives(w, r)
          PROVE  ~Assigned(u)'
      <4>1. r \in Runs /\ lease[r].active /\ lease[r].holder = w
        BY DEF HeldBy, Live
      <4> QED BY <3>2, <4>1, <1>v DEF ClaimAgain, Assigned, LeaseMatchesRun
    <3> QED BY <2>1, <3>1, <3>2, <1>n DEF Poll
  <2>2. CASE RegisterSelf(w) \/ SendHeartbeat(w)
    BY <2>2, <1>g, <1>l DEF RegisterSelf, SendHeartbeat, Returns
  <2>3. CASE ReportStart(w)
    BY <2>3, <1>g, <1>l DEF ReportStart, Returns, Processing
  <2>4. CASE AskWhetherCancelled(w)
    BY <2>4, <1>g, <1>l DEF AskWhetherCancelled, Processing
  <2>5. CASE ReportProgress(w)
    BY <2>5, <1>n DEF ReportProgress, local
  <2>6. CASE EnqueueSync(w)
    BY <2>6, <1>g, <1>l DEF EnqueueSync, Returns, Processing
  <2>7. CASE ReportOutcome(w)
    BY <2>7, <1>g, <1>l DEF ReportOutcome, Returns
  <2>8. CASE LoseRequest(w) \/ Crash(w) \/ Restart(w)
    BY <2>8, <1>g, <1>l DEF LoseRequest, Crash, Restart
  <2> QED BY <1>1, <2>1, <2>2, <2>3, <2>4, <2>5, <2>6, <2>7, <2>8 DEF DaemonStep
<1>2. ASSUME NEW c \in Runs, Resume(c) \/ Operate(c) PROVE ~Assigned(u)'
  BY <1>2, <1>q, <1>n DEF Resume, Operate, local
<1>3. CASE Recover
  <2>1. daemon'[u].task \in Abandoned
    BY <1>3, <1>s DEF Recover
  <2>2. daemon'[u].task \in Runs /\ run'[daemon'[u].task] = Recovered(daemon'[u].task)
    BY <2>1, <1>3 DEF Recover, RecoverStaleRuns, Abandoned
  <2>3. \/ run'[daemon'[u].task].status = "failed"
        \/ run'[daemon'[u].task].worker = NoWorker
    BY <2>2, <1>t DEF Recovered, Requeued, RunType
  <2> QED BY <2>3, <1>t DEF Assigned
<1>4. CASE TimePasses \/ UNCHANGED fleetVars
  BY <1>4, <1>n DEF TimePasses, local, fleetVars
<1> QED BY <1>1, <1>2, <1>3, <1>4 DEF FleetNext

LEMMA NoLateOwnerStep ==
  TypeOK /\ LeaseMatchesRun /\ FleetTypeOK /\ NoLateOwner /\ [FleetNext]_fleetVars => NoLateOwner'
<1> SUFFICES ASSUME TypeOK, LeaseMatchesRun, FleetTypeOK, NoLateOwner, [FleetNext]_fleetVars,
                    NEW u \in Workers, daemon'[u].task # NoTask, ~daemon'[u].current,
                    Assigned(u)'
             PROVE  FALSE
  BY DEF NoLateOwner, Outdated, Assigned
<1>1. daemon'[u].task \in Runs /\ daemon[u].task = daemon'[u].task /\ ~daemon[u].current
  BY TakenAway
<1>2. run[daemon[u].task].worker # u \/ run[daemon[u].task].status \notin {"queued", "running"}
  BY <1>1 DEF NoLateOwner, Outdated
<1>3. daemon[u].at = "polling"
  BY <1>1, <1>2, AssignmentSource DEF Assigned
<1> QED BY <1>1, <1>3, FleetTypeFacts DEF Consistent, Processing

\* OnlyCurrentMayReport needs neither daemons that keep up nor an attempt
\* number in the report: the assignment in the run and the holder in its lease
\* never both name a daemon that lost the run.
THEOREM LateReportsAreRefused == FleetSpec => []OnlyCurrentMayReport
<1>1. FleetInit => NoLateOwner
  BY DEF FleetInit, At, NoLateOwner, Outdated
<1>2. FleetTypeOK /\ LeaseMatchesRun /\ NoLateOwner => OnlyCurrentMayReport
  <2> SUFFICES ASSUME FleetTypeOK, LeaseMatchesRun, NoLateOwner, NEW w \in Workers,
                      daemon[w].task # NoTask, MayReport(w, daemon[w].task)
               PROVE  daemon[w].current
    BY DEF OnlyCurrentMayReport
  <2>1. daemon[w].task \in Runs
    BY FleetTypeFacts DEF DaemonType
  <2>2. run[daemon[w].task].worker = w /\ run[daemon[w].task].status \in {"queued", "running"}
    BY <2>1 DEF MayReport, Live, LeaseMatchesRun
  <2> QED BY <2>1, <2>2 DEF NoLateOwner, Outdated
<1> QED BY <1>1, <1>2, NoLateOwnerStep, FleetTypeCorrect, FleetKeepsTables, PTL DEF FleetSpec

-----------------------------------------------------------------------------
(* Study runs and their git sync runs.                                     *)

\* A daemon reports a study run as completed only after the sync run was
\* enqueued.
ReportsSynced == \A w \in Workers : daemon[w].at = "reporting" => daemon[w].task \in synced

LEMMA ReportingSource ==
  ASSUME FleetTypeOK, [FleetNext]_fleetVars
  PROVE  /\ synced \subseteq synced'
         /\ ReportsSynced => ReportsSynced'
<1>t. \A w \in Workers : Consistent(daemon[w])
  BY FleetTypeFacts
<1>g. ASSUME NEW w \in Workers, NEW place \in Places \ {"reporting"}, GoesTo(w, place),
             place \in Processing => daemon[w].at \in Processing, UNCHANGED synced
      PROVE  ReportsSynced => ReportsSynced'
  <2>1. \A v \in Workers : daemon'[v].at = "reporting" => daemon'[v] = daemon[v]
    BY <1>g, GoesToFacts
  <2> QED BY <2>1, <1>g DEF ReportsSynced
<1>l. /\ {"down", "starting", "polling"} \subseteq (Places \ {"reporting"}) \ Processing
      /\ {"asking", "cancelling", "executing"} \subseteq (Places \ {"reporting"})
      /\ "reporting" \in Places \cap Processing
  BY DEF Places, Processing
<1>n. ASSUME UNCHANGED <<daemon, synced>> PROVE ReportsSynced => ReportsSynced'
  BY <1>n DEF ReportsSynced
<1>k. ASSUME UNCHANGED synced,
             \A v \in Workers : daemon'[v].at = "reporting" =>
                 daemon[v].at = "reporting" /\ daemon'[v].task = daemon[v].task
      PROVE  ReportsSynced => ReportsSynced'
  BY <1>k DEF ReportsSynced
<1>s. ASSUME NEW S, Supersede(S) PROVE ReportsSynced => ReportsSynced'
  <2>1. \A v \in Workers :
            daemon'[v] = IF daemon[v].task \in S THEN [daemon[v] EXCEPT !.current = FALSE]
                         ELSE daemon[v]
    BY <1>s, SupersedeFacts
  <2> QED BY <2>1, <1>s, <1>k, <1>t DEF Supersede, Consistent, DaemonType
<1>v. ASSUME NEW w \in Workers, NEW r \in Runs, Receives(w, r), UNCHANGED synced
      PROVE  ReportsSynced => ReportsSynced'
  <2>1. /\ \A v \in Workers \ {w} :
             daemon'[v] = IF daemon[v].task = r THEN [daemon[v] EXCEPT !.current = FALSE]
                          ELSE daemon[v]
        /\ \/ daemon'[w] = [at |-> "claimed", task |-> r, current |-> TRUE]
           \/ daemon'[w] = At("polling")
    BY <1>v, ReceivesFacts
  <2>2. daemon'[w].at # "reporting"
    BY <2>1 DEF At
  <2> QED BY <2>1, <2>2, <1>v, <1>k, <1>t DEF Consistent, DaemonType
<1>1. ASSUME NEW w \in Workers, DaemonStep(w)
      PROVE  synced \subseteq synced' /\ (ReportsSynced => ReportsSynced')
  <2>1. CASE Poll(w)
    BY <2>1, <1>v, <1>n DEF Poll, HeldBy
  <2>2. CASE RegisterSelf(w) \/ SendHeartbeat(w)
    BY <2>2, <1>g, <1>l DEF RegisterSelf, SendHeartbeat, Returns
  <2>3. CASE ReportStart(w)
    BY <2>3, <1>g, <1>l DEF ReportStart, Returns, Processing
  <2>4. CASE AskWhetherCancelled(w)
    BY <2>4, <1>g, <1>l DEF AskWhetherCancelled, Processing
  <2>5. CASE ReportProgress(w)
    BY <2>5, <1>n DEF ReportProgress, local
  <2>6. CASE EnqueueSync(w)
    <3>1. daemon[w].at \in Processing /\ synced' = synced \union {daemon[w].task}
      BY <2>6 DEF EnqueueSync, Processing
    <3>2. \E place \in {"reporting", "polling"} : GoesTo(w, place)
      BY <2>6 DEF EnqueueSync, Returns
    <3>3. /\ daemon'[w].at = "reporting" => daemon'[w].task = daemon[w].task
          /\ \A u \in Workers \ {w} : daemon'[u] = daemon[u]
      BY <3>1, <3>2, <1>l, GoesToFacts
    <3> QED BY <3>1, <3>3 DEF ReportsSynced
  <2>7. CASE ReportOutcome(w)
    BY <2>7, <1>g, <1>l DEF ReportOutcome, Returns
  <2>8. CASE LoseRequest(w) \/ Crash(w) \/ Restart(w)
    BY <2>8, <1>g, <1>l DEF LoseRequest, Crash, Restart
  <2> QED BY <1>1, <2>1, <2>2, <2>3, <2>4, <2>5, <2>6, <2>7, <2>8 DEF DaemonStep
<1>2. ASSUME NEW c \in Runs, Resume(c) \/ Operate(c)
      PROVE  synced \subseteq synced' /\ (ReportsSynced => ReportsSynced')
  <2>1. UNCHANGED local \/ \E S : Supersede(S)
    BY <1>2 DEF Resume, Operate
  <2> QED BY <2>1, <1>s, <1>n DEF local, Supersede
<1>3. CASE Recover
  BY <1>3, <1>s DEF Recover, Supersede
<1>4. CASE TimePasses \/ UNCHANGED fleetVars
  BY <1>4, <1>n DEF TimePasses, local, fleetVars
<1> QED BY <1>1, <1>2, <1>3, <1>4 DEF FleetNext

\* A run is completed by one daemon's outcome report and by nothing else.
LEMMA CompletionSource ==
  ASSUME TypeOK, FleetTypeOK, [FleetNext]_fleetVars, NEW r \in Study,
         run'[r].status = "completed", run[r].status # "completed"
  PROVE  \E w \in Workers : daemon[w].task = r /\ daemon[w].at = "reporting"
<1>t. /\ run \in [Runs -> RunType] /\ r \in Runs
      /\ \A v \in Workers : daemon[v].at \in Processing => daemon[v].task \in Runs
  BY DaemonAssumption, FleetTypeFacts DEF TypeOK
<1>s. ASSUME run'[r].status = run[r].status PROVE FALSE
  BY <1>s
<1>r. ASSUME NEW v, NEW c \in Runs, NEW status, NEW pausing, Report(v, c, status, pausing)
      PROVE c = r /\ status = "completed"
  BY <1>r, <1>t, <1>s DEF Report, RunType
<1>f. ASSUME NEW v, Refused(v) PROVE FALSE
  BY <1>f, <1>s DEF Refused, ReportRefused, vars
<1>q. ASSUME NEW c \in Runs, NEW wait, NEW counted, RequeueRun(c, wait, counted) PROVE FALSE
  BY <1>q, <1>t, <1>s DEF RequeueRun, Requeued, RunType
<1>1. ASSUME NEW w \in Workers, DaemonStep(w)
      PROVE  daemon[w].task = r /\ daemon[w].at = "reporting"
  <2>1. CASE ReportOutcome(w)
    <3>1. PICK o \in Reports(w) : Report(w, daemon[w].task, o[1], o[2])
      BY <2>1, <1>f DEF ReportOutcome
    <3>2. daemon[w].task = r /\ o[1] = "completed"
      BY <3>1, <1>r, <1>t, ReportsFacts
    <3> QED BY <3>2, ReportsFacts
  <2>2. CASE ReportStart(w) \/ ReportProgress(w)
    <3>1. daemon[w].task \in Runs
      BY <2>2, <1>t DEF ReportStart, ReportProgress, Processing
    <3>2. Report(w, daemon[w].task, "running", FALSE)
      BY <2>2, <1>f DEF ReportStart, ReportProgress
    <3> QED BY <3>1, <3>2, <1>r
  <2>3. CASE Poll(w)
    BY <2>3, <1>t, <1>s DEF Poll, ClaimAgain, ClaimNothing, ClaimRun, RunType
  <2>4. CASE RegisterSelf(w) \/ SendHeartbeat(w)
    BY <2>4, <1>s DEF RegisterSelf, SendHeartbeat, Register, Heartbeat
  <2>5. CASE AskWhetherCancelled(w) \/ EnqueueSync(w) \/ LoseRequest(w) \/ Crash(w) \/ Restart(w)
    BY <2>5, <1>s DEF AskWhetherCancelled, EnqueueSync, LoseRequest, Crash, Restart, vars
  <2> QED BY <1>1, <2>1, <2>2, <2>3, <2>4, <2>5 DEF DaemonStep
<1>2. ASSUME NEW c \in Runs, Resume(c) \/ Operate(c) PROVE FALSE
  <2>1. CASE Enqueue(c)
    BY <2>1, <1>t, <1>s DEF Enqueue, NoRun
  <2>2. CASE ForceFailRun(c)
    BY <2>2, <1>t, <1>s DEF ForceFailRun, RunType
  <2>3. CASE CancelRun(c)
    BY <2>3, <1>t, <1>s DEF CancelRun, RunType
  <2> QED BY <1>2, <2>1, <2>2, <2>3, <1>q DEF Resume, Operate
<1>3. ASSUME Recover PROVE FALSE
  <2>1. CASE r \in Abandoned
    BY <1>3, <2>1, <1>t DEF Recover, RecoverStaleRuns, Recovered, Requeued, RunType
  <2>2. CASE r \notin Abandoned
    BY <1>3, <2>2, <1>t, <1>s DEF Recover, RecoverStaleRuns
  <2> QED BY <2>1, <2>2
<1>4. ASSUME TimePasses PROVE FALSE
  BY <1>4, <1>t, <1>s DEF TimePasses, Tick, RunType
<1>5. ASSUME UNCHANGED fleetVars PROVE FALSE
  BY <1>5, <1>s DEF fleetVars
<1>6. \E w \in Workers : DaemonStep(w)
  BY <1>2, <1>3, <1>4, <1>5 DEF FleetNext
<1> QED BY <1>1, <1>6

\* CompletedStudyIsSynced survives every crash and lost answer, because the
\* order of the two calls is kept: enqueue first, report after.
THEOREM CompletedStudiesAreSynced == FleetSpec => []CompletedStudyIsSynced
<1> DEFINE Inv == ReportsSynced /\ CompletedStudyIsSynced
<1>1. FleetInit => Inv
  BY DaemonAssumption DEF FleetInit, Init, At, NoRun, ReportsSynced, CompletedStudyIsSynced
<1>2. TypeOK /\ FleetTypeOK /\ Inv /\ [FleetNext]_fleetVars => Inv'
  <2> SUFFICES ASSUME TypeOK, FleetTypeOK, ReportsSynced, CompletedStudyIsSynced,
                      [FleetNext]_fleetVars
               PROVE  Inv'
    OBVIOUS
  <2>1. synced \subseteq synced' /\ ReportsSynced'
    BY ReportingSource
  <2>2. ASSUME NEW r \in Study, run'[r].status = "completed" PROVE r \in synced'
    <3>1. CASE run[r].status = "completed"
      BY <2>1, <3>1 DEF CompletedStudyIsSynced
    <3>2. CASE run[r].status # "completed"
      BY <2>1, <2>2, <3>2, CompletionSource DEF ReportsSynced
    <3> QED BY <3>1, <3>2
  <2> QED BY <2>1, <2>2 DEF CompletedStudyIsSynced
<1> QED BY <1>1, <1>2, FleetTypeCorrect, FleetKeepsTables, PTL DEF FleetSpec

-----------------------------------------------------------------------------
(* Retries.                                                                *)

\* What a step of the fleet may do to the retries of a run.
LEMMA RetriesStep ==
  ASSUME "requeue" \notin Operators, TypeOK, FleetTypeOK, RetriesWithinBudget,
         [FleetNext]_fleetVars
  PROVE  RetriesWithinBudget'
<1>t. /\ run \in [Runs -> RunType] /\ \A r \in Runs : MaxRetries[r] \in Nat
      /\ \A v \in Workers : daemon[v].at \in Processing => daemon[v].task \in Runs
  BY ConstantsAssumption, FleetTypeFacts DEF TypeOK
<1>k. ASSUME \A r \in Runs : run'[r].retries = run[r].retries PROVE RetriesWithinBudget'
  BY <1>k DEF RetriesWithinBudget
<1>r. ASSUME NEW v, NEW c \in Runs, NEW status, NEW pausing, Report(v, c, status, pausing)
      PROVE  RetriesWithinBudget'
  BY <1>r, <1>t, <1>k DEF Report, RunType
<1>f. ASSUME NEW v, Refused(v) PROVE RetriesWithinBudget'
  BY <1>f, <1>k DEF Refused, ReportRefused, vars
<1>1. ASSUME NEW w \in Workers, DaemonStep(w) PROVE RetriesWithinBudget'
  <2>1. CASE Poll(w)
    BY <2>1, <1>t, <1>k DEF Poll, ClaimAgain, ClaimNothing, ClaimRun, RunType
  <2>2. CASE ReportStart(w) \/ ReportProgress(w) \/ ReportOutcome(w)
    <3>1. daemon[w].task \in Runs
      BY <2>2, <1>t, ReportsFacts DEF ReportStart, ReportProgress, ReportOutcome, Processing
    <3> QED BY <2>2, <3>1, <1>r, <1>f DEF ReportStart, ReportProgress, ReportOutcome
  <2>3. CASE RegisterSelf(w) \/ SendHeartbeat(w)
    BY <2>3, <1>k DEF RegisterSelf, SendHeartbeat, Register, Heartbeat
  <2>4. CASE AskWhetherCancelled(w) \/ EnqueueSync(w) \/ LoseRequest(w) \/ Crash(w) \/ Restart(w)
    BY <2>4, <1>k DEF AskWhetherCancelled, EnqueueSync, LoseRequest, Crash, Restart, vars
  <2> QED BY <1>1, <2>1, <2>2, <2>3, <2>4 DEF DaemonStep
<1>2. ASSUME NEW c \in Runs, Resume(c) \/ Operate(c) PROVE RetriesWithinBudget'
  <2>1. CASE Enqueue(c)
    <3>1. run'[c].retries = 0 /\ \A r \in Runs \ {c} : run'[r] = run[r]
      BY <2>1, <1>t DEF Enqueue, NoRun
    <3> QED BY <3>1, <1>t DEF RetriesWithinBudget
  <2>2. CASE ForceFailRun(c)
    BY <2>2, <1>t, <1>k DEF ForceFailRun, RunType
  <2>3. CASE CancelRun(c)
    BY <2>3, <1>t, <1>k DEF CancelRun, RunType
  <2>4. CASE RequeueRun(c, 1, FALSE)
    BY <2>4, <1>t, <1>k DEF RequeueRun, Requeued, RunType
  <2> QED BY <1>2, <2>1, <2>2, <2>3, <2>4 DEF Resume, Operate
<1>3. CASE Recover
  <2> SUFFICES ASSUME NEW r \in Runs PROVE run'[r].retries <= MaxRetries[r]
    BY DEF RetriesWithinBudget
  <2>1. CASE r \in Abandoned
    <3>1. run'[r] = Recovered(r)
      BY <1>3, <2>1 DEF Recover, RecoverStaleRuns
    <3>2. run[r].retries \in Nat /\ run[r].retries <= MaxRetries[r]
      BY <1>t DEF RetriesWithinBudget, RunType
    <3>3. run'[r].retries = IF run[r].retries >= MaxRetries[r] THEN run[r].retries
                            ELSE run[r].retries + 1
      BY <3>1, <1>t DEF Recovered, Requeued, RunType
    <3> QED BY <3>2, <3>3, <1>t
  <2>2. CASE r \notin Abandoned
    BY <1>3, <2>2 DEF Recover, RecoverStaleRuns, RetriesWithinBudget
  <2> QED BY <2>1, <2>2
<1>4. CASE TimePasses
  BY <1>4, <1>t, <1>k DEF TimePasses, Tick, RunType
<1>5. CASE UNCHANGED fleetVars
  BY <1>5, <1>k DEF fleetVars
<1> QED BY <1>1, <1>2, <1>3, <1>4, <1>5 DEF FleetNext

\* RetriesWithinBudget: without an operator who requeues, only recovery
\* spends retries, and it fails a run that has none left.
THEOREM RetriesStayWithinBudget ==
  ASSUME "requeue" \notin Operators PROVE FleetSpec => []RetriesWithinBudget
<1>1. FleetInit => RetriesWithinBudget
  <2> SUFFICES ASSUME FleetInit, NEW r \in Runs PROVE run[r].retries <= MaxRetries[r]
    BY DEF RetriesWithinBudget
  <2>1. run[r].retries = 0
    BY DEF FleetInit, Init, NoRun
  <2>2. MaxRetries[r] \in Nat
    BY ConstantsAssumption
  <2> QED BY <2>1, <2>2
<1>2. TypeOK /\ FleetTypeOK /\ RetriesWithinBudget /\ [FleetNext]_fleetVars
        => RetriesWithinBudget'
  BY RetriesStep
<1> QED BY <1>1, <1>2, FleetTypeCorrect, FleetKeepsTables, PTL DEF FleetSpec

-----------------------------------------------------------------------------
(* Daemons that keep up with their leases.                                 *)

\* A fleet whose daemons make every call in time, whose runs do not wait for
\* decisions, and whose operators do nothing but cancel.
Calm == ~Overruns /\ Operators \subseteq {"cancel"} /\ \A o \in Outcomes : ~o[2]

\* What a daemon has in hand is leased to it and running once its first
\* report was accepted; before that it may have been cancelled.
HoldsIt(w) ==
    daemon[w].at \in Processing =>
        \/ daemon[w].at = "claimed" /\ run[daemon[w].task].status \in Terminal
        \/ /\ Live(daemon[w].task) /\ lease[daemon[w].task].holder = w
           /\ daemon[w].at # "claimed" => run[daemon[w].task].status = "running"

CalmInv == /\ \A w \in Workers : HoldsIt(w)
           /\ \A r \in Runs : ~run[r].paused

\* A lease that is in force outlives a sweep.
LEMMA SweptKeepsLive ==
  ASSUME NEW r \in Runs, Live(r), lease'[r] = Swept[r] PROVE Live(r)' /\ lease'[r] = lease[r]
BY DEF Swept, Live

\* A daemon keeps what it holds in a step that leaves its place, its lease
\* and the status of its run alone.
LEMMA HoldsOn ==
  ASSUME NEW u \in Workers, HoldsIt(u), daemon'[u].at = daemon[u].at,
         daemon'[u].task = daemon[u].task,
         daemon[u].at \in Processing =>
             /\ run'[daemon[u].task].status = run[daemon[u].task].status
             /\ \/ run[daemon[u].task].status \in Terminal
                \/ Live(daemon[u].task) =>
                     /\ Live(daemon[u].task)'
                     /\ lease'[daemon[u].task].holder = lease[daemon[u].task].holder
  PROVE  HoldsIt(u)'
<1> DEFINE t == daemon[u].task
<1>1. CASE daemon[u].at \in Processing /\ run[t].status \in Terminal
  <2>1. daemon[u].at = "claimed"
    BY <1>1 DEF HoldsIt, Terminal
  <2> QED BY <1>1, <2>1 DEF HoldsIt
<1>2. CASE daemon[u].at \in Processing /\ run[t].status \notin Terminal
  <2>1. /\ Live(t)' /\ lease'[t].holder = u
        /\ daemon[u].at # "claimed" => run'[t].status = "running"
    BY <1>2 DEF HoldsIt
  <2> QED BY <1>2, <2>1 DEF HoldsIt, Live
<1>3. CASE daemon[u].at \notin Processing
  BY <1>3 DEF HoldsIt
<1> QED BY <1>1, <1>2, <1>3

LEMMA CalmStep ==
  ASSUME Calm, TypeOK, LeaseMatchesRun, FleetTypeOK, CalmInv, [FleetNext]_fleetVars
  PROVE  CalmInv'
<1>t. /\ run \in [Runs -> RunType] /\ lease \in [Runs -> LeaseType]
      /\ Swept \in [Runs -> LeaseType]
      /\ daemon \in [Workers -> DaemonType]
      /\ \A v \in Workers : Consistent(daemon[v])
      /\ \A v \in Workers : daemon[v].at \in Processing => daemon[v].task \in Runs
  BY FleetTypeFacts, SweptType DEF TypeOK
<1>h. \A v \in Workers : HoldsIt(v)
  BY DEF CalmInv
<1>p. \A r \in Runs : ~run[r].paused
  BY DEF CalmInv
<1>l. {"down", "starting", "polling"} \subseteq Places \ Processing /\ Processing \subseteq Places
  BY DEF Places, Processing
\* Leases and statuses that only the sweep touched.
<1>o. ASSUME NEW v \in Workers, daemon'[v].at = daemon[v].at, daemon'[v].task = daemon[v].task,
             daemon[v].at \in Processing =>
               /\ run'[daemon[v].task].status = run[daemon[v].task].status
               /\ lease'[daemon[v].task] \in {lease[daemon[v].task], Swept[daemon[v].task]}
      PROVE  HoldsIt(v)'
  <2> DEFINE t == daemon[v].task
  <2>1. ASSUME t \in Runs, lease[t].active /\ lease[t].left > 0, lease'[t] \in {lease[t], Swept[t]}
        PROVE  lease'[t].active /\ lease'[t].left > 0 /\ lease'[t].holder = lease[t].holder
    BY <2>1 DEF Swept, Live
  <2> QED BY <2>1, <1>o, <1>t, <1>h, HoldsOn DEF Live
\* A daemon that processes nothing holds nothing.
<1>i. ASSUME NEW v \in Workers, daemon'[v].at \notin Processing PROVE HoldsIt(v)'
  BY <1>i DEF HoldsIt
<1>n. ASSUME UNCHANGED run PROVE \A r \in Runs : ~run'[r].paused
  BY <1>n, <1>p
<1>k. ASSUME \A v \in Workers : HoldsIt(v)', \A r \in Runs : ~run'[r].paused PROVE CalmInv'
  BY <1>k DEF CalmInv
\* What a claim of r does to the daemons.
<1>v. ASSUME NEW w \in Workers, NEW r \in Runs, Receives(w, r)
      PROVE  /\ \A u \in Workers \ {w} :
                  daemon'[u].at = daemon[u].at /\ daemon'[u].task = daemon[u].task
             /\ \/ daemon'[w].at = "claimed" /\ daemon'[w].task = r
                \/ daemon'[w].at \notin Processing
  <2>1. /\ \A u \in Workers \ {w} :
             daemon'[u] = IF daemon[u].task = r THEN [daemon[u] EXCEPT !.current = FALSE]
                          ELSE daemon[u]
        /\ \/ daemon'[w] = [at |-> "claimed", task |-> r, current |-> TRUE]
           \/ daemon'[w] = At("polling")
    BY <1>v, ReceivesFacts
  <2>2. At("polling").at \notin Processing
    BY DEF At, Processing
  <2>3. ASSUME NEW u \in Workers \ {w}
        PROVE  daemon'[u].at = daemon[u].at /\ daemon'[u].task = daemon[u].task
    <3>1. \/ daemon'[u] = [daemon[u] EXCEPT !.current = FALSE]
          \/ daemon'[u] = daemon[u]
      BY <2>1
    <3> QED BY <3>1, <1>t DEF DaemonType
  <2>4. \/ daemon'[w].at = "claimed" /\ daemon'[w].task = r
        \/ daemon'[w].at \notin Processing
    BY <2>1, <2>2
  <2> QED BY <2>3, <2>4
\* A step of w that only reads the queue.
<1>g. ASSUME NEW w \in Workers, NEW place \in Places \ Processing, GoesTo(w, place),
             UNCHANGED run, lease' \in {lease, Swept}
      PROVE  CalmInv'
  <2>1. /\ daemon'[w].at = place
        /\ \A u \in Workers \ {w} : daemon'[u] = daemon[u]
    BY <1>g, <1>l, GoesToFacts
  <2>2. \A v \in Workers : HoldsIt(v)'
    BY <2>1, <1>g, <1>o, <1>i
  <2> QED BY <2>2, <1>g, <1>n, <1>k
\* A report of the run in hand is one of a run leased to w, and to nobody else.
<1>r. ASSUME NEW w \in Workers, NEW status \in Reportable, NEW pausing, ~pausing,
             daemon[w].at \in Processing, Report(w, daemon[w].task, status, pausing),
             \A u \in Workers \ {w} : daemon'[u] = daemon[u],
             \/ daemon'[w].at \notin Processing
             \/ /\ status = "running" /\ daemon'[w].task = daemon[w].task
      PROVE  CalmInv'
  <2> DEFINE t == daemon[w].task
  <2>1. t \in Runs /\ run[t].status \in {"queued", "running"}
    BY <1>r, <1>t DEF Report, MayReport
  <2>2. lease[t].active /\ lease[t].left > 0 /\ lease[t].holder = w
    BY <2>1, <1>r, <1>h DEF HoldsIt, Live, Terminal
  <2>3. /\ run' = [run EXCEPT ![t].status = status, ![t].paused = @ \/ pausing]
        /\ lease' = [Swept EXCEPT ![t] = LeaseAfterReport(t, status, pausing)]
    BY <1>r DEF Report
  <2>4. \A r \in Runs : ~run'[r].paused
    BY <2>3, <1>r, <1>p, <1>t DEF RunType
  <2>5. ASSUME NEW u \in Workers \ {w} PROVE HoldsIt(u)'
    <3>1. daemon[u].at \in Processing => daemon[u].task # t
      BY <2>1, <2>2, <1>h DEF HoldsIt, Live, Terminal
    <3> QED BY <3>1, <2>3, <1>r, <1>t, <1>o
  <2>6. ASSUME status = "running", daemon'[w].task = t PROVE HoldsIt(w)'
    <3>1. lease'[t] = [lease[t] EXCEPT !.left = TTL(t)] /\ run'[t].status = "running"
      BY <2>1, <2>2, <2>3, <2>6, <1>r, <1>t DEF LeaseAfterReport, Live, RunType
    <3>2. lease'[t].active /\ lease'[t].left > 0 /\ lease'[t].holder = w
      BY <3>1, <2>1, <2>2, <1>t, TTLType DEF LeaseType
    <3> QED BY <2>6, <3>1, <3>2 DEF HoldsIt, Live
  <2>7. \A v \in Workers : HoldsIt(v)'
    BY <2>5, <2>6, <1>r, <1>i
  <2> QED BY <2>4, <2>7, <1>k
\* A daemon whose first report was accepted goes on with its run.
<1>e. ASSUME NEW w \in Workers, NEW place \in Processing, GoesTo(w, place),
             daemon[w].at \in Processing \ {"claimed"}, UNCHANGED <<run, lease>>
      PROVE  CalmInv'
  <2>1. /\ daemon'[w].at = place /\ daemon'[w].task = daemon[w].task
        /\ \A u \in Workers \ {w} : daemon'[u] = daemon[u]
    BY <1>e, <1>l, GoesToFacts
  <2>2. HoldsIt(w)'
    BY <2>1, <1>e, <1>h DEF HoldsIt, Live
  <2>3. \A v \in Workers : HoldsIt(v)'
    BY <2>1, <2>2, <1>e, <1>o
  <2> QED BY <2>3, <1>e, <1>n, <1>k
\* A refused report has no other effect than the sweep.
<1>f. ASSUME NEW w \in Workers, Refused(w)
      PROVE  UNCHANGED run /\ lease' \in {lease, Swept}
  BY <1>f DEF Refused, ReportRefused, vars
<1>1. ASSUME NEW w \in Workers, DaemonStep(w) PROVE CalmInv'
  <2>1. CASE RegisterSelf(w) \/ SendHeartbeat(w)
    BY <2>1, <1>g, <1>l DEF RegisterSelf, SendHeartbeat, Register, Heartbeat, Returns
  <2>2. CASE Poll(w)
    <3>1. ASSUME NEW q \in Queues, ClaimNothing(w, q), UNCHANGED daemon PROVE CalmInv'
      BY <3>1, <1>o, <1>n, <1>k DEF ClaimNothing
    <3>2. ASSUME NEW q \in Queues, NEW r \in Runs, ClaimRun(w, q, r), Receives(w, r)
          PROVE  CalmInv'
      <4>1. run[r].status = "queued" /\ ~Live(r)
        BY <3>2 DEF ClaimRun, Offered, Ready
      <4>2. /\ run' = [run EXCEPT ![r].worker = w]
            /\ lease' = [Swept EXCEPT ![r] = [holder |-> w, active |-> TRUE, left |-> TTL(r)]]
        BY <3>2 DEF ClaimRun
      <4>3. ASSUME NEW u \in Workers \ {w} PROVE HoldsIt(u)'
        <5>1. daemon'[u].at = daemon[u].at /\ daemon'[u].task = daemon[u].task
          BY <3>2, <1>v
        <5>2. daemon[u].at \in Processing => daemon[u].task # r
          BY <4>1, <1>h DEF HoldsIt, Terminal
        <5> QED BY <5>1, <5>2, <4>2, <1>t, <1>o
      <4>4. HoldsIt(w)'
        <5>1. lease'[r].active /\ lease'[r].left > 0 /\ lease'[r].holder = w
          BY <4>2, <1>t, TTLType
        <5> QED BY <5>1, <3>2, <1>v, <1>i DEF HoldsIt, Live
      <4>5. \A c \in Runs : ~run'[c].paused
        BY <4>2, <1>p, <1>t DEF RunType
      <4>6. \A v \in Workers : HoldsIt(v)'
        BY <4>3, <4>4
      <4> QED BY <4>5, <4>6, <1>k
    <3>3. ASSUME NEW q \in Queues, NEW r \in HeldBy(w, q), ClaimAgain(w, q), Receives(w, r)
          PROVE  CalmInv'
      <4>1. r \in Runs /\ Live(r) /\ lease[r].holder = w
        BY DEF HeldBy
      <4>2. run' = run /\ lease' = Swept
        BY <3>3 DEF ClaimAgain
      <4>3. \A u \in Workers \ {w} : HoldsIt(u)'
        BY <3>3, <4>1, <4>2, <1>v, <1>o
      <4>4. HoldsIt(w)'
        <5>1. lease'[r].active /\ lease'[r].left > 0 /\ lease'[r].holder = w
          BY <4>1, <4>2 DEF Swept, Live
        <5> QED BY <5>1, <4>1, <3>3, <1>v, <1>i DEF HoldsIt, Live
      <4>5. \A v \in Workers : HoldsIt(v)'
        BY <4>3, <4>4
      <4> QED BY <4>2, <4>5, <1>n, <1>k
    <3> QED BY <2>2, <3>1, <3>2, <3>3 DEF Poll
  <2>3. CASE ReportStart(w)
    <3>0. daemon[w].at \in Processing /\ "running" \in Reportable /\ "asking" \in Processing
      BY <2>3 DEF ReportStart, Processing, Reportable
    <3>1. CASE Refused(w) /\ GoesTo(w, "polling")
      BY <3>1, <1>f, <1>g, <1>l
    <3>2. CASE Report(w, daemon[w].task, "running", FALSE) /\ Returns(w, "asking", "polling")
      <4>1. /\ \A u \in Workers \ {w} : daemon'[u] = daemon[u]
            /\ daemon'[w].at \notin Processing \/ daemon'[w].task = daemon[w].task
        BY <3>0, <3>2, <1>l, GoesToFacts DEF Returns
      <4> QED BY <3>0, <3>2, <4>1, <1>r
    <3> QED BY <2>3, <3>1, <3>2 DEF ReportStart
  <2>4. CASE AskWhetherCancelled(w)
    BY <2>4, <1>e DEF AskWhetherCancelled, Processing, vars
  <2>5. CASE ReportProgress(w)
    <3>0. daemon[w].at \in Processing /\ "running" \in Reportable /\ UNCHANGED daemon
      BY <2>5 DEF ReportProgress, Processing, Reportable, local
    <3>1. CASE Refused(w)
      BY <3>0, <3>1, <1>f, <1>o, <1>n, <1>k
    <3>2. CASE Report(w, daemon[w].task, "running", FALSE)
      BY <3>0, <3>2, <1>r
    <3> QED BY <2>5, <3>1, <3>2 DEF ReportProgress
  <2>6. CASE EnqueueSync(w)
    BY <2>6, <1>e, <1>g, <1>l DEF EnqueueSync, Returns, Processing, vars
  <2>7. CASE ReportOutcome(w)
    <3>1. PICK o \in Reports(w) :
            \/ Report(w, daemon[w].task, o[1], o[2]) /\ GoesTo(w, "polling")
            \/ Refused(w) /\ GoesTo(w, "polling")
      BY <2>7 DEF ReportOutcome, Returns
    <3>2. daemon[w].at \in Processing /\ o[1] \in Reportable /\ ~o[2]
      BY ReportsFacts DEF Calm
    <3>3. /\ \A u \in Workers \ {w} : daemon'[u] = daemon[u]
          /\ daemon'[w].at \notin Processing
      BY <3>1, <1>l, GoesToFacts
    <3>4. CASE Report(w, daemon[w].task, o[1], o[2])
      BY <3>2, <3>3, <3>4, <1>r
    <3>5. CASE Refused(w)
      BY <3>1, <3>5, <1>f, <1>g, <1>l
    <3> QED BY <3>1, <3>4, <3>5
  <2>8. CASE LoseRequest(w) \/ Crash(w) \/ Restart(w)
    BY <2>8, <1>g, <1>l DEF LoseRequest, Crash, Restart, vars
  <2> QED BY <1>1, <2>1, <2>2, <2>3, <2>4, <2>5, <2>6, <2>7, <2>8 DEF DaemonStep
<1>2. ASSUME NEW c \in Runs, Resume(c) \/ Operate(c) PROVE CalmInv'
  <2>1. UNCHANGED daemon /\ (Enqueue(c) \/ CancelRun(c))
    BY <1>2, <1>p DEF Resume, Operate, Calm, local
  <2>2. CASE Enqueue(c)
    <3>1. /\ run[c].status = "absent" /\ run'[c].paused = FALSE /\ lease' = lease
          /\ \A r \in Runs \ {c} : run'[r] = run[r]
      BY <2>2, <1>t DEF Enqueue, NoRun
    <3>2. ASSUME NEW v \in Workers PROVE HoldsIt(v)'
      <4>1. daemon[v].at \in Processing => daemon[v].task # c
        BY <3>1, <1>h DEF HoldsIt, Live, LeaseMatchesRun, Terminal
      <4> QED BY <4>1, <3>1, <2>1, <1>t, <1>o
    <3> QED BY <3>1, <3>2, <1>p, <1>k
  <2>3. CASE CancelRun(c)
    <3>1. /\ \A r \in Runs : ~run'[r].paused
          /\ \A r \in Runs \ {c} : run'[r] = run[r] /\ lease'[r] = lease[r]
          /\ \/ run[c].status = "queued" /\ run'[c].status = "cancelled"
             \/ run'[c].status = run[c].status /\ lease'[c] = lease[c]
      BY <2>3, <1>t, <1>p DEF CancelRun, RunType
    <3>2. ASSUME NEW v \in Workers PROVE HoldsIt(v)'
      <4>1. CASE daemon[v].task = c /\ run[c].status = "queued"
        <5>1. daemon[v].at \in Processing => daemon[v].at = "claimed"
          BY <4>1, <1>h DEF HoldsIt, Terminal
        <5>2. \/ run'[c].status \in Terminal
              \/ run'[c].status = run[c].status /\ lease'[c] = lease[c]
          BY <3>1 DEF Terminal
        <5>3. CASE run'[c].status \in Terminal
          BY <4>1, <5>1, <5>3, <2>1 DEF HoldsIt
        <5>4. CASE run'[c].status = run[c].status /\ lease'[c] = lease[c]
          BY <4>1, <5>4, <2>1, <1>o
        <5> QED BY <5>2, <5>3, <5>4
      <4>2. CASE ~(daemon[v].task = c /\ run[c].status = "queued")
        BY <3>1, <4>2, <2>1, <1>t, <1>o
      <4> QED BY <4>1, <4>2
    <3> QED BY <3>1, <3>2, <1>k
  <2> QED BY <2>1, <2>2, <2>3
<1>3. CASE Recover
  <2>1. \A r \in Runs : ~run'[r].paused
    BY <1>3, <1>p, <1>t DEF Recover, RecoverStaleRuns, Recovered, Requeued, RunType
  <2>2. ASSUME NEW v \in Workers PROVE HoldsIt(v)'
    <3>1. daemon'[v].at = daemon[v].at /\ daemon'[v].task = daemon[v].task
      BY <1>3, <1>t, SupersedeFacts, ZenonT(60) DEF Recover, DaemonType
    <3>2. daemon[v].at \in Processing => daemon[v].task \notin Abandoned
      BY <1>h DEF HoldsIt, Abandoned, Terminal
    <3> QED BY <3>1, <3>2, <1>3, <1>t, <1>o DEF Recover, RecoverStaleRuns
  <2> QED BY <2>1, <2>2, <1>k
<1>4. CASE TimePasses
  <2>1. /\ run' = [r \in Runs |-> [run[r] EXCEPT !.wait = Sooner(@), !.sticky = Sooner(@)]]
        /\ lease' = [r \in Runs |-> [lease[r] EXCEPT !.left = Sooner(@)]]
        /\ UNCHANGED daemon
    BY <1>4 DEF TimePasses, Tick, local
  <2>2. \A r \in Runs : ~run'[r].paused
    BY <2>1, <1>p, <1>t DEF RunType
  <2>3. ASSUME NEW v \in Workers PROVE HoldsIt(v)'
    <3> DEFINE t == daemon[v].task
    <3>1. ASSUME t \in Runs, lease[t].active, lease[t].left > 0, lease[t].left # 1
          PROVE  lease'[t].active /\ lease'[t].left > 0 /\ lease'[t].holder = lease[t].holder
      <4>1. lease[t].left \in Nat /\ lease'[t] = [lease[t] EXCEPT !.left = lease[t].left - 1]
        BY <3>1, <2>1, <1>t DEF Sooner, LeaseType
      <4> QED BY <4>1, <3>1, <1>t DEF LeaseType
    <3>2. daemon[v].at \in Processing => lease[t].left # 1
      BY <1>4 DEF TimePasses, Calm
    <3>3. t \in Runs => run'[t].status = run[t].status
      BY <2>1, <1>t DEF RunType
    <3> QED BY <3>1, <3>2, <3>3, <2>1, <1>t, <1>h, HoldsOn DEF Live
  <2> QED BY <2>2, <2>3, <1>k
<1>5. CASE UNCHANGED fleetVars
  BY <1>5, <1>o, <1>n, <1>k DEF fleetVars
<1> QED BY <1>1, <1>2, <1>3, <1>4, <1>5 DEF FleetNext

\* ExecutorHoldsLease in a calm fleet, however often its daemons crash and
\* lose answers: a lease is given up by its holder or after it lapsed, and
\* the holder is asking for nothing else meanwhile.
THEOREM ExecutorsHoldLeases == ASSUME Calm PROVE FleetSpec => []ExecutorHoldsLease
<1>1. FleetInit => CalmInv
  <2> SUFFICES ASSUME FleetInit PROVE CalmInv
    OBVIOUS
  <2>1. \A w \in Workers : daemon[w].at = "starting"
    BY DEF FleetInit, At
  <2>2. \A r \in Runs : ~run[r].paused
    BY DEF FleetInit, Init, NoRun
  <2> QED BY <2>1, <2>2 DEF CalmInv, HoldsIt, Processing
<1>2. TypeOK /\ LeaseMatchesRun /\ FleetTypeOK /\ CalmInv /\ [FleetNext]_fleetVars => CalmInv'
  BY CalmStep
<1>3. CalmInv => ExecutorHoldsLease
  BY DEF CalmInv, HoldsIt, ExecutorHoldsLease, LiveHolder, Processing
<1> QED BY <1>1, <1>2, <1>3, FleetTypeCorrect, FleetKeepsTables, PTL DEF FleetSpec

=============================================================================
