---------------------------- MODULE WorkerSchedule ----------------------------
(***************************************************************************)
(* WorkerScheduleService and WorkerScheduleDaemon: schedules that enqueue  *)
(* worker runs.  A call reads a schedule, enqueues, saves the schedule it  *)
(* read with its changes, and brings the APScheduler job of the daemon in  *)
(* line with it; no step is atomic with the next.  The daemon never scans: *)
(* what is not armed as a job fires only when somebody ticks.              *)
(***************************************************************************)
EXTENDS Integers, FiniteSets, Sequences

CONSTANTS
    Schedules,
    Once,          \* the schedules in mode once; the others have an interval
    Interval,
    Grace,         \* misfire_grace_time
    Calls,         \* calls in progress at once; one means nothing overlaps
    MayRefuse,     \* whether enqueueing may fail
    Horizon,       \* bound: the last instant
    MaxRuns,       \* bound: see FewRuns
    MaxOutages     \* bound: how often the process is killed

Never == -1
Times == 0..Horizon

ASSUME ScheduleAssumption ==
    /\ Once \subseteq Schedules /\ Interval \in Nat \ {0} /\ Grace \in Nat
    /\ MayRefuse \in BOOLEAN /\ Horizon \in Nat /\ MaxRuns \in Nat /\ MaxOutages \in Nat

VARIABLES
    schedule,   \* the repository
    jobAt,      \* run date of each APScheduler job, in memory
    calling,    \* the calls in progress
    up,         \* the process, and the daemon with it
    clock,
    queued,     \* the worker runs each schedule has enqueued
    served,     \* <<schedule, occurrence>>: the occurrences fired
    repeats,    \* how often an occurrence was fired again
    lost,       \* schedules whose job is gone without having fired
    stops

scheduleVars == <<schedule, jobAt, calling, up, clock, queued, served, repeats, lost, stops>>
kept == <<schedule, queued, served, repeats>>

NoSchedule == [known |-> FALSE, enabled |-> FALSE, next |-> Never, count |-> 0]
NotCalling == [todo |-> <<>>]

ScheduleInit ==
    /\ schedule = [s \in Schedules |-> NoSchedule]
    /\ jobAt = [s \in Schedules |-> Never]
    /\ calling = [i \in Calls |-> NotCalling]
    /\ up = TRUE
    /\ clock = 0
    /\ queued = [s \in Schedules |-> 0]
    /\ served = {} /\ repeats = 0 /\ lost = {} /\ stops = 0

-----------------------------------------------------------------------------
(* A call: its kind, its schedule, when it began, the accesses still to    *)
(* make, the records it has read, and for a tick the schedules still due.  *)

Automatic == {"tick", "fire"}

Steps(kind) ==
    CASE kind = "create" -> <<"create", "sync">>
      [] kind = "pause" -> <<"read", "pause", "sync">>
      [] kind = "resume" -> <<"read", "resume", "sync">>
      [] kind = "tick" -> <<"list", "next">>
      [] OTHER -> <<"read", "enqueue", "save", "sync">>

NewCall(kind, s) ==
    [todo |-> Steps(kind), kind |-> kind, of |-> s, at |-> clock, seen |-> schedule, rest |-> {}]

BusyWith(s) == \E i \in Calls : calling[i].todo # <<>> /\ calling[i].of = s
Does(i, access) == calling[i].todo # <<>> /\ Head(calling[i].todo) = access
Proceeds(i, q, todo) ==
    calling' = [calling EXCEPT ![i] = IF todo = <<>> THEN NotCalling ELSE [q EXCEPT !.todo = todo]]
CallGoesOn(i, q) == Proceeds(i, q, Tail(q.todo))

BeginCall(i, kind, s) ==
    /\ up /\ calling[i].todo = <<>>
    /\ kind \in {"create", "pause", "resume", "trigger", "tick"}
    /\ (kind = "create") # schedule[s].known
    /\ kind = "create" => ~BusyWith(s)
    /\ calling' = [calling EXCEPT ![i] = NewCall(kind, s)]
    /\ UNCHANGED <<kept, jobAt, up, clock, lost, stops>>

ReadSchedule(i) ==
    /\ Does(i, "read")
    /\ CallGoesOn(i, [calling[i] EXCEPT !.seen = schedule])
    /\ UNCHANGED <<kept, jobAt, up, clock, lost, stops>>

\* Mutant of Keep: the daemon is shown the record as it was read.
KeepButSyncOld(i, r) ==
    LET q == calling[i] IN
    /\ schedule' = [schedule EXCEPT ![q.of] = r]
    /\ CallGoesOn(i, q)

\* Saves record r for the call's schedule and goes on to sync it.
Keep(i, r) ==
    LET q == calling[i] IN
    /\ schedule' = [schedule EXCEPT ![q.of] = r]
    /\ CallGoesOn(i, [q EXCEPT !.seen[q.of] = r])

\* Whatever was fired before, the occurrences from now on are new ones.
Renewed(s) == {o \in served : o[1] # s}

\* create_schedule: a first run at the given time or at once.
CreateSchedule(i) ==
    /\ Does(i, "create")
    /\ \E next \in {calling[i].at} \union Times, on \in BOOLEAN :
         Keep(i, [known |-> TRUE, enabled |-> on, next |-> next, count |-> 0])
    /\ UNCHANGED <<jobAt, up, clock, queued, served, repeats, lost, stops>>

Pause(i) ==
    /\ Does(i, "pause")
    /\ Keep(i, [calling[i].seen[calling[i].of] EXCEPT !.enabled = FALSE])
    /\ UNCHANGED <<jobAt, up, clock, queued, served, repeats, lost, stops>>

\* resume_schedule: at the time given, or when it was due, or at once.
Resume(i) ==
    /\ Does(i, "resume")
    /\ LET r == calling[i].seen[calling[i].of] IN
       \E next \in Times \union {IF r.next = Never THEN calling[i].at ELSE r.next} :
          Keep(i, [r EXCEPT !.enabled = TRUE, !.next = next])
    /\ served' = Renewed(calling[i].of)
    /\ UNCHANGED <<jobAt, up, clock, queued, repeats, lost, stops>>

-----------------------------------------------------------------------------
(* trigger_schedule and trigger_due *)

IsDue(r, at) == r.enabled /\ r.next # Never /\ r.next <= at

\* trigger_due reads all schedules once ...
List(i) ==
    /\ Does(i, "list")
    /\ LET q == calling[i] IN
       CallGoesOn(i, [q EXCEPT !.seen = schedule,
                           !.rest = {s \in Schedules : IsDue(schedule[s], q.at)}])
    /\ UNCHANGED <<kept, jobAt, up, clock, lost, stops>>

\* ... and triggers those that are due, the earliest first.
NextDue(i) ==
    /\ Does(i, "next")
    /\ LET q == calling[i] IN
       \/ q.rest = {} /\ CallGoesOn(i, q)
       \/ \E s \in q.rest :
            /\ \A u \in q.rest : q.seen[s].next <= q.seen[u].next
            /\ Proceeds(i, [q EXCEPT !.of = s, !.rest = @ \ {s}],
                        <<"enqueue", "save", "sync", "next">>)
    /\ UNCHANGED <<kept, jobAt, up, clock, lost, stops>>

\* One more worker run, and for which occurrence.
Enqueue(i) ==
    /\ Does(i, "enqueue")
    /\ LET q == calling[i]  o == <<q.of, q.seen[q.of].next>> IN
       /\ queued' = [queued EXCEPT ![q.of] = @ + 1]
       /\ IF q.kind \in Automatic
          THEN /\ served' = served \union {o}
               /\ repeats' = IF o \in served THEN repeats + 1 ELSE repeats
          ELSE UNCHANGED <<served, repeats>>
       /\ CallGoesOn(i, q)
    /\ UNCHANGED <<schedule, jobAt, up, clock, lost, stops>>

\* The queue refuses: trigger gives up, a tick notes the error in the
\* schedule, which saves and syncs it as it was read.
EnqueueFails(i) ==
    /\ MayRefuse /\ Does(i, "enqueue")
    /\ LET q == calling[i] IN
       /\ Proceeds(i, q, IF q.kind = "tick" THEN <<"note", "sync", "next">> ELSE <<>>)
       /\ lost' = IF q.kind = "fire" THEN lost \union {q.of} ELSE lost
    /\ UNCHANGED <<kept, jobAt, up, clock, stops>>

NoteError(i) ==
    /\ Does(i, "note")
    /\ Keep(i, calling[i].seen[calling[i].of])
    /\ UNCHANGED <<jobAt, up, clock, queued, served, repeats, lost, stops>>

\* Mutant of AfterTrigger: only the daemon's own trigger moves a schedule on.
AfterTriggerByDaemon(r, s, q) ==
    LET counted == [r EXCEPT !.count = @ + 1] IN
    IF q.kind # "fire" THEN counted
    ELSE IF s \in Once THEN [counted EXCEPT !.enabled = FALSE, !.next = Never]
    ELSE [counted EXCEPT !.next = (IF r.next = Never THEN q.at ELSE r.next) + Interval]

\* _update_after_trigger: only what time triggered moves the schedule on, by
\* one interval from when it was due.
AfterTrigger(r, s, q) ==
    LET counted == [r EXCEPT !.count = @ + 1] IN
    IF q.kind \notin Automatic THEN counted
    ELSE IF s \in Once THEN [counted EXCEPT !.enabled = FALSE, !.next = Never]
    ELSE [counted EXCEPT !.next = (IF r.next = Never THEN q.at ELSE r.next) + Interval]

SaveTriggered(i) ==
    /\ Does(i, "save")
    /\ LET q == calling[i] IN Keep(i, AfterTrigger(q.seen[q.of], q.of, q))
    /\ UNCHANGED <<jobAt, up, clock, queued, served, repeats, lost, stops>>

-----------------------------------------------------------------------------
(* The daemon and its APScheduler jobs *)

JobFor(r) == IF r.enabled THEN r.next ELSE Never

\* sync_schedule, with the record the call saved.
Sync(i) ==
    /\ Does(i, "sync")
    /\ LET q == calling[i] IN
       /\ jobAt' = [jobAt EXCEPT ![q.of] = JobFor(q.seen[q.of])]
       /\ lost' = lost \ {q.of}
       /\ CallGoesOn(i, q)
    /\ UNCHANGED <<kept, up, clock, stops>>

Firing(s) == \E i \in Calls : calling[i].todo # <<>> /\ calling[i].kind = "fire" /\ calling[i].of = s
IsOver(s) == jobAt[s] # Never /\ jobAt[s] <= clock
Drops(s) == jobAt' = [jobAt EXCEPT ![s] = Never]

\* APScheduler: a job that is due leaves the store.  It runs in a thread ...
Fire(i, s) ==
    /\ up /\ calling[i].todo = <<>>
    /\ IsOver(s) /\ clock - jobAt[s] <= Grace /\ ~Firing(s)
    /\ Drops(s)
    /\ calling' = [calling EXCEPT ![i] = NewCall("fire", s)]
    /\ UNCHANGED <<kept, up, clock, lost, stops>>

\* ... unless it is too late, or its last run has not ended (max_instances).
Misfire(s) ==
    /\ up /\ IsOver(s) /\ (clock - jobAt[s] > Grace \/ Firing(s))
    /\ Drops(s)
    /\ lost' = lost \union {s}
    /\ UNCHANGED <<kept, calling, up, clock, stops>>

\* Mutant of Start: the schedules are armed by their next trigger only.
StartUnarmed ==
    /\ ~up
    /\ up' = TRUE
    /\ lost' = {}
    /\ UNCHANGED <<kept, jobAt, calling, clock, stops>>

\* WorkerScheduleDaemon.start: every schedule is armed anew.
Start ==
    /\ ~up
    /\ up' = TRUE
    /\ jobAt' = [s \in Schedules |-> JobFor(schedule[s])]
    /\ lost' = {}
    /\ UNCHANGED <<kept, calling, clock, stops>>

StopDaemon ==
    /\ up /\ stops < MaxOutages
    /\ up' = FALSE
    /\ stops' = stops + 1
    /\ jobAt' = [s \in Schedules |-> Never]
    /\ calling' = [i \in Calls |-> NotCalling]
    /\ UNCHANGED <<kept, clock, lost>>

\* Time passes; while the process is up, it does not pass a job that is due.
Pass ==
    /\ clock < Horizon
    /\ up => \A s \in Schedules : ~IsOver(s)
    /\ clock' = clock + 1
    /\ UNCHANGED <<kept, jobAt, calling, up, lost, stops>>

Proceed(i) ==
    \/ ReadSchedule(i) \/ CreateSchedule(i) \/ Pause(i) \/ Resume(i) \/ List(i) \/ NextDue(i)
    \/ Enqueue(i) \/ EnqueueFails(i) \/ NoteError(i) \/ SaveTriggered(i) \/ Sync(i)

Background == Start \/ \E s \in Schedules : Misfire(s) \/ \E i \in Calls : Fire(i, s)

\* Bound: operators call only while few runs have been enqueued.
FewRuns == \A s, u \in Schedules : queued[s] + queued[u] <= MaxRuns

ScheduleNext ==
    \/ \E i \in Calls, s \in Schedules, kind \in {"create", "pause", "resume", "trigger", "tick"} :
         FewRuns /\ BeginCall(i, kind, s)
    \/ \E i \in Calls : Proceed(i)
    \/ Background \/ StopDaemon \/ Pass

ScheduleSpec == ScheduleInit /\ [][ScheduleNext]_scheduleVars

\* Calls in progress go on, the process is started again, and APScheduler has
\* threads of its own: other calls cannot keep a due job from its turn.
ScheduleFairness ==
    /\ \A i \in Calls : WF_scheduleVars(Proceed(i))
    /\ WF_scheduleVars(Start)
    /\ \A s \in Schedules :
         /\ WF_scheduleVars(Misfire(s))
         /\ SF_scheduleVars(\E i \in Calls : Fire(i, s))

-----------------------------------------------------------------------------
(* Properties. *)

Record == [known : BOOLEAN, enabled : BOOLEAN, next : Nat \union {Never}, count : Nat]

\* Schedules, jobs and calls are well formed.
ScheduleTypeOK ==
    /\ schedule \in [Schedules -> Record]
    /\ jobAt \in [Schedules -> Nat \union {Never}]
    /\ \A i \in Calls : calling[i].todo # <<>> =>
         /\ calling[i].of \in Schedules /\ calling[i].seen \in [Schedules -> Record]
         /\ calling[i].rest \subseteq Schedules
    /\ queued \in [Schedules -> Nat]
    /\ lost \subseteq Schedules
    /\ stops \in 0..MaxOutages

\* An occurrence fires once, whether the daemon or a tick fires it; only a
\* kill between enqueueing and saving fires it again.
OccurrencesFireOnce == repeats <= stops

\* While nobody works on a schedule, its job says what the repository says:
\* pauses, resumes, triggers, refusals and restarts leave no job behind and
\* lose none, except one APScheduler dropped or whose run was refused.
JobMatchesSchedule ==
    \A s \in Schedules :
        up /\ ~BusyWith(s) =>
            jobAt[s] = IF schedule[s].enabled /\ s \notin lost THEN schedule[s].next ELSE Never

\* A schedule that is due fires, through restarts and refusals, as long as
\* APScheduler has not dropped its job: again and again it is not due.
DueIsFired == \A s \in Schedules : []<>(IsDue(schedule[s], clock) => s \in lost)

=============================================================================
