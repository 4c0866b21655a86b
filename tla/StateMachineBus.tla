---------------------------- MODULE StateMachineBus ----------------------------
(***************************************************************************)
(* StateMachineBus: a task queue in one SQLite table, shared by agents in  *)
(* several processes.  consume and mark_failed read a row and then update  *)
(* it; only consume makes its update conditional.  Each statement is one   *)
(* step.  Tasks of different topics never meet, so one topic is modelled.  *)
(***************************************************************************)
EXTENDS Integers

CONSTANTS
    Tasks, Consumers,
    NoTask,
    MaxRetries,   \* the max_retries argument of mark_failed
    MaxDeaths    \* bound: how often an agent dies with a task in hand

ASSUME BusAssumption == NoTask \notin Tasks /\ MaxRetries \in Nat

VARIABLES
    row,        \* task_queue: status, retry_count, id
    agent,      \* where each consumer is, and the task and count it read
    published,  \* the last id given out
    deaths,
    orphans,    \* the tasks agents died with; only properties read it
    attempts    \* how often each task was handed out; only properties read it

busVars == <<row, agent, published, deaths, orphans, attempts>>

Polling == [at |-> "idle", task |-> NoTask, seen |-> 0]
Owners == {"working", "failing"}

BusInit ==
    /\ row = [t \in Tasks |-> [status |-> "absent", retries |-> 0, id |-> 0]]
    /\ agent = [c \in Consumers |-> Polling]
    /\ published = 0
    /\ deaths = 0
    /\ orphans = {}
    /\ attempts = [t \in Tasks |-> 0]

-----------------------------------------------------------------------------

Publish(t) ==
    /\ row[t].status = "absent"
    /\ published' = published + 1
    /\ row' = [row EXCEPT ![t] = [status |-> "PENDING", retries |-> 0, id |-> published + 1]]
    /\ UNCHANGED <<agent, deaths, orphans, attempts>>

Pending == {t \in Tasks : row[t].status = "PENDING"}

\* consume: SELECT the oldest pending task ...
Select(c) ==
    /\ agent[c].at = "idle"
    /\ \E t \in Pending :
         /\ \A u \in Pending : row[t].id <= row[u].id
         /\ agent' = [agent EXCEPT ![c] = [@ EXCEPT !.at = "selected", !.task = t]]
    /\ UNCHANGED <<row, published, deaths, orphans, attempts>>

\* Mutant of Seizable: the update does not ask whether the task is pending.
SeizableAnyway(t) == TRUE

Seizable(t) == row[t].status = "PENDING"

\* ... and UPDATE it, unless another agent was faster.
Seize(c) ==
    /\ agent[c].at = "selected"
    /\ LET t == agent[c].task IN
       \/ /\ Seizable(t)
          /\ row' = [row EXCEPT ![t].status = "PROCESSING"]
          /\ agent' = [agent EXCEPT ![c].at = "working"]
          /\ attempts' = [attempts EXCEPT ![t] = @ + 1]
       \/ /\ ~Seizable(t)
          /\ agent' = [agent EXCEPT ![c] = Polling]
          /\ UNCHANGED <<row, attempts>>
    /\ UNCHANGED <<published, deaths, orphans>>

MarkCompleted(c) ==
    /\ agent[c].at = "working"
    /\ row' = [row EXCEPT ![agent[c].task].status = "COMPLETED"]
    /\ agent' = [agent EXCEPT ![c] = Polling]
    /\ UNCHANGED <<published, deaths, orphans, attempts>>

\* mark_failed: SELECT retry_count ...
ReadRetries(c) ==
    /\ agent[c].at = "working"
    /\ agent' = [agent EXCEPT ![c].at = "failing", ![c].seen = row[agent[c].task].retries]
    /\ UNCHANGED <<row, published, deaths, orphans, attempts>>

\* Mutant of MayRetry: off by one.
MayRetryOnceMore(seen) == seen < MaxRetries

MayRetry(seen) == seen + 1 < MaxRetries

\* Mutant of MarkFailed: the retried task is not made pending again.
MarkFailedKeepingIt(c) ==
    /\ agent[c].at = "failing"
    /\ LET t == agent[c].task IN row' = [row EXCEPT ![t].retries = @ + 1]
    /\ agent' = [agent EXCEPT ![c] = Polling]
    /\ UNCHANGED <<published, deaths, orphans, attempts>>

\* ... and UPDATE back to pending, or into the dead letters.
MarkFailed(c) ==
    /\ agent[c].at = "failing"
    /\ LET t == agent[c].task  seen == agent[c].seen IN
       row' = IF MayRetry(seen)
              THEN [row EXCEPT ![t].status = "PENDING", ![t].retries = @ + 1]
              ELSE [row EXCEPT ![t].status = "FAILED", ![t].retries = seen + 1]
    /\ agent' = [agent EXCEPT ![c] = Polling]
    /\ UNCHANGED <<published, deaths, orphans, attempts>>

CleanupOldTasks ==
    /\ row' = [t \in Tasks |->
         IF row[t].status \in {"COMPLETED", "FAILED"}
         THEN [row[t] EXCEPT !.status = "deleted"] ELSE row[t]]
    /\ UNCHANGED <<agent, published, deaths, orphans, attempts>>

\* An agent dies; the table is all that survives of what it was doing.
Die(c) ==
    /\ deaths < MaxDeaths /\ agent[c].at # "idle"
    /\ deaths' = deaths + 1
    /\ orphans' = IF agent[c].at \in Owners THEN orphans \union {agent[c].task} ELSE orphans
    /\ agent' = [agent EXCEPT ![c] = Polling]
    /\ UNCHANGED <<row, published, attempts>>

AgentStep(c) ==
    Select(c) \/ Seize(c) \/ MarkCompleted(c) \/ ReadRetries(c) \/ MarkFailed(c)

BusNext ==
    \/ \E t \in Tasks : Publish(t)
    \/ \E c \in Consumers : AgentStep(c) \/ Die(c)
    \/ CleanupOldTasks

BusSpec == BusInit /\ [][BusNext]_busVars

\* Agents keep polling and finish what they work on.
BusFairness == \A c \in Consumers : WF_busVars(AgentStep(c))
FairBusSpec == BusSpec /\ BusFairness

-----------------------------------------------------------------------------
(* Properties. *)

\* Rows and agents are well formed: an agent has a task in hand exactly while
\* it is not idle.
BusTypeOK ==
    /\ row \in [Tasks -> [status : {"absent", "PENDING", "PROCESSING", "COMPLETED",
                                    "FAILED", "deleted"},
                          retries : Nat, id : 0..published]]
    /\ agent \in [Consumers -> [at : Owners \union {"idle", "selected"},
                                task : Tasks \union {NoTask}, seen : Nat]]
    /\ \A c \in Consumers : agent[c].at = "idle" <=> agent[c].task = NoTask
    /\ orphans \subseteq Tasks

\* "Atomic preemption": two agents never work on one task, although choosing
\* a task and taking it are two statements.
ExclusiveConsumer ==
    \A c, d \in Consumers :
        /\ agent[c].at \in Owners /\ agent[d].at \in Owners
        /\ agent[c].task = agent[d].task
        => c = d

\* How often a task is tried: with max_retries = 0, still once.
Allowed == IF MaxRetries = 0 THEN 1 ELSE MaxRetries

\* A task in the dead letters was handed out as often as max_retries allows,
\* and no task more often, although mark_failed decides on a count it read
\* in an earlier statement.
DeadLettersWereTried ==
    \A t \in Tasks :
        /\ attempts[t] <= Allowed
        /\ row[t].status = "FAILED" => attempts[t] = Allowed

\* Every published task is completed or ends in the dead letters, unless an
\* agent dies with it in hand: nothing takes a PROCESSING row back.  Again and
\* again there comes a time when no task is under way.
EveryTaskSettles ==
    []<>(\A t \in Tasks : row[t].status \in {"PENDING", "PROCESSING"} => t \in orphans)

\* The pool the bus implements: an agent has in hand what it has taken and
\* neither completed nor failed.
StageOf(t) ==
    CASE row[t].status = "PENDING"    -> "waiting"
      [] row[t].status = "PROCESSING" -> "taken"
      [] row[t].status = "COMPLETED"  -> "done"
      [] row[t].status = "FAILED"     -> "dead"
      [] row[t].status = "deleted"    -> "gone"
      [] OTHER                        -> row[t].status

HandOf(c) == IF agent[c].at \in Owners THEN agent[c].task ELSE NoTask

Pool == INSTANCE TaskPool WITH
    Agents <- Consumers, MaxTries <- Allowed,
    stage <- [t \in Tasks |-> StageOf(t)],
    hand <- [c \in Consumers |-> HandOf(c)],
    tries <- attempts

\* The statements of consume and mark_failed, however they interleave, amount
\* to taking a task and putting it down.
ImplementsPool == Pool!PoolSpec

=============================================================================
