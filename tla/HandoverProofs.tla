-------------------------- MODULE HandoverProofs ---------------------------
(***************************************************************************)
(* Work that is handed over, and must be handed over once: the tasks of    *)
(* the state machine bus, the dispatch of a plan, the updates of Telegram, *)
(* the decision of an approval.  The four components share nothing; each   *)
(* section stands by itself.                                               *)
(***************************************************************************)
EXTENDS StateMachineBus, PlanDispatch, TelegramIngress, ApprovalDecisions,
        FiniteSetTheorems, TLAPS

-----------------------------------------------------------------------------
(* The bus.  For any number of tasks and agents and any max_retries, tasks *)
(* are worked on exclusively and the dead letters were tried exactly as    *)
(* often as allowed, although both handlers read and write in two          *)
(* statements.                                                             *)

RowType == [status : {"absent", "PENDING", "PROCESSING", "COMPLETED", "FAILED", "deleted"},
            retries : Nat, id : Nat]
AgentType == [at : {"idle", "selected", "working", "failing"},
              task : Tasks \union {NoTask}, seen : Nat]

BusTypes ==
    /\ row \in [Tasks -> RowType]
    /\ agent \in [Consumers -> AgentType]
    /\ published \in Nat
    /\ attempts \in [Tasks -> Nat]

\* Who works on a task keeps its row in PROCESSING, and the count read by
\* mark_failed stays the one in the row.
WorkersHold ==
    \A c \in Consumers :
        /\ agent[c].at # "idle" => agent[c].task \in Tasks
        /\ agent[c].at \in Owners => row[agent[c].task].status = "PROCESSING"
        /\ agent[c].at = "failing" => agent[c].seen = row[agent[c].task].retries

\* How often a task was handed out, read off its row.
Counts ==
    \A t \in Tasks :
        LET n == attempts[t]  state == row[t].status  k == row[t].retries IN
        /\ n <= Allowed
        /\ state = "absent" => n = 0 /\ k = 0
        /\ state = "PENDING" => n = k /\ k < Allowed
        /\ state = "PROCESSING" => n = k + 1 /\ k < Allowed
        /\ state = "FAILED" => n = Allowed

BusInv == BusTypes /\ WorkersHold /\ ExclusiveConsumer /\ Counts

LEMMA AllowedType == Allowed \in Nat /\ Allowed > 0
  BY BusAssumption DEF Allowed

LEMMA RetryBound ==
  ASSUME NEW k \in Nat, k < Allowed
  PROVE  /\ MayRetry(k) => k + 1 < Allowed
         /\ ~MayRetry(k) => k + 1 = Allowed
  BY BusAssumption DEF Allowed, MayRetry

LEMMA BusStep == BusInv /\ [BusNext]_busVars => BusInv'
<1> SUFFICES ASSUME BusInv, [BusNext]_busVars PROVE BusInv'
  OBVIOUS
<1>t. BusTypes /\ WorkersHold /\ ExclusiveConsumer /\ Counts
  BY DEF BusInv
<1>k. Allowed \in Nat /\ Allowed > 0 /\ Allowed' = Allowed
  BY AllowedType DEF Allowed
<1>1. ASSUME NEW t \in Tasks, Publish(t) PROVE BusInv'
  <2>1. BusTypes'
    BY <1>1, <1>t DEF Publish, BusTypes, RowType
  <2>2. WorkersHold'
    BY <1>1, <1>t DEF Publish, BusTypes, WorkersHold, RowType, AgentType, Owners
  <2>3. Counts'
    BY <1>1, <1>t, <1>k DEF Publish, BusTypes, Counts, RowType
  <2> QED BY <1>1, <1>t, <2>1, <2>2, <2>3 DEF Publish, BusInv, ExclusiveConsumer
<1>2. ASSUME NEW c \in Consumers, Select(c) PROVE BusInv'
  <2>1. PICK t \in Tasks : agent' = [agent EXCEPT ![c] = [@ EXCEPT !.at = "selected", !.task = t]]
    BY <1>2 DEF Select, Pending
  <2>2. UNCHANGED <<row, published, attempts>>
    BY <1>2 DEF Select
  <2>3. BusTypes'
    BY <1>t, <2>1, <2>2 DEF BusTypes, AgentType
  <2>4. WorkersHold' /\ ExclusiveConsumer'
    BY <1>t, <2>1, <2>2 DEF BusTypes, WorkersHold, ExclusiveConsumer, AgentType, Owners
  <2>5. Counts'
    BY <1>t, <1>k, <2>2 DEF Counts
  <2> QED BY <2>3, <2>4, <2>5 DEF BusInv
<1>3. ASSUME NEW c \in Consumers, Seize(c) PROVE BusInv'
  <2> DEFINE t == agent[c].task
  <2>0. agent[c].at = "selected" /\ t \in Tasks
    BY <1>3, <1>t DEF Seize, WorkersHold
  <2>1. CASE Seizable(t)
    <3>1. /\ row[t].status = "PENDING"
          /\ row' = [row EXCEPT ![t].status = "PROCESSING"]
          /\ agent' = [agent EXCEPT ![c].at = "working"]
          /\ attempts' = [attempts EXCEPT ![t] = @ + 1]
          /\ published' = published
      BY <1>3, <2>1 DEF Seize, Seizable
    <3>2. BusTypes'
      <4>1. row' \in [Tasks -> RowType]
        BY <1>t, <2>0, <3>1 DEF BusTypes, RowType
      <4>2. agent' \in [Consumers -> AgentType]
        BY <1>t, <3>1 DEF BusTypes, AgentType
      <4>3. attempts' \in [Tasks -> Nat]
        BY <1>t, <2>0, <3>1 DEF BusTypes
      <4> QED BY <1>t, <3>1, <4>1, <4>2, <4>3 DEF BusTypes
    <3>3. \A d \in Consumers : agent[d].at \in Owners => agent[d].task # t
      BY <1>t, <3>1 DEF WorkersHold
    <3>4. WorkersHold'
      BY <1>t, <2>0, <3>1, <3>3 DEF BusTypes, WorkersHold, RowType, AgentType, Owners
    <3>5. ExclusiveConsumer'
      BY <1>t, <2>0, <3>1, <3>3 DEF BusTypes, ExclusiveConsumer, AgentType, Owners
    <3>6. Counts'
      BY <1>t, <1>k, <2>0, <3>1 DEF BusTypes, Counts, RowType
    <3> QED BY <3>2, <3>4, <3>5, <3>6 DEF BusInv
  <2>2. CASE ~Seizable(t)
    <3>1. UNCHANGED <<row, published, attempts>> /\ agent' = [agent EXCEPT ![c] = Polling]
      BY <1>3, <2>2 DEF Seize
    <3> QED BY <1>t, <1>k, <3>1 DEF BusInv, BusTypes, WorkersHold, ExclusiveConsumer, Counts, Polling, AgentType, Owners
  <2> QED BY <2>1, <2>2
<1>4. ASSUME NEW c \in Consumers, MarkCompleted(c) PROVE BusInv'
  <2> DEFINE t == agent[c].task
  <2>1. /\ agent[c].at \in Owners /\ t \in Tasks /\ row[t].status = "PROCESSING"
        /\ row' = [row EXCEPT ![t].status = "COMPLETED"]
        /\ agent' = [agent EXCEPT ![c] = Polling]
        /\ UNCHANGED <<published, attempts>>
    BY <1>4, <1>t DEF MarkCompleted, WorkersHold, Owners
  <2>2. BusTypes'
    BY <1>t, <2>1 DEF BusTypes, RowType, AgentType, Polling
  <2>3. \A d \in Consumers \ {c} : agent[d].at \in Owners => agent[d].task # t
    BY <1>t, <2>1 DEF ExclusiveConsumer
  <2>4. WorkersHold' /\ ExclusiveConsumer'
    BY <1>t, <2>1, <2>3 DEF BusTypes, WorkersHold, ExclusiveConsumer, RowType, AgentType, Owners, Polling
  <2>5. Counts'
    BY <1>t, <1>k, <2>1 DEF BusTypes, Counts, RowType
  <2> QED BY <2>2, <2>4, <2>5 DEF BusInv
<1>5. ASSUME NEW c \in Consumers, ReadRetries(c) PROVE BusInv'
  <2> DEFINE t == agent[c].task
  <2>1. /\ agent[c].at = "working" /\ t \in Tasks
        /\ agent' = [agent EXCEPT ![c].at = "failing", ![c].seen = row[t].retries]
        /\ UNCHANGED <<row, published, attempts>>
    BY <1>5, <1>t DEF ReadRetries, WorkersHold
  <2>2. row[t].retries \in Nat
    BY <1>t, <2>1 DEF BusTypes, RowType
  <2>3. BusTypes'
    BY <1>t, <2>1, <2>2 DEF BusTypes, AgentType
  <2>4. WorkersHold' /\ ExclusiveConsumer'
    BY <1>t, <2>1 DEF BusTypes, WorkersHold, ExclusiveConsumer, AgentType, Owners
  <2>5. Counts'
    BY <1>t, <1>k, <2>1 DEF Counts
  <2> QED BY <2>3, <2>4, <2>5 DEF BusInv
<1>6. ASSUME NEW c \in Consumers, MarkFailed(c) PROVE BusInv'
  <2> DEFINE t == agent[c].task
             k == row[t].retries
  <2>1. /\ agent[c].at = "failing" /\ t \in Tasks /\ agent[c].seen = k
        /\ row[t].status = "PROCESSING" /\ k \in Nat /\ k < Allowed /\ attempts[t] = k + 1
        /\ agent' = [agent EXCEPT ![c] = Polling]
        /\ UNCHANGED <<published, attempts>>
    BY <1>6, <1>t DEF MarkFailed, WorkersHold, Owners, BusTypes, RowType, Counts
  <2>2. \/ /\ k + 1 < Allowed
           /\ row' = [row EXCEPT ![t].status = "PENDING", ![t].retries = k + 1]
        \/ /\ k + 1 = Allowed
           /\ row' = [row EXCEPT ![t].status = "FAILED", ![t].retries = k + 1]
    BY <1>6, <2>1, RetryBound DEF MarkFailed
  <2>3. BusTypes'
    BY <1>t, <2>1, <2>2 DEF BusTypes, RowType, AgentType, Polling
  <2>4. \A d \in Consumers \ {c} : agent[d].at \in Owners => agent[d].task # t
    BY <1>t, <2>1 DEF ExclusiveConsumer, Owners
  <2>5. WorkersHold' /\ ExclusiveConsumer'
    BY <1>t, <2>1, <2>2, <2>4 DEF BusTypes, WorkersHold, ExclusiveConsumer, RowType, AgentType, Owners, Polling
  <2>6. Counts'
    BY <1>t, <1>k, <2>1, <2>2 DEF BusTypes, Counts, RowType
  <2> QED BY <2>3, <2>5, <2>6 DEF BusInv
<1>7. CASE CleanupOldTasks
  <2>1. \A t \in Tasks : /\ row'[t].retries = row[t].retries /\ row'[t].id = row[t].id
                         /\ row'[t].status = row[t].status \/ row'[t].status = "deleted"
                         /\ row[t].status = "PROCESSING" => row'[t].status = "PROCESSING"
    BY <1>7, <1>t DEF CleanupOldTasks, BusTypes, RowType
  <2>2. BusTypes'
    BY <1>7, <1>t DEF CleanupOldTasks, BusTypes, RowType
  <2>3. WorkersHold'
    <3>1. agent' = agent
      BY <1>7 DEF CleanupOldTasks
    <3>2. \A c \in Consumers : agent[c].at \in Owners => agent[c].task \in Tasks
      BY <1>t DEF WorkersHold, Owners
    <3> QED BY <1>t, <2>1, <3>1, <3>2 DEF WorkersHold, Owners
  <2>5. ExclusiveConsumer'
    BY <1>7, <1>t DEF CleanupOldTasks, ExclusiveConsumer
  <2>4. Counts'
    BY <1>7, <1>t, <1>k, <2>1 DEF CleanupOldTasks, Counts
  <2> QED BY <2>2, <2>3, <2>4, <2>5 DEF BusInv
<1>8. ASSUME NEW c \in Consumers, Die(c) PROVE BusInv'
  <2>1. UNCHANGED <<row, published, attempts>> /\ agent' = [agent EXCEPT ![c] = Polling]
    BY <1>8 DEF Die
  <2> QED BY <1>t, <1>k, <2>1 DEF BusInv, BusTypes, WorkersHold, ExclusiveConsumer, Counts, Polling, AgentType, Owners
<1>9. CASE UNCHANGED busVars
  BY <1>9, <1>t, <1>k DEF busVars, BusInv, BusTypes, WorkersHold, ExclusiveConsumer, Counts
<1> QED BY <1>1, <1>2, <1>3, <1>4, <1>5, <1>6, <1>7, <1>8, <1>9 DEF BusNext, AgentStep

LEMMA BusInductive == BusSpec => []BusInv
<1>1. BusInit => BusInv
  BY AllowedType DEF BusInit, BusInv, BusTypes, WorkersHold, ExclusiveConsumer, Counts, Polling,
     RowType, AgentType, Owners
<1> QED BY <1>1, BusStep, PTL DEF BusSpec

\* consume really is an atomic preemption, for any number of agents.
THEOREM ConsumersAreExclusive == BusSpec => []ExclusiveConsumer
<1>1. BusInv => ExclusiveConsumer
  BY DEF BusInv
<1> QED BY <1>1, BusInductive, PTL

\* The dead letters were tried exactly as often as max_retries says.
THEOREM DeadLettersTried == BusSpec => []DeadLettersWereTried
<1>1. BusInv => DeadLettersWereTried
  BY DEF BusInv, Counts, DeadLettersWereTried
<1> QED BY <1>1, BusInductive, PTL

\* What BusTypes leaves out of BusTypeOK.
BusInHand ==
    /\ \A c \in Consumers : agent[c].at = "idle" <=> agent[c].task = NoTask
    /\ \A t \in Tasks : row[t].id <= published
    /\ orphans \subseteq Tasks

LEMMA InHandStep == BusInv /\ BusInHand /\ [BusNext]_busVars => BusInHand'
<1> SUFFICES ASSUME BusInv, BusInHand, [BusNext]_busVars PROVE BusInHand'
  OBVIOUS
<1>t. BusTypes /\ WorkersHold
  BY DEF BusInv
<1>n. NoTask \notin Tasks
  BY BusAssumption
\* An agent that stops working holds nothing.
<1>p. ASSUME NEW c \in Consumers, agent' = [agent EXCEPT ![c] = Polling]
      PROVE  \A d \in Consumers : agent'[d].at = "idle" <=> agent'[d].task = NoTask
  BY <1>p, <1>t DEF BusTypes, BusInHand, Polling
<1>1. ASSUME NEW t \in Tasks, Publish(t) PROVE BusInHand'
  <2>1. published' = published + 1 /\ published \in Nat /\ \A u \in Tasks : row[u].id \in Nat
    BY <1>1, <1>t DEF Publish, BusTypes, RowType
  <2>2. row'[t].id = published' /\ \A u \in Tasks \ {t} : row'[u] = row[u]
    BY <1>1, <1>t DEF Publish, BusTypes, RowType
  <2>3. \A u \in Tasks : row'[u].id <= published'
    BY <2>1, <2>2 DEF BusInHand
  <2> QED BY <1>1, <2>3 DEF Publish, BusInHand
<1>2. ASSUME NEW c \in Consumers, Select(c) PROVE BusInHand'
  <2>1. PICK t \in Tasks : agent' = [agent EXCEPT ![c] = [@ EXCEPT !.at = "selected", !.task = t]]
    BY <1>2 DEF Select, Pending
  <2>2. agent'[c].at = "selected" /\ agent'[c].task = t /\ \A d \in Consumers \ {c} : agent'[d] = agent[d]
    BY <1>t, <2>1 DEF BusTypes, AgentType
  <2> QED BY <1>2, <1>n, <2>2 DEF Select, BusInHand
<1>3. ASSUME NEW c \in Consumers, Seize(c) PROVE BusInHand'
  <2>1. agent[c].at = "selected" /\ UNCHANGED <<published, orphans>>
    BY <1>3 DEF Seize
  <2>2. \A u \in Tasks : row'[u].id = row[u].id
    BY <1>3, <1>t DEF Seize, BusTypes, RowType
  <2>3. \/ agent' = [agent EXCEPT ![c].at = "working"]
        \/ agent' = [agent EXCEPT ![c] = Polling]
    BY <1>3 DEF Seize
  <2>4. \A d \in Consumers : agent'[d].at = "idle" <=> agent'[d].task = NoTask
    BY <1>t, <1>p, <2>1, <2>3 DEF BusTypes, AgentType, BusInHand
  <2> QED BY <2>1, <2>2, <2>4 DEF BusInHand
<1>4. ASSUME NEW c \in Consumers, MarkCompleted(c) PROVE BusInHand'
  <2>1. \A u \in Tasks : row'[u].id = row[u].id
    BY <1>4, <1>t DEF MarkCompleted, BusTypes, RowType
  <2> QED BY <1>4, <1>p, <2>1 DEF MarkCompleted, BusInHand
<1>5. ASSUME NEW c \in Consumers, ReadRetries(c) PROVE BusInHand'
  <2>1. /\ agent'[c].at = "failing" /\ agent'[c].task = agent[c].task /\ agent[c].at = "working"
        /\ \A d \in Consumers \ {c} : agent'[d] = agent[d]
    BY <1>5, <1>t DEF ReadRetries, BusTypes, AgentType
  <2> QED BY <1>5, <2>1 DEF ReadRetries, BusInHand
<1>6. ASSUME NEW c \in Consumers, MarkFailed(c) PROVE BusInHand'
  <2> DEFINE t == agent[c].task
  <2>1. \/ row' = [row EXCEPT ![t].status = "PENDING", ![t].retries = @ + 1]
        \/ row' = [row EXCEPT ![t].status = "FAILED", ![t].retries = agent[c].seen + 1]
    BY <1>6 DEF MarkFailed
  <2>2. \A u \in Tasks : row'[u].id = row[u].id
    BY <1>t, <2>1 DEF BusTypes, RowType
  <2> QED BY <1>6, <1>p, <2>2 DEF MarkFailed, BusInHand
<1>7. CASE CleanupOldTasks
  <2>1. \A u \in Tasks : row'[u].id = row[u].id
    BY <1>7, <1>t DEF CleanupOldTasks, BusTypes, RowType
  <2> QED BY <1>7, <2>1 DEF CleanupOldTasks, BusInHand
<1>8. ASSUME NEW c \in Consumers, Die(c) PROVE BusInHand'
  <2>1. orphans' \subseteq Tasks
    BY <1>8, <1>t DEF Die, WorkersHold, BusInHand, Owners
  <2> QED BY <1>8, <1>p, <2>1 DEF Die, BusInHand
<1>9. CASE UNCHANGED busVars
  BY <1>9 DEF busVars, BusInHand
<1> QED BY <1>1, <1>2, <1>3, <1>4, <1>5, <1>6, <1>7, <1>8, <1>9 DEF BusNext, AgentStep

\* Rows and agents stay well formed: no row has an id that was not given out,
\* and an agent has a task in hand exactly while it is not idle.
THEOREM BusTypeCorrect == BusSpec => []BusTypeOK
<1>1. BusInit => BusInHand
  BY DEF BusInit, BusInHand, Polling
<1>2. BusInv /\ BusInHand => BusTypeOK
  <2> SUFFICES ASSUME BusInv, BusInHand PROVE BusTypeOK
    OBVIOUS
  <2>1. BusTypes
    BY DEF BusInv
  <2>2. \A t \in Tasks : row[t].id \in 0 .. published
    <3> SUFFICES ASSUME NEW t \in Tasks PROVE row[t].id \in 0 .. published
      OBVIOUS
    <3>1. row[t].id \in Nat /\ published \in Nat
      BY <2>1 DEF BusTypes, RowType
    <3>2. row[t].id <= published
      BY DEF BusInHand
    <3> QED BY <3>1, <3>2
  <2>3. row \in [Tasks -> [status : {"absent", "PENDING", "PROCESSING", "COMPLETED",
                                    "FAILED", "deleted"},
                          retries : Nat, id : 0 .. published]]
    BY <2>1, <2>2 DEF BusTypes, RowType
  <2>4. agent \in [Consumers -> [at : Owners \union {"idle", "selected"},
                                task : Tasks \union {NoTask}, seen : Nat]]
    BY <2>1 DEF BusTypes, AgentType, Owners
  <2> QED BY <2>3, <2>4 DEF BusTypeOK, BusInHand
<1> QED BY <1>1, <1>2, BusInductive, InHandStep, PTL DEF BusSpec

\* What a statement does to the row of one task and to one agent, as the pool
\* sees it.
LEMMA StagesChange ==
  ASSUME NEW t \in Tasks, NEW x, StageOf(t)' = x, \A u \in Tasks \ {t} : row'[u] = row[u]
  PROVE  [u \in Tasks |-> StageOf(u)]' = [[u \in Tasks |-> StageOf(u)] EXCEPT ![t] = x]
<1>1. \A u \in Tasks \ {t} : StageOf(u)' = StageOf(u)
  BY DEF StageOf
<1> QED BY <1>1

LEMMA HandsChange ==
  ASSUME NEW c \in Consumers, NEW x, HandOf(c)' = x, \A d \in Consumers \ {c} : agent'[d] = agent[d]
  PROVE  [d \in Consumers |-> HandOf(d)]' = [[d \in Consumers |-> HandOf(d)] EXCEPT ![c] = x]
<1>1. \A d \in Consumers \ {c} : HandOf(d)' = HandOf(d)
  BY DEF HandOf
<1> QED BY <1>1

LEMMA PoolStep == BusInv /\ [BusNext]_busVars => [Pool!PoolNext]_(Pool!poolVars)
<1> SUFFICES ASSUME BusInv, [BusNext]_busVars PROVE Pool!PoolNext \/ UNCHANGED Pool!poolVars
  OBVIOUS
<1> DEFINE stages == [u \in Tasks |-> StageOf(u)]
           hands == [d \in Consumers |-> HandOf(d)]
<1>t. BusTypes /\ WorkersHold /\ Counts
  BY DEF BusInv
<1>n. NoTask \notin Tasks
  BY BusAssumption
<1>r. row \in [Tasks -> RowType] /\ agent \in [Consumers -> AgentType] /\ attempts \in [Tasks -> Nat]
  BY <1>t DEF BusTypes
\* A step that no task and no hand shows.
<1>u. ASSUME UNCHANGED <<row, attempts>>, \A c \in Consumers : HandOf(c)' = HandOf(c)
      PROVE  UNCHANGED Pool!poolVars
  <2>1. \A u \in Tasks : StageOf(u)' = StageOf(u)
    BY <1>u DEF StageOf
  <2> QED BY <1>u, <2>1 DEF Pool!poolVars
\* An owner puts its task down.
<1>d. ASSUME NEW c \in Consumers, agent[c].at \in Owners, agent' = [agent EXCEPT ![c] = Polling],
             NEW t, t = agent[c].task, NEW outcome \in {"done", "waiting", "dead"},
             StageOf(t)' = outcome, \A u \in Tasks \ {t} : row'[u] = row[u], attempts' = attempts,
             outcome = "waiting" => attempts[t] < Allowed,
             outcome = "dead" => attempts[t] = Allowed
      PROVE  Pool!PoolNext
  <2>1. t \in Tasks /\ row[t].status = "PROCESSING"
    BY <1>d, <1>t DEF WorkersHold, Owners
  <2>2. hands[c] = t /\ stages[t] = "taken"
    BY <1>d, <2>1 DEF HandOf, StageOf
  <2>3. agent'[c] = Polling /\ \A d \in Consumers \ {c} : agent'[d] = agent[d]
    BY <1>d, <1>r
  <2>4. HandOf(c)' = NoTask
    BY <2>3 DEF HandOf, Polling, Owners
  <2>5. hands' = [hands EXCEPT ![c] = NoTask]
    BY <2>3, <2>4, HandsChange
  <2>6. stages' = [stages EXCEPT ![t] = outcome]
    BY <1>d, <2>1, StagesChange
  <2> HIDE DEF stages, hands
  <2>7. Pool!PutDown(c, outcome)
    BY <1>d, <1>n, <2>1, <2>2, <2>5, <2>6 DEF Pool!PutDown, stages, hands
  <2> QED BY <2>7 DEF Pool!PoolNext
<1>1. ASSUME NEW t \in Tasks, Publish(t) PROVE Pool!PoolNext
  <2>1. row'[t].status = "PENDING" /\ \A u \in Tasks \ {t} : row'[u] = row[u]
    BY <1>1, <1>r DEF Publish
  <2>2. StageOf(t)' = "waiting" /\ StageOf(t) = "absent"
    BY <1>1, <2>1 DEF StageOf, Publish
  <2>3. stages' = [stages EXCEPT ![t] = "waiting"]
    BY <2>1, <2>2, StagesChange
  <2>4. hands' = hands /\ attempts' = attempts
    BY <1>1 DEF Publish, HandOf
  <2>5. Pool!Offer(t)
    BY <2>2, <2>3, <2>4 DEF Pool!Offer
  <2> QED BY <2>5 DEF Pool!PoolNext
<1>2. ASSUME NEW c \in Consumers, Select(c) PROVE UNCHANGED Pool!poolVars
  <2>1. PICK t \in Tasks : agent' = [agent EXCEPT ![c] = [@ EXCEPT !.at = "selected", !.task = t]]
    BY <1>2 DEF Select, Pending
  <2>2. agent'[c].at = "selected" /\ agent[c].at = "idle" /\ \A d \in Consumers \ {c} : agent'[d] = agent[d]
    BY <1>2, <1>r, <2>1 DEF Select, AgentType
  <2>3. \A d \in Consumers : HandOf(d)' = HandOf(d)
    BY <2>2 DEF HandOf, Owners
  <2> QED BY <1>2, <1>u, <2>3 DEF Select
<1>3. ASSUME NEW c \in Consumers, Seize(c) PROVE Pool!PoolNext \/ UNCHANGED Pool!poolVars
  <2>0. PICK t : t = agent[c].task
    OBVIOUS
  <2>1. agent[c].at = "selected" /\ t \in Tasks
    BY <1>3, <1>t, <2>0 DEF Seize, WorkersHold
  <2>2. CASE Seizable(t)
    <3>1. /\ row' = [row EXCEPT ![t].status = "PROCESSING"] /\ agent' = [agent EXCEPT ![c].at = "working"]
          /\ attempts' = [attempts EXCEPT ![t] = @ + 1]
      BY <1>3, <2>0, <2>2 DEF Seize
    <3>2. row'[t].status = "PROCESSING" /\ \A u \in Tasks \ {t} : row'[u] = row[u]
      BY <1>r, <2>1, <3>1 DEF RowType
    <3>3. agent'[c].at = "working" /\ agent'[c].task = t /\ \A d \in Consumers \ {c} : agent'[d] = agent[d]
      BY <1>r, <2>0, <3>1 DEF AgentType
    <3>4. StageOf(t)' = "taken" /\ StageOf(t) = "waiting"
      BY <2>2, <3>2, <3>3 DEF StageOf, Seizable
    <3>5. HandOf(c)' = t /\ HandOf(c) = NoTask
      BY <2>1, <3>3 DEF HandOf, Owners
    <3>6. stages' = [stages EXCEPT ![t] = "taken"]
      BY <2>1, <3>2, <3>4, StagesChange
    <3>7. hands' = [hands EXCEPT ![c] = t]
      BY <3>3, <3>5, HandsChange
    <3>8. hands[c] = NoTask /\ stages[t] = "waiting"
      BY <2>1, <3>4, <3>5
    <3> HIDE DEF stages, hands
    <3>9. Pool!Take(c, t)
      BY <3>1, <3>6, <3>7, <3>8 DEF Pool!Take, stages, hands
    <3> QED BY <2>1, <3>9 DEF Pool!PoolNext
  <2>3. CASE ~Seizable(t)
    <3>1. agent' = [agent EXCEPT ![c] = Polling] /\ UNCHANGED <<row, attempts>>
      BY <1>3, <2>0, <2>3 DEF Seize
    <3>2. agent'[c].at = "idle" /\ \A d \in Consumers \ {c} : agent'[d] = agent[d]
      BY <1>r, <3>1 DEF Polling
    <3>3. \A d \in Consumers : HandOf(d)' = HandOf(d)
      BY <2>1, <3>2 DEF HandOf, Owners
    <3> QED BY <1>u, <3>1, <3>3
  <2> QED BY <2>2, <2>3
<1>4. ASSUME NEW c \in Consumers, MarkCompleted(c) PROVE Pool!PoolNext
  <2>0. PICK t : t = agent[c].task
    OBVIOUS
  <2>1. /\ agent[c].at \in Owners /\ agent' = [agent EXCEPT ![c] = Polling] /\ attempts' = attempts
        /\ row' = [row EXCEPT ![t].status = "COMPLETED"]
    BY <1>4, <2>0 DEF MarkCompleted, Owners
  <2>2. t \in Tasks
    BY <1>4, <1>t, <2>0 DEF MarkCompleted, WorkersHold
  <2>3. row'[t].status = "COMPLETED" /\ \A u \in Tasks \ {t} : row'[u] = row[u]
    BY <1>r, <2>1, <2>2 DEF RowType
  <2>4. StageOf(t)' = "done"
    BY <2>3 DEF StageOf
  <2> QED BY <1>d, <2>0, <2>1, <2>3, <2>4
<1>5. ASSUME NEW c \in Consumers, ReadRetries(c) PROVE UNCHANGED Pool!poolVars
  <2>1. /\ agent[c].at = "working" /\ agent'[c].at = "failing" /\ agent'[c].task = agent[c].task
        /\ \A d \in Consumers \ {c} : agent'[d] = agent[d]
    BY <1>5, <1>r DEF ReadRetries, AgentType
  <2>2. \A d \in Consumers : HandOf(d)' = HandOf(d)
    BY <2>1 DEF HandOf, Owners
  <2> QED BY <1>5, <1>u, <2>2 DEF ReadRetries
<1>6. ASSUME NEW c \in Consumers, MarkFailed(c) PROVE Pool!PoolNext
  <2>0. PICK t, seen : t = agent[c].task /\ seen = agent[c].seen
    OBVIOUS
  <2>1. /\ agent[c].at = "failing" /\ agent[c].at \in Owners
        /\ agent' = [agent EXCEPT ![c] = Polling] /\ attempts' = attempts
    BY <1>6 DEF MarkFailed, Owners
  <2>2. t \in Tasks /\ row[t].status = "PROCESSING" /\ seen = row[t].retries /\ seen \in Nat
    BY <1>t, <1>r, <2>0, <2>1 DEF WorkersHold, RowType
  <2>3. attempts[t] = seen + 1 /\ seen < Allowed
    BY <1>t, <2>2 DEF Counts
  <2>4. CASE MayRetry(seen)
    <3>1. row' = [row EXCEPT ![t].status = "PENDING", ![t].retries = @ + 1]
      BY <1>6, <2>0, <2>4 DEF MarkFailed
    <3>2. row'[t].status = "PENDING" /\ \A u \in Tasks \ {t} : row'[u] = row[u]
      BY <1>r, <2>2, <3>1 DEF RowType
    <3>3. StageOf(t)' = "waiting"
      BY <3>2 DEF StageOf
    <3>4. attempts[t] < Allowed
      BY <2>2, <2>3, <2>4, RetryBound
    <3> QED BY <1>d, <2>0, <2>1, <3>2, <3>3, <3>4
  <2>5. CASE ~MayRetry(seen)
    <3>1. row' = [row EXCEPT ![t].status = "FAILED", ![t].retries = seen + 1]
      BY <1>6, <2>0, <2>5 DEF MarkFailed
    <3>2. row'[t].status = "FAILED" /\ \A u \in Tasks \ {t} : row'[u] = row[u]
      BY <1>r, <2>2, <3>1 DEF RowType
    <3>3. StageOf(t)' = "dead"
      BY <3>2 DEF StageOf
    <3>4. attempts[t] = Allowed
      BY <2>2, <2>3, <2>5, RetryBound
    <3> QED BY <1>d, <2>0, <2>1, <3>2, <3>3, <3>4
  <2> QED BY <2>4, <2>5
<1>7. CASE CleanupOldTasks
  <2>1. ASSUME NEW u \in Tasks
        PROVE  StageOf(u)' = IF StageOf(u) \in {"done", "dead"} THEN "gone" ELSE StageOf(u)
    <3>1. row[u].status \in {"absent", "PENDING", "PROCESSING", "COMPLETED", "FAILED", "deleted"}
      BY <1>r DEF RowType
    <3>2. row'[u].status = IF row[u].status \in {"COMPLETED", "FAILED"} THEN "deleted" ELSE row[u].status
      BY <1>7, <1>r DEF CleanupOldTasks, RowType
    <3> QED BY <3>1, <3>2 DEF StageOf
  <2>2. hands' = hands /\ attempts' = attempts
    BY <1>7 DEF CleanupOldTasks, HandOf
  <2>3. Pool!Forget
    BY <2>1, <2>2 DEF Pool!Forget
  <2> QED BY <2>3 DEF Pool!PoolNext
<1>8. ASSUME NEW c \in Consumers, Die(c) PROVE Pool!PoolNext
  <2>1. agent' = [agent EXCEPT ![c] = Polling] /\ UNCHANGED <<row, attempts>>
    BY <1>8 DEF Die
  <2>2. agent'[c] = Polling /\ \A d \in Consumers \ {c} : agent'[d] = agent[d]
    BY <1>r, <2>1
  <2>3. HandOf(c)' = NoTask
    BY <2>2 DEF HandOf, Polling, Owners
  <2>4. hands' = [hands EXCEPT ![c] = NoTask]
    BY <2>2, <2>3, HandsChange
  <2>5. stages' = stages
    BY <2>1 DEF StageOf
  <2>6. Pool!Vanish(c)
    BY <2>1, <2>4, <2>5 DEF Pool!Vanish
  <2> QED BY <2>6 DEF Pool!PoolNext
<1>9. CASE UNCHANGED busVars
  <2>1. \A c \in Consumers : HandOf(c)' = HandOf(c)
    BY <1>9 DEF busVars, HandOf
  <2> QED BY <1>9, <1>u, <2>1 DEF busVars
<1> QED BY <1>1, <1>2, <1>3, <1>4, <1>5, <1>6, <1>7, <1>8, <1>9 DEF BusNext, AgentStep

\* For any number of tasks and agents, the bus is the pool: consume and
\* mark_failed take and put down a task at once, although each is two
\* statements of which only the second writes.
THEOREM BusImplementsPool == BusSpec => ImplementsPool
<1>1. BusInit => Pool!PoolInit
  BY DEF BusInit, Pool!PoolInit, StageOf, HandOf, Polling, Owners
<1> QED BY <1>1, BusInductive, PoolStep, PTL DEF BusSpec, ImplementsPool, Pool!PoolSpec

-----------------------------------------------------------------------------
(* The planner.  PlanRunsOnce holds for any number of clients and of       *)
(* stops. What makes it inductive is the writer lease: whoever has read    *)
(* under it reads what the plan still is when it saves, and a plan that    *)
(* somebody dispatches says so until that client has recorded its outcome. *)

Stages == {"free", "delivering", "requesting", "auditing", "running", "ended", "recording"}
Outcomes == {"none", "dispatched", "failed"}
UnderLease == {"delivering", "requesting", "recording"}
InDispatch == {"auditing", "running", "ended", "recording"}
ClientType == [stage : Stages, read : Records, outcome : Outcomes]

PlanTypes ==
    /\ plan \in Records /\ holder \in Clients \union {Nobody}
    /\ client \in [Clients -> ClientType]
    /\ stopsLeft \in 0 .. MaxShutdowns /\ succeeded \in BOOLEAN /\ notified \in BOOLEAN

\* Who has read and not saved yet holds the lease, and has read what the plan
\* is now.
Leased ==
    \A c \in Clients : client[c].stage \in UnderLease =>
        holder = c /\ client[c].read = plan

OneDispatcher ==
    \A c, d \in Clients :
        client[c].stage \in InDispatch /\ client[d].stage \in InDispatch => c = d

\* What the plan and the client that dispatches it say of each other.
Told ==
    /\ \A c \in Clients :
         /\ client[c].stage \in InDispatch => plan.dispatch_status = "dispatching"
         /\ client[c].stage \in {"auditing", "running"} => ~succeeded
         /\ client[c].stage \in {"ended", "recording"} =>
              /\ client[c].outcome \in {"dispatched", "failed"}
              /\ succeeded <=> client[c].outcome = "dispatched"
    /\ succeeded => plan.dispatch_status \in {"dispatching", "dispatched"}
    /\ plan.dispatch_status = "dispatched" => succeeded
    /\ notified => plan.notification_sent

PlanInv == PlanTypes /\ Leased /\ OneDispatcher /\ Told

-----------------------------------------------------------------------------
(* Most actions change one client, and of the plan at most what its holder *)
(* has read.                                                               *)

LEMMA PlanTakeStep ==
  ASSUME PlanInv, NEW c \in Clients, NEW from, NEW to \in UnderLease, Takes(c, from, to),
         from \notin InDispatch \/ (from = "ended" /\ to = "recording"),
         to # "recording" \/ from = "ended",
         UNCHANGED <<plan, stopsLeft, succeeded, notified>>
  PROVE  PlanInv'
<1>1. PlanTypes /\ Leased /\ OneDispatcher /\ Told
  BY DEF PlanInv
<1>2. /\ client' = [client EXCEPT ![c] = [@ EXCEPT !.stage = to, !.read = plan]]
      /\ holder = Nobody /\ holder' = c /\ client[c].stage = from
  BY DEF Takes
<1>3. client[c] \in ClientType /\ \A d \in Clients : client[d].stage \notin UnderLease
  BY <1>1, <1>2, PlanAssumption DEF PlanTypes, Leased
<1>4. PlanTypes'
  BY <1>1, <1>2 DEF PlanTypes, ClientType, UnderLease, Stages
<1>5. Leased'
  BY <1>1, <1>2, <1>3 DEF PlanTypes, Leased, ClientType
<1>6. OneDispatcher' /\ Told'
  BY <1>1, <1>2 DEF PlanTypes, OneDispatcher, Told, ClientType, InDispatch, UnderLease
<1> QED BY <1>4, <1>5, <1>6 DEF PlanInv

LEMMA DeliveryStep ==
  ASSUME PlanInv, NEW c \in Clients, SaveDelivery(c)
  PROVE  PlanInv'
<1>1. PlanTypes /\ Leased /\ OneDispatcher /\ Told
  BY DEF PlanInv
<1>2. /\ client' = [client EXCEPT ![c] = [AtRest EXCEPT !.stage = "free"]]
      /\ plan' = [plan EXCEPT !.notification_sent = TRUE]
      /\ holder' = Nobody /\ notified' = TRUE
      /\ UNCHANGED <<stopsLeft, succeeded>>
  BY <1>1 DEF SaveDelivery, Saves, Leased, UnderLease
<1>3. \A d \in Clients \ {c} : client[d].stage \notin UnderLease
  BY <1>1 DEF SaveDelivery, Leased, UnderLease
<1>4. PlanTypes'
  BY <1>1, <1>2 DEF PlanTypes, ClientType, Records, AtRest, Fresh, Stages, Outcomes
<1>5. Leased'
  BY <1>1, <1>2, <1>3 DEF PlanTypes, Leased, ClientType, AtRest, UnderLease
<1>6. OneDispatcher' /\ Told'
  BY <1>1, <1>2 DEF PlanTypes, OneDispatcher, Told, ClientType, InDispatch, Records, AtRest
<1> QED BY <1>4, <1>5, <1>6 DEF PlanInv

LEMMA RequestStep ==
  ASSUME PlanInv, NEW c \in Clients, RefuseRequest(c) \/ SaveRequest(c)
  PROVE  PlanInv'
<1>1. PlanTypes /\ Leased /\ OneDispatcher /\ Told
  BY DEF PlanInv
<1>2. client[c].stage = "requesting" /\ client[c].read = plan /\ holder = c
  BY <1>1 DEF RefuseRequest, SaveRequest, Leased, UnderLease
<1>3. \A d \in Clients \ {c} : client[d].stage \notin UnderLease
  BY <1>1, <1>2 DEF Leased
<1>4. CASE RefuseRequest(c)
  <2>1. /\ client' = [client EXCEPT ![c] = [AtRest EXCEPT !.stage = "free"]]
        /\ holder' = Nobody /\ UNCHANGED <<plan, stopsLeft, succeeded, notified>>
    BY <1>4 DEF RefuseRequest, Saves
  <2>2. PlanTypes'
    BY <1>1, <2>1 DEF PlanTypes, ClientType, Records, AtRest, Fresh, Stages, Outcomes
  <2>3. Leased'
    BY <1>1, <2>1, <1>3 DEF PlanTypes, Leased, ClientType, AtRest, UnderLease
  <2>4. OneDispatcher' /\ Told'
    BY <1>1, <2>1 DEF PlanTypes, OneDispatcher, Told, ClientType, InDispatch, AtRest
  <2> QED BY <2>2, <2>3, <2>4 DEF PlanInv
<1>5. CASE SaveRequest(c)
  <2>1. /\ client' = [client EXCEPT ![c] = [AtRest EXCEPT !.stage = "auditing"]]
        /\ plan' = [plan EXCEPT !.dispatch_status = "dispatching"]
        /\ holder' = Nobody /\ UNCHANGED <<stopsLeft, succeeded, notified>>
        /\ plan.dispatch_status \notin {"dispatching", "dispatched"}
    BY <1>5, <1>2 DEF SaveRequest, Saves, Refused
  <2>2. ~succeeded /\ \A d \in Clients : client[d].stage \notin InDispatch
    BY <1>1, <2>1 DEF Told
  <2>3. PlanTypes'
    BY <1>1, <2>1 DEF PlanTypes, ClientType, Records, AtRest, Fresh, Stages, Outcomes
  <2>4. Leased'
    BY <1>1, <2>1, <1>3 DEF PlanTypes, Leased, ClientType, AtRest, UnderLease
  <2>5. OneDispatcher'
    BY <1>1, <2>1, <2>2 DEF PlanTypes, OneDispatcher, ClientType, AtRest
  <2>6. Told'
    BY <1>1, <2>1, <2>2 DEF PlanTypes, Told, ClientType, InDispatch, Records, AtRest
  <2> QED BY <2>3, <2>4, <2>5, <2>6 DEF PlanInv
<1> QED BY <1>4, <1>5

LEMMA RunStepOfPlan ==
  ASSUME PlanInv, NEW c \in Clients,
         \/ \E ok \in BOOLEAN : BeginRun(c, ok)
         \/ \E outcome \in {"dispatched", "failed"} : EndRun(c, outcome)
  PROVE  PlanInv'
<1>1. PlanTypes /\ Leased /\ OneDispatcher /\ Told
  BY DEF PlanInv
<1>2. ASSUME NEW ok \in BOOLEAN, BeginRun(c, ok) PROVE PlanInv'
  <2>1. PICK to \in {"running", "free"} : client' = [client EXCEPT ![c] = [AtRest EXCEPT !.stage = to]]
    BY <1>2 DEF BeginRun
  <2>2. client[c].stage = "auditing" /\ UNCHANGED <<plan, holder, stopsLeft, succeeded, notified>>
    BY <1>2 DEF BeginRun
  <2>3. PlanTypes'
    BY <1>1, <2>1, <2>2 DEF PlanTypes, ClientType, Records, AtRest, Fresh, Stages, Outcomes
  <2>4. Leased' /\ OneDispatcher' /\ Told'
    BY <1>1, <2>1, <2>2 DEF PlanTypes, Leased, OneDispatcher, Told, ClientType, InDispatch, UnderLease, AtRest
  <2> QED BY <2>3, <2>4 DEF PlanInv
<1>3. ASSUME NEW outcome \in {"dispatched", "failed"}, EndRun(c, outcome) PROVE PlanInv'
  <2>1. /\ client' = [client EXCEPT ![c] = [@ EXCEPT !.stage = "ended", !.outcome = outcome]]
        /\ client[c].stage = "running" /\ UNCHANGED <<plan, holder, stopsLeft, notified>>
        /\ succeeded' = (succeeded \/ outcome = "dispatched")
    BY <1>3 DEF EndRun
  <2>2. ~succeeded /\ plan.dispatch_status = "dispatching"
    BY <1>1, <2>1 DEF Told, InDispatch
  <2>3. PlanTypes'
    BY <1>1, <2>1 DEF PlanTypes, ClientType, Stages, Outcomes
  <2>4. Leased' /\ OneDispatcher'
    BY <1>1, <2>1 DEF PlanTypes, Leased, OneDispatcher, ClientType, InDispatch, UnderLease
  <2>5. \A d \in Clients \ {c} : client'[d] = client[d] /\ client[d].stage \notin InDispatch
    BY <1>1, <2>1 DEF PlanTypes, OneDispatcher, InDispatch
  <2>6. client'[c].stage = "ended" /\ client'[c].outcome = outcome
    BY <1>1, <2>1 DEF PlanTypes, ClientType
  <2>7. succeeded' <=> outcome = "dispatched"
    BY <2>1, <2>2
  <2>8. Told'
    BY <1>1, <2>1, <2>2, <2>5, <2>6, <2>7 DEF Told, InDispatch
  <2> QED BY <2>3, <2>4, <2>8 DEF PlanInv
<1> QED BY <1>2, <1>3

LEMMA OutcomeStep ==
  ASSUME PlanInv, NEW c \in Clients, SaveOutcome(c)
  PROVE  PlanInv'
<1>1. PlanTypes /\ Leased /\ OneDispatcher /\ Told
  BY DEF PlanInv
<1>2. /\ client[c].stage = "recording"
      /\ client' = [client EXCEPT ![c] = [AtRest EXCEPT !.stage = "free"]]
      /\ plan' = [plan EXCEPT !.dispatch_status = client[c].outcome]
      /\ holder' = Nobody /\ UNCHANGED <<stopsLeft, succeeded, notified>>
  BY <1>1 DEF SaveOutcome, Saves, Leased, UnderLease
<1>3. client[c].outcome \in {"dispatched", "failed"} /\ (succeeded <=> client[c].outcome = "dispatched")
  BY <1>1, <1>2 DEF Told
<1>4. \A d \in Clients \ {c} :
        client'[d] = client[d] /\ client[d].stage \notin UnderLease \union InDispatch
  BY <1>1, <1>2 DEF PlanTypes, Leased, OneDispatcher, UnderLease, InDispatch
<1>5. client'[c].stage = "free"
  BY <1>1, <1>2 DEF PlanTypes, AtRest
<1>6. PlanTypes'
  BY <1>1, <1>2, <1>3 DEF PlanTypes, ClientType, Records, AtRest, Fresh, Stages, Outcomes
<1>7. Leased' /\ OneDispatcher'
  BY <1>4, <1>5 DEF Leased, OneDispatcher, UnderLease, InDispatch
<1>8. plan'.dispatch_status = client[c].outcome /\ plan'.notification_sent = plan.notification_sent
  BY <1>1, <1>2 DEF PlanTypes, Records
<1>9. Told'
  BY <1>1, <1>2, <1>3, <1>4, <1>5, <1>8 DEF Told, InDispatch
<1> QED BY <1>6, <1>7, <1>9 DEF PlanInv

LEMMA PlanStep == PlanInv /\ [PlanNext]_planDispatchVars => PlanInv'
<1> SUFFICES ASSUME PlanInv, [PlanNext]_planDispatchVars PROVE PlanInv'
  OBVIOUS
<1>1. ASSUME NEW c \in Clients, ReadForDelivery(c) \/ ReadForRequest(c) \/ ReadForOutcome(c)
      PROVE  PlanInv'
  BY <1>1, PlanTakeStep DEF ReadForDelivery, ReadForRequest, ReadForOutcome, UnderLease, InDispatch
<1>2. ASSUME NEW c \in Clients, SaveDelivery(c) PROVE PlanInv'
  BY <1>2, DeliveryStep
<1>3. ASSUME NEW c \in Clients, RefuseRequest(c) \/ SaveRequest(c) PROVE PlanInv'
  BY <1>3, RequestStep
<1>4. ASSUME NEW c \in Clients,
             \/ \E ok \in BOOLEAN : BeginRun(c, ok)
             \/ \E outcome \in {"dispatched", "failed"} : EndRun(c, outcome)
      PROVE  PlanInv'
  BY <1>4, RunStepOfPlan
<1>5. ASSUME NEW c \in Clients, SaveOutcome(c) PROVE PlanInv'
  BY <1>5, OutcomeStep
<1>6. CASE Stop
  BY <1>6, PlanAssumption
     DEF Stop, PlanInv, PlanTypes, Leased, OneDispatcher, Told, ClientType, Records, AtRest, Fresh,
         Stages, Outcomes, UnderLease, InDispatch
<1>7. CASE UNCHANGED planDispatchVars
  BY <1>7 DEF planDispatchVars, PlanInv, PlanTypes, Leased, OneDispatcher, Told
<1>8. CASE \E c \in Clients :
             \/ ReadForDelivery(c) \/ SaveDelivery(c)
             \/ ReadForRequest(c) \/ RefuseRequest(c) \/ SaveRequest(c)
             \/ \E ok \in BOOLEAN : BeginRun(c, ok)
             \/ \E outcome \in {"dispatched", "failed"} : EndRun(c, outcome)
             \/ ReadForOutcome(c) \/ SaveOutcome(c)
  BY <1>1, <1>2, <1>3, <1>4, <1>5, <1>8, Zenon
<1> QED BY <1>6, <1>7, <1>8 DEF PlanNext

LEMMA PlanInvariant == PlanSpec => []PlanInv
<1>1. ASSUME PlanInit PROVE PlanInv
  <2>1. /\ plan = Fresh /\ client = [c \in Clients |-> AtRest] /\ holder = Nobody
        /\ stopsLeft = MaxShutdowns /\ succeeded = FALSE /\ notified = FALSE
    BY <1>1 DEF PlanInit
  <2>a. Fresh \in Records
    BY DEF Fresh, Records
  <2>b. AtRest \in ClientType
    BY <2>a DEF AtRest, ClientType, Stages, Outcomes
  <2>c. stopsLeft \in 0 .. MaxShutdowns
    BY <2>1, PlanAssumption
  <2>d. client \in [Clients -> ClientType]
    BY <2>1, <2>b
  <2>e. succeeded \in BOOLEAN /\ notified \in BOOLEAN
    BY <2>1, Zenon
  <2>2. PlanTypes
    BY <2>1, <2>a, <2>c, <2>d, <2>e DEF PlanTypes
  <2>3. \A c \in Clients : client[c].stage = "free"
    BY <2>1 DEF AtRest
  <2>4. Leased /\ OneDispatcher
    BY <2>3 DEF Leased, OneDispatcher, UnderLease, InDispatch
  <2>5. Told
    BY <2>1, <2>3 DEF Told, Fresh, InDispatch
  <2> QED BY <2>2, <2>4, <2>5 DEF PlanInv
<1> QED BY <1>1, PlanStep, PTL DEF PlanSpec

-----------------------------------------------------------------------------
\* The plan and every client keep their types.
THEOREM PlanTypeCorrect == PlanSpec => []PlanTypeOK
<1>1. PlanInv => PlanTypeOK
  BY DEF PlanInv, PlanTypes, PlanTypeOK, ClientType, Stages, Outcomes
<1> QED BY <1>1, PlanInvariant, PTL

\* However many clients request the dispatch, at most one run of the plan is
\* in progress, none begins after one has succeeded, and what was recorded of
\* a run or of a delivery is not undone.
THEOREM PlanRunsOnceHolds == PlanSpec => []PlanRunsOnce
<1>1. ASSUME PlanInv PROVE PlanRunsOnce
  <2>1. PlanTypes /\ OneDispatcher /\ Told
    BY <1>1 DEF PlanInv
  <2>2. Cardinality(Dispatching) <= 1
    <3>1. \A c, d \in Dispatching : c = d
      BY <2>1 DEF OneDispatcher, Dispatching, InDispatch
    <3>2. CASE Dispatching = {}
      BY <3>2, FS_EmptySet
    <3>3. CASE Dispatching # {}
      <4>1. PICK c \in Dispatching : Dispatching = {c}
        BY <3>1, <3>3
      <4> QED BY <4>1, FS_Singleton
    <3> QED BY <3>2, <3>3
  <2> QED BY <2>1, <2>2 DEF PlanRunsOnce, Told
<1> QED BY <1>1, PlanInvariant, PTL

-----------------------------------------------------------------------------
(* Telegram.  EveryUpdateHasOneFate holds for any set of updates, any      *)
(* limits and any number of restarts.  The invariant it needs says that    *)
(* the claim of an update is never without its work, and that whatever the *)
(* offset or the batch of the daemon has passed over is settled; a request *)
(* that has not been claimed settles nothing, since a restart forgets it.  *)

UpdateRequest == [update : Updates, stage : {"new", "claimed"}]

UnderWay(u) == Request(u, "claimed") \in requests
Settled(u) == handled[u] = 1 \/ u \in spoiled \/ UnderWay(u)

\* The daemon will not ask for u again before a restart.
Passed(u) == u < offset \/ (u \notin batch /\ \E v \in batch : u < v)

HandledOnce ==
    \A u \in Updates :
        /\ handled[u] <= 1
        /\ handled[u] = 1 => u \in claimed
        /\ UnderWay(u) => u \in claimed /\ handled[u] = 0

Fates ==
    /\ batch = {} => ~sent
    /\ \A u \in Updates :
         /\ u \in claimed => Settled(u)
         /\ Passed(u) => Settled(u)
         /\ sent /\ IsHead(u) => Settled(u) \/ Request(u, "new") \in requests
         /\ u \in atTelegram \/ Settled(u)

IngressInv == IngressTypeOK /\ HandledOnce /\ Fates

-----------------------------------------------------------------------------
\* The smallest members of a set are a beginning of it.
LEMMA FirstAreFirst ==
  ASSUME NEW S \in SUBSET Updates, NEW u \in FirstOf(S), NEW v \in S, v < u
  PROVE  v \in FirstOf(S)
<1> DEFINE below == {w \in S : w < u}
           lower == {w \in S : w < v}
<1>0. u \in Nat /\ v \in Nat /\ u \in Updates /\ S \subseteq Nat
  BY IngressAssumption DEF FirstOf
<1>1. below \subseteq 0 .. u /\ lower \subseteq below
  <2>1. \A w \in S : (w < u => w \in 0 .. u) /\ (w < v => w < u)
    BY <1>0
  <2> QED BY <2>1
<1>2. IsFiniteSet(0 .. u)
  <2>1. 0 \in Int /\ u \in Int
    BY <1>0
  <2> QED BY <2>1, FS_Interval, Zenon
<1>3. Cardinality(below) < PerPoll
  BY DEF FirstOf
<1> HIDE DEF below, lower
<1>4. IsFiniteSet(below)
  BY <1>1, <1>2, FS_Subset
<1>5. Cardinality(lower) <= Cardinality(below) /\ IsFiniteSet(lower)
  BY <1>1, <1>4, FS_Subset
<1>6. Cardinality(lower) \in Nat /\ Cardinality(below) \in Nat
  BY <1>4, <1>5, FS_CardinalityType
<1>7. Cardinality(lower) < PerPoll
  BY <1>3, <1>5, <1>6, IngressAssumption
<1> QED BY <1>0, <1>7 DEF FirstOf, lower

LEMMA PollStep == ASSUME IngressInv, Poll PROVE IngressInv'
<1>1. IngressTypeOK /\ HandledOnce /\ Fates
  BY DEF IngressInv
<1>2. /\ atTelegram' = atTelegram \intersect FromOffset /\ batch = {}
      /\ batch' \in {{}, FirstOf(atTelegram')}
      /\ UNCHANGED <<polling, offset, sent, requests, claimed, window, restarts, handled, spoiled>>
  BY DEF Poll
<1>3. batch' \subseteq Updates /\ atTelegram' \subseteq Updates
  BY <1>1, <1>2 DEF IngressTypeOK, FirstOf
<1>4. IngressTypeOK' /\ HandledOnce'
  BY <1>1, <1>2, <1>3 DEF IngressTypeOK, HandledOnce, UnderWay, Request
<1>5. \A u \in Updates : Settled(u)' <=> Settled(u)
  BY <1>2 DEF Settled, UnderWay, Request
<1>6. ASSUME NEW u \in Updates PROVE u \in atTelegram' \/ Settled(u)
  <2>1. CASE u < offset
    BY <1>1, <2>1 DEF Fates, Passed
  <2>2. CASE ~(u < offset)
    <3>1. u \in Nat /\ offset \in Nat
      BY <1>1, IngressAssumption DEF IngressTypeOK
    <3>2. u \in FromOffset
      BY <2>2, <3>1 DEF FromOffset
    <3> QED BY <1>1, <1>2, <3>2 DEF Fates
  <2> QED BY <2>1, <2>2
<1>7. ASSUME NEW u \in Updates, Passed(u)' PROVE Settled(u)
  <2>1. CASE u < offset
    BY <1>1, <2>1 DEF Fates, Passed
  <2>2. CASE u \notin batch' /\ \E v \in batch' : u < v
    <3>1. batch' = FirstOf(atTelegram')
      BY <1>2, <2>2
    <3>2. u \notin atTelegram'
      BY <1>3, <2>2, <3>1, FirstAreFirst
    <3> QED BY <1>6, <3>2
  <2> QED BY <1>2, <1>7, <2>1, <2>2 DEF Passed
<1>8. ~sent' /\ batch' \subseteq Updates
  BY <1>1, <1>2, <1>3 DEF Fates
<1>9. \A u \in Updates : u \in claimed' => Settled(u)
  BY <1>1, <1>2 DEF Fates
<1>10. Fates'
  BY <1>5, <1>6, <1>7, <1>8, <1>9 DEF Fates
<1> QED BY <1>4, <1>10 DEF IngressInv

\* The daemon leaves an update that is settled.
LEMMA MoveOnStep ==
  ASSUME IngressInv, NEW u \in Updates, IsHead(u), MoveOn(u), Settled(u)',
         UNCHANGED <<polling, atTelegram, requests, claimed, window, restarts, handled>>,
         spoiled' \in {spoiled, spoiled \union {u}}
  PROVE  IngressInv'
<1>1. IngressTypeOK /\ HandledOnce /\ Fates
  BY DEF IngressInv
<1>2. offset' = u + 1 /\ batch' = batch \ {u} /\ sent' = FALSE /\ u \in Nat
  BY IngressAssumption DEF MoveOn
<1>3. IngressTypeOK' /\ HandledOnce'
  BY <1>1, <1>2 DEF IngressTypeOK, HandledOnce, UnderWay, Request
<1>4. \A v \in Updates : Settled(v) => Settled(v)'
  BY DEF Settled, UnderWay, Request
<1>5. ASSUME NEW v \in Updates, Passed(v)' PROVE Settled(v)'
  <2>0. v \in Nat /\ offset \in Nat /\ batch \subseteq Nat
    BY <1>1, IngressAssumption DEF IngressTypeOK
  <2>1. CASE v = u
    BY <2>1
  <2>2. CASE v < u
    <3>1. v \notin batch /\ u \in batch
      BY <2>0, <2>2, <1>2 DEF IsHead
    <3>2. Passed(v)
      BY <2>2, <3>1 DEF Passed
    <3> QED BY <1>1, <1>4, <3>2 DEF Fates
  <2>3. CASE v # u /\ ~(v < u)
    <3>1. v \notin batch' /\ \E w \in batch' : v < w
      BY <1>2, <1>5, <2>0, <2>3 DEF Passed
    <3>2. Passed(v)
      BY <1>2, <2>3, <3>1 DEF Passed
    <3> QED BY <1>1, <1>4, <3>2 DEF Fates
  <2> QED BY <2>1, <2>2, <2>3
<1>6. Fates'
  BY <1>1, <1>2, <1>4, <1>5 DEF Fates
<1> QED BY <1>3, <1>6 DEF IngressInv

\* What happens at the webhook leaves the daemon where it is.
LEMMA WebhookKeepsFates ==
  ASSUME Fates, UNCHANGED <<offset, batch, sent>>,
         \A u \in Updates : Settled(u) => Settled(u)',
         \A u \in Updates : u \in claimed' => u \in claimed \/ Settled(u)',
         \A u \in Updates : Request(u, "new") \in requests =>
                               Request(u, "new") \in requests' \/ Settled(u)',
         \A u \in Updates : u \in atTelegram => u \in atTelegram' \/ Settled(u)'
  PROVE  Fates'
<1>1. \A u \in Updates : Passed(u)' => Passed(u)
  BY DEF Passed
<1>2. \A u \in Updates : IsHead(u)' => IsHead(u)
  BY DEF IsHead
<1>3. batch' = {} => ~sent'
  BY DEF Fates
<1>4. \A u \in Updates : (u \in claimed' => Settled(u)') /\ (Passed(u)' => Settled(u)')
  BY <1>1 DEF Fates
<1>5. \A u \in Updates : sent' /\ IsHead(u)' => Settled(u)' \/ Request(u, "new") \in requests'
  BY <1>2 DEF Fates
<1>6. \A u \in Updates : u \in atTelegram' \/ Settled(u)'
  BY DEF Fates
<1>7. \A u \in Updates : Request(u, "new")' = Request(u, "new")
  BY DEF Request
<1> QED BY <1>3, <1>4, <1>5, <1>6, <1>7 DEF Fates

LEMMA DispatchStep ==
  ASSUME IngressInv, NEW u \in Updates, Dispatch(u)
  PROVE  IngressInv'
<1>1. IngressTypeOK /\ HandledOnce /\ Fates
  BY DEF IngressInv
<1>2. /\ IsHead(u) /\ sent' = TRUE /\ requests' = requests \union {Request(u, "new")}
      /\ UNCHANGED <<polling, atTelegram, offset, batch, claimed, window, restarts, handled, spoiled>>
  BY DEF Dispatch
<1>3. \A v \in Updates : Settled(v)' <=> Settled(v)
  BY <1>2 DEF Settled, UnderWay, Request
<1>4. IngressTypeOK' /\ HandledOnce'
  BY <1>1, <1>2 DEF IngressTypeOK, HandledOnce, UnderWay, Request
<1>5. \A v \in Updates : IsHead(v)' => v = u
  BY <1>1, <1>2, IngressAssumption DEF IsHead, IngressTypeOK
<1>6. \A v \in Updates : (Passed(v)' <=> Passed(v)) /\ Request(v, "new")' = Request(v, "new")
  BY <1>2 DEF Passed, Request
<1>7. batch' # {} /\ Request(u, "new") \in requests'
  BY <1>2 DEF IsHead
<1>8. Fates'
  BY <1>1, <1>2, <1>3, <1>5, <1>6, <1>7 DEF Fates
<1> QED BY <1>4, <1>8 DEF IngressInv

LEMMA AnsweredStep ==
  ASSUME IngressInv, NEW u \in Updates, Answered(u) \/ DispatchFails(u)
  PROVE  IngressInv'
<1>1. IngressTypeOK /\ HandledOnce /\ Fates
  BY DEF IngressInv
<1>2. CASE Answered(u)
  <2>1. Settled(u)
    BY <1>1, <1>2 DEF Answered, Fates, Request
  <2>2. Settled(u)'
    BY <1>2, <2>1 DEF Answered, Settled, UnderWay, Request
  <2> QED BY <1>2, <2>2, MoveOnStep DEF Answered
<1>3. CASE DispatchFails(u)
  <2>1. Settled(u)'
    BY <1>3 DEF DispatchFails, Settled
  <2> QED BY <1>3, <2>1, MoveOnStep DEF DispatchFails
<1> QED BY <1>2, <1>3

LEMMA TelegramStep ==
  ASSUME IngressInv, NEW u \in Updates, Post(u) \/ Abandon(u)
  PROVE  IngressInv'
<1>1. IngressTypeOK /\ HandledOnce /\ Fates
  BY DEF IngressInv
<1>2. CASE Post(u)
  <2>1. /\ requests' = requests \union {Request(u, "new")}
        /\ UNCHANGED <<polling, atTelegram, offset, batch, sent, claimed, window, restarts, handled, spoiled>>
    BY <1>2 DEF Post
  <2>2. IngressTypeOK' /\ HandledOnce'
    BY <1>1, <2>1 DEF IngressTypeOK, HandledOnce, UnderWay, Request
  <2>3. Fates'
    BY <1>1, <2>1, WebhookKeepsFates DEF Settled, UnderWay, Request
  <2> QED BY <2>2, <2>3 DEF IngressInv
<1>3. CASE Abandon(u)
  <2>1. /\ u \in spoiled \union claimed /\ atTelegram' = atTelegram \ {u}
        /\ UNCHANGED <<polling, offset, batch, sent, requests, claimed, window, restarts, handled, spoiled>>
    BY <1>3 DEF Abandon
  <2>2. IngressTypeOK' /\ HandledOnce'
    BY <1>1, <2>1 DEF IngressTypeOK, HandledOnce, UnderWay, Request
  <2>3. \A v \in Updates : Settled(v)' <=> Settled(v)
    BY <2>1 DEF Settled, UnderWay, Request
  <2>4. Settled(u)
    BY <1>1, <2>1 DEF Fates, Settled
  <2>5. Fates'
    BY <1>1, <2>1, <2>3, <2>4, WebhookKeepsFates
  <2> QED BY <2>2, <2>5 DEF IngressInv
<1> QED BY <1>2, <1>3

LEMMA GuardStep ==
  ASSUME IngressInv, NEW r \in requests, Guard(r) \/ GuardFails(r)
  PROVE  IngressInv'
<1>1. IngressTypeOK /\ HandledOnce /\ Fates
  BY DEF IngressInv
<1>2. /\ r.update \in Updates /\ r = Request(r.update, "new") /\ r.stage = "new"
      /\ UNCHANGED <<polling, atTelegram, offset, batch, sent, restarts, handled>>
  BY <1>1 DEF Guard, GuardFails, IngressTypeOK, Request
<1> DEFINE u == r.update
<1>3. CASE u \in claimed /\ requests' = requests \ {r} /\ UNCHANGED <<claimed, window, spoiled>>
  <2>1. IngressTypeOK' /\ HandledOnce'
    BY <1>1, <1>2, <1>3 DEF IngressTypeOK, HandledOnce, UnderWay, Request
  <2>2. \A v \in Updates : Settled(v)' <=> Settled(v)
    BY <1>2, <1>3 DEF Settled, UnderWay, Request
  <2>3. Settled(u)'
    BY <1>1, <1>2, <1>3, <2>2 DEF Fates
  <2>4. \A v \in Updates : Request(v, "new") \in requests => Request(v, "new") \in requests' \/ v = u
    BY <1>2, <1>3 DEF Request
  <2>5. Fates'
    BY <1>1, <1>2, <1>3, <2>2, <2>3, <2>4, WebhookKeepsFates
  <2> QED BY <2>1, <2>5 DEF IngressInv
<1>4. CASE /\ u \notin claimed /\ claimed' = claimed \union {u}
           /\ window < PerWindow /\ window' = window + 1
           /\ requests' = (requests \ {r}) \union {Request(u, "claimed")} /\ UNCHANGED spoiled
  <2>1. Request(u, "claimed") \notin requests /\ handled[u] = 0
    BY <1>1, <1>2, <1>4 DEF HandledOnce, UnderWay, IngressTypeOK
  <2>w. window' \in 0 .. PerWindow
    BY <1>1, <1>4, IngressAssumption DEF IngressTypeOK
  <2>2. IngressTypeOK'
    BY <1>1, <1>2, <1>4, <2>w DEF IngressTypeOK, Request
  <2>3. HandledOnce'
    BY <1>1, <1>2, <1>4, <2>1 DEF HandledOnce, UnderWay, Request
  <2>4. \A v \in Updates : Settled(v) => Settled(v)'
    BY <1>2, <1>4 DEF Settled, UnderWay, Request
  <2>5. Settled(u)'
    BY <1>4 DEF Settled, UnderWay, Request
  <2>6. \A v \in Updates : Request(v, "new") \in requests => Request(v, "new") \in requests' \/ v = u
    BY <1>2, <1>4 DEF Request
  <2>7. Fates'
    BY <1>1, <1>2, <1>4, <2>4, <2>5, <2>6, WebhookKeepsFates
  <2> QED BY <2>2, <2>3, <2>7 DEF IngressInv
<1>5. CASE /\ claimed' \in {claimed, claimed \union {u}}
           /\ requests' = requests \ {r} /\ spoiled' = spoiled \union {u} /\ UNCHANGED window
  <2>1. IngressTypeOK' /\ HandledOnce'
    BY <1>1, <1>2, <1>5 DEF IngressTypeOK, HandledOnce, UnderWay, Request
  <2>2. \A v \in Updates : Settled(v) => Settled(v)'
    BY <1>2, <1>5 DEF Settled, UnderWay, Request
  <2>3. Settled(u)'
    BY <1>5 DEF Settled
  <2>4. \A v \in Updates : Request(v, "new") \in requests => Request(v, "new") \in requests' \/ v = u
    BY <1>2, <1>5 DEF Request
  <2>5. Fates'
    BY <1>1, <1>2, <1>5, <2>2, <2>3, <2>4, WebhookKeepsFates
  <2> QED BY <2>1, <2>5 DEF IngressInv
<1> QED BY <1>3, <1>4, <1>5 DEF Guard, GuardFails

LEMMA HandleStep ==
  ASSUME IngressInv, NEW r \in requests, NEW ok \in BOOLEAN, Handle(r, ok)
  PROVE  IngressInv'
<1>1. IngressTypeOK /\ HandledOnce /\ Fates
  BY DEF IngressInv
<1>2. /\ r.update \in Updates /\ r = Request(r.update, "claimed") /\ requests' = requests \ {r}
      /\ UNCHANGED <<polling, offset, batch, sent, claimed, window, restarts>>
  BY <1>1 DEF Handle, IngressTypeOK, Request
<1> DEFINE u == r.update
<1>3. UnderWay(u) /\ u \in claimed /\ handled[u] = 0
  BY <1>1, <1>2 DEF UnderWay, HandledOnce
<1>4. \/ handled' = [handled EXCEPT ![u] = @ + 1] /\ UNCHANGED spoiled
      \/ spoiled' = spoiled \union {u} /\ UNCHANGED handled
  BY DEF Handle
<1>5. atTelegram' \in {atTelegram, atTelegram \ {u}}
  BY DEF Handle
<1>6. IngressTypeOK' /\ HandledOnce'
  BY <1>1, <1>2, <1>3, <1>4, <1>5 DEF IngressTypeOK, HandledOnce, UnderWay, Request
<1>7. \A v \in Updates : Settled(v) => Settled(v)'
  BY <1>1, <1>2, <1>3, <1>4 DEF Settled, UnderWay, Request, IngressTypeOK
<1>8. Settled(u)'
  BY <1>3, <1>7, <1>2 DEF Settled
<1>9. \A v \in Updates : Request(v, "new") \in requests => Request(v, "new") \in requests'
  BY <1>2 DEF Request
<1>10. Fates'
  BY <1>1, <1>2, <1>5, <1>7, <1>8, <1>9, WebhookKeepsFates
<1> QED BY <1>6, <1>10 DEF IngressInv

LEMMA RestartStep == ASSUME IngressInv, Restart PROVE IngressInv'
<1>1. IngressTypeOK /\ HandledOnce /\ Fates
  BY DEF IngressInv
<1>2. /\ offset' = 0 /\ batch' = {} /\ sent' = FALSE /\ requests' = {}
      /\ spoiled' = spoiled \union {r.update : r \in {x \in requests : x.stage = "claimed"}}
      /\ UNCHANGED <<atTelegram, claimed, handled>>
  BY DEF Restart
<1>a. spoiled' \subseteq Updates
  BY <1>1, <1>2 DEF IngressTypeOK
<1>b. window' \in 0 .. PerWindow /\ restarts' \in 0 .. MaxRestarts
  BY <1>1, IngressAssumption DEF Restart, IngressTypeOK
<1>c. sent' \in BOOLEAN /\ polling' \in BOOLEAN
  BY <1>2, Zenon DEF Restart
<1>3. IngressTypeOK'
  BY <1>1, <1>2, <1>a, <1>b, <1>c DEF IngressTypeOK
<1>4. HandledOnce'
  BY <1>1, <1>2 DEF HandledOnce, UnderWay
<1>5. ASSUME NEW u \in Updates, Settled(u) PROVE Settled(u)'
  <2>1. CASE UnderWay(u)
    BY <1>2, <2>1 DEF UnderWay, Settled, Request
  <2> QED BY <1>2, <1>5, <2>1 DEF Settled
<1>6. \A u \in Updates : ~Passed(u)'
  BY <1>2, IngressAssumption DEF Passed
<1>7. Fates'
  BY <1>1, <1>2, <1>5, <1>6 DEF Fates
<1> QED BY <1>3, <1>4, <1>7 DEF IngressInv

LEMMA IngressStep == IngressInv /\ [IngressNext]_ingressVars => IngressInv'
<1> SUFFICES ASSUME IngressInv, [IngressNext]_ingressVars PROVE IngressInv'
  OBVIOUS
<1>1. CASE Poll
  BY <1>1, PollStep
<1>2. CASE WindowPasses
  <2>1. UNCHANGED <<polling, atTelegram, offset, batch, sent, requests, claimed, restarts, handled, spoiled>>
    BY <1>2 DEF WindowPasses
  <2>2. window' \in 0 .. PerWindow
    BY <1>2, IngressAssumption DEF WindowPasses
  <2>3. IngressTypeOK' /\ HandledOnce'
    BY <2>1, <2>2 DEF IngressInv, IngressTypeOK, HandledOnce, UnderWay, Request
  <2>4. \A u \in Updates : Settled(u)' <=> Settled(u)
    BY <2>1 DEF Settled, UnderWay, Request
  <2>5. Fates'
    BY <2>1, <2>4, WebhookKeepsFates DEF IngressInv
  <2> QED BY <2>3, <2>5 DEF IngressInv
<1>3. CASE Restart
  BY <1>3, RestartStep
<1>4. CASE \E u \in Updates :
         Dispatch(u) \/ Answered(u) \/ DispatchFails(u) \/ Post(u) \/ Abandon(u)
  BY <1>4, DispatchStep, AnsweredStep, TelegramStep
<1>5. CASE \E r \in requests : Guard(r) \/ GuardFails(r) \/ Handle(r, TRUE) \/ Handle(r, FALSE)
  BY <1>5, GuardStep, HandleStep
<1>6. CASE UNCHANGED ingressVars
  BY <1>6 DEF ingressVars, IngressInv, IngressTypeOK, HandledOnce, Fates, Settled, UnderWay, Passed, IsHead, Request
<1> QED BY <1>1, <1>2, <1>3, <1>4, <1>5, <1>6 DEF IngressNext

LEMMA IngressInvariant == IngressSpec => []IngressInv
<1>1. ASSUME IngressInit PROVE IngressInv
  <2>a. window \in 0 .. PerWindow /\ restarts \in 0 .. MaxRestarts
    BY <1>1, IngressAssumption DEF IngressInit
  <2>b. sent \in BOOLEAN /\ polling \in BOOLEAN
    BY <1>1, Zenon DEF IngressInit
  <2>1. IngressTypeOK
    BY <1>1, <2>a, <2>b DEF IngressInit, IngressTypeOK
  <2>2. HandledOnce
    BY <1>1 DEF IngressInit, HandledOnce, UnderWay
  <2>3. \A u \in Updates : ~Passed(u) /\ ~IsHead(u)
    BY <1>1, IngressAssumption DEF IngressInit, Passed, IsHead
  <2>4. Fates
    BY <1>1, <2>3 DEF IngressInit, Fates
  <2> QED BY <2>1, <2>2, <2>4 DEF IngressInv
<1> QED BY <1>1, IngressStep, PTL DEF IngressSpec

-----------------------------------------------------------------------------
\* The daemon, the claims and the requests in progress keep their types.
THEOREM IngressTypeCorrect == IngressSpec => []IngressTypeOK
<1>1. IngressInv => IngressTypeOK
  BY DEF IngressInv
<1> QED BY <1>1, IngressInvariant, PTL

\* Every update is handled at most once, and is never dropped unnoticed by
\* polling, restarts or the switch between polling and webhook.
THEOREM UpdatesHaveOneFate == IngressSpec => []EveryUpdateHasOneFate
<1>1. ASSUME IngressInv PROVE EveryUpdateHasOneFate
  <2>1. ASSUME NEW u \in Updates PROVE Settled(u) => handled[u] = 1 \/ u \in spoiled
                                         \/ \E r \in requests : r.update = u
    BY DEF Settled, UnderWay, Request
  <2> QED BY <1>1, <2>1 DEF IngressInv, HandledOnce, Fates, EveryUpdateHasOneFate
<1> QED BY <1>1, IngressInvariant, PTL

-----------------------------------------------------------------------------
(* The approvals.  For any number of approvals and callers, at most one    *)
(* decision of an approval is recorded, it is never reversed, and it was   *)
(* carried out before, although expiry is saved without the writer lease.  *)

DecidedOrExpired == Decisions \union {"expired"}
AnyStatus == {"absent", "pending"} \union DecidedOrExpired
DeciderType == [at : Places, on : Approvals \union {NoApproval},
                decision : Decisions, seen : AnyStatus]

ApprovalTypes ==
    /\ status \in [Approvals -> AnyStatus]
    /\ due \subseteq Approvals
    /\ call \in [Callers -> DeciderType]
    /\ delivered \in [Approvals -> SUBSET Decisions]
    /\ recorded \in [Approvals -> Nat]
    /\ resumed \subseteq Approvals
    /\ kills \in 0..MaxKills

\* The writer lease of an approval has one holder.
OneLeaseHolder ==
    \A a \in Approvals : \A c, d \in Callers : Holds(c, a) /\ Holds(d, a) => c = d

\* What the holder of the lease read still stands, unless it expired since;
\* and what any call is about to save is harmless.
SoundCall(x) ==
    /\ x.at # "idle" => x.on \in Approvals /\ status[x.on] # "absent"
    /\ x.at \in {"recording", "saving"} /\ Delivers(x.on, x.decision)
         => x.decision \in delivered[x.on]
    /\ x.at = "saving" =>
         recorded[x.on] = 0 /\ status[x.on] \in {"pending", "expired"}
    /\ x.at = "updating" =>
         /\ x.seen # "absent" /\ status[x.on] \in {x.seen, "expired"}
         /\ recorded[x.on] > 0 => x.seen # "pending"
         /\ x.seen \in Decisions /\ Delivers(x.on, x.seen) => x.seen \in delivered[x.on]

SoundCalls == \A c \in Callers : SoundCall(call[c])

\* Once a decision was recorded the approval is over.
DecidedOnce ==
    \A a \in Approvals :
        /\ recorded[a] <= 1
        /\ recorded[a] > 0 => status[a] \in DecidedOrExpired

DecisionInv == ApprovalTypes /\ OneLeaseHolder /\ SoundCalls /\ DecidedOnce /\ DecisionWasDelivered

LockedPlaces == {"expiringLocked", "saving", "updating"}

\* A call takes a step that touches nothing the others look at.
LEMMA StepOfOneCall ==
  ASSUME DecisionInv, NEW c \in Callers, NEW x \in DeciderType,
         call' = [call EXCEPT ![c] = x],
         UNCHANGED <<status, delivered, recorded>>,
         due' \subseteq Approvals, resumed' \subseteq Approvals, kills' \in 0..MaxKills,
         x.at \in LockedPlaces => \A d \in Callers \ {c} : ~Holds(d, x.on),
         SoundCall(x)
  PROVE  DecisionInv'
<1>t. ApprovalTypes /\ OneLeaseHolder /\ SoundCalls /\ DecidedOnce /\ DecisionWasDelivered
  BY DEF DecisionInv
<1>1. ApprovalTypes'
  BY <1>t DEF ApprovalTypes
<1>2. call'[c] = x /\ \A d \in Callers \ {c} : call'[d] = call[d]
  BY <1>t DEF ApprovalTypes
<1>3. OneLeaseHolder'
  BY <1>t, <1>2 DEF OneLeaseHolder, Holds, LockedPlaces
<1>4. SoundCalls'
  BY <1>t, <1>2 DEF SoundCalls, SoundCall, Delivers
<1>5. DecidedOnce' /\ DecisionWasDelivered'
  BY <1>t DEF DecidedOnce, DecisionWasDelivered, Delivers
<1> QED BY <1>1, <1>3, <1>4, <1>5 DEF DecisionInv

\* A call ends with a save of value s to the record of a.
LEMMA StepThatSaves ==
  ASSUME DecisionInv, NEW c \in Callers, NEW x \in DeciderType, NEW a \in Approvals,
         NEW s \in AnyStatus \ {"absent"}, NEW n \in Nat,
         call' = [call EXCEPT ![c] = x], x.at \notin LockedPlaces \union {"recording"},
         x.at # "idle" => x.on = a,
         status' = [status EXCEPT ![a] = s], recorded' = [recorded EXCEPT ![a] = n],
         UNCHANGED <<due, delivered, resumed, kills>>,
         n <= 1, n > 0 => s \in DecidedOrExpired,
         s \in Decisions /\ Delivers(a, s) => s \in delivered[a],
         (s = "expired" /\ n = recorded[a]) \/ \A d \in Callers \ {c} : ~Holds(d, a)
  PROVE  DecisionInv'
<1>t. ApprovalTypes /\ OneLeaseHolder /\ SoundCalls /\ DecidedOnce /\ DecisionWasDelivered
  BY DEF DecisionInv
<1>1. ApprovalTypes'
  BY <1>t DEF ApprovalTypes
<1>2. call'[c] = x /\ \A d \in Callers \ {c} : call'[d] = call[d]
  BY <1>t DEF ApprovalTypes
<1>3. /\ status'[a] = s /\ recorded'[a] = n
      /\ \A b \in Approvals \ {a} : status'[b] = status[b] /\ recorded'[b] = recorded[b]
  BY <1>t DEF ApprovalTypes
<1>4. OneLeaseHolder'
  BY <1>t, <1>2 DEF OneLeaseHolder, Holds, LockedPlaces
<1>5. ASSUME NEW d \in Callers \ {c} PROVE SoundCall(call[d])'
  <2>0. SoundCall(call[d]) /\ call'[d] = call[d]
    BY <1>t, <1>2 DEF SoundCalls
  <2>1. CASE call[d].on # a
    BY <2>0, <2>1, <1>3 DEF SoundCall, Delivers
  <2>2. CASE call[d].on = a /\ Holds(d, a)
    BY <2>0, <2>2, <1>3 DEF SoundCall, Delivers
  <2>3. CASE call[d].on = a /\ ~Holds(d, a)
    BY <2>0, <2>3, <1>3 DEF SoundCall, Delivers, Holds
  <2> QED BY <2>1, <2>2, <2>3
<1>6. SoundCall(call[c])'
  BY <1>2, <1>3 DEF SoundCall, LockedPlaces
<1>7. DecidedOnce' /\ DecisionWasDelivered'
  BY <1>t, <1>3 DEF DecidedOnce, DecisionWasDelivered, Delivers
<1> QED BY <1>1, <1>4, <1>5, <1>6, <1>7 DEF DecisionInv, SoundCalls

LEMMA DecisionInvInit == DecisionInit => DecisionInv
<1> SUFFICES ASSUME DecisionInit PROVE DecisionInv
  OBVIOUS
<1>1. Idle \in DeciderType
  BY DEF Idle, DeciderType, Places, Decisions, AnyStatus
<1>2. ApprovalTypes
  BY <1>1, ApprovalAssumption DEF DecisionInit, ApprovalTypes, AnyStatus
<1>3. \A c \in Callers : call[c] = Idle
  BY DEF DecisionInit
<1>4. OneLeaseHolder /\ SoundCalls
  BY <1>3 DEF OneLeaseHolder, SoundCalls, SoundCall, Holds, Idle
<1>5. DecidedOnce /\ DecisionWasDelivered
  BY DEF DecisionInit, DecidedOnce, DecisionWasDelivered, Decisions
<1> QED BY <1>2, <1>4, <1>5 DEF DecisionInv

\* The holder of the lease excludes the others.
LEMMA Alone ==
  ASSUME DecisionInv, NEW c \in Callers, call[c].at \in LockedPlaces
  PROVE  \A d \in Callers \ {c} : ~Holds(d, call[c].on)
<1>1. call[c].on \in Approvals /\ Holds(c, call[c].on)
  BY DEF DecisionInv, SoundCalls, SoundCall, LockedPlaces, Holds
<1> QED BY <1>1 DEF DecisionInv, OneLeaseHolder

LEMMA DecisionInvCreate == ASSUME DecisionInv, NEW a \in Approvals, Create(a) PROVE DecisionInv'
<1>t. ApprovalTypes /\ OneLeaseHolder /\ SoundCalls /\ DecidedOnce /\ DecisionWasDelivered
  BY DEF DecisionInv
<1>1. status[a] = "absent" /\ status' = [status EXCEPT ![a] = "pending"]
      /\ UNCHANGED <<call, due, delivered, recorded, resumed, kills>>
  BY DEF Create, world
<1>2. ApprovalTypes'
  BY <1>t, <1>1 DEF ApprovalTypes, AnyStatus
<1>3. status'[a] = "pending" /\ \A b \in Approvals \ {a} : status'[b] = status[b]
  BY <1>t, <1>1 DEF ApprovalTypes
<1>4. OneLeaseHolder'
  BY <1>t, <1>1 DEF OneLeaseHolder, Holds
<1>5. ASSUME NEW c \in Callers PROVE SoundCall(call[c])'
  <2>1. SoundCall(call[c]) /\ call'[c] = call[c]
    BY <1>t, <1>1 DEF SoundCalls
  <2>2. CASE call[c].on = a
    BY <2>1, <2>2, <1>1 DEF SoundCall
  <2>3. CASE call[c].on # a
    BY <2>1, <2>3, <1>1, <1>3 DEF SoundCall, Delivers
  <2> QED BY <2>2, <2>3
<1>6. recorded[a] \in Nat /\ ~(recorded[a] > 0)
  BY <1>t, <1>1 DEF ApprovalTypes, DecidedOnce, DecidedOrExpired, Decisions
<1>7. DecidedOnce' /\ DecisionWasDelivered'
  BY <1>t, <1>1, <1>3, <1>6 DEF DecidedOnce, DecisionWasDelivered, Delivers, Decisions
<1> QED BY <1>2, <1>4, <1>5, <1>7 DEF DecisionInv, SoundCalls

LEMMA DecisionInvBegin == ASSUME DecisionInv, NEW c \in Callers, Begin(c) PROVE DecisionInv'
<1>1. PICK a \in Approvals : \/ \E decision \in Decisions : Decide(c, a, decision)
                             \/ Read(c, a) \/ Annotate(c, a)
  BY DEF Begin
<1>t. ApprovalTypes
  BY DEF DecisionInv
<1>2. UNCHANGED <<status, due, delivered, recorded, resumed, kills>> /\ status[a] # "absent"
  BY <1>1 DEF Decide, Read, Annotate, MustExpire, world
<1>3. PICK place \in {"expiring", "delivering", "recording", "noting"}, decision \in Decisions :
        /\ call' = [call EXCEPT ![c] =
             [at |-> place, on |-> a, decision |-> decision, seen |-> "absent"]]
        /\ place = "recording" => ~Delivers(a, decision)
  <2>1. ASSUME NEW decision \in Decisions, Decide(c, a, decision)
        PROVE  \E place \in {"expiring", "delivering", "recording"} :
          /\ call' = [call EXCEPT ![c] =
               [at |-> place, on |-> a, decision |-> decision, seen |-> "absent"]]
          /\ place = "recording" => ~Delivers(a, decision)
    <3>1. CASE ActionOf[a] = "plain"
      BY ZenonT(60), <2>1, <3>1 DEF Decide, Idle, Delivers
    <3>2. CASE ActionOf[a] # "plain"
      BY ZenonT(60), <2>1, <3>2 DEF Decide, Idle
    <3> QED BY <3>1, <3>2
  <2>2. ASSUME Read(c, a) \/ Annotate(c, a)
        PROVE  \E place \in {"expiring", "noting"} :
          call' = [call EXCEPT ![c] =
            [at |-> place, on |-> a, decision |-> "approved", seen |-> "absent"]]
    BY <2>2 DEF Read, Annotate, Idle
  <2> QED BY <1>1, <2>1, <2>2 DEF Decisions
<1> DEFINE x == [at |-> place, on |-> a, decision |-> decision, seen |-> "absent"]
<1>4. x \in DeciderType /\ x.at \notin LockedPlaces
  BY DEF DeciderType, Places, AnyStatus, LockedPlaces
<1>5. SoundCall(x)
  BY <1>2, <1>3 DEF SoundCall
<1>6. due' \subseteq Approvals /\ resumed' \subseteq Approvals /\ kills' \in 0..MaxKills
  BY <1>t, <1>2 DEF ApprovalTypes
<1> HIDE DEF x
<1> QED BY <1>2, <1>3, <1>4, <1>5, <1>6, StepOfOneCall DEF x

LEMMA IdleIsSound == Idle \in DeciderType /\ Idle.at \notin LockedPlaces \union {"recording"} /\ SoundCall(Idle)
  BY DEF Idle, DeciderType, Places, Decisions, AnyStatus, LockedPlaces, SoundCall

\* A call in progress, as the actions find it.
LEMMA InProgress ==
  ASSUME DecisionInv, NEW c \in Callers, call[c].at # "idle"
  PROVE  /\ call[c] \in DeciderType /\ SoundCall(call[c])
         /\ call[c].on \in Approvals /\ status[call[c].on] # "absent"
         /\ recorded[call[c].on] \in Nat
  BY DEF DecisionInv, ApprovalTypes, SoundCalls, SoundCall

LEMMA DecisionInvSaveExpiry == ASSUME DecisionInv, NEW c \in Callers, SaveExpiry(c) PROVE DecisionInv'
<1> DEFINE a == call[c].on
<1>1. call[c].at # "idle" /\ a \in Approvals /\ recorded[a] \in Nat
  BY InProgress DEF SaveExpiry
<1>2. /\ call' = [call EXCEPT ![c] = Idle]
      /\ status' = [status EXCEPT ![a] = "expired"]
      /\ UNCHANGED <<due, delivered, recorded, resumed, kills>>
  BY DEF SaveExpiry, Ends, world
<1>3. recorded' = [recorded EXCEPT ![a] = recorded[a]]
  BY <1>1, <1>2 DEF DecisionInv, ApprovalTypes
<1>4. recorded[a] <= 1
  BY <1>1 DEF DecisionInv, DecidedOnce
<1>5. "expired" \in AnyStatus \ {"absent"} /\ "expired" \in DecidedOrExpired /\ "expired" \notin Decisions
  BY DEF AnyStatus, DecidedOrExpired, Decisions
<1>6. Idle.at = "idle"
  BY DEF Idle
<1> HIDE DEF a
<1> QED BY <1>1, <1>2, <1>3, <1>4, <1>5, <1>6, IdleIsSound, StepThatSaves

LEMMA DecisionInvSaveDecision == ASSUME DecisionInv, NEW c \in Callers, SaveDecision(c) PROVE DecisionInv'
<1> DEFINE a == call[c].on
           s == call[c].decision
           x == IF ActionOf[a] = "hermes" THEN [call[c] EXCEPT !.at = "requeueing"] ELSE Idle
<1>1. /\ call[c].at = "saving" /\ a \in Approvals /\ recorded[a] = 0
      /\ call[c] \in DeciderType /\ call[c].decision \in Decisions
      /\ Delivers(a, s) => s \in delivered[a]
  BY InProgress DEF SaveDecision, SoundCall, DeciderType
<1>2. /\ status' = [status EXCEPT ![a] = s]
      /\ recorded' = [recorded EXCEPT ![a] = 1]
      /\ UNCHANGED <<due, delivered, resumed, kills>>
  BY <1>1 DEF SaveDecision, DecisionInv, ApprovalTypes
<1>3. call' = [call EXCEPT ![c] = x]
  BY <1>1 DEF SaveDecision, Goes, Ends, DecisionInv, ApprovalTypes
<1>4. x \in DeciderType /\ x.at \notin LockedPlaces \union {"recording"} /\ (x.at # "idle" => x.on = a)
  BY <1>1, IdleIsSound DEF Idle, DeciderType, Places, LockedPlaces
<1>5. \A d \in Callers \ {c} : ~Holds(d, a)
  BY <1>1, Alone DEF LockedPlaces
<1>6. s \in AnyStatus \ {"absent"} /\ s \in DecidedOrExpired
  BY <1>1 DEF AnyStatus, DecidedOrExpired, Decisions
<1>7. 1 \in Nat /\ 1 <= 1
  OBVIOUS
<1> HIDE DEF a, s, x
<1> QED BY <1>1, <1>2, <1>3, <1>4, <1>5, <1>6, <1>7, StepThatSaves

LEMMA DecisionInvSaveUpdate == ASSUME DecisionInv, NEW c \in Callers, SaveUpdate(c) PROVE DecisionInv'
<1> DEFINE a == call[c].on
           s == call[c].seen
<1>1. /\ call[c].at = "updating" /\ a \in Approvals /\ recorded[a] \in Nat
      /\ s \in AnyStatus \ {"absent"}
      /\ recorded[a] > 0 => s # "pending"
      /\ s \in Decisions /\ Delivers(a, s) => s \in delivered[a]
  BY InProgress DEF SaveUpdate, SoundCall, DeciderType
<1>2. /\ call' = [call EXCEPT ![c] = Idle]
      /\ status' = [status EXCEPT ![a] = s]
      /\ UNCHANGED <<due, delivered, recorded, resumed, kills>>
  BY DEF SaveUpdate, Ends, world
<1>3. recorded' = [recorded EXCEPT ![a] = recorded[a]] /\ recorded[a] <= 1
  BY <1>1, <1>2 DEF DecisionInv, ApprovalTypes, DecidedOnce
<1>4. recorded[a] > 0 => s \in DecidedOrExpired
  BY <1>1 DEF AnyStatus
<1>5. \A d \in Callers \ {c} : ~Holds(d, a)
  BY <1>1, Alone DEF LockedPlaces
<1>6. Idle.at = "idle"
  BY DEF Idle
<1> HIDE DEF a, s
<1> QED BY <1>1, <1>2, <1>3, <1>4, <1>5, <1>6, IdleIsSound, StepThatSaves

LEMMA DecisionInvDeliver == ASSUME DecisionInv, NEW c \in Callers, Deliver(c) PROVE DecisionInv'
<1> DEFINE a == call[c].on
<1>t. ApprovalTypes /\ OneLeaseHolder /\ SoundCalls /\ DecidedOnce /\ DecisionWasDelivered
  BY DEF DecisionInv
<1>1. call[c].at = "delivering" /\ a \in Approvals /\ call[c] \in DeciderType
  BY InProgress DEF Deliver
<1>2. UNCHANGED <<status, due, recorded, resumed, kills>>
  BY DEF Deliver
<1>3. PICK x \in {[call[c] EXCEPT !.at = "recording"], Idle} :
        /\ call' = [call EXCEPT ![c] = x]
        /\ \/ delivered' = [delivered EXCEPT ![a] = @ \union {call[c].decision}]
           \/ delivered' = delivered /\ x = Idle
  BY <1>1, <1>t DEF Deliver, Goes, Ends, ApprovalTypes
<1>4. x \in DeciderType /\ x.at \notin LockedPlaces
  BY <1>1, IdleIsSound DEF DeciderType, Places, LockedPlaces
<1>5. ApprovalTypes'
  BY <1>t, <1>1, <1>2, <1>3, <1>4 DEF ApprovalTypes, DeciderType
<1>6. \A b \in Approvals : delivered[b] \subseteq delivered'[b]
  BY <1>t, <1>1, <1>3 DEF ApprovalTypes
<1>7. call'[c] = x /\ \A d \in Callers \ {c} : call'[d] = call[d]
  BY <1>t, <1>3 DEF ApprovalTypes
<1>8. OneLeaseHolder'
  BY <1>t, <1>4, <1>7 DEF OneLeaseHolder, Holds, LockedPlaces
<1>9. ASSUME NEW d \in Callers \ {c} PROVE SoundCall(call[d])'
  <2>1. SoundCall(call[d]) /\ call'[d] = call[d]
    BY <1>t, <1>7 DEF SoundCalls
  <2> QED BY <2>1, <1>2, <1>6 DEF SoundCall, Delivers
<1>10. SoundCall(call[c])'
  <2>1. CASE x = Idle
    BY <2>1, <1>7 DEF SoundCall, Idle
  <2>2. CASE x # Idle
    <3>1. x.at = "recording" /\ x.on = a /\ x.decision = call[c].decision
      BY <1>1, <1>3, <2>2 DEF DeciderType
    <3>2. call[c].decision \in delivered'[a] /\ status[a] # "absent"
      BY <1>1, <1>3, <2>2, <1>t, InProgress DEF ApprovalTypes
    <3> QED BY <3>1, <3>2, <1>1, <1>2, <1>7 DEF SoundCall
  <2> QED BY <2>1, <2>2
<1>11. DecidedOnce' /\ DecisionWasDelivered'
  BY <1>t, <1>2, <1>6 DEF DecidedOnce, DecisionWasDelivered, Delivers
<1> QED BY <1>5, <1>8, <1>9, <1>10, <1>11 DEF DecisionInv, SoundCalls

\* Taking the lease: nobody else has it, and what is read is what stands.
LEMMA DecisionInvTakeLease ==
  ASSUME DecisionInv, NEW c \in Callers, Resolve(c) \/ ReadToUpdate(c) PROVE DecisionInv'
<1> DEFINE a == call[c].on
<1>t. ApprovalTypes /\ SoundCalls /\ DecidedOnce /\ DecisionWasDelivered
  BY DEF DecisionInv
<1>1. /\ call[c].at \in {"recording", "noting"} /\ Free(a)
      /\ a \in Approvals /\ call[c] \in DeciderType /\ SoundCall(call[c])
      /\ status[a] \in AnyStatus \ {"absent"} /\ recorded[a] \in Nat
  BY <1>t, InProgress DEF Resolve, ReadToUpdate, ApprovalTypes
<1>2. UNCHANGED <<status, due, delivered, recorded, resumed, kills>>
  BY DEF Resolve, ReadToUpdate, world
<1>3. due' \subseteq Approvals /\ resumed' \subseteq Approvals /\ kills' \in 0..MaxKills
  BY <1>t, <1>2 DEF ApprovalTypes
<1>4. \A d \in Callers \ {c} : ~Holds(d, a)
  BY <1>1 DEF Free
<1>5. CASE Resolve(c)
  <2>1. PICK x \in {[call[c] EXCEPT !.at = "expiringLocked"], [call[c] EXCEPT !.at = "saving"], Idle} :
          /\ call' = [call EXCEPT ![c] = x]
          /\ x.at = "saving" => status[a] = "pending"
    BY <1>5, <1>1, <1>t DEF Resolve, Goes, Ends, ApprovalTypes, Idle, DeciderType
  <2>2. x \in DeciderType /\ (x.at # "idle" => x.on = a /\ x.decision = call[c].decision)
    BY <1>1, <2>1, IdleIsSound DEF DeciderType, Places, Idle
  <2>3. call[c].at = "recording" /\ x.at \in {"expiringLocked", "saving", "idle"}
    BY <1>5, <1>1, <2>1 DEF Resolve, Idle, DeciderType
  <2>4. status[a] = "pending" => recorded[a] = 0
    BY <1>1, <1>t DEF DecidedOnce, DecidedOrExpired, Decisions
  <2>5. SoundCall(x)
    BY <1>1, <2>1, <2>2, <2>3, <2>4 DEF SoundCall
  <2>6. x.at \in LockedPlaces => \A d \in Callers \ {c} : ~Holds(d, x.on)
    BY <1>4, <2>2 DEF LockedPlaces
  <2> HIDE DEF a
  <2> QED BY <1>2, <1>3, <2>1, <2>2, <2>5, <2>6, StepOfOneCall
<1>6. CASE ReadToUpdate(c)
  <2>1. PICK place \in {"expiringLocked", "updating"} :
          call' = [call EXCEPT ![c] = [call[c] EXCEPT !.at = place, !.seen = status[a]]]
    BY <1>6, <1>1, <1>t DEF ReadToUpdate, ApprovalTypes, DeciderType
  <2> DEFINE x == [call[c] EXCEPT !.at = place, !.seen = status[a]]
  <2>2. x \in DeciderType /\ x.at = place /\ x.on = a /\ x.seen = status[a]
    BY <1>1, <2>1 DEF DeciderType, Places
  <2>3. recorded[a] > 0 => status[a] # "pending"
    BY <1>1, <1>t DEF DecidedOnce, DecidedOrExpired, Decisions
  <2>4. status[a] \in Decisions /\ Delivers(a, status[a]) => status[a] \in delivered[a]
    BY <1>1, <1>t DEF DecisionWasDelivered
  <2>5. SoundCall(x)
    BY <1>1, <2>2, <2>3, <2>4 DEF SoundCall
  <2>6. x.at \in LockedPlaces => \A d \in Callers \ {c} : ~Holds(d, x.on)
    BY <1>4, <2>2
  <2>7. call' = [call EXCEPT ![c] = x]
    BY <2>1
  <2> HIDE DEF a, x
  <2> QED BY <1>2, <1>3, <2>2, <2>5, <2>6, <2>7, StepOfOneCall
<1> QED BY <1>5, <1>6

LEMMA DecisionInvRequeue == ASSUME DecisionInv, NEW c \in Callers, Requeue(c) PROVE DecisionInv'
<1> DEFINE x == [call[c] EXCEPT !.at = "noting"]
<1>1. /\ call[c].at = "requeueing" /\ call[c].on \in Approvals
      /\ call[c] \in DeciderType /\ SoundCall(call[c])
  BY InProgress DEF Requeue
<1>2. x \in DeciderType /\ x.at = "noting" /\ x.on = call[c].on
  BY <1>1 DEF DeciderType, Places
<1>3. call' = [call EXCEPT ![c] = x]
  BY <1>1 DEF Requeue, Goes, DecisionInv, ApprovalTypes
<1>4. UNCHANGED <<status, delivered, recorded>> /\ x.at \notin LockedPlaces
  BY <1>2 DEF Requeue, LockedPlaces
<1>5. due' \subseteq Approvals /\ resumed' \subseteq Approvals /\ kills' \in 0..MaxKills
  BY <1>1 DEF Requeue, DecisionInv, ApprovalTypes
<1>6. SoundCall(x)
  BY <1>1, <1>2 DEF SoundCall
<1> HIDE DEF x
<1> QED BY <1>2, <1>3, <1>4, <1>5, <1>6, StepOfOneCall

LEMMA DecisionInvCrash == ASSUME DecisionInv, Kill PROVE DecisionInv'
<1>t. ApprovalTypes /\ DecidedOnce /\ DecisionWasDelivered
  BY DEF DecisionInv
<1>1. UNCHANGED <<status, due, delivered, recorded, resumed>>
      /\ \A c \in Callers : call'[c] = Idle
  BY DEF Kill
<1>2. ApprovalTypes'
  BY <1>t, IdleIsSound, ApprovalAssumption DEF Kill, ApprovalTypes
<1>3. OneLeaseHolder' /\ SoundCalls'
  BY <1>1 DEF OneLeaseHolder, SoundCalls, SoundCall, Holds, Idle
<1>4. DecidedOnce' /\ DecisionWasDelivered'
  BY <1>t, <1>1 DEF DecidedOnce, DecisionWasDelivered, Delivers
<1> QED BY <1>2, <1>3, <1>4 DEF DecisionInv

LEMMA DecisionInvUntouched ==
  ASSUME DecisionInv, (\E a \in Approvals : FallDue(a)) \/ UNCHANGED decisionVars PROVE DecisionInv'
<1>1. UNCHANGED <<status, call, delivered, recorded, resumed, kills>>
      /\ due' \subseteq Approvals
  BY DEF DecisionInv, ApprovalTypes, FallDue, decisionVars
<1>2. ApprovalTypes'
  BY <1>1 DEF DecisionInv, ApprovalTypes
<1> QED BY <1>1, <1>2 DEF DecisionInv, OneLeaseHolder, Holds, SoundCalls, SoundCall, DecidedOnce,
                          DecisionWasDelivered, Delivers

LEMMA DecisionInvStep == DecisionInv /\ [DecisionNext]_decisionVars => DecisionInv'
  BY DecisionInvCreate, DecisionInvBegin, DecisionInvSaveExpiry, DecisionInvSaveDecision, DecisionInvSaveUpdate, DecisionInvDeliver,
     DecisionInvTakeLease, DecisionInvRequeue, DecisionInvCrash, DecisionInvUntouched DEF DecisionNext, Continue

LEMMA DecisionInvHolds == DecisionSpec => []DecisionInv
  BY DecisionInvInit, DecisionInvStep, PTL DEF DecisionSpec

\* Racing deciders record at most one decision of an approval, however many
\* there are: the status is read again under the writer lease.
THEOREM AtMostOneDecision == DecisionSpec => []OneDecision
<1>1. DecisionInv => OneDecision
  BY DEF DecisionInv, DecidedOnce, OneDecision
<1> QED BY <1>1, DecisionInvHolds, PTL

\* Every recorded decision that has to be carried out was carried out first.
THEOREM RecordedWasDelivered == DecisionSpec => []DecisionWasDelivered
<1>1. DecisionInv => DecisionWasDelivered
  BY DEF DecisionInv
<1> QED BY <1>1, DecisionInvHolds, PTL

\* No save turns a recorded decision round: updates write back what they read
\* under the lease, and only the expiry, saved without it, replaces it.
THEOREM DecisionsAreNotReversed == DecisionSpec => DecisionNotReversed
<1>1. ASSUME DecisionInv, [DecisionNext]_decisionVars, NEW a \in Approvals, status[a] \in Decisions
      PROVE  status'[a] \in {status[a], "expired"}
  <2> SUFFICES ASSUME status'[a] # status[a] PROVE status'[a] = "expired"
    OBVIOUS
  <2>t. ApprovalTypes
    BY <1>1 DEF DecisionInv
  <2>1. CASE \E b \in Approvals : Create(b)
    BY <1>1, <2>t, <2>1 DEF Create, ApprovalTypes, Decisions
  <2>2. CASE \E c \in Callers : SaveExpiry(c)
    BY <1>1, <2>t, <2>2 DEF SaveExpiry, ApprovalTypes
  <2>3. ASSUME NEW c \in Callers, SaveDecision(c) PROVE FALSE
    <3>1. call[c].on \in Approvals /\ status[call[c].on] \in {"pending", "expired"}
      BY <1>1, <2>3, InProgress DEF SaveDecision, SoundCall
    <3> QED BY <1>1, <2>t, <2>3, <3>1 DEF SaveDecision, ApprovalTypes, Decisions
  <2>4. ASSUME NEW c \in Callers, SaveUpdate(c) PROVE FALSE
    <3>1. call[c].on \in Approvals /\ status[call[c].on] \in {call[c].seen, "expired"}
      BY <1>1, <2>4, InProgress DEF SaveUpdate, SoundCall
    <3> QED BY <1>1, <2>t, <2>4, <3>1 DEF SaveUpdate, ApprovalTypes, Decisions
  <2>5. CASE UNCHANGED status
    BY <2>5
  <2>6. \/ \E b \in Approvals : Create(b)
        \/ \E c \in Callers : SaveExpiry(c) \/ SaveDecision(c) \/ SaveUpdate(c)
        \/ UNCHANGED status
    BY <1>1 DEF DecisionNext, Begin, Continue, Decide, Read, Annotate, Deliver, Resolve, Requeue,
                ReadToUpdate, FallDue, Kill, decisionVars, world
  <2> QED BY <2>1, <2>2, <2>3, <2>4, <2>5, <2>6
<1>2. DecisionInv /\ [DecisionNext]_decisionVars =>
        [\A a \in Approvals : status[a] \in Decisions => status'[a] \in {status[a], "expired"}]_decisionVars
  BY <1>1
<1> QED BY <1>2, DecisionInvHolds, PTL DEF DecisionSpec, DecisionNotReversed

\* Records, and what the calls in progress remember, are well formed.
THEOREM ApprovalsTypeCorrect == DecisionSpec => []ApprovalsTypeOK
<1>1. ASSUME DecisionInv PROVE ApprovalsTypeOK
  <2>1. ApprovalTypes /\ SoundCalls
    BY <1>1 DEF DecisionInv
  <2>2. \A c \in Callers : call[c].at # "idle" => call[c].on \in Approvals
    BY <2>1 DEF SoundCalls, SoundCall
  <2>3. AnyStatus = {"absent", "pending", "expired"} \union Decisions
    BY DEF AnyStatus, DecidedOrExpired
  <2> QED BY <2>1, <2>2, <2>3 DEF ApprovalTypes, ApprovalsTypeOK, DeciderType
<1> QED BY <1>1, DecisionInvHolds, PTL

=============================================================================
