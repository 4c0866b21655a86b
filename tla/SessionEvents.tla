----------------------------- MODULE SessionEvents -----------------------------
(***************************************************************************)
(* append of the session timeline in its three stores.  The repository     *)
(* looks for the idempotency key, counts and saves in accesses of their    *)
(* own; SQLite does all in one transaction that holds the write lock;      *)
(* PostgreSQL in one whose allocation of the number locks the session.     *)
(***************************************************************************)
EXTENDS Integers, FiniteSets

CONSTANTS
    Appends,          \* calls of append
    SessionOf, KeyOf, \* functions on Appends; the key may be NoKey
    NoKey,
    Listed            \* list_events returns at most this many events (1000)

ASSUME EventsAssumption == Listed \in Nat

VARIABLES
    store,      \* "repository", "sqlite" or "postgres"
    events,     \* what is stored: the appends that wrote them
    append,     \* [stage, number, builtAt, result] of each call
    allocated,  \* session_event_sequences
    built,      \* events built so far: their order is that of created_at
    earlier     \* the calls that had ended when a call began; only properties read it

eventVars == <<store, events, append, allocated, built, earlier>>

NoResult == {}
NoAppend == [stage |-> "idle", number |-> 0, builtAt |-> 0, result |-> NoResult]

EventsInit ==
    /\ store \in {"repository", "sqlite", "postgres"}
    /\ events = {} /\ built = 0
    /\ append = [a \in Appends |-> NoAppend]
    /\ allocated = [s \in {SessionOf[a] : a \in Appends} |-> 0]
    /\ earlier = [a \in Appends |-> {}]

OfSession(s) == {e \in events : SessionOf[e] = s}
OfKey(a) == {e \in events : KeyOf[a] # NoKey /\ KeyOf[e] = KeyOf[a]}
Returned == {a \in Appends : append[a].stage = "done"}
Begins(a) == append[a].stage = "idle" /\ earlier' = [earlier EXCEPT ![a] = Returned]

Least(m, n) == IF m <= n THEN m ELSE n
Highest(s) == IF OfSession(s) = {} THEN 0
              ELSE CHOOSE n \in {append[e].number : e \in OfSession(s)} :
                     \A e \in OfSession(s) : append[e].number <= n

AppendGoes(a, stage, number) ==
    append' = [append EXCEPT ![a] = [@ EXCEPT !.stage = stage, !.number = number]]
Builds(a, stage, number) ==
    /\ built' = built + 1
    /\ append' = [append EXCEPT ![a] =
                    [stage |-> stage, number |-> number, builtAt |-> built + 1,
                     result |-> IF stage = "done" THEN {a} ELSE NoResult]]
Returns(a, e) ==
    append' = [append EXCEPT ![a] = [@ EXCEPT !.stage = "done", !.result = {e}]]

-----------------------------------------------------------------------------

\* Mutant of Lookup: the key is not looked for.
LookupNothing(a) ==
    /\ store # "sqlite" /\ Begins(a)
    /\ AppendGoes(a, "number", 0)
    /\ UNCHANGED <<store, events, allocated, built>>

Lookup(a) ==
    /\ store # "sqlite" /\ Begins(a)
    /\ IF OfKey(a) = {} THEN AppendGoes(a, "number", 0)
                        ELSE \E e \in OfKey(a) : Returns(a, e)
    /\ UNCHANGED <<store, events, allocated, built>>

\* The repository: len(list_events(limit=1000)) + 1 ...
Count(a) ==
    /\ store = "repository" /\ append[a].stage = "number"
    /\ Builds(a, "save", Least(Cardinality(OfSession(SessionOf[a])), Listed) + 1)
    /\ UNCHANGED <<store, events, allocated, earlier>>

\* ... and the save of the event.
SaveEvent(a) ==
    /\ store = "repository" /\ append[a].stage = "save"
    /\ events' = events \union {a}
    /\ Returns(a, a)
    /\ UNCHANGED <<store, allocated, built, earlier>>

\* SQLite: everything between BEGIN IMMEDIATE and commit.
AppendAtOnce(a) ==
    /\ store = "sqlite" /\ Begins(a)
    /\ \/ OfKey(a) # {} /\ (\E e \in OfKey(a) : Returns(a, e)) /\ UNCHANGED <<events, built>>
       \/ /\ OfKey(a) = {}
          /\ Builds(a, "done", Highest(SessionOf[a]) + 1)
          /\ events' = events \union {a}
    /\ UNCHANGED <<store, allocated>>

\* PostgreSQL: the upsert waits for every transaction that has allocated in
\* the same session and is still open.
Transacting(b) == store = "postgres" /\ append[b].stage \in {"insert", "commit"}
Allocate(a) ==
    /\ store = "postgres" /\ append[a].stage = "number"
    /\ ~ \E b \in Appends : Transacting(b) /\ SessionOf[b] = SessionOf[a]
    /\ Builds(a, "insert", allocated[SessionOf[a]] + 1)
    /\ UNCHANGED <<store, events, allocated, earlier>>

\* The insert waits for an open one with the same key, and is refused, and the
\* transaction rolled back, when that key is there.
Insert(a) ==
    /\ store = "postgres" /\ append[a].stage = "insert"
    /\ ~ \E b \in Appends \ {a} :
           append[b].stage = "commit" /\ KeyOf[b] = KeyOf[a] /\ KeyOf[a] # NoKey
    /\ AppendGoes(a, IF OfKey(a) = {} THEN "commit" ELSE "failed", append[a].number)
    /\ UNCHANGED <<store, events, allocated, built, earlier>>

CommitEvent(a) ==
    /\ store = "postgres" /\ append[a].stage = "commit"
    /\ events' = events \union {a}
    /\ allocated' = [allocated EXCEPT ![SessionOf[a]] = append[a].number]
    /\ Returns(a, a)
    /\ UNCHANGED <<store, built, earlier>>

\* The process dies, or the database cannot be reached: an open transaction
\* is rolled back.
FailAppend(a) ==
    /\ append[a].stage \in {"idle", "number", "save", "insert", "commit"}
    /\ AppendGoes(a, "failed", 0)
    /\ UNCHANGED <<store, events, allocated, built, earlier>>

EventsNext ==
    \E a \in Appends :
        \/ Lookup(a) \/ Count(a) \/ SaveEvent(a) \/ AppendAtOnce(a)
        \/ Allocate(a) \/ Insert(a) \/ CommitEvent(a) \/ FailAppend(a)

EventsSpec == EventsInit /\ [][EventsNext]_eventVars

-----------------------------------------------------------------------------
EventsTypeOK ==
    /\ events \subseteq Appends
    /\ append \in [Appends ->
         [stage : {"idle", "number", "save", "insert", "commit", "done", "failed"},
          number : 0 .. Cardinality(Appends), builtAt : 0 .. Cardinality(Appends),
          result : {NoResult} \union {{e} : e \in Appends}]]
    /\ earlier \in [Appends -> SUBSET Appends]

\* The order of list_events: sequence_no, then created_at.
Precedes(e, f) ==
    \/ append[e].number < append[f].number
    \/ append[e].number = append[f].number /\ append[e].builtAt < append[f].builtAt

\* Whatever overlaps with it, an append that begins after another one ended
\* finds that one: with the same key it writes nothing, and in the same session
\* its event is listed later, also past the 1000th.  The transactional stores
\* moreover number each session 1, 2, 3 ... without a gap and hold one event
\* per key, whoever dies in between.
TimelineIsOrderly ==
    /\ \A b \in Returned : \A a \in earlier[b] :
         /\ KeyOf[a] = KeyOf[b] /\ KeyOf[a] # NoKey => b \notin events
         /\ b \in events =>
              \A e \in append[a].result : SessionOf[e] = SessionOf[b] => Precedes(e, b)
    /\ store # "repository" =>
         /\ \A s \in DOMAIN allocated :
              {append[e].number : e \in OfSession(s)} = 1 .. Cardinality(OfSession(s))
         /\ \A e, f \in events : KeyOf[e] = KeyOf[f] /\ KeyOf[e] # NoKey => e = f

\* The log of a session, in the order of its numbers.
WithNumber(s, n) == {e \in OfSession(s) : append[e].number = n}
TheOne(S) == CHOOSE e \in S : TRUE
LogOf(s) == [n \in 1 .. Cardinality(OfSession(s)) |-> TheOne(WithNumber(s, n))]

Log == INSTANCE SessionLog WITH
    Sessions <- {SessionOf[a] : a \in Appends},
    log <- [s \in {SessionOf[a] : a \in Appends} |-> LogOf(s)]

\* What the transactional stores store is appended to the log of its session,
\* however the appends overlap and whoever dies.
Transactional == store # "repository"
StoresAreLogs == Transactional => Log!LogSpec

=============================================================================
