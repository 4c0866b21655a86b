----------------------------- MODULE PlanDispatch -----------------------------
(***************************************************************************)
(* Dispatch of one autoresearch plan: the panel requests it, a background  *)
(* task executes it with the agent runner, its delivery is noted.  All     *)
(* three read and save the whole plan under the writer lease, a lock of    *)
(* the API process; the run itself is not under the lease.                 *)
(***************************************************************************)
EXTENDS Integers, FiniteSets

CONSTANTS
    Clients,   \* requests of the API in progress, with their background tasks
    Nobody,
    MaxShutdowns \* bound: how often the process stops or dies

ASSUME PlanAssumption == Nobody \notin Clients /\ MaxShutdowns \in Nat

VARIABLES
    plan,      \* [dispatch_status, notification_sent]
    holder,    \* of the writer lease of the plan
    client,    \* [stage, read, outcome] of each
    stopsLeft,
    succeeded, \* has a run of the plan ended well?  Only properties read it
    notified   \* was the delivery noted?  Only properties read it

planDispatchVars == <<plan, holder, client, stopsLeft, succeeded, notified>>

Fresh == [dispatch_status |-> "pending", notification_sent |-> FALSE]
AtRest == [stage |-> "free", read |-> Fresh, outcome |-> "none"]

PlanInit ==
    /\ plan = Fresh /\ holder = Nobody
    /\ client = [c \in Clients |-> AtRest]
    /\ stopsLeft = MaxShutdowns /\ succeeded = FALSE /\ notified = FALSE

\* Within the lease the plan is read ...
Takes(c, from, to) ==
    /\ client[c].stage = from /\ holder = Nobody
    /\ holder' = c
    /\ client' = [client EXCEPT ![c].stage = to, ![c].read = plan]

\* ... and what was read is saved with a change.
Saves(c, record, to) ==
    /\ plan' = record
    /\ holder' = Nobody
    /\ client' = [client EXCEPT ![c] = [AtRest EXCEPT !.stage = to]]

-----------------------------------------------------------------------------

ReadForDelivery(c) ==
    /\ ~notified /\ \A d \in Clients : client[d].stage # "delivering"
    /\ Takes(c, "free", "delivering")
    /\ UNCHANGED <<plan, stopsLeft, succeeded, notified>>

SaveDelivery(c) ==
    /\ client[c].stage = "delivering"
    /\ Saves(c, [client[c].read EXCEPT !.notification_sent = TRUE], "free")
    /\ notified' = TRUE
    /\ UNCHANGED <<stopsLeft, succeeded>>

ReadForRequest(c) ==
    /\ Takes(c, "free", "requesting")
    /\ UNCHANGED <<plan, stopsLeft, succeeded, notified>>

\* Mutant of Refused: a plan that is being dispatched is taken again.
RefusedOnceDone(record) == record.dispatch_status = "dispatched"

Refused(record) == record.dispatch_status \in {"dispatching", "dispatched"}

RefuseRequest(c) ==
    /\ client[c].stage = "requesting" /\ Refused(client[c].read)
    /\ Saves(c, plan, "free")
    /\ UNCHANGED <<stopsLeft, succeeded, notified>>

SaveRequest(c) ==
    /\ client[c].stage = "requesting" /\ ~Refused(client[c].read)
    /\ Saves(c, [client[c].read EXCEPT !.dispatch_status = "dispatching"], "auditing")
    /\ UNCHANGED <<stopsLeft, succeeded, notified>>

\* The audit entry is written, the request answered, the task started, the job
\* built; when one of these raises the plan stays as it is, dispatching.
BeginRun(c, ok) ==
    /\ client[c].stage = "auditing"
    /\ client' = [client EXCEPT ![c] = [AtRest EXCEPT !.stage = IF ok THEN "running" ELSE "free"]]
    /\ UNCHANGED <<plan, holder, stopsLeft, succeeded, notified>>

\* "dispatched" for a summary that is ready_for_promotion or promoted, "failed"
\* for any other and for an exception.
EndRun(c, outcome) ==
    /\ client[c].stage = "running"
    /\ client' = [client EXCEPT ![c].stage = "ended", ![c].outcome = outcome]
    /\ succeeded' = (succeeded \/ outcome = "dispatched")
    /\ UNCHANGED <<plan, holder, stopsLeft, notified>>

ReadForOutcome(c) ==
    /\ Takes(c, "ended", "recording")
    /\ UNCHANGED <<plan, stopsLeft, succeeded, notified>>

SaveOutcome(c) ==
    /\ client[c].stage = "recording"
    /\ Saves(c, [client[c].read EXCEPT !.dispatch_status = client[c].outcome], "free")
    /\ UNCHANGED <<stopsLeft, succeeded, notified>>

\* The process stops: the lease and the background tasks are in its memory.
Stop ==
    /\ stopsLeft > 0
    /\ stopsLeft' = stopsLeft - 1
    /\ holder' = Nobody
    /\ client' = [c \in Clients |-> AtRest]
    /\ UNCHANGED <<plan, succeeded, notified>>

PlanNext ==
    \/ \E c \in Clients :
         \/ ReadForDelivery(c) \/ SaveDelivery(c)
         \/ ReadForRequest(c) \/ RefuseRequest(c) \/ SaveRequest(c)
         \/ \E ok \in BOOLEAN : BeginRun(c, ok)
         \/ \E outcome \in {"dispatched", "failed"} : EndRun(c, outcome)
         \/ ReadForOutcome(c) \/ SaveOutcome(c)
    \/ Stop

PlanSpec == PlanInit /\ [][PlanNext]_planDispatchVars

-----------------------------------------------------------------------------
Records == [dispatch_status : {"pending", "dispatching", "dispatched", "failed"},
            notification_sent : BOOLEAN]

PlanTypeOK ==
    /\ plan \in Records /\ holder \in Clients \union {Nobody}
    /\ client \in [Clients ->
         [stage : {"free", "delivering", "requesting", "auditing", "running", "ended", "recording"},
          read : Records, outcome : {"none", "dispatched", "failed"}]]
    /\ stopsLeft \in 0 .. MaxShutdowns /\ succeeded \in BOOLEAN /\ notified \in BOOLEAN

Dispatching == {c \in Clients : client[c].stage \in {"auditing", "running", "ended", "recording"}}

\* However often and from wherever the dispatch is requested, at most one run
\* of the plan is in progress, none begins after one has succeeded, and no
\* writer undoes what another has saved, although runs take long and the
\* process may stop between any two steps.
PlanRunsOnce ==
    /\ Cardinality(Dispatching) <= 1
    /\ \A c \in Clients : client[c].stage = "running" => ~succeeded
    /\ plan.dispatch_status = "dispatched" => succeeded
    /\ notified => plan.notification_sent
=============================================================================
