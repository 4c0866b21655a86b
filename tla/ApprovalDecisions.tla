-------------------------- MODULE ApprovalDecisions --------------------------
(***************************************************************************)
(* Approvals: ApprovalStoreService and ApprovalDecisionService.  Deciders  *)
(* (panel, admin, Telegram, API) call in threads of one process.  A        *)
(* decision about a Hermes session or a GitHub write is carried out first, *)
(* under no lock, and recorded after; recording and metadata updates take  *)
(* the approval's writer lease, reads that find it expired do not.         *)
(*                                                                         *)
(* A step is what one call does between two instants at which another      *)
(* call can tell the difference: a read of the record, a save, a delivery. *)
(***************************************************************************)
EXTENDS Integers

CONSTANTS
    Approvals, Callers, NoApproval,
    ActionOf,     \* metadata.action_type: "hermes", "github" or "plain"
    MaxKills    \* bound: how often the process is killed

Decisions == {"approved", "rejected"}

ASSUME ApprovalAssumption ==
    /\ NoApproval \notin Approvals
    /\ ActionOf \in [Approvals -> {"hermes", "github", "plain"}]
    /\ MaxKills \in Nat

VARIABLES
    status,      \* approval_requests: the status of each record
    due,         \* the approvals whose expires_at has passed
    call,        \* the call each caller has in progress
    delivered,   \* the decisions carried out at Hermes or GitHub
    recorded,    \* how many decisions were recorded; only properties read it
    resumed,     \* the approvals whose paused run was requeued
    kills

decisionVars == <<status, due, call, delivered, recorded, resumed, kills>>
world == <<due, delivered, recorded, resumed, kills>>

Places == {"idle", "expiring", "delivering", "recording", "expiringLocked",
           "saving", "requeueing", "noting", "updating"}
Idle == [at |-> "idle", on |-> NoApproval, decision |-> "approved", seen |-> "absent"]

DecisionInit ==
    /\ status = [a \in Approvals |-> "absent"]
    /\ due = {}
    /\ call = [c \in Callers |-> Idle]
    /\ delivered = [a \in Approvals |-> {}]
    /\ recorded = [a \in Approvals |-> 0]
    /\ resumed = {}
    /\ kills = 0

-----------------------------------------------------------------------------

Goes(c, place) == call' = [call EXCEPT ![c].at = place]
Ends(c) == call' = [call EXCEPT ![c] = Idle]

\* The writer lease of an approval is held from the read to the save.
Holds(c, a) ==
    call[c].on = a /\ call[c].at \in {"expiringLocked", "saving", "updating"}

\* Mutant of Free: there is no writer lease.
FreeAlways(a) == TRUE

Free(a) == \A c \in Callers : ~Holds(c, a)

\* _normalize_expiration: what a read of a makes its reader save first.
MustExpire(a) == status[a] = "pending" /\ a \in due

\* The decisions that are carried out before they are recorded.
Delivers(a, decision) ==
    ActionOf[a] = "hermes" \/ (ActionOf[a] = "github" /\ decision = "approved")

-----------------------------------------------------------------------------

Create(a) ==
    /\ status[a] = "absent"
    /\ status' = [status EXCEPT ![a] = "pending"]
    /\ UNCHANGED <<call, world>>

\* resolve_request of ApprovalDecisionService: the record is read, without
\* the writer lease, and what it says decides what is done next.
Decide(c, a, decision) ==
    LET begin(place) == call' = [call EXCEPT ![c] =
            [Idle EXCEPT !.at = place, !.on = a, !.decision = decision]]
    IN  /\ call[c].at = "idle" /\ status[a] # "absent"
        /\ \/ MustExpire(a) /\ begin("expiring")
           \/ /\ ~MustExpire(a)
              /\ IF ActionOf[a] = "plain" THEN begin("recording")
                 ELSE /\ status[a] = "pending"
                      /\ begin(IF Delivers(a, decision) THEN "delivering" ELSE "recording")
        /\ UNCHANGED <<status, world>>

\* Listing and reading save the expiry of what they find overdue, too.
Read(c, a) ==
    /\ call[c].at = "idle" /\ MustExpire(a)
    /\ call' = [call EXCEPT ![c] = [Idle EXCEPT !.at = "expiring", !.on = a]]
    /\ UNCHANGED <<status, world>>

\* A caller that only annotates the record (managed skills, GitHub comments).
Annotate(c, a) ==
    /\ call[c].at = "idle" /\ status[a] # "absent"
    /\ call' = [call EXCEPT ![c] = [Idle EXCEPT !.at = "noting", !.on = a]]
    /\ UNCHANGED <<status, world>>

\* The expiry is saved over whatever the record has become.  A decision of
\* an expired approval is refused; a plain one is refused by the store.
SaveExpiry(c) ==
    /\ call[c].at \in {"expiring", "expiringLocked"}
    /\ status' = [status EXCEPT ![call[c].on] = "expired"]
    /\ Ends(c)
    /\ UNCHANGED world

\* Mutant of Deliver: a failed delivery does not stop the call.
DeliverAndGoOn(c) ==
    /\ call[c].at = "delivering"
    /\ \/ delivered' = [delivered EXCEPT ![call[c].on] = @ \union {call[c].decision}]
       \/ UNCHANGED delivered
    /\ Goes(c, "recording")
    /\ UNCHANGED <<status, due, recorded, resumed, kills>>

\* The gateway or GitHub carries the decision out, and the answer arrives or
\* is lost; or the request fails.  Only an answer lets the call go on.
Deliver(c) ==
    /\ call[c].at = "delivering"
    /\ \/ /\ delivered' = [delivered EXCEPT ![call[c].on] = @ \union {call[c].decision}]
          /\ Goes(c, "recording") \/ Ends(c)
       \/ UNCHANGED delivered /\ Ends(c)
    /\ UNCHANGED <<status, due, recorded, resumed, kills>>

\* Mutant of Resolve: the status is not checked again under the lease.
ResolveUnchecked(c) ==
    /\ call[c].at = "recording" /\ Free(call[c].on)
    /\ Goes(c, "saving")
    /\ UNCHANGED <<status, world>>

\* resolve_request of the store takes the lease and reads the record again.
Resolve(c) ==
    LET a == call[c].on IN
    /\ call[c].at = "recording" /\ Free(a)
    /\ IF MustExpire(a) THEN Goes(c, "expiringLocked")
       ELSE IF status[a] = "pending" THEN Goes(c, "saving")
       ELSE Ends(c)
    /\ UNCHANGED <<status, world>>

SaveDecision(c) ==
    LET a == call[c].on IN
    /\ call[c].at = "saving"
    /\ status' = [status EXCEPT ![a] = call[c].decision]
    /\ recorded' = [recorded EXCEPT ![a] = @ + 1]
    /\ IF ActionOf[a] = "hermes" THEN Goes(c, "requeueing") ELSE Ends(c)
    /\ UNCHANGED <<due, delivered, resumed, kills>>

\* The scheduler's requeue_run; it may refuse, and that is noted like success.
Requeue(c) ==
    /\ call[c].at = "requeueing"
    /\ resumed' = resumed \union {call[c].on}
    /\ Goes(c, "noting")
    /\ UNCHANGED <<status, due, delivered, recorded, kills>>

\* update_request_metadata takes the lease, reads, and saves the whole
\* record back.  After an expiry there is no other status to save.
ReadToUpdate(c) ==
    LET a == call[c].on IN
    /\ call[c].at = "noting" /\ Free(a)
    /\ call' = [call EXCEPT
         ![c].at = IF MustExpire(a) THEN "expiringLocked" ELSE "updating",
         ![c].seen = status[a]]
    /\ UNCHANGED <<status, world>>

SaveUpdate(c) ==
    /\ call[c].at = "updating"
    /\ status' = [status EXCEPT ![call[c].on] = call[c].seen]
    /\ Ends(c)
    /\ UNCHANGED world

FallDue(a) ==
    /\ status[a] # "absent" /\ a \notin due
    /\ due' = due \union {a}
    /\ UNCHANGED <<status, call, delivered, recorded, resumed, kills>>

\* The process is killed: its calls, and the writer leases, are gone.
Kill ==
    /\ kills < MaxKills
    /\ kills' = kills + 1
    /\ call' = [c \in Callers |-> Idle]
    /\ UNCHANGED <<status, due, delivered, recorded, resumed>>

Begin(c) == \E a \in Approvals :
    \/ \E decision \in Decisions : Decide(c, a, decision)
    \/ Read(c, a)
    \/ Annotate(c, a)

Continue(c) ==
    \/ SaveExpiry(c) \/ Deliver(c) \/ Resolve(c) \/ SaveDecision(c)
    \/ Requeue(c) \/ ReadToUpdate(c) \/ SaveUpdate(c)

DecisionNext ==
    \/ \E c \in Callers : Begin(c) \/ Continue(c)
    \/ \E a \in Approvals : Create(a) \/ FallDue(a)
    \/ Kill

DecisionSpec == DecisionInit /\ [][DecisionNext]_decisionVars

\* Calls in progress are carried on; nobody is obliged to make one.
FairDecisionSpec == DecisionSpec /\ \A c \in Callers : WF_decisionVars(Continue(c))

-----------------------------------------------------------------------------
(* Properties. *)

\* Records, and what the calls in progress remember, are well formed.
ApprovalsTypeOK ==
    /\ status \in [Approvals -> {"absent", "pending", "expired"} \union Decisions]
    /\ due \subseteq Approvals
    /\ call \in [Callers -> [at : Places, on : Approvals \union {NoApproval},
                             decision : Decisions,
                             seen : {"absent", "pending", "expired"} \union Decisions]]
    /\ \A c \in Callers : call[c].at # "idle" => call[c].on \in Approvals
    /\ delivered \in [Approvals -> SUBSET Decisions]
    /\ recorded \in [Approvals -> Nat]
    /\ resumed \subseteq Approvals
    /\ kills \in 0..MaxKills

\* However many deciders race, and whatever expiry saves and metadata
\* updates interleave with them, at most one decision of an approval is ever
\* recorded.
OneDecision == \A a \in Approvals : recorded[a] <= 1

\* A recorded decision never turns into the other one or back into a pending
\* request: the whole-record saves of updates cannot undo it.  Only an expiry
\* can replace it, which a reader saves without the lease.
DecisionNotReversed ==
    [][\A a \in Approvals : status[a] \in Decisions =>
          status'[a] \in {status[a], "expired"}]_decisionVars

\* A decision is on record only once Hermes has it or GitHub did it: a
\* failed delivery leaves the approval undecided.
DecisionWasDelivered ==
    \A a \in Approvals :
        status[a] \in Decisions /\ Delivers(a, status[a]) => status[a] \in delivered[a]

\* What docs/runbooks/session-spine-v1.md says: once the callback with the
\* decision has been delivered to Hermes the paused run is requeued.
DeliveredIsResumed ==
    \A a \in Approvals : ActionOf[a] = "hermes" =>
        ((\E c \in Callers : call[c].at = "recording" /\ call[c].on = a)
            ~> a \in resumed)

=============================================================================
