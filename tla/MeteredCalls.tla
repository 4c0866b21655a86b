------------------------------ MODULE MeteredCalls ------------------------------
(***************************************************************************)
(* Calls that cost quota: tool calls through the governed MCP service and  *)
(* tasks that a federation peer submits under a lease.  Each reserves,     *)
(* acts, and then commits or releases what it reserved; the ledger and the *)
(* lease are read and saved as whole records.  One subject, one lease.     *)
(* Servers are the threads that serve calls, of one API process or more.   *)
(***************************************************************************)
EXTENDS Integers, Sequences, FiniteSets

CONSTANTS
    Servers,
    Submitters, \* the servers that a peer's tasks come in on
    Limit,      \* max_units_per_period of the subject
    Units,      \* what a call may cost
    MaxTasks,   \* max_tasks of the lease
    MaxCalls    \* bound: calls that reserve

ASSUME MeteredAssumption ==
    Limit \in Nat /\ Units \subseteq Nat /\ MaxTasks \in Nat /\ MaxCalls \in Nat

VARIABLES
    ledger,     \* entries: [units, status, current], current while in the period
    peerLease,  \* [status, used, units]; "over" is expired or revoked
    metered,    \* what each server is doing and has read
    paid        \* entries whose tool ran or whose task was created; only properties read it

meteredVars == <<ledger, peerLease, metered, paid>>

NotMetered == [kind |-> "none", stage |-> "idle", units |-> 0, entry |-> 0,
               granted |-> FALSE, read |-> <<>>]

MeteredInit ==
    /\ ledger = <<>>
    /\ peerLease = [status |-> "active", used |-> 0, units |-> Limit]
    /\ metered = [t \in Servers |-> NotMetered]
    /\ paid = {}

Counted(statuses) ==
    {i \in DOMAIN ledger : ledger[i].current /\ ledger[i].status \in statuses}
\* Committed and reserved units of the period: each unit is the pair of its
\* entry and its number there, so that their sum is a count.
Charged == UNION {{i} \X (1 .. ledger[i].units) : i \in Counted({"committed", "reserved"})}
Usage == Cardinality(Charged)

MeteredGoes(t, stage) == metered' = [metered EXCEPT ![t].stage = stage]
MeteredEnds(t) == metered' = [metered EXCEPT ![t] = NotMetered]

-----------------------------------------------------------------------------
(* Reserve                                                                 *)

\* Mutant of SaveEntry: what was refused is reserved all the same.
SaveEntryAnyway(t) ==
    /\ metered[t].stage = "reserve" /\ Len(ledger) < MaxCalls
    /\ ledger' = Append(ledger, [units |-> metered[t].units, current |-> TRUE, status |-> "reserved"])
    /\ metered' = [metered EXCEPT ![t] = [@ EXCEPT !.stage = "act", !.entry = Len(ledger) + 1]]
    /\ UNCHANGED <<peerLease, paid>>

\* quota_for: what the call costs is compared with what remains.
Check(t, kind, units, read) ==
    metered' = [metered EXCEPT ![t] =
        [NotMetered EXCEPT !.kind = kind, !.units = units, !.read = read,
                       !.stage = IF units = 0 THEN "act" ELSE "reserve",
                       !.granted = units <= Limit - Usage]]

CallTool(t, units) ==
    /\ metered[t].stage = "idle"
    /\ Check(t, "tool", units, <<>>)
    /\ UNCHANGED <<ledger, peerLease, paid>>

\* submit_task reads the lease.
ReadLease(t, units) ==
    /\ t \in Submitters /\ metered[t].stage = "idle"
    /\ peerLease.status = "active" /\ peerLease.used < MaxTasks /\ units <= peerLease.units
    /\ metered' = [metered EXCEPT ![t] =
         [NotMetered EXCEPT !.kind = "task", !.stage = "check", !.units = units,
                            !.read = <<peerLease>>]]
    /\ UNCHANGED <<ledger, peerLease, paid>>

CheckTask(t) ==
    /\ metered[t].stage = "check"
    /\ Check(t, "task", metered[t].units, metered[t].read)
    /\ UNCHANGED <<ledger, peerLease, paid>>

SaveEntry(t) ==
    /\ metered[t].stage = "reserve" /\ Len(ledger) < MaxCalls
    /\ ledger' = Append(ledger, [units |-> metered[t].units, current |-> TRUE,
                                 status |-> IF metered[t].granted THEN "reserved" ELSE "rejected"])
    /\ metered' = [metered EXCEPT ![t] = IF metered[t].granted
                                        THEN [@ EXCEPT !.stage = "act", !.entry = Len(ledger) + 1]
                                        ELSE NotMetered]
    /\ UNCHANGED <<peerLease, paid>>

-----------------------------------------------------------------------------
(* Act, then settle                                                        *)

\* The tool ran, or the control plane created the task.
Succeed(t) ==
    /\ metered[t].stage = "act"
    /\ paid' = paid \union ({metered[t].entry} \ {0})
    /\ MeteredGoes(t, IF metered[t].entry = 0 THEN "count" ELSE "commit")
    /\ UNCHANGED <<ledger, peerLease>>

\* The tool is blocked, waits for its approval or fails; the task is refused.
Refuse(t) ==
    /\ metered[t].stage = "act"
    /\ IF metered[t].entry = 0 THEN MeteredEnds(t) ELSE MeteredGoes(t, "release")
    /\ UNCHANGED <<ledger, peerLease, paid>>

Transition(t, status) ==
    ledger' = [ledger EXCEPT ![metered[t].entry].status = status]

CommitEntry(t) ==
    /\ metered[t].stage = "commit"
    /\ Transition(t, "committed")
    /\ MeteredGoes(t, "count")
    /\ UNCHANGED <<peerLease, paid>>

\* Mutant of ReleaseEntry: a failed call is charged all the same.
CommitOnRelease(t) ==
    /\ metered[t].stage = "release"
    /\ Transition(t, "committed")
    /\ MeteredEnds(t)
    /\ UNCHANGED <<peerLease, paid>>

ReleaseEntry(t) ==
    /\ metered[t].stage = "release"
    /\ Transition(t, "released")
    /\ MeteredEnds(t)
    /\ UNCHANGED <<peerLease, paid>>

\* The lease is saved as it was read, with the task counted.
CountTask(t) ==
    /\ metered[t].stage = "count"
    /\ peerLease' = IF metered[t].kind = "tool" THEN peerLease
                    ELSE LET read == metered[t].read[1] IN
                         [read EXCEPT !.used = @ + 1,
                                      !.units = IF metered[t].units > @ THEN 0 ELSE @ - metered[t].units]
    /\ MeteredEnds(t)
    /\ UNCHANGED <<ledger, paid>>

\* revoke_lease, or _normalize_lease after expires_at; read and save are one step.
EndLease ==
    /\ peerLease.status = "active"
    /\ peerLease' = [peerLease EXCEPT !.status = "over"]
    /\ UNCHANGED <<ledger, metered, paid>>

-----------------------------------------------------------------------------
\* The process that serves the call is killed.
KillServer(t) ==
    /\ metered[t].stage # "idle"
    /\ MeteredEnds(t)
    /\ UNCHANGED <<ledger, peerLease, paid>>

\* A counted entry leaves the period.
Age(i) ==
    /\ i \in Counted({"reserved", "committed"})
    /\ ledger' = [ledger EXCEPT ![i].current = FALSE]
    /\ UNCHANGED <<peerLease, metered, paid>>

MeteredNext ==
    \/ \E t \in Servers :
         \/ \E u \in Units : CallTool(t, u) \/ ReadLease(t, u)
         \/ CheckTask(t) \/ SaveEntry(t) \/ Succeed(t) \/ Refuse(t)
         \/ CommitEntry(t) \/ ReleaseEntry(t) \/ CountTask(t) \/ KillServer(t)
    \/ EndLease \/ \E i \in DOMAIN ledger : Age(i)

MeteredSpec == MeteredInit /\ [][MeteredNext]_meteredVars

-----------------------------------------------------------------------------
MeteredTypeOK ==
    /\ \A i \in DOMAIN ledger :
         ledger[i] \in [units : Units, current : BOOLEAN,
                       status : {"reserved", "committed", "released", "rejected"}]
    /\ peerLease \in [status : {"active", "over"}, used : 0 .. MaxTasks, units : 0 .. Limit]
    /\ \A t \in Servers :
         /\ metered[t].stage \in {"idle", "check", "reserve", "act", "commit", "release", "count"}
         /\ metered[t].entry \in 0 .. Len(ledger)
    /\ paid \subseteq DOMAIN ledger

\* Calls that overlap may together exceed the quota, because each compares
\* before any of them has saved, but only by what the others cost: a call
\* that begins when the quota is used up gets nothing.
OverrunIsBounded ==
    LET dearest == CHOOSE u \in Units : \A v \in Units : v <= u IN
    Usage <= Limit + (Cardinality(Servers) - 1) * dearest

\* What is charged was delivered, and what was delivered is never given back:
\* whichever call fails, is blocked or killed, and although a transition does
\* not look at the status it replaces.
PaidIsDelivered ==
    \A i \in DOMAIN ledger :
        /\ ledger[i].status = "committed" => i \in paid
        /\ i \in paid => ledger[i].status \in {"reserved", "committed"}
=============================================================================
