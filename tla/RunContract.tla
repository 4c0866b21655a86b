----------------------------- MODULE RunContract -----------------------------
(***************************************************************************)
(* What the worker queue promises, without leases, clocks, workers'        *)
(* registrations or retries: each run has at most one owner, ownership     *)
(* passes from one worker to another only through nobody, a worker owns    *)
(* one run per queue, and a closed run stays closed.                       *)
(***************************************************************************)

CONSTANTS Runs, Workers, Queues, NoWorker, QueueOf

VARIABLES phase, owner

vars == <<phase, owner>>

Init ==
    /\ phase = [r \in Runs |-> "absent"]
    /\ owner = [r \in Runs |-> NoWorker]

Submit(r) ==
    /\ phase[r] = "absent"
    /\ phase' = [phase EXCEPT ![r] = "open"]
    /\ UNCHANGED owner

Take(r, w) ==
    /\ phase[r] = "open" /\ owner[r] = NoWorker
    /\ \A s \in Runs : QueueOf[s] = QueueOf[r] => owner[s] # w
    /\ owner' = [owner EXCEPT ![r] = w]
    /\ UNCHANGED phase

\* Leases lapse or are withdrawn, of any number of runs at once.
Lose(S) ==
    /\ owner' = [r \in Runs |-> IF r \in S THEN NoWorker ELSE owner[r]]
    /\ UNCHANGED phase

\* Open runs are settled, which frees them.
Settle(S, outcome) ==
    /\ \A r \in S : phase[r] = "open"
    /\ phase' = [r \in Runs |-> IF r \in S THEN outcome ELSE phase[r]]
    /\ owner' = [r \in Runs |-> IF r \in S THEN NoWorker ELSE owner[r]]

\* A failed run is given another chance.
Reopen(r) ==
    /\ phase[r] = "failed"
    /\ phase' = [phase EXCEPT ![r] = "open"]
    /\ UNCHANGED owner

Next ==
    \/ \E r \in Runs : Submit(r) \/ Reopen(r)
    \/ \E r \in Runs, w \in Workers : Take(r, w)
    \/ \E S \in SUBSET Runs : Lose(S)
    \/ \E S \in SUBSET Runs, outcome \in {"closed", "failed"} : Settle(S, outcome)

Spec == Init /\ [][Next]_vars

=============================================================================
