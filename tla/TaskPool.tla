------------------------------- MODULE TaskPool -------------------------------
(***************************************************************************)
(* What the state machine bus promises its agents, without statements,     *)
(* rows or counters read in advance: a task is in the hands of one agent   *)
(* at most, is tried MaxTries times at most, and is given up only then.    *)
(***************************************************************************)
EXTENDS Integers

CONSTANTS Tasks, Agents, NoTask, MaxTries

VARIABLES
    stage,   \* absent, waiting, taken, done, dead or gone
    hand,    \* the task each agent works on
    tries    \* how often each task was taken

poolVars == <<stage, hand, tries>>

PoolInit ==
    /\ stage = [t \in Tasks |-> "absent"]
    /\ hand = [a \in Agents |-> NoTask]
    /\ tries = [t \in Tasks |-> 0]

Offer(t) ==
    /\ stage[t] = "absent"
    /\ stage' = [stage EXCEPT ![t] = "waiting"]
    /\ UNCHANGED <<hand, tries>>

Take(a, t) ==
    /\ hand[a] = NoTask /\ stage[t] = "waiting"
    /\ stage' = [stage EXCEPT ![t] = "taken"]
    /\ hand' = [hand EXCEPT ![a] = t]
    /\ tries' = [tries EXCEPT ![t] = @ + 1]

\* Who has a task in hand ends it, puts it back, or gives it up.
PutDown(a, outcome) ==
    /\ hand[a] # NoTask /\ stage[hand[a]] = "taken"
    /\ outcome = "waiting" => tries[hand[a]] < MaxTries
    /\ outcome = "dead" => tries[hand[a]] = MaxTries
    /\ stage' = [stage EXCEPT ![hand[a]] = outcome]
    /\ hand' = [hand EXCEPT ![a] = NoTask]
    /\ UNCHANGED tries

\* An agent dies: nobody takes over what it had in hand.
Vanish(a) ==
    /\ hand' = [hand EXCEPT ![a] = NoTask]
    /\ UNCHANGED <<stage, tries>>

\* What is over is forgotten.
Forget ==
    /\ stage' = [t \in Tasks |-> IF stage[t] \in {"done", "dead"} THEN "gone" ELSE stage[t]]
    /\ UNCHANGED <<hand, tries>>

PoolNext ==
    \/ \E t \in Tasks : Offer(t)
    \/ \E a \in Agents : Vanish(a) \/ \E t \in Tasks : Take(a, t)
    \/ \E a \in Agents, outcome \in {"done", "waiting", "dead"} : PutDown(a, outcome)
    \/ Forget

PoolSpec == PoolInit /\ [][PoolNext]_poolVars

=============================================================================
