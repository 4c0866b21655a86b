-------------------------- MODULE WorkerSchedulerMC --------------------------
(***************************************************************************)
(* Values for the constants of WorkerScheduler.                            *)
(***************************************************************************)
EXTENDS WorkerScheduler

CONSTANTS r1, r2, w1, w2, q1, a1

\* Two runs that compete in one queue: r1 urgent and open to all, r2 less
\* urgent and sticky to w2.
SharedQueue == [r \in Runs |-> q1]
R1Urgent == [r \in Runs |-> IF r = r1 THEN 1 ELSE 0]
R2PrefersW2 == [r \in Runs |-> IF r = r2 THEN w2 ELSE NoWorker]
NobodyTargeted == [r \in Runs |-> NoAgent]
OneRetry == [r \in Runs |-> 1]
NoTTLAsked == [r \in Runs |-> 0]

AllEqual == [r \in Runs |-> 0]
NoDeadline == [r \in Runs |-> Forever]

\* A single run that prefers w1, targets an agent and asks for a longer lease.
R1PrefersW1 == [r \in Runs |-> w1]
R1Deadline == [r \in Runs |-> 1]
R1Targeted == [r \in Runs |-> a1]
LongTTLAsked == [r \in Runs |-> 3]

=============================================================================
