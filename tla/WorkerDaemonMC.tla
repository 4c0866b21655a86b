---------------------------- MODULE WorkerDaemonMC ----------------------------
(***************************************************************************)
(* Values for the constants of WorkerDaemon.                               *)
(***************************************************************************)
EXTENDS WorkerDaemon

CONSTANTS r1, r2, w1, w2, q1

OneQueue == [r \in Runs |-> q1]
AllEqual == [r \in Runs |-> 0]
NoRetryForR2 == [r \in Runs |-> IF r = r2 THEN 0 ELSE 1]
OneRetry == [r \in Runs |-> 1]
NobodyPreferred == [r \in Runs |-> NoWorker]
NoDeadline == [r \in Runs |-> Forever]
NobodyTargeted == [r \in Runs |-> NoAgent]
NoTTLAsked == [r \in Runs |-> 0]

\* Every way the Mac executor ends a run.
AllOutcomes == {<<"completed", FALSE>>, <<"failed", FALSE>>, <<"cancelled", FALSE>>,
                <<"running", FALSE>>, <<"running", TRUE>>}
\* Executions that end for good.
FinalOutcomes == {<<"completed", FALSE>>, <<"failed", FALSE>>, <<"cancelled", FALSE>>}
\* Executions that may wait for a decision first.
PausingOutcomes == {<<"completed", FALSE>>, <<"running", TRUE>>}

=============================================================================
