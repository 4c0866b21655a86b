------------------------------ MODULE AgentRun ------------------------------
(***************************************************************************)
(* One run of the agent execution runner: attempts of an adapter in a      *)
(* fresh copy of the repository, the fallback plan between them, the       *)
(* filtered patch, the validators, the promotion gate and the summary.     *)
(*                                                                         *)
(* A change of the workspace is a pair of the attempt whose adapter made   *)
(* it and where it lies: "inside" the allowed paths or "outside".  The     *)
(* attempt is known to the model only; the code sees a workspace.          *)
(***************************************************************************)
EXTENDS Integers, Sequences, FiniteSets

CONSTANTS
    Jobs,           \* [agent, fallback, mode, wantsPR, approved, human]
    RuntimeAgents,  \* agents with execution semantics "runtime"
    CheckedAgents,  \* agents whose environment is checked first
    Reports,        \* <<status, action>> an adapter may report
    MaxStragglers   \* bound: adapters that leave processes behind

ASSUME RunAssumption ==
    /\ Reports \subseteq {"succeeded", "partial", "failed", "timed_out", "policy_blocked",
                         "stalled_no_progress", "contract_error"}
                           \X {"promote", "human_review", "reject"}
    /\ \A j \in Jobs : /\ Len(j.fallback) \in Nat
                       /\ \A i \in 1 .. Len(j.fallback) : j.fallback[i].max_attempts \in 1 .. 20

VARIABLES
    job, phase,
    fallbackIndex, pendingAttempts, attempt, currentAgent,
    workspace,    \* changes against the baseline
    resultFile,   \* driver_result.json
    patchFile,    \* promotion.patch: <<>> or <<its changes>>
    behind,       \* attempts with a process that outlived its adapter
    lastResult,
    failedChecks, \* of the last validation
    decided,      \* the final status, once it is settled by more than the last result
    released,    \* "none", "branch" or "draft_pr"
    summary

runVars == <<job, phase, fallbackIndex, pendingAttempts, attempt, currentAgent, workspace,
             resultFile, patchFile, behind, lastResult, failedChecks,
             decided, released, summary>>

planVars == <<job, fallbackIndex, pendingAttempts, attempt, currentAgent>>
fileVars == <<workspace, resultFile, patchFile>>
checkVars == <<lastResult, failedChecks>>
endVars == <<decided, released, summary>>

Statuses == {"succeeded", "partial", "failed", "timed_out", "stalled_no_progress",
             "policy_blocked", "contract_error"}
\* Recommendations; "reject" stands for all that make no difference.
Actions == {"promote", "fallback", "human_review", "reject"}

Inside(S) == {c \in S : c[2] = "inside"}

\* by: the attempt whose adapter wrote the result, 0 if the runner made it up.
Result(by, status, action) == [by |-> by, status |-> status, action |-> action]
EnvironmentCheckFailed == [by |-> 0, status |-> "contract_error", action |-> "fallback"]
ContractError == Result(0, "contract_error", "reject")
NoFile == Result(0, "failed", "reject")  \* missing or not readable

NoSummary == [final_status |-> "none", patch |-> FALSE]
Succeeds(status) == status \in {"succeeded", "partial"}
IsRuntime(a) == a \in RuntimeAgents

RunInit ==
    /\ job \in Jobs /\ phase = "loop"
    /\ fallbackIndex = 0 /\ pendingAttempts = 1 /\ attempt = 0 /\ currentAgent = job.agent
    /\ workspace = {} /\ resultFile = NoFile /\ patchFile = <<>> /\ behind = {}
    /\ lastResult = ContractError /\ failedChecks = {"none ran"}
    /\ decided = "none" /\ released = "none" /\ summary = NoSummary

-----------------------------------------------------------------------------
(* Between attempts                                                        *)

GiveUp ==
    /\ phase = "loop" /\ pendingAttempts = 0
    /\ fallbackIndex = Len(job.fallback)
    /\ phase' = "summary"
    /\ UNCHANGED <<planVars, fileVars, behind, checkVars, endVars>>

\* A stalled agent and a broken environment are not worth a retry step.
RetryIsSkipped == lastResult.status = "stalled_no_progress" \/ lastResult = EnvironmentCheckFailed

Advance == fallbackIndex' = fallbackIndex + 1

Retry(step) ==
    /\ step.action = "retry"
    /\ pendingAttempts' = IF RetryIsSkipped THEN 0 ELSE step.max_attempts
    /\ UNCHANGED <<currentAgent, phase, decided>>

FallBack(step) ==
    /\ step.action = "fallback_agent"
    /\ IF job.mode = "runtime_only" \/ IsRuntime(job.agent)
         THEN UNCHANGED <<currentAgent, pendingAttempts>>
         ELSE /\ currentAgent' = IF step.agent_id = "" THEN currentAgent ELSE step.agent_id
              /\ pendingAttempts' = step.max_attempts
    /\ UNCHANGED <<phase, decided>>

StopAt(step) ==
    /\ step.action \in {"human_review", "reject"}
    /\ decided' = IF step.action = "reject" THEN "blocked" ELSE "human_review"
    /\ phase' = "summary"
    /\ UNCHANGED <<currentAgent, pendingAttempts>>

TakeStep ==
    /\ phase = "loop" /\ pendingAttempts = 0
    /\ fallbackIndex < Len(job.fallback)
    /\ Advance
    /\ LET step == job.fallback[fallbackIndex + 1] IN Retry(step) \/ FallBack(step) \/ StopAt(step)
    /\ UNCHANGED <<job, attempt, fileVars, behind, checkVars, released, summary>>

CountAttempt ==
    /\ phase = "loop" /\ pendingAttempts > 0
    /\ attempt' = attempt + 1 /\ pendingAttempts' = pendingAttempts - 1
    /\ UNCHANGED <<job, fallbackIndex, currentAgent>>

FailPreflight ==
    /\ currentAgent \in CheckedAgents
    /\ CountAttempt
    /\ lastResult' = EnvironmentCheckFailed
    /\ failedChecks' = {"none ran"}
    /\ UNCHANGED <<phase, fileVars, behind, endVars>>

\* Mutants of FreshWorkspace: one of the two is forgotten.
OldResultStays == workspace' = {} /\ UNCHANGED resultFile
OldChangesStay == resultFile' = NoFile /\ UNCHANGED workspace

\* The workspace is copied afresh, and the result of the last attempt removed.
FreshWorkspace == workspace' = {} /\ resultFile' = NoFile

StartAttempt ==
    /\ CountAttempt
    /\ FreshWorkspace
    /\ \/ phase' = "adapter" /\ UNCHANGED lastResult
       \/ phase' = "build" /\ lastResult' = ContractError  \* no such entrypoint
    /\ UNCHANGED <<patchFile, behind, failedChecks, endVars>>

-----------------------------------------------------------------------------
(* The adapter, and what survives it                                       *)

Alive == behind \union (IF phase = "adapter" THEN {attempt} ELSE {})

Write(a, where) ==
    /\ phase # "summarised"
    /\ workspace' = workspace \union {<<a, where>>}
    /\ UNCHANGED <<planVars, phase, resultFile, patchFile, behind, checkVars, endVars>>

Report(a, status, action) ==
    /\ phase # "summarised"
    /\ resultFile' = Result(a, status, action)
    /\ UNCHANGED <<planVars, phase, workspace, patchFile, behind, checkVars, endVars>>

\* What the runner makes of the result and the exit code of an adapter.
ByExitCode(result, code) ==
    CASE result = NoFile -> ContractError
      [] result # NoFile /\ code = 10 /\ result.status \notin {"policy_blocked", "contract_error"} ->
            [result EXCEPT !.status = "policy_blocked"]
      [] result # NoFile /\ code = 30 /\ result.status = "succeeded" ->
            [result EXCEPT !.status = "timed_out"]
      [] result # NoFile /\ code = 40 -> [result EXCEPT !.status = "contract_error"]
      [] OTHER -> result

Exit(code) ==
    /\ phase = "adapter"
    /\ lastResult' = ByExitCode(resultFile, code)
    /\ phase' = "build"
    /\ \/ UNCHANGED behind
       \/ Cardinality(behind) < MaxStragglers /\ behind' = behind \union {attempt}
    /\ UNCHANGED <<planVars, fileVars, failedChecks, endVars>>

\* Mutant of Terminate: only a failed probe ends the adapter.
TerminateAfterProbe ==
    /\ phase = "adapter"
    /\ Inside(workspace) # {} /\ lastResult' = Result(0, "failed", "fallback")
    /\ phase' = "build"
    /\ UNCHANGED <<planVars, fileVars, behind, failedChecks, endVars>>

\* Timeout, stall, or a probe of the changed Python files that failed: the
\* whole process group of the adapter is ended.
Terminate ==
    /\ phase = "adapter"
    /\ \/ lastResult' \in {Result(0, s, "fallback") : s \in {"timed_out", "stalled_no_progress"}}
       \/ Inside(workspace) # {} /\ lastResult' = Result(0, "failed", "fallback")
    /\ phase' = "build"
    /\ UNCHANGED <<planVars, fileVars, behind, failedChecks, endVars>>

-----------------------------------------------------------------------------
(* Patch, validation, promotion                                            *)

\* Mutant of PatchOf: the paths are not filtered.
PatchOfAll(S) == <<S>>
PatchOf(S) == <<Inside(S)>>

\* The changed paths are those of the moment the patch is built.
BuildPatch ==
    /\ phase = "build"
    /\ resultFile' = lastResult
    /\ IF IsRuntime(currentAgent)
         THEN /\ patchFile' = <<>>
              /\ failedChecks' =
                   {check \in {"driver_success", "runtime_no_repo_writes"} :
                       IF check = "driver_success" THEN ~Succeeds(lastResult.status)
                                                   ELSE workspace # {}}
         ELSE /\ patchFile' = PatchOf(workspace)
              /\ failedChecks' =
                   {check \in {"driver_success", "scope", "nonempty_change_for_promote"} :
                       CASE check = "driver_success" -> ~Succeeds(lastResult.status)
                         [] check = "scope" -> Inside(workspace) # workspace
                         [] OTHER -> /\ Succeeds(lastResult.status)
                                     /\ lastResult.action = "promote" /\ Inside(workspace) = {}}
    /\ phase' = "validate"
    /\ UNCHANGED <<planVars, workspace, behind, lastResult, endVars>>

PolicyChecks == {"scope", "runtime_no_repo_writes"}

\* The builtin checks on size and binary files, and the commands that run in
\* the workspace, pass or fail as "command"; a human validator never passes.
Judgement(ok) ==
    failedChecks \union (IF ok THEN {} ELSE {"command"}) \union (IF job.human THEN {"human"} ELSE {})

AfterPolicy(failed) ==
    IF failed \intersect PolicyChecks = {} THEN lastResult
    ELSE [lastResult EXCEPT !.status = "policy_blocked", !.action = "reject"]

\* Mutant of Validate: a violation is retried like a failure.
ValidateAndRetry(ok) ==
    /\ phase = "validate"
    /\ failedChecks' = Judgement(ok)
    /\ lastResult' = AfterPolicy(Judgement(ok))
    /\ phase' = CASE Succeeds(lastResult'.status) /\ failedChecks' = {} ->
                        IF IsRuntime(currentAgent) THEN "completed" ELSE "gate"
                  [] ~(Succeeds(lastResult'.status) /\ failedChecks' = {}) ->
                        "loop"
    /\ UNCHANGED <<planVars, fileVars, behind, endVars>>

Validate(ok) ==
    /\ phase = "validate"
    /\ failedChecks' = Judgement(ok)
    /\ lastResult' = AfterPolicy(Judgement(ok))
    /\ phase' = CASE Succeeds(lastResult'.status) /\ failedChecks' = {} ->
                        IF IsRuntime(currentAgent) THEN "completed" ELSE "gate"
                  [] ~(Succeeds(lastResult'.status) /\ failedChecks' = {}) ->
                        IF lastResult'.status = "policy_blocked" THEN "summary" ELSE "loop"
    /\ UNCHANGED <<planVars, fileVars, behind, endVars>>

EndAs(status) == phase' = "summary" /\ decided' = status

\* fits: branch and writer lease; able: remote, credentials, base, clean repository.
Gate(fits, able) ==
    /\ phase = "gate"
    /\ IF ~fits \/ patchFile[1] = {}
         THEN EndAs("blocked")
         ELSE IF job.wantsPR /\ job.approved /\ able
                THEN phase' = "publish" /\ UNCHANGED decided
                ELSE EndAs("ready_for_promotion")
    /\ UNCHANGED <<planVars, fileVars, behind, checkVars, released, summary>>

OpenDraft(outcome) ==
    /\ phase = "publish"
    /\ CASE outcome = "prepare failed" -> EndAs("blocked") /\ UNCHANGED released
         [] outcome = "upgrade failed" -> EndAs("ready_for_promotion") /\ released' = "branch"
         [] outcome = "opened" -> EndAs("promoted") /\ released' = "draft_pr"
    /\ UNCHANGED <<planVars, fileVars, behind, checkVars, summary>>

Complete ==
    /\ phase = "completed"
    /\ EndAs("completed")
    /\ UNCHANGED <<planVars, fileVars, behind, checkVars, released, summary>>

-----------------------------------------------------------------------------
(* The end                                                                 *)

\* An exception anywhere in the loop.  An adapter that runs is not ended.
Crash ==
    /\ phase \notin {"summary", "summarised"} \/ (phase = "summary" /\ released # "none")
    /\ EndAs("failed")
    /\ lastResult' = ContractError
    /\ behind' = Alive
    /\ UNCHANGED <<planVars, fileVars, failedChecks, released, summary>>

TerminalStatus ==
    CASE decided # "none" -> decided
      [] decided = "none" /\ lastResult.status \in
            {"contract_error", "failed", "timed_out", "stalled_no_progress"} -> "failed"
      [] OTHER ->
            IF /\ lastResult.status # "policy_blocked"
               /\ "nonempty_change_for_promote" \notin failedChecks
               /\ lastResult.action = "human_review" \/ failedChecks # {}
              THEN "human_review" ELSE "blocked"

Summarise ==
    /\ phase = "summary"
    /\ summary' = [final_status |-> TerminalStatus, patch |-> patchFile # <<>>]
    /\ phase' = "summarised"
    /\ workspace' \in {workspace, {}}  \* kept or removed, by policy
    /\ UNCHANGED <<planVars, resultFile, patchFile, behind, checkVars, decided, released>>

RunStep ==
    \/ GiveUp \/ TakeStep \/ FailPreflight \/ StartAttempt
    \/ BuildPatch \/ (\E ok \in BOOLEAN : Validate(ok))
    \/ (\E fits, able \in BOOLEAN : Gate(fits, able))
    \/ (\E outcome \in {"prepare failed", "upgrade failed", "opened"} : OpenDraft(outcome))
    \/ Complete \/ Summarise \/ Terminate

AdapterStep ==
    \/ \E a \in Alive, where \in {"inside", "outside"} : Write(a, where)
    \/ \E a \in Alive, r \in Reports : Report(a, r[1], r[2])
    \/ \E code \in {0, 10, 30, 40} : Exit(code)

RunNext == RunStep \/ AdapterStep \/ Crash

\* The runner goes on, and ends an adapter that does not (Terminate).
RunSpec == RunInit /\ [][RunNext]_runVars
FairRunSpec == RunSpec /\ WF_runVars(RunStep)

-----------------------------------------------------------------------------
RunTypeOK ==
    /\ job \in Jobs
    /\ phase \in {"loop", "adapter", "build", "validate", "completed", "gate", "publish",
                  "summary", "summarised"}
    /\ fallbackIndex \in 0 .. Len(job.fallback)
    /\ pendingAttempts \in Nat /\ attempt \in Nat
    /\ workspace \subseteq Nat \X {"inside", "outside"}
    /\ resultFile \in [by : Nat, status : Statuses, action : Actions]
    /\ lastResult \in [by : Nat, status : Statuses, action : Actions]
    /\ patchFile = <<>> \/ (Len(patchFile) = 1 /\ patchFile[1] \subseteq Nat \X {"inside"})
    /\ behind \subseteq 1 .. attempt
    /\ decided \in {"none", "human_review", "blocked", "ready_for_promotion", "promoted",
                    "completed", "failed"}
    /\ released \in {"none", "branch", "draft_pr"}

Good == {"ready_for_promotion", "promoted", "completed"}
MayHaveActed == {attempt} \union behind

\* A run ends well only if an adapter reported success for the attempt that
\* ended it (or a process left behind by an earlier adapter did, which the
\* runner cannot tell apart) and every check passed: never by the result
\* file of an earlier attempt, nor after a crash, a timeout or a stall.
SuccessIsReported ==
    decided \in Good =>
        lastResult.by \in MayHaveActed /\ Succeeds(lastResult.status) /\ failedChecks = {}

\* What is promoted or pushed was made in this attempt and lies inside the
\* allowed paths: nothing of an earlier attempt, of another agent, or of a
\* patch file that was there before.
PatchIsOwn ==
    decided \in {"ready_for_promotion", "promoted"} \/ released # "none" =>
        /\ Len(patchFile) = 1 /\ patchFile[1] # {}
        /\ \A c \in patchFile[1] : c[1] \in MayHaveActed /\ c[2] = "inside"

\* A run that began with a runtime agent never produces something to promote,
\* whatever its fallback plan says.
RuntimeRunsPublishNothing ==
    IsRuntime(job.agent) =>
        released = "none" /\ decided \notin {"ready_for_promotion", "promoted"}

\* An attempt that wrote where it must not, or was stopped by policy, is the
\* last one: no retry and no other agent gets to launder it.
ViolationEndsRun ==
    [][attempt' > attempt => lastResult.status # "policy_blocked"]_runVars

\* Every run that begins comes to its summary, however its adapters behave.
RunIsSummarised == []<>(attempt > 0 => phase = "summarised")
=============================================================================
