---------------------------- MODULE AgentProofs ----------------------------
(***************************************************************************)
(* The two ways the system runs agents: the execution runner, and the      *)
(* Claude agent service.  They share nothing; each section stands by       *)
(* itself.                                                                 *)
(***************************************************************************)
EXTENDS AgentRun, ClaudeAgents, FiniteSetTheorems, TLAPS

-----------------------------------------------------------------------------
(* The runner: what a run may end with, for any job, any set of runtime    *)
(* agents and any adapters.  The invariant follows the result and the      *)
(* changes of one attempt from the fresh workspace to the draft: from the  *)
(* moment the attempt begins until it is judged, both can only come from   *)
(* its adapter or from a process an earlier adapter left behind.           *)

Judged == {"gate", "completed", "publish"}
InAttempt == {"adapter", "build", "validate"} \union Judged

Own(c) == c[1] \in MayHaveActed

Unsettled ==
    /\ phase \in {"loop"} \union InAttempt => decided = "none" /\ released = "none"
    /\ phase \in InAttempt => attempt >= 1
    /\ phase = "loop" => lastResult.status # "policy_blocked"

ResultIsRecent ==
    /\ phase = "adapter" => resultFile = NoFile \/ resultFile.by \in MayHaveActed
    /\ phase \in InAttempt \ {"adapter"} /\ Succeeds(lastResult.status) =>
         lastResult.by \in MayHaveActed
    /\ phase \in Judged => Succeeds(lastResult.status) /\ failedChecks = {}

ChangesAreRecent ==
    /\ phase \in {"adapter", "build"} => \A c \in workspace : Own(c)
    /\ phase \in {"validate"} \union Judged /\ ~IsRuntime(currentAgent) =>
         Len(patchFile) = 1 /\ \A c \in patchFile[1] : Own(c) /\ c[2] = "inside"
    /\ phase \in {"gate", "publish"} => ~IsRuntime(currentAgent)
    /\ phase = "publish" => patchFile[1] # {}

RuntimeStaysRuntime == IsRuntime(job.agent) => IsRuntime(currentAgent)

RunPromises == SuccessIsReported /\ PatchIsOwn /\ RuntimeRunsPublishNothing

RunInv ==
    /\ RunTypeOK /\ Unsettled /\ ResultIsRecent /\ ChangesAreRecent
    /\ RuntimeStaysRuntime /\ RunPromises

-----------------------------------------------------------------------------
(* Between attempts                                                        *)

LEMMA LoopStep ==
  ASSUME RunInv, GiveUp \/ TakeStep
  PROVE  RunInv'
<1>1. RunTypeOK /\ Unsettled /\ ResultIsRecent /\ ChangesAreRecent /\ RuntimeStaysRuntime /\ RunPromises
  BY DEF RunInv
<1>2. /\ phase = "loop" /\ phase' \in {"loop", "summary"} /\ decided = "none" /\ released = "none"
      /\ decided' \in {"none", "blocked", "human_review"}
      /\ phase' = "loop" => decided' = "none"
      /\ UNCHANGED <<job, attempt, workspace, resultFile, patchFile, behind, lastResult,
                     failedChecks, released, summary>>
  BY <1>1 DEF GiveUp, TakeStep, Retry, FallBack, StopAt, planVars, fileVars, checkVars, endVars,
              Unsettled, InAttempt
<1>3. fallbackIndex' \in 0 .. Len(job.fallback) /\ pendingAttempts' \in Nat
  <2>1. CASE GiveUp
    BY <1>1, <2>1 DEF GiveUp, planVars, RunTypeOK
  <2>2. CASE TakeStep
    <3>1. fallbackIndex + 1 \in 1 .. Len(job.fallback) /\ fallbackIndex' = fallbackIndex + 1
      BY <1>1, <2>2, RunAssumption DEF TakeStep, Advance, RunTypeOK
    <3>2. job.fallback[fallbackIndex + 1].max_attempts \in 1 .. 20
      BY <1>1, <3>1, RunAssumption DEF RunTypeOK
    <3> DEFINE step == job.fallback[fallbackIndex + 1]
    <3>3. Retry(step) \/ FallBack(step) \/ StopAt(step)
      BY <2>2 DEF TakeStep
    <3>4. pendingAttempts' \in {0, pendingAttempts, step.max_attempts}
      BY <3>3 DEF Retry, FallBack, StopAt
    <3>a. step.max_attempts \in Nat
      BY <3>2
    <3>b. pendingAttempts \in Nat
      BY <1>1 DEF RunTypeOK
    <3> HIDE DEF step
    <3>5. pendingAttempts' \in Nat
      BY <3>a, <3>b, <3>4
    <3> QED BY <3>1, <3>5
  <2> QED BY <2>1, <2>2
<1>4. RunTypeOK'
  BY <1>1, <1>2, <1>3 DEF RunTypeOK
<1>5. RuntimeStaysRuntime'
  <2>1. job' = job /\ (IsRuntime(job.agent) => currentAgent' = currentAgent)
    <3>1. CASE GiveUp
      BY <3>1 DEF GiveUp, planVars
    <3>2. CASE TakeStep
      BY <3>2 DEF TakeStep, Retry, FallBack, StopAt
    <3> QED BY <3>1, <3>2
  <2> QED BY <1>1, <2>1 DEF RuntimeStaysRuntime, IsRuntime
<1>6. Unsettled' /\ ResultIsRecent' /\ ChangesAreRecent'
  BY <1>1, <1>2 DEF Unsettled, ResultIsRecent, ChangesAreRecent, InAttempt, Judged
<1>7. RunPromises'
  BY <1>2 DEF RunPromises, SuccessIsReported, PatchIsOwn, RuntimeRunsPublishNothing, Good
<1> QED BY <1>4, <1>5, <1>6, <1>7 DEF RunInv

LEMMA BeginStep ==
  ASSUME RunInv, FailPreflight \/ StartAttempt
  PROVE  RunInv'
<1>1. RunTypeOK /\ Unsettled /\ ResultIsRecent /\ ChangesAreRecent /\ RuntimeStaysRuntime /\ RunPromises
  BY DEF RunInv
<1>2. /\ phase = "loop" /\ decided = "none" /\ released = "none"
      /\ attempt' = attempt + 1 /\ pendingAttempts > 0 /\ pendingAttempts' = pendingAttempts - 1
      /\ UNCHANGED <<job, fallbackIndex, currentAgent, patchFile, behind, decided, released, summary>>
  BY <1>1 DEF FailPreflight, StartAttempt, CountAttempt, fileVars, endVars, Unsettled, InAttempt
<1>3. \/ /\ phase' = "loop" /\ lastResult' = EnvironmentCheckFailed
         /\ UNCHANGED <<workspace, resultFile>>
      \/ /\ phase' = "adapter" /\ lastResult' = lastResult
         /\ workspace' = {} /\ resultFile' = NoFile
      \/ /\ phase' = "build" /\ lastResult' = ContractError
         /\ workspace' = {} /\ resultFile' = NoFile
  BY <1>2 DEF FailPreflight, StartAttempt, FreshWorkspace, fileVars
<1>4. attempt' \in Nat /\ attempt' >= 1 /\ pendingAttempts' \in Nat /\ behind' \subseteq 1 .. attempt'
  BY <1>1, <1>2 DEF RunTypeOK
<1>5. RunTypeOK'
  BY <1>1, <1>2, <1>3, <1>4
     DEF RunTypeOK, EnvironmentCheckFailed, ContractError, NoFile, Result, Statuses, Actions
<1>6. Unsettled'
  BY <1>1, <1>2, <1>3, <1>4 DEF Unsettled, InAttempt, Judged, EnvironmentCheckFailed
<1>7. ResultIsRecent' /\ ChangesAreRecent'
  BY <1>3
     DEF ResultIsRecent, ChangesAreRecent, InAttempt, Judged, Succeeds, ContractError, Result
<1>8. RuntimeStaysRuntime' /\ RunPromises'
  BY <1>1, <1>2 DEF RuntimeStaysRuntime, IsRuntime, RunPromises, SuccessIsReported, PatchIsOwn,
                    RuntimeRunsPublishNothing, Good
<1> QED BY <1>5, <1>6, <1>7, <1>8 DEF RunInv

-----------------------------------------------------------------------------
(* The adapter                                                             *)

LEMMA AliveMayAct ==
  ASSUME RunTypeOK, Unsettled, NEW a \in Alive
  PROVE  a \in MayHaveActed /\ a \in 1 .. attempt
BY DEF Alive, MayHaveActed, RunTypeOK, Unsettled, InAttempt

LEMMA WriteStep ==
  ASSUME RunInv, NEW a \in Alive, NEW where \in {"inside", "outside"}, Write(a, where)
  PROVE  RunInv'
<1>1. RunTypeOK /\ Unsettled /\ ResultIsRecent /\ ChangesAreRecent /\ RuntimeStaysRuntime /\ RunPromises
  BY DEF RunInv
<1>2. /\ workspace' = workspace \union {<<a, where>>}
      /\ UNCHANGED <<job, fallbackIndex, pendingAttempts, attempt, currentAgent, phase,
                     resultFile, patchFile, behind, lastResult, failedChecks, decided,
                     released, summary>>
  BY DEF Write, planVars, checkVars, endVars
<1>3. a \in MayHaveActed /\ a \in Nat
  BY <1>1, AliveMayAct DEF RunTypeOK
<1>4. RunTypeOK'
  BY <1>1, <1>2, <1>3 DEF RunTypeOK
<1>5. Unsettled' /\ ResultIsRecent'
  BY <1>1, <1>2 DEF Unsettled, ResultIsRecent, MayHaveActed
<1>6. ChangesAreRecent'
  BY <1>1, <1>2, <1>3 DEF ChangesAreRecent, Own, MayHaveActed
<1>7. RuntimeStaysRuntime' /\ RunPromises'
  BY <1>1, <1>2 DEF RuntimeStaysRuntime, RunPromises, SuccessIsReported, PatchIsOwn,
                    RuntimeRunsPublishNothing, MayHaveActed
<1> QED BY <1>4, <1>5, <1>6, <1>7 DEF RunInv

LEMMA ReportStep ==
  ASSUME RunInv, NEW a \in Alive, NEW r \in Reports, Report(a, r[1], r[2])
  PROVE  RunInv'
<1>1. RunTypeOK /\ Unsettled /\ ResultIsRecent /\ ChangesAreRecent /\ RuntimeStaysRuntime /\ RunPromises
  BY DEF RunInv
<1>2. /\ resultFile' = Result(a, r[1], r[2])
      /\ UNCHANGED <<job, fallbackIndex, pendingAttempts, attempt, currentAgent, phase,
                     workspace, patchFile, behind, lastResult, failedChecks, decided,
                     released, summary>>
  BY DEF Report, planVars, checkVars, endVars
<1>3. a \in MayHaveActed /\ a \in Nat
  BY <1>1, AliveMayAct DEF RunTypeOK
<1>4. r[1] \in Statuses /\ r[2] \in Actions
  BY RunAssumption DEF Statuses, Actions
<1>5. resultFile' \in [by : Nat, status : Statuses, action : Actions] /\ resultFile'.by = a
  BY <1>2, <1>3, <1>4 DEF Result
<1>6. RunTypeOK'
  BY <1>1, <1>2, <1>5 DEF RunTypeOK
<1>7. Unsettled' /\ ResultIsRecent' /\ ChangesAreRecent'
  BY <1>1, <1>2, <1>3, <1>5 DEF Unsettled, ResultIsRecent, ChangesAreRecent, Own, MayHaveActed
<1>8. RuntimeStaysRuntime' /\ RunPromises'
  BY <1>1, <1>2 DEF RuntimeStaysRuntime, RunPromises, SuccessIsReported, PatchIsOwn,
                    RuntimeRunsPublishNothing, MayHaveActed
<1> QED BY <1>6, <1>7, <1>8 DEF RunInv

\* The runner never turns a result into one of another attempt, nor a missing
\* one into a success.
LEMMA ExitCodeKeepsAuthor ==
  ASSUME NEW result \in [by : Nat, status : Statuses, action : Actions],
         NEW code \in {0, 10, 30, 40}
  PROVE  /\ ByExitCode(result, code) \in [by : Nat, status : Statuses, action : Actions]
         /\ Succeeds(ByExitCode(result, code).status) =>
              result # NoFile /\ ByExitCode(result, code).by = result.by
<1>1. CASE result = NoFile
  BY <1>1 DEF ByExitCode, ContractError, Result, Statuses, Actions, Succeeds
<1>2. CASE result # NoFile
  <2>1. ByExitCode(result, code) \in {result} \union
          {[result EXCEPT !.status = s] : s \in {"policy_blocked", "timed_out", "contract_error"}}
    BY <1>2 DEF ByExitCode
  <2>2. ASSUME NEW s \in {"policy_blocked", "timed_out", "contract_error"}
        PROVE  /\ [result EXCEPT !.status = s] \in [by : Nat, status : Statuses, action : Actions]
               /\ ~Succeeds([result EXCEPT !.status = s].status)
    BY DEF Statuses, Succeeds
  <2> QED BY <1>2, <2>1, <2>2
<1> QED BY <1>1, <1>2

LEMMA AdapterEnds ==
  ASSUME RunInv, (\E code \in {0, 10, 30, 40} : Exit(code)) \/ Terminate
  PROVE  RunInv'
<1>1. RunTypeOK /\ Unsettled /\ ResultIsRecent /\ ChangesAreRecent /\ RuntimeStaysRuntime /\ RunPromises
  BY DEF RunInv
<1>2. /\ phase = "adapter" /\ phase' = "build"
      /\ UNCHANGED <<job, fallbackIndex, pendingAttempts, attempt, currentAgent, workspace,
                     resultFile, patchFile, failedChecks, decided, released, summary>>
      /\ behind' \in {behind, behind \union {attempt}}
  BY DEF Exit, Terminate, planVars, fileVars, endVars
<1>3. /\ decided = "none" /\ released = "none" /\ attempt \in Nat /\ attempt >= 1
      /\ resultFile \in [by : Nat, status : Statuses, action : Actions]
  BY <1>1, <1>2 DEF Unsettled, InAttempt, RunTypeOK
<1>4. MayHaveActed' = MayHaveActed
  BY <1>2 DEF MayHaveActed
<1>5. /\ lastResult' \in [by : Nat, status : Statuses, action : Actions]
      /\ Succeeds(lastResult'.status) => lastResult'.by \in MayHaveActed
  <2>1. ASSUME NEW code \in {0, 10, 30, 40}, Exit(code) PROVE <1>5!1 /\ <1>5!2
    <3>1. lastResult' = ByExitCode(resultFile, code)
      BY <2>1 DEF Exit
    <3> QED BY <1>1, <1>2, <1>3, <3>1, ExitCodeKeepsAuthor DEF ResultIsRecent
  <2>2. CASE Terminate
    BY <2>2 DEF Terminate, Result, Statuses, Actions, Succeeds
  <2> QED BY <2>1, <2>2
<1>6. RunTypeOK'
  BY <1>1, <1>2, <1>3, <1>5 DEF RunTypeOK
<1>7. Unsettled' /\ ResultIsRecent' /\ ChangesAreRecent'
  BY <1>1, <1>2, <1>3, <1>4, <1>5
     DEF Unsettled, ResultIsRecent, ChangesAreRecent, Own, InAttempt, Judged
<1>8. RuntimeStaysRuntime' /\ RunPromises'
  BY <1>1, <1>2, <1>3 DEF RuntimeStaysRuntime, IsRuntime, RunPromises, SuccessIsReported, PatchIsOwn,
                          RuntimeRunsPublishNothing, Good
<1> QED BY <1>6, <1>7, <1>8 DEF RunInv
-----------------------------------------------------------------------------
(* The patch and its judgement                                             *)

LEMMA BuildStep == ASSUME RunInv, BuildPatch PROVE RunInv'
<1>1. RunTypeOK /\ Unsettled /\ ResultIsRecent /\ ChangesAreRecent /\ RuntimeStaysRuntime /\ RunPromises
  BY DEF RunInv
<1>2. /\ phase = "build" /\ phase' = "validate" /\ resultFile' = lastResult
      /\ UNCHANGED <<job, fallbackIndex, pendingAttempts, attempt, currentAgent, workspace,
                     behind, lastResult, decided, released, summary>>
  BY DEF BuildPatch, planVars, endVars
<1>3. /\ IsRuntime(currentAgent) => patchFile' = <<>>
      /\ ~IsRuntime(currentAgent) => patchFile' = <<Inside(workspace)>>
  BY DEF BuildPatch, PatchOf
<1>4. decided = "none" /\ released = "none" /\ attempt >= 1
  BY <1>1, <1>2 DEF Unsettled, InAttempt
<1>5. Inside(workspace) \subseteq Nat \X {"inside"}
  BY <1>1 DEF Inside, RunTypeOK
<1>6. RunTypeOK'
  BY <1>1, <1>2, <1>3, <1>5 DEF RunTypeOK
<1>7. \A c \in Inside(workspace) : Own(c) /\ c[2] = "inside"
  BY <1>1, <1>2 DEF ChangesAreRecent, Inside
<1>8. MayHaveActed' = MayHaveActed
  BY <1>2 DEF MayHaveActed
<1>9. Unsettled' /\ ResultIsRecent'
  BY <1>1, <1>2, <1>4, <1>8 DEF Unsettled, ResultIsRecent, InAttempt, Judged
<1>10. ChangesAreRecent'
  BY <1>2, <1>3, <1>7, <1>8 DEF ChangesAreRecent, Own, Judged, IsRuntime
<1>11. RuntimeStaysRuntime' /\ RunPromises'
  BY <1>1, <1>2, <1>4 DEF RuntimeStaysRuntime, IsRuntime, RunPromises, SuccessIsReported, PatchIsOwn,
                          RuntimeRunsPublishNothing, Good
<1> QED BY <1>6, <1>9, <1>10, <1>11 DEF RunInv

LEMMA JudgeStep == ASSUME RunInv, NEW ok \in BOOLEAN, Validate(ok) PROVE RunInv'
<1>1. RunTypeOK /\ Unsettled /\ ResultIsRecent /\ ChangesAreRecent /\ RuntimeStaysRuntime /\ RunPromises
  BY DEF RunInv
<1>2. /\ phase = "validate" /\ lastResult' = AfterPolicy(failedChecks')
      /\ UNCHANGED <<job, fallbackIndex, pendingAttempts, attempt, currentAgent, workspace,
                     resultFile, patchFile, behind, decided, released, summary>>
  BY DEF Validate, planVars, fileVars, endVars
<1>3. /\ phase' \in {"gate", "completed", "summary", "loop"}
      /\ phase' \in {"gate", "completed"} => Succeeds(lastResult'.status) /\ failedChecks' = {}
      /\ phase' = "gate" => ~IsRuntime(currentAgent)
      /\ phase' = "loop" => lastResult'.status # "policy_blocked"
  BY DEF Validate, Succeeds
<1>4. decided = "none" /\ released = "none" /\ attempt >= 1
  BY <1>1, <1>2 DEF Unsettled, InAttempt
<1>5. /\ lastResult' \in [by : Nat, status : Statuses, action : Actions]
      /\ Succeeds(lastResult'.status) => lastResult' = lastResult
  <2>1. CASE lastResult' = lastResult
    BY <1>1, <2>1 DEF RunTypeOK
  <2>2. CASE lastResult' = [lastResult EXCEPT !.status = "policy_blocked", !.action = "reject"]
    BY <1>1, <2>2 DEF RunTypeOK, Statuses, Actions, Succeeds
  <2> QED BY <1>2, <2>1, <2>2 DEF AfterPolicy
<1>6. RunTypeOK'
  BY <1>1, <1>2, <1>3, <1>5 DEF RunTypeOK
<1>7. MayHaveActed' = MayHaveActed
  BY <1>2 DEF MayHaveActed
<1>8. Unsettled'
  BY <1>2, <1>3, <1>4 DEF Unsettled, InAttempt, Judged
<1>9. ResultIsRecent'
  BY <1>1, <1>2, <1>3, <1>5, <1>7 DEF ResultIsRecent, InAttempt, Judged
<1>10. ChangesAreRecent'
  BY <1>1, <1>2, <1>3, <1>7 DEF ChangesAreRecent, Own, Judged, IsRuntime
<1>11. RuntimeStaysRuntime' /\ RunPromises'
  BY <1>1, <1>2, <1>4 DEF RuntimeStaysRuntime, IsRuntime, RunPromises, SuccessIsReported, PatchIsOwn,
                          RuntimeRunsPublishNothing, Good
<1> QED BY <1>6, <1>8, <1>9, <1>10, <1>11 DEF RunInv

-----------------------------------------------------------------------------
(* The end                                                                 *)

\* Whatever was judged good, and only that, may end well.
LEMMA DecisionStep ==
  ASSUME RunInv,
         \/ \E fits, able \in BOOLEAN : Gate(fits, able)
         \/ \E outcome \in {"prepare failed", "upgrade failed", "opened"} : OpenDraft(outcome)
         \/ Complete
  PROVE  RunInv'
<1>1. RunTypeOK /\ Unsettled /\ ResultIsRecent /\ ChangesAreRecent /\ RuntimeStaysRuntime /\ RunPromises
  BY DEF RunInv
<1>2. /\ phase \in Judged /\ phase' \in {"publish", "summary"}
      /\ UNCHANGED <<job, fallbackIndex, pendingAttempts, attempt, currentAgent, workspace,
                     resultFile, patchFile, behind, lastResult, failedChecks, summary>>
  BY DEF Gate, OpenDraft, Complete, EndAs, planVars, fileVars, checkVars, Judged
<1>3. /\ decided = "none" /\ released = "none"
      /\ Succeeds(lastResult.status) /\ failedChecks = {} /\ lastResult.by \in MayHaveActed
  BY <1>1, <1>2 DEF Unsettled, ResultIsRecent, InAttempt, Judged
<1>4. /\ decided' \in {"none", "blocked", "ready_for_promotion", "promoted", "completed"}
      /\ released' \in {"none", "branch", "draft_pr"}
      /\ phase' = "publish" =>
           phase = "gate" /\ decided' = "none" /\ released' = "none" /\ patchFile[1] # {}
      /\ decided' \in {"ready_for_promotion", "promoted"} \/ released' # "none" =>
           phase \in {"gate", "publish"} /\ patchFile[1] # {}
  BY <1>1, <1>3 DEF Gate, OpenDraft, Complete, EndAs, ChangesAreRecent
<1>5. phase \in {"gate", "publish"} =>
        /\ ~IsRuntime(currentAgent)
        /\ Len(patchFile) = 1 /\ \A c \in patchFile[1] : Own(c) /\ c[2] = "inside"
  BY <1>1 DEF ChangesAreRecent, Judged
<1>6. MayHaveActed' = MayHaveActed
  BY <1>2 DEF MayHaveActed
<1>7. RunTypeOK'
  BY <1>1, <1>2, <1>4 DEF RunTypeOK
<1>8. Unsettled' /\ ResultIsRecent'
  BY <1>1, <1>2, <1>3, <1>4, <1>6 DEF Unsettled, ResultIsRecent, InAttempt, Judged
<1>9. ChangesAreRecent'
  BY <1>2, <1>4, <1>5, <1>6 DEF ChangesAreRecent, Own, Judged, IsRuntime
<1>10. RuntimeStaysRuntime'
  BY <1>1, <1>2 DEF RuntimeStaysRuntime, IsRuntime
<1>11. SuccessIsReported'
  BY <1>2, <1>3, <1>6 DEF SuccessIsReported
<1>12. PatchIsOwn'
  BY <1>2, <1>4, <1>5, <1>6 DEF PatchIsOwn, Own
<1>13. RuntimeRunsPublishNothing'
  BY <1>1, <1>2, <1>4, <1>5 DEF RuntimeRunsPublishNothing, RuntimeStaysRuntime, IsRuntime
<1> QED BY <1>7, <1>8, <1>9, <1>10, <1>11, <1>12, <1>13 DEF RunInv, RunPromises

LEMMA CrashStep == ASSUME RunInv, Crash PROVE RunInv'
<1>1. RunTypeOK /\ Unsettled /\ ResultIsRecent /\ ChangesAreRecent /\ RuntimeStaysRuntime /\ RunPromises
  BY DEF RunInv
<1>2. /\ phase' = "summary" /\ decided' = "failed" /\ lastResult' = ContractError
      /\ behind' = Alive
      /\ phase \notin {"summary", "summarised"} \/ released # "none"
      /\ UNCHANGED <<job, fallbackIndex, pendingAttempts, attempt, currentAgent, workspace,
                     resultFile, patchFile, failedChecks, released, summary>>
  BY DEF Crash, EndAs, planVars, fileVars
<1>3. behind \subseteq Alive /\ Alive \subseteq 1 .. attempt
  BY <1>1, AliveMayAct DEF Alive
<1>4. RunTypeOK'
  BY <1>1, <1>2, <1>3 DEF RunTypeOK, ContractError, Result, Statuses, Actions
<1>5. Unsettled' /\ ResultIsRecent' /\ ChangesAreRecent'
  BY <1>2 DEF Unsettled, ResultIsRecent, ChangesAreRecent, InAttempt, Judged,
              ContractError, Result, Succeeds
<1>6. SuccessIsReported'
  BY <1>2 DEF SuccessIsReported, Good
<1>7. PatchIsOwn' /\ RuntimeRunsPublishNothing' /\ RuntimeStaysRuntime'
  BY <1>1, <1>2, <1>3 DEF RunPromises, PatchIsOwn, RuntimeRunsPublishNothing, RuntimeStaysRuntime,
                          IsRuntime, MayHaveActed
<1> QED BY <1>4, <1>5, <1>6, <1>7 DEF RunInv, RunPromises

LEMMA SummariseStep == ASSUME RunInv, Summarise PROVE RunInv'
<1>1. RunTypeOK /\ Unsettled /\ ResultIsRecent /\ ChangesAreRecent /\ RuntimeStaysRuntime /\ RunPromises
  BY DEF RunInv
<1>2. /\ phase' = "summarised" /\ workspace' \in {workspace, {}}
      /\ UNCHANGED <<job, fallbackIndex, pendingAttempts, attempt, currentAgent, resultFile,
                     patchFile, behind, lastResult, failedChecks, decided, released>>
  BY DEF Summarise, planVars, checkVars
<1>3. RunTypeOK'
  BY <1>1, <1>2 DEF RunTypeOK
<1>4. Unsettled' /\ ResultIsRecent' /\ ChangesAreRecent'
  BY <1>2 DEF Unsettled, ResultIsRecent, ChangesAreRecent, InAttempt, Judged
<1>5. RuntimeStaysRuntime' /\ RunPromises'
  BY <1>1, <1>2 DEF RuntimeStaysRuntime, IsRuntime, RunPromises, SuccessIsReported, PatchIsOwn,
                    RuntimeRunsPublishNothing, MayHaveActed
<1> QED BY <1>3, <1>4, <1>5 DEF RunInv

-----------------------------------------------------------------------------
LEMMA RunInvariantStep == RunInv /\ [RunNext]_runVars => RunInv'
<1> SUFFICES ASSUME RunInv, [RunNext]_runVars PROVE RunInv'
  OBVIOUS
<1>1. CASE RunStep
  BY <1>1, LoopStep, BeginStep, BuildStep, JudgeStep, DecisionStep, SummariseStep, AdapterEnds
     DEF RunStep
<1>2. CASE AdapterStep
  BY <1>2, WriteStep, ReportStep, AdapterEnds DEF AdapterStep
<1>3. CASE Crash
  BY <1>3, CrashStep
<1>4. CASE UNCHANGED runVars
  BY <1>4 DEF runVars, RunInv, RunTypeOK, Unsettled, ResultIsRecent, ChangesAreRecent, Own,
              RuntimeStaysRuntime, RunPromises, SuccessIsReported, PatchIsOwn,
              RuntimeRunsPublishNothing, MayHaveActed, IsRuntime
<1> QED BY <1>1, <1>2, <1>3, <1>4 DEF RunNext

LEMMA RunInvariant == RunSpec => []RunInv
<1>1. ASSUME RunInit PROVE RunInv
  <2>0. job \in Jobs /\ fallbackIndex = 0
    BY <1>1 DEF RunInit
  <2>a. Len(job.fallback) \in Nat
    BY <2>0, RunAssumption
  <2>1. job \in Jobs /\ fallbackIndex \in 0 .. Len(job.fallback)
    BY <2>0, <2>a
  <2>2. RunTypeOK
    BY <1>1, <2>1 DEF RunInit, RunTypeOK, NoFile, ContractError, Result, Statuses, Actions
  <2>3. Unsettled /\ ResultIsRecent /\ ChangesAreRecent /\ RuntimeStaysRuntime
    BY <1>1 DEF RunInit, Unsettled, ResultIsRecent, ChangesAreRecent, RuntimeStaysRuntime,
                InAttempt, Judged, ContractError, Result
  <2>4. RunPromises
    BY <1>1 DEF RunInit, RunPromises, SuccessIsReported, PatchIsOwn, RuntimeRunsPublishNothing, Good
  <2> QED BY <2>2, <2>3, <2>4 DEF RunInv
<1> QED BY <1>1, RunInvariantStep, PTL DEF RunSpec

-----------------------------------------------------------------------------
\* The run, its files and its decision keep their types.
THEOREM RunTypeCorrect == RunSpec => []RunTypeOK
<1>1. RunInv => RunTypeOK
  BY DEF RunInv
<1> QED BY <1>1, RunInvariant, PTL

\* A run that ends well was reported successful by the attempt it ends with,
\* or by a process an earlier one left behind, and passed every check.
THEOREM SuccessIsReportedHolds == RunSpec => []SuccessIsReported
<1>1. RunInv => SuccessIsReported
  BY DEF RunInv, RunPromises
<1> QED BY <1>1, RunInvariant, PTL

\* What is promoted or pushed was made in this attempt, or by a process left
\* behind, and lies inside the allowed paths.
THEOREM PatchIsOwnHolds == RunSpec => []PatchIsOwn
<1>1. RunInv => PatchIsOwn
  BY DEF RunInv, RunPromises
<1> QED BY <1>1, RunInvariant, PTL

\* No fallback plan makes a run that began with a runtime agent publish.
THEOREM RuntimeRunsPublishNothingHolds == RunSpec => []RuntimeRunsPublishNothing
<1>1. RunInv => RuntimeRunsPublishNothing
  BY DEF RunInv, RunPromises
<1> QED BY <1>1, RunInvariant, PTL

\* A run that violated its policy never begins another attempt.
THEOREM ViolationEndsRunHolds == RunSpec => ViolationEndsRun
<1>1. ASSUME RunInv, [RunNext]_runVars
      PROVE  [attempt' > attempt => lastResult.status # "policy_blocked"]_runVars
  <2>1. attempt \in Nat
    BY <1>1 DEF RunInv, RunTypeOK
  <2>2. CASE FailPreflight \/ StartAttempt
    BY <1>1, <2>2 DEF FailPreflight, StartAttempt, CountAttempt, RunInv, Unsettled
  <2>3. CASE ~(FailPreflight \/ StartAttempt) /\ RunNext
    <3>1. attempt' = attempt
      BY <2>3 DEF RunNext, RunStep, AdapterStep, GiveUp, TakeStep, BuildPatch, Validate, Gate,
                  OpenDraft, Complete, Summarise, Terminate, Write, Report, Exit, Crash, planVars
    <3> QED BY <2>1, <3>1
  <2> QED BY <1>1, <2>2, <2>3
<1> QED BY <1>1, RunInvariant, PTL DEF RunSpec, ViolationEndsRun

-----------------------------------------------------------------------------
(* The service: a run that a cancel call reported cancelled never shows as *)
(* completed, and max_agents is exceeded by no more than the creations     *)
(* that overlap, for any number of runs, requests and stops of the server. *)

\* Where a thread is before it ends, and a request that has set the flag.
Busy == Registered \union {"due", "begun", "rejecting", "entered", "launched"}
Asking == {"asked", "waiting", "forcing"}

\* The copies of records that threads and requests are about to save.
Copies ==
    /\ \A r \in Runs :
         /\ thread[r].at = "begun" => thread[r].holds = "RUNNING"
         /\ thread[r].at \in {"rejecting", "excusing"} => thread[r].holds = "FAILED"
         /\ thread[r].at = "previewing" => thread[r].holds \in Active
         /\ thread[r].at = "settling" => thread[r].holds \in Ended
    /\ \A c \in Cancellers :
         /\ cancelling[c].at = "read" => cancelling[c].holds \in Active
         /\ cancelling[c].at \in {"idle", "answered"} <=> cancelling[c].run = NoRun

\* A run without record has no thread and nobody cancelled it.
Unborn(r) == r \notin confirmed /\ \A c \in Cancellers : cancelling[c].run # r
Births ==
    /\ \A r \in Runs : thread[r].at = "none" <=> record[r] = "absent"
    /\ \A r \in Runs : thread[r].at = "none" => Unborn(r)
    /\ \A r \in creating : thread[r].at = "none"

\* While a thread is busy, whoever made its run look cancelled has also set the
\* flag, and only the end of the thread clears it.
LooksCancelled(r) ==
    \/ record[r] = "CANCELLED"
    \/ r \in confirmed
    \/ thread[r].at = "settling" /\ thread[r].holds = "CANCELLED"
    \/ \E c \in Cancellers : cancelling[c].run = r /\ cancelling[c].at \in Asking
Flagged == \A r \in Runs : thread[r].at \in Busy /\ LooksCancelled(r) => r \in wanted

\* A thread about to complete its run met no flag: nobody has forced an end on
\* the record or is about to.
Doomed(r) ==
    \/ record[r] = "CANCELLED"
    \/ r \in confirmed
    \/ \E c \in Cancellers : cancelling[c].run = r /\ cancelling[c].at = "forcing"
Undecided ==
    \A r \in Runs : Doomed(r) => ~(thread[r].at = "settling" /\ thread[r].holds = "COMPLETED")

AgentsInv ==
    AgentsTypeOK /\ Copies /\ Births /\ Flagged /\ Undecided /\ CancelledNeverCompletes

-----------------------------------------------------------------------------

\* Also when runs are over already, cancels were answered, or the server stopped.
LEMMA InitEstablishes ==
  ASSUME AgentsAssumption, NEW past, NEW answered, NEW stops \in 0 .. MaxStops,
         AgentsInitAfter(past, answered, stops)
  PROVE  AgentsInv
  BY DEF AgentsAssumption, AgentsInitAfter, AgentsInv, AgentsTypeOK, Copies, Births,
         Unborn, Flagged, LooksCancelled, Undecided, Doomed, CancelledNeverCompletes, Busy, Asking,
         Registered, Active, Ended, Nothing, NoThread, Over, NoCall, AnsweredCall

LEMMA ThreadKeeps ==
  ASSUME AgentsAssumption, AgentsInv, NEW r \in Runs, ThreadStep(r) \/ ProcessExits(r) \/ Overrun(r)
  PROVE  AgentsInv'
<1> USE DEF AgentsAssumption, AgentsInv, AgentsTypeOK, Copies, Births, Unborn, Flagged, LooksCancelled,
            Undecided, Doomed, CancelledNeverCompletes, Busy, Asking, Registered, Active, Ended, Nothing,
            ThreadGoes, OnlyThreads
<1>1. CASE Prepare(r)
  <2>1. CASE ThreadGoes(r, "over", Nothing)
    BY <1>1, <2>1 DEF Prepare
  <2>2. CASE ThreadGoes(r, "begun", "RUNNING")
    BY <1>1, <2>2 DEF Prepare
  <2>3. CASE ThreadGoes(r, "rejecting", "FAILED")
    BY <1>1, <2>3 DEF Prepare
  <2>4. QED
    BY <1>1, <2>1, <2>2, <2>3 DEF Prepare
<1>2. CASE RejectRun(r)
  BY <1>2 DEF RejectRun
<1>3. CASE SaveRunning(r)
  BY <1>3 DEF SaveRunning
<1>4. CASE Raise(r)
  BY <1>4 DEF Raise
<1>5. CASE Launch(r)
  <2>1. CASE ThreadGoes(r, "launched", Nothing)
    BY <1>5, <2>1 DEF Launch
  <2>2. CASE ThreadGoes(r, "excusing", "FAILED")
    BY <1>5, <2>2 DEF Launch
  <2>3. QED
    BY <1>5, <2>1, <2>2 DEF Launch
<1>6. CASE Register(r)
  BY <1>6 DEF Register
<1>7. CASE ReadForPreview(r)
  BY <1>7 DEF ReadForPreview
<1>8. CASE SavePreview(r)
  BY <1>8 DEF SavePreview
<1>9. CASE Reap(r)
  <2>1. CASE ThreadGoes(r, "reaped", Nothing)
    BY <1>9, <2>1 DEF Reap
  <2>2. CASE ThreadGoes(r, "settling", "FAILED")
    BY <1>9, <2>2 DEF Reap
  <2>3. QED
    BY <1>9, <2>1, <2>2 DEF Reap
<1>10. CASE Conclude(r)
  <2>1. CASE WasCancelled(r) /\ ThreadGoes(r, "settling", "CANCELLED")
    BY <1>10, <2>1 DEF Conclude, WasCancelled
  <2>2. CASE ~WasCancelled(r) /\ ThreadGoes(r, "settling", "COMPLETED")
    BY <1>10, <2>2 DEF Conclude, WasCancelled
  <2>3. CASE ~WasCancelled(r) /\ ThreadGoes(r, "settling", "FAILED")
    BY <1>10, <2>3 DEF Conclude, WasCancelled
  <2>4. QED
    BY <1>10, <2>1, <2>2, <2>3 DEF Conclude
<1>11. CASE Settle(r)
  BY <1>11 DEF Settle
<1>12. CASE Fail(r)
  BY <1>12 DEF Fail
<1>13. CASE Excuse(r)
  BY <1>13 DEF Excuse
<1>14. CASE Finish(r)
  BY <1>14 DEF Finish
<1>15. CASE ProcessExits(r)
  BY <1>15 DEF ProcessExits, Found
<1>16. CASE Overrun(r)
  BY <1>16 DEF Overrun, Found
<1>17. QED
  BY <1>1, <1>2, <1>3, <1>4, <1>5, <1>6, <1>7, <1>8, <1>9, <1>10, <1>11, <1>12, <1>13, <1>14, <1>15, <1>16 DEF ThreadStep

LEMMA CancelKeeps ==
  ASSUME AgentsAssumption, AgentsInv, NEW c \in Cancellers,
         CancelStep(c) \/ \E r \in Runs : ReadToCancel(c, r)
  PROVE  AgentsInv'
<1> USE DEF AgentsAssumption, AgentsInv, AgentsTypeOK, Copies, Births, Unborn, Flagged, LooksCancelled,
            Undecided, Doomed, CancelledNeverCompletes, Busy, Asking, Registered, Active, Ended, Nothing,
            OnlyCancelling
<1>1. ASSUME NEW r \in Runs, ReadToCancel(c, r)
      PROVE  AgentsInv'
  <2>1. UNCHANGED <<record, thread, wanted, creating, serverStops>>
    BY <1>1 DEF ReadToCancel
  <2>2. CASE Answers(c, r, record[r]) /\ record[r] \in Ended
    <3>1. cancelling' = [cancelling EXCEPT ![c] = AnsweredCall]
      BY <2>2 DEF Answers
    <3>2. \/ confirmed' = confirmed
          \/ confirmed' = confirmed \union {r} /\ record[r] = "CANCELLED"
      BY <2>2 DEF Answers
    <3>3. thread[r].at # "none"
      BY <2>2, record[r] # "absent"
    <3>4. adrift' = adrift \ {r}
      BY <2>2 DEF Answers
    <3>5. QED
      BY <2>1, <3>1, <3>2, <3>3, <3>4 DEF AnsweredCall
  <2>3. CASE /\ record[r] \in Active
             /\ cancelling' = [cancelling EXCEPT ![c] = [at |-> "read", run |-> r, holds |-> record[r]]]
             /\ UNCHANGED <<confirmed, adrift>>
    <3>1. r # NoRun /\ thread[r].at # "none"
      BY <2>3
    <3>2. QED
      BY <2>1, <2>3, <3>1
  <2>4. QED
    BY <1>1, <2>2, <2>3 DEF ReadToCancel
<1>2. CASE SaveReason(c)
  BY <1>2 DEF SaveReason, CallGoes
<1>3. CASE AskToCancel(c)
  BY <1>3 DEF AskToCancel, CallGoes
<1>4. CASE Signal(c)
  <2>1. PICK r \in Runs : r = cancelling[c].run
    BY <1>4 DEF Signal
  <2>2. /\ cancelling[c].at = "asked"
        /\ cancelling' = [cancelling EXCEPT
             ![c] = [at |-> "waiting", run |-> r, holds |-> cancelling[c].holds]]
        /\ UNCHANGED <<record, wanted, confirmed, adrift, creating, serverStops>>
    BY <1>4, <2>1 DEF Signal, CallGoes
  <2>3. CASE thread' = Found(r, "gone")
    BY <2>1, <2>2, <2>3 DEF Found
  <2>4. CASE UNCHANGED thread
    BY <2>1, <2>2, <2>4
  <2>5. QED
    BY <1>4, <2>1, <2>3, <2>4 DEF Signal
<1>5. CASE SeesEnd(c)
  BY <1>5 DEF SeesEnd, Answers, AnsweredCall
<1>6. CASE Deadline(c)
  BY <1>6 DEF Deadline, CallGoes
<1>7. CASE ForceEnd(c)
  BY <1>7 DEF ForceEnd, Answers, AnsweredCall
<1>8. QED
  BY <1>1, <1>2, <1>3, <1>4, <1>5, <1>6, <1>7 DEF CancelStep

LEMMA CreationKeeps ==
  ASSUME AgentsAssumption, AgentsInv, NEW r \in Runs, Admit(r) \/ Enrol(r)
  PROVE  AgentsInv'
<1> USE DEF AgentsAssumption, AgentsInv, AgentsTypeOK, Copies, Births, Unborn, Flagged, LooksCancelled,
            Undecided, Doomed, CancelledNeverCompletes, Busy, Asking, Registered, Active, Ended, Nothing
<1>1. CASE Admit(r)
  BY <1>1 DEF Admit
<1>2. CASE Enrol(r)
  <2>1. CASE thread' = [thread EXCEPT ![r] = Due]
    BY <1>2, <2>1 DEF Enrol, Due
  <2>2. CASE thread' = [thread EXCEPT ![r] = Over]
    BY <1>2, <2>2 DEF Enrol, Over
  <2>3. QED
    BY <1>2, <2>1, <2>2 DEF Enrol
<1>3. QED
  BY <1>1, <1>2

LEMMA StopKeeps ==
  ASSUME AgentsAssumption, AgentsInv, StopServer
  PROVE  AgentsInv'
  BY DEF StopServer, AgentsAssumption, AgentsInv, AgentsTypeOK, Copies, Births, Unborn, Flagged,
         LooksCancelled, Undecided, Doomed, CancelledNeverCompletes, Busy, Asking, Registered, Active,
         Ended, Nothing, NoThread, Over, AnsweredCall

LEMMA NextKeeps ==
  ASSUME AgentsAssumption, AgentsInv, [AgentsNext]_agentVars
  PROVE  AgentsInv'
<1>1. CASE UNCHANGED agentVars
  BY <1>1 DEF agentVars, AgentsInv, AgentsTypeOK, Copies, Births, Unborn, Flagged, LooksCancelled,
              Undecided, Doomed, CancelledNeverCompletes
<1>2. CASE AgentsNext
  BY <1>2, ThreadKeeps, CancelKeeps, CreationKeeps, StopKeeps DEF AgentsNext
<1>3. QED
  BY <1>1, <1>2

-----------------------------------------------------------------------------

\* A run that a cancel call reported cancelled never shows as completed: the
\* flag cancel sets outlives the call, and the thread that would complete the
\* run looks at it when its process is gone.
THEOREM CancelledNeverCompletesHolds ==
  ASSUME AgentsAssumption
  PROVE  AgentsSpec => []CancelledNeverCompletes
<1>1. AgentsInit => AgentsInv
  BY InitEstablishes DEF AgentsInit, AgentsAssumption
<1>2. AgentsInv /\ [AgentsNext]_agentVars => AgentsInv'
  BY NextKeeps
<1>3. AgentsInv => CancelledNeverCompletes
  BY DEF AgentsInv
<1>4. QED
  BY <1>1, <1>2, <1>3, PTL DEF AgentsSpec

\* Records, threads and cancel calls keep their types.
THEOREM AgentsTypeCorrect ==
  ASSUME AgentsAssumption
  PROVE  AgentsSpec => []AgentsTypeOK
<1>1. AgentsInit => AgentsInv
  BY InitEstablishes DEF AgentsInit, AgentsAssumption
<1>2. AgentsInv /\ [AgentsNext]_agentVars => AgentsInv'
  BY NextKeeps
<1>3. AgentsInv => AgentsTypeOK
  BY DEF AgentsInv
<1>4. QED
  BY <1>1, <1>2, <1>3, PTL DEF AgentsSpec

-----------------------------------------------------------------------------
(* The limit on active runs. *)

CountedRuns == ActiveRuns \ GivenUp

\* A thread that is about to save an active record replaces one, or its run was
\* cancelled.
Held ==
    \A r \in Runs :
        thread[r].at \in {"begun", "previewing"} => record[r] \in Active \/ r \in confirmed

Room ==
    /\ IsFiniteSet(creating) /\ Cardinality(creating) <= Creators
    /\ Cardinality(CountedRuns \union creating) < MaxAgents + Creators

LimitInv == AgentsInv /\ Held /\ Room

\* Only creations make room be taken.
NoneAdded == creating' \subseteq creating /\ CountedRuns' \subseteq CountedRuns

LEMMA ThreadAddsNone ==
  ASSUME AgentsAssumption, AgentsInv, Held, NEW r \in Runs,
         ThreadStep(r) \/ ProcessExits(r) \/ Overrun(r)
  PROVE  Held' /\ NoneAdded
<1> USE DEF AgentsInv, AgentsTypeOK, Copies, Held, NoneAdded, CountedRuns, ActiveRuns, GivenUp, Registered,
            Active, Ended, Nothing, ThreadGoes, OnlyThreads
<1>1. CASE Prepare(r)
  BY <1>1 DEF Prepare
<1>2. CASE RejectRun(r)
  BY <1>2 DEF RejectRun
<1>3. CASE SaveRunning(r)
  BY <1>3 DEF SaveRunning
<1>4. CASE Raise(r)
  BY <1>4 DEF Raise
<1>5. CASE Launch(r)
  BY <1>5 DEF Launch
<1>6. CASE Register(r)
  BY <1>6 DEF Register
<1>7. CASE ReadForPreview(r)
  BY <1>7 DEF ReadForPreview
<1>8. CASE SavePreview(r)
  BY <1>8 DEF SavePreview
<1>9. CASE Reap(r)
  BY <1>9 DEF Reap
<1>10. CASE Conclude(r)
  BY <1>10 DEF Conclude, WasCancelled
<1>11. CASE Settle(r)
  BY <1>11 DEF Settle
<1>12. CASE Fail(r)
  BY <1>12 DEF Fail
<1>13. CASE Excuse(r)
  BY <1>13 DEF Excuse
<1>14. CASE Finish(r)
  BY <1>14 DEF Finish
<1>15. CASE ProcessExits(r)
  BY <1>15 DEF ProcessExits, Found
<1>16. CASE Overrun(r)
  BY <1>16 DEF Overrun, Found
<1>17. QED
  BY <1>1, <1>2, <1>3, <1>4, <1>5, <1>6, <1>7, <1>8, <1>9, <1>10, <1>11, <1>12, <1>13, <1>14, <1>15, <1>16 DEF ThreadStep

LEMMA CancelAddsNone ==
  ASSUME AgentsAssumption, AgentsInv, Held, NEW c \in Cancellers,
         CancelStep(c) \/ \E r \in Runs : ReadToCancel(c, r)
  PROVE  Held' /\ NoneAdded
<1> USE DEF AgentsAssumption, AgentsInv, AgentsTypeOK, Copies, Held, NoneAdded, CountedRuns, ActiveRuns,
            GivenUp, Registered, Active, Ended, Nothing, OnlyCancelling
<1>1. ASSUME NEW r \in Runs, ReadToCancel(c, r)
      PROVE  Held' /\ NoneAdded
  BY <1>1 DEF ReadToCancel, Answers, AnsweredCall
<1>2. CASE SaveReason(c)
  BY <1>2 DEF SaveReason, CallGoes
<1>3. CASE AskToCancel(c)
  BY <1>3 DEF AskToCancel, CallGoes
<1>4. CASE Signal(c)
  BY <1>4 DEF Signal, CallGoes, Found
<1>5. CASE SeesEnd(c)
  BY <1>5 DEF SeesEnd, Answers, AnsweredCall
<1>6. CASE Deadline(c)
  BY <1>6 DEF Deadline, CallGoes
<1>7. CASE ForceEnd(c)
  BY <1>7 DEF ForceEnd, Answers, AnsweredCall
<1>8. QED
  BY <1>1, <1>2, <1>3, <1>4, <1>5, <1>6, <1>7 DEF CancelStep

LEMMA RoomShrinks ==
  ASSUME AgentsAssumption, IsFiniteSet(Runs), AgentsInv, Room, NoneAdded
  PROVE  Room'
<1>1. CountedRuns \union creating \subseteq Runs
  BY DEF AgentsInv, AgentsTypeOK, CountedRuns, ActiveRuns
<1>2. IsFiniteSet(CountedRuns \union creating)
  BY <1>1, FS_Subset
<1>3. /\ IsFiniteSet(creating') /\ Cardinality(creating') <= Cardinality(creating)
      /\ Cardinality(CountedRuns' \union creating') <= Cardinality(CountedRuns \union creating)
  BY <1>2, FS_Subset, CountedRuns' \union creating' \subseteq CountedRuns \union creating
     DEF NoneAdded, Room
<1>4. /\ IsFiniteSet(CountedRuns' \union creating')
      /\ Cardinality(creating) \in Nat /\ Cardinality(creating') \in Nat
      /\ Cardinality(CountedRuns \union creating) \in Nat
      /\ Cardinality(CountedRuns' \union creating') \in Nat
  BY <1>2, <1>3, FS_Subset, FS_CardinalityType, CountedRuns' \union creating' \subseteq CountedRuns \union creating
     DEF NoneAdded, Room
<1>5. QED
  BY <1>3, <1>4 DEF Room, AgentsAssumption

LEMMA AdmitKeepsRoom ==
  ASSUME AgentsAssumption, IsFiniteSet(Runs), AgentsInv, Held, Room, NEW r \in Runs, Admit(r)
  PROVE  Held' /\ Room'
<1>1. Held'
  BY DEF Held, Admit
<1>2. CountedRuns' = CountedRuns /\ creating' = creating \union {r} /\ r \notin creating
  BY DEF CountedRuns, ActiveRuns, GivenUp, Admit
<1>3. IsFiniteSet(creating') /\ Cardinality(creating') = Cardinality(creating) + 1
  BY <1>2, FS_AddElement DEF Room
<1>4. Cardinality(creating) \in Nat /\ Cardinality(creating') \in Nat
  BY <1>3, FS_CardinalityType DEF Room
<1>5. Cardinality(creating') <= Creators
  BY <1>3, <1>4 DEF Admit, AgentsAssumption
<1>6. /\ IsFiniteSet(ActiveRuns) /\ IsFiniteSet(CountedRuns)
      /\ Cardinality(CountedRuns) <= Cardinality(ActiveRuns)
  BY FS_Subset, ActiveRuns \subseteq Runs, CountedRuns \subseteq ActiveRuns DEF ActiveRuns, CountedRuns
<1>7. Cardinality(ActiveRuns) < MaxAgents
  BY DEF Admit, HasRoom
<1>8. Cardinality(CountedRuns \union creating') <= Cardinality(CountedRuns) + Cardinality(creating')
  <2>1. /\ IsFiniteSet(CountedRuns \union creating') /\ IsFiniteSet(CountedRuns \cap creating')
        /\ Cardinality(CountedRuns \union creating')
             = Cardinality(CountedRuns) + Cardinality(creating') - Cardinality(CountedRuns \cap creating')
    BY <1>3, <1>6, FS_Union, FS_Intersection
  <2>2. /\ Cardinality(CountedRuns) \in Nat /\ Cardinality(CountedRuns \cap creating') \in Nat
    BY <2>1, <1>6, FS_CardinalityType
  <2>3. QED
    BY <2>1, <2>2, <1>4
<1>9. /\ Cardinality(CountedRuns) \in Nat /\ Cardinality(ActiveRuns) \in Nat
      /\ Cardinality(CountedRuns \union creating') \in Nat
  BY <1>3, <1>6, FS_CardinalityType, FS_Union
<1>10. QED
  BY <1>1, <1>2, <1>3, <1>4, <1>5, <1>6, <1>7, <1>8, <1>9 DEF Room, AgentsAssumption

LEMMA EnrolKeepsRoom ==
  ASSUME AgentsAssumption, IsFiniteSet(Runs), AgentsInv, Held, Room, NEW r \in Runs, Enrol(r)
  PROVE  Held' /\ Room'
<1>1. Held'
  BY DEF Held, Enrol, AgentsInv, AgentsTypeOK, Due, Over
<1>2. creating' \subseteq creating
  BY DEF Enrol
<1>3. CountedRuns' \subseteq CountedRuns \union {r} /\ r \in creating
  BY DEF CountedRuns, ActiveRuns, GivenUp, Enrol, AgentsInv, AgentsTypeOK
<1>4. CountedRuns' \union creating' \subseteq CountedRuns \union creating
  BY <1>2, <1>3
<1>5. CountedRuns \union creating \subseteq Runs
  BY DEF AgentsInv, AgentsTypeOK, CountedRuns, ActiveRuns
<1>6. IsFiniteSet(CountedRuns \union creating)
  BY <1>5, FS_Subset
<1>7. /\ IsFiniteSet(creating') /\ Cardinality(creating') <= Cardinality(creating)
      /\ IsFiniteSet(CountedRuns' \union creating')
      /\ Cardinality(CountedRuns' \union creating') <= Cardinality(CountedRuns \union creating)
  BY <1>2, <1>4, <1>6, FS_Subset DEF Room
<1>8. /\ Cardinality(creating) \in Nat /\ Cardinality(creating') \in Nat
      /\ Cardinality(CountedRuns \union creating) \in Nat
      /\ Cardinality(CountedRuns' \union creating') \in Nat
  BY <1>6, <1>7, FS_CardinalityType DEF Room
<1>9. QED
  BY <1>1, <1>7, <1>8 DEF Room, AgentsAssumption

LEMMA StopAddsNone ==
  ASSUME AgentsInv, Held, StopServer
  PROVE  Held' /\ NoneAdded
  BY DEF StopServer, AgentsInv, AgentsTypeOK, Held, NoneAdded, CountedRuns, ActiveRuns, GivenUp, NoThread,
         Over, Active, Copies

LEMMA LimitIsKept ==
  ASSUME AgentsAssumption, IsFiniteSet(Runs), LimitInv, [AgentsNext]_agentVars
  PROVE  LimitInv'
<1>1. AgentsInv'
  BY NextKeeps DEF LimitInv
<1>2. CASE UNCHANGED agentVars
  BY <1>1, <1>2 DEF LimitInv, agentVars, Held, Room, CountedRuns, ActiveRuns, GivenUp
<1>3. ASSUME NEW r \in Runs, Admit(r) \/ Enrol(r)
      PROVE  LimitInv'
  BY <1>1, <1>3, AdmitKeepsRoom, EnrolKeepsRoom DEF LimitInv
<1>4. CASE Held' /\ NoneAdded
  BY <1>1, <1>4, RoomShrinks DEF LimitInv
<1>5. QED
  BY <1>2, <1>3, <1>4, ThreadAddsNone, CancelAddsNone, StopAddsNone DEF AgentsNext, LimitInv

\* The active runs that nobody gave up are never more than max_agents and the
\* creations that overlap, less one: create counts and saves in two steps.
THEOREM AgentsWithinLimitHolds ==
  ASSUME AgentsAssumption, IsFiniteSet(Runs)
  PROVE  AgentsSpec => []AgentsWithinLimit
<1>1. AgentsInit => LimitInv
  <2>1. SUFFICES ASSUME AgentsInit PROVE LimitInv
    OBVIOUS
  <2>2. AgentsInv
    BY <2>1, InitEstablishes DEF AgentsInit, AgentsAssumption
  <2>3. creating = {} /\ CountedRuns = {}
    BY <2>1 DEF AgentsInit, AgentsInitAfter, CountedRuns, ActiveRuns, Active
  <2>4. Cardinality({}) = 0 /\ IsFiniteSet({})
    BY FS_EmptySet
  <2>5. Held
    BY <2>1 DEF AgentsInit, AgentsInitAfter, Held, NoThread
  <2>6. QED
    BY <2>2, <2>3, <2>4, <2>5 DEF LimitInv, Room, AgentsAssumption
<1>2. LimitInv /\ [AgentsNext]_agentVars => LimitInv'
  BY LimitIsKept
<1>3. LimitInv => AgentsWithinLimit
  <2>1. SUFFICES ASSUME LimitInv PROVE AgentsWithinLimit
    OBVIOUS
  <2>2. CountedRuns \union creating \subseteq Runs
    BY <2>1 DEF LimitInv, AgentsInv, AgentsTypeOK, CountedRuns, ActiveRuns
  <2>3. /\ IsFiniteSet(CountedRuns \union creating) /\ IsFiniteSet(CountedRuns)
        /\ Cardinality(CountedRuns) <= Cardinality(CountedRuns \union creating)
    BY <2>2, FS_Subset, CountedRuns \subseteq CountedRuns \union creating
  <2>4. Cardinality(CountedRuns) \in Nat /\ Cardinality(CountedRuns \union creating) \in Nat
    BY <2>3, FS_CardinalityType
  <2>5. QED
    BY <2>1, <2>3, <2>4 DEF LimitInv, Room, AgentsWithinLimit, CountedRuns, AgentsAssumption
<1>4. QED
  BY <1>1, <1>2, <1>3, PTL DEF AgentsSpec

=============================================================================
