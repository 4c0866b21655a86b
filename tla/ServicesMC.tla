----------------------------- MODULE ServicesMC -----------------------------
(***************************************************************************)
(* The components that share nothing with each other, in one run: subject  *)
(* is the one that moves, the others stay as they began.  Of the approvals *)
(* one is asked for, since approvals do not interact.                      *)
(***************************************************************************)
EXTENDS StateMachineBus, ApprovalDecisions, AgentRun, PlanDispatch, TelegramIngress,
        ClaudeAgents, WorkerSchedule, SessionEvents, MeteredCalls, SchedulerRaces

VARIABLE subject

ASSUME ServicesAssumption == AgentsAssumption

vars == <<subject, busVars, decisionVars, runVars, planDispatchVars, ingressVars,
          agentVars, scheduleVars, eventVars, meteredVars, racesVars>>

Components == {"bus", "approvals", "run", "plan", "telegram", "schedules", "races", "events", "quota",
               "agents"}

Init ==
    /\ subject \in (Components \ {"approvals"}) \union Approvals
    /\ BusInit /\ DecisionInit /\ RunInit /\ PlanInit /\ IngressInit
    /\ ScheduleInit /\ RacesInit /\ EventsInit /\ MeteredInit
    \* two agent runs and one request to cancel, or one run, two requests and a stop
    /\ \/ AgentsInitAfter({}, {2}, 1)
       \/ subject = "agents" /\ AgentsInitAfter({CHOOSE r \in Runs : TRUE}, {}, 0)
    /\ subject # "run" => job = CHOOSE j \in Jobs : TRUE
    /\ subject # "telegram" => polling
    /\ subject # "events" => store = "repository"

Stays(c) ==
    CASE c = "bus" -> UNCHANGED busVars
      [] c = "approvals" -> UNCHANGED decisionVars
      [] c = "run" -> UNCHANGED runVars
      [] c = "plan" -> UNCHANGED planDispatchVars
      [] c = "telegram" -> UNCHANGED ingressVars
      [] c = "schedules" -> UNCHANGED scheduleVars
      [] c = "races" -> UNCHANGED racesVars
      [] c = "events" -> UNCHANGED eventVars
      [] c = "quota" -> UNCHANGED meteredVars
      [] c = "agents" -> UNCHANGED agentVars

Only(c, A) == A /\ UNCHANGED subject /\ \A other \in Components \ {c} : Stays(other)

BusMoves(A) == subject = "bus" /\ Only("bus", A)
DecisionMoves(A) == \E a \in Approvals :
    subject = a /\ Only("approvals", A) /\ \A b \in Approvals \ {a} : status'[b] = "absent"
RunMoves(A) == subject = "run" /\ Only("run", A)
TimetableMoves(A) == subject = "schedules" /\ Only("schedules", A)
AgentsMove(A) == subject = "agents" /\ Only("agents", A)

Next ==
    \/ BusMoves(BusNext) \/ DecisionMoves(DecisionNext) \/ RunMoves(RunNext)
    \/ TimetableMoves(ScheduleNext)
    \/ AgentsMove(AgentsNext)
    \/ subject = "races" /\ Only("races", RacesNext)
    \/ subject = "plan" /\ Only("plan", PlanNext)
    \/ subject = "telegram" /\ Only("telegram", IngressNext)
    \/ subject = "events" /\ Only("events", EventsNext)
    \/ subject = "quota" /\ Only("quota", MeteredNext)
    \* what has come to its end or its bound
    \/ /\ phase = "summarised" \/ clock = 2 \/ subject \in {"telegram", "events", "quota", "agents"}
       /\ UNCHANGED vars

\* The fairness of each component while it moves: BusFairness, FairRunSpec,
\* ScheduleFairness, AgentsFairness.
Spec ==
    /\ Init /\ [][Next]_vars
    /\ \A c \in Consumers : WF_busVars(BusMoves(AgentStep(c)))
    /\ WF_runVars(RunMoves(RunStep))
    /\ \A i \in Calls : WF_scheduleVars(TimetableMoves(Proceed(i)))
    /\ WF_scheduleVars(TimetableMoves(Start))
    /\ \A s \in Schedules :
         /\ WF_scheduleVars(TimetableMoves(Misfire(s)))
         /\ SF_scheduleVars(TimetableMoves(\E i \in Calls : Fire(i, s)))
    /\ WF_agentVars(AgentsMove(GoesOn)) /\ WF_agentVars(AgentsMove(TimePasses))

-----------------------------------------------------------------------------
\* Every component keeps its types while it moves: what each calls its TypeOK.
ServicesTypeOK ==
    CASE subject = "bus" -> BusTypeOK
      [] subject = "run" -> RunTypeOK
      [] subject = "plan" -> PlanTypeOK
      [] subject = "telegram" -> IngressTypeOK
      [] subject = "schedules" -> ScheduleTypeOK
      [] subject = "races" -> RacesTypeOK
      [] subject = "events" -> EventsTypeOK
      [] subject = "quota" -> MeteredTypeOK
      [] subject = "agents" -> AgentsTypeOK
      [] OTHER -> ApprovalsTypeOK

OneSession == [a \in Appends |-> "s"]
TwoWithOneKey == [a \in Appends |-> IF a = 1 THEN "" ELSE "k"]

OneOfEach ==
    [a \in Approvals |-> CASE a = "a1" -> "hermes" [] a = "a2" -> "github" [] OTHER -> "plain"]

FallbackStep(action, to) == [action |-> action, agent_id |-> to, max_attempts |-> 1]
\* A run that is retried, one that falls back on a runtime agent, one that
\* begins with one, one without approval, one whose patch needs a human.
RunJob(by, fallback, mode, approved, human) ==
    [agent |-> by, fallback |-> fallback, mode |-> mode, wantsPR |-> TRUE,
     approved |-> approved, human |-> human]
FiveJobs == {
    RunJob("fragile", <<FallbackStep("retry", "")>>, "patch_only", TRUE, FALSE),
    RunJob("patcher", <<FallbackStep("fallback_agent", "reader"), FallbackStep("human_review", "")>>,
           "patch_only", TRUE, FALSE),
    RunJob("reader", <<FallbackStep("fallback_agent", "patcher"), FallbackStep("reject", "")>>,
           "patch_only", TRUE, FALSE),
    RunJob("patcher", <<>>, "patch_only", FALSE, FALSE),
    RunJob("patcher", <<>>, "runtime_only", TRUE, TRUE)}
TwoReports == {<<"succeeded", "promote">>, <<"failed", "human_review">>}

=============================================================================
