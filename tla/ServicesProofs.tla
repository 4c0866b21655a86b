--------------------------- MODULE ServicesProofs ---------------------------
(***************************************************************************)
(* Proofs about ServicesMC: the components that share nothing with each    *)
(* other, side by side.  A step of the whole is a step of one of them and  *)
(* none of the others, so what the specification of each promises is kept  *)
(* by the whole.                                                           *)
(***************************************************************************)
EXTENDS ServicesMC, AgentProofs, ServiceProofs, HandoverProofs

\* Each component takes a step of its own or none.
EachSteps ==
    /\ [BusNext]_busVars /\ [DecisionNext]_decisionVars /\ [RunNext]_runVars
    /\ [PlanNext]_planDispatchVars /\ [IngressNext]_ingressVars
    /\ [ScheduleNext]_scheduleVars /\ [RacesNext]_racesVars
    /\ [EventsNext]_eventVars /\ [MeteredNext]_meteredVars /\ [AgentsNext]_agentVars

OthersStay(c) == \A other \in Components \ {c} : Stays(other)

LEMMA Others ==
  ASSUME NEW c, OthersStay(c)
  PROVE  /\ c # "bus" => UNCHANGED busVars
         /\ c # "approvals" => UNCHANGED decisionVars
         /\ c # "run" => UNCHANGED runVars
         /\ c # "plan" => UNCHANGED planDispatchVars
         /\ c # "telegram" => UNCHANGED ingressVars
         /\ c # "schedules" => UNCHANGED scheduleVars
         /\ c # "races" => UNCHANGED racesVars
         /\ c # "events" => UNCHANGED eventVars
         /\ c # "quota" => UNCHANGED meteredVars
         /\ c # "agents" => UNCHANGED agentVars
<1>1. \A d : d \in Components /\ c # d => Stays(d)
  BY DEF OthersStay
<1>2. /\ Stays("bus") => UNCHANGED busVars
      /\ Stays("approvals") => UNCHANGED decisionVars
      /\ Stays("run") => UNCHANGED runVars
      /\ Stays("plan") => UNCHANGED planDispatchVars
      /\ Stays("telegram") => UNCHANGED ingressVars
      /\ Stays("schedules") => UNCHANGED scheduleVars
      /\ Stays("races") => UNCHANGED racesVars
      /\ Stays("events") => UNCHANGED eventVars
      /\ Stays("quota") => UNCHANGED meteredVars
      /\ Stays("agents") => UNCHANGED agentVars
  BY DEF Stays
<1>3. {"bus", "approvals", "run", "plan", "telegram", "schedules", "races", "events", "quota",
       "agents"} \subseteq Components
  BY DEF Components
<1> QED BY <1>1, <1>2, <1>3

LEMMA ServicesStep == [Next]_vars => EachSteps
<1> SUFFICES ASSUME [Next]_vars PROVE EachSteps
  OBVIOUS
<1>1. CASE BusMoves(BusNext)
  <2>1. BusNext /\ OthersStay("bus")
    BY <1>1 DEF BusMoves, Only, OthersStay
  <2> QED BY <2>1, Others DEF EachSteps
<1>2. CASE DecisionMoves(DecisionNext)
  <2>1. DecisionNext /\ OthersStay("approvals")
    BY <1>2 DEF DecisionMoves, Only, OthersStay
  <2> QED BY <2>1, Others DEF EachSteps
<1>3. CASE RunMoves(RunNext)
  <2>1. RunNext /\ OthersStay("run")
    BY <1>3 DEF RunMoves, Only, OthersStay
  <2> QED BY <2>1, Others DEF EachSteps
<1>4. CASE TimetableMoves(ScheduleNext)
  <2>1. ScheduleNext /\ OthersStay("schedules")
    BY <1>4 DEF TimetableMoves, Only, OthersStay
  <2> QED BY <2>1, Others DEF EachSteps
<1>5. CASE AgentsMove(AgentsNext)
  <2>1. AgentsNext /\ OthersStay("agents")
    BY <1>5 DEF AgentsMove, Only, OthersStay
  <2> QED BY <2>1, Others DEF EachSteps
<1>6. CASE Only("races", RacesNext)
  <2>1. RacesNext /\ OthersStay("races")
    BY <1>6 DEF Only, OthersStay
  <2> QED BY <2>1, Others DEF EachSteps
<1>7. CASE Only("plan", PlanNext)
  <2>1. PlanNext /\ OthersStay("plan")
    BY <1>7 DEF Only, OthersStay
  <2> QED BY <2>1, Others DEF EachSteps
<1>8. CASE Only("telegram", IngressNext)
  <2>1. IngressNext /\ OthersStay("telegram")
    BY <1>8 DEF Only, OthersStay
  <2> QED BY <2>1, Others DEF EachSteps
<1>9. CASE Only("events", EventsNext)
  <2>1. EventsNext /\ OthersStay("events")
    BY <1>9 DEF Only, OthersStay
  <2> QED BY <2>1, Others DEF EachSteps
<1>10. CASE Only("quota", MeteredNext)
  <2>1. MeteredNext /\ OthersStay("quota")
    BY <1>10 DEF Only, OthersStay
  <2> QED BY <2>1, Others DEF EachSteps
<1>11. CASE UNCHANGED vars
  BY <1>11 DEF vars, EachSteps
<1> QED BY <1>1, <1>2, <1>3, <1>4, <1>5, <1>6, <1>7, <1>8, <1>9, <1>10, <1>11 DEF Next

\* The components as they began, but for the agent runs of the past.
LEMMA ServicesInitially ==
  ASSUME Init
  PROVE  /\ BusInit /\ DecisionInit /\ RunInit /\ PlanInit /\ IngressInit
         /\ ScheduleInit /\ RacesInit /\ EventsInit /\ MeteredInit
  BY DEF Init

\* In ServicesMC every component keeps its own specification: what is proved of
\* a component alone holds while it is checked beside the others.
THEOREM ServicesKeepTheirSpecs ==
  Spec => /\ BusSpec /\ DecisionSpec /\ RunSpec /\ PlanSpec /\ IngressSpec
          /\ ScheduleSpec /\ RacesSpec /\ EventsSpec /\ MeteredSpec
<1>1. Init => /\ BusInit /\ DecisionInit /\ RunInit /\ PlanInit /\ IngressInit
              /\ ScheduleInit /\ RacesInit /\ EventsInit /\ MeteredInit
  BY ServicesInitially
<1>2. [Next]_vars =>
        /\ [BusNext]_busVars /\ [DecisionNext]_decisionVars /\ [RunNext]_runVars
        /\ [PlanNext]_planDispatchVars /\ [IngressNext]_ingressVars
        /\ [ScheduleNext]_scheduleVars /\ [RacesNext]_racesVars
        /\ [EventsNext]_eventVars /\ [MeteredNext]_meteredVars
  BY ServicesStep DEF EachSteps
<1> QED BY <1>1, <1>2, PTL DEF Spec, BusSpec, DecisionSpec, RunSpec, PlanSpec, IngressSpec,
                              ScheduleSpec, RacesSpec, EventsSpec, MeteredSpec

\* The agent runs begin after others, which changes nothing for them.
LEMMA ServicesAgents ==
  ASSUME MaxStops > 0
  PROVE  Spec => []AgentsInv
<1>a. AgentsAssumption /\ MaxStops \in Nat
  BY ServicesAssumption DEF AgentsAssumption
<1>1. ASSUME Init PROVE AgentsInv
  <2>1. CASE AgentsInitAfter({}, {2}, 1)
    <3>1. 1 \in 0 .. MaxStops
      BY <1>a
    <3> QED BY <1>a, <2>1, <3>1, InitEstablishes
  <2>2. CASE AgentsInitAfter({CHOOSE r \in Runs : TRUE}, {}, 0)
    <3>1. 0 \in 0 .. MaxStops
      BY <1>a
    <3> QED BY <1>a, <2>2, <3>1, InitEstablishes
  <2> QED BY <1>1, <2>1, <2>2 DEF Init
<1>2. AgentsInv /\ [Next]_vars => AgentsInv'
  <2>1. AgentsInv /\ [AgentsNext]_agentVars => AgentsInv'
    BY <1>a, NextKeeps
  <2> QED BY <2>1, ServicesStep DEF EachSteps
<1> QED BY <1>1, <1>2, PTL DEF Spec

\* ServicesTypeOK, for any number of tasks, approvals, appends, calls, servers
\* and schedules: each component keeps its types beside the others.
THEOREM ServicesTypeCorrect ==
  ASSUME IsFiniteSet(Appends), MaxStops > 0
  PROVE  Spec => []ServicesTypeOK
<1>1. Spec => []AgentsTypeOK
  <2>1. AgentsInv => AgentsTypeOK
    BY DEF AgentsInv
  <2> QED BY <2>1, ServicesAgents, PTL
<1>2. EventsSpec => []EventsTypeOK
  BY EventsTypeCorrect
<1>3. /\ BusTypeOK /\ RunTypeOK /\ PlanTypeOK /\ IngressTypeOK /\ ScheduleTypeOK
      /\ RacesTypeOK /\ EventsTypeOK /\ MeteredTypeOK /\ AgentsTypeOK /\ ApprovalsTypeOK
      => ServicesTypeOK
  BY DEF ServicesTypeOK
<1> QED BY <1>1, <1>2, <1>3, ServicesKeepTheirSpecs, BusTypeCorrect, ApprovalsTypeCorrect,
           RunTypeCorrect, PlanTypeCorrect, IngressTypeCorrect, ScheduleTypeCorrect,
           RacesTypeCorrect, MeteredTypeCorrect, PTL

=============================================================================
