------------------------------- MODULE Workflow -------------------------------
(***************************************************************************)
(* What DeployWorkflow (core/workflow_manager.go) asks of the              *)
(* openolt-agent for each subscriber in the ATT, DT and TT workflows       *)
(* (core/att_workflow.go, core/dt_workflow.go, core/tt_workflow.go): the   *)
(* traffic schedulers, the queues, then the flows, whose ids come from a   *)
(* counter of the PON's resource manager that all subscribers of the PON   *)
(* share.  The trap flows of the NNI, drawn from the counter of PON 0,     *)
(* come before any subscriber.                                             *)
(***************************************************************************)
EXTENDS Integers, Sequences, FiniteSets

CONSTANTS
  Scenarios,     \* workflow names, and the subscribers with their PONs
  NumPbits,      \* p-bits set over all gem ports of the technology profile
  Leftovers,     \* possible sets of <<interface, flow id>> an earlier run left
  Answers        \* the agent's possible answers, besides AlreadyExists

ASSUME ScenarioAssumption ==
  \A sc \in Scenarios :
    /\ sc.workflow \in {"ATT", "DT", "TT"}
    /\ sc.ponOf \in [DOMAIN sc.ponOf -> Nat]
    /\ {"nni", "earlier"} \cap DOMAIN sc.ponOf = {}   \* the other owners of flows
ASSUME NumPbitsAssumption == NumPbits \in Nat
ASSUME LeftoverAssumption == Leftovers \subseteq SUBSET (Int \X Nat)
ASSUME AnswersAssumption == Answers \subseteq {"ok", "error", "lost"}

VARIABLES
  workflow,   \* TestConfig.WorkflowName
  ponOf,      \* the PON of each subscriber
  flowId,     \* flow_id of each PON's resource manager
  nni,        \* how many trap flows of the NNI have been sent
  subs,       \* the state of each subscriber's DeployWorkflow
  scheds,     \* <<subscriber, direction>>: schedulers the agent holds
  queues,     \* <<subscriber, direction>>: queues the agent holds
  flows       \* flows the agent holds

vars == <<workflow, ponOf, flowId, nni, subs, scheds, queues, flows>>

Subscribers == DOMAIN ponOf

\* The NNI trap flows of Start draw from rsrMgr[0].
Pons == {ponOf[s] : s \in Subscribers} \cup {0}

-----------------------------------------------------------------------------
(* The requests of a workflow, grouped: all requests of a group are sent,  *)
(* and the first error among them ends the workflow after its last one.    *)

Sched(dir) == <<[kind |-> "sched", dir |-> dir, type |-> "none", pair |-> "none"]>>
Queue(dir) == <<[kind |-> "queue", dir |-> dir, type |-> "none", pair |-> "none"]>>

\* A flow that opens a pair lends its id to the downstream flow that closes it.
Flow(type, dir, pair) == [kind |-> "flow", dir |-> dir, type |-> type, pair |-> pair]

\* ProvisionScheds, ProvisionQueues: each of the four requests ends on an error.
SchedsAndQueues == <<Sched("ds"), Sched("us"), Queue("ds"), Queue("us")>>

\* Mutant: the error of the upstream flow is looked at after the downstream one.
AttWorkFlow_LateCheck ==
  SchedsAndQueues \o
  << <<Flow("EAPOL", "us", "none")>>, <<Flow("DHCP", "us", "none")>>,
     <<Flow("HSIA", "us", "opens"), Flow("HSIA", "ds", "closes")>> >>

AttWorkFlow ==
  SchedsAndQueues \o
  << <<Flow("EAPOL", "us", "none")>>, <<Flow("DHCP", "us", "none")>>,
     <<Flow("HSIA", "us", "opens")>>, <<Flow("HSIA", "ds", "closes")>> >>

DtWorkFlow ==
  SchedsAndQueues \o
  << <<Flow("HSIA", "us", "opens")>>, <<Flow("HSIA", "ds", "closes")>> >>

\* One group per p-bit: the upstream and downstream flow of the service, and
\* its trap flows.
TtService(type, traps) ==
  [p \in 1 .. NumPbits |->
     <<Flow(type, "us", "opens"), Flow(type, "ds", "closes")>> \o traps]

DhcpTrap == <<Flow("DHCP", "us", "none")>>
IgmpTrap == <<Flow("IGMP", "us", "none")>>

TtWorkFlow ==
  SchedsAndQueues \o TtService("HSIA", <<>>) \o TtService("VOIP", DhcpTrap)
    \o TtService("VOD", DhcpTrap \o IgmpTrap) \o TtService("MGMT", DhcpTrap)

Script == CASE workflow = "ATT" -> AttWorkFlow
            [] workflow = "DT" -> DtWorkFlow
            [] workflow = "TT" -> TtWorkFlow

\* ProvisionAttNniTrapFlow (DHCPv4, LLDP), ProvisionDtNniTrapFlow (LLDP),
\* ProvisionTtNniTrapFlow (DHCPv4).
NniTrapFlows == IF workflow = "ATT" THEN 2 ELSE 1

-----------------------------------------------------------------------------
NewSubscriber ==
  [group |-> 1, req |-> 1, flow |-> 0, symmetric |-> 0, err |-> "none", reason |-> "none",
   drawn |-> <<>>]

\* What an earlier run left on the agent, under ids that begin at 1 again.
EarlierFlow(key) ==
  [pon |-> key[1], id |-> key[2], owner |-> "earlier", dir |-> "us", symmetric |-> 0]

Init ==
  /\ \E sc \in Scenarios : workflow = sc.workflow /\ ponOf = sc.ponOf
  /\ flowId = [p \in Pons |-> 0]
  /\ nni = 0
  /\ subs = [s \in Subscribers |-> NewSubscriber]
  /\ scheds = {}
  /\ queues = {}
  /\ \E left \in Leftovers : flows = {EarlierFlow(key) : key \in left}

\* AccessIntfId of a trap flow of the NNI.
NniIntf == -1

\* AlreadyExists is the agent's answer to a flow whose id it already holds on
\* that interface.
AgentHolds(pon, id) == \E f \in flows : f.pon = pon /\ f.id = id

\* An error answer may come from an agent that has done the work.
Applied(answer) == answer \in {"ok", "lost"}

\* GetFlowID and FlowAdd for one trap flow; an error is ignored.
AddNniTrapFlow ==
  /\ nni < NniTrapFlows
  /\ nni' = nni + 1
  /\ flowId' = [flowId EXCEPT ![0] = @ + 1]
  /\ \E answer \in Answers :
       flows' = IF Applied(answer) /\ ~AgentHolds(NniIntf, flowId[0] + 1)
                THEN flows \cup {[pon |-> NniIntf, id |-> flowId[0] + 1, owner |-> "nni",
                                  dir |-> "ds", symmetric |-> 0]}
                ELSE flows
  /\ UNCHANGED <<workflow, ponOf, subs, scheds, queues>>

Ended(s) == subs[s].reason # "none"

\* The request subscriber s is at.
Request(s) == Script[subs[s].group][subs[s].req]

\* Mutant: the Reason of the schedulers is reported for the queues as well.
Reason_Copied(kind) == IF kind = "flow" THEN "FLOW_ADD_FAILED" ELSE "SCHED_CREATION_FAILED"

Reason(kind) == CASE kind = "sched" -> "SCHED_CREATION_FAILED"
                  [] kind = "queue" -> "QUEUE_CREATION_FAILED"
                  [] kind = "flow" -> "FLOW_ADD_FAILED"

\* Mutant: the next p-bit begins at the request the last one ended at.
After_NoReset(s, failed) ==
  LET sub == subs[s]
      err == IF failed /\ sub.err = "none" THEN Reason(Request(s).kind) ELSE sub.err
      here == [sub EXCEPT !.err = err, !.flow = 0]
  IN  CASE sub.req < Len(Script[sub.group]) -> [here EXCEPT !.req = @ + 1]
        [] sub.req >= Len(Script[sub.group]) /\ err # "none" -> [here EXCEPT !.reason = err]
        [] sub.req >= Len(Script[sub.group]) /\ err = "none" /\ sub.group = Len(Script) ->
             [here EXCEPT !.reason = "SUBSCRIBER_PROVISION_SUCCESS"]
        [] OTHER -> [here EXCEPT !.group = @ + 1]

\* Mutant: after a failed scheduler both are tried again, without a limit.
After_RetryForever(s, failed) ==
  LET sub == subs[s]
      err == IF failed /\ sub.err = "none" THEN Reason(Request(s).kind) ELSE sub.err
      here == [sub EXCEPT !.err = err, !.flow = 0]
  IN  CASE err = "SCHED_CREATION_FAILED" -> [sub EXCEPT !.group = 1]
        [] err # "SCHED_CREATION_FAILED" /\ sub.req < Len(Script[sub.group]) -> [here EXCEPT !.req = @ + 1]
        [] sub.req = Len(Script[sub.group]) /\ err \notin {"none", "SCHED_CREATION_FAILED"} ->
             [here EXCEPT !.reason = err]
        [] sub.req = Len(Script[sub.group]) /\ err = "none" /\ sub.group = Len(Script) ->
             [here EXCEPT !.reason = "SUBSCRIBER_PROVISION_SUCCESS"]
        [] OTHER -> [here EXCEPT !.group = @ + 1, !.req = 1]

\* The subscriber after the answer to its request: the next request of the
\* group, or the end of the workflow, or the next group.
After(s, failed) ==
  LET sub == subs[s]
      err == IF failed /\ sub.err = "none" THEN Reason(Request(s).kind) ELSE sub.err
      here == [sub EXCEPT !.err = err, !.flow = 0]
  IN  CASE sub.req < Len(Script[sub.group]) -> [here EXCEPT !.req = @ + 1]
        [] sub.req = Len(Script[sub.group]) /\ err # "none" -> [here EXCEPT !.reason = err]
        [] sub.req = Len(Script[sub.group]) /\ err = "none" /\ sub.group = Len(Script) ->
             [here EXCEPT !.reason = "SUBSCRIBER_PROVISION_SUCCESS"]
        [] OTHER -> [here EXCEPT !.group = @ + 1, !.req = 1]

\* Mutant: the error of CreateTrafficSchedulers is dropped.
CreateResource_ErrorDropped(s) ==
  /\ Request(s).kind \in {"sched", "queue"}
  /\ \E answer \in Answers :
       /\ subs' = [subs EXCEPT ![s] = After(s, answer # "ok" /\ Request(s).kind = "queue")]
       /\ LET created == IF Applied(answer) THEN {<<s, Request(s).dir>>} ELSE {}
          IN  IF Request(s).kind = "sched"
              THEN scheds' = scheds \cup created /\ UNCHANGED queues
              ELSE queues' = queues \cup created /\ UNCHANGED scheds
  /\ UNCHANGED <<workflow, ponOf, flowId, nni, flows>>

\* CreateTrafficSchedulers or CreateTrafficQueues.
CreateResource(s) ==
  /\ Request(s).kind \in {"sched", "queue"}
  /\ \E answer \in Answers :
       /\ subs' = [subs EXCEPT ![s] = After(s, answer # "ok")]
       /\ LET created == IF Applied(answer) THEN {<<s, Request(s).dir>>} ELSE {}
          IN  IF Request(s).kind = "sched"
              THEN scheds' = scheds \cup created /\ UNCHANGED queues
              ELSE queues' = queues \cup created /\ UNCHANGED scheds
  /\ UNCHANGED <<workflow, ponOf, flowId, nni, flows>>

\* Mutant: the counter is read but not advanced.
GetFlowID_NoIncrement(s) ==
  LET id == flowId[ponOf[s]] + 1
  IN  /\ Request(s).kind = "flow"
      /\ subs[s].flow = 0
      /\ subs' = [subs EXCEPT ![s].flow = id, ![s].drawn = Append(@, id),
                              ![s].symmetric = IF Request(s).pair = "opens" THEN id ELSE @]
      /\ UNCHANGED <<workflow, ponOf, flowId, nni, scheds, queues, flows>>

\* GetFlowID, under the resource manager's lock.
GetFlowID(s) ==
  LET id == flowId[ponOf[s]] + 1
  IN  /\ Request(s).kind = "flow"
      /\ subs[s].flow = 0
      /\ flowId' = [flowId EXCEPT ![ponOf[s]] = id]
      /\ subs' = [subs EXCEPT ![s].flow = id, ![s].drawn = Append(@, id),
                              ![s].symmetric = IF Request(s).pair = "opens" THEN id ELSE @]
      /\ UNCHANGED <<workflow, ponOf, nni, scheds, queues, flows>>

SubscriberFlow(s) ==
  [pon |-> ponOf[s], id |-> subs[s].flow, owner |-> s, dir |-> Request(s).dir,
   symmetric |-> IF Request(s).pair = "closes" THEN subs[s].symmetric ELSE 0]

\* Mutant: a flow the agent refused counts as added.
AddFlow_ErrorDropped(s) ==
  /\ Request(s).kind = "flow"
  /\ subs[s].flow # 0
  /\ \E answer \in Answers :
       flows' = IF Applied(answer) /\ ~AgentHolds(ponOf[s], subs[s].flow)
                THEN flows \cup {SubscriberFlow(s)}
                ELSE flows
  /\ subs' = [subs EXCEPT ![s] = After(s, FALSE)]
  /\ UNCHANGED <<workflow, ponOf, flowId, nni, scheds, queues>>

\* AddFlow, AddTtFlow: AlreadyExists counts as success.
AddFlow(s) ==
  /\ Request(s).kind = "flow"
  /\ subs[s].flow # 0
  /\ \/ /\ AgentHolds(ponOf[s], subs[s].flow)
        /\ subs' = [subs EXCEPT ![s] = After(s, FALSE)]
        /\ UNCHANGED flows
     \/ /\ ~AgentHolds(ponOf[s], subs[s].flow)
        /\ \E answer \in Answers :
             /\ subs' = [subs EXCEPT ![s] = After(s, answer # "ok")]
             /\ flows' = IF Applied(answer) THEN flows \cup {SubscriberFlow(s)} ELSE flows
  /\ UNCHANGED <<workflow, ponOf, flowId, nni, scheds, queues>>

\* DeployWorkflow is reached only after Start has sent the trap flows.
DeployWorkflow(s) ==
  /\ nni = NniTrapFlows
  /\ ~Ended(s)
  /\ CreateResource(s) \/ GetFlowID(s) \/ AddFlow(s)

AllEnded == nni = NniTrapFlows /\ (\A s \in Subscribers : Ended(s)) /\ UNCHANGED vars

Next == AddNniTrapFlow \/ (\E s \in Subscribers : DeployWorkflow(s)) \/ AllEnded

Spec == Init /\ [][Next]_vars

\* Every goroutine that can go on does so, and the agent answers every request.
FairSpec == Spec /\ WF_vars(Next)

-----------------------------------------------------------------------------
(* Properties. *)

SubscriberState ==
  [group : Nat, req : Nat, flow : Nat, symmetric : Nat,
   err : {"none", "SCHED_CREATION_FAILED", "QUEUE_CREATION_FAILED", "FLOW_ADD_FAILED"},
   reason : {"none", "SCHED_CREATION_FAILED", "QUEUE_CREATION_FAILED", "FLOW_ADD_FAILED",
             "SUBSCRIBER_PROVISION_SUCCESS"},
   drawn : Seq(Nat)]

\* The shape of the state.
TypeOK ==
  /\ workflow \in {"ATT", "DT", "TT"}
  /\ ponOf \in [Subscribers -> Nat]
  /\ flowId \in [Pons -> Nat]
  /\ nni \in 0 .. NniTrapFlows
  /\ subs \in [Subscribers -> SubscriberState]
  /\ \A s \in Subscribers : /\ subs[s].group \in DOMAIN Script
                            /\ subs[s].req \in DOMAIN Script[subs[s].group]
  /\ scheds \subseteq Subscribers \X {"us", "ds"}
  /\ queues \subseteq Subscribers \X {"us", "ds"}
  /\ \A f \in flows : f.owner \in Subscribers \cup {"nni", "earlier"}
  /\ {"nni", "earlier"} \cap Subscribers = {}

\* Two requests of one PON never carry the same flow id, whichever subscribers
\* they are for and however their workflows interleave, and on PON 0 none
\* carries the id of a trap flow of the NNI.
FlowIdsUnique ==
  /\ \A s, t \in Subscribers : \A m \in DOMAIN subs[s].drawn, n \in DOMAIN subs[t].drawn :
       (ponOf[s] = ponOf[t] /\ subs[s].drawn[m] = subs[t].drawn[n]) => (s = t /\ m = n)
  /\ \A s \in Subscribers : \A n \in DOMAIN subs[s].drawn : \A f \in flows :
       (ponOf[s] = 0 /\ f.owner = "nni") => f.id # subs[s].drawn[n]

FlowRequests == {at \in UNION {{g} \X DOMAIN Script[g] : g \in DOMAIN Script} :
                   Script[at[1]][at[2]].kind = "flow"}

\* SUBSCRIBER_PROVISION_SUCCESS is only reported when the agent holds all
\* schedulers and queues of the subscriber and, under as many ids as the
\* workflow has flows, all its flows: as its own, or as what an earlier run had
\* left under the id.
SuccessMeansProvisioned ==
  \A s \in Subscribers : subs[s].reason = "SUBSCRIBER_PROVISION_SUCCESS" =>
    /\ \A dir \in {"us", "ds"} : <<s, dir>> \in scheds /\ <<s, dir>> \in queues
    /\ Len(subs[s].drawn) = Cardinality(FlowRequests)
    /\ \A n \in DOMAIN subs[s].drawn :
         \E f \in flows : /\ f.pon = ponOf[s] /\ f.id = subs[s].drawn[n]
                          /\ f.owner \in {s, "earlier"}

\* The agent never holds queues of a subscriber without its schedulers, nor
\* flows without its queues, even when a stage fails or its answer is lost.
StagesInOrder ==
  \A s \in Subscribers :
    /\ (\E dir \in {"us", "ds"} : <<s, dir>> \in queues) => {<<s, "us">>, <<s, "ds">>} \subseteq scheds
    /\ (\E f \in flows : f.owner = s) => {<<s, "us">>, <<s, "ds">>} \subseteq queues

\* A downstream flow whose symmetric upstream flow the agent does not hold is
\* never part of a service that is reported as provisioned; in the ATT and DT
\* workflows it is never on the agent at all.
SymmetricFlowHeld ==
  \A f \in flows : (f.symmetric # 0 /\ ~AgentHolds(f.pon, f.symmetric)) =>
    /\ workflow = "TT"
    /\ subs[f.owner].reason # "SUBSCRIBER_PROVISION_SUCCESS"

\* The Reason of a subscriber tells how far it came: after a failed scheduler
\* no flow id was drawn for it, after a failed flow both queues exist.
ReasonTellsStage ==
  \A s \in Subscribers :
    /\ subs[s].reason = "SCHED_CREATION_FAILED" => <<s, "ds">> \notin queues /\ subs[s].drawn = <<>>
    /\ subs[s].reason = "QUEUE_CREATION_FAILED" => /\ {<<s, "us">>, <<s, "ds">>} \subseteq scheds
                                                   /\ subs[s].drawn = <<>>
    /\ subs[s].reason = "FLOW_ADD_FAILED" => /\ {<<s, "us">>, <<s, "ds">>} \subseteq queues
                                             /\ subs[s].drawn # <<>>

\* A drawn id is behind the counter of its PON and no other request's; the trap
\* flows of the NNI have the first ids of PON 0.
IdInv ==
  /\ nni <= flowId[0]
  /\ nni < NniTrapFlows => flowId[0] = nni /\ \A s \in Subscribers : subs[s].drawn = <<>>
  /\ \A s \in Subscribers : \A n \in DOMAIN subs[s].drawn :
       /\ subs[s].drawn[n] \in 1 .. flowId[ponOf[s]]
       /\ ponOf[s] = 0 => subs[s].drawn[n] > NniTrapFlows
  /\ \A s, t \in Subscribers : \A m \in DOMAIN subs[s].drawn, n \in DOMAIN subs[t].drawn :
       (ponOf[s] = ponOf[t] /\ subs[s].drawn[m] = subs[t].drawn[n]) => (s = t /\ m = n)

Drawn(s, id) == \E n \in DOMAIN subs[s].drawn : subs[s].drawn[n] = id

\* Whose flows the agent holds, under which ids.
FlowInv ==
  \A f \in flows :
    /\ f.owner = "nni" => f.pon = NniIntf /\ f.id <= NniTrapFlows
    /\ f.owner \in Subscribers => f.pon = ponOf[f.owner] /\ Drawn(f.owner, f.id)
    /\ f.symmetric # 0 => /\ f.owner \in Subscribers /\ Drawn(f.owner, f.symmetric)
                          /\ workflow # "TT" => AgentHolds(f.pon, f.symmetric)

\* The last group of requests of each stage: schedulers up to 2, queues up to 4.
FailedAt(group) == CASE group <= 2 -> "SCHED_CREATION_FAILED"
                     [] group \in 3 .. 4 -> "QUEUE_CREATION_FAILED"
                     [] group > 4 -> "FLOW_ADD_FAILED"

\* What the position in the script says of the agent, and the other way round.
StageInv ==
  \A s \in Subscribers :
    /\ subs[s].group > 1 => <<s, "ds">> \in scheds
    /\ subs[s].group > 2 => <<s, "us">> \in scheds
    /\ subs[s].group > 3 => <<s, "ds">> \in queues
    /\ subs[s].group > 4 => <<s, "us">> \in queues
    /\ (\E dir \in {"us", "ds"} : <<s, dir>> \in queues) => subs[s].group > 2
    /\ subs[s].drawn # <<>> => subs[s].group > 4

\* What the error and the Reason of a subscriber say of its position.
ReasonInv ==
  \A s \in Subscribers :
    /\ subs[s].err # "none" => /\ subs[s].err = FailedAt(subs[s].group)
                               /\ subs[s].group > 4 => subs[s].drawn # <<>>
                               /\ workflow # "TT" => Ended(s)
    /\ Ended(s) => /\ subs[s].flow = 0
                   /\ subs[s].req = Len(Script[subs[s].group])
                   /\ \/ subs[s].reason = subs[s].err
                      \/ /\ subs[s].reason = "SUBSCRIBER_PROVISION_SUCCESS" /\ subs[s].err = "none"
                         /\ subs[s].group = Len(Script) /\ <<s, "us">> \in queues

\* The id in flight is the last one drawn.
InFlight(s, n) == subs[s].flow # 0 /\ n = Len(subs[s].drawn)

HeldFor(s, id) ==
  \E f \in flows : f.pon = ponOf[s] /\ f.id = id /\ f.owner \in {s, "earlier"}

\* Without an error the agent holds a flow for every id that was answered, and the
\* symmetric id is one of those, unless it is the one in flight itself.
HeldInv ==
  \A s \in Subscribers :
    /\ subs[s].flow # 0 => /\ subs[s].drawn # <<>>
                           /\ subs[s].flow = subs[s].drawn[Len(subs[s].drawn)]
    /\ subs[s].err = "none" => \A n \in DOMAIN subs[s].drawn :
                                 InFlight(s, n) \/ HeldFor(s, subs[s].drawn[n])
    /\ subs[s].symmetric # 0 => \E n \in DOMAIN subs[s].drawn :
                                  /\ subs[s].drawn[n] = subs[s].symmetric
                                  /\ InFlight(s, n) => Request(s).pair = "opens"

\* The flow requests that have been answered.
Answered(s) ==
  {at \in FlowRequests : \/ at[1] < subs[s].group
                         \/ at[1] = subs[s].group /\ (at[2] < subs[s].req \/ Ended(s))}

\* An id is drawn for each flow request, once.
CountInv ==
  \A s \in Subscribers :
    Len(subs[s].drawn) = Cardinality(Answered(s)) + IF subs[s].flow # 0 THEN 1 ELSE 0

\* The inductive invariant of the workflows.
IndInv == TypeOK /\ IdInv /\ FlowInv /\ StageInv /\ ReasonInv /\ HeldInv /\ CountInv

\* Every subscriber's workflow ends with a Reason, so its subWg.Done() is reached.
EveryWorkflowEnds == <>(\A s \in Subscribers : Ended(s))
=============================================================================
