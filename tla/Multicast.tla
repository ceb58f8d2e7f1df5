------------------------------ MODULE Multicast ------------------------------
(***************************************************************************)
(* DeployWorkflow of a group test (core/workflow_manager.go): what         *)
(* ProvisionMulticastFlow (core/tt_workflow.go) and AddMulticastQueueFlow  *)
(* (core/workflow_utils.go) ask of the openolt-agent for each subscriber.  *)
(* A subscriber of PON 0 creates the group named after its ONU id and the  *)
(* multicast flow; the subscriber that finds lastPonIntf at its own PON    *)
(* creates the PON's scheduler and queue; all add a member to the group.   *)
(***************************************************************************)
EXTENDS Integers

CONSTANTS
  Scenarios,    \* the workflow, the subscribers, what an earlier run left behind
  Answers       \* the agent's possible answers, besides AlreadyExists

ASSUME ScenarioAssumption ==
  \A sc \in Scenarios :
    /\ sc.workflow \in {"ATT", "DT", "TT"}
    /\ \A s \in DOMAIN sc.subs : sc.subs[s].pon \in Nat /\ sc.subs[s].onu \in Nat
    /\ sc.groups \subseteq Nat
    /\ sc.flows \subseteq Nat \ {0}
ASSUME AnswersAssumption == Answers \subseteq {"ok", "error", "lost"}

VARIABLES
  sc,           \* the configuration
  lastPonIntf,  \* the PON whose scheduler and queue are to be created next
  flowId,       \* flow_id of the resource manager of PON 0
  sub,          \* the state of each subscriber's DeployWorkflow
  seen,         \* history: what a subscriber has loaded of lastPonIntf
  groups,       \* the groups the agent holds
  members,      \* <<group, PON>>: their members
  flows,        \* the ids of the multicast flows the agent holds
  scheds,       \* the subscribers whose multicast scheduler the agent holds
  queues        \* the subscribers whose multicast queue the agent holds

vars == <<sc, lastPonIntf, flowId, sub, seen, groups, members, flows, scheds, queues>>
agent == <<groups, members, flows, scheds, queues>>

Subscribers == DOMAIN sc.subs
PonIntf(s) == sc.subs[s].pon
GroupID(s) == sc.subs[s].onu

NewSubscriber == [pc |-> "load", addSched |-> FALSE, flow |-> 0, reason |-> "none"]

Init ==
  /\ sc \in Scenarios
  /\ lastPonIntf = 0
  /\ flowId = 1        \* drawn for the trap flow of the NNI
  /\ sub = [s \in Subscribers |-> NewSubscriber]
  /\ seen = [s \in Subscribers |-> 0]
  /\ groups = sc.groups
  /\ members = {}
  /\ flows = sc.flows
  /\ scheds = {}
  /\ queues = {}

\* The end of DeployWorkflow, with a Reason.
Ends(s, reason) == [sub EXCEPT ![s].pc = "ended", ![s].reason = reason]

-----------------------------------------------------------------------------
(* ProvisionMulticastFlow: who creates what. *)

\* The first request: AddGroup and AddFlow are for subscribers of PON 0.
FirstRequest(s, other) == IF PonIntf(s) = 0 THEN "group" ELSE other

\* ATT and DT: "does not support multicast yet, nothing to do".
NothingToDo(s) ==
  /\ sub[s].pc = "load"
  /\ sc.workflow # "TT"
  /\ sub' = Ends(s, "SUBSCRIBER_PROVISION_SUCCESS")
  /\ UNCHANGED <<sc, seen, lastPonIntf, flowId, agent>>

\* Mutant: "at most" for "equal": every later subscriber of a PON creates again.
LoadLastPonIntf_AtMost(s) ==
  /\ sub[s].pc = "load"
  /\ sc.workflow = "TT"
  /\ sub' = [sub EXCEPT ![s].pc = IF PonIntf(s) <= lastPonIntf THEN "add" ELSE FirstRequest(s, "member")]
  /\ seen' = [seen EXCEPT ![s] = lastPonIntf]
  /\ UNCHANGED <<sc, lastPonIntf, flowId, agent>>

\* atomic.LoadUint32(lastPonIntf), compared with the subscriber's PON.
LoadLastPonIntf(s) ==
  /\ sub[s].pc = "load"
  /\ sc.workflow = "TT"
  /\ sub' = [sub EXCEPT ![s].pc = IF PonIntf(s) = lastPonIntf THEN "add" ELSE FirstRequest(s, "member")]
  /\ seen' = [seen EXCEPT ![s] = lastPonIntf]
  /\ UNCHANGED <<sc, lastPonIntf, flowId, agent>>

\* Mutant: the counter is incremented, but by two.
AddLastPonIntf_Two(s) ==
  /\ sub[s].pc = "add"
  /\ lastPonIntf' = lastPonIntf + 2
  /\ sub' = [sub EXCEPT ![s].pc = FirstRequest(s, "sched"), ![s].addSched = TRUE]
  /\ UNCHANGED <<sc, seen, flowId, agent>>

\* Mutant: AddSched and AddQueue are not set.
AddLastPonIntf_NotSet(s) ==
  /\ sub[s].pc = "add"
  /\ lastPonIntf' = lastPonIntf + 1
  /\ sub' = [sub EXCEPT ![s].pc = FirstRequest(s, "member")]
  /\ UNCHANGED <<sc, seen, flowId, agent>>

\* atomic.AddUint32(lastPonIntf, 1), a step of its own.
AddLastPonIntf(s) ==
  /\ sub[s].pc = "add"
  /\ lastPonIntf' = lastPonIntf + 1
  /\ sub' = [sub EXCEPT ![s].pc = FirstRequest(s, "sched"), ![s].addSched = TRUE]
  /\ UNCHANGED <<sc, seen, flowId, agent>>

-----------------------------------------------------------------------------
(* AddMulticastQueueFlow: the requests in their order; an error ends it. *)

\* Mutant: the queue is forgotten.
Following_NoQueue(s) ==
  CASE sub[s].pc = "group"   -> "flow id"
    [] sub[s].pc = "flow id" -> "flow"
    [] sub[s].pc = "flow"    -> IF sub[s].addSched THEN "sched" ELSE "member"
    [] sub[s].pc = "sched"   -> "member"
    [] OTHER                 -> "ended"

\* The request that follows, AddSched and AddQueue only where they are set.
Following(s) ==
  CASE sub[s].pc = "group"   -> "flow id"
    [] sub[s].pc = "flow id" -> "flow"
    [] sub[s].pc = "flow"    -> IF sub[s].addSched THEN "sched" ELSE "member"
    [] sub[s].pc = "sched"   -> "queue"
    [] sub[s].pc = "queue"   -> "member"
    [] OTHER                 -> "ended"

At(s, stage) == sub[s].pc = stage

\* The next request, or the end of DeployWorkflow with a Reason.
After(s, answer) ==
  IF answer # "ok" THEN Ends(s, "failed")
  ELSE IF Following(s) = "ended" THEN Ends(s, "SUBSCRIBER_PROVISION_SUCCESS")
  ELSE [sub EXCEPT ![s].pc = Following(s)]

Applied(answer) == answer \in {"ok", "lost"}

\* SET_MEMBERS replaces the members of the group, here by none.
CreateGroup(s) ==
  /\ At(s, "group")
  /\ \E answer \in Answers :
       /\ sub' = After(s, answer)
       /\ groups' = IF Applied(answer) THEN groups \cup {GroupID(s)} ELSE groups
       /\ members' = IF Applied(answer) THEN {m \in members : m[1] # GroupID(s)} ELSE members
  /\ UNCHANGED <<sc, seen, lastPonIntf, flowId, flows, scheds, queues>>

GetFlowID(s) ==
  /\ At(s, "flow id")
  /\ flowId' = flowId + 1
  /\ sub' = [sub EXCEPT ![s].flow = flowId + 1, ![s].pc = Following(s)]
  /\ UNCHANGED <<sc, seen, lastPonIntf, agent>>

\* FlowAdd; AlreadyExists counts as success.
AddMulticastFlow(s) ==
  /\ At(s, "flow")
  /\ \/ /\ sub[s].flow \in flows
        /\ sub' = After(s, "ok")
        /\ UNCHANGED flows
     \/ /\ sub[s].flow \notin flows
        /\ \E answer \in Answers :
             /\ sub' = After(s, answer)
             /\ flows' = IF Applied(answer) THEN flows \cup {sub[s].flow} ELSE flows
  /\ UNCHANGED <<sc, seen, lastPonIntf, flowId, groups, members, scheds, queues>>

AddMulticastSched(s) ==
  /\ At(s, "sched")
  /\ \E answer \in Answers :
       /\ sub' = After(s, answer)
       /\ scheds' = IF Applied(answer) THEN scheds \cup {s} ELSE scheds
  /\ UNCHANGED <<sc, seen, lastPonIntf, flowId, groups, members, flows, queues>>

OpMulticastTrafficQueue(s) ==
  /\ At(s, "queue")
  /\ \E answer \in Answers :
       /\ sub' = After(s, answer)
       /\ queues' = IF Applied(answer) THEN queues \cup {s} ELSE queues
  /\ UNCHANGED <<sc, seen, lastPonIntf, flowId, groups, members, flows, scheds>>

\* Mutant: the error of the agent is dropped when it holds the group.
OpMemberToGroup_ErrorDropped(s) ==
  /\ At(s, "member")
  /\ sub' = After(s, IF GroupID(s) \in groups THEN "ok" ELSE "error")
  /\ \E answer \in Answers :
       members' = IF GroupID(s) \in groups /\ Applied(answer)
                  THEN members \cup {<<GroupID(s), PonIntf(s)>>}
                  ELSE members
  /\ UNCHANGED <<sc, seen, lastPonIntf, flowId, groups, flows, scheds, queues>>

\* External: the agent refuses ADD_MEMBERS for a group that it does not hold.
MemberAnswers(s) == IF GroupID(s) \in groups THEN Answers ELSE {"error"}

\* ADD_MEMBERS.
OpMemberToGroup(s) ==
  /\ At(s, "member")
  /\ \E answer \in MemberAnswers(s) :
       /\ sub' = After(s, answer)
       /\ members' = IF Applied(answer) THEN members \cup {<<GroupID(s), PonIntf(s)>>} ELSE members
  /\ UNCHANGED <<sc, seen, lastPonIntf, flowId, groups, flows, scheds, queues>>

-----------------------------------------------------------------------------
DeployWorkflow(s) ==
  \/ NothingToDo(s)
  \/ LoadLastPonIntf(s) \/ AddLastPonIntf(s)
  \/ CreateGroup(s) \/ GetFlowID(s) \/ AddMulticastFlow(s)
  \/ AddMulticastSched(s) \/ OpMulticastTrafficQueue(s) \/ OpMemberToGroup(s)

AllEnded == (\A s \in Subscribers : sub[s].pc = "ended") /\ UNCHANGED vars

Next == (\E s \in Subscribers : DeployWorkflow(s)) \/ AllEnded

Spec == Init /\ [][Next]_vars

-----------------------------------------------------------------------------
(* Properties. *)

\* The subscribers of a PON that take on creating its multicast scheduler and
\* queue, whatever the agent answers them.
Creators(p) == {s \in Subscribers : PonIntf(s) = p /\ sub[s].addSched}

Overlap(q) == \E s, t \in Creators(q) : s # t

\* lastPonIntf is loaded and incremented in two steps, so it may pass a PON of
\* which nobody takes on the scheduler and queue.  That only ever happens when two
\* subscribers of one lower PON both take on theirs: every PON below lastPonIntf
\* has a creator, or some lower PON has two.
GapsComeFromOverlap ==
  \A p \in 0 .. lastPonIntf - 1 : Creators(p) = {} => \E q \in 0 .. p - 1 : Overlap(q)

\* Nobody creates the scheduler and queue of a PON, wherever lastPonIntf is, only
\* because all its subscribers came too early, before those of the PONs below had
\* moved lastPonIntf up to it, or because it was passed over.
UnservedPonsExplained ==
  \A p \in {PonIntf(s) : s \in Subscribers} :
    (/\ sc.workflow = "TT" /\ Creators(p) = {}
     /\ \A s \in Subscribers : PonIntf(s) = p => sub[s].pc \notin {"load", "add"})
      => \/ \A s \in Subscribers : PonIntf(s) = p => seen[s] < p
         \/ \E q \in 0 .. p - 1 : Overlap(q)

\* A PON that is passed over stays without scheduler and queue for good: no
\* subscriber that comes later makes up for it.
PassedOver(p) ==
  p < lastPonIntf /\ \A s \in Subscribers : PonIntf(s) = p => (sub[s].pc # "add" /\ ~sub[s].addSched)
PassedOverForGood ==
  [][\A p \in 0 .. lastPonIntf : PassedOver(p) => PassedOver(p)']_vars

\* The subscribers whose SET_MEMBERS empties the group.
Setters(g) == {s \in Subscribers : PonIntf(s) = 0 /\ GroupID(s) = g}

\* SUBSCRIBER_PROVISION_SUCCESS means that the PON of the subscriber is a member
\* of the group, as long as no other subscriber sets the members of the same
\* group: one subscriber on PON 0 for the ONU id, and no group left by an
\* earlier run.
SuccessMeansMember ==
  \A s \in Subscribers :
    (/\ sc.workflow = "TT" /\ sub[s].reason = "SUBSCRIBER_PROVISION_SUCCESS"
     /\ \A t, u \in Setters(GroupID(s)) : t = u
     /\ GroupID(s) \notin sc.groups)
      => <<GroupID(s), PonIntf(s)>> \in members

\* SUBSCRIBER_PROVISION_SUCCESS of a subscriber that creates the scheduler and
\* queue of its PON, or the group and its flow, means the agent holds them, and
\* the queue is never there without the scheduler, whichever answers were lost.
SuccessMeansCreated ==
  /\ queues \subseteq scheds
  /\ \A s \in Subscribers :
       (sc.workflow = "TT" /\ sub[s].reason = "SUBSCRIBER_PROVISION_SUCCESS") =>
         /\ sub[s].addSched => s \in queues
         /\ GroupID(s) \in groups
         /\ PonIntf(s) = 0 => sub[s].flow \in flows

-----------------------------------------------------------------------------
(* The inductive invariant. *)

Requests == {"group", "flow id", "flow", "sched", "queue", "member"}

SubscriberStates ==
  [pc : {"load", "add", "ended"} \cup Requests, addSched : BOOLEAN, flow : Nat,
   reason : {"none", "failed", "SUBSCRIBER_PROVISION_SUCCESS"}]

TypeOK ==
  /\ sc \in Scenarios
  /\ lastPonIntf \in Nat
  /\ flowId \in Nat
  /\ sub \in [Subscribers -> SubscriberStates]

\* Where a subscriber is in AddMulticastQueueFlow, and what the agent holds by then.
InOrder(s) ==
  /\ sub[s].pc # "ended" => sub[s].reason = "none"
  /\ sub[s].pc = "add" => PonIntf(s) <= lastPonIntf
  /\ sub[s].pc \in {"load", "add"} => ~sub[s].addSched
  /\ sub[s].pc \in {"sched", "queue"} => sub[s].addSched
  /\ sub[s].pc \in {"group", "flow id", "flow"} => PonIntf(s) = 0
  /\ PonIntf(s) = 0 /\ sub[s].pc \in Requests \ {"group"} => GroupID(s) \in groups
  /\ PonIntf(s) = 0 /\ sub[s].pc \in {"sched", "queue", "member"} => sub[s].flow \in flows
  /\ sub[s].pc = "queue" => s \in scheds
  /\ sub[s].pc = "member" /\ sub[s].addSched => s \in queues

RequestsInOrder == \A s \in Subscribers : InOrder(s)

\* A new group is there because a subscriber of PON 0 has set its members, which
\* it does once.
NewGroupsWereSet ==
  \A g \in groups \ sc.groups : \E s \in Setters(g) : sub[s].pc \notin {"load", "add", "group"}

\* What a subscriber has loaded of lastPonIntf was no more than it is now, and its
\* own PON makes it a creator.
SeenInOrder ==
  /\ seen \in [Subscribers -> Nat]
  /\ \A s \in Subscribers : sc.workflow = "TT" =>
       /\ sub[s].pc # "load" => seen[s] <= lastPonIntf
       /\ sub[s].pc \notin {"load", "add"} /\ seen[s] = PonIntf(s) => sub[s].addSched

IndInv ==
  /\ TypeOK /\ RequestsInOrder /\ NewGroupsWereSet /\ SeenInOrder
  /\ GapsComeFromOverlap /\ SuccessMeansCreated /\ SuccessMeansMember
=============================================================================
