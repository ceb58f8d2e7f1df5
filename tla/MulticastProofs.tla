--------------------------- MODULE MulticastProofs ---------------------------
(***************************************************************************)
(* Proofs about Multicast, for any subscribers on any PONs, any answers of *)
(* the agent and whatever an earlier run left behind: which PONs are left  *)
(* without multicast scheduler and queue, and what a success says.         *)
(***************************************************************************)
EXTENDS Multicast, TLAPS

\* The configuration does not change, and with it nothing that depends on it.
LEMMA ConfigStable ==
  ASSUME sc' = sc
  PROVE  /\ Subscribers' = Subscribers
         /\ \A s : PonIntf(s)' = PonIntf(s) /\ GroupID(s)' = GroupID(s)
         /\ \A g : Setters(g)' = Setters(g)
  BY DEF Subscribers, PonIntf, GroupID, Setters

\* PONs are numbers.
LEMMA PonsAreNumbers ==
  ASSUME TypeOK, NEW s \in Subscribers
  PROVE  PonIntf(s) \in Nat
  BY ScenarioAssumption DEF TypeOK, Subscribers, PonIntf

\* No step but that of subscriber s.
OnlyBy(s) == \A t \in Subscribers : t # s => sub'[t] = sub[t]

\* What the agent holds and lastPonIntf only grow, members aside.
Grows ==
  /\ groups \subseteq groups' /\ flows \subseteq flows' /\ scheds \subseteq scheds' /\ queues \subseteq queues'
  /\ lastPonIntf \in Nat /\ lastPonIntf' \in Nat /\ lastPonIntf <= lastPonIntf'

\* What the answer makes of a request: failure, success, or the next request.
Outcome(s, answer) ==
  \/ answer # "ok" /\ sub'[s].pc = "ended" /\ sub'[s].reason = "failed"
  \/ /\ answer = "ok" /\ Following(s) = "ended"
     /\ sub'[s].pc = "ended" /\ sub'[s].reason = "SUBSCRIBER_PROVISION_SUCCESS"
  \/ /\ answer = "ok" /\ Following(s) # "ended"
     /\ sub'[s].pc = Following(s) /\ sub'[s].reason = sub[s].reason

\* The end of DeployWorkflow.
LEMMA EndsEffect ==
  ASSUME sub \in [Subscribers -> SubscriberStates], NEW s \in Subscribers,
         NEW reason \in {"none", "failed", "SUBSCRIBER_PROVISION_SUCCESS"}, sub' = Ends(s, reason)
  PROVE  /\ sub' \in [Subscribers -> SubscriberStates] /\ OnlyBy(s)
         /\ sub'[s].addSched = sub[s].addSched /\ sub'[s].flow = sub[s].flow
         /\ sub'[s].pc = "ended" /\ sub'[s].reason = reason
  BY DEF Ends, SubscriberStates, OnlyBy

\* Following names a request or the end.
LEMMA FollowingIsRequest ==
  ASSUME NEW s
  PROVE  Following(s) \in {"ended"} \cup Requests
  BY DEF Following, Requests

\* After, with everything it leaves alone.
LEMMA AfterEffect ==
  ASSUME sub \in [Subscribers -> SubscriberStates], NEW s \in Subscribers, NEW answer, sub' = After(s, answer)
  PROVE  /\ sub' \in [Subscribers -> SubscriberStates] /\ OnlyBy(s)
         /\ sub'[s].addSched = sub[s].addSched /\ sub'[s].flow = sub[s].flow
         /\ Outcome(s, answer)
<1>1. CASE answer # "ok"
  <2>1. sub' = Ends(s, "failed")
    BY <1>1 DEF After
  <2> QED
    BY <1>1, <2>1, EndsEffect DEF Outcome
<1>2. CASE answer = "ok" /\ Following(s) = "ended"
  <2>1. sub' = Ends(s, "SUBSCRIBER_PROVISION_SUCCESS")
    BY <1>2 DEF After
  <2> QED
    BY <1>2, <2>1, EndsEffect DEF Outcome
<1>3. CASE answer = "ok" /\ Following(s) # "ended"
  <2>1. PICK pc \in Requests : pc = Following(s)
    BY <1>3, FollowingIsRequest
  <2>2. sub' = [sub EXCEPT ![s].pc = pc]
    BY <1>3, <2>1 DEF After
  <2>3. /\ sub' \in [Subscribers -> SubscriberStates] /\ OnlyBy(s)
        /\ sub'[s].addSched = sub[s].addSched /\ sub'[s].flow = sub[s].flow
        /\ sub'[s].pc = pc /\ sub'[s].reason = sub[s].reason
    BY <2>2 DEF SubscriberStates, OnlyBy
  <2> QED
    BY <1>3, <2>1, <2>3 DEF Outcome
<1> QED
  BY <1>1, <1>2, <1>3

\* What every step of a subscriber does.
Step(s) == sc' = sc /\ TypeOK' /\ OnlyBy(s) /\ Grows

\* The counter and who creates schedulers and queues stay as they are.
CreatorsStay(s) == lastPonIntf' = lastPonIntf /\ sub'[s].addSched = sub[s].addSched

\* The fields that a request leaves alone.
Keeps(s) == CreatorsStay(s) /\ sub'[s].flow = sub[s].flow

\* NothingToDo ends a workflow that is not TT's.
LEMMA NothingToDoEffect ==
  ASSUME TypeOK, NEW s \in Subscribers, NothingToDo(s)
  PROVE  /\ Step(s) /\ Keeps(s) /\ sub[s].pc = "load" /\ sc.workflow # "TT"
         /\ sub'[s].pc = "ended" /\ sub'[s].reason = "SUBSCRIBER_PROVISION_SUCCESS"
         /\ UNCHANGED agent
<1>1. sub \in [Subscribers -> SubscriberStates]
  BY DEF TypeOK
<1>2. /\ sub' = Ends(s, "SUBSCRIBER_PROVISION_SUCCESS") /\ UNCHANGED <<sc, lastPonIntf, flowId, agent>>
      /\ sub[s].pc = "load" /\ sc.workflow # "TT"
  BY DEF NothingToDo
<1>3. /\ sub' \in [Subscribers -> SubscriberStates] /\ OnlyBy(s)
      /\ sub'[s].addSched = sub[s].addSched /\ sub'[s].flow = sub[s].flow
      /\ sub'[s].pc = "ended" /\ sub'[s].reason = "SUBSCRIBER_PROVISION_SUCCESS"
  BY <1>1, <1>2, EndsEffect
<1> QED
  BY <1>2, <1>3 DEF Step, Keeps, CreatorsStay, Grows, TypeOK, agent, Subscribers

\* LoadLastPonIntf decides whether the subscriber is to increment the counter.
LEMMA LoadEffect ==
  ASSUME TypeOK, NEW s \in Subscribers, LoadLastPonIntf(s)
  PROVE  /\ Step(s) /\ Keeps(s) /\ sub[s].pc = "load"
         /\ sub'[s].pc = IF PonIntf(s) = lastPonIntf THEN "add" ELSE FirstRequest(s, "member")
         /\ sub'[s].reason = sub[s].reason
         /\ UNCHANGED agent
<1>1. sub \in [Subscribers -> SubscriberStates]
  BY DEF TypeOK
<1>2. PICK pc \in {"add"} \cup Requests : pc = IF PonIntf(s) = lastPonIntf THEN "add" ELSE FirstRequest(s, "member")
  BY DEF FirstRequest, Requests
<1>3. /\ sub' = [sub EXCEPT ![s].pc = pc] /\ UNCHANGED <<sc, lastPonIntf, flowId, agent>> /\ sub[s].pc = "load"
  BY <1>2 DEF LoadLastPonIntf
<1>4. /\ sub' \in [Subscribers -> SubscriberStates] /\ OnlyBy(s)
      /\ sub'[s].addSched = sub[s].addSched /\ sub'[s].flow = sub[s].flow
      /\ sub'[s].pc = pc /\ sub'[s].reason = sub[s].reason
  BY <1>1, <1>3 DEF SubscriberStates, OnlyBy
<1> QED
  BY <1>2, <1>3, <1>4 DEF Step, Keeps, CreatorsStay, Grows, TypeOK, agent, Subscribers

\* AddLastPonIntf makes the subscriber a creator and moves the counter on.
LEMMA AddEffect ==
  ASSUME TypeOK, NEW s \in Subscribers, AddLastPonIntf(s)
  PROVE  /\ Step(s) /\ sub[s].pc = "add" /\ lastPonIntf' = lastPonIntf + 1
         /\ sub'[s].pc = FirstRequest(s, "sched") /\ sub'[s].addSched = TRUE
         /\ sub'[s].reason = sub[s].reason
         /\ UNCHANGED agent
<1>1. sub \in [Subscribers -> SubscriberStates]
  BY DEF TypeOK
<1>2. PICK pc \in Requests : pc = FirstRequest(s, "sched")
  BY DEF FirstRequest, Requests
<1>3. /\ sub' = [sub EXCEPT ![s].pc = pc, ![s].addSched = TRUE] /\ UNCHANGED <<sc, flowId, agent>>
      /\ sub[s].pc = "add" /\ lastPonIntf' = lastPonIntf + 1
  BY <1>2 DEF AddLastPonIntf
<1>4. /\ sub' \in [Subscribers -> SubscriberStates] /\ OnlyBy(s)
      /\ sub'[s].addSched = TRUE
      /\ sub'[s].pc = pc /\ sub'[s].reason = sub[s].reason
  BY <1>1, <1>3 DEF SubscriberStates, OnlyBy
<1> QED
  BY <1>2, <1>3, <1>4 DEF Step, Grows, TypeOK, agent, Subscribers

\* GetFlowID gives the subscriber its flow id.
LEMMA GetFlowIDEffect ==
  ASSUME TypeOK, NEW s \in Subscribers, GetFlowID(s)
  PROVE  /\ Step(s) /\ CreatorsStay(s) /\ sub[s].pc = "flow id" /\ sub'[s].pc = "flow"
         /\ sub'[s].reason = sub[s].reason
         /\ UNCHANGED agent
<1>1. sub \in [Subscribers -> SubscriberStates]
  BY DEF TypeOK
<1>2. Following(s) = "flow" /\ sub[s].pc = "flow id"
  BY DEF GetFlowID, At, Following
<1>3. PICK id \in Nat : id = flowId + 1
  BY DEF TypeOK
<1>4. /\ sub' = [sub EXCEPT ![s].flow = id, ![s].pc = "flow"] /\ UNCHANGED <<sc, lastPonIntf, agent>>
      /\ flowId' = id
  BY <1>2, <1>3 DEF GetFlowID
<1>5. /\ sub' \in [Subscribers -> SubscriberStates] /\ OnlyBy(s)
      /\ sub'[s].addSched = sub[s].addSched
      /\ sub'[s].pc = "flow" /\ sub'[s].reason = sub[s].reason
  BY <1>1, <1>4, ZenonT(60) DEF SubscriberStates, OnlyBy, Requests
<1>6. TypeOK'
  BY <1>3, <1>4, <1>5 DEF TypeOK, Subscribers
<1>7. Grows
  BY <1>4 DEF Grows, TypeOK, agent
<1> QED
  BY <1>2, <1>4, <1>5, <1>6, <1>7 DEF Step, CreatorsStay

\* What every request does, whatever it asks for and whatever the agent answers.
LEMMA RequestEffect ==
  ASSUME TypeOK, NEW s \in Subscribers, NEW answer, sub' = After(s, answer),
         UNCHANGED <<sc, lastPonIntf, flowId>>,
         groups \subseteq groups', flows \subseteq flows', scheds \subseteq scheds', queues \subseteq queues'
  PROVE  Step(s) /\ Keeps(s) /\ Outcome(s, answer)
<1>1. /\ sub' \in [Subscribers -> SubscriberStates] /\ OnlyBy(s)
      /\ sub'[s].addSched = sub[s].addSched /\ sub'[s].flow = sub[s].flow
      /\ Outcome(s, answer)
  BY AfterEffect DEF TypeOK
<1> QED
  BY <1>1 DEF Step, Keeps, CreatorsStay, Grows, TypeOK, Subscribers

\* The answers that are applied are "ok" and "lost": after "ok" the agent holds
\* what was asked for.
LEMMA OkIsApplied == Applied("ok")
  BY DEF Applied

\* The group is there once the agent says so, and holds no member then.
CreatedGroup(s, answer) ==
  /\ Step(s) /\ Keeps(s) /\ Outcome(s, answer) /\ sub[s].pc = "group"
  /\ groups' \subseteq groups \cup {GroupID(s)}
  /\ answer = "ok" => GroupID(s) \in groups'
  /\ \A m \in members : m \in members' \/ m[1] = GroupID(s)
  /\ flows' = flows /\ scheds' = scheds /\ queues' = queues

\* Whatever the answer, CreateGroup does that.
LEMMA CreateGroupEffect ==
  ASSUME TypeOK, NEW s \in Subscribers, CreateGroup(s)
  PROVE  \E answer : CreatedGroup(s, answer)
<1>1. PICK answer \in Answers :
        /\ sub' = After(s, answer)
        /\ groups' = IF Applied(answer) THEN groups \cup {GroupID(s)} ELSE groups
        /\ members' = IF Applied(answer) THEN {m \in members : m[1] # GroupID(s)} ELSE members
  BY DEF CreateGroup
<1>2. sub[s].pc = "group" /\ UNCHANGED <<sc, lastPonIntf, flowId, flows, scheds, queues>>
  BY DEF CreateGroup, At
<1>3. /\ groups \subseteq groups' /\ groups' \subseteq groups \cup {GroupID(s)}
      /\ answer = "ok" => GroupID(s) \in groups'
      /\ \A m \in members : m \in members' \/ m[1] = GroupID(s)
  BY <1>1, OkIsApplied
<1>4. Step(s) /\ Keeps(s) /\ Outcome(s, answer)
  BY <1>1, <1>2, <1>3, RequestEffect
<1> QED
  BY <1>2, <1>3, <1>4 DEF CreatedGroup

\* The flow is there once the agent says so, or says that it was there already.
AddedFlow(s, answer) ==
  /\ Step(s) /\ Keeps(s) /\ Outcome(s, answer) /\ sub[s].pc = "flow"
  /\ answer = "ok" => sub[s].flow \in flows'
  /\ groups' = groups /\ members' = members /\ scheds' = scheds /\ queues' = queues

\* Whatever the answer, AddMulticastFlow does that.
LEMMA AddFlowEffect ==
  ASSUME TypeOK, NEW s \in Subscribers, AddMulticastFlow(s)
  PROVE  \E answer : AddedFlow(s, answer)
<1>1. PICK answer :
        /\ sub' = After(s, answer)
        /\ flows \subseteq flows' /\ (answer = "ok" => sub[s].flow \in flows')
  BY OkIsApplied DEF AddMulticastFlow
<1>2. sub[s].pc = "flow" /\ UNCHANGED <<sc, lastPonIntf, flowId, groups, members, scheds, queues>>
  BY DEF AddMulticastFlow, At
<1>3. Step(s) /\ Keeps(s) /\ Outcome(s, answer)
  BY <1>1, <1>2, RequestEffect
<1> QED
  BY <1>1, <1>2, <1>3 DEF AddedFlow

\* The scheduler is there once the agent says so.
AddedSched(s, answer) ==
  /\ Step(s) /\ Keeps(s) /\ Outcome(s, answer) /\ sub[s].pc = "sched"
  /\ answer = "ok" => s \in scheds'
  /\ groups' = groups /\ members' = members /\ flows' = flows /\ queues' = queues

\* Whatever the answer, AddMulticastSched does that.
LEMMA AddSchedEffect ==
  ASSUME TypeOK, NEW s \in Subscribers, AddMulticastSched(s)
  PROVE  \E answer : AddedSched(s, answer)
<1>1. PICK answer :
        /\ sub' = After(s, answer)
        /\ scheds \subseteq scheds' /\ (answer = "ok" => s \in scheds')
  BY OkIsApplied DEF AddMulticastSched
<1>2. sub[s].pc = "sched" /\ UNCHANGED <<sc, lastPonIntf, flowId, groups, members, flows, queues>>
  BY DEF AddMulticastSched, At
<1>3. Step(s) /\ Keeps(s) /\ Outcome(s, answer)
  BY <1>1, <1>2, RequestEffect
<1> QED
  BY <1>1, <1>2, <1>3 DEF AddedSched

\* The queue is there once the agent says so.
AddedQueue(s, answer) ==
  /\ Step(s) /\ Keeps(s) /\ Outcome(s, answer) /\ sub[s].pc = "queue"
  /\ queues' \subseteq queues \cup {s}
  /\ answer = "ok" => s \in queues'
  /\ groups' = groups /\ members' = members /\ flows' = flows /\ scheds' = scheds

\* Whatever the answer, OpMulticastTrafficQueue does that.
LEMMA AddQueueEffect ==
  ASSUME TypeOK, NEW s \in Subscribers, OpMulticastTrafficQueue(s)
  PROVE  \E answer : AddedQueue(s, answer)
<1>1. PICK answer :
        /\ sub' = After(s, answer)
        /\ queues \subseteq queues' /\ queues' \subseteq queues \cup {s} /\ (answer = "ok" => s \in queues')
  BY OkIsApplied DEF OpMulticastTrafficQueue
<1>2. sub[s].pc = "queue" /\ UNCHANGED <<sc, lastPonIntf, flowId, groups, members, flows, scheds>>
  BY DEF OpMulticastTrafficQueue, At
<1>3. Step(s) /\ Keeps(s) /\ Outcome(s, answer)
  BY <1>1, <1>2, RequestEffect
<1> QED
  BY <1>1, <1>2, <1>3 DEF AddedQueue

\* The PON is a member once the agent says so, and the agent holds the group then.
AddedMember(s, answer) ==
  /\ Step(s) /\ Keeps(s) /\ Outcome(s, answer) /\ sub[s].pc = "member"
  /\ members \subseteq members'
  /\ answer = "ok" => <<GroupID(s), PonIntf(s)>> \in members' /\ GroupID(s) \in groups
  /\ groups' = groups /\ flows' = flows /\ scheds' = scheds /\ queues' = queues

\* Whatever the answer, OpMemberToGroup does that.
LEMMA AddMemberEffect ==
  ASSUME TypeOK, NEW s \in Subscribers, OpMemberToGroup(s)
  PROVE  \E answer : AddedMember(s, answer)
<1>1. PICK answer :
        /\ sub' = After(s, answer)
        /\ members \subseteq members'
        /\ answer = "ok" => <<GroupID(s), PonIntf(s)>> \in members' /\ GroupID(s) \in groups
  BY OkIsApplied DEF OpMemberToGroup, MemberAnswers
<1>2. sub[s].pc = "member" /\ UNCHANGED <<sc, lastPonIntf, flowId, groups, flows, scheds, queues>>
  BY DEF OpMemberToGroup, At
<1>3. Step(s) /\ Keeps(s) /\ Outcome(s, answer)
  BY <1>1, <1>2, RequestEffect
<1> QED
  BY <1>1, <1>2, <1>3 DEF AddedMember

-----------------------------------------------------------------------------
(* The order of the requests. *)

\* What holds of the requests of one subscriber is left alone by the steps of
\* the others, since lastPonIntf and what the agent holds only grow.
LEMMA OthersInOrder ==
  ASSUME RequestsInOrder, NEW s \in Subscribers, Step(s), TypeOK, InOrder(s)'
  PROVE  RequestsInOrder'
<1>1. SUFFICES ASSUME NEW t \in Subscribers, t # s PROVE InOrder(t)'
  BY ConfigStable DEF Step, RequestsInOrder
<1>2. InOrder(t) /\ sub'[t] = sub[t] /\ PonIntf(t)' = PonIntf(t) /\ GroupID(t)' = GroupID(t) /\ Grows
  BY <1>1, ConfigStable DEF Step, RequestsInOrder, OnlyBy
<1>3. PonIntf(t) \in Nat
  BY PonsAreNumbers
<1>4. sub'[t].pc = "add" => PonIntf(t) <= lastPonIntf'
  <2>1. sub[t].pc = "add" => PonIntf(t) <= lastPonIntf
    BY <1>2 DEF InOrder
  <2>2. lastPonIntf \in Nat /\ lastPonIntf' \in Nat /\ lastPonIntf <= lastPonIntf'
    BY <1>2 DEF Grows
  <2> QED
    BY <1>2, <1>3, <2>1, <2>2
<1> QED
  BY <1>2, <1>4 DEF InOrder, Grows

\* The next request, by the present one.
LEMMA FollowingByStage ==
  ASSUME NEW s
  PROVE  /\ sub[s].pc = "group" => Following(s) = "flow id"
         /\ sub[s].pc = "flow" => Following(s) \in {"sched", "member"}
         /\ sub[s].pc = "flow" => (Following(s) = "sched" <=> sub[s].addSched)
         /\ sub[s].pc = "sched" => Following(s) = "queue"
         /\ sub[s].pc = "queue" => Following(s) = "member"
         /\ sub[s].pc = "member" => Following(s) = "ended"
  BY DEF Following

\* Each step leaves the subscriber that takes it in order.
LEMMA StepInOrder ==
  ASSUME TypeOK, NEW s \in Subscribers, InOrder(s), DeployWorkflow(s)
  PROVE  InOrder(s)'
<1> DEFINE Stable == PonIntf(s)' = PonIntf(s) /\ GroupID(s)' = GroupID(s)
<1>0. PonIntf(s) \in Nat /\ lastPonIntf \in Nat
  BY PonsAreNumbers DEF TypeOK
<1>1. CASE NothingToDo(s)
  <2>1. Step(s) /\ sub'[s].pc = "ended"
    BY <1>1, NothingToDoEffect
  <2> QED
    BY <2>1 DEF InOrder, Requests
<1>2. CASE LoadLastPonIntf(s)
  <2>1. /\ Step(s) /\ Keeps(s) /\ sub[s].pc = "load"
        /\ sub'[s].pc = IF PonIntf(s) = lastPonIntf THEN "add" ELSE FirstRequest(s, "member")
        /\ sub'[s].reason = sub[s].reason
    BY <1>2, LoadEffect
  <2>2. sub[s].reason = "none" /\ ~sub[s].addSched
    BY <2>1 DEF InOrder
  <2>3. Stable /\ lastPonIntf' = lastPonIntf
    BY <2>1, ConfigStable DEF Step, Keeps, CreatorsStay
  <2> QED
    BY <1>0, <2>1, <2>2, <2>3 DEF InOrder, Keeps, CreatorsStay, FirstRequest, Requests
<1>3. CASE AddLastPonIntf(s)
  <2>1. /\ Step(s) /\ sub[s].pc = "add"
        /\ sub'[s].pc = FirstRequest(s, "sched") /\ sub'[s].addSched = TRUE
        /\ sub'[s].reason = sub[s].reason
    BY <1>3, AddEffect
  <2>2. sub[s].reason = "none"
    BY <2>1 DEF InOrder
  <2>3. Stable
    BY <2>1, ConfigStable DEF Step
  <2> QED
    BY <2>1, <2>2, <2>3 DEF InOrder, FirstRequest, Requests
<1>4. CASE CreateGroup(s)
  <2>1. PICK answer : CreatedGroup(s, answer)
    BY <1>4, CreateGroupEffect
  <2>2. Stable /\ Following(s) = "flow id" /\ sub[s].reason = "none"
    BY <2>1, ConfigStable, FollowingByStage DEF CreatedGroup, Step, InOrder
  <2> QED
    BY <2>1, <2>2 DEF CreatedGroup, Outcome, Keeps, CreatorsStay, InOrder, Requests
<1>5. CASE GetFlowID(s)
  <2>1. /\ Step(s) /\ CreatorsStay(s) /\ sub[s].pc = "flow id" /\ sub'[s].pc = "flow"
        /\ sub'[s].reason = sub[s].reason /\ groups' = groups
    BY <1>5, GetFlowIDEffect DEF agent
  <2>2. Stable
    BY <2>1, ConfigStable DEF Step
  <2> QED
    BY <2>1, <2>2 DEF CreatorsStay, InOrder, Requests
<1>6. CASE AddMulticastFlow(s)
  <2>1. PICK answer : AddedFlow(s, answer)
    BY <1>6, AddFlowEffect
  <2>2. /\ Stable /\ Following(s) \in {"sched", "member"} /\ sub[s].reason = "none"
        /\ Following(s) = "sched" <=> sub[s].addSched
    BY <2>1, ConfigStable, FollowingByStage DEF AddedFlow, Step, InOrder
  <2> QED
    BY <2>1, <2>2 DEF AddedFlow, Outcome, Keeps, CreatorsStay, InOrder, Requests
<1>7. CASE AddMulticastSched(s)
  <2>1. PICK answer : AddedSched(s, answer)
    BY <1>7, AddSchedEffect
  <2>2. Stable /\ Following(s) = "queue" /\ sub[s].reason = "none"
    BY <2>1, ConfigStable, FollowingByStage DEF AddedSched, Step, InOrder
  <2> QED
    BY <2>1, <2>2 DEF AddedSched, Outcome, Keeps, CreatorsStay, InOrder, Requests
<1>8. CASE OpMulticastTrafficQueue(s)
  <2>1. PICK answer : AddedQueue(s, answer)
    BY <1>8, AddQueueEffect
  <2>2. Stable /\ Following(s) = "member" /\ sub[s].reason = "none"
    BY <2>1, ConfigStable, FollowingByStage DEF AddedQueue, Step, InOrder
  <2> QED
    BY <2>1, <2>2 DEF AddedQueue, Outcome, Keeps, CreatorsStay, InOrder, Requests
<1>9. CASE OpMemberToGroup(s)
  <2>1. PICK answer : AddedMember(s, answer)
    BY <1>9, AddMemberEffect
  <2>2. sub'[s].pc = "ended"
    BY <2>1, FollowingByStage DEF AddedMember, Outcome
  <2> QED
    BY <2>2 DEF InOrder, Requests
<1> QED
  BY <1>1, <1>2, <1>3, <1>4, <1>5, <1>6, <1>7, <1>8, <1>9 DEF DeployWorkflow

-----------------------------------------------------------------------------
(* Who creates the schedulers and queues. *)

\* A step that moves neither the counter nor any creator leaves the gaps alone.
LEMMA GapsStay ==
  ASSUME GapsComeFromOverlap, NEW s \in Subscribers, Step(s), CreatorsStay(s)
  PROVE  GapsComeFromOverlap'
<1>1. \A t \in Subscribers : sub'[t].addSched = sub[t].addSched
  BY DEF Step, OnlyBy, CreatorsStay
<1>2. \A p : Creators(p)' = Creators(p)
  BY <1>1, ConfigStable DEF Creators, Step
<1>3. lastPonIntf' = lastPonIntf
  BY DEF CreatorsStay
<1> QED
  BY <1>2, <1>3 DEF GapsComeFromOverlap, Overlap

\* AddLastPonIntf moves the counter past one PON, and that PON has a creator, or
\* the subscriber is of a lower PON, which has two now or is a gap itself.
LEMMA GapsOfAdd ==
  ASSUME TypeOK, GapsComeFromOverlap, NEW s \in Subscribers, InOrder(s), AddLastPonIntf(s)
  PROVE  GapsComeFromOverlap'
<1>1. /\ Step(s) /\ sub[s].pc = "add" /\ lastPonIntf' = lastPonIntf + 1
      /\ sub'[s].addSched = TRUE
  BY AddEffect
<1>2. PICK own \in Nat : own = PonIntf(s)
  BY PonsAreNumbers
<1>3. lastPonIntf \in Nat /\ own <= lastPonIntf /\ ~sub[s].addSched
  BY <1>1, <1>2 DEF InOrder, TypeOK
<1>4. \A p : Creators(p) \subseteq Creators(p)'
  BY <1>1, <1>3, ConfigStable DEF Creators, Step, OnlyBy
<1>5. s \in Creators(own)' /\ s \notin Creators(own)
  BY <1>1, <1>2, <1>3, ConfigStable DEF Creators, Step
<1>6. SUFFICES ASSUME NEW p \in 0 .. lastPonIntf, Creators(p)' = {}
               PROVE  \E q \in 0 .. p - 1 : Overlap(q)'
  BY <1>1, <1>3 DEF GapsComeFromOverlap
<1>7. Creators(p) = {} /\ p # own
  BY <1>4, <1>5, <1>6
<1>8. CASE p < lastPonIntf
  <2>1. PICK q \in 0 .. p - 1 : Overlap(q)
    BY <1>3, <1>7, <1>8 DEF GapsComeFromOverlap
  <2> QED
    BY <2>1, <1>4 DEF Overlap
<1>9. CASE p = lastPonIntf
  <2>1. own \in 0 .. p - 1
    BY <1>3, <1>7, <1>9
  <2>2. CASE Creators(own) # {}
    <3>1. PICK t : t \in Creators(own)
      BY <2>2
    <3>2. s \in Creators(own)' /\ t \in Creators(own)' /\ s # t
      BY <3>1, <1>4, <1>5
    <3> QED
      BY <2>1, <3>2 DEF Overlap
  <2>3. CASE Creators(own) = {}
    <3>1. PICK q \in 0 .. own - 1 : Overlap(q)
      BY <2>1, <2>3, <1>3, <1>9 DEF GapsComeFromOverlap
    <3>2. q \in 0 .. p - 1
      BY <2>1, <1>3
    <3> QED
      BY <3>1, <3>2, <1>4 DEF Overlap
  <2> QED
    BY <2>2, <2>3
<1> QED
  BY <1>3, <1>8, <1>9

\* Of all steps only AddLastPonIntf moves the counter or makes a creator.
LEMMA OnlyAddMoves ==
  ASSUME TypeOK, NEW s \in Subscribers, DeployWorkflow(s)
  PROVE  Step(s) /\ (CreatorsStay(s) \/ AddLastPonIntf(s))
<1>1. CASE NothingToDo(s)
  BY <1>1, NothingToDoEffect DEF Keeps
<1>2. CASE LoadLastPonIntf(s)
  BY <1>2, LoadEffect DEF Keeps
<1>3. CASE AddLastPonIntf(s)
  BY <1>3, AddEffect
<1>4. CASE CreateGroup(s)
  BY <1>4, CreateGroupEffect DEF CreatedGroup, Keeps
<1>5. CASE GetFlowID(s)
  BY <1>5, GetFlowIDEffect
<1>6. CASE AddMulticastFlow(s)
  BY <1>6, AddFlowEffect DEF AddedFlow, Keeps
<1>7. CASE AddMulticastSched(s)
  BY <1>7, AddSchedEffect DEF AddedSched, Keeps
<1>8. CASE OpMulticastTrafficQueue(s)
  BY <1>8, AddQueueEffect DEF AddedQueue, Keeps
<1>9. CASE OpMemberToGroup(s)
  BY <1>9, AddMemberEffect DEF AddedMember, Keeps
<1> QED
  BY <1>1, <1>2, <1>3, <1>4, <1>5, <1>6, <1>7, <1>8, <1>9 DEF DeployWorkflow

\* Requests leave alone what a subscriber has loaded, and come after it.
LEMMA RequestsKeepSeen ==
  ASSUME NEW s, DeployWorkflow(s)
  PROVE  \/ NothingToDo(s) \/ LoadLastPonIntf(s) \/ AddLastPonIntf(s)
         \/ seen' = seen /\ sub[s].pc \notin {"load", "add"}
<1>1. CASE CreateGroup(s)
  BY <1>1 DEF CreateGroup, At
<1>2. CASE GetFlowID(s)
  BY <1>2 DEF GetFlowID, At
<1>3. CASE AddMulticastFlow(s)
  BY <1>3 DEF AddMulticastFlow, At
<1>4. CASE AddMulticastSched(s)
  BY <1>4 DEF AddMulticastSched, At
<1>5. CASE OpMulticastTrafficQueue(s)
  BY <1>5 DEF OpMulticastTrafficQueue, At
<1>6. CASE OpMemberToGroup(s)
  BY <1>6 DEF OpMemberToGroup, At
<1> QED
  BY <1>1, <1>2, <1>3, <1>4, <1>5, <1>6 DEF DeployWorkflow

\* What SeenInOrder says of one subscriber.
Seen(s) ==
  /\ sub[s].pc # "load" => seen[s] <= lastPonIntf
  /\ sub[s].pc \notin {"load", "add"} /\ seen[s] = PonIntf(s) => sub[s].addSched

\* A step leaves alone what the other subscribers have loaded, and lastPonIntf
\* does not fall; the subscriber itself becomes a creator if it saw its own PON.
LEMMA SeenStep ==
  ASSUME TypeOK, SeenInOrder, NEW s \in Subscribers, DeployWorkflow(s)
  PROVE  SeenInOrder'
<1>1. Step(s) /\ (CreatorsStay(s) \/ AddLastPonIntf(s))
  BY OnlyAddMoves
<1>2. /\ sc' = sc /\ Subscribers' = Subscribers /\ \A t : PonIntf(t)' = PonIntf(t)
      /\ lastPonIntf \in Nat /\ lastPonIntf' \in Nat /\ lastPonIntf <= lastPonIntf'
      /\ seen \in [Subscribers -> Nat]
  BY <1>1, ConfigStable DEF Step, Grows, SeenInOrder
<1>3. /\ seen' \in [Subscribers -> Nat]
      /\ \A t \in Subscribers : t # s => seen'[t] = seen[t]
      /\ seen' = seen \/ LoadLastPonIntf(s)
  <2>1. CASE LoadLastPonIntf(s)
    BY <1>2, <2>1 DEF LoadLastPonIntf
  <2>2. CASE NothingToDo(s)
    BY <1>2, <2>2 DEF NothingToDo
  <2>3. CASE AddLastPonIntf(s)
    BY <1>2, <2>3 DEF AddLastPonIntf
  <2> QED
    BY <1>2, <2>1, <2>2, <2>3, RequestsKeepSeen
<1>4. SUFFICES ASSUME NEW t \in Subscribers, sc.workflow = "TT"
               PROVE  Seen(t)'
  BY <1>2, <1>3 DEF SeenInOrder, Seen
<1>5. Seen(t) /\ seen[t] \in Nat /\ PonIntf(t) \in Nat
  BY <1>2, <1>4, PonsAreNumbers DEF SeenInOrder, Seen
<1>6. CASE t # s
  <2>1. sub'[t] = sub[t] /\ seen'[t] = seen[t]
    BY <1>1, <1>3, <1>6 DEF Step, OnlyBy
  <2> QED
    BY <1>2, <1>5, <2>1 DEF Seen
<1>7. CASE t = s
  <2>1. CASE NothingToDo(s)
    BY <1>4, <2>1, NothingToDoEffect
  <2>2. CASE LoadLastPonIntf(s)
    <3>1. sub'[s].pc = IF PonIntf(s) = lastPonIntf THEN "add" ELSE FirstRequest(s, "member")
      BY <2>2, LoadEffect
    <3>2. seen'[s] = lastPonIntf /\ lastPonIntf' = lastPonIntf
      BY <1>2, <2>2 DEF LoadLastPonIntf
    <3> QED
      BY <1>2, <1>5, <1>7, <3>1, <3>2 DEF Seen
  <2>3. CASE AddLastPonIntf(s)
    <3>1. sub[s].pc = "add" /\ sub'[s].addSched = TRUE /\ seen' = seen
      BY <2>3, AddEffect DEF AddLastPonIntf
    <3> QED
      BY <1>2, <1>5, <1>7, <3>1 DEF Seen
  <2>4. CASE seen' = seen /\ sub[s].pc \notin {"load", "add"}
    <3>1. sub'[s].addSched = sub[s].addSched
      BY <1>1, <2>4 DEF CreatorsStay, AddLastPonIntf
    <3> QED
      BY <1>2, <1>5, <1>7, <2>4, <3>1 DEF Seen
  <2> QED
    BY <2>1, <2>2, <2>3, <2>4, RequestsKeepSeen
<1> QED
  BY <1>6, <1>7

-----------------------------------------------------------------------------
(* What a success says. *)

Success == "SUBSCRIBER_PROVISION_SUCCESS"

\* A subscriber that has set the members of its group, if it is to.
Past(pc) == pc \notin {"load", "add", "group"}

\* How a step changes the groups, their members and the queues, and from where
\* it succeeds.
Progress(s) ==
  /\ sub[s].pc # "ended"
  /\ Past(sub[s].pc) => Past(sub'[s].pc)
  /\ \/ groups' = groups
     \/ groups' \subseteq groups \cup {GroupID(s)} /\ PonIntf(s) = 0 /\ Past(sub'[s].pc)
  /\ \/ members \subseteq members'
     \/ /\ PonIntf(s) = 0 /\ sub[s].pc = "group"
        /\ \A m \in members : m \in members' \/ m[1] = GroupID(s)
  /\ queues' = queues \/ (queues' \subseteq queues \cup {s} /\ s \in scheds)
  /\ sc.workflow = "TT" /\ sub'[s].reason = Success =>
       /\ sub[s].pc = "member" /\ Keeps(s)
       /\ <<GroupID(s), PonIntf(s)>> \in members' /\ GroupID(s) \in groups

\* Every step makes progress in this sense.
LEMMA StepProgress ==
  ASSUME TypeOK, NEW s \in Subscribers, InOrder(s), DeployWorkflow(s)
  PROVE  Progress(s)
<1> USE DEF Success
<1>1. CASE NothingToDo(s)
  <2>1. sub[s].pc = "load" /\ sub'[s].pc = "ended" /\ sc.workflow # "TT" /\ UNCHANGED agent
    BY <1>1, NothingToDoEffect
  <2> QED
    BY <2>1 DEF Progress, Past, agent
<1>2. CASE LoadLastPonIntf(s)
  <2>1. sub[s].pc = "load" /\ sub'[s].reason = sub[s].reason /\ UNCHANGED agent
    BY <1>2, LoadEffect
  <2> QED
    BY <2>1 DEF Progress, Past, agent, InOrder
<1>3. CASE AddLastPonIntf(s)
  <2>1. sub[s].pc = "add" /\ sub'[s].reason = sub[s].reason /\ UNCHANGED agent
    BY <1>3, AddEffect
  <2> QED
    BY <2>1 DEF Progress, Past, agent, InOrder
<1>4. CASE CreateGroup(s)
  <2>1. PICK answer : CreatedGroup(s, answer)
    BY <1>4, CreateGroupEffect
  <2>2. /\ Following(s) = "flow id" /\ sub[s].reason = "none" /\ PonIntf(s) = 0
        /\ sub[s].pc = "group"
    BY <2>1, FollowingByStage DEF CreatedGroup, InOrder
  <2>3. Past(sub'[s].pc) /\ sub'[s].reason # Success
    BY <2>1, <2>2 DEF CreatedGroup, Outcome, Past
  <2> QED
    BY <2>1, <2>2, <2>3 DEF CreatedGroup, Progress, Past
<1>5. CASE GetFlowID(s)
  <2>1. /\ sub[s].pc = "flow id" /\ sub'[s].pc = "flow" /\ sub'[s].reason = sub[s].reason
        /\ UNCHANGED agent
    BY <1>5, GetFlowIDEffect
  <2> QED
    BY <2>1 DEF Progress, Past, agent, InOrder
<1>6. CASE AddMulticastFlow(s)
  <2>1. PICK answer : AddedFlow(s, answer)
    BY <1>6, AddFlowEffect
  <2>2. Following(s) \in {"sched", "member"} /\ sub[s].reason = "none" /\ sub[s].pc = "flow"
    BY <2>1, FollowingByStage DEF AddedFlow, InOrder
  <2>3. Past(sub'[s].pc) /\ sub'[s].reason # Success
    BY <2>1, <2>2 DEF AddedFlow, Outcome, Past
  <2> QED
    BY <2>1, <2>2, <2>3 DEF AddedFlow, Progress
<1>7. CASE AddMulticastSched(s)
  <2>1. PICK answer : AddedSched(s, answer)
    BY <1>7, AddSchedEffect
  <2>2. Following(s) = "queue" /\ sub[s].reason = "none" /\ sub[s].pc = "sched"
    BY <2>1, FollowingByStage DEF AddedSched, InOrder
  <2>3. Past(sub'[s].pc) /\ sub'[s].reason # Success
    BY <2>1, <2>2 DEF AddedSched, Outcome, Past
  <2> QED
    BY <2>1, <2>2, <2>3 DEF AddedSched, Progress
<1>8. CASE OpMulticastTrafficQueue(s)
  <2>1. PICK answer : AddedQueue(s, answer)
    BY <1>8, AddQueueEffect
  <2>2. Following(s) = "member" /\ sub[s].reason = "none" /\ sub[s].pc = "queue" /\ s \in scheds
    BY <2>1, FollowingByStage DEF AddedQueue, InOrder
  <2>3. Past(sub'[s].pc) /\ sub'[s].reason # Success
    BY <2>1, <2>2 DEF AddedQueue, Outcome, Past
  <2> QED
    BY <2>1, <2>2, <2>3 DEF AddedQueue, Progress
<1>9. CASE OpMemberToGroup(s)
  <2>1. PICK answer : AddedMember(s, answer)
    BY <1>9, AddMemberEffect
  <2>2. sub[s].pc = "member" /\ sub'[s].pc = "ended" /\ (sub'[s].reason = Success => answer = "ok")
    BY <2>1, FollowingByStage DEF AddedMember, Outcome
  <2> QED
    BY <2>1, <2>2 DEF AddedMember, Progress, Past
<1> QED
  BY <1>1, <1>2, <1>3, <1>4, <1>5, <1>6, <1>7, <1>8, <1>9 DEF DeployWorkflow

\* The subscriber that set the members of a group stays past that.
LEMMA NewGroupsStep ==
  ASSUME TypeOK, NewGroupsWereSet, NEW s \in Subscribers, Step(s), Progress(s)
  PROVE  NewGroupsWereSet'
<1>1. SUFFICES ASSUME NEW g \in groups' \ sc'.groups
               PROVE  \E t \in Setters(g)' : Past(sub'[t].pc)
  BY DEF NewGroupsWereSet, Past
<1>2. sc' = sc /\ Setters(g)' = Setters(g) /\ OnlyBy(s)
  BY ConfigStable DEF Step
<1>3. CASE g \in groups
  <2>1. PICK t \in Setters(g) : Past(sub[t].pc)
    BY <1>1, <1>2, <1>3 DEF NewGroupsWereSet, Past
  <2>2. t \in Subscribers
    BY DEF Setters
  <2>3. Past(sub'[t].pc)
    BY <1>2, <2>1, <2>2 DEF Progress, OnlyBy
  <2> QED
    BY <1>2, <2>1, <2>3
<1>4. CASE g \notin groups
  <2>1. g = GroupID(s) /\ PonIntf(s) = 0 /\ Past(sub'[s].pc)
    BY <1>1, <1>4 DEF Progress
  <2>2. s \in Setters(g)
    BY <2>1 DEF Setters
  <2> QED
    BY <1>2, <2>1, <2>2
<1> QED
  BY <1>3, <1>4

\* Nothing that a successful subscriber had created is taken away, and the last
\* request succeeds when all the others have.
LEMMA CreatedStep ==
  ASSUME TypeOK, SuccessMeansCreated, NEW s \in Subscribers, InOrder(s), Step(s), Progress(s)
  PROVE  SuccessMeansCreated'
<1>1. sc' = sc /\ Grows /\ OnlyBy(s) /\ Subscribers' = Subscribers
  BY ConfigStable DEF Step
<1>2. (queues \subseteq scheds)'
  BY <1>1 DEF SuccessMeansCreated, Progress, Grows
<1>3. SUFFICES ASSUME NEW t \in Subscribers, sc.workflow = "TT", sub'[t].reason = Success
               PROVE  /\ sub'[t].addSched => t \in queues'
                      /\ GroupID(t)' \in groups'
                      /\ PonIntf(t)' = 0 => sub'[t].flow \in flows'
  BY <1>1, <1>2 DEF SuccessMeansCreated, Success
<1>4. PonIntf(t)' = PonIntf(t) /\ GroupID(t)' = GroupID(t)
  BY <1>1, ConfigStable
<1>5. CASE t # s
  <2>1. sub'[t] = sub[t]
    BY <1>1, <1>5 DEF OnlyBy
  <2>2. /\ sub[t].addSched => t \in queues
        /\ GroupID(t) \in groups
        /\ PonIntf(t) = 0 => sub[t].flow \in flows
    BY <1>3, <2>1 DEF SuccessMeansCreated, Success
  <2> QED
    BY <1>1, <1>4, <2>1, <2>2 DEF Grows
<1>6. CASE t = s
  <2>1. sub[s].pc = "member" /\ Keeps(s) /\ GroupID(s) \in groups
    BY <1>3, <1>6 DEF Progress
  <2>2. /\ sub[s].addSched => s \in queues
        /\ PonIntf(s) = 0 => sub[s].flow \in flows
    BY <2>1 DEF InOrder
  <2>3. sub'[s].addSched = sub[s].addSched /\ sub'[s].flow = sub[s].flow
    BY <2>1 DEF Keeps, CreatorsStay
  <2> QED
    BY <1>1, <1>4, <1>6, <2>1, <2>2, <2>3 DEF Grows
<1> QED
  BY <1>5, <1>6

\* Only a subscriber of PON 0 that sets the members of the same group takes the
\* member of a successful subscriber away; the one that there may be has set
\* them before: the group was there when the member was added.
LEMMA MemberStep ==
  ASSUME TypeOK, SuccessMeansMember, SuccessMeansCreated, NewGroupsWereSet,
         NEW s \in Subscribers, Step(s), Progress(s)
  PROVE  SuccessMeansMember'
<1>1. sc' = sc /\ OnlyBy(s) /\ Subscribers' = Subscribers
  BY ConfigStable DEF Step
<1>2. SUFFICES ASSUME NEW t \in Subscribers, sc.workflow = "TT", sub'[t].reason = Success,
                      \A v, u \in Setters(GroupID(t))' : v = u, GroupID(t)' \notin sc'.groups
               PROVE  <<GroupID(t)', PonIntf(t)'>> \in members'
  BY <1>1 DEF SuccessMeansMember, Success
<1>3. /\ PonIntf(t)' = PonIntf(t) /\ GroupID(t)' = GroupID(t)
      /\ Setters(GroupID(t))' = Setters(GroupID(t))
  BY <1>1, ConfigStable
<1>4. GroupID(t) \notin sc.groups /\ \A v, u \in Setters(GroupID(t)) : v = u
  BY <1>1, <1>2, <1>3 DEF Setters
<1>5. CASE t = s
  <2>1. <<GroupID(s), PonIntf(s)>> \in members'
    BY <1>2, <1>5 DEF Progress
  <2> QED
    BY <2>1, <1>3, <1>5
<1>6. CASE t # s
  <2>1. sub[t].reason = Success
    BY <1>1, <1>2, <1>6 DEF OnlyBy
  <2>2. <<GroupID(t), PonIntf(t)>> \in members
    BY <1>2, <1>4, <2>1 DEF SuccessMeansMember, Success
  <2>3. CASE members \subseteq members'
    BY <1>3, <2>2, <2>3
  <2>4. CASE PonIntf(s) = 0 /\ sub[s].pc = "group" /\ \A m \in members : m \in members' \/ m[1] = GroupID(s)
    <3>1. SUFFICES ASSUME GroupID(t) = GroupID(s) PROVE FALSE
      BY <1>3, <2>2, <2>4
    <3>2. GroupID(t) \in groups \ sc.groups
      BY <1>2, <1>4, <2>1 DEF SuccessMeansCreated, Success
    <3>3. PICK v \in Setters(GroupID(t)) : Past(sub[v].pc)
      BY <3>2 DEF NewGroupsWereSet, Past
    <3>4. s \in Setters(GroupID(t))
      BY <2>4, <3>1 DEF Setters
    <3> QED
      BY <1>4, <2>4, <3>3, <3>4 DEF Past
  <2> QED
    BY <2>3, <2>4 DEF Progress
<1> QED
  BY <1>5, <1>6

-----------------------------------------------------------------------------
(* The theorems. *)

\* The initial states satisfy the invariant: nobody has started.
LEMMA InitInd == Init => IndInv
<1> SUFFICES ASSUME Init PROVE IndInv
  OBVIOUS
<1>1. TypeOK
  BY DEF Init, TypeOK, NewSubscriber, SubscriberStates
<1>2. \A s \in Subscribers : sub[s].pc = "load" /\ ~sub[s].addSched /\ sub[s].reason = "none"
  BY DEF Init, NewSubscriber
<1>3. RequestsInOrder
  BY <1>2 DEF RequestsInOrder, InOrder, Requests
<1>4. NewGroupsWereSet /\ GapsComeFromOverlap
  BY DEF Init, NewGroupsWereSet, GapsComeFromOverlap
<1>5. SuccessMeansCreated /\ SuccessMeansMember
  <2>1. queues \subseteq scheds
    BY DEF Init
  <2> QED
    BY <1>2, <2>1 DEF SuccessMeansCreated, SuccessMeansMember
<1>6. SeenInOrder
  <2>1. seen \in [Subscribers -> Nat]
    BY DEF Init
  <2> QED
    BY <1>2, <2>1 DEF SeenInOrder
<1> QED
  BY <1>1, <1>3, <1>4, <1>5, <1>6 DEF IndInv

\* Every step preserves it.
LEMMA NextInd == IndInv /\ [Next]_vars => IndInv'
<1> SUFFICES ASSUME IndInv, [Next]_vars PROVE IndInv'
  OBVIOUS
<1>1. CASE UNCHANGED vars
  <2>1. /\ sc' = sc /\ lastPonIntf' = lastPonIntf /\ flowId' = flowId /\ sub' = sub /\ seen' = seen
        /\ groups' = groups /\ members' = members /\ flows' = flows /\ scheds' = scheds /\ queues' = queues
    BY <1>1 DEF vars
  <2>2. TypeOK' /\ RequestsInOrder' /\ NewGroupsWereSet'
    BY <2>1, ZenonT(60) DEF IndInv, TypeOK, RequestsInOrder, InOrder, NewGroupsWereSet, Setters, Subscribers,
                PonIntf, GroupID
  <2>3. GapsComeFromOverlap' /\ SuccessMeansCreated' /\ SuccessMeansMember'
    BY <2>1 DEF IndInv, GapsComeFromOverlap, SuccessMeansCreated, SuccessMeansMember, Setters,
                Creators, Overlap, Subscribers, PonIntf, GroupID
  <2>4. SeenInOrder'
    BY <2>1 DEF IndInv, SeenInOrder, Subscribers, PonIntf
  <2> QED
    BY <2>2, <2>3, <2>4 DEF IndInv
<1>2. CASE \E s \in Subscribers : DeployWorkflow(s)
  <2>1. PICK s \in Subscribers : DeployWorkflow(s)
    BY <1>2
  <2>2. /\ TypeOK /\ RequestsInOrder /\ InOrder(s) /\ NewGroupsWereSet /\ SeenInOrder
        /\ GapsComeFromOverlap /\ SuccessMeansCreated /\ SuccessMeansMember
    BY DEF IndInv, RequestsInOrder
  <2>3. Step(s) /\ (CreatorsStay(s) \/ AddLastPonIntf(s))
    BY <2>1, <2>2, OnlyAddMoves
  <2>4. Progress(s)
    BY <2>1, <2>2, StepProgress
  <2>5. TypeOK'
    BY <2>3 DEF Step
  <2>6. RequestsInOrder'
    BY <2>1, <2>2, <2>3, StepInOrder, OthersInOrder
  <2>7. NewGroupsWereSet'
    BY <2>2, <2>3, <2>4, NewGroupsStep
  <2>8. GapsComeFromOverlap'
    BY <2>2, <2>3, GapsStay, GapsOfAdd
  <2>9. SuccessMeansCreated'
    BY <2>2, <2>3, <2>4, CreatedStep
  <2>10. SuccessMeansMember'
    BY <2>2, <2>3, <2>4, MemberStep
  <2>11. SeenInOrder'
    BY <2>1, <2>2, SeenStep
  <2> QED
    BY <2>5, <2>6, <2>7, <2>8, <2>9, <2>10, <2>11 DEF IndInv
<1> QED
  BY <1>1, <1>2 DEF Next, AllEnded

\* The inductive invariant of the multicast requests holds in every state.
THEOREM IndInvHolds == Spec => []IndInv
<1> QED
  BY InitInd, NextInd, PTL DEF Spec

\* When lastPonIntf is past a PON whose scheduler and queue nobody has taken on
\* creating, two subscribers of one lower PON have both taken on theirs.
THEOREM GapsAreFromOverlap == Spec => []GapsComeFromOverlap
<1>1. IndInv => GapsComeFromOverlap
  BY DEF IndInv
<1> QED
  BY <1>1, IndInvHolds, PTL

\* Once all its subscribers have compared lastPonIntf with their PON, a PON whose
\* scheduler and queue none of them creates is one to which lastPonIntf had not
\* come for any of them, or one that two creators of a lower PON passed over.
THEOREM UnservedAreExplained == Spec => []UnservedPonsExplained
<1>1. IndInv => UnservedPonsExplained
  <2> SUFFICES ASSUME IndInv, NEW s0 \in Subscribers, NEW p, p = PonIntf(s0),
                      sc.workflow = "TT", Creators(p) = {},
                      \A s \in Subscribers : PonIntf(s) = p => sub[s].pc \notin {"load", "add"},
                      NEW s \in Subscribers, PonIntf(s) = p, ~(seen[s] < p)
               PROVE  \E q \in 0 .. p - 1 : Overlap(q)
    BY DEF UnservedPonsExplained
  <2>1. TypeOK /\ SeenInOrder /\ GapsComeFromOverlap
    BY DEF IndInv
  <2>2. p \in Nat /\ seen[s] \in Nat /\ lastPonIntf \in Nat
    BY <2>1, PonsAreNumbers DEF TypeOK, SeenInOrder
  <2>3. seen[s] <= lastPonIntf /\ (seen[s] = p => sub[s].addSched)
    BY <2>1 DEF SeenInOrder
  <2>4. seen[s] # p
    BY <2>3 DEF Creators
  <2>5. p \in 0 .. lastPonIntf - 1
    BY <2>2, <2>3, <2>4
  <2> QED
    BY <2>1, <2>5 DEF GapsComeFromOverlap
<1> QED
  BY <1>1, IndInvHolds, PTL

\* A success says that the agent holds all the subscriber was to create.
THEOREM SuccessIsCreated == Spec => []SuccessMeansCreated
<1>1. IndInv => SuccessMeansCreated
  BY DEF IndInv
<1> QED
  BY <1>1, IndInvHolds, PTL

\* A success says that the PON is a member of the group, where one subscriber
\* sets its members and no earlier run has left it behind.
THEOREM SuccessIsMember == Spec => []SuccessMeansMember
<1>1. IndInv => SuccessMeansMember
  BY DEF IndInv
<1> QED
  BY <1>1, IndInvHolds, PTL

\* A PON that is passed over is so for good: the counter never returns to it,
\* and a subscriber increments the counter only if it found it at its own PON.
LEMMA PassedOverStep ==
  ASSUME TypeOK, NEW s \in Subscribers, DeployWorkflow(s), NEW p \in Nat, PassedOver(p)
  PROVE  PassedOver(p)'
<1>1. Step(s) /\ (CreatorsStay(s) \/ AddLastPonIntf(s))
  BY OnlyAddMoves
<1>2. p < lastPonIntf /\ lastPonIntf \in Nat /\ lastPonIntf' \in Nat /\ lastPonIntf <= lastPonIntf'
  BY <1>1 DEF PassedOver, Step, Grows
<1>3. p < lastPonIntf'
  BY <1>2
<1>4. SUFFICES ASSUME NEW t \in Subscribers, PonIntf(t) = p
               PROVE  sub'[t].pc # "add" /\ ~sub'[t].addSched
  BY <1>1, <1>3, ConfigStable DEF PassedOver, Step
<1>5. sub[t].pc # "add" /\ ~sub[t].addSched
  BY <1>4 DEF PassedOver
<1>6. CASE t # s
  BY <1>1, <1>5, <1>6 DEF Step, OnlyBy
<1>7. CASE t = s
  <2>1. CreatorsStay(s)
    BY <1>1, <1>5, <1>7 DEF AddLastPonIntf
  <2>2. ~sub'[s].addSched
    BY <1>5, <1>7, <2>1 DEF CreatorsStay
  <2>3. sub'[s].pc # "add"
    <3>1. CASE LoadLastPonIntf(s)
      <4>1. sub'[s].pc = FirstRequest(s, "member")
        BY <1>2, <1>4, <1>7, <3>1, LoadEffect
      <4> QED
        BY <4>1 DEF FirstRequest
    <3>2. CASE NothingToDo(s)
      BY <3>2, NothingToDoEffect
    <3>3. CASE GetFlowID(s)
      BY <3>3, GetFlowIDEffect
    <3>4. CASE CreateGroup(s)
      BY <3>4, CreateGroupEffect, FollowingIsRequest DEF CreatedGroup, Outcome, Requests
    <3>5. CASE AddMulticastFlow(s)
      BY <3>5, AddFlowEffect, FollowingIsRequest DEF AddedFlow, Outcome, Requests
    <3>6. CASE AddMulticastSched(s)
      BY <3>6, AddSchedEffect, FollowingIsRequest DEF AddedSched, Outcome, Requests
    <3>7. CASE OpMulticastTrafficQueue(s)
      BY <3>7, AddQueueEffect, FollowingIsRequest DEF AddedQueue, Outcome, Requests
    <3>8. CASE OpMemberToGroup(s)
      BY <3>8, AddMemberEffect, FollowingIsRequest DEF AddedMember, Outcome, Requests
    <3>9. ~AddLastPonIntf(s)
      BY <1>5, <1>7 DEF AddLastPonIntf
    <3> QED
      BY <3>1, <3>2, <3>3, <3>4, <3>5, <3>6, <3>7, <3>8, <3>9 DEF DeployWorkflow
  <2> QED
    BY <1>7, <2>2, <2>3
<1> QED
  BY <1>6, <1>7

\* No later subscriber makes up for a PON that was passed over.
THEOREM PassedOverIsForGood == Spec => PassedOverForGood
<1>1. IndInv /\ [Next]_vars => [\A p \in 0 .. lastPonIntf : PassedOver(p) => PassedOver(p)']_vars
  <2> SUFFICES ASSUME IndInv, Next, NEW p \in 0 .. lastPonIntf, PassedOver(p)
               PROVE  PassedOver(p)' \/ UNCHANGED vars
    OBVIOUS
  <2>1. TypeOK /\ p \in Nat
    BY DEF IndInv, TypeOK
  <2>2. CASE AllEnded
    BY <2>2 DEF AllEnded
  <2>3. CASE \E s \in Subscribers : DeployWorkflow(s)
    BY <2>1, <2>3, PassedOverStep
  <2> QED
    BY <2>2, <2>3 DEF Next
<1> QED
  BY <1>1, IndInvHolds, PTL DEF Spec, PassedOverForGood
=============================================================================
