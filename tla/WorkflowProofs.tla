---------------------------- MODULE WorkflowProofs ----------------------------
(***************************************************************************)
(* Proofs about Workflow, for any number of subscribers and PONs, any      *)
(* number of p-bits, any answers of the agent and whatever it still holds. *)
(***************************************************************************)
EXTENDS Workflow, FiniteSetTheorems, SequenceTheorems, TLAPS

-----------------------------------------------------------------------------
(* The scripts. *)

FlowTypes == {"EAPOL", "DHCP", "IGMP", "HSIA", "VOIP", "VOD", "MGMT"}

FlowRecords == [kind : {"flow"}, dir : {"us", "ds"}, type : FlowTypes,
                pair : {"none", "opens", "closes"}]

\* The groups of flow requests: one to four requests.
FlowGroups == {q \in Seq(FlowRecords) : Len(q) \in 1 .. 4}

SingleFlowGroups == {q \in Seq(FlowRecords) : Len(q) = 1}

LEMMA FlowType ==
  ASSUME NEW type \in FlowTypes, NEW dir \in {"us", "ds"}, NEW pair \in {"none", "opens", "closes"}
  PROVE  Flow(type, dir, pair) \in FlowRecords
  BY DEF Flow, FlowRecords

LEMMA ConcatType ==
  ASSUME NEW S, NEW q \in Seq(S), NEW r \in Seq(S)
  PROVE  q \o r \in Seq(S) /\ Len(q \o r) = Len(q) + Len(r) /\ Len(q) \in Nat /\ Len(r) \in Nat
  OBVIOUS

LEMMA AppendType ==
  ASSUME NEW S, NEW q \in Seq(S), NEW e \in S
  PROVE  Append(q, e) \in Seq(S)
  OBVIOUS

LEMMA SingleFlow ==
  ASSUME NEW flow \in FlowRecords
  PROVE  <<flow>> \in SingleFlowGroups /\ <<flow>> \in Seq(FlowRecords) /\ Len(<<flow>>) = 1
  <1>1. <<flow>> \in Seq(FlowRecords) /\ Len(<<flow>>) = 1
    OBVIOUS
  <1> QED
    BY <1>1 DEF SingleFlowGroups

\* Four groups of schedulers and queues and then groups of flows.
ScriptOf(script, G) ==
  /\ script \in Seq(G \cup {Sched("ds"), Sched("us"), Queue("ds"), Queue("us")})
  /\ Len(script) >= 4
  /\ script[1] = Sched("ds") /\ script[2] = Sched("us")
  /\ script[3] = Queue("ds") /\ script[4] = Queue("us")
  /\ \A g \in 5 .. Len(script) : script[g] \in G

LEMMA ScriptBegins ==
  ASSUME NEW G
  PROVE  ScriptOf(SchedsAndQueues, G)
  BY DEF ScriptOf, SchedsAndQueues

LEMMA ScriptGrows ==
  ASSUME NEW G, NEW script, ScriptOf(script, G), NEW tail \in Seq(G), NEW longer, longer = script \o tail
  PROVE  ScriptOf(longer, G)
  <1> DEFINE S == G \cup {Sched("ds"), Sched("us"), Queue("ds"), Queue("us")}
  <1>1. script \in Seq(S) /\ Len(script) \in Nat /\ Len(script) >= 4
    BY DEF ScriptOf
  <1>2. tail \in Seq(S) /\ Len(tail) \in Nat /\ \A n \in 1 .. Len(tail) : tail[n] \in G
    OBVIOUS
  <1> HIDE DEF S
  <1>3. longer \in Seq(S) /\ Len(longer) = Len(script) + Len(tail)
    BY <1>1, <1>2
  <1>4. \A n \in 1 .. Len(script) + Len(tail) :
          longer[n] = IF n <= Len(script) THEN script[n] ELSE tail[n - Len(script)]
    BY <1>1, <1>2
  <1>5. \A n \in 1 .. 4 : longer[n] = script[n]
    BY <1>1, <1>2, <1>4
  <1>6. ASSUME NEW g \in 5 .. Len(longer) PROVE longer[g] \in G
    <2>1. CASE g <= Len(script)
      BY <1>1, <1>2, <1>3, <1>4, <2>1 DEF ScriptOf
    <2>2. CASE g > Len(script)
      <3>1. g - Len(script) \in 1 .. Len(tail) /\ longer[g] = tail[g - Len(script)]
        BY <1>1, <1>2, <1>3, <1>4, <2>2
      <3> QED
        BY <1>2, <3>1
    <2> QED
      BY <1>1, <2>1, <2>2
  <1> QED
    BY <1>1, <1>2, <1>3, <1>5, <1>6 DEF ScriptOf, S

\* The groups of one service of TT.
LEMMA TtServiceType ==
  ASSUME NEW type \in FlowTypes, NEW traps \in Seq(FlowRecords), Len(traps) <= 2
  PROVE  TtService(type, traps) \in Seq(FlowGroups)
  <1> DEFINE pair == <<Flow(type, "us", "opens"), Flow(type, "ds", "closes")>>
  <1>1. pair \in Seq(FlowRecords) /\ Len(pair) = 2
    BY FlowType
  <1> HIDE DEF pair
  <1>2. pair \o traps \in Seq(FlowRecords) /\ Len(pair \o traps) = 2 + Len(traps)
    BY <1>1, ConcatType
  <1>3. Len(traps) \in Nat
    OBVIOUS
  <1>4. pair \o traps \in FlowGroups
    BY <1>2, <1>3 DEF FlowGroups
  <1>5. [p \in 1 .. NumPbits |-> pair \o traps] \in Seq(FlowGroups)
    BY <1>4, NumPbitsAssumption
  <1> QED
    BY <1>5 DEF TtService, pair

\* The three scripts, group by group.
LEMMA ScriptFacts ==
  ASSUME workflow \in {"ATT", "DT", "TT"}
  PROVE  /\ Len(Script) \in Nat /\ Len(Script) >= 4 /\ DOMAIN Script = 1 .. Len(Script)
         /\ Script[1] = Sched("ds") /\ Script[2] = Sched("us")
         /\ Script[3] = Queue("ds") /\ Script[4] = Queue("us")
         /\ \A g \in DOMAIN Script : g > 4 => Script[g] \in FlowGroups
         /\ workflow # "TT" => \A g \in DOMAIN Script : g > 4 => Script[g] \in SingleFlowGroups
  <1>0. ASSUME NEW G, ScriptOf(Script, G)
        PROVE  /\ Len(Script) \in Nat /\ Len(Script) >= 4 /\ DOMAIN Script = 1 .. Len(Script)
               /\ Script[1] = Sched("ds") /\ Script[2] = Sched("us")
               /\ Script[3] = Queue("ds") /\ Script[4] = Queue("us")
               /\ \A g \in DOMAIN Script : g > 4 => Script[g] \in G
    <2>1. Len(Script) \in Nat /\ DOMAIN Script = 1 .. Len(Script)
      BY <1>0 DEF ScriptOf
    <2> QED
      BY <1>0, <2>1 DEF ScriptOf
  <1>1. SingleFlowGroups \subseteq FlowGroups
    BY DEF SingleFlowGroups, FlowGroups
  <1>2. /\ Flow("EAPOL", "us", "none") \in FlowRecords /\ Flow("DHCP", "us", "none") \in FlowRecords
        /\ Flow("HSIA", "us", "opens") \in FlowRecords /\ Flow("HSIA", "ds", "closes") \in FlowRecords
        /\ Flow("IGMP", "us", "none") \in FlowRecords
    BY FlowType DEF FlowTypes
  <1>3. CASE workflow = "ATT"
    <2> DEFINE eapol == <<Flow("EAPOL", "us", "none")>>
               dhcp == <<Flow("DHCP", "us", "none")>>
               up == <<Flow("HSIA", "us", "opens")>>
               down == <<Flow("HSIA", "ds", "closes")>>
    <2>1. /\ eapol \in SingleFlowGroups /\ dhcp \in SingleFlowGroups
          /\ up \in SingleFlowGroups /\ down \in SingleFlowGroups
      BY <1>2, SingleFlow, Zenon
    <2>2. Script = SchedsAndQueues \o <<eapol, dhcp, up, down>>
      BY <1>3 DEF Script, AttWorkFlow
    <2> HIDE DEF eapol, dhcp, up, down
    <2>3. <<eapol, dhcp, up, down>> \in Seq(SingleFlowGroups)
      BY <2>1
    <2>4. ScriptOf(Script, SingleFlowGroups)
      BY <2>2, <2>3, ScriptBegins, ScriptGrows
    <2> QED
      BY <1>0, <1>1, <2>4
  <1>4. CASE workflow = "DT"
    <2> DEFINE up == <<Flow("HSIA", "us", "opens")>>
               down == <<Flow("HSIA", "ds", "closes")>>
    <2>1. up \in SingleFlowGroups /\ down \in SingleFlowGroups
      BY <1>2, SingleFlow, Zenon
    <2>2. Script = SchedsAndQueues \o <<up, down>>
      BY <1>4 DEF Script, DtWorkFlow
    <2> HIDE DEF up, down
    <2>3. <<up, down>> \in Seq(SingleFlowGroups)
      BY <2>1
    <2>4. ScriptOf(Script, SingleFlowGroups)
      BY <2>2, <2>3, ScriptBegins, ScriptGrows
    <2> QED
      BY <1>0, <1>1, <2>4
  <1>5. CASE workflow = "TT"
    <2> DEFINE hsia == TtService("HSIA", <<>>)
               voip == TtService("VOIP", DhcpTrap)
               vod == TtService("VOD", DhcpTrap \o IgmpTrap)
               mgmt == TtService("MGMT", DhcpTrap)
    <2>1. /\ DhcpTrap \in Seq(FlowRecords) /\ Len(DhcpTrap) = 1
          /\ IgmpTrap \in Seq(FlowRecords) /\ Len(IgmpTrap) = 1
      BY <1>2, SingleFlow, Zenon DEF DhcpTrap, IgmpTrap
    <2>2. DhcpTrap \o IgmpTrap \in Seq(FlowRecords) /\ Len(DhcpTrap \o IgmpTrap) = 2
      BY <2>1
    <2>3. <<>> \in Seq(FlowRecords) /\ Len(<<>>) = 0
      BY EmptySeq
    <2>4. /\ "HSIA" \in FlowTypes /\ "VOIP" \in FlowTypes /\ "VOD" \in FlowTypes /\ "MGMT" \in FlowTypes
          /\ Len(<<>>) <= 2 /\ Len(DhcpTrap) <= 2 /\ Len(DhcpTrap \o IgmpTrap) <= 2
      BY <2>1, <2>2, <2>3 DEF FlowTypes
    <2>5. hsia \in Seq(FlowGroups) /\ voip \in Seq(FlowGroups) /\ mgmt \in Seq(FlowGroups)
      BY <2>1, <2>3, <2>4, TtServiceType, Zenon
    <2>6. vod \in Seq(FlowGroups)
      BY <2>2, <2>4, TtServiceType, Zenon
    <2>7. Script = SchedsAndQueues \o hsia \o voip \o vod \o mgmt
      BY <1>5 DEF Script, TtWorkFlow
    <2> HIDE DEF hsia, voip, vod, mgmt
    <2>8. ScriptOf(SchedsAndQueues \o hsia \o voip, FlowGroups)
      BY <2>5, ScriptBegins, ScriptGrows
    <2>9. ScriptOf(Script, FlowGroups)
      BY <2>5, <2>6, <2>7, <2>8, ScriptGrows
    <2> QED
      BY <1>0, <1>5, <2>9
  <1> QED
    BY <1>3, <1>4, <1>5

-----------------------------------------------------------------------------
(* Where a subscriber is in its script. *)

\* A group and the request of it that a subscriber has come to.
LEMMA GroupFacts ==
  ASSUME TypeOK, NEW s \in Subscribers
  PROVE  /\ subs[s] \in SubscriberState
         /\ subs[s].group \in 1 .. Len(Script) /\ Len(Script) \in Nat /\ subs[s].group \in Nat
         /\ Len(Script[subs[s].group]) \in 1 .. 4
         /\ subs[s].req \in 1 .. Len(Script[subs[s].group]) /\ subs[s].req \in Nat
         /\ DOMAIN Script = 1 .. Len(Script)
         /\ DOMAIN Script[subs[s].group] = 1 .. Len(Script[subs[s].group])
         /\ subs[s].group <= 4 => Len(Script[subs[s].group]) = 1
         /\ workflow # "TT" => Len(Script[subs[s].group]) = 1
         /\ subs[s].group \in 1 .. 2 => Request(s).kind = "sched"
         /\ subs[s].group \in 3 .. 4 => Request(s).kind = "queue"
         /\ subs[s].group > 4 => Request(s).kind = "flow"
         /\ subs[s].group \in {1, 3} => Request(s).dir = "ds"
         /\ subs[s].group \in {2, 4} => Request(s).dir = "us"
         /\ Reason(Request(s).kind) = FailedAt(subs[s].group)
         /\ FailedAt(subs[s].group) # "none"
         /\ FailedAt(subs[s].group) \in {"SCHED_CREATION_FAILED", "QUEUE_CREATION_FAILED", "FLOW_ADD_FAILED"}
  <1> DEFINE g == subs[s].group
             r == subs[s].req
  <1>1. /\ subs[s] \in SubscriberState /\ g \in DOMAIN Script /\ r \in DOMAIN Script[g]
        /\ workflow \in {"ATT", "DT", "TT"}
    BY DEF TypeOK
  <1>2. g \in 1 .. Len(Script) /\ Len(Script) \in Nat /\ DOMAIN Script = 1 .. Len(Script) /\ g \in Nat
    BY <1>1, ScriptFacts
  <1>3. Request(s) = Script[g][r]
    BY DEF Request
  <1> HIDE DEF g, r
  <1>4. CASE g > 4
    <2>1. Script[g] \in FlowGroups /\ (workflow # "TT" => Script[g] \in SingleFlowGroups)
      BY <1>1, <1>4, ScriptFacts
    <2>2. /\ Script[g] \in Seq(FlowRecords) /\ Len(Script[g]) \in 1 .. 4
          /\ workflow # "TT" => Len(Script[g]) = 1
      BY <2>1 DEF FlowGroups, SingleFlowGroups
    <2>3. DOMAIN Script[g] = 1 .. Len(Script[g])
      BY <2>2
    <2>4. Request(s) \in FlowRecords
      BY <1>1, <1>3, <2>2, <2>3
    <2>5. Request(s).kind = "flow"
      BY <2>4 DEF FlowRecords
    <2>6. FailedAt(g) = "FLOW_ADD_FAILED" /\ Reason("flow") = "FLOW_ADD_FAILED"
      BY <1>2, <1>4 DEF FailedAt, Reason
    <2> QED
      BY <1>1, <1>2, <1>4, <2>2, <2>3, <2>5, <2>6 DEF g, r
  <1>5. CASE g \in {1, 2}
    <2>1. PICK dir \in {"ds", "us"} : /\ Script[g] = Sched(dir)
                                      /\ g = 1 => dir = "ds"
                                      /\ g = 2 => dir = "us"
      BY <1>1, <1>5, ScriptFacts
    <2>2. /\ Len(Script[g]) = 1 /\ DOMAIN Script[g] = 1 .. 1
          /\ Script[g][1].kind = "sched" /\ Script[g][1].dir = dir
      BY <2>1 DEF Sched
    <2>3. r = 1
      BY <1>1, <2>2
    <2>4. FailedAt(g) = "SCHED_CREATION_FAILED" /\ Reason("sched") = "SCHED_CREATION_FAILED"
      BY <1>5 DEF FailedAt, Reason
    <2> QED
      BY <1>1, <1>2, <1>3, <1>5, <2>1, <2>2, <2>3, <2>4 DEF g, r
  <1>6. CASE g \in {3, 4}
    <2>1. PICK dir \in {"ds", "us"} : /\ Script[g] = Queue(dir)
                                      /\ g = 3 => dir = "ds"
                                      /\ g = 4 => dir = "us"
      BY <1>1, <1>6, ScriptFacts
    <2>2. /\ Len(Script[g]) = 1 /\ DOMAIN Script[g] = 1 .. 1
          /\ Script[g][1].kind = "queue" /\ Script[g][1].dir = dir
      BY <2>1 DEF Queue
    <2>3. r = 1
      BY <1>1, <2>2
    <2>4. FailedAt(g) = "QUEUE_CREATION_FAILED" /\ Reason("queue") = "QUEUE_CREATION_FAILED"
      BY <1>6 DEF FailedAt, Reason
    <2> QED
      BY <1>1, <1>2, <1>3, <1>6, <2>1, <2>2, <2>3, <2>4 DEF g, r
  <1>7. g > 4 \/ g \in {1, 2} \/ g \in {3, 4}
    BY <1>2
  <1> QED
    BY <1>4, <1>5, <1>6, <1>7, Zenon

\* Where a subscriber goes on from the request it is at, with the error it has
\* by now, in a group of any size and a script of any length.
GoesOn(sub, size, len, err) ==
  LET here == [sub EXCEPT !.err = err, !.flow = 0]
  IN  CASE sub.req < size -> [here EXCEPT !.req = @ + 1]
        [] sub.req = size /\ err # "none" -> [here EXCEPT !.reason = err]
        [] sub.req = size /\ err = "none" /\ sub.group = len ->
             [here EXCEPT !.reason = "SUBSCRIBER_PROVISION_SUCCESS"]
        [] OTHER -> [here EXCEPT !.group = @ + 1, !.req = 1]

Moved(s, err) == GoesOn(subs[s], Len(Script[subs[s].group]), Len(Script), err)

Errors == {"none", "SCHED_CREATION_FAILED", "QUEUE_CREATION_FAILED", "FLOW_ADD_FAILED"}

\* What a step that moves a subscriber to another request leaves alone.
LEMMA RequestSet ==
  ASSUME NEW sub \in SubscriberState, NEW req \in Nat, NEW a, a = [sub EXCEPT !.req = req]
  PROVE  /\ a \in SubscriberState /\ a.req = req
         /\ a.group = sub.group /\ a.flow = sub.flow /\ a.symmetric = sub.symmetric
         /\ a.err = sub.err /\ a.reason = sub.reason /\ a.drawn = sub.drawn
  <1>1. a \in SubscriberState
    BY DEF SubscriberState
  <1>2. /\ a.req = req /\ a.group = sub.group /\ a.flow = sub.flow /\ a.symmetric = sub.symmetric
        /\ a.err = sub.err /\ a.reason = sub.reason /\ a.drawn = sub.drawn
    BY DEF SubscriberState
  <1> QED
    BY <1>1, <1>2

LEMMA GoesOnCases ==
  ASSUME NEW sub \in SubscriberState, NEW size \in Nat, NEW len \in Nat, NEW err \in Errors,
         sub.req <= size, sub.group <= len, NEW a, a = GoesOn(sub, size, len, err)
  PROVE  /\ a \in SubscriberState
         /\ a.flow = 0 /\ a.symmetric = sub.symmetric /\ a.drawn = sub.drawn
         /\ a.err = err
         /\ \/ /\ sub.req < size
               /\ a.group = sub.group /\ a.req = sub.req + 1 /\ a.reason = sub.reason
            \/ /\ sub.req = size
               /\ a.group = sub.group /\ a.req = sub.req /\ err # "none" /\ a.reason = err
            \/ /\ sub.req = size /\ sub.group = len
               /\ a.group = sub.group /\ a.req = sub.req
               /\ err = "none" /\ a.reason = "SUBSCRIBER_PROVISION_SUCCESS"
            \/ /\ sub.req = size /\ sub.group < len
               /\ a.group = sub.group + 1 /\ a.req = 1 /\ err = "none" /\ a.reason = sub.reason
  <1> DEFINE here == [sub EXCEPT !.err = err, !.flow = 0]
  <1>1. PICK g \in Nat, r \in Nat, g1 \in Nat, r1 \in Nat :
          /\ sub.group = g /\ sub.req = r /\ g1 = g + 1 /\ r1 = r + 1
    BY DEF SubscriberState
  <1>2. /\ here \in SubscriberState /\ here.flow = 0 /\ here.err = err
        /\ here.symmetric = sub.symmetric /\ here.drawn = sub.drawn
        /\ here.group = g /\ here.req = r /\ here.reason = sub.reason
    BY <1>1 DEF SubscriberState, Errors
  <1>3. a = CASE r < size -> [here EXCEPT !.req = r1]
              [] r = size /\ err # "none" -> [here EXCEPT !.reason = err]
              [] r = size /\ err = "none" /\ g = len ->
                   [here EXCEPT !.reason = "SUBSCRIBER_PROVISION_SUCCESS"]
              [] OTHER -> [here EXCEPT !.group = g1, !.req = 1]
    BY <1>1, <1>2 DEF GoesOn
  <1> HIDE DEF here
  <1>4. CASE r < size
    <2>1. a = [here EXCEPT !.req = r1]
      BY <1>3, <1>4
    <2>2. /\ a \in SubscriberState /\ a.flow = 0 /\ a.err = err
          /\ a.symmetric = sub.symmetric /\ a.drawn = sub.drawn
          /\ a.group = g /\ a.req = r1 /\ a.reason = sub.reason
      BY <1>2, <2>1 DEF SubscriberState
    <2> QED
      BY <1>1, <1>4, <2>2
  <1>5. CASE r = size /\ err # "none"
    <2>1. a = [here EXCEPT !.reason = err]
      BY <1>3, <1>5
    <2>2. /\ a \in SubscriberState /\ a.flow = 0 /\ a.err = err
          /\ a.symmetric = sub.symmetric /\ a.drawn = sub.drawn
          /\ a.group = g /\ a.req = r /\ a.reason = err
      BY <1>2, <2>1 DEF SubscriberState, Errors
    <2> QED
      BY <1>1, <1>5, <2>2
  <1>6. CASE r = size /\ err = "none" /\ g = len
    <2>1. a = [here EXCEPT !.reason = "SUBSCRIBER_PROVISION_SUCCESS"]
      BY <1>3, <1>6
    <2>2. /\ a \in SubscriberState /\ a.flow = 0 /\ a.err = err
          /\ a.symmetric = sub.symmetric /\ a.drawn = sub.drawn
          /\ a.group = g /\ a.req = r /\ a.reason = "SUBSCRIBER_PROVISION_SUCCESS"
      BY <1>2, <2>1 DEF SubscriberState
    <2> QED
      BY <1>1, <1>6, <2>2
  <1>7. CASE r = size /\ err = "none" /\ g # len
    <2>1. a = [here EXCEPT !.group = g1, !.req = 1]
      BY <1>3, <1>7
    <2>a. PICK next : next = [here EXCEPT !.group = g1]
      OBVIOUS
    <2>b. /\ next \in SubscriberState /\ next.flow = 0 /\ next.err = err
          /\ next.symmetric = sub.symmetric /\ next.drawn = sub.drawn
          /\ next.group = g1 /\ next.reason = sub.reason
      BY <1>2, <2>a DEF SubscriberState
    <2>c. a = [next EXCEPT !.req = 1]
      BY <2>1, <2>a
    <2>2. /\ a \in SubscriberState /\ a.flow = 0 /\ a.err = err
          /\ a.symmetric = sub.symmetric /\ a.drawn = sub.drawn
          /\ a.group = g1 /\ a.req = 1 /\ a.reason = sub.reason
      <3>1. next \in SubscriberState /\ 1 \in Nat
        BY <2>b
      <3>2. /\ a \in SubscriberState /\ a.req = 1
            /\ a.group = next.group /\ a.flow = next.flow /\ a.symmetric = next.symmetric
            /\ a.err = next.err /\ a.reason = next.reason /\ a.drawn = next.drawn
        BY ONLY <2>c, <3>1, RequestSet
      <3> QED
        BY ONLY <2>b, <3>2
    <2>3. g < len
      BY <1>1, <1>7
    <2> QED
      BY <1>1, <1>7, <2>2, <2>3
  <1>8. r < size \/ r = size
    BY <1>1
  <1> QED
    BY <1>4, <1>5, <1>6, <1>7, <1>8, Zenon

LEMMA MovedFacts ==
  ASSUME TypeOK, NEW s \in Subscribers, NEW err \in Errors, NEW a, a = Moved(s, err)
  PROVE  /\ a \in SubscriberState
         /\ a.flow = 0 /\ a.symmetric = subs[s].symmetric /\ a.drawn = subs[s].drawn
         /\ a.err = err
         /\ \/ /\ subs[s].req < Len(Script[subs[s].group])
               /\ a.group = subs[s].group /\ a.req = subs[s].req + 1 /\ a.reason = subs[s].reason
            \/ /\ subs[s].req = Len(Script[subs[s].group])
               /\ a.group = subs[s].group /\ a.req = subs[s].req
               /\ err # "none" /\ a.reason = err
            \/ /\ subs[s].req = Len(Script[subs[s].group])
               /\ subs[s].group = Len(Script)
               /\ a.group = subs[s].group /\ a.req = subs[s].req
               /\ err = "none" /\ a.reason = "SUBSCRIBER_PROVISION_SUCCESS"
            \/ /\ subs[s].req = Len(Script[subs[s].group])
               /\ subs[s].group < Len(Script)
               /\ a.group = subs[s].group + 1 /\ a.req = 1 /\ err = "none" /\ a.reason = subs[s].reason
  <1> DEFINE sub == subs[s]
             size == Len(Script[subs[s].group])
             len == Len(Script)
  <1>1. /\ sub \in SubscriberState /\ sub.group \in 1 .. len /\ len \in Nat
        /\ sub.req \in 1 .. size /\ size \in 1 .. 4 /\ sub.req \in Nat /\ sub.group \in Nat
    BY GroupFacts, Zenon
  <1>2. a = GoesOn(sub, size, len, err)
    BY DEF Moved
  <1> HIDE DEF sub, size, len
  <1>3. size \in Nat /\ sub.req <= size /\ sub.group <= len
    BY <1>1
  <1>4. /\ a \in SubscriberState
        /\ a.flow = 0 /\ a.symmetric = sub.symmetric /\ a.drawn = sub.drawn
        /\ a.err = err
        /\ \/ /\ sub.req < size
              /\ a.group = sub.group /\ a.req = sub.req + 1 /\ a.reason = sub.reason
           \/ /\ sub.req = size
              /\ a.group = sub.group /\ a.req = sub.req /\ err # "none" /\ a.reason = err
           \/ /\ sub.req = size /\ sub.group = len
              /\ a.group = sub.group /\ a.req = sub.req
              /\ err = "none" /\ a.reason = "SUBSCRIBER_PROVISION_SUCCESS"
           \/ /\ sub.req = size /\ sub.group < len
              /\ a.group = sub.group + 1 /\ a.req = 1 /\ err = "none" /\ a.reason = sub.reason
    BY <1>1, <1>2, <1>3, GoesOnCases
  <1> QED
    BY <1>4 DEF sub, size, len

\* The flow requests of a script.
LEMMA FlowRequestFacts ==
  ASSUME TypeOK
  PROVE  /\ IsFiniteSet(FlowRequests)
         /\ \A at \in FlowRequests :
              /\ at = <<at[1], at[2]>> /\ at[1] \in 1 .. Len(Script) /\ at[1] > 4
              /\ at[2] \in 1 .. Len(Script[at[1]]) /\ Len(Script[at[1]]) \in 1 .. 4
         /\ \A g \in 1 .. Len(Script) : \A r \in 1 .. Len(Script[g]) : g > 4 => <<g, r>> \in FlowRequests
  <1>1. /\ Len(Script) \in Nat /\ DOMAIN Script = 1 .. Len(Script) /\ Len(Script) >= 4
        /\ Script[1] = Sched("ds") /\ Script[2] = Sched("us")
        /\ Script[3] = Queue("ds") /\ Script[4] = Queue("us")
        /\ \A g \in DOMAIN Script : g > 4 => Script[g] \in FlowGroups
    BY ScriptFacts DEF TypeOK
  <1>2. \A g \in 1 .. 4 : \A r \in DOMAIN Script[g] : Script[g][r].kind # "flow"
    BY <1>1 DEF Sched, Queue
  <1>3. ASSUME NEW g \in DOMAIN Script, g > 4
        PROVE  /\ Len(Script[g]) \in 1 .. 4 /\ DOMAIN Script[g] = 1 .. Len(Script[g])
               /\ \A r \in DOMAIN Script[g] : Script[g][r].kind = "flow"
    <2>1. Script[g] \in Seq(FlowRecords) /\ Len(Script[g]) \in 1 .. 4
      BY <1>1, <1>3 DEF FlowGroups
    <2>2. DOMAIN Script[g] = 1 .. Len(Script[g])
      BY <2>1
    <2>3. \A r \in DOMAIN Script[g] : Script[g][r] \in FlowRecords
      BY <2>1, <2>2
    <2> QED
      BY <2>1, <2>2, <2>3 DEF FlowRecords
  <1>4. ASSUME NEW at \in FlowRequests
        PROVE  /\ at = <<at[1], at[2]>> /\ at[1] \in 1 .. Len(Script) /\ at[1] > 4
               /\ at[2] \in 1 .. Len(Script[at[1]]) /\ Len(Script[at[1]]) \in 1 .. 4
    <2>1. PICK g \in DOMAIN Script : at \in {g} \X DOMAIN Script[g] /\ Script[at[1]][at[2]].kind = "flow"
      BY DEF FlowRequests
    <2>2. at = <<at[1], at[2]>> /\ at[1] = g /\ at[2] \in DOMAIN Script[g]
      BY <2>1
    <2>3. g > 4
      BY <1>1, <1>2, <2>1, <2>2
    <2> QED
      BY <1>1, <1>3, <2>2, <2>3
  <1>5. ASSUME NEW g \in 1 .. Len(Script), NEW r \in 1 .. Len(Script[g]), g > 4
        PROVE  <<g, r>> \in FlowRequests
    <2>1. g \in DOMAIN Script /\ r \in DOMAIN Script[g] /\ Script[g][r].kind = "flow"
      BY <1>1, <1>3, <1>5
    <2>2. <<g, r>> \in {g} \X DOMAIN Script[g]
      BY <2>1
    <2> QED
      BY <2>1, <2>2 DEF FlowRequests
  <1>6. IsFiniteSet(FlowRequests)
    <2>1. 1 \in Int /\ 4 \in Int /\ Len(Script) \in Int
      BY <1>1
    <2>1a. IsFiniteSet(1 .. Len(Script)) /\ IsFiniteSet(1 .. 4)
      BY <2>1, FS_Interval, Zenon
    <2>2. IsFiniteSet((1 .. Len(Script)) \X (1 .. 4))
      BY <2>1a, FS_Product
    <2>3. ASSUME NEW at \in FlowRequests PROVE at \in (1 .. Len(Script)) \X (1 .. 4)
      <3>1. at = <<at[1], at[2]>> /\ at[1] \in 1 .. Len(Script) /\ at[2] \in 1 .. Len(Script[at[1]])
            /\ Len(Script[at[1]]) \in 1 .. 4
        BY <1>4, Zenon
      <3>2. at[2] \in 1 .. 4
        <4> DEFINE n == Len(Script[at[1]])
        <4>1. n \in 1 .. 4 /\ at[2] \in 1 .. n
          BY <3>1
        <4> HIDE DEF n
        <4> QED
          BY <4>1
      <3>3. PICK x, y : at = <<x, y>> /\ x \in 1 .. Len(Script) /\ y \in 1 .. 4
        BY <3>1, <3>2
      <3> QED
        BY <3>3
    <2>4. FlowRequests \subseteq (1 .. Len(Script)) \X (1 .. 4)
      BY <2>3
    <2> QED
      BY <2>2, <2>4, FS_Subset
  <1> QED
    BY <1>4, <1>5, <1>6

\* What depends on the configuration alone.
LEMMA Frame ==
  ASSUME workflow' = workflow, ponOf' = ponOf
  PROVE  /\ Script' = Script /\ Subscribers' = Subscribers /\ Pons' = Pons
         /\ NniTrapFlows' = NniTrapFlows /\ FlowRequests' = FlowRequests
  <1>1. Script' = Script
    BY DEF Script, AttWorkFlow, DtWorkFlow, TtWorkFlow
  <1> QED
    BY <1>1 DEF Subscribers, Pons, NniTrapFlows, FlowRequests

\* Every group has a request.
LEMMA GroupSizes ==
  ASSUME TypeOK, NEW g \in 1 .. Len(Script)
  PROVE  Len(Script[g]) \in 1 .. 4 /\ DOMAIN Script[g] = 1 .. Len(Script[g]) /\ 1 \in DOMAIN Script[g]
  <1>1. /\ Len(Script) \in Nat /\ DOMAIN Script = 1 .. Len(Script)
        /\ Script[1] = Sched("ds") /\ Script[2] = Sched("us")
        /\ Script[3] = Queue("ds") /\ Script[4] = Queue("us")
        /\ \A h \in DOMAIN Script : h > 4 => Script[h] \in FlowGroups
    BY ScriptFacts DEF TypeOK
  <1>2. CASE g > 4
    <2>1. Script[g] \in Seq(FlowRecords) /\ Len(Script[g]) \in 1 .. 4
      BY <1>1, <1>2 DEF FlowGroups
    <2> QED
      BY <2>1
  <1>3. CASE g \in 1 .. 4
    <2>1. PICK dir : Script[g] = Sched(dir) \/ Script[g] = Queue(dir)
      BY <1>1, <1>3
    <2>2. CASE Script[g] = Sched(dir)
      BY <2>2 DEF Sched
    <2>3. CASE Script[g] = Queue(dir)
      BY <2>3 DEF Queue
    <2> QED
      BY <2>1, <2>2, <2>3
  <1> QED
    BY <1>1, <1>2, <1>3

-----------------------------------------------------------------------------
(* The step of a subscriber that gets an answer: a scheduler, a queue or a *)
(* flow was asked for.                                                     *)

HeldIn(held, pon, s, id) ==
  \E f \in held : f.pon = pon /\ f.id = id /\ f.owner \in {s, "earlier"}

AnswerStep(s, err) ==
  /\ ~Ended(s)
  /\ err \in Errors
  /\ err = subs[s].err \/ (subs[s].err = "none" /\ err = FailedAt(subs[s].group))
  /\ subs[s].group > 4 => subs[s].flow # 0
  /\ subs' = [subs EXCEPT ![s] = Moved(s, err)]
  /\ UNCHANGED <<workflow, ponOf, flowId, nni>>
  /\ scheds \subseteq scheds' /\ queues \subseteq queues' /\ flows \subseteq flows'
  /\ \A x \in scheds' : x \in scheds \/ (x = <<s, Request(s).dir>> /\ subs[s].group \in 1 .. 2)
  /\ \A x \in queues' : x \in queues \/ (x = <<s, Request(s).dir>> /\ subs[s].group \in 3 .. 4)
  /\ \A f \in flows' : f \in flows \/ (f = SubscriberFlow(s) /\ subs[s].group > 4)
  /\ err = "none" => /\ subs[s].group \in 1 .. 2 => <<s, Request(s).dir>> \in scheds'
                     /\ subs[s].group \in 3 .. 4 => <<s, Request(s).dir>> \in queues'
                     /\ subs[s].group > 4 => HeldIn(flows', ponOf[s], s, subs[s].flow)

\* An answer moves one subscriber on and leaves the others where they are.
LEMMA AnswerMoves ==
  ASSUME TypeOK, NEW s \in Subscribers, NEW err, AnswerStep(s, err)
  PROVE  /\ Script' = Script /\ Subscribers' = Subscribers /\ Pons' = Pons
         /\ NniTrapFlows' = NniTrapFlows /\ FlowRequests' = FlowRequests
         /\ subs'[s] = Moved(s, err)
         /\ subs' \in [Subscribers -> SubscriberState]
         /\ \A t \in Subscribers : t # s => subs'[t] = subs[t]
         /\ \A t \in Subscribers : subs'[t].drawn = subs[t].drawn /\ subs'[t].symmetric = subs[t].symmetric
         /\ subs'[s].flow = 0 /\ subs'[s].err = err /\ subs[s].reason = "none"
  <1>1. /\ subs \in [Subscribers -> SubscriberState] /\ workflow' = workflow /\ ponOf' = ponOf
        /\ subs' = [subs EXCEPT ![s] = Moved(s, err)] /\ err \in Errors
    BY DEF TypeOK, AnswerStep
  <1>2. /\ Moved(s, err) \in SubscriberState /\ Moved(s, err).flow = 0 /\ Moved(s, err).err = err
        /\ Moved(s, err).drawn = subs[s].drawn /\ Moved(s, err).symmetric = subs[s].symmetric
    <2>1. PICK a : a = Moved(s, err)
      OBVIOUS
    <2>2. /\ a \in SubscriberState /\ a.flow = 0 /\ a.err = err
          /\ a.drawn = subs[s].drawn /\ a.symmetric = subs[s].symmetric
      BY <1>1, <2>1, MovedFacts
    <2> QED
      BY <2>1, <2>2
  <1>3. subs[s].reason = "none"
    BY DEF AnswerStep, Ended
  <1>4. /\ Script' = Script /\ Subscribers' = Subscribers /\ Pons' = Pons
        /\ NniTrapFlows' = NniTrapFlows /\ FlowRequests' = FlowRequests
    BY <1>1, Frame, Zenon
  <1>5. subs'[s] = Moved(s, err) /\ \A t \in Subscribers : t # s => subs'[t] = subs[t]
    BY <1>1
  <1>6. subs' \in [Subscribers -> SubscriberState]
    BY <1>1, <1>2
  <1>7. ASSUME NEW t \in Subscribers
        PROVE  subs'[t].drawn = subs[t].drawn /\ subs'[t].symmetric = subs[t].symmetric
    BY <1>2, <1>5
  <1> QED
    BY <1>2, <1>3, <1>4, <1>5, <1>6, <1>7, Zenon

\* Where the subscriber is afterwards.
LEMMA AnswerCases ==
  ASSUME TypeOK, NEW s \in Subscribers, NEW err, AnswerStep(s, err)
  PROVE  \/ /\ subs[s].req < Len(Script[subs[s].group])
            /\ subs'[s].group = subs[s].group /\ subs'[s].req = subs[s].req + 1
            /\ subs'[s].reason = "none"
         \/ /\ subs[s].req = Len(Script[subs[s].group])
            /\ subs'[s].group = subs[s].group /\ subs'[s].req = subs[s].req
            /\ err # "none" /\ subs'[s].reason = err
         \/ /\ subs[s].req = Len(Script[subs[s].group])
            /\ subs[s].group = Len(Script)
            /\ subs'[s].group = subs[s].group /\ subs'[s].req = subs[s].req
            /\ err = "none" /\ subs'[s].reason = "SUBSCRIBER_PROVISION_SUCCESS"
         \/ /\ subs[s].req = Len(Script[subs[s].group])
            /\ subs[s].group < Len(Script)
            /\ subs'[s].group = subs[s].group + 1 /\ subs'[s].req = 1
            /\ err = "none" /\ subs'[s].reason = "none"
  <1>1. subs'[s] = Moved(s, err) /\ subs[s].reason = "none"
    BY AnswerMoves, Zenon
  <1>2. err \in Errors
    BY DEF AnswerStep
  <1>3. PICK a : a = Moved(s, err)
    OBVIOUS
  <1>4. \/ /\ subs[s].req < Len(Script[subs[s].group])
           /\ a.group = subs[s].group /\ a.req = subs[s].req + 1 /\ a.reason = subs[s].reason
        \/ /\ subs[s].req = Len(Script[subs[s].group])
           /\ a.group = subs[s].group /\ a.req = subs[s].req
           /\ err # "none" /\ a.reason = err
        \/ /\ subs[s].req = Len(Script[subs[s].group])
           /\ subs[s].group = Len(Script)
           /\ a.group = subs[s].group /\ a.req = subs[s].req
           /\ err = "none" /\ a.reason = "SUBSCRIBER_PROVISION_SUCCESS"
        \/ /\ subs[s].req = Len(Script[subs[s].group])
           /\ subs[s].group < Len(Script)
           /\ a.group = subs[s].group + 1 /\ a.req = 1 /\ err = "none" /\ a.reason = subs[s].reason
    BY <1>2, <1>3, MovedFacts
  <1>5. a = subs'[s]
    BY <1>1, <1>3
  <1> QED
    BY <1>1, <1>4, <1>5

LEMMA AnswerTypeOK ==
  ASSUME IndInv, NEW s \in Subscribers, NEW err, AnswerStep(s, err)
  PROVE  TypeOK'
  <1>0. TypeOK
    BY DEF IndInv
  <1>1. /\ Script' = Script /\ Subscribers' = Subscribers /\ Pons' = Pons /\ NniTrapFlows' = NniTrapFlows
        /\ subs' \in [Subscribers -> SubscriberState]
        /\ \A t \in Subscribers : t # s => subs'[t] = subs[t]
    BY <1>0, AnswerMoves, Zenon
  <1>2. /\ subs[s].group \in 1 .. Len(Script) /\ Len(Script) \in Nat /\ subs[s].group \in Nat
        /\ Len(Script[subs[s].group]) \in 1 .. 4
        /\ subs[s].req \in 1 .. Len(Script[subs[s].group]) /\ subs[s].req \in Nat
        /\ DOMAIN Script = 1 .. Len(Script)
        /\ DOMAIN Script[subs[s].group] = 1 .. Len(Script[subs[s].group])
        /\ subs[s].group \in {1, 3} => Request(s).dir = "ds"
        /\ subs[s].group \in {2, 4} => Request(s).dir = "us"
    BY <1>0, GroupFacts, Zenon
  <1>3. subs'[s].group \in DOMAIN Script /\ subs'[s].req \in DOMAIN Script[subs'[s].group]
    <2>1. CASE subs'[s].group = subs[s].group
      <3>1. subs'[s].req = subs[s].req \/ (subs'[s].req = subs[s].req + 1 /\ subs[s].req < Len(Script[subs[s].group]))
            \/ subs'[s].group = subs[s].group + 1
        BY <1>0, AnswerCases, Zenon
      <3>2. PICK size \in Nat : size = Len(Script[subs[s].group])
        BY <1>2
      <3> QED
        BY <1>2, <2>1, <3>1, <3>2
    <2>2. CASE subs'[s].group = subs[s].group + 1 /\ subs[s].group < Len(Script) /\ subs'[s].req = 1
      <3>1. PICK g \in 1 .. Len(Script) : g = subs[s].group + 1
        BY <1>2, <2>2
      <3>2. 1 \in DOMAIN Script[g]
        BY <1>0, GroupSizes, Zenon
      <3> QED
        BY <1>2, <2>2, <3>1, <3>2
    <2> QED
      BY <1>0, <2>1, <2>2, AnswerCases, Zenon
  <1>4. \A t \in Subscribers : subs'[t].group \in DOMAIN Script /\ subs'[t].req \in DOMAIN Script[subs'[t].group]
    BY <1>0, <1>1, <1>3, Zenon DEF TypeOK
  <1>5. scheds' \subseteq Subscribers \X {"us", "ds"} /\ queues' \subseteq Subscribers \X {"us", "ds"}
    <2>1. subs[s].group \in 1 .. 2 \/ subs[s].group \in 3 .. 4 => Request(s).dir \in {"us", "ds"}
      BY <1>2
    <2> QED
      BY <1>0, <2>1 DEF TypeOK, AnswerStep
  <1>6. \A f \in flows' : f.owner \in Subscribers \cup {"nni", "earlier"}
    BY <1>0 DEF TypeOK, AnswerStep, SubscriberFlow
  <1>7. workflow' = workflow /\ ponOf' = ponOf /\ flowId' = flowId /\ nni' = nni
    BY DEF AnswerStep
  <1> QED
    BY <1>0, <1>1, <1>4, <1>5, <1>6, <1>7 DEF TypeOK

LEMMA AnswerIdInv ==
  ASSUME IndInv, NEW s \in Subscribers, NEW err, AnswerStep(s, err)
  PROVE  IdInv'
  <1>0. TypeOK /\ IdInv
    BY DEF IndInv
  <1>1. /\ Subscribers' = Subscribers /\ NniTrapFlows' = NniTrapFlows
        /\ \A t \in Subscribers : subs'[t].drawn = subs[t].drawn
    BY <1>0, AnswerMoves, Zenon
  <1>2. ponOf' = ponOf /\ flowId' = flowId /\ nni' = nni
    BY DEF AnswerStep
  <1> QED
    BY <1>0, <1>1, <1>2 DEF IdInv

LEMMA AnswerStageInv ==
  ASSUME IndInv, NEW s \in Subscribers, NEW err, AnswerStep(s, err)
  PROVE  StageInv'
  <1>0. TypeOK /\ StageInv
    BY DEF IndInv
  <1>1. /\ Subscribers' = Subscribers /\ \A t \in Subscribers : t # s => subs'[t] = subs[t]
        /\ \A t \in Subscribers : subs'[t].drawn = subs[t].drawn
    BY <1>0, AnswerMoves, Zenon
  <1>2. subs'[s].group = subs[s].group \/ (subs'[s].group = subs[s].group + 1 /\ err = "none")
    BY <1>0, AnswerCases
  <1>3. /\ subs[s].group \in Nat
        /\ subs[s].group \in {1, 3} => Request(s).dir = "ds"
        /\ subs[s].group \in {2, 4} => Request(s).dir = "us"
    BY <1>0, GroupFacts, Zenon
  <1>4. scheds \subseteq scheds' /\ queues \subseteq queues'
    BY DEF AnswerStep
  <1>5. err = "none" => /\ subs[s].group = 1 => <<s, "ds">> \in scheds'
                        /\ subs[s].group = 2 => <<s, "us">> \in scheds'
                        /\ subs[s].group = 3 => <<s, "ds">> \in queues'
                        /\ subs[s].group = 4 => <<s, "us">> \in queues'
    BY <1>3 DEF AnswerStep
  <1>6. ASSUME NEW t \in Subscribers, NEW dir \in {"us", "ds"}, <<t, dir>> \in queues', <<t, dir>> \notin queues
        PROVE  t = s /\ subs[s].group \in 3 .. 4
    BY <1>6 DEF AnswerStep
  <1>7. /\ subs'[s].group > 1 => <<s, "ds">> \in scheds'
        /\ subs'[s].group > 2 => <<s, "us">> \in scheds'
        /\ subs'[s].group > 3 => <<s, "ds">> \in queues'
        /\ subs'[s].group > 4 => <<s, "us">> \in queues'
    BY <1>0, <1>2, <1>3, <1>4, <1>5 DEF StageInv
  <1>8. subs'[s].drawn # <<>> => subs'[s].group > 4
    <2>1. subs'[s].drawn # <<>> => subs[s].group > 4
      BY <1>0, <1>1, Zenon DEF StageInv
    <2> QED
      BY <1>2, <1>3, <2>1
  <1>9. ASSUME NEW dir \in {"us", "ds"}, <<s, dir>> \in queues' PROVE subs'[s].group > 2
    <2>1. subs[s].group > 2
      <3>1. CASE <<s, dir>> \in queues
        BY <1>0, <3>1, Zenon DEF StageInv
      <3>2. CASE <<s, dir>> \notin queues
        <4>1. subs[s].group \in 3 .. 4
          BY <1>6, <1>9, <3>2, Zenon
        <4> QED
          BY <1>3, <4>1
      <3> QED
        BY <3>1, <3>2
    <2> QED
      BY <1>2, <1>3, <2>1
  <1>10. ASSUME NEW t \in Subscribers, t # s, NEW dir \in {"us", "ds"}, <<t, dir>> \in queues'
         PROVE  subs'[t].group > 2
    BY <1>0, <1>1, <1>6, <1>10 DEF StageInv
  <1>11. ASSUME NEW t \in Subscribers, t # s
         PROVE  /\ subs'[t].group > 1 => <<t, "ds">> \in scheds'
                /\ subs'[t].group > 2 => <<t, "us">> \in scheds'
                /\ subs'[t].group > 3 => <<t, "ds">> \in queues'
                /\ subs'[t].group > 4 => <<t, "us">> \in queues'
                /\ subs'[t].drawn # <<>> => subs'[t].group > 4
    BY <1>0, <1>1, <1>4, <1>11, Zenon DEF StageInv
  <1> QED
    BY <1>1, <1>7, <1>8, <1>9, <1>10, <1>11, Zenon DEF StageInv

LEMMA AnswerReasonInv ==
  ASSUME IndInv, NEW s \in Subscribers, NEW err, AnswerStep(s, err)
  PROVE  ReasonInv'
  <1>0. TypeOK /\ StageInv /\ ReasonInv /\ HeldInv
    BY DEF IndInv
  <1>1. /\ Subscribers' = Subscribers /\ Script' = Script
        /\ \A t \in Subscribers : t # s => subs'[t] = subs[t]
        /\ subs'[s].drawn = subs[s].drawn
        /\ subs'[s].flow = 0 /\ subs'[s].err = err /\ subs[s].reason = "none"
    BY <1>0, AnswerMoves, Zenon
  <1>2. workflow' = workflow /\ queues \subseteq queues'
    BY DEF AnswerStep
  <1>3. /\ subs[s].group \in Nat /\ Len(Script) \in Nat
        /\ workflow # "TT" => Len(Script[subs[s].group]) = 1
        /\ subs[s].req \in 1 .. Len(Script[subs[s].group]) /\ subs[s].req \in Nat
        /\ Len(Script[subs[s].group]) \in 1 .. 4
        /\ subs[s].group = 4 => Request(s).dir = "us"
    <2>1. subs[s].group = 4 => subs[s].group \in {2, 4}
      OBVIOUS
    <2> QED
      BY <1>0, <2>1, GroupFacts, Zenon
  <1>4. Len(Script) = 4 \/ Len(Script) > 4
    <2>1. PICK len \in Nat : len = Len(Script) /\ len >= 4
      BY <1>0, ScriptFacts, Zenon DEF TypeOK
    <2>2. len = 4 \/ len > 4
      BY <2>1
    <2> QED
      BY <2>1, <2>2, Zenon
  <1>5. ASSUME err # "none"
        PROVE  /\ err = FailedAt(subs[s].group) /\ subs'[s].group = subs[s].group
               /\ subs'[s].group > 4 => subs'[s].drawn # <<>>
               /\ workflow' # "TT" => subs'[s].reason # "none"
    <2>0. err = subs[s].err \/ err = FailedAt(subs[s].group)
      BY Zenon DEF AnswerStep
    <2>1. err = FailedAt(subs[s].group)
      <3>1. subs[s].err # "none" => subs[s].err = FailedAt(subs[s].group)
        BY <1>0 DEF ReasonInv
      <3> QED
        BY <1>5, <2>0, <3>1
    <2>2. subs'[s].group = subs[s].group
      BY <1>0, <1>5, AnswerCases
    <2>3. subs[s].group > 4 => subs[s].drawn # <<>>
      BY <1>0, Zenon DEF AnswerStep, HeldInv
    <2>4. ASSUME workflow # "TT" PROVE subs'[s].reason # "none"
      <3>0. Len(Script[subs[s].group]) = 1 /\ subs[s].req \in 1 .. 1
        BY <1>3, <2>4, Zenon
      <3>1. Len(Script[subs[s].group]) = 1 /\ subs[s].req = 1
        BY <3>0
      <3>2. ~(subs[s].req < Len(Script[subs[s].group]))
        BY <3>1
      <3>3. subs'[s].reason = err
        BY <1>0, <1>5, <3>2, AnswerCases
      <3> QED
        BY <1>5, <3>3
    <2> QED
      BY <1>1, <1>2, <2>1, <2>2, <2>3, <2>4, Zenon
  <1>6. ASSUME subs'[s].reason # "none"
        PROVE  /\ subs'[s].req = Len(Script[subs'[s].group])
               /\ \/ subs'[s].reason = err
                  \/ /\ subs'[s].reason = "SUBSCRIBER_PROVISION_SUCCESS" /\ err = "none"
                     /\ subs'[s].group = Len(Script) /\ <<s, "us">> \in queues'
    <2>1. CASE subs'[s].reason = err /\ subs[s].req = Len(Script[subs[s].group])
               /\ subs'[s].group = subs[s].group /\ subs'[s].req = subs[s].req
      BY <2>1
    <2>2. CASE /\ subs[s].req = Len(Script[subs[s].group]) /\ subs[s].group = Len(Script)
               /\ subs'[s].group = subs[s].group /\ subs'[s].req = subs[s].req
               /\ err = "none" /\ subs'[s].reason = "SUBSCRIBER_PROVISION_SUCCESS"
      <3>1. CASE subs[s].group = 4
        <4>1. subs[s].group \in 3 .. 4
          BY <3>1
        <4>2. <<s, "us">> \in queues'
          BY <1>3, <2>2, <3>1, <4>1, Zenon DEF AnswerStep
        <4> QED
          BY <2>2, <4>2, Zenon
      <3>2. CASE subs[s].group > 4
        <4>1. <<s, "us">> \in queues'
          BY <1>0, <1>2, <3>2, Zenon DEF StageInv
        <4> QED
          BY <2>2, <4>1, Zenon
      <3>3. subs[s].group = 4 \/ subs[s].group > 4
        <4>1. subs[s].group = Len(Script) /\ subs[s].group \in Nat
          BY <1>3, <2>2, Zenon
        <4> QED
          BY <1>4, <4>1, Zenon
      <3> QED
        BY <3>1, <3>2, <3>3
    <2> QED
      BY <1>0, <1>6, <2>1, <2>2, AnswerCases, Zenon
  <1>7. ASSUME NEW t \in Subscribers, t # s
        PROVE  /\ subs'[t].err # "none" => /\ subs'[t].err = FailedAt(subs'[t].group)
                                           /\ subs'[t].group > 4 => subs'[t].drawn # <<>>
                                           /\ workflow' # "TT" => subs'[t].reason # "none"
               /\ subs'[t].reason # "none" =>
                    /\ subs'[t].flow = 0
                    /\ subs'[t].req = Len(Script[subs'[t].group])
                    /\ \/ subs'[t].reason = subs'[t].err
                       \/ /\ subs'[t].reason = "SUBSCRIBER_PROVISION_SUCCESS" /\ subs'[t].err = "none"
                          /\ subs'[t].group = Len(Script) /\ <<t, "us">> \in queues'
    <2>1. subs'[t] = subs[t] /\ workflow' = workflow
      BY <1>1, <1>2, <1>7
    <2>2. /\ subs[t].err # "none" => /\ subs[t].err = FailedAt(subs[t].group)
                                     /\ subs[t].group > 4 => subs[t].drawn # <<>>
                                     /\ workflow # "TT" => subs[t].reason # "none"
          /\ subs[t].reason # "none" =>
               /\ subs[t].flow = 0
               /\ subs[t].req = Len(Script[subs[t].group])
               /\ \/ subs[t].reason = subs[t].err
                  \/ /\ subs[t].reason = "SUBSCRIBER_PROVISION_SUCCESS" /\ subs[t].err = "none"
                     /\ subs[t].group = Len(Script) /\ <<t, "us">> \in queues'
      <3>1. /\ subs[t].err # "none" => /\ subs[t].err = FailedAt(subs[t].group)
                                       /\ subs[t].group > 4 => subs[t].drawn # <<>>
                                       /\ workflow # "TT" => Ended(t)
            /\ Ended(t) => /\ subs[t].flow = 0
                           /\ subs[t].req = Len(Script[subs[t].group])
                           /\ \/ subs[t].reason = subs[t].err
                              \/ /\ subs[t].reason = "SUBSCRIBER_PROVISION_SUCCESS" /\ subs[t].err = "none"
                                 /\ subs[t].group = Len(Script) /\ <<t, "us">> \in queues
        BY <1>0 DEF ReasonInv
      <3> QED
        BY <1>2, <3>1 DEF Ended
    <2> QED
      BY <2>1, <2>2
  <1>8. ASSUME NEW t \in Subscribers
        PROVE  /\ subs'[t].err # "none" => /\ subs'[t].err = FailedAt(subs'[t].group)
                                           /\ subs'[t].group > 4 => subs'[t].drawn # <<>>
                                           /\ workflow' # "TT" => subs'[t].reason # "none"
               /\ subs'[t].reason # "none" =>
                    /\ subs'[t].flow = 0
                    /\ subs'[t].req = Len(Script[subs'[t].group])
                    /\ \/ subs'[t].reason = subs'[t].err
                       \/ /\ subs'[t].reason = "SUBSCRIBER_PROVISION_SUCCESS" /\ subs'[t].err = "none"
                          /\ subs'[t].group = Len(Script) /\ <<t, "us">> \in queues'
    <2>1. CASE t = s
      BY <1>1, <1>5, <1>6, <2>1
    <2> QED
      BY <1>7, <2>1, Zenon
  <1> QED
    BY <1>1, <1>8, Zenon DEF ReasonInv, Ended, FailedAt

LEMMA AnswerHeldInv ==
  ASSUME IndInv, NEW s \in Subscribers, NEW err, AnswerStep(s, err)
  PROVE  HeldInv'
  <1>0. TypeOK /\ StageInv /\ HeldInv
    BY DEF IndInv
  <1>1. /\ Subscribers' = Subscribers /\ Script' = Script
        /\ \A t \in Subscribers : t # s => subs'[t] = subs[t]
        /\ \A t \in Subscribers : subs'[t].drawn = subs[t].drawn /\ subs'[t].symmetric = subs[t].symmetric
        /\ subs'[s].flow = 0 /\ subs'[s].err = err
    BY <1>0, AnswerMoves, Zenon
  <1>2. ponOf' = ponOf /\ flows \subseteq flows'
    BY DEF AnswerStep
  <1>3. ASSUME NEW t, NEW id, HeldFor(t, id) PROVE HeldIn(flows', ponOf'[t], t, id)
    BY <1>2, <1>3 DEF HeldFor, HeldIn
  <1>4. ASSUME err = "none", NEW n \in DOMAIN subs[s].drawn
        PROVE  HeldIn(flows', ponOf'[s], s, subs[s].drawn[n])
    <2>1. subs[s].err = "none"
      <3>1. FailedAt(subs[s].group) # "none"
        <4>1. FailedAt(subs[s].group) \in {"SCHED_CREATION_FAILED", "QUEUE_CREATION_FAILED", "FLOW_ADD_FAILED"}
          BY <1>0, GroupFacts, Zenon
        <4> QED
          BY <4>1
      <3>2. err = subs[s].err \/ err = FailedAt(subs[s].group)
        BY Zenon DEF AnswerStep
      <3> QED
        BY <1>4, <3>1, <3>2
    <2>2. CASE InFlight(s, n)
      <3>1. subs[s].flow # 0 /\ subs[s].flow = subs[s].drawn[n] /\ subs[s].drawn # <<>>
        BY <1>0, <2>2, Zenon DEF HeldInv, InFlight
      <3>2. subs[s].group > 4
        BY <1>0, <3>1, Zenon DEF StageInv
      <3>3. HeldIn(flows', ponOf[s], s, subs[s].flow)
        BY <1>4, <3>2, Zenon DEF AnswerStep
      <3> QED
        BY <1>2, <3>1, <3>3
    <2>3. CASE HeldFor(s, subs[s].drawn[n])
      BY <1>3, <2>3, Zenon
    <2> QED
      BY <1>0, <1>4, <2>1, <2>2, <2>3, Zenon DEF HeldInv
  <1>5. ASSUME NEW t \in Subscribers, t # s
        PROVE  /\ subs'[t] = subs[t] /\ Request(t)' = Request(t)
               /\ \A n : InFlight(t, n)' <=> InFlight(t, n)
    <2>1. subs'[t] = subs[t]
      BY <1>1, <1>5
    <2> QED
      BY <1>1, <2>1 DEF Request, InFlight
  <1>6. ASSUME NEW t \in Subscribers, subs'[t].flow # 0
        PROVE  subs'[t].drawn # <<>> /\ subs'[t].flow = subs'[t].drawn[Len(subs'[t].drawn)]
    <2>1. t # s
      BY <1>1, <1>6
    <2>2. subs'[t] = subs[t]
      BY <1>1, <2>1
    <2> QED
      BY <1>0, <1>6, <2>2 DEF HeldInv
  <1>7. ASSUME NEW t \in Subscribers, subs'[t].err = "none", NEW n \in DOMAIN subs'[t].drawn
        PROVE  InFlight(t, n)' \/ HeldIn(flows', ponOf'[t], t, subs'[t].drawn[n])
    <2>1. CASE t = s
      <3>1. subs'[s].drawn = subs[s].drawn
        BY <1>1
      <3>2. err = "none" /\ n \in DOMAIN subs[s].drawn
        BY <1>1, <1>7, <2>1, <3>1
      <3>3. HeldIn(flows', ponOf'[s], s, subs[s].drawn[n])
        BY <1>4, <3>2, Zenon
      <3> QED
        BY <2>1, <3>1, <3>3
    <2>2. CASE t # s
      <3>1. subs'[t] = subs[t] /\ (InFlight(t, n)' <=> InFlight(t, n))
        BY <1>5, <2>2, Zenon
      <3>2. subs[t].err = "none" /\ n \in DOMAIN subs[t].drawn
        BY <1>7, <3>1
      <3>3. InFlight(t, n) \/ HeldFor(t, subs[t].drawn[n])
        BY <1>0, <3>2, Zenon DEF HeldInv
      <3>4. InFlight(t, n) \/ HeldIn(flows', ponOf'[t], t, subs[t].drawn[n])
        BY <1>3, <3>3, Zenon
      <3> QED
        BY <3>1, <3>4
    <2> QED
      BY <2>1, <2>2
  <1>8. ASSUME NEW t \in Subscribers, subs'[t].symmetric # 0
        PROVE  \E n \in DOMAIN subs'[t].drawn : /\ subs'[t].drawn[n] = subs'[t].symmetric
                                                /\ InFlight(t, n)' => Request(t)'.pair = "opens"
    <2>1. subs'[t].drawn = subs[t].drawn /\ subs'[t].symmetric = subs[t].symmetric
      BY <1>1
    <2>2. PICK n \in DOMAIN subs[t].drawn : /\ subs[t].drawn[n] = subs[t].symmetric
                                            /\ InFlight(t, n) => Request(t).pair = "opens"
      BY <1>0, <1>8, <2>1 DEF HeldInv
    <2>3. InFlight(t, n)' => Request(t)'.pair = "opens"
      <3>1. CASE t = s
        BY <1>1, <3>1 DEF InFlight
      <3>2. CASE t # s
        BY <1>5, <2>2, <3>2
      <3> QED
        BY <3>1, <3>2
    <2> QED
      BY <2>1, <2>2, <2>3
  <1> QED
    BY <1>1, <1>6, <1>7, <1>8, Zenon DEF HeldInv, HeldFor, HeldIn

LEMMA AnswerFlowInv ==
  ASSUME IndInv, NEW s \in Subscribers, NEW err, AnswerStep(s, err)
  PROVE  FlowInv'
  <1>0. TypeOK /\ FlowInv /\ ReasonInv /\ HeldInv
    BY DEF IndInv
  <1>1. /\ Subscribers' = Subscribers /\ NniTrapFlows' = NniTrapFlows
        /\ \A t \in Subscribers : subs'[t].drawn = subs[t].drawn
    BY <1>0, AnswerMoves, Zenon
  <1>2. workflow' = workflow /\ ponOf' = ponOf /\ flows \subseteq flows'
    BY DEF AnswerStep
  <1>3. ASSUME NEW f \in flows
        PROVE  /\ f.owner = "nni" => f.pon = NniIntf /\ f.id <= NniTrapFlows
               /\ f.owner \in Subscribers => f.pon = ponOf[f.owner] /\ Drawn(f.owner, f.id)
               /\ f.symmetric # 0 => /\ f.owner \in Subscribers /\ Drawn(f.owner, f.symmetric)
                                     /\ workflow # "TT" => AgentHolds(f.pon, f.symmetric)
    BY <1>0 DEF FlowInv
  <1>4. ASSUME subs[s].group > 4, NEW f, f = SubscriberFlow(s)
        PROVE  /\ f.owner = s /\ f.owner # "nni"
               /\ f.pon = ponOf[s] /\ Drawn(s, f.id)
               /\ f.symmetric # 0 => /\ Drawn(s, f.symmetric)
                                     /\ workflow # "TT" => AgentHolds(f.pon, f.symmetric)
    <2>1. /\ f.owner = s /\ f.pon = ponOf[s] /\ f.id = subs[s].flow
          /\ f.symmetric = IF Request(s).pair = "closes" THEN subs[s].symmetric ELSE 0
      BY <1>4 DEF SubscriberFlow
    <2>2. s # "nni"
      BY <1>0 DEF TypeOK
    <2>3. Drawn(s, subs[s].flow)
      <3>1. subs[s].drawn # <<>> /\ subs[s].flow = subs[s].drawn[Len(subs[s].drawn)]
        BY <1>0, <1>4, Zenon DEF AnswerStep, HeldInv
      <3>2. subs[s].drawn \in Seq(Nat)
        BY <1>0 DEF TypeOK, SubscriberState
      <3>3. Len(subs[s].drawn) \in DOMAIN subs[s].drawn
        BY <3>1, <3>2
      <3> QED
        BY <3>1, <3>3 DEF Drawn
    <2>4. ASSUME f.symmetric # 0
          PROVE  /\ Drawn(s, f.symmetric)
                 /\ workflow # "TT" => AgentHolds(f.pon, f.symmetric)
      <3>1. Request(s).pair = "closes" /\ f.symmetric = subs[s].symmetric
        BY <2>1, <2>4
      <3>2. PICK n \in DOMAIN subs[s].drawn : /\ subs[s].drawn[n] = f.symmetric
                                              /\ InFlight(s, n) => Request(s).pair = "opens"
        BY <1>0, <2>4, <3>1 DEF HeldInv
      <3>3. ~InFlight(s, n)
        BY <3>1, <3>2
      <3>4. ASSUME workflow # "TT" PROVE AgentHolds(f.pon, f.symmetric)
        <4>1. subs[s].err = "none"
          BY <1>0, <3>4, Zenon DEF ReasonInv, AnswerStep
        <4>2. HeldFor(s, f.symmetric)
          BY <1>0, <3>2, <3>3, <4>1 DEF HeldInv
        <4> QED
          BY <2>1, <4>2 DEF HeldFor, AgentHolds
      <3> QED
        BY <3>2, <3>4 DEF Drawn
    <2> QED
      BY <2>1, <2>2, <2>3, <2>4
  <1>5. ASSUME NEW t \in Subscribers, NEW id, Drawn(t, id)
        PROVE  \E n \in DOMAIN subs'[t].drawn : subs'[t].drawn[n] = id
    BY <1>1, <1>5 DEF Drawn
  <1>6. ASSUME NEW pon, NEW id, AgentHolds(pon, id)
        PROVE  \E h \in flows' : h.pon = pon /\ h.id = id
    BY <1>2, <1>6 DEF AgentHolds
  <1>7. ASSUME NEW f \in flows'
        PROVE  /\ f.owner = "nni" => f.pon = NniIntf /\ f.id <= NniTrapFlows
               /\ f.owner \in Subscribers => f.pon = ponOf[f.owner] /\ Drawn(f.owner, f.id)
               /\ f.symmetric # 0 => /\ f.owner \in Subscribers /\ Drawn(f.owner, f.symmetric)
                                     /\ workflow # "TT" => AgentHolds(f.pon, f.symmetric)
    <2>1. CASE f \in flows
      BY <1>3, <2>1, Zenon
    <2>2. CASE f = SubscriberFlow(s) /\ subs[s].group > 4
      BY <1>4, <2>2
    <2> QED
      BY <2>1, <2>2, Zenon DEF AnswerStep
  <1>8. ASSUME NEW f \in flows'
        PROVE  /\ f.owner = "nni" => f.pon = NniIntf /\ f.id <= NniTrapFlows'
               /\ f.owner \in Subscribers' =>
                    f.pon = ponOf'[f.owner] /\ \E n \in DOMAIN subs'[f.owner].drawn : subs'[f.owner].drawn[n] = f.id
               /\ f.symmetric # 0 =>
                    /\ f.owner \in Subscribers'
                    /\ \E n \in DOMAIN subs'[f.owner].drawn : subs'[f.owner].drawn[n] = f.symmetric
                    /\ workflow' # "TT" => \E h \in flows' : h.pon = f.pon /\ h.id = f.symmetric
    BY <1>1, <1>2, <1>5, <1>6, <1>7
  <1> QED
    BY <1>8, Zenon DEF FlowInv, Drawn, AgentHolds, NniIntf

LEMMA AnswerCountInv ==
  ASSUME IndInv, NEW s \in Subscribers, NEW err, AnswerStep(s, err)
  PROVE  CountInv'
  <1>0. TypeOK /\ StageInv /\ HeldInv /\ CountInv
    BY DEF IndInv
  <1>1. /\ Subscribers' = Subscribers /\ FlowRequests' = FlowRequests
        /\ \A t \in Subscribers : t # s => subs'[t] = subs[t]
        /\ subs'[s].drawn = subs[s].drawn /\ subs'[s].flow = 0 /\ subs[s].reason = "none"
    BY <1>0, AnswerMoves, Zenon
  <1>2. ASSUME NEW t \in Subscribers, t # s
        PROVE  Len(subs'[t].drawn) = Cardinality(Answered(t)') + IF subs'[t].flow # 0 THEN 1 ELSE 0
    <2>1. subs'[t] = subs[t]
      BY <1>1, <1>2
    <2>2. Answered(t)' = Answered(t)
      BY <1>1, <2>1, Zenon DEF Answered, Ended
    <2>3. Len(subs[t].drawn) = Cardinality(Answered(t)) + IF subs[t].flow # 0 THEN 1 ELSE 0
      BY <1>0 DEF CountInv
    <2> QED
      BY <2>1, <2>2, <2>3, Zenon
  <1>3. Len(subs[s].drawn) = Cardinality(Answered(s)) + IF subs[s].flow # 0 THEN 1 ELSE 0
    BY <1>0 DEF CountInv
  <1>4. PICK g \in Nat, r \in Nat, size \in Nat, len \in Nat :
          /\ g = subs[s].group /\ r = subs[s].req /\ size = Len(Script[g]) /\ len = Len(Script)
          /\ g \in 1 .. len /\ r \in 1 .. size
    <2>1. /\ subs[s].group \in 1 .. Len(Script) /\ Len(Script) \in Nat /\ subs[s].group \in Nat
          /\ Len(Script[subs[s].group]) \in 1 .. 4
          /\ subs[s].req \in 1 .. Len(Script[subs[s].group]) /\ subs[s].req \in Nat
      BY <1>0, GroupFacts, Zenon
    <2>2. Len(Script[subs[s].group]) \in Nat
      BY <2>1
    <2> QED
      BY <2>1, <2>2, Zenon
  <1>5. \/ /\ r < size /\ subs'[s].group = g /\ subs'[s].req = r + 1 /\ subs'[s].reason = "none"
        \/ /\ r = size /\ subs'[s].group = g /\ subs'[s].req = r /\ subs'[s].reason # "none"
        \/ /\ r = size /\ subs'[s].group = g + 1 /\ subs'[s].req = 1 /\ subs'[s].reason = "none"
    BY <1>0, <1>4, AnswerCases
  <1>6. /\ \A at \in FlowRequests : /\ at = <<at[1], at[2]>> /\ at[1] \in Nat /\ at[2] \in Nat /\ at[1] > 4
                                    /\ at[2] >= 1
                                    /\ at[1] = g => at[2] <= size
        /\ g > 4 => <<g, r>> \in FlowRequests
        /\ IsFiniteSet(FlowRequests)
    <2>1. ASSUME NEW at \in FlowRequests
          PROVE  /\ at = <<at[1], at[2]>> /\ at[1] \in Nat /\ at[2] \in Nat /\ at[1] > 4
                 /\ at[2] >= 1
                 /\ at[1] = g => at[2] <= size
      <3>1. /\ at = <<at[1], at[2]>> /\ at[1] \in 1 .. Len(Script) /\ at[1] > 4
            /\ at[2] \in 1 .. Len(Script[at[1]]) /\ Len(Script[at[1]]) \in 1 .. 4
        BY <1>0, FlowRequestFacts, Zenon
      <3>2. PICK n \in 1 .. 4 : n = Len(Script[at[1]])
        BY <3>1
      <3>3. at[2] \in 1 .. n /\ (at[1] = g => n = size) /\ at[1] \in 1 .. len
        BY <1>4, <3>1, <3>2, Zenon
      <3> QED
        BY <3>1, <3>3
    <2>2. g > 4 => <<g, r>> \in FlowRequests
      BY <1>0, <1>4, FlowRequestFacts, Zenon
    <2>3. IsFiniteSet(FlowRequests)
      BY <1>0, FlowRequestFacts, Zenon
    <2> QED
      BY <2>1, <2>2, <2>3
  <1>7. ASSUME NEW at \in FlowRequests
        PROVE  at \in Answered(s) <=> (at[1] < g \/ (at[1] = g /\ at[2] < r))
    BY <1>1, <1>4 DEF Answered, Ended
  <1>8. ASSUME NEW at \in FlowRequests
        PROVE  at \in Answered(s)' <=> \/ at[1] < subs'[s].group
                                       \/ at[1] = subs'[s].group /\ (at[2] < subs'[s].req \/ subs'[s].reason # "none")
    BY <1>1 DEF Answered, Ended
  <1>9. ASSUME NEW at \in FlowRequests
        PROVE  at \in Answered(s)' <=> (at \in Answered(s) \/ at = <<g, r>>)
    <2>1. PICK h \in Nat, q \in Nat : /\ at = <<h, q>> /\ at[1] = h /\ at[2] = q /\ h > 4
                                      /\ q >= 1 /\ (h = g => q <= size)
      BY <1>6
    <2>2. at \in Answered(s) <=> (h < g \/ (h = g /\ q < r))
      BY <1>7, <2>1
    <2>3. at \in Answered(s)' <=> \/ h < subs'[s].group
                                  \/ h = subs'[s].group /\ (q < subs'[s].req \/ subs'[s].reason # "none")
      BY <1>8, <2>1
    <2>4. at = <<g, r>> <=> h = g /\ q = r
      BY <2>1
    <2>5. at \in Answered(s)' <=> (h < g \/ (h = g /\ q <= r))
      <3>1. CASE r < size /\ subs'[s].group = g /\ subs'[s].req = r + 1 /\ subs'[s].reason = "none"
        BY <2>3, <3>1
      <3>2. CASE r = size /\ subs'[s].group = g /\ subs'[s].req = r /\ subs'[s].reason # "none"
        BY <2>1, <2>3, <3>2
      <3>3. CASE r = size /\ subs'[s].group = g + 1 /\ subs'[s].req = 1 /\ subs'[s].reason = "none"
        BY <2>1, <2>3, <3>3
      <3> QED
        BY <1>5, <3>1, <3>2, <3>3, Zenon
    <2>6. (h < g \/ (h = g /\ q <= r)) <=> (h < g \/ (h = g /\ q < r) \/ (h = g /\ q = r))
      OBVIOUS
    <2> QED
      BY <2>2, <2>4, <2>5, <2>6, Zenon
  <1>10. Answered(s) \subseteq FlowRequests /\ Answered(s)' \subseteq FlowRequests
    BY <1>1 DEF Answered
  <1>11. IsFiniteSet(Answered(s))
    BY <1>6, <1>10, FS_Subset
  <1>12. ASSUME g > 4
         PROVE  Len(subs'[s].drawn) = Cardinality(Answered(s)') + IF subs'[s].flow # 0 THEN 1 ELSE 0
    <2>1. subs[s].flow # 0
      BY <1>4, <1>12 DEF AnswerStep
    <2>2. Answered(s)' = Answered(s) \cup {<<g, r>>}
      BY <1>6, <1>9, <1>10, <1>12
    <2>3. <<g, r>> \notin Answered(s)
      <3>1. <<g, r>>[1] = g /\ <<g, r>>[2] = r
        OBVIOUS
      <3>2. ~(g < g) /\ ~(r < r)
        OBVIOUS
      <3> QED
        BY <1>6, <1>7, <1>12, <3>1, <3>2, Zenon
    <2>4. Cardinality(Answered(s)') = Cardinality(Answered(s)) + 1
      BY <1>11, <2>2, <2>3, FS_AddElement
    <2> QED
      BY <1>1, <1>3, <2>1, <2>4
  <1>13. ASSUME ~(g > 4)
         PROVE  Len(subs'[s].drawn) = Cardinality(Answered(s)') + IF subs'[s].flow # 0 THEN 1 ELSE 0
    <2>1. subs[s].flow = 0
      <3>1. subs[s].flow # 0 => subs[s].drawn # <<>>
        BY <1>0 DEF HeldInv
      <3>2. subs[s].drawn # <<>> => subs[s].group > 4
        BY <1>0 DEF StageInv
      <3> QED
        BY <1>4, <1>13, <3>1, <3>2
    <2>2. <<g, r>> \notin FlowRequests
      <3>1. <<g, r>>[1] = g
        OBVIOUS
      <3> QED
        BY <1>6, <1>13, <3>1, Zenon
    <2>3. Answered(s)' = Answered(s)
      BY <1>9, <1>10, <2>2, Zenon
    <2> QED
      BY <1>1, <1>3, <2>1, <2>3
  <1>14. Len(subs'[s].drawn) = Cardinality(Answered(s)') + IF subs'[s].flow # 0 THEN 1 ELSE 0
    BY <1>12, <1>13, Zenon
  <1>15. ASSUME NEW t \in Subscribers
         PROVE  Len(subs'[t].drawn) = Cardinality(Answered(t)') + IF subs'[t].flow # 0 THEN 1 ELSE 0
    BY <1>2, <1>14, Zenon
  <1> QED
    BY <1>1, <1>15, Zenon DEF CountInv

LEMMA AnswerInv ==
  ASSUME IndInv, NEW s \in Subscribers, NEW err, AnswerStep(s, err)
  PROVE  IndInv'
  BY AnswerTypeOK, AnswerIdInv, AnswerFlowInv, AnswerStageInv, AnswerReasonInv, AnswerHeldInv,
     AnswerCountInv, Zenon DEF IndInv

-----------------------------------------------------------------------------
(* The actions. *)

\* What an answer makes of the error of the subscriber.
LEMMA AnswerErr ==
  ASSUME TypeOK, NEW s \in Subscribers, NEW answer
  PROVE  \E err \in Errors :
           /\ After(s, answer # "ok") = Moved(s, err)
           /\ err = subs[s].err \/ (subs[s].err = "none" /\ err = FailedAt(subs[s].group))
           /\ err = "none" => answer = "ok"
  <1>1. subs[s].err \in Errors
    <2>1. subs[s] \in SubscriberState
      BY DEF TypeOK
    <2> QED
      BY <2>1 DEF SubscriberState, Errors
  <1>2. /\ Reason(Request(s).kind) = FailedAt(subs[s].group)
        /\ FailedAt(subs[s].group) \in {"SCHED_CREATION_FAILED", "QUEUE_CREATION_FAILED", "FLOW_ADD_FAILED"}
    BY GroupFacts, Zenon
  <1>3. FailedAt(subs[s].group) \in Errors /\ FailedAt(subs[s].group) # "none"
    BY <1>2 DEF Errors
  <1>4. CASE answer = "ok"
    <2>1. After(s, answer # "ok") = Moved(s, subs[s].err)
      BY <1>4 DEF After, Moved, GoesOn
    <2> QED
      BY <1>1, <1>4, <2>1, Zenon
  <1>5. CASE answer # "ok" /\ subs[s].err = "none"
    <2>1. After(s, answer # "ok") = Moved(s, FailedAt(subs[s].group))
      BY <1>2, <1>5 DEF After, Moved, GoesOn
    <2> QED
      BY <1>3, <1>5, <2>1, Zenon
  <1>6. CASE answer # "ok" /\ subs[s].err # "none"
    <2>1. After(s, answer # "ok") = Moved(s, subs[s].err)
      BY <1>6 DEF After, Moved, GoesOn
    <2> QED
      BY <1>1, <1>6, <2>1, Zenon
  <1> QED
    BY <1>4, <1>5, <1>6, Zenon

LEMMA CreateResourceInv ==
  ASSUME IndInv, NEW s \in Subscribers, ~Ended(s), CreateResource(s)
  PROVE  IndInv'
  <1>0. TypeOK
    BY DEF IndInv
  <1>1. PICK answer : 
          /\ subs' = [subs EXCEPT ![s] = After(s, answer # "ok")]
          /\ LET created == IF Applied(answer) THEN {<<s, Request(s).dir>>} ELSE {}
             IN  IF Request(s).kind = "sched"
                 THEN scheds' = scheds \cup created /\ UNCHANGED queues
                 ELSE queues' = queues \cup created /\ UNCHANGED scheds
    BY DEF CreateResource
  <1>2. /\ Request(s).kind \in {"sched", "queue"}
        /\ UNCHANGED <<workflow, ponOf, flowId, nni, flows>>
    BY DEF CreateResource
  <1>3. PICK err \in Errors :
          /\ After(s, answer # "ok") = Moved(s, err)
          /\ err = subs[s].err \/ (subs[s].err = "none" /\ err = FailedAt(subs[s].group))
          /\ err = "none" => answer = "ok"
    BY <1>0, AnswerErr, Zenon
  <1>4. /\ subs[s].group \in Nat
        /\ subs[s].group \in 1 .. 2 => Request(s).kind = "sched"
        /\ subs[s].group \in 3 .. 4 => Request(s).kind = "queue"
        /\ subs[s].group > 4 => Request(s).kind = "flow"
    BY <1>0, GroupFacts, Zenon
  <1>5. subs[s].group \in 1 .. 2 \/ subs[s].group \in 3 .. 4
    <2>1. ~(subs[s].group > 4)
      BY <1>2, <1>4
    <2>2. subs[s].group \in 1 .. Len(Script)
      BY <1>0, GroupFacts, Zenon
    <2>3. subs[s].group >= 1
      BY <1>4, <2>2
    <2> QED
      BY <1>4, <2>1, <2>3
  <1>6. Request(s).kind = "sched" <=> subs[s].group \in 1 .. 2
    <2>1. Request(s).kind = "sched" => ~(Request(s).kind = "queue")
      OBVIOUS
    <2> QED
      BY <1>4, <1>5, <2>1, Zenon
  <1>7. Request(s).kind # "sched" <=> subs[s].group \in 3 .. 4
    <2>1. ~(subs[s].group \in 1 .. 2 /\ subs[s].group \in 3 .. 4)
      BY <1>4
    <2> QED
      BY <1>5, <1>6, <2>1, Zenon
  <1>8. answer = "ok" => Applied(answer)
    BY DEF Applied
  <1>9. /\ scheds \subseteq scheds' /\ queues \subseteq queues'
        /\ \A x \in scheds' : x \in scheds \/ (x = <<s, Request(s).dir>> /\ Request(s).kind = "sched")
        /\ \A x \in queues' : x \in queues \/ (x = <<s, Request(s).dir>> /\ Request(s).kind # "sched")
        /\ err = "none" => /\ Request(s).kind = "sched" => <<s, Request(s).dir>> \in scheds'
                           /\ Request(s).kind # "sched" => <<s, Request(s).dir>> \in queues'
    BY <1>1, <1>3, <1>8
  <1>10. ~(subs[s].group > 4)
    BY <1>4, <1>5
  <1>11. AnswerStep(s, err)
    BY <1>1, <1>2, <1>3, <1>6, <1>7, <1>9, <1>10, Zenon DEF AnswerStep
  <1> QED
    BY <1>11, AnswerInv, Zenon

\* A flow on the PON of a subscriber under the id it has in flight is its own or
\* left by an earlier run.
LEMMA InFlightIsOwn ==
  ASSUME IndInv, NEW s \in Subscribers, subs[s].flow # 0, AgentHolds(ponOf[s], subs[s].flow)
  PROVE  HeldIn(flows, ponOf[s], s, subs[s].flow)
  <1>0. TypeOK /\ IdInv /\ FlowInv /\ HeldInv
    BY DEF IndInv
  <1>1. PICK f \in flows : f.pon = ponOf[s] /\ f.id = subs[s].flow
    BY DEF AgentHolds
  <1>2. ponOf[s] \in Nat
    BY <1>0 DEF TypeOK
  <1>3. f.owner # "nni"
    BY <1>0, <1>1, <1>2 DEF FlowInv, NniIntf
  <1>4. ASSUME f.owner \in Subscribers PROVE f.owner = s
    <2>1. ponOf[f.owner] = ponOf[s] /\ Drawn(f.owner, subs[s].flow)
      BY <1>0, <1>1, <1>4 DEF FlowInv
    <2>2. PICK n \in DOMAIN subs[f.owner].drawn : subs[f.owner].drawn[n] = subs[s].flow
      BY <2>1 DEF Drawn
    <2>3. subs[s].drawn # <<>> /\ subs[s].flow = subs[s].drawn[Len(subs[s].drawn)]
      BY <1>0 DEF HeldInv
    <2>4. subs[s].drawn \in Seq(Nat)
      BY <1>0 DEF TypeOK, SubscriberState
    <2>5. Len(subs[s].drawn) \in DOMAIN subs[s].drawn
      BY <2>3, <2>4
    <2> QED
      BY <1>0, <1>4, <2>1, <2>2, <2>3, <2>5 DEF IdInv
  <1>5. f.owner \in {s, "earlier"}
    BY <1>0, <1>3, <1>4 DEF TypeOK
  <1> QED
    BY <1>1, <1>5 DEF HeldIn

LEMMA AddFlowInv ==
  ASSUME IndInv, NEW s \in Subscribers, ~Ended(s), AddFlow(s)
  PROVE  IndInv'
  <1>0. TypeOK
    BY DEF IndInv
  <1>1. /\ Request(s).kind = "flow" /\ subs[s].flow # 0
        /\ UNCHANGED <<workflow, ponOf, flowId, nni, scheds, queues>>
    BY DEF AddFlow
  <1>2. /\ subs[s].group \in Nat
        /\ subs[s].group \in 1 .. 2 => Request(s).kind = "sched"
        /\ subs[s].group \in 3 .. 4 => Request(s).kind = "queue"
    BY <1>0, GroupFacts, Zenon
  <1>3. ~(subs[s].group \in 1 .. 2) /\ ~(subs[s].group \in 3 .. 4)
    BY <1>1, <1>2
  <1>4. subs[s].group > 4
    <2>1. subs[s].group \in 1 .. Len(Script)
      BY <1>0, GroupFacts, Zenon
    <2>2. subs[s].group >= 1
      BY <1>2, <2>1
    <2> QED
      BY <1>2, <1>3, <2>2
  <1>5. \E answer : /\ subs' = [subs EXCEPT ![s] = After(s, answer # "ok")]
                    /\ flows \subseteq flows'
                    /\ \A f \in flows' : f \in flows \/ f = SubscriberFlow(s)
                    /\ answer = "ok" => HeldIn(flows', ponOf[s], s, subs[s].flow)
    <2>1. CASE /\ AgentHolds(ponOf[s], subs[s].flow)
               /\ subs' = [subs EXCEPT ![s] = After(s, FALSE)]
               /\ UNCHANGED flows
      <3>1. HeldIn(flows, ponOf[s], s, subs[s].flow)
        BY <1>1, <2>1, InFlightIsOwn, Zenon
      <3>2. After(s, FALSE) = After(s, "ok" # "ok")
        BY DEF After
      <3>3. subs' = [subs EXCEPT ![s] = After(s, "ok" # "ok")] /\ flows' = flows
        BY <2>1, <3>2
      <3> WITNESS "ok"
      <3> QED
        BY <3>1, <3>3
    <2>2. CASE /\ ~AgentHolds(ponOf[s], subs[s].flow)
               /\ \E answer \in Answers :
                    /\ subs' = [subs EXCEPT ![s] = After(s, answer # "ok")]
                    /\ flows' = IF Applied(answer) THEN flows \cup {SubscriberFlow(s)} ELSE flows
      <3>1. PICK answer \in Answers :
              /\ subs' = [subs EXCEPT ![s] = After(s, answer # "ok")]
              /\ flows' = IF Applied(answer) THEN flows \cup {SubscriberFlow(s)} ELSE flows
        BY <2>2
      <3>2. flows \subseteq flows' /\ \A f \in flows' : f \in flows \/ f = SubscriberFlow(s)
        BY <3>1
      <3>3. ASSUME answer = "ok" PROVE HeldIn(flows', ponOf[s], s, subs[s].flow)
        <4>1. SubscriberFlow(s) \in flows'
          BY <3>1, <3>3 DEF Applied
        <4>2. /\ SubscriberFlow(s).pon = ponOf[s] /\ SubscriberFlow(s).id = subs[s].flow
              /\ SubscriberFlow(s).owner = s
          BY DEF SubscriberFlow
        <4> QED
          BY <4>1, <4>2 DEF HeldIn
      <3> QED
        BY <3>1, <3>2, <3>3, Zenon
    <2> QED
      BY <2>1, <2>2, Zenon DEF AddFlow
  <1>6. PICK answer : /\ subs' = [subs EXCEPT ![s] = After(s, answer # "ok")]
                      /\ flows \subseteq flows'
                      /\ \A f \in flows' : f \in flows \/ f = SubscriberFlow(s)
                      /\ answer = "ok" => HeldIn(flows', ponOf[s], s, subs[s].flow)
    BY <1>5
  <1>7. PICK err \in Errors :
          /\ After(s, answer # "ok") = Moved(s, err)
          /\ err = subs[s].err \/ (subs[s].err = "none" /\ err = FailedAt(subs[s].group))
          /\ err = "none" => answer = "ok"
    BY <1>0, AnswerErr, Zenon
  <1>8. scheds' = scheds /\ queues' = queues
    BY <1>1
  <1>9. AnswerStep(s, err)
    BY <1>1, <1>3, <1>4, <1>6, <1>7, <1>8 DEF AnswerStep
  <1> QED
    BY <1>9, AnswerInv, Zenon

\* What drawing an id changes.
LEMMA DrawFacts ==
  ASSUME TypeOK, NEW s \in Subscribers, GetFlowID(s), NEW id, id = flowId[ponOf[s]] + 1
  PROVE  /\ id \in Nat /\ id >= 1 /\ ponOf[s] \in Pons
         /\ Script' = Script /\ Subscribers' = Subscribers /\ Pons' = Pons
         /\ NniTrapFlows' = NniTrapFlows /\ FlowRequests' = FlowRequests
         /\ subs' \in [Subscribers -> SubscriberState]
         /\ \A t \in Subscribers : t # s => subs'[t] = subs[t]
         /\ \A t \in Subscribers : /\ subs'[t].group = subs[t].group /\ subs'[t].req = subs[t].req
                                   /\ subs'[t].err = subs[t].err /\ subs'[t].reason = subs[t].reason
         /\ subs'[s].flow = id /\ subs'[s].drawn = Append(subs[s].drawn, id)
         /\ subs'[s].symmetric = IF Request(s).pair = "opens" THEN id ELSE subs[s].symmetric
         /\ flowId' \in [Pons -> Nat]
         /\ \A p \in Pons : flowId'[p] = IF p = ponOf[s] THEN id ELSE flowId[p]
         /\ subs[s].flow = 0 /\ subs[s].group > 4
         /\ workflow' = workflow /\ ponOf' = ponOf /\ nni' = nni
         /\ scheds' = scheds /\ queues' = queues /\ flows' = flows
  <1>1. /\ Request(s).kind = "flow" /\ subs[s].flow = 0
        /\ flowId' = [flowId EXCEPT ![ponOf[s]] = id]
        /\ subs' = [subs EXCEPT ![s].flow = id, ![s].drawn = Append(@, id),
                                ![s].symmetric = IF Request(s).pair = "opens" THEN id ELSE @]
        /\ workflow' = workflow /\ ponOf' = ponOf /\ nni' = nni
        /\ scheds' = scheds /\ queues' = queues /\ flows' = flows
    BY DEF GetFlowID
  <1>2. ponOf[s] \in Pons
    BY DEF Pons
  <1>3. id \in Nat /\ id >= 1
    BY <1>2 DEF TypeOK
  <1>4. /\ Script' = Script /\ Subscribers' = Subscribers /\ Pons' = Pons
        /\ NniTrapFlows' = NniTrapFlows /\ FlowRequests' = FlowRequests
    BY <1>1, Frame, Zenon
  <1>5. /\ flowId' \in [Pons -> Nat]
        /\ \A p \in Pons : flowId'[p] = IF p = ponOf[s] THEN id ELSE flowId[p]
    BY <1>1, <1>2, <1>3 DEF TypeOK
  <1>6. PICK next : next = [subs[s] EXCEPT !.flow = id, !.drawn = Append(@, id),
                                           !.symmetric = IF Request(s).pair = "opens" THEN id ELSE @]
    OBVIOUS
  <1>7. subs \in [Subscribers -> SubscriberState] /\ subs[s] \in SubscriberState
    BY DEF TypeOK
  <1>8. subs' = [subs EXCEPT ![s] = next]
    BY <1>1, <1>6, <1>7
  <1>9. PICK symmetric \in Nat : symmetric = IF Request(s).pair = "opens" THEN id ELSE subs[s].symmetric
    BY <1>3, <1>7 DEF SubscriberState
  <1>10. PICK drawn \in Seq(Nat) : drawn = Append(subs[s].drawn, id)
    <2>1. subs[s].drawn \in Seq(Nat)
      BY <1>7 DEF SubscriberState
    <2> QED
      BY <1>3, <2>1, AppendType
  <1>11. next = [subs[s] EXCEPT !.flow = id, !.drawn = drawn, !.symmetric = symmetric]
    BY <1>6, <1>7, <1>9, <1>10 DEF SubscriberState
  <1>12. /\ next \in SubscriberState /\ next.flow = id /\ next.drawn = drawn /\ next.symmetric = symmetric
         /\ next.group = subs[s].group /\ next.req = subs[s].req
         /\ next.err = subs[s].err /\ next.reason = subs[s].reason
    BY <1>3, <1>7, <1>11 DEF SubscriberState
  <1>13. /\ subs'[s] = next /\ subs' \in [Subscribers -> SubscriberState]
         /\ \A t \in Subscribers : t # s => subs'[t] = subs[t]
    BY <1>7, <1>8, <1>12
  <1>14. subs[s].group > 4
    <2>1. /\ subs[s].group \in Nat
          /\ subs[s].group \in 1 .. 2 => Request(s).kind = "sched"
          /\ subs[s].group \in 3 .. 4 => Request(s).kind = "queue"
          /\ subs[s].group \in 1 .. Len(Script)
      BY GroupFacts, Zenon
    <2>2. ~(subs[s].group \in 1 .. 2) /\ ~(subs[s].group \in 3 .. 4)
      BY <1>1, <2>1
    <2>3. PICK g \in Nat : g = subs[s].group
      BY <2>1
    <2>4. g >= 1 /\ ~(g \in 1 .. 2) /\ ~(g \in 3 .. 4)
      BY <2>1, <2>2, <2>3
    <2>5. g > 4
      BY ONLY <2>4, g \in Nat
    <2> QED
      BY <2>3, <2>5
  <1>15. ASSUME NEW t \in Subscribers
         PROVE  /\ subs'[t].group = subs[t].group /\ subs'[t].req = subs[t].req
                /\ subs'[t].err = subs[t].err /\ subs'[t].reason = subs[t].reason
    BY <1>12, <1>13
  <1>16. /\ subs'[s].flow = id /\ subs'[s].drawn = Append(subs[s].drawn, id)
         /\ subs'[s].symmetric = IF Request(s).pair = "opens" THEN id ELSE subs[s].symmetric
    BY <1>9, <1>10, <1>12, <1>13
  <1> QED
    BY <1>1, <1>2, <1>3, <1>4, <1>5, <1>13, <1>14, <1>15, <1>16, Zenon

\* The drawn ids: one longer for the subscriber, the same for the others.
LEMMA DrawnIds ==
  ASSUME TypeOK, NEW s \in Subscribers, GetFlowID(s), NEW id, id = flowId[ponOf[s]] + 1
  PROVE  /\ \A t \in Subscribers : subs[t].drawn \in Seq(Nat) /\ Len(subs[t].drawn) \in Nat
         /\ \A t \in Subscribers : DOMAIN subs[t].drawn = 1 .. Len(subs[t].drawn)
         /\ \A t \in Subscribers : \A n \in DOMAIN subs[t].drawn :
              n \in DOMAIN subs'[t].drawn /\ subs'[t].drawn[n] = subs[t].drawn[n]
         /\ Len(subs'[s].drawn) = Len(subs[s].drawn) + 1
         /\ Len(subs[s].drawn) + 1 \in DOMAIN subs'[s].drawn
         /\ subs'[s].drawn[Len(subs[s].drawn) + 1] = id
         /\ \A t \in Subscribers : \A n \in DOMAIN subs'[t].drawn :
              \/ n \in DOMAIN subs[t].drawn
              \/ t = s /\ n = Len(subs[s].drawn) + 1
  <1>1. /\ subs'[s].drawn = Append(subs[s].drawn, id) /\ id \in Nat
        /\ \A t \in Subscribers : t # s => subs'[t] = subs[t]
    BY DrawFacts
  <1>2. ASSUME NEW t \in Subscribers PROVE subs[t].drawn \in Seq(Nat)
    BY DEF TypeOK, SubscriberState
  <1>3. PICK q \in Seq(Nat) : q = subs[s].drawn
    BY <1>2
  <1>4. PICK qa \in Seq(Nat) : qa = Append(q, id)
    BY <1>1, AppendType
  <1>5. /\ Len(q) \in Nat /\ DOMAIN q = 1 .. Len(q) /\ Len(qa) = Len(q) + 1
        /\ DOMAIN qa = 1 .. (Len(q) + 1)
        /\ \A n \in DOMAIN q : qa[n] = q[n]
        /\ qa[Len(q) + 1] = id
    BY <1>1, <1>4
  <1>6. /\ \A n \in DOMAIN q : n \in DOMAIN qa
        /\ \A n \in DOMAIN qa : n \in DOMAIN q \/ n = Len(q) + 1
        /\ Len(q) + 1 \in DOMAIN qa
    BY <1>5
  <1>7. ASSUME NEW t \in Subscribers
        PROVE  Len(subs[t].drawn) \in Nat /\ DOMAIN subs[t].drawn = 1 .. Len(subs[t].drawn)
    BY <1>2
  <1>8. subs'[s].drawn = qa
    BY <1>1, <1>3, <1>4
  <1>9. ASSUME NEW t \in Subscribers, NEW n \in DOMAIN subs[t].drawn
        PROVE  n \in DOMAIN subs'[t].drawn /\ subs'[t].drawn[n] = subs[t].drawn[n]
    <2>1. CASE t = s
      BY <1>3, <1>5, <1>6, <1>8, <1>9, <2>1
    <2>2. CASE t # s
      BY <1>1, <1>9, <2>2
    <2> QED
      BY <2>1, <2>2
  <1>10. ASSUME NEW t \in Subscribers, NEW n \in DOMAIN subs'[t].drawn
         PROVE  \/ n \in DOMAIN subs[t].drawn
                \/ t = s /\ n = Len(subs[s].drawn) + 1
    <2>1. CASE t = s
      BY <1>3, <1>6, <1>8, <1>10, <2>1
    <2>2. CASE t # s
      BY <1>1, <1>10, <2>2
    <2> QED
      BY <2>1, <2>2
  <1> QED
    BY <1>2, <1>3, <1>5, <1>6, <1>7, <1>8, <1>9, <1>10, Zenon

LEMMA DrawIdInv ==
  ASSUME IndInv, NEW s \in Subscribers, nni = NniTrapFlows, GetFlowID(s)
  PROVE  IdInv'
  <1>0. TypeOK /\ IdInv
    BY DEF IndInv
  <1>1. PICK id : id = flowId[ponOf[s]] + 1
    OBVIOUS
  <1>2. /\ id \in Nat /\ id >= 1 /\ ponOf[s] \in Pons /\ Subscribers' = Subscribers
        /\ NniTrapFlows' = NniTrapFlows /\ ponOf' = ponOf /\ nni' = nni
        /\ \A p \in Pons : flowId'[p] = IF p = ponOf[s] THEN id ELSE flowId[p]
    BY <1>0, <1>1, DrawFacts
  <1>3. \A p \in Pons : flowId[p] \in Nat
    BY <1>0 DEF TypeOK
  <1>4. \A t \in Subscribers : ponOf[t] \in Pons
    BY DEF Pons
  <1>5. 0 \in Pons
    BY DEF Pons
  <1>6. NniTrapFlows \in Nat
    BY DEF NniTrapFlows
  <1>7. nni <= flowId'[0]
    <2>1. nni <= flowId[0] /\ flowId[0] \in Nat /\ nni \in Nat
      BY <1>0, <1>3, <1>5, <1>6 DEF IdInv
    <2> QED
      BY <1>1, <1>2, <1>5, <2>1
  <1>8. ASSUME NEW t \in Subscribers, NEW n \in DOMAIN subs[t].drawn
        PROVE  /\ subs[t].drawn[n] \in Nat /\ subs[t].drawn[n] >= 1
               /\ subs[t].drawn[n] <= flowId[ponOf[t]]
               /\ ponOf[t] = 0 => subs[t].drawn[n] > NniTrapFlows
    <2>1. flowId[ponOf[t]] \in Nat
      BY <1>3, <1>4
    <2>2. subs[t].drawn[n] \in 1 .. flowId[ponOf[t]] /\ (ponOf[t] = 0 => subs[t].drawn[n] > NniTrapFlows)
      BY <1>0, <1>8 DEF IdInv
    <2> QED
      BY <2>1, <2>2
  <1>9. /\ \A t \in Subscribers : \A n \in DOMAIN subs[t].drawn : subs'[t].drawn[n] = subs[t].drawn[n]
        /\ subs'[s].drawn[Len(subs[s].drawn) + 1] = id
        /\ \A t \in Subscribers : \A n \in DOMAIN subs'[t].drawn :
             \/ n \in DOMAIN subs[t].drawn
             \/ t = s /\ n = Len(subs[s].drawn) + 1
    BY <1>0, <1>1, DrawnIds
  <1>10. ASSUME NEW t \in Subscribers, NEW n \in DOMAIN subs'[t].drawn
         PROVE  /\ subs'[t].drawn[n] \in 1 .. flowId'[ponOf[t]]
                /\ ponOf[t] = 0 => subs'[t].drawn[n] > NniTrapFlows
    <2>0. flowId[ponOf[t]] \in Nat /\ ponOf[t] \in Pons
      BY <1>3, <1>4
    <2>1. CASE n \in DOMAIN subs[t].drawn
      <3>1. subs'[t].drawn[n] = subs[t].drawn[n]
        BY <1>9, <2>1
      <3>2. flowId'[ponOf[t]] = flowId[ponOf[t]] \/ flowId'[ponOf[t]] = flowId[ponOf[t]] + 1
        BY <1>1, <1>2, <2>0
      <3> QED
        BY <1>8, <2>0, <2>1, <3>1, <3>2
    <2>2. CASE t = s /\ n = Len(subs[s].drawn) + 1
      <3>1. subs'[t].drawn[n] = id /\ flowId'[ponOf[t]] = id
        BY <1>2, <1>9, <2>0, <2>2
      <3>2. ponOf[t] = 0 => id > NniTrapFlows
        <4>1. nni <= flowId[0] /\ flowId[0] \in Nat
          BY <1>0, <1>3, <1>5 DEF IdInv
        <4> QED
          BY <1>1, <1>6, <2>2, <4>1
      <3> QED
        BY <1>2, <3>1, <3>2
    <2> QED
      BY <1>9, <1>10, <2>1, <2>2, Zenon
  <1>11. ASSUME NEW t \in Subscribers, NEW u \in Subscribers, ponOf[t] = ponOf[u],
                NEW m \in DOMAIN subs'[t].drawn, NEW n \in DOMAIN subs'[u].drawn,
                subs'[t].drawn[m] = subs'[u].drawn[n]
         PROVE  t = u /\ m = n
    <2>0. flowId[ponOf[t]] \in Nat /\ flowId[ponOf[u]] \in Nat
      BY <1>3, <1>4
    <2>1. CASE m \in DOMAIN subs[t].drawn /\ n \in DOMAIN subs[u].drawn
      <3>1. subs[t].drawn[m] = subs[u].drawn[n]
        BY <1>9, <1>11, <2>1
      <3> QED
        BY <1>0, <1>11, <2>1, <3>1 DEF IdInv
    <2>2. CASE m \in DOMAIN subs[t].drawn /\ u = s /\ n = Len(subs[s].drawn) + 1
      <3>1. subs[t].drawn[m] = flowId[ponOf[t]] + 1
        BY <1>1, <1>9, <1>11, <2>2
      <3> QED
        BY <1>8, <2>0, <2>2, <3>1
    <2>3. CASE t = s /\ m = Len(subs[s].drawn) + 1 /\ n \in DOMAIN subs[u].drawn
      <3>1. subs[u].drawn[n] = flowId[ponOf[u]] + 1
        BY <1>1, <1>9, <1>11, <2>3
      <3> QED
        BY <1>8, <2>0, <2>3, <3>1
    <2>4. CASE t = s /\ m = Len(subs[s].drawn) + 1 /\ u = s /\ n = Len(subs[s].drawn) + 1
      BY <2>4
    <2> QED
      BY <1>9, <1>11, <2>1, <2>2, <2>3, <2>4, Zenon
  <1>12. ~(nni' < NniTrapFlows')
    BY <1>2, <1>6
  <1>13. \A t \in Subscribers' : \A n \in DOMAIN subs'[t].drawn :
           /\ subs'[t].drawn[n] \in 1 .. flowId'[ponOf'[t]]
           /\ ponOf'[t] = 0 => subs'[t].drawn[n] > NniTrapFlows'
    BY <1>2, <1>10
  <1>14. \A t, u \in Subscribers' : \A m \in DOMAIN subs'[t].drawn, n \in DOMAIN subs'[u].drawn :
           (ponOf'[t] = ponOf'[u] /\ subs'[t].drawn[m] = subs'[u].drawn[n]) => (t = u /\ m = n)
    BY <1>2, <1>11
  <1> QED
    BY <1>2, <1>7, <1>12, <1>13, <1>14, Zenon DEF IdInv

LEMMA GetFlowIDInv ==
  ASSUME IndInv, NEW s \in Subscribers, nni = NniTrapFlows, ~Ended(s), GetFlowID(s)
  PROVE  IndInv'
  <1>0. TypeOK /\ IdInv /\ FlowInv /\ StageInv /\ ReasonInv /\ HeldInv /\ CountInv
    BY DEF IndInv
  <1>1. PICK id : id = flowId[ponOf[s]] + 1
    OBVIOUS
  <1>2. /\ id \in Nat /\ id >= 1
        /\ Script' = Script /\ Subscribers' = Subscribers /\ Pons' = Pons
        /\ NniTrapFlows' = NniTrapFlows /\ FlowRequests' = FlowRequests
        /\ subs' \in [Subscribers -> SubscriberState]
        /\ \A t \in Subscribers : t # s => subs'[t] = subs[t]
        /\ \A t \in Subscribers : /\ subs'[t].group = subs[t].group /\ subs'[t].req = subs[t].req
                                  /\ subs'[t].err = subs[t].err /\ subs'[t].reason = subs[t].reason
        /\ subs'[s].flow = id
        /\ subs'[s].symmetric = IF Request(s).pair = "opens" THEN id ELSE subs[s].symmetric
        /\ flowId' \in [Pons -> Nat]
        /\ subs[s].flow = 0 /\ subs[s].group > 4
        /\ workflow' = workflow /\ ponOf' = ponOf /\ nni' = nni
        /\ scheds' = scheds /\ queues' = queues /\ flows' = flows
    BY <1>0, <1>1, DrawFacts
  <1>3. /\ \A t \in Subscribers : Len(subs[t].drawn) \in Nat
        /\ \A t \in Subscribers : DOMAIN subs[t].drawn = 1 .. Len(subs[t].drawn)
        /\ \A t \in Subscribers : \A n \in DOMAIN subs[t].drawn :
             n \in DOMAIN subs'[t].drawn /\ subs'[t].drawn[n] = subs[t].drawn[n]
        /\ Len(subs'[s].drawn) = Len(subs[s].drawn) + 1
        /\ Len(subs[s].drawn) + 1 \in DOMAIN subs'[s].drawn
        /\ subs'[s].drawn[Len(subs[s].drawn) + 1] = id
        /\ \A t \in Subscribers : \A n \in DOMAIN subs'[t].drawn :
             \/ n \in DOMAIN subs[t].drawn
             \/ t = s /\ n = Len(subs[s].drawn) + 1
    BY <1>0, <1>1, DrawnIds
  <1>4. \A t \in Subscribers : Request(t)' = Request(t) /\ (Ended(t)' <=> Ended(t))
    BY <1>2 DEF Request, Ended
  <1>5. subs'[s].drawn # <<>>
    BY <1>3
  <1>6. TypeOK'
    <2>1. \A t \in Subscribers' : /\ subs'[t].group \in DOMAIN Script'
                                  /\ subs'[t].req \in DOMAIN Script'[subs'[t].group]
      BY <1>0, <1>2, Zenon DEF TypeOK
    <2> QED
      BY <1>0, <1>2, <2>1 DEF TypeOK
  <1>7. IdInv'
    BY DrawIdInv, Zenon
  <1>8. FlowInv'
    <2>1. ASSUME NEW t \in Subscribers, NEW x, Drawn(t, x)
          PROVE  \E n \in DOMAIN subs'[t].drawn : subs'[t].drawn[n] = x
      BY <1>3, <2>1 DEF Drawn
    <2>2. ASSUME NEW f \in flows
          PROVE  /\ f.owner = "nni" => f.pon = NniIntf /\ f.id <= NniTrapFlows
                 /\ f.owner \in Subscribers => f.pon = ponOf[f.owner] /\ Drawn(f.owner, f.id)
                 /\ f.symmetric # 0 => /\ f.owner \in Subscribers /\ Drawn(f.owner, f.symmetric)
                                       /\ workflow # "TT" => AgentHolds(f.pon, f.symmetric)
      BY <1>0 DEF FlowInv
    <2>3. ASSUME NEW pon, NEW x PROVE AgentHolds(pon, x)' <=> AgentHolds(pon, x)
      BY <1>2 DEF AgentHolds
    <2>4. ASSUME NEW f \in flows'
          PROVE  /\ f.owner = "nni" => f.pon = NniIntf /\ f.id <= NniTrapFlows'
                 /\ f.owner \in Subscribers' =>
                      f.pon = ponOf'[f.owner] /\ \E n \in DOMAIN subs'[f.owner].drawn : subs'[f.owner].drawn[n] = f.id
                 /\ f.symmetric # 0 =>
                      /\ f.owner \in Subscribers'
                      /\ \E n \in DOMAIN subs'[f.owner].drawn : subs'[f.owner].drawn[n] = f.symmetric
                      /\ workflow' # "TT" => AgentHolds(f.pon, f.symmetric)'
      BY <1>2, <2>1, <2>2, <2>3
    <2> QED
      BY <2>4, Zenon DEF FlowInv, Drawn, NniIntf
  <1>9. StageInv'
    <2>1. ASSUME NEW t \in Subscribers
          PROVE  subs'[t].drawn # <<>> => subs'[t].group > 4
      <3>1. CASE t = s
        BY <1>2, <3>1
      <3>2. CASE t # s
        BY <1>0, <1>2, <3>2, Zenon DEF StageInv
      <3> QED
        BY <3>1, <3>2
    <2> QED
      BY <1>0, <1>2, <2>1, Zenon DEF StageInv
  <1>10. ReasonInv'
    <2>1. subs[s].reason = "none"
      BY DEF Ended
    <2>2. ASSUME NEW t \in Subscribers, subs[t].drawn # <<>> PROVE subs'[t].drawn # <<>>
      <3>1. CASE t = s
        BY <1>5, <3>1
      <3>2. CASE t # s
        BY <1>2, <2>2, <3>2, Zenon
      <3> QED
        BY <3>1, <3>2
    <2>3. ASSUME NEW t \in Subscribers, Ended(t) PROVE subs'[t].flow = subs[t].flow
      <3>1. t # s
        BY <2>1, <2>3 DEF Ended
      <3> QED
        BY <1>2, <3>1
    <2>4. ASSUME NEW t \in Subscribers
          PROVE  /\ subs[t].err # "none" => /\ subs[t].err = FailedAt(subs[t].group)
                                            /\ subs[t].group > 4 => subs'[t].drawn # <<>>
                                            /\ workflow # "TT" => Ended(t)
                 /\ Ended(t) => /\ subs'[t].flow = 0
                                /\ subs[t].req = Len(Script[subs[t].group])
                                /\ \/ subs[t].reason = subs[t].err
                                   \/ /\ subs[t].reason = "SUBSCRIBER_PROVISION_SUCCESS" /\ subs[t].err = "none"
                                      /\ subs[t].group = Len(Script) /\ <<t, "us">> \in queues
      <3>1. /\ subs[t].err # "none" => /\ subs[t].err = FailedAt(subs[t].group)
                                       /\ subs[t].group > 4 => subs[t].drawn # <<>>
                                       /\ workflow # "TT" => Ended(t)
            /\ Ended(t) => /\ subs[t].flow = 0
                           /\ subs[t].req = Len(Script[subs[t].group])
                           /\ \/ subs[t].reason = subs[t].err
                              \/ /\ subs[t].reason = "SUBSCRIBER_PROVISION_SUCCESS" /\ subs[t].err = "none"
                                 /\ subs[t].group = Len(Script) /\ <<t, "us">> \in queues
        BY <1>0 DEF ReasonInv
      <3> QED
        BY <2>2, <2>3, <3>1, Zenon
    <2>5. ASSUME NEW t \in Subscribers
          PROVE  /\ subs'[t].err # "none" => /\ subs'[t].err = FailedAt(subs'[t].group)
                                             /\ subs'[t].group > 4 => subs'[t].drawn # <<>>
                                             /\ workflow' # "TT" => Ended(t)'
                 /\ Ended(t)' => /\ subs'[t].flow = 0
                                 /\ subs'[t].req = Len(Script'[subs'[t].group])
                                 /\ \/ subs'[t].reason = subs'[t].err
                                    \/ /\ subs'[t].reason = "SUBSCRIBER_PROVISION_SUCCESS" /\ subs'[t].err = "none"
                                       /\ subs'[t].group = Len(Script') /\ <<t, "us">> \in queues'
      BY <1>2, <1>4, <2>4
    <2> QED
      BY <1>2, <2>5, Zenon DEF ReasonInv, FailedAt
  <1>11. HeldInv'
    <2>1. ASSUME NEW t, NEW x PROVE HeldFor(t, x)' <=> HeldFor(t, x)
      BY <1>2 DEF HeldFor
    <2>2. \A n : InFlight(s, n)' <=> n = Len(subs[s].drawn) + 1
      BY <1>2, <1>3 DEF InFlight
    <2>3. ASSUME NEW t \in Subscribers, t # s, NEW n PROVE InFlight(t, n)' <=> InFlight(t, n)
      <3>1. subs'[t] = subs[t]
        BY <1>2, <2>3
      <3> QED
        BY <3>1 DEF InFlight
    <2>4. ASSUME NEW t \in Subscribers, subs'[t].flow # 0
          PROVE  subs'[t].drawn # <<>> /\ subs'[t].flow = subs'[t].drawn[Len(subs'[t].drawn)]
      <3>1. CASE t = s
        BY <1>2, <1>3, <1>5, <3>1
      <3>2. CASE t # s
        <4>1. subs'[t] = subs[t]
          BY <1>2, <3>2
        <4> QED
          BY <1>0, <2>4, <4>1 DEF HeldInv
      <3> QED
        BY <3>1, <3>2
    <2>5. ASSUME NEW t \in Subscribers, subs'[t].err = "none", NEW n \in DOMAIN subs'[t].drawn
          PROVE  InFlight(t, n)' \/ \E f \in flows' : f.pon = ponOf'[t] /\ f.id = subs'[t].drawn[n] /\ f.owner \in {t, "earlier"}
      <3>1. CASE t = s /\ n = Len(subs[s].drawn) + 1
        BY <2>2, <3>1
      <3>2. CASE n \in DOMAIN subs[t].drawn
        <4>1. subs[t].err = "none" /\ subs'[t].drawn[n] = subs[t].drawn[n]
          BY <1>2, <1>3, <2>5, <3>2
        <4>2. InFlight(t, n) \/ HeldFor(t, subs[t].drawn[n])
          BY <1>0, <3>2, <4>1 DEF HeldInv
        <4>3. CASE HeldFor(t, subs[t].drawn[n])
          BY <1>2, <4>1, <4>3 DEF HeldFor
        <4>4. CASE InFlight(t, n)
          <5>1. t # s
            BY <1>2, <4>4 DEF InFlight
          <5> QED
            BY <2>3, <4>4, <5>1
        <4> QED
          BY <4>2, <4>3, <4>4
      <3> QED
        BY <1>3, <2>5, <3>1, <3>2, Zenon
    <2>6. ASSUME NEW t \in Subscribers, subs'[t].symmetric # 0
          PROVE  \E n \in DOMAIN subs'[t].drawn : /\ subs'[t].drawn[n] = subs'[t].symmetric
                                                  /\ InFlight(t, n)' => Request(t)'.pair = "opens"
      <3>1. CASE t = s /\ Request(s).pair = "opens"
        <4>1. subs'[s].symmetric = id /\ Request(s)'.pair = "opens"
          BY <1>2, <1>4, <3>1
        <4> QED
          BY <1>3, <3>1, <4>1
      <3>2. CASE ~(t = s /\ Request(s).pair = "opens")
        <4>1. subs'[t].symmetric = subs[t].symmetric
          BY <1>2, <3>2
        <4>2. PICK n \in DOMAIN subs[t].drawn : /\ subs[t].drawn[n] = subs[t].symmetric
                                                /\ InFlight(t, n) => Request(t).pair = "opens"
          BY <1>0, <2>6, <4>1 DEF HeldInv
        <4>3. n \in DOMAIN subs'[t].drawn /\ subs'[t].drawn[n] = subs'[t].symmetric
          BY <1>3, <4>1, <4>2
        <4>4. CASE t = s
          <5>1. n \in 1 .. Len(subs[s].drawn) /\ Len(subs[s].drawn) \in Nat
            BY <1>3, <4>2, <4>4
          <5>2. n # Len(subs[s].drawn) + 1
            BY <5>1
          <5> QED
            BY <2>2, <4>3, <4>4, <5>2
        <4>5. CASE t # s
          BY <1>4, <2>3, <4>2, <4>3, <4>5
        <4> QED
          BY <4>4, <4>5
      <3> QED
        BY <3>1, <3>2
    <2> QED
      BY <1>2, <2>4, <2>5, <2>6, Zenon DEF HeldInv, HeldFor
  <1>12. CountInv'
    <2>1. ASSUME NEW t \in Subscribers PROVE Answered(t)' = Answered(t)
      BY <1>2, <1>4, <2>1, Zenon DEF Answered
    <2>2. ASSUME NEW t \in Subscribers
          PROVE  Len(subs[t].drawn) = Cardinality(Answered(t)) + IF subs[t].flow # 0 THEN 1 ELSE 0
      BY <1>0 DEF CountInv
    <2>3. ASSUME NEW t \in Subscribers
          PROVE  Len(subs'[t].drawn) = Cardinality(Answered(t)') + IF subs'[t].flow # 0 THEN 1 ELSE 0
      <3>1. CASE t = s
        <4>1. Len(subs[s].drawn) = Cardinality(Answered(s)) + 0
          BY <1>2, <2>2
        <4>2. IsFiniteSet(Answered(s))
          <5>1. IsFiniteSet(FlowRequests)
            BY <1>0, FlowRequestFacts, Zenon
          <5>2. Answered(s) \subseteq FlowRequests
            BY DEF Answered
          <5> QED
            BY <5>1, <5>2, FS_Subset
        <4>3. Cardinality(Answered(s)) \in Nat
          BY <4>2, FS_CardinalityType
        <4>4. subs'[s].flow # 0
          BY <1>2
        <4> QED
          BY <1>3, <2>1, <3>1, <4>1, <4>3, <4>4
      <3>2. CASE t # s
        <4>1. subs'[t] = subs[t]
          BY <1>2, <3>2
        <4> QED
          BY <2>1, <2>2, <4>1, Zenon
      <3> QED
        BY <3>1, <3>2
    <2> QED
      BY <1>2, <2>3, Zenon DEF CountInv
  <1> QED
    BY <1>6, <1>7, <1>8, <1>9, <1>10, <1>11, <1>12 DEF IndInv

\* The trap flows come before any subscriber has drawn an id.
LEMMA AddNniTrapFlowInv ==
  ASSUME IndInv, AddNniTrapFlow
  PROVE  IndInv'
  <1>0. TypeOK /\ IdInv /\ FlowInv /\ StageInv /\ ReasonInv /\ HeldInv /\ CountInv
    BY DEF IndInv
  <1>1. /\ nni < NniTrapFlows /\ nni' = nni + 1
        /\ flowId' = [flowId EXCEPT ![0] = @ + 1]
        /\ workflow' = workflow /\ ponOf' = ponOf /\ subs' = subs
        /\ scheds' = scheds /\ queues' = queues
    BY DEF AddNniTrapFlow
  <1>2. PICK new : /\ new = [pon |-> NniIntf, id |-> flowId[0] + 1, owner |-> "nni",
                             dir |-> "ds", symmetric |-> 0]
                   /\ flows' = flows \cup {new} \/ flows' = flows
    BY DEF AddNniTrapFlow
  <1>3. /\ Script' = Script /\ Subscribers' = Subscribers /\ Pons' = Pons
        /\ NniTrapFlows' = NniTrapFlows /\ FlowRequests' = FlowRequests
    BY <1>1, Frame, Zenon
  <1>4. 0 \in Pons
    BY DEF Pons
  <1>5. /\ flowId \in [Pons -> Nat] /\ flowId[0] \in Nat /\ flowId[0] = nni /\ nni \in Nat
        /\ NniTrapFlows \in Nat /\ \A s \in Subscribers : subs[s].drawn = <<>>
    <2>1. flowId \in [Pons -> Nat] /\ nni \in 0 .. NniTrapFlows
      BY <1>0 DEF TypeOK
    <2>2. NniTrapFlows \in Nat
      BY DEF NniTrapFlows
    <2>3. flowId[0] = nni /\ \A s \in Subscribers : subs[s].drawn = <<>>
      BY <1>0, <1>1 DEF IdInv
    <2> QED
      BY <1>4, <2>1, <2>2, <2>3
  <1>6. /\ new.pon = NniIntf /\ new.id = nni + 1 /\ new.owner = "nni" /\ new.symmetric = 0
        /\ new.id <= NniTrapFlows
    BY <1>1, <1>2, <1>5
  <1>7. flows \subseteq flows' /\ \A f \in flows' : f \in flows \/ f = new
    BY <1>2
  <1>8. flowId' \in [Pons -> Nat] /\ flowId'[0] = nni + 1
    BY <1>1, <1>4, <1>5
  <1>9. TypeOK'
    <2>1. \A f \in flows' : f.owner \in Subscribers \cup {"nni", "earlier"}
      BY <1>0, <1>6, <1>7 DEF TypeOK
    <2>2. nni' \in 0 .. NniTrapFlows
      BY <1>1, <1>5
    <2> QED
      BY <1>0, <1>1, <1>3, <1>8, <2>1, <2>2 DEF TypeOK
  <1>10. IdInv'
    <2>1. nni' <= flowId'[0] /\ flowId'[0] = nni'
      BY <1>1, <1>5, <1>8
    <2>2. \A s \in Subscribers' : subs'[s].drawn = <<>> /\ DOMAIN subs'[s].drawn = {}
      BY <1>1, <1>3, <1>5
    <2> QED
      BY <2>1, <2>2, Zenon DEF IdInv
  <1>11. FlowInv'
    <2>1. ASSUME NEW f \in flows'
          PROVE  /\ f.owner = "nni" => f.pon = NniIntf /\ f.id <= NniTrapFlows
                 /\ f.owner \in Subscribers => f.pon = ponOf[f.owner] /\ Drawn(f.owner, f.id)
                 /\ f.symmetric # 0 => /\ f.owner \in Subscribers /\ Drawn(f.owner, f.symmetric)
                                       /\ workflow # "TT" => AgentHolds(f.pon, f.symmetric)
      <3>1. CASE f \in flows
        BY <1>0, <3>1 DEF FlowInv
      <3>2. CASE f = new
        <4>1. "nni" \notin Subscribers
          BY <1>0 DEF TypeOK
        <4> QED
          BY <1>6, <3>2, <4>1
      <3> QED
        BY <1>7, <3>1, <3>2
    <2>2. ASSUME NEW t, NEW x PROVE Drawn(t, x)' <=> Drawn(t, x)
      BY <1>1 DEF Drawn
    <2>3. ASSUME NEW pon, NEW x, AgentHolds(pon, x)
          PROVE  \E h \in flows' : h.pon = pon /\ h.id = x
      BY <1>7, <2>3 DEF AgentHolds
    <2>4. ASSUME NEW f \in flows'
          PROVE  /\ f.owner = "nni" => f.pon = NniIntf /\ f.id <= NniTrapFlows'
                 /\ f.owner \in Subscribers' => f.pon = ponOf'[f.owner] /\ Drawn(f.owner, f.id)'
                 /\ f.symmetric # 0 =>
                      /\ f.owner \in Subscribers' /\ Drawn(f.owner, f.symmetric)'
                      /\ workflow' # "TT" => \E h \in flows' : h.pon = f.pon /\ h.id = f.symmetric
      BY <1>1, <1>3, <2>1, <2>2, <2>3
    <2> QED
      BY <2>4, Zenon DEF FlowInv, AgentHolds, NniIntf
  <1>12. StageInv'
    BY <1>0, <1>1, <1>3 DEF StageInv
  <1>13. ReasonInv'
    <2>1. \A t : Ended(t)' <=> Ended(t)
      BY <1>1 DEF Ended
    <2> QED
      BY <1>0, <1>1, <1>3, <2>1, Zenon DEF ReasonInv, FailedAt
  <1>14. HeldInv'
    <2>1. \A s \in Subscribers' : subs'[s].drawn = <<>> /\ DOMAIN subs'[s].drawn = {}
      BY <1>1, <1>3, <1>5
    <2>2. \A s \in Subscribers : ~(subs[s].flow # 0) /\ ~(subs[s].symmetric # 0)
      BY <1>0, <1>5 DEF HeldInv
    <2> QED
      BY <1>1, <1>3, <2>1, <2>2, Zenon DEF HeldInv
  <1>15. CountInv'
    <2>1. \A t : Answered(t)' = Answered(t)
      BY <1>1, <1>3, Zenon DEF Answered, Ended
    <2> QED
      BY <1>0, <1>1, <1>3, <2>1, Zenon DEF CountInv
  <1> QED
    BY <1>9, <1>10, <1>11, <1>12, <1>13, <1>14, <1>15 DEF IndInv

LEMMA InitInv == Init => IndInv
  <1> SUFFICES ASSUME Init PROVE IndInv
    OBVIOUS
  <1>1. /\ flowId = [p \in Pons |-> 0] /\ nni = 0
        /\ subs = [s \in Subscribers |-> NewSubscriber]
        /\ scheds = {} /\ queues = {}
        /\ \A f \in flows : \E key : f = EarlierFlow(key)
        /\ workflow \in {"ATT", "DT", "TT"} /\ ponOf \in [DOMAIN ponOf -> Nat]
        /\ {"nni", "earlier"} \cap DOMAIN ponOf = {}
    BY ScenarioAssumption DEF Init
  <1>2. \A f \in flows : f.owner = "earlier" /\ f.symmetric = 0
    BY <1>1 DEF EarlierFlow
  <1>3. {"nni", "earlier"} \cap Subscribers = {} /\ ponOf \in [Subscribers -> Nat]
    BY <1>1 DEF Subscribers
  <1>4. NewSubscriber \in SubscriberState
    BY DEF NewSubscriber, SubscriberState
  <1>5. ASSUME NEW s \in Subscribers
        PROVE  /\ subs[s].group = 1 /\ subs[s].req = 1 /\ subs[s].flow = 0 /\ subs[s].symmetric = 0
               /\ subs[s].err = "none" /\ subs[s].reason = "none" /\ subs[s].drawn = <<>>
               /\ DOMAIN subs[s].drawn = {}
    BY <1>1 DEF NewSubscriber
  <1>6. /\ 1 \in DOMAIN Script /\ 1 \in DOMAIN Script[1]
    <2>1. Len(Script) \in Nat /\ Len(Script) >= 4 /\ DOMAIN Script = 1 .. Len(Script) /\ Script[1] = Sched("ds")
      BY <1>1, ScriptFacts
    <2>2. 1 \in DOMAIN Script[1]
      BY <2>1 DEF Sched
    <2> QED
      BY <2>1, <2>2
  <1>7. NniTrapFlows \in Nat /\ NniTrapFlows >= 1 /\ 0 \in Pons
    BY DEF NniTrapFlows, Pons
  <1>8. TypeOK
    <2>1. flowId \in [Pons -> Nat] /\ nni \in 0 .. NniTrapFlows
      BY <1>1, <1>7
    <2>2. subs \in [Subscribers -> SubscriberState]
      BY <1>1, <1>4
    <2>3. \A s \in Subscribers : subs[s].group \in DOMAIN Script /\ subs[s].req \in DOMAIN Script[subs[s].group]
      BY <1>5, <1>6, Zenon
    <2> QED
      BY <1>1, <1>2, <1>3, <2>1, <2>2, <2>3 DEF TypeOK
  <1>9. IdInv
    BY <1>1, <1>5, <1>7 DEF IdInv
  <1>10. FlowInv
    BY <1>2, <1>3 DEF FlowInv
  <1>11. StageInv
    BY <1>1, <1>5 DEF StageInv
  <1>12. ReasonInv
    BY <1>5 DEF ReasonInv, Ended
  <1>13. HeldInv
    BY <1>5 DEF HeldInv
  <1>14. CountInv
    <2>1. ASSUME NEW s \in Subscribers PROVE Answered(s) = {}
      <3>1. ASSUME NEW at \in FlowRequests PROVE at \notin Answered(s)
        <4>1. at[1] \in 1 .. Len(Script) /\ at[1] > 4
          BY <1>8, FlowRequestFacts, Zenon
        <4>2. PICK len \in Nat : len = Len(Script)
          BY <1>1, ScriptFacts
        <4>3. at[1] \in Nat
          BY <4>1, <4>2
        <4>4. ~(at[1] < 1) /\ at[1] # 1
          BY <4>1, <4>3
        <4> QED
          BY <1>5, <4>4 DEF Answered
      <3> QED
        BY <3>1 DEF Answered
    <2>2. Cardinality({}) = 0
      BY FS_EmptySet
    <2>3. Len(<<>>) = 0 + IF 0 # 0 THEN 1 ELSE 0
      OBVIOUS
    <2> QED
      BY <1>5, <2>1, <2>2, <2>3 DEF CountInv
  <1> QED
    BY <1>8, <1>9, <1>10, <1>11, <1>12, <1>13, <1>14 DEF IndInv

LEMMA NextInv == IndInv /\ [Next]_vars => IndInv'
  <1> SUFFICES ASSUME IndInv, [Next]_vars PROVE IndInv'
    OBVIOUS
  <1>1. CASE AddNniTrapFlow
    BY <1>1, AddNniTrapFlowInv
  <1>2. ASSUME NEW s \in Subscribers, DeployWorkflow(s) PROVE IndInv'
    <2>1. nni = NniTrapFlows /\ ~Ended(s)
      BY <1>2 DEF DeployWorkflow
    <2>2. CASE CreateResource(s)
      BY <2>1, <2>2, CreateResourceInv
    <2>3. CASE GetFlowID(s)
      BY <2>1, <2>3, GetFlowIDInv
    <2>4. CASE AddFlow(s)
      BY <2>1, <2>4, AddFlowInv
    <2> QED
      BY <1>2, <2>2, <2>3, <2>4 DEF DeployWorkflow
  <1>3. CASE UNCHANGED vars
    <2>1. /\ workflow' = workflow /\ ponOf' = ponOf /\ flowId' = flowId /\ nni' = nni
          /\ subs' = subs /\ scheds' = scheds /\ queues' = queues /\ flows' = flows
      BY <1>3 DEF vars
    <2>2. /\ Script' = Script /\ Subscribers' = Subscribers /\ Pons' = Pons
          /\ NniTrapFlows' = NniTrapFlows /\ FlowRequests' = FlowRequests
      BY <2>1, Frame, Zenon
    <2>3. TypeOK' /\ IdInv' /\ StageInv'
      BY <2>1, <2>2 DEF IndInv, TypeOK, IdInv, StageInv
    <2>4. FlowInv'
      BY <2>1, <2>2 DEF IndInv, FlowInv, Drawn, AgentHolds, NniIntf
    <2>5. ReasonInv'
      BY <2>1, <2>2, Zenon DEF IndInv, ReasonInv, Ended, FailedAt
    <2>6. HeldInv'
      BY <2>1, <2>2 DEF IndInv, HeldInv, HeldFor, InFlight, Request
    <2>7. CountInv'
      BY <2>1, <2>2, Zenon DEF IndInv, CountInv, Answered, Ended
    <2> QED
      BY <2>3, <2>4, <2>5, <2>6, <2>7 DEF IndInv
  <1> QED
    BY <1>1, <1>2, <1>3 DEF Next, AllEnded

-----------------------------------------------------------------------------
(* The theorems. *)

\* The inductive invariant, for any number of subscribers, PONs and p-bits.
THEOREM IndInvHolds == Spec => []IndInv
  BY InitInv, NextInv, PTL DEF Spec

\* No two requests of a PON carry the same flow id (GetFlowID of the resource
\* manager), however the workflows of its subscribers interleave.
THEOREM FlowIdsAreUnique == Spec => []FlowIdsUnique
  <1>1. ASSUME IndInv PROVE FlowIdsUnique
    <2>0. TypeOK /\ IdInv /\ FlowInv
      BY <1>1 DEF IndInv
    <2>1. ASSUME NEW s \in Subscribers, NEW n \in DOMAIN subs[s].drawn, NEW f \in flows,
                 ponOf[s] = 0, f.owner = "nni"
          PROVE  f.id # subs[s].drawn[n]
      <3>1. f.id <= NniTrapFlows
        BY <2>0, <2>1 DEF FlowInv
      <3>2. subs[s].drawn[n] > NniTrapFlows /\ subs[s].drawn[n] \in 1 .. flowId[ponOf[s]]
        BY <2>0, <2>1 DEF IdInv
      <3>3. NniTrapFlows \in Nat /\ flowId[ponOf[s]] \in Nat
        BY <2>0 DEF NniTrapFlows, TypeOK, Pons
      <3> QED
        BY <3>1, <3>2, <3>3
    <2> QED
      BY <2>0, <2>1, ZenonT(40) DEF FlowIdsUnique, IdInv
  <1> QED
    BY <1>1, IndInvHolds, PTL

\* A subscriber reported as provisioned has all its schedulers, queues and
\* flows on the agent (DeployWorkflow), whatever the agent answered on the way.
THEOREM SuccessIsProvisioned == Spec => []SuccessMeansProvisioned
  <1>1. ASSUME IndInv PROVE SuccessMeansProvisioned
    <2>0. TypeOK /\ StageInv /\ ReasonInv /\ HeldInv /\ CountInv
      BY <1>1 DEF IndInv
    <2> SUFFICES ASSUME NEW s \in Subscribers, subs[s].reason = "SUBSCRIBER_PROVISION_SUCCESS"
                 PROVE  /\ \A dir \in {"us", "ds"} : <<s, dir>> \in scheds /\ <<s, dir>> \in queues
                        /\ Len(subs[s].drawn) = Cardinality(FlowRequests)
                        /\ \A n \in DOMAIN subs[s].drawn :
                             \E f \in flows : /\ f.pon = ponOf[s] /\ f.id = subs[s].drawn[n]
                                              /\ f.owner \in {s, "earlier"}
      BY DEF SuccessMeansProvisioned
    <2>1. subs[s].err \in {"none", "SCHED_CREATION_FAILED", "QUEUE_CREATION_FAILED", "FLOW_ADD_FAILED"}
      BY <2>0 DEF TypeOK, SubscriberState
    <2>2. Ended(s)
      BY DEF Ended
    <2>3. /\ subs[s].flow = 0 /\ subs[s].err = "none" /\ subs[s].group = Len(Script)
          /\ <<s, "us">> \in queues /\ subs[s].req = Len(Script[subs[s].group])
      BY <2>0, <2>1, <2>2 DEF ReasonInv
    <2>4. PICK len \in Nat : len = Len(Script) /\ len >= 4
      BY <2>0, ScriptFacts, Zenon DEF TypeOK
    <2>5. \A dir \in {"us", "ds"} : <<s, dir>> \in scheds /\ <<s, dir>> \in queues
      <3>1. subs[s].group > 1 /\ subs[s].group > 2 /\ subs[s].group > 3
        BY <2>3, <2>4
      <3> QED
        BY <2>0, <2>3, <3>1 DEF StageInv
    <2>6. Answered(s) = FlowRequests
      <3>1. ASSUME NEW at \in FlowRequests PROVE at \in Answered(s)
        <4>1. at[1] \in 1 .. len
          BY <2>0, <2>4, FlowRequestFacts, Zenon
        <4>2. at[1] < len \/ at[1] = len
          BY <4>1
        <4> QED
          BY <2>2, <2>3, <2>4, <4>2 DEF Answered
      <3> QED
        BY <3>1 DEF Answered
    <2>7. Len(subs[s].drawn) = Cardinality(FlowRequests)
      <3>1. Len(subs[s].drawn) = Cardinality(Answered(s)) + IF subs[s].flow # 0 THEN 1 ELSE 0
        BY <2>0 DEF CountInv
      <3>2. Cardinality(FlowRequests) \in Nat
        BY <2>0, FlowRequestFacts, FS_CardinalityType
      <3> QED
        BY <2>3, <2>6, <3>1, <3>2
    <2>8. ASSUME NEW n \in DOMAIN subs[s].drawn PROVE HeldFor(s, subs[s].drawn[n])
      BY <2>0, <2>3, <2>8, Zenon DEF HeldInv, InFlight
    <2> QED
      BY <2>5, <2>7, <2>8, Zenon DEF HeldFor
  <1> QED
    BY <1>1, IndInvHolds, PTL

\* The agent never holds queues of a subscriber without its schedulers, nor flows
\* without its queues.
THEOREM StagesAreInOrder == Spec => []StagesInOrder
  <1>1. ASSUME IndInv PROVE StagesInOrder
    <2>0. TypeOK /\ FlowInv /\ StageInv
      BY <1>1 DEF IndInv
    <2>1. ASSUME NEW s \in Subscribers, NEW dir \in {"us", "ds"}, <<s, dir>> \in queues
          PROVE  {<<s, "us">>, <<s, "ds">>} \subseteq scheds
      <3>1. subs[s].group > 2 /\ subs[s].group \in Nat
        BY <2>0, <2>1, GroupFacts DEF StageInv
      <3>2. subs[s].group > 1
        BY <3>1
      <3> QED
        BY <2>0, <3>1, <3>2 DEF StageInv
    <2>2. ASSUME NEW s \in Subscribers, NEW f \in flows, f.owner = s
          PROVE  {<<s, "us">>, <<s, "ds">>} \subseteq queues
      <3>1. PICK n \in DOMAIN subs[s].drawn : subs[s].drawn[n] = f.id
        BY <2>0, <2>2 DEF FlowInv, Drawn
      <3>2. subs[s].drawn # <<>>
        BY <3>1
      <3>3. subs[s].group > 4 /\ subs[s].group \in Nat
        BY <2>0, <3>2, GroupFacts, Zenon DEF StageInv
      <3>4. subs[s].group > 3
        BY <3>3
      <3> QED
        BY <2>0, <3>3, <3>4 DEF StageInv
    <2> QED
      BY <2>1, <2>2 DEF StagesInOrder
  <1> QED
    BY <1>1, IndInvHolds, PTL

\* A downstream flow whose symmetric upstream flow is missing is never part of a
\* provisioned service, and only TT, which looks at the error late, adds one.
THEOREM SymmetricFlowIsHeld == Spec => []SymmetricFlowHeld
  <1>1. ASSUME IndInv PROVE SymmetricFlowHeld
    <2>0. TypeOK /\ FlowInv /\ ReasonInv /\ HeldInv
      BY <1>1 DEF IndInv
    <2> SUFFICES ASSUME NEW f \in flows, f.symmetric # 0, ~AgentHolds(f.pon, f.symmetric)
                 PROVE  workflow = "TT" /\ subs[f.owner].reason # "SUBSCRIBER_PROVISION_SUCCESS"
      BY DEF SymmetricFlowHeld
    <2>1. /\ f.owner \in Subscribers /\ Drawn(f.owner, f.symmetric) /\ f.pon = ponOf[f.owner]
          /\ workflow = "TT"
      BY <2>0 DEF FlowInv
    <2>2. PICK n \in DOMAIN subs[f.owner].drawn : subs[f.owner].drawn[n] = f.symmetric
      BY <2>1 DEF Drawn
    <2>3. ASSUME subs[f.owner].reason = "SUBSCRIBER_PROVISION_SUCCESS" PROVE FALSE
      <3>1. subs[f.owner].err \in {"none", "SCHED_CREATION_FAILED", "QUEUE_CREATION_FAILED", "FLOW_ADD_FAILED"}
        BY <2>0, <2>1 DEF TypeOK, SubscriberState
      <3>2. subs[f.owner].flow = 0 /\ subs[f.owner].err = "none"
        BY <2>0, <2>1, <2>3, <3>1 DEF ReasonInv, Ended
      <3>3. HeldFor(f.owner, f.symmetric)
        BY <2>0, <2>1, <2>2, <3>2 DEF HeldInv, InFlight
      <3> QED
        BY <2>1, <3>3 DEF HeldFor, AgentHolds
    <2> QED
      BY <2>1, <2>3
  <1> QED
    BY <1>1, IndInvHolds, PTL

\* The Reason of a subscriber tells how far its provisioning came.
THEOREM ReasonsTellTheStage == Spec => []ReasonTellsStage
  <1>1. ASSUME IndInv PROVE ReasonTellsStage
    <2>0. TypeOK /\ StageInv /\ ReasonInv
      BY <1>1 DEF IndInv
    <2> SUFFICES ASSUME NEW s \in Subscribers
                 PROVE  /\ subs[s].reason = "SCHED_CREATION_FAILED" => <<s, "ds">> \notin queues /\ subs[s].drawn = <<>>
                        /\ subs[s].reason = "QUEUE_CREATION_FAILED" => /\ {<<s, "us">>, <<s, "ds">>} \subseteq scheds
                                                                       /\ subs[s].drawn = <<>>
                        /\ subs[s].reason = "FLOW_ADD_FAILED" => /\ {<<s, "us">>, <<s, "ds">>} \subseteq queues
                                                                 /\ subs[s].drawn # <<>>
      BY Zenon DEF ReasonTellsStage
    <2>1. subs[s].group \in Nat
      BY <2>0, GroupFacts, Zenon
    <2>2. ASSUME subs[s].reason \in {"SCHED_CREATION_FAILED", "QUEUE_CREATION_FAILED", "FLOW_ADD_FAILED"}
          PROVE  /\ subs[s].reason = FailedAt(subs[s].group)
                 /\ subs[s].group > 4 => subs[s].drawn # <<>>
      <3>1. Ended(s) /\ subs[s].reason # "SUBSCRIBER_PROVISION_SUCCESS" /\ subs[s].reason # "none"
        BY <2>2 DEF Ended
      <3>2. subs[s].reason = subs[s].err
        BY <2>0, <3>1 DEF ReasonInv
      <3> QED
        BY <2>0, <3>1, <3>2 DEF ReasonInv
    <2>3. FailedAt(subs[s].group) = IF subs[s].group <= 2 THEN "SCHED_CREATION_FAILED"
                                    ELSE IF subs[s].group <= 4 THEN "QUEUE_CREATION_FAILED"
                                    ELSE "FLOW_ADD_FAILED"
      BY <2>1 DEF FailedAt
    <2>4. ASSUME subs[s].reason = "SCHED_CREATION_FAILED"
          PROVE  <<s, "ds">> \notin queues /\ subs[s].drawn = <<>>
      <3>1. subs[s].group <= 2
        BY <2>2, <2>3, <2>4
      <3>2. ~(subs[s].group > 2) /\ ~(subs[s].group > 4)
        BY <2>1, <3>1
      <3> QED
        BY <2>0, <3>2 DEF StageInv
    <2>5. ASSUME subs[s].reason = "QUEUE_CREATION_FAILED"
          PROVE  {<<s, "us">>, <<s, "ds">>} \subseteq scheds /\ subs[s].drawn = <<>>
      <3>1. ~(subs[s].group <= 2) /\ subs[s].group <= 4
        BY <2>2, <2>3, <2>5
      <3>2. subs[s].group > 1 /\ subs[s].group > 2 /\ ~(subs[s].group > 4)
        BY <2>1, <3>1
      <3> QED
        BY <2>0, <3>2 DEF StageInv
    <2>6. ASSUME subs[s].reason = "FLOW_ADD_FAILED"
          PROVE  {<<s, "us">>, <<s, "ds">>} \subseteq queues /\ subs[s].drawn # <<>>
      <3>1. ~(subs[s].group <= 2) /\ ~(subs[s].group <= 4)
        BY <2>2, <2>3, <2>6
      <3>2. subs[s].group > 3 /\ subs[s].group > 4
        BY <2>1, <3>1
      <3> QED
        BY <2>0, <2>2, <2>6, <3>2 DEF StageInv
    <2> QED
      BY <2>4, <2>5, <2>6
  <1> QED
    BY <1>1, IndInvHolds, PTL
=============================================================================
