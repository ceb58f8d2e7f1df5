-------------------------- MODULE ProvisioningProofs --------------------------
(***************************************************************************)
(* Proofs about Provisioning, for every set of configurations, every       *)
(* behaviour of the agent, of etcd and of the technology-profile library,  *)
(* and any number of ONUs and subscribers.                                 *)
(***************************************************************************)
EXTENDS Provisioning, FiniteSetTheorems, SequenceTheorems, WellFoundedInduction, TLAPS

-----------------------------------------------------------------------------
(* Lemmas on sequences and on the sets the wait groups count. *)

\* What a step that rewrites one OnuDevice leaves of the others.
LEMMA DeviceUpdate ==
  ASSUME NEW q \in Seq(OnuDevice), NEW n \in DOMAIN q, NEW d \in OnuDevice,
         NEW r, r = [q EXCEPT ![n] = d]
  PROVE  /\ r \in Seq(OnuDevice)
         /\ DOMAIN r = DOMAIN q
         /\ r[n] = d
         /\ \A m \in DOMAIN q : m # n => r[m] = q[m]
  BY ExceptSeq, LenProperties, ZenonT(60)

\* A device appended by provisionONUs, and the ones before it.
LEMMA DeviceAppend ==
  ASSUME NEW q \in Seq(OnuDevice), NEW d \in OnuDevice, NEW r, r = Append(q, d)
  PROVE  /\ r \in Seq(OnuDevice)
         /\ Len(q) + 1 \notin DOMAIN q
         /\ DOMAIN r = DOMAIN q \cup {Len(q) + 1}
         /\ r[Len(q) + 1] = d
         /\ \A m \in DOMAIN q : r[m] = q[m]
  <1>1. r \in Seq(OnuDevice) /\ Len(r) = Len(q) + 1
    OBVIOUS
  <1>2. DOMAIN q = 1 .. Len(q) /\ Len(q) \in Nat
    OBVIOUS
  <1>3. DOMAIN r = 1 .. Len(r)
    BY <1>1
  <1> QED
    BY <1>1, <1>2, <1>3

\* The device activateONU begins with.
LEMMA NewOnuDeviceType ==
  ASSUME NEW pon \in Nat, NEW id \in OnuIds, NEW batch \in Nat,
         NEW d, d = NewOnuDevice(pon, id, batch)
  PROVE  /\ d \in OnuDevice
         /\ d.pon = pon /\ d.id = id /\ d.batch = batch /\ d.state = "activate"
         /\ d.subscribers = <<>> /\ d.subWg = 0
  <1>1. d = [pon |-> pon, id |-> id, batch |-> batch, state |-> "activate", reason |-> "",
             subscribers |-> <<>>, subWg |-> 0]
    BY DEF NewOnuDevice
  <1>2. ASSUME NEW q \in Seq(SubscriberStates), NEW e,
               e = [pon |-> pon, id |-> id, batch |-> batch, state |-> "activate",
                    reason |-> "", subscribers |-> q, subWg |-> 0]
        PROVE  /\ e \in OnuDevice
               /\ e.pon = pon /\ e.id = id /\ e.batch = batch /\ e.state = "activate"
               /\ e.subscribers = q /\ e.subWg = 0
    <2>1. e.pon = pon /\ e.id = id /\ e.batch = batch /\ e.state = "activate"
          /\ e.subscribers = q /\ e.subWg = 0
      BY <1>2
    <2>2. [pon |-> pon, id |-> id, batch |-> batch, state |-> "activate",
           reason |-> "", subscribers |-> q, subWg |-> 0] \in OnuDevice
      BY DEF OnuDevice, OnuStates, OnuReasons
    <2>3. e \in OnuDevice
      BY <1>2, <2>2, Zenon
    <2> QED
      BY <2>1, <2>3
  <1>3. <<>> \in Seq(SubscriberStates)
    BY EmptySeq
  <1> QED
    BY <1>1, <1>2, <1>3

\* The positions of a sequence with some property are finitely many.
LEMMA PositionsFinite ==
  ASSUME NEW S, NEW q \in Seq(S), NEW T \in SUBSET DOMAIN q
  PROVE  IsFiniteSet(T)
  <1>1. Len(q) \in Nat /\ DOMAIN q = 1 .. Len(q)
    OBVIOUS
  <1>2. IsFiniteSet(1 .. Len(q))
    BY <1>1, FS_Interval
  <1> QED
    BY <1>1, <1>2, FS_Subset

\* Ending one subscriber takes one from the set its subWg counts.
LEMMA SettleSubscriber ==
  ASSUME NEW q \in Seq(SubscriberStates), NEW s \in DOMAIN q, ~Settled(q[s]),
         NEW v \in SubscriberStates, Settled(v), NEW r, r = [q EXCEPT ![s] = v]
  PROVE  Cardinality(Live(r)) = Cardinality(Live(q)) - 1
  <1>1. Live(r) = Live(q) \ {s}
    BY DEF Live
  <1>2. IsFiniteSet(Live(q)) /\ s \in Live(q)
    BY PositionsFinite DEF Live
  <1> QED
    BY <1>1, <1>2, FS_RemoveElement

\* Starting one subscriber adds one to it.
LEMMA AddSubscriber ==
  ASSUME NEW q \in Seq(SubscriberStates), NEW r, r = Append(q, "start")
  PROVE  Cardinality(Live(r)) = Cardinality(Live(q)) + 1
  <1> DEFINE new == Len(q) + 1
  <1>1. /\ Len(q) \in Nat /\ DOMAIN q = 1 .. Len(q)
        /\ DOMAIN r = 1 .. new
        /\ r[new] = "start"
        /\ \A t \in DOMAIN q : r[t] = q[t]
    BY DEF SubscriberStates
  <1>2. Live(r) = Live(q) \cup {new} /\ new \notin Live(q)
    BY <1>1 DEF Settled, Live
  <1>3. IsFiniteSet(Live(q))
    BY PositionsFinite DEF Live
  <1> QED
    BY <1>2, <1>3, FS_AddElement

-----------------------------------------------------------------------------
(* The inductive invariant. *)

\* Where there is an ONU for each PON, each PON gets one.
LEMMA QuotientPositive ==
  ASSUME NEW a \in Nat, NEW b \in Nat \ {0}, a >= b
  PROVE  a \div b \in Nat /\ a \div b >= 1
  OBVIOUS

\* What a configuration holds.
LEMMA ConfigType ==
  ASSUME cfg \in Configs
  PROVE  /\ cfg.numOfOnu \in Nat
         /\ cfg.ponPorts \in Nat \ {0}
         /\ cfg.subscribersPerOnu \in Nat
         /\ 0 \in PonIntfs
  BY ConfigsAssumption DEF PonIntfs

LEMMA InitInv == Init => IndInv
  <1> SUFFICES ASSUME Init PROVE IndInv
    OBVIOUS
  <1> USE DEF Init
  <1>1. TypeOK
    BY ConfigType, OnusPerIterationAssumption, OnuIdsAssumption, SMTT(40) DEF TypeOK
  <1>2. Outstanding = {} /\ DOMAIN onus = {} /\ DOMAIN onuDeviceMap = {}
    BY DEF Outstanding
  <1>3. LoopInv
    BY <1>2, OnusPerIterationAssumption DEF LoopInv
  <1>4. KeyInv
    BY <1>2 DEF KeyInv, OnuKeysUnique
  <1>5. SubscriberInv
    BY <1>2 DEF SubscriberInv
  <1>6. WaitGroupsExact
    BY <1>2, FS_EmptySet DEF WaitGroupsExact
  <1> QED
    BY <1>1, <1>3, <1>4, <1>5, <1>6 DEF IndInv

\* Everything but LoopInv speaks of these variables only.
LEMMA OnusUnchanged ==
  ASSUME IndInv, UNCHANGED <<cfg, pool, onus, onuDeviceMap, onuWg>>
  PROVE  KeyInv' /\ SubscriberInv' /\ WaitGroupsExact'
  BY DEF IndInv, KeyInv, SubscriberInv, WaitGroupsExact, OnuKeysUnique, OnuDeviceKey,
         Outstanding, PonIntfs

\* Steps of provisionONUs and main that leave the ONUs alone.
LEMMA LoopStepInv ==
  ASSUME IndInv,
         CheckConfig \/ HalveOnusPerIteration \/ RsrMgrIndexPanic \/ WaitBatch
           \/ StopProcess \/ MainExit
  PROVE  IndInv'
  <1> USE DEF IndInv
  <1>1. UNCHANGED <<cfg, pool, onus, onuDeviceMap, onuWg>> /\ UNCHANGED Outstanding
        /\ UNCHANGED numOfONUsPerPon /\ UNCHANGED PonIntfs
    BY DEF CheckConfig, HalveOnusPerIteration, RsrMgrIndexPanic, WaitBatch, StopProcess,
           MainExit, loopVars, Outstanding, numOfONUsPerPon, PonIntfs
  <1>2. IsFiniteSet(Outstanding)
    BY PositionsFinite DEF Outstanding, TypeOK
  <1>3. TypeOK'
    <2>1. perIter' \in Nat /\ i' \in Nat /\ j' \in PonIntfs /\ k' \in Nat
      BY DEF TypeOK, CheckConfig, HalveOnusPerIteration, RsrMgrIndexPanic,
             WaitBatch, StopProcess, MainExit, loopVars
    <2>2. serials' \in [PonIntfs -> Nat]
      BY DEF TypeOK, CheckConfig, HalveOnusPerIteration, RsrMgrIndexPanic,
             WaitBatch, StopProcess, MainExit, loopVars
    <2>3. /\ proc' \in {"running", "exited", "panicked"}
          /\ sigint' \in BOOLEAN
          /\ pc' \in {"check", "halve", "launch", "wait", "return", "ended"}
      BY DEF TypeOK, CheckConfig, HalveOnusPerIteration, RsrMgrIndexPanic,
             WaitBatch, StopProcess, MainExit, loopVars
    <2> QED
      BY <1>1, <2>1, <2>2, <2>3 DEF TypeOK
  <1>4. LoopInv'
    <2>1. CASE CheckConfig
      <3>1. cfg.numOfOnu >= cfg.ponPorts => numOfONUsPerPon >= 1
        BY ConfigType, QuotientPositive DEF numOfONUsPerPon, TypeOK
      <3>2. onus = <<>> => Outstanding = {}
        BY DEF Outstanding
      <3> QED
        BY <2>1, <1>1, <3>1, <3>2 DEF CheckConfig, LoopInv
    <2>2. CASE HalveOnusPerIteration
      <3>1. numOfONUsPerPon \in Int
        BY ConfigType DEF numOfONUsPerPon, TypeOK
      <3> QED
        BY <2>2, <1>1, <3>1 DEF HalveOnusPerIteration, LoopInv, TypeOK
    <2>3. CASE RsrMgrIndexPanic
      BY <2>3, <1>1 DEF RsrMgrIndexPanic, LoopInv
    <2>4. CASE WaitBatch
      <3>1. Outstanding = {}
        BY <2>4, <1>2, FS_EmptySet DEF WaitBatch, WaitGroupsExact
      <3> QED
        BY <2>4, <1>1, <3>1 DEF WaitBatch, LoopInv
    <2>5. CASE StopProcess
      BY <2>5, <1>1 DEF StopProcess, LoopInv
    <2>6. CASE MainExit
      BY <2>6, <1>1 DEF MainExit, LoopInv, loopVars
    <2> QED
      BY <2>1, <2>2, <2>3, <2>4, <2>5, <2>6
  <1> QED
    BY <1>1, <1>3, <1>4, OnusUnchanged

\* GetResourceID failed: the loops advance and the pool may have lost an id.
LEMMA SkipOnuInv ==
  ASSUME IndInv, SkipOnu
  PROVE  IndInv'
  <1> USE DEF IndInv
  <1>1. UNCHANGED <<cfg, perIter, i, onus, onuDeviceMap, onuWg, sigint, proc>>
        /\ UNCHANGED Outstanding /\ UNCHANGED numOfONUsPerPon /\ UNCHANGED PonIntfs
    BY DEF SkipOnu, Outstanding, numOfONUsPerPon, PonIntfs
  <1>2. /\ j \in PonIntfs /\ k \in Nat /\ perIter \in Nat /\ cfg.ponPorts \in Nat \ {0}
        /\ perIter >= 1 /\ k < perIter /\ pc = "launch"
    BY ConfigType DEF TypeOK, LoopInv, SkipOnu
  <1>3. /\ j' \in PonIntfs /\ k' \in Nat /\ k' < perIter
        /\ pc' \in {"launch", "wait"}
    BY <1>2 DEF SkipOnu, AdvanceLoops, PonIntfs
  <1>4. /\ pool' \in [PonIntfs -> SUBSET OnuIds]
        /\ \A p \in PonIntfs : pool[p] \subseteq pool'[p]
    BY <1>2 DEF SkipOnu, TypeOK
  <1>5. TypeOK'
    <2>1. serials' \in [PonIntfs -> Nat]
      BY <1>2 DEF SkipOnu, TypeOK
    <2> QED
      BY <1>1, <1>3, <1>4, <2>1 DEF TypeOK
  <1>6. LoopInv'
    BY <1>1, <1>2, <1>3 DEF LoopInv
  <1>7. KeyInv'
    BY <1>1, <1>4 DEF KeyInv, OnuKeysUnique, OnuDeviceKey
  <1>8. SubscriberInv' /\ WaitGroupsExact'
    BY <1>1 DEF SubscriberInv, WaitGroupsExact
  <1> QED
    BY <1>5, <1>6, <1>7, <1>8

\* A new ONU joins: its key is fresh because its id was not taken in the pool.
LEMMA LaunchOnuInv ==
  ASSUME IndInv, LaunchOnu
  PROVE  IndInv'
  <1> USE DEF IndInv
  <1>1. UNCHANGED <<cfg, perIter, i, onuDeviceMap, sigint, proc>>
        /\ UNCHANGED numOfONUsPerPon /\ UNCHANGED PonIntfs
    BY DEF LaunchOnu, numOfONUsPerPon, PonIntfs
  <1>2. /\ j \in PonIntfs /\ k \in Nat /\ perIter \in Nat /\ cfg.ponPorts \in Nat \ {0}
        /\ perIter >= 1 /\ k < perIter /\ pc = "launch" /\ i \in Nat /\ j \in Nat
        /\ cfg.subscribersPerOnu \in Nat
    BY ConfigType DEF TypeOK, LoopInv, LaunchOnu, PonIntfs
  <1>3. /\ j' \in PonIntfs /\ k' \in Nat /\ k' < perIter
        /\ pc' \in {"launch", "wait"}
    BY <1>2, SMTT(40) DEF LaunchOnu, AdvanceLoops, PonIntfs
  <1>4. PICK id \in OnuIds \ pool[j] :
          /\ pool' = [pool EXCEPT ![j] = @ \cup {id}]
          /\ onus' = Append(onus, NewOnuDevice(j, id, i))
    BY DEF LaunchOnu, NextOnuId
  <1> DEFINE d == NewOnuDevice(j, id, i)
             new == Len(onus) + 1
  <1>5. /\ d \in OnuDevice
        /\ d.pon = j /\ d.id = id /\ d.batch = i /\ d.state = "activate"
        /\ d.subscribers = <<>> /\ d.subWg = 0
    BY <1>2, <1>4, NewOnuDeviceType
  <1>6. /\ onus' \in Seq(OnuDevice)
        /\ new \notin DOMAIN onus
        /\ DOMAIN onus' = DOMAIN onus \cup {new}
        /\ onus'[new] = d
        /\ \A m \in DOMAIN onus : onus'[m] = onus[m]
    BY <1>4, <1>5, DeviceAppend DEF TypeOK
  <1> HIDE DEF d, new
  <1>7. /\ pool' \in [PonIntfs -> SUBSET OnuIds]
        /\ \A p \in PonIntfs : pool[p] \subseteq pool'[p]
        /\ id \in pool'[j]
    BY <1>2, <1>4 DEF TypeOK
  <1>8. Outstanding' = Outstanding \cup {new} /\ new \notin Outstanding
    BY <1>5, <1>6 DEF Outstanding
  <1>9. TypeOK'
    <2>1. serials' \in [PonIntfs -> Nat]
      BY <1>2, SMTT(40) DEF LaunchOnu, TypeOK
    <2>2. onuWg' \in Int
      BY DEF LaunchOnu, TypeOK
    <2>3. onuDeviceMap \in [DOMAIN onuDeviceMap -> DOMAIN onus']
      BY <1>6 DEF TypeOK
    <2> QED
      BY <1>1, <1>3, <1>6, <1>7, <2>1, <2>2, <2>3 DEF TypeOK
  <1>10. LoopInv'
    <2>1. \A n \in Outstanding' : onus'[n].batch = i
      BY <1>5, <1>6, <1>8 DEF LoopInv, Outstanding
    <2> QED
      BY <1>1, <1>2, <1>3, <2>1 DEF LoopInv
  <1>11. KeyInv'
    <2>1. \A n \in DOMAIN onus' : onus'[n].pon \in PonIntfs /\ onus'[n].id \in pool'[onus'[n].pon]
      BY <1>2, <1>5, <1>6, <1>7 DEF KeyInv
    <2>2. \A n \in DOMAIN onus : ~(onus[n].pon = j /\ onus[n].id = id)
      BY <1>4 DEF KeyInv
    <2>3. OnuKeysUnique'
      BY <1>5, <1>6, <2>2 DEF KeyInv, OnuKeysUnique, OnuDeviceKey
    <2>4. \A n \in DOMAIN onus' :
            /\ onus'[n].state # "replaced"
            /\ onus'[n].state \in {"launch", "failed", "start", "done"} =>
                 /\ <<onus'[n].pon, onus'[n].id>> \in DOMAIN onuDeviceMap
                 /\ onuDeviceMap[<<onus'[n].pon, onus'[n].id>>] = n
      BY <1>5, <1>6 DEF KeyInv, OnuDeviceKey
    <2>5. \A key \in DOMAIN onuDeviceMap : onus'[onuDeviceMap[key]] = onus[onuDeviceMap[key]]
      BY <1>6 DEF TypeOK
    <2> QED
      BY <1>1, <2>1, <2>3, <2>4, <2>5 DEF KeyInv, OnuDeviceKey
  <1>12. SubscriberInv'
    BY <1>1, <1>2, <1>5, <1>6 DEF SubscriberInv
  <1>13. WaitGroupsExact'
    <2>1. IsFiniteSet(Outstanding)
      BY PositionsFinite DEF Outstanding, TypeOK
    <2>2. onuWg' = Cardinality(Outstanding')
      BY <1>8, <2>1, FS_AddElement DEF LaunchOnu, WaitGroupsExact
    <2>3. Cardinality(Live(d.subscribers)) = 0
      <3>1. Live(d.subscribers) = {}
        BY <1>5 DEF Live
      <3> QED
        BY <3>1, FS_EmptySet
    <2> QED
      BY <1>5, <1>6, <2>2, <2>3 DEF WaitGroupsExact
  <1> QED
    BY <1>9, <1>10, <1>11, <1>12, <1>13

-----------------------------------------------------------------------------
(* Steps that rewrite one OnuDevice. *)

Stored(state) == state \in {"launch", "failed", "start", "done"}

\* What such a step has to establish of the new value d of device n.
DeviceStep(n, d) ==
  /\ n \in DOMAIN onus
  /\ d \in OnuDevice
  /\ onus' = [onus EXCEPT ![n] = d]
  /\ d.pon = onus[n].pon /\ d.id = onus[n].id /\ d.batch = onus[n].batch
  /\ d.state # "replaced"
  /\ Len(d.subscribers) <= cfg.subscribersPerOnu
  /\ d.state \in {"activate", "store", "launch"} => d.subscribers = <<>>
  /\ d.state = "done" => /\ Len(d.subscribers) = cfg.subscribersPerOnu
                         /\ \A s \in DOMAIN d.subscribers : Settled(d.subscribers[s])
  /\ d.subWg = Cardinality(Live(d.subscribers))
  /\ UNCHANGED <<cfg, proc, sigint, loopVars>>

\* The parts of the invariant that such a step keeps whichever goroutine takes it.
LEMMA DeviceStepInv ==
  ASSUME IndInv, NEW n, NEW d, DeviceStep(n, d), onus[n].state # "done"
  PROVE  /\ onus' \in Seq(OnuDevice) /\ DOMAIN onus' = DOMAIN onus
         /\ onus'[n] = d /\ \A m \in DOMAIN onus : m # n => onus'[m] = onus[m]
         /\ \A m \in DOMAIN onus : OnuDeviceKey(m)' = OnuDeviceKey(m)
         /\ Outstanding' = IF d.state = "done" THEN Outstanding \ {n} ELSE Outstanding
         /\ n \in Outstanding
         /\ LoopInv'
         /\ SubscriberInv'
         /\ OnuKeysUnique'
         /\ \A m \in DOMAIN onus' : /\ onus'[m].pon \in PonIntfs'
                                    /\ onus'[m].id \in pool'[onus'[m].pon]
                                    /\ onus'[m].state # "replaced"
         /\ \A m \in DOMAIN onus' : onus'[m].subWg = Cardinality(Live(onus'[m].subscribers))
  <1> USE DEF IndInv, DeviceStep
  <1>1. /\ onus' \in Seq(OnuDevice) /\ DOMAIN onus' = DOMAIN onus
        /\ onus'[n] = d /\ \A m \in DOMAIN onus : m # n => onus'[m] = onus[m]
    BY DeviceUpdate DEF TypeOK
  <1>2. \A m \in DOMAIN onus : OnuDeviceKey(m)' = OnuDeviceKey(m)
    BY <1>1 DEF OnuDeviceKey
  <1>3. /\ Outstanding' = IF d.state = "done" THEN Outstanding \ {n} ELSE Outstanding
        /\ n \in Outstanding
    BY <1>1 DEF Outstanding
  <1>4. LoopInv'
    <2>1. onus # <<>>
      OBVIOUS
    <2>2. \A m \in Outstanding' : onus'[m].batch = i
      BY <1>1, <1>3 DEF LoopInv, Outstanding
    <2> QED
      BY <1>3, <2>1, <2>2 DEF LoopInv, loopVars, numOfONUsPerPon
  <1>5. SubscriberInv'
    BY <1>1 DEF SubscriberInv
  <1>6. OnuKeysUnique'
    BY <1>1, <1>2 DEF KeyInv, OnuKeysUnique
  <1>7. \A m \in DOMAIN onus' : /\ onus'[m].pon \in PonIntfs'
                                /\ onus'[m].id \in pool'[onus'[m].pon]
                                /\ onus'[m].state # "replaced"
    BY <1>1 DEF KeyInv, loopVars, PonIntfs
  <1>8. \A m \in DOMAIN onus' : onus'[m].subWg = Cardinality(Live(onus'[m].subscribers))
    BY <1>1 DEF WaitGroupsExact
  <1> QED
    BY <1>1, <1>2, <1>3, <1>4, <1>5, <1>6, <1>7, <1>8

\* A step that neither ends the goroutine nor touches OnuDeviceMap.
LEMMA QuietDeviceStepInv ==
  ASSUME IndInv, NEW n, NEW d, DeviceStep(n, d), onus[n].state # "done", d.state # "done",
         UNCHANGED <<onuDeviceMap, onuWg>>,
         Stored(d.state) <=> Stored(onus[n].state)
  PROVE  IndInv'
  <1>1. /\ onus' \in Seq(OnuDevice) /\ DOMAIN onus' = DOMAIN onus
        /\ onus'[n] = d /\ \A m \in DOMAIN onus : m # n => onus'[m] = onus[m]
        /\ \A m \in DOMAIN onus : OnuDeviceKey(m)' = OnuDeviceKey(m)
        /\ Outstanding' = Outstanding
        /\ LoopInv' /\ SubscriberInv' /\ OnuKeysUnique'
        /\ \A m \in DOMAIN onus' : /\ onus'[m].pon \in PonIntfs'
                                   /\ onus'[m].id \in pool'[onus'[m].pon]
                                   /\ onus'[m].state # "replaced"
        /\ \A m \in DOMAIN onus' : onus'[m].subWg = Cardinality(Live(onus'[m].subscribers))
    BY DeviceStepInv
  <1>2. TypeOK'
    BY <1>1 DEF IndInv, TypeOK, DeviceStep, loopVars, PonIntfs
  <1>3. d.state \in OnuStates
    <2>1. d \in OnuDevice
      BY DEF DeviceStep
    <2> QED
      BY <2>1 DEF OnuDevice
  <1>4. KeyInv'
    <2>1. \A m \in DOMAIN onus' :
            Stored(onus'[m].state) => /\ OnuDeviceKey(m)' \in DOMAIN onuDeviceMap'
                                      /\ onuDeviceMap'[OnuDeviceKey(m)'] = m
      BY <1>1 DEF IndInv, KeyInv, Stored
    <2>2. \A key \in DOMAIN onuDeviceMap' :
            /\ OnuDeviceKey(onuDeviceMap[key])' = key
            /\ onus'[onuDeviceMap[key]].state \notin {"activate", "store"}
      <3> SUFFICES ASSUME NEW key \in DOMAIN onuDeviceMap
                   PROVE  /\ OnuDeviceKey(onuDeviceMap[key])' = key
                          /\ onus'[onuDeviceMap[key]].state \notin {"activate", "store"}
        OBVIOUS
      <3> DEFINE m == onuDeviceMap[key]
      <3>1. m \in DOMAIN onus /\ OnuDeviceKey(m) = key
            /\ onus[m].state \notin {"activate", "store", "replaced"}
        BY DEF IndInv, KeyInv, TypeOK
      <3>2. onus[m] \in OnuDevice
        BY <3>1 DEF IndInv, TypeOK
      <3>3. Stored(onus[m].state)
        BY <3>1, <3>2 DEF OnuDevice, OnuStates, Stored
      <3>4. OnuDeviceKey(m)' = key
        BY <1>1, <3>1
      <3>5. Stored(onus'[m].state)
        BY <1>1, <3>1, <3>3
      <3> QED
        BY <3>4, <3>5 DEF Stored
    <2> QED
      BY <1>1, <2>1, <2>2 DEF KeyInv, Stored, OnuDeviceKey
  <1>5. WaitGroupsExact'
    BY <1>1 DEF WaitGroupsExact, IndInv
  <1> QED
    BY <1>1, <1>2, <1>4, <1>5 DEF IndInv

\* What the invariant says of one device.
LEMMA DeviceFacts ==
  ASSUME IndInv, NEW n \in DOMAIN onus
  PROVE  /\ onus[n] \in OnuDevice
         /\ onus[n].state \in OnuStates /\ onus[n].state # "replaced"
         /\ onus[n].subscribers \in Seq(SubscriberStates)
         /\ onus[n].subWg \in Int
         /\ Len(onus[n].subscribers) <= cfg.subscribersPerOnu
         /\ onus[n].state \in {"activate", "store", "launch"} => onus[n].subscribers = <<>>
         /\ onus[n].state = "done" =>
              /\ Len(onus[n].subscribers) = cfg.subscribersPerOnu
              /\ \A s \in DOMAIN onus[n].subscribers : Settled(onus[n].subscribers[s])
         /\ onus[n].subWg = Cardinality(Live(onus[n].subscribers))
         /\ cfg.subscribersPerOnu \in Nat
  <1>1. onus[n] \in OnuDevice
    BY DEF IndInv, TypeOK
  <1>2. /\ onus[n].state \in OnuStates
        /\ onus[n].subscribers \in Seq(SubscriberStates)
        /\ onus[n].subWg \in Int
    BY <1>1 DEF OnuDevice
  <1>3. cfg.subscribersPerOnu \in Nat
    BY ConfigType DEF IndInv, TypeOK
  <1> QED
    BY <1>1, <1>2, <1>3 DEF IndInv, KeyInv, SubscriberInv, WaitGroupsExact

LEMMA ActivateOnuInv ==
  ASSUME IndInv, NEW n \in DOMAIN onus, ActivateOnu(n)
  PROVE  IndInv'
  <1>1. PICK answer \in ActivateAnswers :
          onus' = [onus EXCEPT ![n].state = "store",
                               ![n].reason = CASE answer = "ok" -> "OK"
                                               [] answer = "exists" -> ""
                                               [] answer = "error" -> "error"]
    BY DEF ActivateOnu
  <1>2. PICK r \in OnuReasons :
          onus' = [onus EXCEPT ![n] = [onus[n] EXCEPT !.state = "store", !.reason = r]]
    BY <1>1, EnvironmentAssumption DEF OnuReasons
  <1> DEFINE d == [onus[n] EXCEPT !.state = "store", !.reason = r]
  <1>3. /\ d \in OnuDevice /\ d.state = "store"
        /\ d.pon = onus[n].pon /\ d.id = onus[n].id /\ d.batch = onus[n].batch
        /\ d.subscribers = onus[n].subscribers /\ d.subWg = onus[n].subWg
    BY DeviceFacts DEF OnuDevice, OnuStates
  <1> HIDE DEF d
  <1>4. DeviceStep(n, d)
    BY <1>2, <1>3, DeviceFacts DEF DeviceStep, ActivateOnu, d
  <1> QED
    BY <1>3, <1>4, QuietDeviceStepInv DEF ActivateOnu, Stored

\* The map lookup finds the goroutine's own device, as no other has its key.
LEMMA StartStoredOnuInv ==
  ASSUME IndInv, NEW n \in DOMAIN onus, StartStoredOnu(n)
  PROVE  IndInv'
  <1>1. onuDeviceMap[OnuDeviceKey(n)] = n /\ onus[n].state = "launch"
    BY DEF StartStoredOnu, IndInv, KeyInv
  <1> DEFINE d == [onus[n] EXCEPT !.state = "start"]
  <1>2. onus' = [onus EXCEPT ![n] = d]
    BY <1>1 DEF StartStoredOnu
  <1>3. /\ d \in OnuDevice /\ d.state = "start"
        /\ d.pon = onus[n].pon /\ d.id = onus[n].id /\ d.batch = onus[n].batch
        /\ d.subscribers = onus[n].subscribers /\ d.subWg = onus[n].subWg
    BY DeviceFacts DEF OnuDevice, OnuStates
  <1> HIDE DEF d
  <1>4. DeviceStep(n, d)
    BY <1>2, <1>3, DeviceFacts DEF DeviceStep, StartStoredOnu
  <1> QED
    BY <1>1, <1>3, <1>4, QuietDeviceStepInv DEF StartStoredOnu, Stored

LEMMA StartSubscriberInv ==
  ASSUME IndInv, NEW n \in DOMAIN onus, StartSubscriber(n)
  PROVE  IndInv'
  <1> DEFINE q == Append(onus[n].subscribers, "start")
             d == [onus[n] EXCEPT !.subscribers = q, !.subWg = onus[n].subWg + 1]
  <1>1. onus' = [onus EXCEPT ![n] = d]
    BY DEF StartSubscriber
  <1>2. q \in Seq(SubscriberStates) /\ Len(q) = Len(onus[n].subscribers) + 1
    BY DeviceFacts DEF SubscriberStates
  <1>3. Cardinality(Live(q)) = Cardinality(Live(onus[n].subscribers)) + 1
    BY DeviceFacts, AddSubscriber
  <1> HIDE DEF q
  <1>4. /\ d \in OnuDevice /\ d.state = onus[n].state
        /\ d.pon = onus[n].pon /\ d.id = onus[n].id /\ d.batch = onus[n].batch
        /\ d.subscribers = q /\ d.subWg = onus[n].subWg + 1
    <2>1. onus[n] \in OnuDevice /\ onus[n].subWg + 1 \in Int
      BY DeviceFacts
    <2>2. d \in OnuDevice
      BY <1>2, <2>1 DEF OnuDevice
    <2>3. /\ d.state = onus[n].state
          /\ d.pon = onus[n].pon /\ d.id = onus[n].id /\ d.batch = onus[n].batch
      BY <2>1 DEF OnuDevice
    <2>4. d.subscribers = q /\ d.subWg = onus[n].subWg + 1
      BY <2>1 DEF OnuDevice
    <2> QED
      BY <2>2, <2>3, <2>4
  <1> HIDE DEF d
  <1>5. Len(q) <= cfg.subscribersPerOnu
    BY <1>2, DeviceFacts DEF StartSubscriber
  <1>6. DeviceStep(n, d)
    BY <1>1, <1>3, <1>4, <1>5, DeviceFacts DEF DeviceStep, StartSubscriber
  <1> QED
    BY <1>4, <1>6, QuietDeviceStepInv DEF StartSubscriber, Stored

LEMMA StartWorkflowInv ==
  ASSUME IndInv, NEW n \in DOMAIN onus, NEW s \in DOMAIN onus[n].subscribers,
         StartWorkflow(n, s)
  PROVE  IndInv'
  <1> DEFINE q == [onus[n].subscribers EXCEPT ![s] = "deploy"]
             d == [onus[n] EXCEPT !.subscribers = q]
  <1>1. q \in Seq(SubscriberStates) /\ Len(q) = Len(onus[n].subscribers) /\ Live(q) = Live(onus[n].subscribers)
    <2>1. onus[n].subscribers \in Seq(SubscriberStates) /\ onus[n].subscribers[s] = "start"
      BY DeviceFacts DEF StartWorkflow
    <2>2. s \in 1 .. Len(onus[n].subscribers)
      BY <2>1
    <2>3. "deploy" \in SubscriberStates
      BY DEF SubscriberStates
    <2>4. q \in Seq(SubscriberStates) /\ Len(q) = Len(onus[n].subscribers)
      BY <2>1, <2>2, <2>3, ExceptSeq
    <2>5. Live(q) = Live(onus[n].subscribers)
      BY <2>1 DEF Live, Settled
    <2> QED
      BY <2>4, <2>5
  <1>3. onus' = [onus EXCEPT ![n] = d]
    BY DEF StartWorkflow
  <1> HIDE DEF q
  <1>4. /\ d \in OnuDevice /\ d.state = onus[n].state
        /\ d.pon = onus[n].pon /\ d.id = onus[n].id /\ d.batch = onus[n].batch
        /\ d.subscribers = q /\ d.subWg = onus[n].subWg
    <2>1. onus[n] \in OnuDevice
      BY DeviceFacts
    <2>2. d \in OnuDevice
      BY <1>1, <2>1 DEF OnuDevice
    <2>3. /\ d.state = onus[n].state /\ d.subWg = onus[n].subWg
          /\ d.pon = onus[n].pon /\ d.id = onus[n].id /\ d.batch = onus[n].batch
      BY <2>1 DEF OnuDevice
    <2>4. d.subscribers = q
      BY <2>1 DEF OnuDevice
    <2> QED
      BY <2>2, <2>3, <2>4
  <1> HIDE DEF d
  <1>5. onus[n].state \notin {"activate", "store", "launch", "done"}
    <2>1. onus[n].subscribers # <<>> /\ ~Settled(onus[n].subscribers[s])
      BY DEF StartWorkflow, Settled
    <2> QED
      BY <2>1, DeviceFacts
  <1>6. DeviceStep(n, d)
    BY <1>1, <1>3, <1>4, <1>5, DeviceFacts DEF DeviceStep, StartWorkflow
  <1> QED
    BY <1>4, <1>5, <1>6, QuietDeviceStepInv DEF StartWorkflow

LEMMA DeployWorkflowInv ==
  ASSUME IndInv, NEW n \in DOMAIN onus, NEW s \in DOMAIN onus[n].subscribers,
         DeployWorkflow(n, s)
  PROVE  IndInv'
  <1>1. PICK v \in {"success", "failed"} :
          onus' = [onus EXCEPT ![n].subscribers[s] = v, ![n].subWg = @ - 1]
    BY DEF DeployWorkflow
  <1> DEFINE q == [onus[n].subscribers EXCEPT ![s] = v]
             d == [onus[n] EXCEPT !.subscribers = q, !.subWg = onus[n].subWg - 1]
  <1>2. onus' = [onus EXCEPT ![n] = d]
    BY <1>1
  <1>3. q \in Seq(SubscriberStates) /\ Len(q) = Len(onus[n].subscribers)
        /\ Cardinality(Live(q)) = Cardinality(Live(onus[n].subscribers)) - 1
    <2>1. onus[n].subscribers \in Seq(SubscriberStates) /\ ~Settled(onus[n].subscribers[s])
      BY DeviceFacts DEF DeployWorkflow, Settled
    <2>2. s \in 1 .. Len(onus[n].subscribers)
      BY <2>1
    <2>3. v \in SubscriberStates /\ Settled(v)
      BY DEF SubscriberStates, Settled
    <2>4. q \in Seq(SubscriberStates) /\ Len(q) = Len(onus[n].subscribers)
      BY <2>1, <2>2, <2>3, ExceptSeq
    <2>5. Cardinality(Live(q)) = Cardinality(Live(onus[n].subscribers)) - 1
      BY <2>1, <2>3, SettleSubscriber
    <2> QED
      BY <2>4, <2>5
  <1> HIDE DEF q
  <1>4. /\ d \in OnuDevice /\ d.state = onus[n].state
        /\ d.pon = onus[n].pon /\ d.id = onus[n].id /\ d.batch = onus[n].batch
        /\ d.subscribers = q /\ d.subWg = onus[n].subWg - 1
    <2>1. onus[n] \in OnuDevice /\ onus[n].subWg - 1 \in Int
      BY DeviceFacts
    <2>2. d \in OnuDevice
      BY <1>3, <2>1 DEF OnuDevice
    <2>3. /\ d.state = onus[n].state
          /\ d.pon = onus[n].pon /\ d.id = onus[n].id /\ d.batch = onus[n].batch
      BY <2>1 DEF OnuDevice
    <2>4. d.subscribers = q /\ d.subWg = onus[n].subWg - 1
      BY <2>1 DEF OnuDevice
    <2> QED
      BY <2>2, <2>3, <2>4
  <1> HIDE DEF d
  <1>5. onus[n].state \notin {"activate", "store", "launch", "done"}
    BY DeviceFacts DEF DeployWorkflow, Settled
  <1>6. DeviceStep(n, d)
    BY <1>2, <1>3, <1>4, <1>5, DeviceFacts DEF DeviceStep, DeployWorkflow
  <1> QED
    BY <1>4, <1>5, <1>6, QuietDeviceStepInv DEF DeployWorkflow

\* The last step of an ONU: one is taken from onuWg and from what it counts.
LEMMA OnuDoneInv ==
  ASSUME IndInv, NEW n \in DOMAIN onus, OnuDone(n)
  PROVE  IndInv'
  <1> DEFINE d == [onus[n] EXCEPT !.state = "done"]
  <1>1. onus' = [onus EXCEPT ![n] = d]
    BY DEF OnuDone
  <1>2. /\ d \in OnuDevice /\ d.state = "done"
        /\ d.pon = onus[n].pon /\ d.id = onus[n].id /\ d.batch = onus[n].batch
        /\ d.subscribers = onus[n].subscribers /\ d.subWg = onus[n].subWg
    BY DeviceFacts DEF OnuDevice, OnuStates
  <1> HIDE DEF d
  <1>3. Live(onus[n].subscribers) = {}
    <2>1. IsFiniteSet(Live(onus[n].subscribers))
      BY DeviceFacts, PositionsFinite DEF Live
    <2> QED
      BY <2>1, DeviceFacts, FS_EmptySet DEF OnuDone
  <1>4. Len(onus[n].subscribers) = cfg.subscribersPerOnu
    BY DeviceFacts DEF OnuDone
  <1>5. DeviceStep(n, d)
    <2>1. \A s \in DOMAIN d.subscribers : Settled(d.subscribers[s])
      BY <1>2, <1>3 DEF Live
    <2>2. Len(d.subscribers) = cfg.subscribersPerOnu /\ cfg.subscribersPerOnu \in Nat
      BY <1>2, <1>4, DeviceFacts
    <2>3. d.subWg = Cardinality(Live(d.subscribers))
      BY <1>2, DeviceFacts
    <2>4. UNCHANGED <<cfg, proc, sigint, loopVars>>
      BY DEF OnuDone
    <2> QED
      BY <1>1, <1>2, <2>1, <2>2, <2>3, <2>4 DEF DeviceStep
  <1>6. onus[n].state = "start"
    BY DEF OnuDone
  <1>7. /\ onus' \in Seq(OnuDevice) /\ DOMAIN onus' = DOMAIN onus
        /\ onus'[n] = d /\ \A m \in DOMAIN onus : m # n => onus'[m] = onus[m]
        /\ \A m \in DOMAIN onus : OnuDeviceKey(m)' = OnuDeviceKey(m)
        /\ Outstanding' = Outstanding \ {n} /\ n \in Outstanding
        /\ LoopInv' /\ SubscriberInv' /\ OnuKeysUnique'
        /\ \A m \in DOMAIN onus' : /\ onus'[m].pon \in PonIntfs'
                                   /\ onus'[m].id \in pool'[onus'[m].pon]
                                   /\ onus'[m].state # "replaced"
        /\ \A m \in DOMAIN onus' : onus'[m].subWg = Cardinality(Live(onus'[m].subscribers))
    BY <1>2, <1>5, <1>6, DeviceStepInv
  <1>8. TypeOK'
    <2>1. onuWg' \in Int
      BY DEF OnuDone, IndInv, TypeOK
    <2> QED
      BY <1>7, <2>1 DEF IndInv, TypeOK, OnuDone, loopVars, PonIntfs
  <1>9. KeyInv'
    <2>1. \A m \in DOMAIN onus :
            /\ Stored(onus'[m].state) <=> Stored(onus[m].state)
            /\ onus'[m].state \in {"activate", "store"} => onus[m].state \in {"activate", "store"}
      BY <1>2, <1>6, <1>7 DEF Stored
    <2>2. onuDeviceMap' = onuDeviceMap /\ \A key \in DOMAIN onuDeviceMap : onuDeviceMap[key] \in DOMAIN onus
      BY DEF OnuDone, IndInv, TypeOK
    <2>3. \A m \in DOMAIN onus' :
            Stored(onus'[m].state) => /\ OnuDeviceKey(m)' \in DOMAIN onuDeviceMap'
                                      /\ onuDeviceMap'[OnuDeviceKey(m)'] = m
      BY <1>7, <2>1, <2>2 DEF IndInv, KeyInv, Stored
    <2>4. \A key \in DOMAIN onuDeviceMap' :
            /\ OnuDeviceKey(onuDeviceMap[key])' = key
            /\ onus'[onuDeviceMap[key]].state \notin {"activate", "store"}
      BY <1>7, <2>1, <2>2 DEF IndInv, KeyInv
    <2> QED
      BY <1>7, <2>2, <2>3, <2>4 DEF KeyInv, Stored, OnuDeviceKey
  <1>10. WaitGroupsExact'
    <2>1. IsFiniteSet(Outstanding)
      BY PositionsFinite DEF IndInv, Outstanding, TypeOK
    <2>2. onuWg' = Cardinality(Outstanding')
      BY <1>7, <2>1, FS_RemoveElement DEF OnuDone, WaitGroupsExact, IndInv
    <2> QED
      BY <1>7, <2>2 DEF WaitGroupsExact
  <1> QED
    BY <1>7, <1>8, <1>9, <1>10 DEF IndInv

\* Storing the device under its own key overwrites nothing.
LEMMA StoreOnuInv ==
  ASSUME IndInv, NEW n \in DOMAIN onus, StoreOnu(n)
  PROVE  IndInv'
  <1>1. PICK st \in {"launch", "failed"} :
          onus' = [onus EXCEPT ![n] = [onus[n] EXCEPT !.state = st]]
    BY DEF StoreOnu
  <1> DEFINE d == [onus[n] EXCEPT !.state = st]
  <1>2. /\ d \in OnuDevice /\ d.state = st
        /\ d.pon = onus[n].pon /\ d.id = onus[n].id /\ d.batch = onus[n].batch
        /\ d.subscribers = onus[n].subscribers /\ d.subWg = onus[n].subWg
    BY DeviceFacts DEF OnuDevice, OnuStates
  <1>3. onus' = [onus EXCEPT ![n] = d]
    BY <1>1
  <1> HIDE DEF d
  <1>4. onus[n].state = "store" /\ onus[n].subscribers = <<>>
    BY DeviceFacts DEF StoreOnu
  <1>5. DeviceStep(n, d)
    BY <1>2, <1>3, <1>4, DeviceFacts DEF DeviceStep, StoreOnu
  <1>6. /\ onus' \in Seq(OnuDevice) /\ DOMAIN onus' = DOMAIN onus
        /\ onus'[n] = d /\ \A m \in DOMAIN onus : m # n => onus'[m] = onus[m]
        /\ \A m \in DOMAIN onus : OnuDeviceKey(m)' = OnuDeviceKey(m)
        /\ Outstanding' = Outstanding
        /\ LoopInv' /\ SubscriberInv' /\ OnuKeysUnique'
        /\ \A m \in DOMAIN onus' : /\ onus'[m].pon \in PonIntfs'
                                   /\ onus'[m].id \in pool'[onus'[m].pon]
                                   /\ onus'[m].state # "replaced"
        /\ \A m \in DOMAIN onus' : onus'[m].subWg = Cardinality(Live(onus'[m].subscribers))
    BY <1>2, <1>4, <1>5, DeviceStepInv
  <1>7. /\ DOMAIN onuDeviceMap' = DOMAIN onuDeviceMap \cup {OnuDeviceKey(n)}
        /\ onuDeviceMap'[OnuDeviceKey(n)] = n
        /\ \A key \in DOMAIN onuDeviceMap :
             key # OnuDeviceKey(n) => onuDeviceMap'[key] = onuDeviceMap[key]
    BY DEF StoreOnu
  <1>8. OnuDeviceKey(n) \in Nat \X OnuIds
    BY DeviceFacts DEF OnuDeviceKey, OnuDevice
  <1>9. TypeOK'
    <2>1. onuDeviceMap' = [key \in DOMAIN onuDeviceMap' |-> onuDeviceMap'[key]]
      BY DEF StoreOnu
    <2>2. \A key \in DOMAIN onuDeviceMap' : onuDeviceMap'[key] \in DOMAIN onus'
      BY <1>6, <1>7 DEF IndInv, TypeOK
    <2>3. onuDeviceMap' \in [DOMAIN onuDeviceMap' -> DOMAIN onus']
      BY <2>1, <2>2
    <2>4. DOMAIN onuDeviceMap' \subseteq Nat \X OnuIds
      BY <1>7, <1>8 DEF IndInv, TypeOK
    <2> QED
      BY <1>6, <2>3, <2>4 DEF IndInv, TypeOK, StoreOnu, loopVars, PonIntfs
  <1>10. KeyInv'
    <2>1. \A m \in DOMAIN onus : m # n => OnuDeviceKey(m) # OnuDeviceKey(n)
      BY DEF IndInv, KeyInv, OnuKeysUnique
    <2>2. \A m \in DOMAIN onus' :
            Stored(onus'[m].state) => /\ OnuDeviceKey(m)' \in DOMAIN onuDeviceMap'
                                      /\ onuDeviceMap'[OnuDeviceKey(m)'] = m
      BY <1>6, <1>7, <2>1 DEF IndInv, KeyInv, Stored
    <2>3. ASSUME NEW key \in DOMAIN onuDeviceMap'
          PROVE  \E m \in DOMAIN onus :
                   /\ m = onuDeviceMap'[key] /\ OnuDeviceKey(m)' = key
                   /\ onus'[m].state \notin {"activate", "store"}
      <3>1. CASE key = OnuDeviceKey(n)
        BY <3>1, <1>1, <1>2, <1>6, <1>7
      <3>2. CASE key # OnuDeviceKey(n)
        <4>1. key \in DOMAIN onuDeviceMap /\ onuDeviceMap'[key] = onuDeviceMap[key]
          BY <3>2, <1>7
        <4>2. PICK m \in DOMAIN onus : /\ m = onuDeviceMap[key] /\ OnuDeviceKey(m) = key
                                       /\ onus[m].state \notin {"activate", "store"}
          BY <4>1 DEF IndInv, KeyInv, TypeOK
        <4>3. m # n
          BY <1>4, <4>2
        <4> QED
          BY <1>6, <4>1, <4>2, <4>3
      <3> QED
        BY <3>1, <3>2
    <2>4. \A key \in DOMAIN onuDeviceMap' :
            /\ <<onus'[onuDeviceMap'[key]].pon, onus'[onuDeviceMap'[key]].id>> = key
            /\ onus'[onuDeviceMap'[key]].state \notin {"activate", "store"}
      BY <2>3 DEF OnuDeviceKey
    <2> QED
      BY <1>6, <2>2, <2>4 DEF KeyInv, Stored, OnuDeviceKey
  <1>11. WaitGroupsExact'
    BY <1>6 DEF WaitGroupsExact, IndInv, StoreOnu
  <1> QED
    BY <1>6, <1>9, <1>10, <1>11 DEF IndInv

LEMMA NextInv == IndInv /\ [Next]_vars => IndInv'
  <1> SUFFICES ASSUME IndInv, [Next]_vars PROVE IndInv'
    OBVIOUS
  <1>1. CASE provisionONUs
    BY <1>1, LoopStepInv, LaunchOnuInv, SkipOnuInv DEF provisionONUs
  <1>2. CASE MainExit
    BY <1>2, LoopStepInv
  <1>3. CASE \E n \in DOMAIN onus : OnuStep(n)
    BY <1>3, ActivateOnuInv, StoreOnuInv, StartStoredOnuInv, StartSubscriberInv, OnuDoneInv
       DEF OnuStep
  <1>4. CASE \E n \in DOMAIN onus : \E s \in DOMAIN onus[n].subscribers : SubscriberStep(n, s)
    <2> PICK n \in DOMAIN onus : \E s \in DOMAIN onus[n].subscribers : SubscriberStep(n, s)
      BY <1>4
    <2> PICK s \in DOMAIN onus[n].subscribers : SubscriberStep(n, s)
      OBVIOUS
    <2>1. CASE StartWorkflow(n, s)
      BY <2>1, StartWorkflowInv
    <2>2. CASE TpInstancePanic(n, s)
      <3>1. UNCHANGED <<cfg, sigint, loopVars, onus, onuDeviceMap, onuWg>> /\ proc' = "panicked"
        BY <2>2 DEF TpInstancePanic
      <3>2. TypeOK' /\ LoopInv'
        BY <3>1 DEF IndInv, TypeOK, LoopInv, loopVars, PonIntfs, numOfONUsPerPon, Outstanding
      <3> QED
        BY <3>1, <3>2, OnusUnchanged DEF IndInv, loopVars
    <2>3. CASE DeployWorkflow(n, s)
      BY <2>3, DeployWorkflowInv
    <2> QED
      BY <2>1, <2>2, <2>3 DEF SubscriberStep
  <1>5. CASE UNCHANGED vars
    <2>1. TypeOK' /\ LoopInv'
      BY <1>5 DEF IndInv, TypeOK, LoopInv, vars, PonIntfs, numOfONUsPerPon, Outstanding
    <2> QED
      BY <1>5, <2>1, OnusUnchanged DEF IndInv, vars
  <1> QED
    BY <1>1, <1>2, <1>3, <1>4, <1>5 DEF Next, Running, Terminated

-----------------------------------------------------------------------------
(* The serial numbers, the batches and the slice of resource managers. *)

\* The batches together never need more than there is.
LEMMA WholeBatches ==
  ASSUME NEW a \in Nat, NEW b \in Nat \ {0}, NEW n \in Nat, n < a \div b
  PROVE  (n + 1) * b <= a
  <1>1. a \div b \in Nat /\ (a \div b) * b <= a
    OBVIOUS
  <1>2. (n + 1) * b <= (a \div b) * b
    BY <1>1
  <1> QED
    BY <1>1, <1>2

\* The loop variables in plain arithmetic.
LEMMA LoopFacts ==
  ASSUME IndInv
  PROVE  /\ i \in Nat /\ j \in Nat /\ k \in Nat /\ perIter \in Nat \ {0}
         /\ j \in PonIntfs /\ cfg.ponPorts \in Nat \ {0} /\ j < cfg.ponPorts
         /\ PonIntfs \subseteq Nat /\ serials \in [PonIntfs -> Nat]
         /\ \A p \in PonIntfs : p < cfg.ponPorts /\ serials[p] \in Nat
         /\ numOfONUsPerPon \in Nat /\ batches \in Nat
         /\ i * perIter \in Nat /\ (i + 1) * perIter = i * perIter + perIter
  <1>1. /\ i \in Nat /\ k \in Nat /\ perIter \in Nat \ {0} /\ j \in PonIntfs
        /\ cfg.ponPorts \in Nat \ {0} /\ cfg.numOfOnu \in Nat
        /\ serials \in [PonIntfs -> Nat]
    BY ConfigType DEF IndInv, TypeOK, LoopInv
  <1>2. numOfONUsPerPon \in Nat
    BY <1>1 DEF numOfONUsPerPon
  <1>3. batches \in Nat
    BY <1>1, <1>2 DEF batches
  <1>4. i * perIter \in Nat /\ (i + 1) * perIter = i * perIter + perIter
    BY <1>1
  <1> QED
    BY <1>1, <1>2, <1>3, <1>4 DEF PonIntfs

\* The three cases of DrawnInBatch.
LEMMA DrawnInBatchCases ==
  ASSUME IndInv, NEW p \in PonIntfs
  PROVE  /\ p < j => DrawnInBatch(p) = perIter
         /\ p = j => DrawnInBatch(p) = k
         /\ p > j => DrawnInBatch(p) = 0
         /\ p < j \/ p = j \/ p > j
         /\ p \in Nat
  <1>1. p \in Nat /\ j \in Nat
    BY LoopFacts
  <1> QED
    BY <1>1 DEF DrawnInBatch

\* One body of the innermost loop, whether GetResourceID succeeds or not.
LEMMA LaunchStepDistribution ==
  ASSUME IndInv, DistributionInv, proc = "running", LaunchOnu \/ SkipOnu
  PROVE  DistributionInv'
  <1>1. /\ UNCHANGED <<cfg, perIter, i, proc>> /\ UNCHANGED numOfONUsPerPon
        /\ UNCHANGED batches /\ UNCHANGED PonIntfs
    BY DEF LaunchOnu, SkipOnu, numOfONUsPerPon, batches, PonIntfs
  <1>2. /\ pc = "launch" /\ i < cfg.ponPorts /\ k < perIter /\ AdvanceLoops
        /\ serials' = [serials EXCEPT ![j] = @ + 1]
    BY DEF LaunchOnu, SkipOnu, RsrMgrIndexInRange, IndInv, LoopInv
  <1>3. /\ i < batches
        /\ \A p \in PonIntfs : serials[p] = i * perIter + DrawnInBatch(p)
    BY <1>2 DEF DistributionInv
  <1>4. \A p \in PonIntfs : serials'[p] = IF p = j THEN serials[p] + 1 ELSE serials[p]
    BY <1>2, LoopFacts
  <1>5. CASE k + 1 < perIter
    <2>1. k' = k + 1 /\ j' = j /\ pc' = "launch"
      BY <1>2, <1>5, LoopFacts DEF AdvanceLoops
    <2>2. ASSUME NEW p \in PonIntfs PROVE serials'[p] = i * perIter + DrawnInBatch(p)'
      <3>1. DrawnInBatch(p)' = IF p = j THEN k + 1 ELSE DrawnInBatch(p)
        BY <1>1, <2>1, DrawnInBatchCases DEF DrawnInBatch
      <3> QED
        BY <1>3, <1>4, <3>1, LoopFacts, DrawnInBatchCases
    <2> QED
      BY <1>1, <1>3, <2>1, <2>2 DEF DistributionInv
  <1>6. CASE k + 1 >= perIter /\ j + 1 < cfg.ponPorts
    <2>1. k' = 0 /\ j' = j + 1 /\ pc' = "launch" /\ k + 1 = perIter
      BY <1>2, <1>6, LoopFacts DEF AdvanceLoops
    <2>2. \A p \in PonIntfs : serials'[p] = i * perIter + DrawnInBatch(p)'
      BY <1>1, <1>3, <1>4, <2>1, LoopFacts DEF DrawnInBatch
    <2> QED
      BY <1>1, <1>3, <2>1, <2>2 DEF DistributionInv
  <1>7. CASE k + 1 >= perIter /\ j + 1 >= cfg.ponPorts
    <2>1. k' = 0 /\ j' = 0 /\ pc' = "wait" /\ k + 1 = perIter /\ j + 1 = cfg.ponPorts
      BY <1>2, <1>7, LoopFacts DEF AdvanceLoops
    <2>2. \A p \in PonIntfs : p <= j
      BY <2>1, LoopFacts
    <2>3. \A p \in PonIntfs : serials'[p] = i * perIter + perIter
      BY <1>1, <1>3, <1>4, <2>1, <2>2, LoopFacts, DrawnInBatchCases
    <2>4. \A p \in PonIntfs : serials'[p] = (i + 1) * perIter
      BY <2>3, LoopFacts
    <2> QED
      BY <1>1, <1>2, <1>3, <2>1, <2>4 DEF DistributionInv
  <1> QED
    BY <1>5, <1>6, <1>7, LoopFacts

\* The inductive invariant of the distribution of the ONUs over the PONs.
LEMMA DistributionNext ==
  ASSUME IndInv, DistributionInv, [Next]_vars
  PROVE  DistributionInv'
  <1>1. CASE LaunchOnu /\ proc = "running"
    BY <1>1, LaunchStepDistribution
  <1>2. CASE SkipOnu /\ proc = "running"
    BY <1>2, LaunchStepDistribution
  <1>3. ASSUME UNCHANGED <<cfg, pc, perIter, i, j, k, serials>>, proc' = proc \/ proc' # "panicked" \/ TpCanFail,
               proc = "running" \/ proc' = proc
        PROVE  DistributionInv'
    BY <1>3 DEF DistributionInv, DrawnInBatch, batches, numOfONUsPerPon, PonIntfs
  <1>4. CASE CheckConfig /\ proc = "running"
    <2>1. pc = "check" /\ i = 0 /\ pc' \in {"halve", "return"} /\ j = 0
          /\ \A p \in PonIntfs : serials[p] = 0
      BY <1>4 DEF CheckConfig, DistributionInv
    <2>2. UNCHANGED <<cfg, proc, perIter, i, j, k, serials>>
      BY <1>4 DEF CheckConfig
    <2> QED
      BY <1>4, <2>1, <2>2 DEF DistributionInv, batches, numOfONUsPerPon, PonIntfs
  <1>5. CASE HalveOnusPerIteration /\ proc = "running"
    <2>1. /\ pc = "halve" /\ i = 0 /\ j = 0 /\ k = 0 /\ numOfONUsPerPon >= 1
          /\ \A p \in PonIntfs : serials[p] = 0
      BY <1>5 DEF HalveOnusPerIteration, DistributionInv, IndInv, LoopInv
    <2>2. UNCHANGED <<cfg, proc, i, j, k, serials>> /\ UNCHANGED PonIntfs /\ UNCHANGED numOfONUsPerPon
      BY <1>5 DEF HalveOnusPerIteration, PonIntfs, numOfONUsPerPon
    <2>3. CASE pc' = "halve"
      BY <1>5, <2>1, <2>2, <2>3 DEF DistributionInv
    <2>4. CASE pc' = "launch" /\ perIter' = perIter /\ perIter <= numOfONUsPerPon
      <3>1. batches' >= 1
        BY <2>2, <2>4, LoopFacts, QuotientPositive DEF batches
      <3>2. \A p \in PonIntfs : DrawnInBatch(p)' = 0
        <4> SUFFICES ASSUME NEW p \in PonIntfs PROVE DrawnInBatch(p)' = 0
          OBVIOUS
        <4>1. DrawnInBatch(p) = 0
          BY <2>1, DrawnInBatchCases
        <4> QED
          BY <2>2, <2>4, <4>1 DEF DrawnInBatch
      <3>3. 0 * perIter + 0 = 0
        BY LoopFacts
      <3>4. \A p \in PonIntfs' : serials'[p] = i' * perIter' + DrawnInBatch(p)'
        BY <2>1, <2>2, <2>4, <3>2, <3>3
      <3>5. i' < batches'
        BY <2>1, <2>2, <3>1, LoopFacts, <2>4 DEF batches
      <3> QED
        BY <1>5, <2>2, <2>4, <3>4, <3>5 DEF DistributionInv
    <2> QED
      BY <1>5, <2>1, <2>3, <2>4, LoopFacts DEF HalveOnusPerIteration
  <1>6. CASE RsrMgrIndexPanic /\ proc = "running"
    <2>1. /\ pc = "launch" /\ i >= cfg.ponPorts /\ i < batches /\ proc' = "panicked"
          /\ UNCHANGED <<cfg, pc, perIter, i>> /\ UNCHANGED batches
      BY <1>6, LoopFacts DEF RsrMgrIndexPanic, RsrMgrIndexInRange, DistributionInv, batches, numOfONUsPerPon
    <2>2. batches > cfg.ponPorts
      BY <2>1, LoopFacts
    <2> QED
      BY <2>1, <2>2 DEF DistributionInv
  <1>7. CASE WaitBatch /\ proc = "running"
    <2>1. /\ pc = "wait" /\ i' = i + 1 /\ j = 0 /\ k = 0 /\ i < cfg.ponPorts
          /\ \A p \in PonIntfs : serials[p] = (i + 1) * perIter
      BY <1>7 DEF WaitBatch, DistributionInv
    <2>2. UNCHANGED <<cfg, proc, perIter, j, k, serials>> /\ UNCHANGED PonIntfs /\ UNCHANGED batches
      BY <1>7 DEF WaitBatch, PonIntfs, batches, numOfONUsPerPon
    <2>3. CASE pc' = "launch" /\ i + 1 < batches
      <3>1. \A p \in PonIntfs : serials[p] = (i + 1) * perIter + DrawnInBatch(p)'
        BY <2>1, <2>2, LoopFacts DEF DrawnInBatch
      <3> QED
        BY <1>7, <2>1, <2>2, <2>3, <3>1 DEF DistributionInv
    <2>4. CASE pc' = "return" /\ ~(i + 1 < batches)
      <3>1. batches <= cfg.ponPorts
        BY <2>1, <2>4, LoopFacts
      <3> QED
        BY <1>7, <2>2, <2>4, <3>1 DEF DistributionInv
    <2> QED
      BY <1>7, <2>3, <2>4 DEF WaitBatch
  <1>8. CASE StopProcess /\ proc = "running"
    BY <1>8 DEF StopProcess, DistributionInv, batches, numOfONUsPerPon, PonIntfs
  <1>9. CASE MainExit /\ proc = "running"
    BY <1>9, <1>3 DEF MainExit, loopVars
  <1>10. CASE proc = "running" /\ \E n \in DOMAIN onus : OnuStep(n)
    BY <1>10, <1>3 DEF OnuStep, ActivateOnu, StoreOnu, StartStoredOnu, StartSubscriber, OnuDone, loopVars
  <1>11. CASE proc = "running" /\ \E n \in DOMAIN onus : \E s \in DOMAIN onus[n].subscribers : SubscriberStep(n, s)
    BY <1>11, <1>3 DEF SubscriberStep, StartWorkflow, TpInstancePanic, DeployWorkflow, loopVars
  <1>12. CASE UNCHANGED vars
    BY <1>12, <1>3 DEF vars
  <1> QED
    BY <1>1, <1>2, <1>4, <1>5, <1>6, <1>7, <1>8, <1>9, <1>10, <1>11, <1>12
       DEF Next, Running, provisionONUs, Terminated

-----------------------------------------------------------------------------
(* What a step of an ONU's goroutines does to the devices on record. *)

\* A step of ONU n or of one of its subscribers rewrites no device but n, keeps
\* its settled subscribers, sets its Reason only while it is being activated and
\* ends it only in OnuDone.
LEMMA DeviceEffect ==
  ASSUME IndInv, NEW n \in DOMAIN onus,
         OnuStep(n) \/ \E s \in DOMAIN onus[n].subscribers : SubscriberStep(n, s)
  PROVE  /\ DOMAIN onus' = DOMAIN onus
         /\ \A m \in DOMAIN onus : m # n => onus'[m] = onus[m]
         /\ onus'[n].state = "done" => onus[n].state = "done" \/ OnuDone(n)
         /\ onus[n].state = "done" => onus'[n].state = "done"
         /\ onus[n].state # "activate" => onus'[n].reason = onus[n].reason
         /\ \A s \in DOMAIN onus[n].subscribers :
              Settled(onus[n].subscribers[s]) => onus'[n].subscribers[s] = onus[n].subscribers[s]
  <1>1. onus \in Seq(OnuDevice) /\ onus[n] \in OnuDevice
    BY DeviceFacts DEF IndInv, TypeOK
  <1> DEFINE subs == onus[n].subscribers
  <1>2. subs \in Seq(SubscriberStates)
    BY DeviceFacts
  <1>3. ASSUME NEW d, onus' = [onus EXCEPT ![n] = d]
        PROVE  /\ DOMAIN onus' = DOMAIN onus /\ onus'[n] = d
               /\ \A m \in DOMAIN onus : m # n => onus'[m] = onus[m]
    BY <1>1, <1>3
  <1>4. CASE ActivateOnu(n)
    <2>1. PICK r : onus' = [onus EXCEPT ![n] = [onus[n] EXCEPT !.state = "store", !.reason = r]]
      BY <1>4 DEF ActivateOnu
    <2>2. /\ [onus[n] EXCEPT !.state = "store", !.reason = r].state = "store"
          /\ [onus[n] EXCEPT !.state = "store", !.reason = r].subscribers = subs
      BY <1>1 DEF OnuDevice
    <2> QED
      BY <1>3, <1>4, <2>1, <2>2 DEF ActivateOnu
  <1>5. CASE StoreOnu(n)
    <2>1. PICK st \in {"launch", "failed"} : onus' = [onus EXCEPT ![n] = [onus[n] EXCEPT !.state = st]]
      BY <1>5 DEF StoreOnu
    <2>2. /\ [onus[n] EXCEPT !.state = st].state = st
          /\ [onus[n] EXCEPT !.state = st].reason = onus[n].reason
          /\ [onus[n] EXCEPT !.state = st].subscribers = subs
      BY <1>1 DEF OnuDevice
    <2> QED
      BY <1>3, <1>5, <2>1, <2>2 DEF StoreOnu
  <1>6. CASE StartStoredOnu(n)
    <2>1. onuDeviceMap[OnuDeviceKey(n)] = n
      BY <1>6 DEF StartStoredOnu, IndInv, KeyInv
    <2>2. onus' = [onus EXCEPT ![n] = [onus[n] EXCEPT !.state = "start"]]
      BY <1>6, <2>1 DEF StartStoredOnu
    <2>3. /\ [onus[n] EXCEPT !.state = "start"].state = "start"
          /\ [onus[n] EXCEPT !.state = "start"].reason = onus[n].reason
          /\ [onus[n] EXCEPT !.state = "start"].subscribers = subs
      BY <1>1 DEF OnuDevice
    <2> QED
      BY <1>3, <1>6, <2>2, <2>3 DEF StartStoredOnu
  <1>7. CASE OnuDone(n)
    <2>1. onus' = [onus EXCEPT ![n] = [onus[n] EXCEPT !.state = "done"]]
      BY <1>7 DEF OnuDone
    <2>2. /\ [onus[n] EXCEPT !.state = "done"].state = "done"
          /\ [onus[n] EXCEPT !.state = "done"].reason = onus[n].reason
          /\ [onus[n] EXCEPT !.state = "done"].subscribers = subs
      BY <1>1 DEF OnuDevice
    <2> QED
      BY <1>3, <1>7, <2>1, <2>2
  <1>8. ASSUME NEW q, NEW w,
               onus' = [onus EXCEPT ![n] = [onus[n] EXCEPT !.subscribers = q, !.subWg = w]],
               \A s \in DOMAIN subs : Settled(subs[s]) => q[s] = subs[s]
        PROVE  /\ DOMAIN onus' = DOMAIN onus
               /\ \A m \in DOMAIN onus : m # n => onus'[m] = onus[m]
               /\ onus'[n].state = onus[n].state
               /\ onus'[n].reason = onus[n].reason
               /\ \A s \in DOMAIN subs : Settled(subs[s]) => onus'[n].subscribers[s] = subs[s]
    <2>1. /\ [onus[n] EXCEPT !.subscribers = q, !.subWg = w].state = onus[n].state
          /\ [onus[n] EXCEPT !.subscribers = q, !.subWg = w].reason = onus[n].reason
          /\ [onus[n] EXCEPT !.subscribers = q, !.subWg = w].subscribers = q
      BY <1>1 DEF OnuDevice
    <2> QED
      BY <1>3, <1>8, <2>1
  <1>9. CASE StartSubscriber(n)
    <2> DEFINE q == Append(subs, "start")
    <2>1. \A s \in DOMAIN subs : q[s] = subs[s]
      BY <1>2 DEF SubscriberStates
    <2>2. onus' = [onus EXCEPT ![n] = [onus[n] EXCEPT !.subscribers = q, !.subWg = onus[n].subWg + 1]]
      BY <1>9 DEF StartSubscriber
    <2> HIDE DEF q
    <2>3. /\ DOMAIN onus' = DOMAIN onus
          /\ \A m \in DOMAIN onus : m # n => onus'[m] = onus[m]
          /\ onus'[n].state = onus[n].state
          /\ onus'[n].reason = onus[n].reason
          /\ \A s \in DOMAIN subs : Settled(subs[s]) => onus'[n].subscribers[s] = subs[s]
      BY <1>8, <2>1, <2>2
    <2> QED
      BY <2>3
  <1>10. ASSUME NEW s \in DOMAIN subs, StartWorkflow(n, s)
         PROVE  /\ DOMAIN onus' = DOMAIN onus
                /\ \A m \in DOMAIN onus : m # n => onus'[m] = onus[m]
                /\ onus'[n].state = onus[n].state
                /\ onus'[n].reason = onus[n].reason
                /\ \A t \in DOMAIN subs : Settled(subs[t]) => onus'[n].subscribers[t] = subs[t]
    <2> DEFINE q == [subs EXCEPT ![s] = "deploy"]
    <2>1. \A t \in DOMAIN subs : Settled(subs[t]) => q[t] = subs[t]
      BY <1>10 DEF StartWorkflow, Settled
    <2>2. onus' = [onus EXCEPT ![n] = [onus[n] EXCEPT !.subscribers = q]]
      BY <1>10 DEF StartWorkflow
    <2>3. /\ [onus[n] EXCEPT !.subscribers = q].state = onus[n].state
          /\ [onus[n] EXCEPT !.subscribers = q].reason = onus[n].reason
          /\ [onus[n] EXCEPT !.subscribers = q].subscribers = q
      BY <1>1 DEF OnuDevice
    <2> HIDE DEF q
    <2> QED
      BY <1>3, <2>1, <2>2, <2>3
  <1>11. ASSUME NEW s \in DOMAIN subs, DeployWorkflow(n, s)
         PROVE  /\ DOMAIN onus' = DOMAIN onus
                /\ \A m \in DOMAIN onus : m # n => onus'[m] = onus[m]
                /\ onus'[n].state = onus[n].state
                /\ onus'[n].reason = onus[n].reason
                /\ \A t \in DOMAIN subs : Settled(subs[t]) => onus'[n].subscribers[t] = subs[t]
    <2>1. PICK v : onus' = [onus EXCEPT ![n].subscribers[s] = v, ![n].subWg = @ - 1]
      BY <1>11 DEF DeployWorkflow
    <2> DEFINE q == [subs EXCEPT ![s] = v]
    <2>2. \A t \in DOMAIN subs : Settled(subs[t]) => q[t] = subs[t]
      BY <1>11 DEF DeployWorkflow, Settled
    <2>3. onus' = [onus EXCEPT ![n] = [onus[n] EXCEPT !.subscribers = q, !.subWg = onus[n].subWg - 1]]
      BY <2>1
    <2> HIDE DEF q
    <2> QED
      BY <1>8, <2>2, <2>3
  <1>12. ASSUME NEW s \in DOMAIN subs, TpInstancePanic(n, s) PROVE onus' = onus
    BY <1>12 DEF TpInstancePanic
  <1> QED
    BY <1>4, <1>5, <1>6, <1>7, <1>9, <1>10, <1>11, <1>12 DEF OnuStep, SubscriberStep

\* No step takes a result back.
LEMMA StepKeepsResults ==
  ASSUME IndInv, Next
  PROVE  KeepsResults
  <1>1. \A key \in DOMAIN onuDeviceMap :
          /\ onuDeviceMap[key] \in DOMAIN onus
          /\ OnuDeviceKey(onuDeviceMap[key]) = key
          /\ onus[onuDeviceMap[key]].state \notin {"activate", "store"}
    BY DEF IndInv, TypeOK, KeyInv
  <1>2. CASE UNCHANGED <<onus, onuDeviceMap>>
    BY <1>2 DEF KeepsResults
  <1>3. CASE LaunchOnu
    <2>1. PICK id \in OnuIds : onus' = Append(onus, NewOnuDevice(j, id, i))
      BY <1>3 DEF LaunchOnu
    <2>2. onus \in Seq(OnuDevice)
      BY DEF IndInv, TypeOK
    <2>3. \A m \in DOMAIN onus : onus'[m] = onus[m]
      BY <2>1, <2>2
    <2>4. onuDeviceMap' = onuDeviceMap
      BY <1>3 DEF LaunchOnu
    <2> QED
      BY <1>1, <2>3, <2>4 DEF KeepsResults
  <1>4. ASSUME NEW n \in DOMAIN onus,
               OnuStep(n) \/ \E s \in DOMAIN onus[n].subscribers : SubscriberStep(n, s)
        PROVE  KeepsResults
    <2>1. /\ \A m \in DOMAIN onus : m # n => onus'[m] = onus[m]
          /\ onus[n].state # "activate" => onus'[n].reason = onus[n].reason
          /\ \A s \in DOMAIN onus[n].subscribers :
               Settled(onus[n].subscribers[s]) => onus'[n].subscribers[s] = onus[n].subscribers[s]
      BY <1>4, DeviceEffect
    <2>2. \A key \in DOMAIN onuDeviceMap :
            key \in DOMAIN onuDeviceMap' /\ onuDeviceMap'[key] = onuDeviceMap[key]
      <3>1. CASE StoreOnu(n)
        <4>1. OnuDeviceKey(n) \notin DOMAIN onuDeviceMap
          BY <1>1, <3>1, SMTT(40) DEF StoreOnu, IndInv, KeyInv, OnuKeysUnique
        <4> QED
          BY <3>1, <4>1, SMTT(40) DEF StoreOnu
      <3>2. CASE ~StoreOnu(n)
        BY <1>4, <3>2 DEF OnuStep, SubscriberStep, ActivateOnu, StartStoredOnu, StartSubscriber,
                          OnuDone, StartWorkflow, TpInstancePanic, DeployWorkflow
      <3> QED
        BY <3>1, <3>2, SMTT(40)
    <2> QED
      BY <1>1, <2>1, <2>2 DEF KeepsResults
  <1>5. CASE provisionONUs
    BY <1>2, <1>3, <1>5 DEF provisionONUs, CheckConfig, HalveOnusPerIteration, SkipOnu,
                            RsrMgrIndexPanic, WaitBatch, StopProcess
  <1>6. CASE MainExit
    BY <1>2, <1>6 DEF MainExit
  <1>7. CASE Terminated
    BY <1>2, <1>7 DEF Terminated, vars
  <1> QED
    BY <1>4, <1>5, <1>6, <1>7 DEF Next, Running

-----------------------------------------------------------------------------
(* The refinement of BatchedJob. *)

LEMMA JobInitial == Init => Job!JobInit
  BY DEF Init, Job!JobInit, jobPhase, Outstanding

\* Every step of the engine is a step of the batched job or leaves it alone.
LEMMA JobStep ==
  ASSUME IndInv, IndInv', [Next]_vars
  PROVE  [Job!JobNext]_(Job!jobVars)
  <1> DEFINE fin == DOMAIN onus \ Outstanding
  <1> USE DEF Job!jobVars
  <1>1. ASSUME UNCHANGED <<onus, pc>> PROVE UNCHANGED Job!jobVars
    BY <1>1 DEF jobPhase, Outstanding
  <1>2. ASSUME UNCHANGED onus PROVE UNCHANGED <<DOMAIN onus, fin>>
    BY <1>2 DEF Outstanding
  <1>3. CASE CheckConfig
    <2>1. pc = "check" /\ pc' \in {"halve", "return"} /\ onus = <<>> /\ onus' = onus
      BY <1>3 DEF CheckConfig, IndInv, LoopInv
    <2>2. fin = DOMAIN onus
      BY <2>1 DEF Outstanding
    <2>3. CASE pc' = "halve"
      BY <1>2, <2>1, <2>3 DEF jobPhase
    <2>4. CASE pc' = "return"
      <3>1. Job!EndJob
        BY <1>2, <2>1, <2>2, <2>4 DEF Job!EndJob, jobPhase
      <3> QED
        BY <3>1 DEF Job!JobNext
    <2> QED
      BY <2>1, <2>3, <2>4
  <1>4. CASE HalveOnusPerIteration
    <2>1. pc \in {"halve"} /\ pc' \in {"halve", "launch"} /\ onus' = onus
      BY <1>4 DEF HalveOnusPerIteration
    <2> QED
      BY <1>2, <2>1 DEF jobPhase
  <1>5. CASE LaunchOnu
    <2>1. PICK id \in OnuIds : onus' = Append(onus, NewOnuDevice(j, id, i))
      BY <1>5 DEF LaunchOnu
    <2> DEFINE new == Len(onus) + 1
               d == NewOnuDevice(j, id, i)
    <2>2. d \in OnuDevice /\ d.state = "activate"
      <3>1. i \in Nat /\ j \in Nat
        BY LoopFacts
      <3> QED
        BY <3>1, NewOnuDeviceType
    <2>3. /\ new \in Nat /\ new \notin DOMAIN onus
          /\ DOMAIN onus' = DOMAIN onus \cup {new}
          /\ onus'[new] = d
          /\ \A m \in DOMAIN onus : onus'[m] = onus[m]
      BY <2>1, <2>2, DeviceAppend, SMTT(40) DEF IndInv, TypeOK
    <2> HIDE DEF new, d
    <2>4. fin' = fin
      BY <2>2, <2>3 DEF Outstanding
    <2>5. pc = "launch" /\ pc' \in {"launch", "wait"}
      BY <1>5, LoopFacts DEF LaunchOnu, AdvanceLoops
    <2>6. jobPhase = "launching" /\ jobPhase' \in {"launching", "draining"}
      BY <2>5 DEF jobPhase
    <2>7. Job!LaunchTask
      BY <2>3, <2>4, <2>6 DEF Job!LaunchTask
    <2> QED
      BY <2>7 DEF Job!JobNext
  <1>6. CASE SkipOnu
    <2>1. pc = "launch" /\ pc' \in {"launch", "wait"} /\ onus' = onus
      BY <1>6, LoopFacts DEF SkipOnu, AdvanceLoops
    <2>2. CASE pc' = "launch"
      BY <1>1, <2>1, <2>2
    <2>3. CASE pc' = "wait"
      <3>1. Job!CloseBatch
        BY <1>2, <2>1, <2>3 DEF Job!CloseBatch, jobPhase
      <3> QED
        BY <3>1 DEF Job!JobNext
    <2> QED
      BY <2>1, <2>2, <2>3
  <1>7. CASE RsrMgrIndexPanic \/ MainExit
    BY <1>1, <1>7 DEF RsrMgrIndexPanic, MainExit, loopVars
  <1>8. CASE WaitBatch
    <2>1. pc = "wait" /\ pc' \in {"launch", "return"} /\ onus' = onus /\ onuWg = 0
      BY <1>8 DEF WaitBatch
    <2>2. Outstanding = {}
      <3>1. IsFiniteSet(Outstanding)
        BY PositionsFinite DEF IndInv, Outstanding, TypeOK
      <3> QED
        BY <2>1, <3>1, FS_EmptySet DEF IndInv, WaitGroupsExact
    <2>3. CASE pc' = "launch"
      <3>1. Job!NextBatch
        BY <1>2, <2>1, <2>2, <2>3 DEF Job!NextBatch, jobPhase
      <3> QED
        BY <3>1 DEF Job!JobNext
    <2>4. CASE pc' = "return"
      <3>1. Job!EndJob
        BY <1>2, <2>1, <2>2, <2>4 DEF Job!EndJob, jobPhase
      <3> QED
        BY <3>1 DEF Job!JobNext
    <2> QED
      BY <2>1, <2>3, <2>4
  <1>9. CASE StopProcess
    <2>1. pc = "return" /\ pc' = "ended" /\ onus' = onus
      BY <1>9 DEF StopProcess
    <2> QED
      BY <1>2, <2>1 DEF jobPhase
  <1>10. ASSUME NEW n \in DOMAIN onus,
                OnuStep(n) \/ \E s \in DOMAIN onus[n].subscribers : SubscriberStep(n, s)
         PROVE  [Job!JobNext]_(Job!jobVars)
    <2>1. /\ DOMAIN onus' = DOMAIN onus
          /\ \A m \in DOMAIN onus : m # n => onus'[m] = onus[m]
          /\ onus'[n].state = "done" => onus[n].state = "done" \/ OnuDone(n)
          /\ onus[n].state = "done" => onus'[n].state = "done"
      BY <1>10, DeviceEffect, SMTT(40)
    <2>2. pc' = pc
      BY <1>10 DEF OnuStep, SubscriberStep, ActivateOnu, StoreOnu, StartStoredOnu, StartSubscriber,
                   OnuDone, StartWorkflow, TpInstancePanic, DeployWorkflow, loopVars
    <2>3. jobPhase' = jobPhase
      BY <2>2 DEF jobPhase
    <2>4. CASE onus'[n].state = "done" /\ onus[n].state # "done"
      <3>1. fin' = fin \cup {n} /\ n \in DOMAIN onus \ fin
        BY <2>1, <2>4 DEF Outstanding
      <3>2. Job!FinishTask
        BY <2>1, <2>3, <3>1 DEF Job!FinishTask
      <3> QED
        BY <3>2 DEF Job!JobNext
    <2>5. CASE ~(onus'[n].state = "done" /\ onus[n].state # "done")
      <3>1. fin' = fin
        BY <2>1, <2>5 DEF Outstanding
      <3> QED
        BY <2>1, <2>3, <3>1
    <2> QED
      BY <2>4, <2>5, SMTT(40)
  <1>11. CASE UNCHANGED vars
    BY <1>1, <1>11 DEF vars
  <1> QED
    BY <1>3, <1>4, <1>5, <1>6, <1>7, <1>8, <1>9, <1>10, <1>11 DEF Next, Running, provisionONUs, Terminated

-----------------------------------------------------------------------------
(* Induction over the naturals, for a set rather than a predicate. *)

\* Every set of naturals that is not empty has a least element.
LEMMA LeastElement ==
  ASSUME NEW T, T \subseteq Nat, T # {}
  PROVE  \E n \in T : \A m \in T : n <= m
<1>1. IsWellFoundedOn({ss \in Nat \X Nat : ss[1] < ss[2]}, Nat)
  BY NatLessThanWellFounded DEF OpToRel
<1>2. PICK n \in T : \A m \in T : <<m, n>> \notin {ss \in Nat \X Nat : ss[1] < ss[2]}
  BY <1>1, WFMin
<1>3. SUFFICES ASSUME NEW m \in T PROVE n <= m
  OBVIOUS
<1>4. <<m, n>> \notin {ss \in Nat \X Nat : ss[1] < ss[2]} /\ m \in Nat /\ n \in Nat
  BY <1>2
<1>5. ~(m < n)
  BY <1>4
<1> QED
  BY <1>4, <1>5

\* A set that holds zero and with every natural the next one holds them all.
LEMMA SetInduction ==
  ASSUME NEW T, 0 \in T, \A n \in Nat : n \in T => n + 1 \in T
  PROVE  Nat \subseteq T
<1> DEFINE Out == Nat \ T
<1>1. SUFFICES ASSUME Out # {} PROVE FALSE
  OBVIOUS
<1>2. PICK n \in Out : \A m \in Out : n <= m
  BY <1>1, LeastElement
<1>3. n # 0 /\ n - 1 \in Nat
  BY <1>2
<1>4. n - 1 \notin Out
  BY <1>2, <1>3
<1> QED
  BY <1>3, <1>4

-----------------------------------------------------------------------------
(* The powers of two. *)

\* One doubled n times.
Doubling(n) ==
  {g \in [0 .. n -> Nat] : g[0] = 1 /\ \A x \in 1 .. n : g[x] = 2 * g[x - 1]}

\* Every doubling can be made longer, so there is one of every length.
LEMMA DoublingExists ==
  ASSUME NEW n \in Nat
  PROVE  Doubling(n) # {}
<1> DEFINE T == {m \in Nat : Doubling(m) # {}}
<1>1. 0 \in T
  <2>1. [x \in 0 .. 0 |-> 1] \in Doubling(0)
    BY DEF Doubling
  <2> QED
    BY <2>1
<1>2. ASSUME NEW m \in Nat, m \in T PROVE m + 1 \in T
  <2>1. PICK g : g \in Doubling(m)
    BY <1>2
  <2>2. g \in [0 .. m -> Nat] /\ g[0] = 1 /\ \A x \in 1 .. m : g[x] = 2 * g[x - 1]
    BY <2>1 DEF Doubling
  <2>3. PICK next \in Nat : next = 2 * g[m]
    BY <2>2
  <2> DEFINE h == [x \in 0 .. m + 1 |-> IF x = m + 1 THEN next ELSE g[x]]
  <2>4. h \in [0 .. m + 1 -> Nat] /\ h[0] = 1
    BY <2>2, <2>3
  <2>5. ASSUME NEW x \in 1 .. m + 1 PROVE h[x] = 2 * h[x - 1]
    <3>1. CASE x = m + 1
      <4>1. h[x] = next /\ h[x - 1] = g[m]
        BY <3>1
      <4> QED
        BY <4>1, <2>3
    <3>2. CASE x \in 1 .. m
      <4>1. h[x] = g[x] /\ h[x - 1] = g[x - 1]
        BY <3>2
      <4> QED
        BY <4>1, <3>2, <2>2
    <3> QED
      BY <3>1, <3>2
  <2>6. h \in Doubling(m + 1)
    BY <2>4, <2>5 DEF Doubling
  <2> QED
    BY <2>6
<1> HIDE DEF T
<1>3. Nat \subseteq T
  BY <1>1, <1>2, SetInduction
<1> QED
  BY <1>3 DEF T

\* Two doublings agree as far as both go.
LEMMA DoublingsAgree ==
  ASSUME NEW n \in Nat, NEW m \in Nat, NEW g \in Doubling(n), NEW h \in Doubling(m)
  PROVE  \A x \in 0 .. n : x <= m => g[x] = h[x]
<1> DEFINE T == {x \in Nat : x <= n /\ x <= m => g[x] = h[x]}
<1>0. /\ g[0] = 1 /\ \A x \in 1 .. n : g[x] = 2 * g[x - 1]
      /\ h[0] = 1 /\ \A x \in 1 .. m : h[x] = 2 * h[x - 1]
  BY DEF Doubling
<1>1. 0 \in T
  BY <1>0
<1>2. ASSUME NEW x \in Nat, x \in T PROVE x + 1 \in T
  <2>1. SUFFICES ASSUME x + 1 <= n, x + 1 <= m PROVE g[x + 1] = h[x + 1]
    OBVIOUS
  <2>2. g[x] = h[x]
    BY <1>2, <2>1
  <2>3. x + 1 \in 1 .. n /\ x + 1 \in 1 .. m /\ (x + 1) - 1 = x
    BY <2>1
  <2> QED
    BY <1>0, <2>2, <2>3
<1> HIDE DEF T
<1>3. Nat \subseteq T
  BY <1>1, <1>2, SetInduction
<1> QED
  BY <1>3 DEF T

\* The recursive definition of powerOfTwo defines a function.
LEMMA PowerUnfolds ==
  \A n \in Nat : powerOfTwo[n] = IF n = 0 THEN 1 ELSE 2 * powerOfTwo[n - 1]
<1> DEFINE pick(n) == CHOOSE g \in Doubling(n) : TRUE
           f == [n \in Nat |-> pick(n)[n]]
<1>1. \A n \in Nat : pick(n) \in Doubling(n)
  BY DoublingExists
<1> HIDE DEF pick
<1>2. ASSUME NEW n \in Nat
      PROVE  f[n] = IF n = 0 THEN 1 ELSE 2 * f[n - 1]
  <2>1. pick(n) \in Doubling(n) /\ f[n] = pick(n)[n]
    BY <1>1
  <2>2. CASE n = 0
    BY <2>1, <2>2 DEF Doubling
  <2>3. CASE n # 0
    <3>1. n - 1 \in Nat /\ pick(n - 1) \in Doubling(n - 1) /\ f[n - 1] = pick(n - 1)[n - 1]
      BY <2>3, <1>1
    <3>2. pick(n)[n] = 2 * pick(n)[n - 1]
      BY <2>1, <2>3 DEF Doubling
    <3>3. n - 1 \in 0 .. n - 1 /\ n - 1 <= n
      BY <3>1
    <3>4. pick(n - 1)[n - 1] = pick(n)[n - 1]
      BY <2>1, <3>1, <3>3, DoublingsAgree
    <3> QED
      BY <2>1, <2>3, <3>1, <3>2, <3>4
  <2> QED
    BY <2>2, <2>3
<1>3. f = [n \in Nat |-> IF n = 0 THEN 1 ELSE 2 * f[n - 1]]
  BY <1>2
<1> HIDE DEF f
<1>4. powerOfTwo = [n \in Nat |-> IF n = 0 THEN 1 ELSE 2 * powerOfTwo[n - 1]]
  BY <1>3 DEF powerOfTwo
<1> QED
  BY <1>4

\* Powers of two are positive.
LEMMA PowerPositive == \A n \in Nat : powerOfTwo[n] \in Nat \ {0}
<1> DEFINE T == {n \in Nat : powerOfTwo[n] \in Nat \ {0}}
<1>1. 0 \in T
  BY PowerUnfolds
<1>2. ASSUME NEW n \in Nat, n \in T PROVE n + 1 \in T
  <2>1. n + 1 \in Nat /\ n + 1 # 0 /\ (n + 1) - 1 = n
    OBVIOUS
  <2>2. powerOfTwo[n + 1] = 2 * powerOfTwo[n]
    BY <2>1, PowerUnfolds
  <2>3. powerOfTwo[n] \in Nat \ {0}
    BY <1>2
  <2> QED
    BY <2>1, <2>2, <2>3
<1> HIDE DEF T
<1>3. Nat \subseteq T
  BY <1>1, <1>2, SetInduction
<1> QED
  BY <1>3 DEF T

\* Exponents add up.
LEMMA PowersMultiply ==
  ASSUME NEW m \in Nat, NEW n \in Nat
  PROVE  powerOfTwo[m + n] = powerOfTwo[n] * powerOfTwo[m]
<1> DEFINE T == {x \in Nat : powerOfTwo[m + x] = powerOfTwo[x] * powerOfTwo[m]}
<1>1. 0 \in T
  <2>1. powerOfTwo[0] = 1 /\ m + 0 = m /\ powerOfTwo[m] \in Nat
    BY PowerUnfolds, PowerPositive
  <2> QED
    BY <2>1
<1>2. ASSUME NEW x \in Nat, x \in T PROVE x + 1 \in T
  <2>1. PICK a \in Nat : a = powerOfTwo[m]
    BY PowerPositive
  <2>2. PICK b \in Nat : b = powerOfTwo[x]
    BY PowerPositive
  <2>3. powerOfTwo[m + x] = b * a
    BY <1>2, <2>1, <2>2
  <2>4. x + 1 \in Nat /\ x + 1 # 0 /\ (x + 1) - 1 = x
    OBVIOUS
  <2>5. m + (x + 1) \in Nat /\ m + (x + 1) # 0 /\ (m + (x + 1)) - 1 = m + x
    OBVIOUS
  <2>6. powerOfTwo[x + 1] = 2 * b
    BY <2>2, <2>4, PowerUnfolds
  <2>7. powerOfTwo[m + (x + 1)] = 2 * (b * a)
    BY <2>3, <2>5, PowerUnfolds
  <2>8. 2 * (b * a) = (2 * b) * a
    OBVIOUS
  <2> QED
    BY <2>1, <2>4, <2>6, <2>7, <2>8
<1> HIDE DEF T
<1>3. Nat \subseteq T
  BY <1>1, <1>2, SetInduction
<1> QED
  BY <1>3 DEF T

\* The smaller of two powers of two divides the greater, by a power of two.
LEMMA PowersDivide ==
  ASSUME NEW a \in Nat \ {0}, NEW b \in Nat \ {0}, isPowerOfTwo(a), isPowerOfTwo(b), b <= a
  PROVE  \E e \in Nat : a = powerOfTwo[e] * b
<1>1. PICK m \in Nat : a = powerOfTwo[m]
  BY DEF isPowerOfTwo
<1>2. PICK n \in Nat : b = powerOfTwo[n]
  BY DEF isPowerOfTwo
<1>3. CASE n <= m
  <2>1. PICK e \in Nat : m = n + e
    <3>1. m - n \in Nat /\ m = n + (m - n)
      BY <1>3
    <3> QED
      BY <3>1
  <2> QED
    BY <1>1, <1>2, <2>1, PowersMultiply
<1>4. CASE m < n
  <2>1. PICK e \in Nat \ {0} : n = m + e
    <3>1. n - m \in Nat \ {0} /\ n = m + (n - m)
      BY <1>4
    <3> QED
      BY <3>1
  <2>2. b = powerOfTwo[e] * a
    BY <1>1, <1>2, <2>1, PowersMultiply
  <2>3. PICK half \in Nat \ {0} : powerOfTwo[e] = 2 * half
    <3>1. e - 1 \in Nat
      OBVIOUS
    <3> QED
      BY <3>1, PowerUnfolds, PowerPositive
  <2>4. b = 2 * (half * a) /\ half * a >= a
    BY <2>2, <2>3
  <2> QED
    BY <2>4
<1> QED
  BY <1>3, <1>4

\* Every power is recognised: the exponent is below the power.
LEMMA PowerIsPowerOfTwo ==
  ASSUME NEW e \in Nat
  PROVE  isPowerOfTwo(powerOfTwo[e])
<1> DEFINE T == {x \in Nat : x < powerOfTwo[x]}
<1>1. 0 \in T
  BY PowerUnfolds
<1>2. ASSUME NEW x \in Nat, x \in T PROVE x + 1 \in T
  <2>1. x + 1 \in Nat /\ x + 1 # 0 /\ (x + 1) - 1 = x
    OBVIOUS
  <2>2. powerOfTwo[x + 1] = 2 * powerOfTwo[x]
    BY <2>1, PowerUnfolds
  <2>3. powerOfTwo[x] \in Nat /\ x < powerOfTwo[x]
    BY <1>2, PowerPositive
  <2> QED
    BY <2>1, <2>2, <2>3
<1> HIDE DEF T
<1>3. Nat \subseteq T
  BY <1>1, <1>2, SetInduction
<1>4. powerOfTwo[e] \in Nat /\ e < powerOfTwo[e]
  BY <1>3, PowerPositive DEF T
<1>5. e \in 0 .. powerOfTwo[e]
  BY <1>4
<1> QED
  BY <1>5 DEF isPowerOfTwo

\* A multiple divided.
LEMMA QuotientOfMultiple ==
  ASSUME NEW q \in Nat, NEW b \in Nat \ {0}
  PROVE  (q * b) \div b = q
<1>1. PICK a \in Nat : a = q * b
  OBVIOUS
<1>2. PICK d \in Nat : d = a \div b
  OBVIOUS
<1>3. d * b <= a /\ a < (d + 1) * b
  BY <1>2
<1>4. CASE d < q
  <2>1. (d + 1) * b <= q * b
    BY <1>4
  <2> QED
    BY <1>1, <1>3, <2>1
<1>5. CASE d > q
  <2>1. (q + 1) * b <= d * b
    BY <1>5
  <2> QED
    BY <1>1, <1>3, <2>1
<1> QED
  BY <1>1, <1>2, <1>4, <1>5

\* A power of two that is not one, halved.
LEMMA HalfOfPower ==
  ASSUME NEW a \in Nat, isPowerOfTwo(a), a >= 2
  PROVE  a \div 2 \in Nat \ {0} /\ isPowerOfTwo(a \div 2)
<1>1. PICK e \in Nat : a = powerOfTwo[e]
  BY DEF isPowerOfTwo
<1>2. e # 0
  BY <1>1, PowerUnfolds
<1>3. PICK half \in Nat \ {0} : half = powerOfTwo[e - 1]
  <2>1. e - 1 \in Nat
    BY <1>2
  <2> QED
    BY <2>1, PowerPositive
<1>4. a = 2 * half
  BY <1>1, <1>2, <1>3, PowerUnfolds
<1>5. a \div 2 = half
  BY <1>4
<1>6. isPowerOfTwo(half)
  <2>1. e - 1 \in Nat
    BY <1>2
  <2> QED
    BY <1>3, <2>1, PowerIsPowerOfTwo
<1> QED
  BY <1>5, <1>6

\* What is announced and tried consists of powers of two throughout.
LEMMA PowersNext ==
  ASSUME IndInv, DistributionInv, PowersInv, [Next]_vars
  PROVE  PowersInv'
  <1>1. ASSUME UNCHANGED <<cfg, perIter, i, serials>>, pc' = pc PROVE PowersInv'
    BY <1>1 DEF PowersInv, batches, numOfONUsPerPon, PonIntfs
  <1>2. CASE LaunchOnu \/ SkipOnu
    <2>1. pc = "launch" /\ pc' \in {"launch", "wait"} /\ UNCHANGED <<cfg, perIter>>
      BY <1>2 DEF LaunchOnu, SkipOnu, AdvanceLoops
    <2> QED
      BY <2>1 DEF PowersInv, numOfONUsPerPon
  <1>3. CASE CheckConfig
    <2>1. /\ pc = "check" /\ UNCHANGED <<cfg, perIter, i>> /\ i = 0
          /\ \/ pc' = "halve" /\ isPowerOfTwo(cfg.numOfOnu) /\ cfg.numOfOnu >= cfg.ponPorts
             \/ pc' = "return"
      BY <1>3 DEF CheckConfig, DistributionInv
    <2> QED
      BY <2>1 DEF PowersInv
  <1>4. CASE HalveOnusPerIteration
    <2>1. /\ pc = "halve" /\ UNCHANGED <<cfg, i>>
          /\ \/ numOfONUsPerPon < perIter /\ perIter' = perIter \div 2 /\ pc' = "halve"
             \/ perIter' = perIter /\ pc' = "launch" /\ ~(numOfONUsPerPon < perIter)
      BY <1>4 DEF HalveOnusPerIteration
    <2>2. /\ isPowerOfTwo(cfg.numOfOnu) /\ cfg.numOfOnu >= cfg.ponPorts /\ isPowerOfTwo(perIter)
          /\ perIter # 0
      BY <2>1 DEF PowersInv
    <2>3. perIter \in Nat \ {0} /\ numOfONUsPerPon \in Nat /\ numOfONUsPerPon >= 1
      BY <2>2, LoopFacts, ConfigType, QuotientPositive DEF numOfONUsPerPon, IndInv, TypeOK
    <2>4. perIter' # 0 /\ isPowerOfTwo(perIter')
      <3>1. CASE numOfONUsPerPon < perIter /\ perIter' = perIter \div 2
        BY <2>2, <2>3, <3>1, HalfOfPower
      <3>2. CASE perIter' = perIter
        BY <2>2, <3>2
      <3> QED
        BY <2>1, <3>1, <3>2
    <2>5. pc' = "launch" => perIter' <= numOfONUsPerPon
      BY <2>1, <2>3
    <2>6. numOfONUsPerPon' = numOfONUsPerPon
      BY <2>1 DEF numOfONUsPerPon
    <2> QED
      BY <2>1, <2>2, <2>4, <2>5, <2>6 DEF PowersInv
  <1>5. CASE RsrMgrIndexPanic
    <2>1. pc = "launch" /\ pc' = "launch" /\ UNCHANGED <<cfg, perIter>>
      BY <1>5 DEF RsrMgrIndexPanic
    <2> QED
      BY <2>1 DEF PowersInv, numOfONUsPerPon
  <1>6. CASE WaitBatch
    <2>1. /\ pc = "wait" /\ i' = i + 1 /\ UNCHANGED <<cfg, perIter, serials>>
          /\ UNCHANGED PonIntfs /\ UNCHANGED batches /\ UNCHANGED numOfONUsPerPon
          /\ \/ pc' = "launch"
             \/ pc' = "return" /\ ~(i + 1 < batches)
      BY <1>6 DEF WaitBatch, PonIntfs, batches, numOfONUsPerPon
    <2>2. i < batches /\ \A p \in PonIntfs : serials[p] = (i + 1) * perIter
      BY <2>1 DEF DistributionInv
    <2>3. pc' = "return" => i' = batches'
      BY <2>1, <2>2, LoopFacts
    <2> QED
      BY <2>1, <2>2, <2>3 DEF PowersInv
  <1>7. CASE StopProcess
    <2>1. pc' = "ended" /\ UNCHANGED <<cfg, perIter>>
      BY <1>7 DEF StopProcess
    <2> QED
      BY <2>1 DEF PowersInv
  <1>8. CASE MainExit
    BY <1>8, <1>1 DEF MainExit, loopVars
  <1>9. CASE \E n \in DOMAIN onus : OnuStep(n)
    BY <1>9, <1>1 DEF OnuStep, ActivateOnu, StoreOnu, StartStoredOnu, StartSubscriber, OnuDone, loopVars
  <1>10. CASE \E n \in DOMAIN onus : \E s \in DOMAIN onus[n].subscribers : SubscriberStep(n, s)
    BY <1>10, <1>1 DEF SubscriberStep, StartWorkflow, TpInstancePanic, DeployWorkflow, loopVars
  <1>11. CASE UNCHANGED vars
    BY <1>11, <1>1 DEF vars
  <1> QED
    BY <1>2, <1>3, <1>4, <1>5, <1>6, <1>7, <1>8, <1>9, <1>10, <1>11
       DEF Next, Running, provisionONUs, Terminated

-----------------------------------------------------------------------------
(* What follows for every behaviour. *)

\* The inductive invariant holds in every reachable state of the engine.
THEOREM IndInvHolds == Spec => []IndInv
  BY InitInv, NextInv, PTL DEF Spec

\* Type correctness of the engine's state.
THEOREM TypeCorrect == Spec => []TypeOK
  <1>1. IndInv => TypeOK
    BY DEF IndInv
  <1> QED
    BY <1>1, IndInvHolds, PTL

\* onuWg and every subWg count exactly the goroutines they are meant to wait for.
THEOREM WaitGroupsAreExact == Spec => []WaitGroupsExact
  <1>1. IndInv => WaitGroupsExact
    BY DEF IndInv
  <1> QED
    BY <1>1, IndInvHolds, PTL

\* provisionONUs stops the process only when every launched ONU and every one of
\* its subscribers has ended and is on record.
THEOREM StopsOnlyWhenDone == Spec => []JobDoneBeforeStop
  <1>1. IndInv => JobDoneBeforeStop
    BY DEF IndInv, JobDoneBeforeStop, LoopInv, KeyInv, SubscriberInv, Outstanding
  <1> QED
    BY <1>1, IndInvHolds, PTL

\* Goroutines of two batches are never alive together.
THEOREM BatchesDoNotOverlap == Spec => []OneBatchAtATime
  <1>1. IndInv => OneBatchAtATime
    BY DEF IndInv, OneBatchAtATime, LoopInv
  <1> QED
    BY <1>1, IndInvHolds, PTL

\* No two ONUs of a run share a key, whatever ids etcd already had or lost.
THEOREM KeysAreUnique == Spec => []OnuKeysUnique
  <1>1. IndInv => OnuKeysUnique
    BY DEF IndInv, KeyInv
  <1> QED
    BY <1>1, IndInvHolds, PTL

\* Every state of the engine satisfies the invariant of the distribution.
LEMMA DistributionHolds == Spec => []DistributionInv
  <1>1. Init => DistributionInv
    <2> SUFFICES ASSUME Init PROVE DistributionInv
      OBVIOUS
    <2>1. \A p \in PonIntfs : serials[p] = 0
      BY DEF Init
    <2> QED
      BY <2>1 DEF Init, DistributionInv
  <1>2. IndInv /\ DistributionInv /\ [Next]_vars => DistributionInv'
    BY DistributionNext
  <1> QED
    BY <1>1, <1>2, IndInvHolds, PTL DEF Spec

\* At the end of every batch all PONs have been tried equally often, and none
\* more often than its share of the ONUs, whatever the configuration.
THEOREM DistributionIsEven == Spec => []EvenDistribution
  <1>1. ASSUME IndInv, DistributionInv PROVE EvenDistribution
    <2> SUFFICES ASSUME pc = "wait"
                 PROVE  \A p \in PonIntfs : /\ serials[p] = (i + 1) * perIter
                                            /\ serials[p] <= numOfONUsPerPon
      BY DEF EvenDistribution
    <2>1. i < numOfONUsPerPon \div perIter
      BY <1>1 DEF DistributionInv, batches
    <2>2. (i + 1) * perIter <= numOfONUsPerPon
      BY <1>1, <2>1, LoopFacts, WholeBatches
    <2> QED
      BY <1>1, <2>2 DEF DistributionInv
  <1> QED
    BY <1>1, IndInvHolds, DistributionHolds, PTL

\* No ONU that was announced is left out on a power of two of PON ports, if a
\* batch begins with a power of two of ONUs for each PON; the code's is four.
THEOREM AllAreAttempted ==
  Spec /\ isPowerOfTwo(OnusPerIteration) => []AllAttemptedOnEvenPons
  <1>1. Init /\ isPowerOfTwo(OnusPerIteration) => PowersInv
    BY OnusPerIterationAssumption DEF Init, PowersInv
  <1>2. IndInv /\ DistributionInv /\ PowersInv /\ [Next]_vars => PowersInv'
    BY PowersNext
  <1>3. ASSUME IndInv, PowersInv PROVE AllAttemptedOnEvenPons
    <2> SUFFICES ASSUME pc = "return", i > 0, isPowerOfTwo(cfg.ponPorts), NEW p \in PonIntfs
                 PROVE  serials[p] = numOfONUsPerPon
      BY DEF AllAttemptedOnEvenPons
    <2>1. /\ isPowerOfTwo(cfg.numOfOnu) /\ cfg.numOfOnu >= cfg.ponPorts /\ perIter <= numOfONUsPerPon
          /\ i = batches /\ serials[p] = i * perIter /\ isPowerOfTwo(perIter)
      BY <1>3 DEF PowersInv
    <2>2. /\ cfg.numOfOnu \in Nat \ {0} /\ cfg.ponPorts \in Nat \ {0}
          /\ perIter \in Nat \ {0} /\ numOfONUsPerPon \in Nat \ {0}
      <3>1. cfg \in Configs
        BY <1>3 DEF IndInv, TypeOK
      <3>2. cfg.numOfOnu \in Nat /\ cfg.ponPorts \in Nat \ {0}
        BY <3>1, ConfigType
      <3>3. perIter \in Nat \ {0} /\ numOfONUsPerPon \in Nat
        BY <1>3, LoopFacts
      <3> QED
        BY <2>1, <3>2, <3>3
    <2>3. PICK e \in Nat : cfg.numOfOnu = powerOfTwo[e] * cfg.ponPorts
      BY <2>1, <2>2, PowersDivide
    <2>4. PICK total \in Nat : total = powerOfTwo[e] /\ isPowerOfTwo(total)
      BY PowerPositive, PowerIsPowerOfTwo
    <2>5. numOfONUsPerPon = total
      <3>1. (total * cfg.ponPorts) \div cfg.ponPorts = total
        BY <2>2, QuotientOfMultiple
      <3> QED
        BY <2>3, <2>4, <3>1 DEF numOfONUsPerPon
    <2>6. PICK d \in Nat : total = powerOfTwo[d] * perIter
      BY <2>1, <2>2, <2>4, <2>5, PowersDivide
    <2>7. PICK whole \in Nat : whole = powerOfTwo[d]
      BY PowerPositive
    <2>8. batches = whole
      <3>1. (whole * perIter) \div perIter = whole
        BY <2>2, QuotientOfMultiple
      <3> QED
        BY <2>5, <2>6, <2>7, <3>1 DEF batches
    <2> QED
      BY <2>1, <2>5, <2>6, <2>7, <2>8
  <1> QED
    BY <1>1, <1>2, <1>3, IndInvHolds, DistributionHolds, PTL DEF Spec

\* The index past the end of rsrMgr is reached exactly by the configurations that
\* need more batches than the device has PON ports.
THEOREM PanicsOnlyOnManyBatches == Spec => []PanicsExactlyOnManyBatches
  <1>1. ASSUME IndInv, DistributionInv PROVE PanicsExactlyOnManyBatches
    BY <1>1, LoopFacts DEF DistributionInv, PanicsExactlyOnManyBatches, MoreBatchesThanPons
  <1> QED
    BY <1>1, IndInvHolds, DistributionHolds, PTL

\* What is on record of an ONU or of a subscriber is never overwritten.
THEOREM ResultsAreKept == Spec => ResultsKept
  <1>1. IndInv /\ [Next]_vars => [KeepsResults]_vars
    BY StepKeepsResults
  <1> QED
    BY <1>1, IndInvHolds, PTL DEF Spec, ResultsKept

\* The goroutines, the wait groups and the batch loop implement the batched job:
\* no batch begins and the job does not end before every launched ONU has finished.
THEOREM EngineImplementsBatchedJob == Spec => ImplementsBatchedJob
  <1>1. IndInv /\ IndInv' /\ [Next]_vars => [Job!JobNext]_(Job!jobVars)
    BY JobStep
  <1> QED
    BY <1>1, JobInitial, IndInvHolds, PTL DEF Spec, ImplementsBatchedJob, Job!JobSpec

=============================================================================
