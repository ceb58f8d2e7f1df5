---------------------------- MODULE Provisioning ----------------------------
(***************************************************************************)
(* The provisioning engine of the scale tester: the goroutine              *)
(* provisionONUs (core/olt_manager.go), one activateONU goroutine and one  *)
(* OnuDevice.Start goroutine (core/onu_manager.go) per ONU, and one        *)
(* Subscriber.Start / DeployWorkflow goroutine per subscriber              *)
(* (core/subscriber_manager.go, core/workflow_manager.go), joined by the   *)
(* wait groups onuWg (one per job) and subWg (one per ONU).                *)
(*                                                                         *)
(* The openolt-agent, etcd and the technology-profile library answer       *)
(* nondeterministically.  What one subscriber's workflow sends to the      *)
(* agent is abstracted here to its verdict; module Workflow details it.    *)
(* The device announces dedicated ONU-ID pools, one per PON.               *)
(***************************************************************************)
EXTENDS Integers, Sequences, FiniteSets

CONSTANTS
  Configs,               \* the configurations the tester may be started with
  OnusPerIteration,      \* initial onusPerIterationPerPonPort: 4 in the code
  OnuIds,                \* the ids of one PON's ONU-ID pool
  LeftoverOnuIds,        \* ids an earlier run may have left taken in etcd
  ActivateAnswers,       \* the agent's possible answers to ActivateOnu
  KvCanFail,             \* can a request to etcd fail?
  TpCanFail              \* can CreateTechProfileInstance fail?

\* NumOfOnu and SubscribersPerOnu are flags; PonPorts is the device's answer.
\* A device without PON ports stops Start before provisionONUs is reached.
ASSUME ConfigsAssumption ==
  Configs \subseteq [numOfOnu : Nat, ponPorts : Nat \ {0}, subscribersPerOnu : Nat]

ASSUME OnusPerIterationAssumption == OnusPerIteration \in Nat \ {0}

ASSUME OnuIdsAssumption == /\ OnuIds \subseteq Nat
                           /\ LeftoverOnuIds \subseteq SUBSET OnuIds

ASSUME EnvironmentAssumption == /\ ActivateAnswers \subseteq {"ok", "exists", "error"}
                                /\ KvCanFail \in BOOLEAN
                                /\ TpCanFail \in BOOLEAN

VARIABLES
  cfg,          \* the configuration of this process
  proc,         \* "running", "exited" or "panicked": the whole process
  sigint,       \* has provisionONUs sent SIGINT to its own process?
  pc,           \* where provisionONUs is
  perIter,      \* onusPerIterationPerPonPort
  i, j, k,      \* the loop counters: batch, PON port, ONU of the batch on it
  serials,      \* serial numbers drawn for each PON (GenerateNextONUSerialNumber)
  pool,         \* ids taken in each PON's ONU-ID pool, in etcd
  onus,         \* the OnuDevice of every activateONU goroutine, in launch order
  onuDeviceMap, \* OnuDeviceMap: key |-> index in onus of the stored device
  onuWg         \* the counter of onuWg

vars == <<cfg, proc, sigint, pc, perIter, i, j, k, serials, pool, onus,
          onuDeviceMap, onuWg>>

loopVars == <<pc, perIter, i, j, k, serials, pool>>

-----------------------------------------------------------------------------
(* State. *)

PonIntfs == 0 .. (cfg.ponPorts - 1)

\* An OnuDevice and the goroutine that works on it.
OnuStates == {"activate", "store", "launch", "replaced", "failed", "start", "done"}
OnuReasons == {"", "OK", "error"}

\* A Subscriber: its goroutine, and once that has ended its Reason.
SubscriberStates == {"start", "deploy", "success", "failed"}

OnuDevice ==
  [pon : Nat, id : OnuIds, batch : Nat, state : OnuStates, reason : OnuReasons,
   subscribers : Seq(SubscriberStates), subWg : Int]

NewOnuDevice(pon, id, batch) ==
  [pon |-> pon, id |-> id, batch |-> batch, state |-> "activate", reason |-> "",
   subscribers |-> <<>>, subWg |-> 0]

OnuDeviceKey(n) == <<onus[n].pon, onus[n].id>>

numOfONUsPerPon == cfg.numOfOnu \div cfg.ponPorts

\* How often the outermost loop runs.
batches == numOfONUsPerPon \div perIter

powerOfTwo[e \in Nat] == IF e = 0 THEN 1 ELSE 2 * powerOfTwo[e - 1]

\* n & (n-1) == 0 on an unsigned int, true of 0 as well.
isPowerOfTwo(n) == n = 0 \/ \E e \in 0 .. n : n = powerOfTwo[e]

Settled(s) == s \in {"success", "failed"}

Live(q) == {s \in DOMAIN q : ~Settled(q[s])}

Outstanding == {n \in DOMAIN onus : onus[n].state # "done"}

Init ==
  /\ cfg \in Configs
  /\ proc = "running"
  /\ sigint = FALSE
  /\ pc = "check"
  /\ perIter = OnusPerIteration
  /\ i = 0 /\ j = 0 /\ k = 0
  /\ serials = [p \in PonIntfs |-> 0]
  /\ pool \in [PonIntfs -> LeftoverOnuIds]
  /\ onus = <<>>
  /\ onuDeviceMap = <<>>
  /\ onuWg = 0

-----------------------------------------------------------------------------
(* provisionONUs. *)

\* The early returns on an uneven or too small number of ONUs.
CheckConfig ==
  /\ pc = "check"
  /\ pc' = IF isPowerOfTwo(cfg.numOfOnu) /\ cfg.numOfOnu >= cfg.ponPorts
           THEN "halve"
           ELSE "return"
  /\ UNCHANGED <<cfg, proc, sigint, perIter, i, j, k, serials, pool, onus,
                 onuDeviceMap, onuWg>>

\* One evaluation of the loop that halves onusPerIterationPerPonPort.
HalveOnusPerIteration ==
  /\ pc = "halve"
  /\ IF numOfONUsPerPon < perIter
     THEN perIter' = perIter \div 2 /\ UNCHANGED pc
     ELSE pc' = "launch" /\ UNCHANGED perIter
  /\ UNCHANGED <<cfg, proc, sigint, i, j, k, serials, pool, onus, onuDeviceMap,
                 onuWg>>

\* Mutant: the j loop's counter is not reset for the next batch.
AdvanceLoops_NoReset ==
  CASE k + 1 < perIter -> k' = k + 1 /\ UNCHANGED <<j, pc>>
    [] k + 1 >= perIter /\ j + 1 < cfg.ponPorts -> k' = 0 /\ j' = j + 1 /\ UNCHANGED pc
    [] OTHER -> k' = 0 /\ j' = j + 1 /\ pc' = "wait"

\* Mutant: the first PON gets one ONU more per batch.
AdvanceLoops_OffByOne ==
  CASE k + 1 < perIter \/ (j = 0 /\ k < perIter) -> k' = k + 1 /\ UNCHANGED <<j, pc>>
    [] ~(k + 1 < perIter \/ (j = 0 /\ k < perIter)) /\ j + 1 < cfg.ponPorts ->
         k' = 0 /\ j' = j + 1 /\ UNCHANGED pc
    [] OTHER -> k' = 0 /\ j' = 0 /\ pc' = "wait"

\* The k and j loops' increments; past the last ONU of the batch, onuWg.Wait().
AdvanceLoops ==
  CASE k + 1 < perIter -> k' = k + 1 /\ UNCHANGED <<j, pc>>
    [] k + 1 >= perIter /\ j + 1 < cfg.ponPorts -> k' = 0 /\ j' = j + 1 /\ UNCHANGED pc
    [] OTHER -> k' = 0 /\ j' = 0 /\ pc' = "wait"

\* Mutant: the search for a free id ignores what is taken.
NextOnuId_IgnoringPool(p, id) ==
  /\ id \in OnuIds
  /\ \A other \in OnuIds : id <= other

\* GenerateNextID on PON p: the first id of the pool that is not taken.
NextOnuId(p, id) ==
  /\ id \in OnuIds \ pool[p]
  /\ \A other \in OnuIds \ pool[p] : id <= other

\* Mutant: a slice that is one element short.
RsrMgrIndexInRange_Short == i + 1 < cfg.ponPorts

\* rsrMgr is indexed by the batch i and has one element per PON port.
RsrMgrIndexInRange == i < cfg.ponPorts

\* The loop body when GetResourceID returns an id.
LaunchOnu ==
  /\ pc = "launch"
  /\ RsrMgrIndexInRange
  /\ serials' = [serials EXCEPT ![j] = @ + 1]
  /\ \E id \in OnuIds :
       /\ NextOnuId(j, id)
       /\ pool' = [pool EXCEPT ![j] = @ \cup {id}]
       /\ onus' = Append(onus, NewOnuDevice(j, id, i))
  /\ onuWg' = onuWg + 1
  /\ AdvanceLoops
  /\ UNCHANGED <<cfg, proc, sigint, perIter, i, onuDeviceMap>>

\* The loop body when GetResourceID fails: the pool is exhausted, or etcd is
\* unreachable, with or without the update having reached it.
SkipOnu ==
  /\ pc = "launch"
  /\ RsrMgrIndexInRange
  /\ serials' = [serials EXCEPT ![j] = @ + 1]
  /\ \/ pool[j] = OnuIds /\ UNCHANGED pool
     \/ KvCanFail /\ UNCHANGED pool
     \/ KvCanFail /\ \E id \in OnuIds : /\ NextOnuId(j, id)
                                        /\ pool' = [pool EXCEPT ![j] = @ \cup {id}]
  /\ AdvanceLoops
  /\ UNCHANGED <<cfg, proc, sigint, perIter, i, onus, onuDeviceMap, onuWg>>

\* om.rsrMgr[i] past the end of the slice: a run-time panic ends the process.
RsrMgrIndexPanic ==
  /\ pc = "launch"
  /\ ~RsrMgrIndexInRange
  /\ serials' = [serials EXCEPT ![j] = @ + 1]
  /\ proc' = "panicked"
  /\ UNCHANGED <<cfg, sigint, pc, perIter, i, j, k, pool, onus, onuDeviceMap, onuWg>>

\* Mutant: the next batch begins without onuWg.Wait().
WaitBatch_NoWait ==
  /\ pc = "wait"
  /\ i' = i + 1
  /\ pc' = IF i + 1 < batches THEN "launch" ELSE "return"
  /\ UNCHANGED <<cfg, proc, sigint, perIter, j, k, serials, pool, onus,
                 onuDeviceMap, onuWg>>

\* Mutant: the last batch is left out.
WaitBatch_OneShort ==
  /\ pc = "wait"
  /\ onuWg = 0
  /\ i' = i + 1
  /\ pc' = IF i + 2 < batches THEN "launch" ELSE "return"
  /\ UNCHANGED <<cfg, proc, sigint, perIter, j, k, serials, pool, onus,
                 onuDeviceMap, onuWg>>

\* onuWg.Wait() returns, and the batch loop goes on or ends.
WaitBatch ==
  /\ pc = "wait"
  /\ onuWg = 0
  /\ i' = i + 1
  /\ pc' = IF i + 1 < batches THEN "launch" ELSE "return"
  /\ UNCHANGED <<cfg, proc, sigint, perIter, j, k, serials, pool, onus,
                 onuDeviceMap, onuWg>>

\* The deferred syscall.Kill(Getpid(), SIGINT).
StopProcess ==
  /\ pc = "return"
  /\ pc' = "ended"
  /\ sigint' = TRUE
  /\ UNCHANGED <<cfg, proc, perIter, i, j, k, serials, pool, onus, onuDeviceMap, onuWg>>

\* waitForExit returns in main, which ends the process.
MainExit ==
  /\ sigint
  /\ proc' = "exited"
  /\ UNCHANGED <<cfg, sigint, loopVars, onus, onuDeviceMap, onuWg>>

-----------------------------------------------------------------------------
(* activateONU. *)

\* The agent answers ActivateOnu.
ActivateOnu(n) ==
  /\ onus[n].state = "activate"
  /\ \E answer \in ActivateAnswers :
       onus' = [onus EXCEPT ![n].state = "store",
                            ![n].reason = CASE answer = "ok" -> "OK"
                                            [] answer = "exists" -> ""
                                            [] answer = "error" -> "error"]
  /\ UNCHANGED <<cfg, proc, sigint, loopVars, onuDeviceMap, onuWg>>

\* Mutant: a device that could not be activated is not stored.
StoreOnu_OnlyOnSuccess(n) ==
  /\ onus[n].state = "store"
  /\ onuDeviceMap' = IF onus[n].reason = "OK"
                     THEN [key \in DOMAIN onuDeviceMap \cup {OnuDeviceKey(n)} |->
                             IF key = OnuDeviceKey(n) THEN n ELSE onuDeviceMap[key]]
                     ELSE onuDeviceMap
  /\ onus' = [onus EXCEPT ![n].state = IF onus[n].reason = "OK" THEN "launch" ELSE "failed"]
  /\ UNCHANGED <<cfg, proc, sigint, loopVars, onuWg>>

\* The device is stored under its key whatever the answer was; on an error the
\* goroutine then returns.
StoreOnu(n) ==
  /\ onus[n].state = "store"
  /\ onuDeviceMap' = [key \in DOMAIN onuDeviceMap \cup {OnuDeviceKey(n)} |->
                         IF key = OnuDeviceKey(n) THEN n ELSE onuDeviceMap[key]]
  /\ onus' = [onus EXCEPT ![n].state = IF onus[n].reason = "OK" THEN "launch" ELSE "failed"]
  /\ UNCHANGED <<cfg, proc, sigint, loopVars, onuWg>>

\* go OnuDeviceMap[key].Start(), in a second critical section: it starts the
\* device it finds there.  Had another device taken the key, the one of this
\* goroutine would stay behind.
StartStoredOnu(n) ==
  /\ onus[n].state = "launch"
  /\ onus' = [onus EXCEPT ![n].state = "replaced",
                          ![onuDeviceMap[OnuDeviceKey(n)]].state = "start"]
  /\ UNCHANGED <<cfg, proc, sigint, loopVars, onuDeviceMap, onuWg>>

-----------------------------------------------------------------------------
(* OnuDevice.Start, Subscriber.Start, DeployWorkflow. *)

\* Mutant: the goroutine is started without subWg.Add(1).
StartSubscriber_NoAdd(n) ==
  /\ onus[n].state = "start"
  /\ Len(onus[n].subscribers) < cfg.subscribersPerOnu
  /\ onus' = [onus EXCEPT ![n].subscribers = Append(@, "start")]
  /\ UNCHANGED <<cfg, proc, sigint, loopVars, onuDeviceMap, onuWg>>

\* One iteration of the subscriber loop: subWg.Add(1), go subs.Start().
StartSubscriber(n) ==
  /\ onus[n].state = "start"
  /\ Len(onus[n].subscribers) < cfg.subscribersPerOnu
  /\ onus' = [onus EXCEPT ![n].subscribers = Append(@, "start"),
                          ![n].subWg = @ + 1]
  /\ UNCHANGED <<cfg, proc, sigint, loopVars, onuDeviceMap, onuWg>>

\* Mutant: onuWg.Done() without subWg.Wait().
OnuDone_NoWait(n) ==
  /\ onus[n].state = "start"
  /\ Len(onus[n].subscribers) >= cfg.subscribersPerOnu
  /\ onus' = [onus EXCEPT ![n].state = "done"]
  /\ onuWg' = onuWg - 1
  /\ UNCHANGED <<cfg, proc, sigint, loopVars, onuDeviceMap>>

\* subWg.Wait() returns, onuWg.Done().
OnuDone(n) ==
  /\ onus[n].state = "start"
  /\ Len(onus[n].subscribers) >= cfg.subscribersPerOnu
  /\ onus[n].subWg = 0
  /\ onus' = [onus EXCEPT ![n].state = "done"]
  /\ onuWg' = onuWg - 1
  /\ UNCHANGED <<cfg, proc, sigint, loopVars, onuDeviceMap>>

\* Subscriber.Start created every technology-profile instance.
StartWorkflow(n, s) ==
  /\ onus[n].subscribers[s] = "start"
  /\ onus' = [onus EXCEPT ![n].subscribers[s] = "deploy"]
  /\ UNCHANGED <<cfg, proc, sigint, loopVars, onuDeviceMap, onuWg>>

\* CreateTechProfileInstance returned nil: the type assertion on the nil
\* interface panics before the error is looked at.
TpInstancePanic(n, s) ==
  /\ TpCanFail
  /\ onus[n].subscribers[s] = "start"
  /\ proc' = "panicked"
  /\ UNCHANGED <<cfg, sigint, loopVars, onus, onuDeviceMap, onuWg>>

\* Mutant: subWg.Done() is missed on the error returns.
DeployWorkflow_DoneOnSuccessOnly(n, s) ==
  /\ onus[n].subscribers[s] = "deploy"
  /\ \/ onus' = [onus EXCEPT ![n].subscribers[s] = "success", ![n].subWg = @ - 1]
     \/ onus' = [onus EXCEPT ![n].subscribers[s] = "failed"]
  /\ UNCHANGED <<cfg, proc, sigint, loopVars, onuDeviceMap, onuWg>>

\* Mutant: a workflow that failed is deployed once more.
DeployWorkflow_Again(n, s) ==
  /\ onus[n].subscribers[s] \in {"deploy", "failed"}
  /\ \E verdict \in {"success", "failed"} :
       onus' = [onus EXCEPT ![n].subscribers[s] = verdict,
                            ![n].subWg = IF onus[n].subscribers[s] = "deploy" THEN @ - 1 ELSE @]
  /\ UNCHANGED <<cfg, proc, sigint, loopVars, onuDeviceMap, onuWg>>

\* DeployWorkflow ends, setting Reason; the deferred subWg.Done() follows.
DeployWorkflow(n, s) ==
  /\ onus[n].subscribers[s] = "deploy"
  /\ \E verdict \in {"success", "failed"} :
       onus' = [onus EXCEPT ![n].subscribers[s] = verdict,
                            ![n].subWg = @ - 1]
  /\ UNCHANGED <<cfg, proc, sigint, loopVars, onuDeviceMap, onuWg>>

-----------------------------------------------------------------------------
provisionONUs ==
  \/ CheckConfig \/ HalveOnusPerIteration
  \/ LaunchOnu \/ SkipOnu \/ RsrMgrIndexPanic
  \/ WaitBatch \/ StopProcess

OnuStep(n) ==
  \/ ActivateOnu(n) \/ StoreOnu(n) \/ StartStoredOnu(n)
  \/ StartSubscriber(n) \/ OnuDone(n)

SubscriberStep(n, s) ==
  StartWorkflow(n, s) \/ TpInstancePanic(n, s) \/ DeployWorkflow(n, s)

Running ==
  \/ provisionONUs
  \/ MainExit
  \/ \E n \in DOMAIN onus : OnuStep(n)
  \/ \E n \in DOMAIN onus : \E s \in DOMAIN onus[n].subscribers : SubscriberStep(n, s)

\* The process is gone.
Terminated == proc # "running" /\ UNCHANGED vars

Next == (proc = "running" /\ Running) \/ Terminated

\* As long as some goroutine of the process can run, one of them does.
Fairness == WF_vars(Next)

Spec == Init /\ [][Next]_vars

FairSpec == Spec /\ Fairness

-----------------------------------------------------------------------------
(* Properties. *)

\* The shape of every variable of provisionONUs and of the goroutines below it.
TypeOK ==
  /\ cfg \in Configs
  /\ proc \in {"running", "exited", "panicked"}
  /\ sigint \in BOOLEAN
  /\ pc \in {"check", "halve", "launch", "wait", "return", "ended"}
  /\ perIter \in Nat /\ i \in Nat /\ j \in PonIntfs /\ k \in Nat
  /\ serials \in [PonIntfs -> Nat]
  /\ pool \in [PonIntfs -> SUBSET OnuIds]
  /\ onus \in Seq(OnuDevice)
  /\ onuDeviceMap \in [DOMAIN onuDeviceMap -> DOMAIN onus]
  /\ DOMAIN onuDeviceMap \subseteq Nat \X OnuIds
  /\ onuWg \in Int

\* Go's WaitGroup panics when its counter goes negative and lets Wait return
\* early when an Add is missed.  The counter of onuWg is exactly the number of
\* ONUs handed to a goroutine that have not ended, and the counter of each
\* subWg the number of that ONU's subscribers that have not.
WaitGroupsExact ==
  /\ onuWg = Cardinality(Outstanding)
  /\ \A n \in DOMAIN onus :
       onus[n].subWg = Cardinality(Live(onus[n].subscribers))

\* "Stop the process once the job is done": when provisionONUs returns, and so
\* before the process is told to stop, every ONU it launched is in OnuDeviceMap
\* and has ended, and every one of its subscribers exists and has a verdict.
JobDoneBeforeStop ==
  pc \in {"return", "ended"} =>
    \A n \in DOMAIN onus :
      /\ onus[n].state = "done"
      /\ OnuDeviceKey(n) \in DOMAIN onuDeviceMap
      /\ onuDeviceMap[OnuDeviceKey(n)] = n
      /\ Len(onus[n].subscribers) = cfg.subscribersPerOnu
      /\ \A s \in DOMAIN onus[n].subscribers : Settled(onus[n].subscribers[s])

\* "Wait for the group of ONUs to complete processing before going to next
\* batch": ONUs whose goroutines are alive at one time are of one batch.
OneBatchAtATime ==
  \A m, n \in Outstanding : onus[m].batch = onus[n].batch

\* No two ONUs of the run share an OnuDeviceKey, although ids are drawn from a
\* pool in etcd that outlives the process and in which an id may be lost.
OnuKeysUnique ==
  \A m, n \in DOMAIN onus : OnuDeviceKey(m) = OnuDeviceKey(n) => m = n

\* "This is needed for ensure even distribution of ONUs across all PONs": at
\* the end of each batch every PON has been tried equally often, and never
\* more often than numOfONUsPerPon.
EvenDistribution ==
  pc = "wait" => \A p \in PonIntfs : /\ serials[p] = (i + 1) * perIter
                                    /\ serials[p] <= numOfONUsPerPon

\* With a power of two of PON ports no ONU that was announced is left out,
\* although provisionONUs only ever launches whole batches.
AllAttemptedOnEvenPons ==
  (pc = "return" /\ i > 0 /\ isPowerOfTwo(cfg.ponPorts)) =>
    \A p \in PonIntfs : serials[p] = numOfONUsPerPon

KeepsResults ==
  /\ \A key \in DOMAIN onuDeviceMap :
       /\ key \in DOMAIN onuDeviceMap'
       /\ onuDeviceMap'[key] = onuDeviceMap[key]
       /\ onus'[onuDeviceMap[key]].reason = onus[onuDeviceMap[key]].reason
  /\ \A n \in DOMAIN onus : \A s \in DOMAIN onus[n].subscribers :
       Settled(onus[n].subscribers[s]) =>
         onus'[n].subscribers[s] = onus[n].subscribers[s]

\* A device once stored in OnuDeviceMap is never replaced there, its activation
\* Reason never changes, and a subscriber's verdict is never taken back.
ResultsKept == [][KeepsResults]_vars

\* Where the loops of provisionONUs are, and what that says of its ONUs.
LoopInv ==
  /\ perIter >= 1
  /\ pc \in {"halve", "launch", "wait"} => numOfONUsPerPon >= 1
  /\ pc \in {"launch", "wait"} => k < perIter /\ perIter <= numOfONUsPerPon
  /\ pc \in {"check", "halve"} => onus = <<>> /\ k = 0
  /\ pc \in {"return", "ended"} => Outstanding = {}
  /\ \A n \in Outstanding : onus[n].batch = i
  /\ sigint => pc = "ended"

\* The id of a launched ONU is taken in its PON's pool, so it is not handed out
\* again, and OnuDeviceMap holds each stored device under its own key.
KeyInv ==
  /\ \A n \in DOMAIN onus : onus[n].pon \in PonIntfs /\ onus[n].id \in pool[onus[n].pon]
  /\ OnuKeysUnique
  /\ \A n \in DOMAIN onus : onus[n].state # "replaced"
  /\ \A n \in DOMAIN onus :
       onus[n].state \in {"launch", "failed", "start", "done"} =>
         /\ OnuDeviceKey(n) \in DOMAIN onuDeviceMap
         /\ onuDeviceMap[OnuDeviceKey(n)] = n
  /\ \A key \in DOMAIN onuDeviceMap :
       /\ OnuDeviceKey(onuDeviceMap[key]) = key
       /\ onus[onuDeviceMap[key]].state \notin {"activate", "store"}

\* What the state of an ONU's goroutine says of its subscribers.
SubscriberInv ==
  \A n \in DOMAIN onus :
    /\ Len(onus[n].subscribers) <= cfg.subscribersPerOnu
    /\ onus[n].state \in {"activate", "store", "launch"} => onus[n].subscribers = <<>>
    /\ onus[n].state = "done" =>
         /\ Len(onus[n].subscribers) = cfg.subscribersPerOnu
         /\ \A s \in DOMAIN onus[n].subscribers : Settled(onus[n].subscribers[s])

\* The inductive invariant from which the safety of the engine follows: it ties
\* the wait groups' counters to the goroutines, the goroutines to the keys in
\* the map, and the keys to the pool in etcd.
IndInv == TypeOK /\ LoopInv /\ KeyInv /\ SubscriberInv /\ WaitGroupsExact

\* The serial numbers a batch still being launched has drawn on PON p.
DrawnInBatch(p) == CASE p < j -> perIter
                     [] p = j -> k
                     [] p > j -> 0

\* How the loop counters account for every serial number drawn, and which
\* batches can be reached with a slice of one resource manager per PON.
DistributionInv ==
  /\ pc \in {"check", "halve"} => i = 0 /\ j = 0 /\ \A p \in PonIntfs : serials[p] = 0
  /\ (pc = "launch" /\ proc = "running") =>
       \A p \in PonIntfs : serials[p] = i * perIter + DrawnInBatch(p)
  /\ pc = "wait" => /\ j = 0 /\ k = 0 /\ i < cfg.ponPorts
                    /\ \A p \in PonIntfs : serials[p] = (i + 1) * perIter
  /\ pc \in {"launch", "wait"} => i < batches
  /\ (pc \in {"return", "ended"} /\ i > 0) => batches <= cfg.ponPorts
  /\ (~TpCanFail /\ proc = "panicked") => batches > cfg.ponPorts

\* From the checks to the last batch: powers of two throughout, and once the
\* batches are over there have been as many as there are whole batches.
PowersInv ==
  /\ perIter # 0 /\ isPowerOfTwo(perIter)
  /\ pc \in {"halve", "launch", "wait"} => isPowerOfTwo(cfg.numOfOnu) /\ cfg.numOfOnu >= cfg.ponPorts
  /\ pc \in {"launch", "wait"} => perIter <= numOfONUsPerPon
  /\ (pc = "return" /\ i > 0) =>
       /\ isPowerOfTwo(cfg.numOfOnu) /\ cfg.numOfOnu >= cfg.ponPorts /\ perIter <= numOfONUsPerPon
       /\ i = batches /\ \A p \in PonIntfs : serials[p] = i * perIter

\* The phase of the abstract job that provisionONUs is in.
jobPhase == CASE pc \in {"check", "halve", "launch"} -> "launching"
              [] pc = "wait" -> "draining"
              [] pc \in {"return", "ended"} -> "ended"

Job == INSTANCE BatchedJob WITH Task <- Nat, phase <- jobPhase,
                                launched <- DOMAIN onus,
                                finished <- DOMAIN onus \ Outstanding

\* Goroutines and wait groups implement the batched job: no batch begins, and
\* the job does not end, before every launched ONU has finished.
ImplementsBatchedJob == Job!JobSpec

\* "Stop the process once the job is done": the process does not run forever.
ProcessStops == <>(proc # "running")

\* The only thing that keeps the process from stopping is an ONU whose
\* activation was refused by the agent.
StopsUnlessActivationRefused ==
  <>(proc # "running") \/ <>(\E n \in DOMAIN onus : onus[n].state = "failed")

\* om.rsrMgr has one element per PON port and is indexed by the batch.
MoreBatchesThanPons == batches > cfg.ponPorts

\* As long as technology-profile instances can be created, a configuration that
\* passes the two checks of provisionONUs ends in a run-time panic exactly when
\* it needs more batches than there are PON ports: none other panics, and none
\* of those gets to the end of its batches.
PanicsExactlyOnManyBatches ==
  ~TpCanFail =>
    /\ proc = "panicked" => MoreBatchesThanPons
    /\ (pc = "return" /\ i > 0) => ~MoreBatchesThanPons
=============================================================================
