# Verification of openolt-scale-tester

The openolt-scale-tester loads an openolt-agent with fake ONUs and subscribers:
it draws ONU ids from pools in etcd, activates the ONUs in batches, provisions
every subscriber's schedulers, queues and flows, and stops itself. This
directory holds TLA+ models of that program, the TLC runs that check them on
small instances, and TLAPS proofs for all instances.

## 1. Inventory of the system

| Part | Code | State | Operations | Talks to |
|---|---|---|---|---|
| main | `main.go` | exit channel | start the manager, wait for a signal | manager (goroutine), OS signals |
| Configuration | `config/config.go` | flags | parse | everyone, read only |
| Manager start | `core/olt_manager.go` 77-202 | connection, device info, `rsrMgr` | dial, load technology profiles, make one resource manager per PON, NNI trap flows | agent, etcd |
| provisionONUs | `core/olt_manager.go` 204-286 | loop counters, `onuWg` | checks, halving, batches, allocation of ONU ids, SIGINT | etcd pool, activateONU |
| activateONU | `core/olt_manager.go` 288-340 | `OnuDeviceMap` under a lock | ActivateOnu, store, start | agent, OnuDevice.Start |
| Indication reader | `core/olt_manager.go` 362-453 | stream, backoff | receive, re-enable after EOF | agent |
| OnuDevice | `core/onu_manager.go` | `SubscriberMap`, `subWg`, `Reason` | start subscribers, wait, Done | Subscriber.Start |
| Subscriber | `core/subscriber_manager.go` | technology-profile instances, `Reason` | create instances, deploy | technology-profile library |
| Workflows | `core/workflow_manager.go`, `att_`, `dt_`, `tt_workflow.go`, `workflow_utils.go` | none of their own | schedulers, queues, flows; multicast groups | agent, flow-id counter |
| Resource manager | `core/resource_manager.go` | `flow_id` per PON under a lock | GetFlowID, pool set-up | etcd (vendored library) |
| Tags | `core/utils.go` | tag counters, serial counter | GetCtag, GetStag, MkUniPortNum, serial numbers | OnuDevice.Start |
| Multicast | `core/tt_workflow.go` 568-613, `workflow_utils.go` 307-536 | `lastPonIntf` | group, flow, scheduler, queue, member | agent |
| Retry helpers | `core/workflow_utils.go` 538-609 | none | bounded retries; nothing calls them | agent |

What is hard here: a goroutine per ONU and per subscriber joined only by wait
groups; the agent and etcd may fail, or apply a request and lose the answer;
pools in etcd and flows on the agent survive the process, which starts counting
at one again; integer division decides batches and indices. There is not a
single test in the repository. `PROJECT.json` lists the hazards line by line.

What makes each part correct:

- provisionONUs: batches do not overlap, ONUs are spread evenly over the PONs,
  the process is stopped when, and only when, the work is over.
- activateONU, OnuDevice, Subscriber: each launched ONU is stored under a key of
  its own and never replaced; Done is called exactly once per Add; a failure
  leaves a Reason.
- Workflows: the Reason agrees with what the agent holds, stages come in order,
  no id is given to two flows of one PON.
- Multicast: a member is added to a group that exists; every PON should get its
  scheduler and queue exactly once, and where it does not it is known why.
- Indications: the reader keeps trying, with pauses that fit the outage.
- Tags, ports, serial numbers: unique within their scope.

## 2. Modules

| Module | Models | Composed from |
|---|---|---|
| `Provisioning` | main's exit, provisionONUs, activateONU, OnuDevice.Start, Subscriber.Start, the verdict of DeployWorkflow | `BatchedJob` (as abstraction) |
| `BatchedJob` | what provisionONUs promises: tasks in batches, none left when the next batch begins or the job ends | |
| `Workflow` | DeployWorkflow in the ATT, DT and TT workflows, GetFlowID, NNI trap flows, the agent | |
| `Multicast` | DeployWorkflow of a group test: lastPonIntf, group, multicast flow, scheduler, queue, member | |
| `TpInstance` | CreateTechProfileInstance and the pools of alloc ids and GEM ports in etcd | `IdAllocator` (as abstraction) |
| `IdAllocator` | what a store of ids promises its clients | |
| `Tags` | C-tags, S-tags, UNI port numbers, serial numbers and subscriber names | |
| `Startup` | main, OpenOltManager.Start, and provisionONUs as to what ends the process or holds it up; the first profile of the subscribers | |
| `Indications` | readIndications and its backoff | |
| `Retry` | the three helpers with retries | |
| `ProvisioningProofs`, `WorkflowProofs`, `TagsProofs`, `TpInstanceProofs`, `MulticastProofs`, `StartupProofs`, `IndicationsProofs`, `RetryProofs` | theorems about the module of that name, see section 4 | that module, TLAPS |
| `MC...` | instances for TLC | |

The modules share their interfaces rather than variables. `Provisioning` knows a
workflow by its verdict and a technology-profile instance by success or panic;
`Workflow` and `Multicast` detail the first, `TpInstance` the second. `Startup` leads up
to where `Provisioning` begins, with one resource manager per PON, and follows the
process to its end without the wait groups. `Tags` is the data
that `Provisioning` leaves out of LaunchOnu and StartSubscriber.

**Provisioning.** `pc, perIter, i, j, k` are the control state and locals of
provisionONUs (`i` is the batch, `j` the PON port, `k` the ONU of the batch on that
port); `onus` holds, in the order of launch, the OnuDevice of each activateONU
goroutine together with where that goroutine, or the OnuDevice.Start it led to,
is; `onuDeviceMap` maps a key to a position in `onus`, as the Go map holds
pointers; `onuWg` and `subWg` are the counters of the wait groups. `pool` is the
state of the ONU-ID pools in etcd. One action is one step another goroutine can
observe: `LaunchOnu` and `SkipOnu` are one pass through the innermost loop (only
provisionONUs uses the ONU-ID pools, so its read and write of etcd are one
step), `StoreOnu` and `StartStoredOnu` the two critical sections of activateONU.
In state "failed" activateONU has returned without starting the device; in
"replaced" it would have started the device of somebody else, which the
invariant excludes. `serials` counts serial numbers, hence attempts, per PON. A
panic anywhere ends the process. The device announces dedicated ONU-ID pools.
The numbers of ONUs are natural numbers; the conversions to uint32 in the code
would only tell from 2^32 on.

**Workflow.** A workflow is a sequence of groups of requests. All requests of a
group are sent, then the first error of the group ends the workflow: groups of
one in ATT and DT, and in TT one group per p-bit of a service, which is how the
code collects `errUs`, `errDs`, `errDhcp`, `errIgmp`. A flow takes two steps,
GetFlowID and FlowAdd, so that workflows interleave between them. The agent is
external: it answers "ok", "error", or "lost" (applied, but an error reached the
tester), and AlreadyExists for a flow id it holds on the same interface, which
may be a flow of an earlier run. The counter of the PON is never persisted. A
scheduler or queue that the technology profile cannot supply is an "error".

**Multicast.** The tester keeps one `lastPonIntf`, which every subscriber loads and
then, if it names its own PON, increments; the two atomic operations are the two
actions LoadLastPonIntf and AddLastPonIntf. `pc` names the request that is next;
`FirstRequest` and `Following` are the order of ProvisionMulticastFlow and
AddMulticastQueueFlow: on PON 0 the group with SET_MEMBERS, the flow id and the flow, on the PON found by lastPonIntf scheduler
and queue, and on all the member with ADD_MEMBERS. The first error ends the
workflow. That the agent refuses a member of a group it does not hold
(`MemberAnswers`) is assumed of the agent: nothing in this repository says so.
`seen` keeps, for the properties only, what a subscriber loaded of lastPonIntf.

**TpInstance.** One process per subscriber with one TP id, where the code goes through
TpIDList one after the other; from getSingleInstanceTp to
addResourceInstanceToKVStore and, when that fails, through the release of the ids
to the fatal exit. A draw takes the lock of the type, reads the pool, chooses the
lowest free bits and writes the pool back, in two actions between which others
run; `sub[s].pool` is the pool as read. etcd answers "ok", "error" or "lost"
(applied, error reported). A failed draw panics in Subscriber.Start. The pools
and the ids in use (`deployed`) outlive the process; Restart begins a new run,
whose InitResourceIDPool keeps a pool it can read. A bit plus StartIDx is the id.

**Tags.** GetCtag, and GetStag with the start of the subscriber, are two actions of
each ONU's goroutine: the tag counters share one mutex, but it is taken for each
draw by itself. MkUniPortNum is modelled on sets of bits of 32-bit numbers,
stringifyVendorSpecific by the four digits it keeps. `SerialsDrawn` stands for the
ONUs of earlier batches.

**Startup.** `pc` is where Start is; main's signal.Notify runs beside it. A failing
Dial or GetDeviceInfo returns its error to nobody. A failing NewResourceMgr leaves
"nil", which goes unnoticed, "blind" (a manager whose backend for profiles is
missing), or exits. Earlier runs may have left profiles under any technology: the
load overwrites those of the device's technology, the subscribers look theirs up
under the technology of their PON's range. Lookup and storing of the first profile
in the cache of the PON are separate actions. Of provisionONUs there are the
batches, whose number indexes `rsrMgr`, the draw of the ONU id and the activation,
which may be refused and then holds up its batch for good, and the instance, whose
ids may not be drawn (a panic) or which may not be stored (an exit). Each ONU has
one subscriber. `nni` says that trap flows were sent, which an unsupported workflow
does not do. Interrupt is a signal from outside, at any time.

**Indications.** `outage` counts the ends of file since the last indication and is
history only; intervals are in microseconds. The randomisation of an interval is
left out, the interval it is drawn around is kept.

**Retry.** One call of CreateTrafficSchedWithRetry, CreateTrafficQueuesWithRetry or
AddFlowWithRetry. A flow that the agent holds is answered with AlreadyExists or an
error, never added again. No code calls the helpers yet. `maxRetry` is any number of
at least one; the code has 20.

Definitions whose comment begins with "Mutant" are deliberately wrong variants of
the definition they precede; replacing the definition by the variant must make
the named property fail, and shows that the property has teeth.

## 3. Runs

| Run | Instance | Shows |
|---|---|---|
| `hostile` | five configurations: two that are refused, one batch of two ONUs with two subscribers each, two batches of two ONUs, and one PON on which the second batch indexes out of range; batches of 1; three ids of which one may be taken; every answer possible | inductive invariant, exact wait groups, JobDoneBeforeStop, OneBatchAtATime, OnuKeysUnique, ResultsKept; refinement of BatchedJob; only a refused activation keeps the process from stopping |
| `distribution` | 0-16, 32, 64 and 128 ONUs on 1-9 PON ports, real batch size, empty pools (only the loops matter) | even distribution, nothing left out on a power of two of PON ports, a panic exactly when there are more batches than PON ports |
| `workflow` | DT with three subscribers on two PONs, ATT with two on one PON, TT with one on each of two PONs and one p-bit; fresh and used agent | the inductive invariant, FlowIdsUnique, SuccessMeansProvisioned, StagesInOrder, SymmetricFlowHeld, ReasonTellsStage, EveryWorkflowEnds |
| `multicast` | TT with four subscribers on three PONs, with two that set one group, and on an agent that holds a group and a flow; DT | GapsComeFromOverlap, UnservedPonsExplained, PassedOverForGood, SuccessMeansMember, SuccessMeansCreated |
| `tp_instance` | three subscribers on two PONs; two with every answer of etcd and six or three free ids; a single-instance profile; two runs of the process; dedicated pools | the inductive invariant, DeployedIdsUnique, ReadIsCurrent, DeployedIdsStayTaken, EveryInstanceEnds, refinement of IdAllocator |
| `tags` | three ONUs on two PONs with two subscribers, each workflow; two ONUs at the edges of the bit fields with sixteen subscribers; first and last distinct serial numbers | TagPairsUnique, DtStagsUnique, FittingPortsUnique, NamesUnique |
| `startup` | twelve devices and configurations, sound and unsound, with profiles of earlier runs under the technology of the device and of the range, as many batches as PONs and more; two subscribers per PON and batch, or one; every answer; a signal at any time | StartupOrder, LoadedProfileUsed, PanicsHaveACause, StopsUnlessHeldUp |
| `indications` | the code's intervals, ten ends of file | SleepFollowsOutage |
| `retry` | maxRetry 20 as in the code | ResultIsHonest, CallReturns |
| `hang`, `tp_shared`, `indications_retry` | the smallest instance of each finding | the code contradicts its comments, see below |

Bounds. Two ONUs on two PONs, or two on one, are every pair that can share a
wait group, a pool or a map; a second batch is what reuse of `onuWg` needs; two
subscribers are what a `subWg` and a flow-id counter need to be contended. Three
ids with one taken give both a gap and an exhausted pool. A batch size of 1 in
`hostile` lets a second batch begin with four ONUs rather than sixteen; the size
is a parameter, and the proofs cover every size. `distribution` checks the real
size. A second p-bit in TT only repeats groups of the same shape. In `multicast`
two subscribers on PON 0 and one on each of two more are what it takes to pass a
PON over and to have one above it that is not. In `tp_instance` a pool has 8 bits;
with six free ids all draws succeed, with three one of them does not. Two runs are
what a crash between draw and use needs. In `indications` the interval reaches its
limit at the seventh end of file of one outage, so ten leave room for a second
outage after it. In `startup` two PONs are what tells the batch number from the
PON, and two batches on one PON run past the last manager. `retry` has the size of
the code itself.
`hostile` and the finding runs do not check for deadlock: a refused activation
really leaves every goroutine waiting.

Fairness. In `Provisioning` and `Workflow` `WF_vars(Next)`: as long as some goroutine
can run, one does (the Go scheduler), and the agent answers every request, since
the calls carry no deadline and the code has nothing that handles silence. Every
behaviour of those models is finite except for stuttering. In `TpInstance` only
the goroutines are fair: nobody has to start the process again. In `Startup` the
program is fair; the signal from outside is not, nor is a failure of Dial, and Dial
waits as long as the agent is away. In `Retry` requests are answered. `Tags`,
`Multicast` and `Indications` have safety properties only; that TLC finds no deadlock
in the first two shows that all goroutines come to their end.

Findings, each shown by a run that TLC finds violated:

1. `hang`: activateONU returns on a refused activation without `onuWg.Done()`, so
   provisionONUs waits forever and SIGINT is never sent. AlreadyExists counts as
   a refusal, and leaves the device without a Reason as well.
2. `tp_shared`: the resource managers of two PONs that share a pool of alloc ids
   have no lock in common, as nothing fills SharedResourceMgrs, and hand out one
   id twice.
3. `indications_retry`: a single failed EnableIndication after an end of file ends
   the reader, whose backoff was set up to "continue to retry".

What else the models say of the code, as the conditions of the passing
properties:

- `om.rsrMgr[i]` is indexed by the batch, not the PON port; more batches than PON
  ports panic, the default of 128 ONUs on four PON ports among them
  (PanicsExactlyOnManyBatches).
- On a number of PON ports that is no power of two the last, partial batch is
  dropped after having been announced (AllAttemptedOnEvenPons asks for a power).
- The nil result of CreateTechProfileInstance is type-asserted before the error
  is checked: a failed draw ends the process, not the subscriber
  (EveryInstanceEnds counts that as an end).
- Nobody creates the multicast scheduler and queue of a PON when its subscribers
  all load lastPonIntf before it has come to their PON, as happens to every PON above
  one that is itself left out, or when two subscribers of a lower PON both find
  lastPonIntf at theirs and move it past (UnservedPonsExplained,
  GapsComeFromOverlap). A PON that was passed over stays so
  (PassedOverForGood). A group set twice, or left by an earlier run, loses members
  (SuccessMeansMember excludes both).
- ONU ids above 255 or UNI ids above 15 spill into the next field of the port
  number, and PON numbers from 2^20 on lose their high bits (FittingPortsUnique
  asks for numbers that fit); from serial number 10000 on printed serial numbers
  repeat (NamesUnique).
- The nil check after NewResourceMgr looks at the slice, so a missing manager goes
  unnoticed, that of PON 0 excepted (StartupOrder), until its first user panics
  (PanicsHaveACause).
- Profiles are loaded under the technology of the device and looked up under that
  of the PON's range. Where the two differ a profile that an earlier run left there
  is used in silence, or the library's default; and a read that fails once puts the
  default into the cache of the PON (LoadedProfileUsed).
- On a sound device the process still panics when the ids of an instance cannot be
  drawn and when there are more batches than PON ports (PanicsHaveACause). It ends
  by itself unless the agent is away, the device info fails, or an ONU is refused
  (StopsUnlessHeldUp), which is finding 1 seen from main.
- An InitResourceIDPool that cannot read a pool formats it anew, so `tp_instance`
  has pools that can be read at a restart. It has single-instance profiles only
  with an etcd that answers: otherwise an alloc id that a second UNI shares is
  given back when the first cannot store its instance.

## 4. Proofs

Every safety property that a passing run checks, invariant or action property,
and both refinements are also theorems, for every value of the constants: any
number of ONUs, PONs and subscribers, any batch size, pool and agent. The
constants are bound only by the named ASSUMEs of each module, which say what type
they have; the theorems that carry a hypothesis of their own are named below. Each
module states its inductive invariant `IndInv`, and the theorems follow one
pattern: `Init => IndInv`, one lemma per action for `IndInv /\ [Next]_vars => IndInv'`,
then `IndInv` implies the property. Where `IndInv` is not in a cfg (`Tags`,
`Multicast`, `Startup`, `Indications`, `Retry`; in `Provisioning` DistributionInv
and PowersInv) TLC has checked it on the instance of the module's run before it
was proved.

**ProvisioningProofs.** `TypeOK`, `WaitGroupsExact`, `JobDoneBeforeStop`,
`OneBatchAtATime`, `OnuKeysUnique`, `ResultsKept` and the refinement of
`BatchedJob` from

    IndInv == TypeOK /\ LoopInv /\ KeyInv /\ SubscriberInv /\ WaitGroupsExact

None of the safety properties is inductive alone. That the job is over when
provisionONUs returns follows from `onuWg = 0` only if `onuWg` counts exactly the
goroutines that have not ended (WaitGroupsExact), and a finished ONU has finished
subscribers only if its `subWg` is exact too (SubscriberInv). StartStoredOnu
starts the device it finds in the map, so WaitGroupsExact needs the map to hold
the goroutine's own device (KeyInv), which needs keys to be unique, which needs
each launched ONU's id to be taken in the pool. LoopInv says that the ONUs alive
are those of the current batch. `EvenDistribution` and
`PanicsExactlyOnManyBatches` add DistributionInv, which accounts for every serial
number drawn by the loop counters. `AllAttemptedOnEvenPons` adds PowersInv, that
the batch size and the number of ONUs are powers of two throughout, so that on a
power of two of PON ports the divisions leave nothing over; it holds for a batch
size that is a power of two (`isPowerOfTwo(OnusPerIteration)`), as the 4 of the code
is.

**WorkflowProofs.** `FlowIdsUnique`, `SuccessMeansProvisioned`, `StagesInOrder`,
`SymmetricFlowHeld` and `ReasonTellsStage` from TypeOK and six parts: drawn ids are
behind the counter of their PON (IdInv), flows on the agent carry ids their owner
drew (FlowInv), the position in the script tells which schedulers and queues exist
(StageInv), errors and Reasons tell the position (ReasonInv), without an error
everything answered is held (HeldInv), and one id is drawn per flow request
(CountInv, which turns "all requests answered" into "all flows held").

**TagsProofs.** `TagPairsUnique` and `DtStagsUnique`: a tag, whether a subscriber
has it or a loop still holds it, is behind its counter and nobody else's (CtagInv,
StagInv). `NamesUnique` as long as no serial number above 10000 was drawn, the
condition the run has by its bounds (SerialInv). `FittingPortsUnique`: bit b of n is
bit b-1 of n/2, so by induction w bits determine a number below 2^w, and numbers
that fit have their bits in fields that do not meet.

**TpInstanceProofs.** `TypeOK` without conditions; `ReadIsCurrent` if no pool is
shared by two PONs (PoolPerPon); `DeployedIdsUnique`, `DeployedIdsStayTaken` and the
refinement of `IdAllocator` under

    Dependable == PoolPerPon /\ PoolsKept /\ SharedAllocsKept

that is, also pools that can be read at a restart, and no failed instance where
UNIs share an alloc id. Each condition is what the code needs: `tp_shared` shows
it without the first, the mutant of DeployedIdsUnique without the second, and
section 3 says what happens without the third. LockInv makes reading, changing
and writing a pool one step; the rest of `IndInv` follows an id from the pool
(DrawnIsTaken, AllocIsDrawn) over the stored instance (StoredHasAlloc) to the agent
(DeployedIsTaken).

**MulticastProofs.** `GapsComeFromOverlap`, `UnservedPonsExplained`,
`SuccessMeansCreated`, `SuccessMeansMember` and `PassedOverForGood`, with SeenInOrder
(what a subscriber loaded of lastPonIntf was no more than it is now, and its own PON
made it a creator), RequestsInOrder (what the request a subscriber is at
says of the ones before) and NewGroupsWereSet (a group that is new was set by a
subscriber of PON 0).

**StartupProofs.** `StartupOrder`, `LoadedProfileUsed` and `PanicsHaveACause`, with
ProfilesLoaded (the profiles before the loop index are in etcd as this run loaded
them, and under the technology of the device only so, whatever was there before),
Started (what Start has done when it returns), BatchesHaveManagers (an ONU is only
tried in a batch that has a manager, so there are no more complete batches than
PONs) and OnlyAllowed (caches, reads and uses of profiles at any moment, not only
when used).

**IndicationsProofs.** `SleepFollowsOutage`: the interval is that of twice as many
steps as there were ends of file in this outage, because NextBackOff is called
twice for each.

**RetryProofs.** `ResultIsHonest`: until the call returns an attempt is left, and what
the agent holds by then it had before or was given without an answer.

Recursive definitions. The library's induction takes an operator, which the
provers cannot instantiate, but its well-foundedness of the naturals is about
sets: from it the proofs derive that a set with 0, and with n + 1 for every n in it,
holds all naturals (`SetInduction`), and from that that `powerOfTwo`, `Backoff` and the
loop of GetTpIDList are functions that satisfy their recursive equations. The
lemma is repeated where it is needed, as the modules have no other in common.

Only model-checked: the liveness properties (StopsUnlessActivationRefused,
EveryWorkflowEnds, EveryInstanceEnds, StopsUnlessHeldUp, CallReturns), as the prover has no fairness and no ENABLED; freedom from deadlock,
for the same reason.

## 5. Not modelled, and the plan

The models cover the plan, and every safety property of the runs is proved. What
could still be stated and proved: that what `Startup`, `Workflow`, `Multicast` and
`TpInstance` end with are outcomes that `Provisioning` allows, which today is a
matter of reading the interfaces in section 2.

Left out for good:

- classifiers and actions of flows and the MAC addresses in them
  (FormatClassfierAction, FormatTtClassfierAction, GenerateMac): data that
  no property tells apart, sent as it is;
- logging, times and durations, parsing of flags, generated protocol buffers,
  build files;
- in the vendored libraries what the tester never calls: removal of profiles,
  ONUs and ids, reserved GEM ports, the resource map of an ONU; EPON profiles
  beyond the type assertion that fails on them;
- removal of members and queues, and Delete of the resource manager, which
  have no caller;
- two processes of the tester against one etcd, which is outside its use.
