------------------------------ MODULE TpInstance ------------------------------
(***************************************************************************)
(* CreateTechProfileInstance (vendored voltha-lib-go, techprofile), which  *)
(* Subscriber.Start calls in one goroutine per subscriber, and the pools   *)
(* of alloc ids and GEM-port ids in etcd that it draws from (vendored      *)
(* ponresourcemanager).  Every PON has a manager of its own, with one lock *)
(* per type of id; the path of a pool depends on whether the device shares *)
(* the pool between PONs.  The pools outlive the process.                  *)
(***************************************************************************)
EXTENDS Integers, FiniteSets

CONSTANTS
  Scenarios,   \* subscribers, instance control, pools, and what etcd may answer
  MaxRuns      \* bound on the number of runs of the process

Types == {"alloc", "gem"}

ASSUME MaxRunsAssumption == MaxRuns \in Nat \ {0}
ASSUME ScenarioAssumption ==
  \A sc \in Scenarios :
    /\ \A s \in DOMAIN sc.subs : sc.subs[s].pon \in Nat /\ sc.subs[s].onu \in Nat
    /\ sc.onuInstance \in {"single-instance", "multi-instance"}
    /\ sc.numGemPorts \in Nat \ {0}
    /\ sc.sharing \in [Types -> {0, 1, 2}]
    /\ sc.end \in Nat
    /\ sc.taken \subseteq 0 .. ((sc.end + 7) \div 8) * 8 - 1
    /\ sc.answers \subseteq {"ok", "error", "lost"}
    /\ sc.initReads \subseteq {"ok", "error"}

VARIABLES
  sc,          \* the configuration
  etcd,        \* the pools: the set of bits that are set, per path
  lock,        \* <<PON, type>> of the locks that are held
  proc,        \* "running", or how the process ended
  runs,        \* which run of the process this is
  sub,         \* the state of each subscriber's CreateTechProfileInstance
  tpInstances, \* tpInstanceMap: the subscribers whose instance is stored
  deployed     \* ids that have reached DeployWorkflow, in this run or an earlier one

vars == <<sc, etcd, lock, proc, runs, sub, tpInstances, deployed>>

Subscribers == DOMAIN sc.subs
Pon(s) == sc.subs[s].pon
Onu(s) == <<sc.subs[s].pon, sc.subs[s].onu>>

\* GetPath: the interface, or the number of the shared pool.
GetPath(s, type) ==
  <<type, IF sc.sharing[type] # 0 THEN sc.sharing[type] ELSE Pon(s)>>

Paths == {GetPath(s, type) : s \in Subscribers, type \in Types}

\* FormatResource makes a bitmap of EndIDx bits, in whole bytes.
Len == ((sc.end + 7) \div 8) * 8
Bits == 0 .. Len - 1

\* Mutant: the search goes one bit too far.
Free_OffByOne(pool) == (0 .. Len) \ pool

\* The bits that GenerateNextID finds not set; StartIDx plus the bit is the id.
Free(pool) == Bits \ pool

\* Mutant: the search begins at the first bit but does not look at it.
GenerateNextIDs_IgnoringPool(pool, n) == 0 .. n - 1

\* GenerateNextID, n times: the lowest bits that are not set.
GenerateNextIDs(pool, n) ==
  {x \in Free(pool) : Cardinality({y \in Free(pool) : y < x}) < n}

-----------------------------------------------------------------------------
NewSub == [pc |-> "begin", alloc |-> -1, drawn |-> {}, pool |-> {}]

Init ==
  /\ sc \in Scenarios
  /\ etcd = [path \in Paths |-> sc.taken]
  /\ lock = {}
  /\ proc = "running"
  /\ runs = 1
  /\ sub = [s \in Subscribers |-> NewSub]
  /\ tpInstances = {}
  /\ deployed = {}

At(s, pc) == proc = "running" /\ sub[s].pc = pc

\* The instance of another UNI port of the ONU, for a single-instance profile.
SingleInstanceTps(s) ==
  IF sc.onuInstance = "single-instance" THEN {t \in tpInstances : Onu(t) = Onu(s)} ELSE {}

\* getSingleInstanceTp, under tpInstanceMapLock: use the alloc id of an
\* instance it finds, else go on to draw one.
GetSingleInstanceTp(s) ==
  /\ At(s, "begin")
  /\ \/ \E t \in SingleInstanceTps(s) :
          sub' = [sub EXCEPT ![s].alloc = sub[t].alloc, ![s].pc = "gem"]
     \/ /\ SingleInstanceTps(s) = {}
        /\ sub' = [sub EXCEPT ![s].pc = "alloc"]
  /\ UNCHANGED <<sc, etcd, lock, proc, runs, tpInstances, deployed>>

Lock(s, type) == <<Pon(s), type>>

\* Mutant: nobody takes the lock.
GetPool_NoLock(s, type, from, to) ==
  /\ At(s, from)
  /\ sub' = [sub EXCEPT ![s].pool = etcd[GetPath(s, type)], ![s].pc = to]
  /\ UNCHANGED <<sc, etcd, lock, proc, runs, tpInstances, deployed>>

\* The type's lock of the manager is taken and the pool read from etcd.
GetPool(s, type, from, to) ==
  /\ At(s, from)
  /\ Lock(s, type) \notin lock
  /\ lock' = lock \cup {Lock(s, type)}
  /\ sub' = [sub EXCEPT ![s].pool = etcd[GetPath(s, type)], ![s].pc = to]
  /\ UNCHANGED <<sc, etcd, proc, runs, tpInstances, deployed>>

\* The pool cannot be read, or the lock is given up without a change: without
\* an instance the type assertion in Subscriber.Start panics.
Panic(s) ==
  /\ proc' = "panicked"
  /\ UNCHANGED <<sc, etcd, lock, runs, sub, tpInstances, deployed>>

GetPoolFails(s, type, from) ==
  /\ At(s, from)
  /\ Lock(s, type) \notin lock
  /\ "error" \in sc.answers
  /\ Panic(s)

\* How many ids of a type an instance needs.
NumIDs(type) == IF type = "alloc" THEN 1 ELSE sc.numGemPorts

Applied(answer) == answer \in {"ok", "lost"}

\* GenerateNextID and UpdateResource, and the lock is released.  The ids are
\* those free when the pool was read.
DrawIDs(s, type, from, to) ==
  LET path == GetPath(s, type)
      ids == GenerateNextIDs(sub[s].pool, NumIDs(type))
  IN  /\ At(s, from)
      /\ Cardinality(Free(sub[s].pool)) >= NumIDs(type)
      /\ \E answer \in sc.answers, alloc \in IF type = "alloc" THEN ids ELSE {sub[s].alloc} :
           /\ etcd' = IF Applied(answer)
                      THEN [etcd EXCEPT ![path] = sub[s].pool \cup ids]
                      ELSE etcd
           /\ \/ /\ answer = "ok"
                 /\ sub' = [sub EXCEPT ![s] =
                       [pc |-> to, alloc |-> alloc, drawn |-> @.drawn \cup ({path} \X ids), pool |-> {}]]
                 /\ UNCHANGED proc
              \/ /\ answer # "ok"
                 /\ proc' = "panicked"
                 /\ UNCHANGED sub
      /\ lock' = lock \ {Lock(s, type)}
      /\ UNCHANGED <<sc, runs, tpInstances, deployed>>

PoolExhausted(s, type, from) ==
  /\ At(s, from)
  /\ Cardinality(Free(sub[s].pool)) < NumIDs(type)
  /\ Panic(s)

\* The instance is put into tpInstanceMap.
StoreInstance(s) ==
  /\ At(s, "store")
  /\ tpInstances' = tpInstances \cup {s}
  /\ sub' = [sub EXCEPT ![s].pc = "persist"]
  /\ UNCHANGED <<sc, etcd, lock, proc, runs, deployed>>

Gems(s) == {x \in Bits : <<GetPath(s, "gem"), x>> \in sub[s].drawn}

\* The ids of an instance.
InstanceIds(s) ==
  {[run |-> runs, owner |-> s, path |-> GetPath(s, "alloc"), idx |-> sub[s].alloc]}
    \cup {[run |-> runs, owner |-> s, path |-> GetPath(s, "gem"), idx |-> x] : x \in Gems(s)}

\* Mutant: a failed Put of the resource instance is put again, without a limit.
AddResourceInstance_RetryForever(s) ==
  /\ At(s, "persist")
  /\ \E answer \in sc.answers :
       \/ /\ answer = "ok"
          /\ sub' = [sub EXCEPT ![s].pc = "done"]
          /\ deployed' = deployed \cup InstanceIds(s)
       \/ /\ answer # "ok"
          /\ sub' = [sub EXCEPT ![s].pc = "store"]
          /\ UNCHANGED deployed
  /\ UNCHANGED <<sc, etcd, lock, proc, runs, tpInstances>>

\* addResourceInstanceToKVStore: the instance goes to DeployWorkflow, or its ids
\* are given back.
AddResourceInstance(s) ==
  /\ At(s, "persist")
  /\ \E answer \in sc.answers :
       \/ /\ answer = "ok"
          /\ sub' = [sub EXCEPT ![s].pc = "done"]
          /\ deployed' = deployed \cup InstanceIds(s)
       \/ /\ answer # "ok"
          /\ sub' = [sub EXCEPT ![s].pc = "free alloc"]
          /\ UNCHANGED deployed
  /\ UNCHANGED <<sc, etcd, lock, proc, runs, tpInstances>>

\* Mutant: everything the pool holds is released.
Released_All(s, type) == sub[s].pool

\* The ids of one type in the resource instance.
Released(s, type) == IF type = "alloc" THEN {sub[s].alloc} ELSE Gems(s)

\* After both were freed, or not, the process exits: errList is never empty.
AfterFree(s, to) ==
  IF to = "fatal" THEN proc' = "exited" ELSE UNCHANGED proc

\* FreeResourceID: release and update, and the lock is released.
FreeIDs(s, type, from, to) ==
  LET path == GetPath(s, type)
  IN  /\ At(s, from)
      /\ \E answer \in sc.answers :
           etcd' = IF Applied(answer)
                   THEN [etcd EXCEPT ![path] = sub[s].pool \ Released(s, type)]
                   ELSE etcd
      /\ sub' = [sub EXCEPT ![s].drawn = {d \in @ : d[1] # path}, ![s].pool = {}, ![s].pc = to]
      /\ lock' = lock \ {Lock(s, type)}
      /\ AfterFree(s, to)
      /\ UNCHANGED <<sc, runs, tpInstances, deployed>>

\* FreeResourceID when the pool cannot be read.
FreeFails(s, type, from, to) ==
  /\ At(s, from)
  /\ Lock(s, type) \notin lock
  /\ "error" \in sc.answers
  /\ sub' = [sub EXCEPT ![s].pc = to]
  /\ AfterFree(s, to)
  /\ UNCHANGED <<sc, etcd, lock, runs, tpInstances, deployed>>

CreateTechProfileInstance(s) ==
  \/ GetSingleInstanceTp(s)
  \/ GetPool(s, "alloc", "alloc", "draw alloc") \/ GetPoolFails(s, "alloc", "alloc")
  \/ DrawIDs(s, "alloc", "draw alloc", "gem") \/ PoolExhausted(s, "alloc", "draw alloc")
  \/ GetPool(s, "gem", "gem", "draw gem") \/ GetPoolFails(s, "gem", "gem")
  \/ DrawIDs(s, "gem", "draw gem", "store") \/ PoolExhausted(s, "gem", "draw gem")
  \/ StoreInstance(s)
  \/ AddResourceInstance(s)
  \/ GetPool(s, "alloc", "free alloc", "release alloc") \/ FreeFails(s, "alloc", "free alloc", "free gem")
  \/ FreeIDs(s, "alloc", "release alloc", "free gem")
  \/ GetPool(s, "gem", "free gem", "release gem") \/ FreeFails(s, "gem", "free gem", "fatal")
  \/ FreeIDs(s, "gem", "release gem", "fatal")

\* Mutant: a pool that is found is formatted again.
InitResourceIDPool_Reset(path, read) == {}

\* InitResourceIDPool keeps a pool it finds, and formats one it cannot read.
InitResourceIDPool(path, read) == IF read = "ok" THEN etcd[path] ELSE {}

\* The process is started again, and NewResourceMgr sees to the pools.  The
\* instances of earlier runs that NewTechProfile reads back belong to ONU ids
\* that the pool does not give again, so no subscriber of the new run finds one.
Restart ==
  /\ proc # "running"
  /\ runs < MaxRuns
  /\ runs' = runs + 1
  /\ proc' = "running"
  /\ \E read \in [Paths -> sc.initReads] :
       etcd' = [path \in Paths |-> InitResourceIDPool(path, read[path])]
  /\ lock' = {}
  /\ sub' = [s \in Subscribers |-> NewSub]
  /\ tpInstances' = {}
  /\ UNCHANGED <<sc, deployed>>

Ended ==
  /\ \/ proc = "running" /\ \A s \in Subscribers : sub[s].pc = "done"
     \/ proc # "running" /\ runs = MaxRuns
  /\ UNCHANGED vars

Next == (\E s \in Subscribers : CreateTechProfileInstance(s)) \/ Restart \/ Ended

Spec == Init /\ [][Next]_vars

\* Every goroutine that can go on does so, and etcd answers every request.
\* Nobody has to start the process again.
FairSpec == Spec /\ WF_vars(\E s \in Subscribers : CreateTechProfileInstance(s))

-----------------------------------------------------------------------------
(* Properties. *)

PcStates ==
  {"begin", "alloc", "draw alloc", "gem", "draw gem", "store", "persist", "done",
   "free alloc", "release alloc", "free gem", "release gem", "fatal"}

\* An id of a pool, or none yet.
AllocIds == Bits \cup {-1}

SubStates ==
  [pc : PcStates, alloc : AllocIds, drawn : SUBSET (Paths \X Bits), pool : SUBSET Bits]

\* The shape of the state; a bit is only ever set within its pool.
TypeOK ==
  /\ sc \in Scenarios
  /\ etcd \in [Paths -> SUBSET Bits]
  /\ lock \subseteq {Lock(s, type) : s \in Subscribers, type \in Types}
  /\ proc \in {"running", "panicked", "exited"}
  /\ runs \in 1 .. MaxRuns
  /\ sub \in [Subscribers -> SubStates]
  /\ tpInstances \subseteq Subscribers
  /\ deployed \subseteq [run : 1 .. runs, owner : Subscribers, path : Paths, idx : AllocIds]

\* Where a subscriber holds the lock of a type.
Critical(type) ==
  IF type = "alloc" THEN {"draw alloc", "release alloc"} ELSE {"draw gem", "release gem"}

\* Subscribers that share a T-CONT because the profile says so.
ShareTcont(d, e) ==
  /\ d.run = e.run /\ d.path[1] = "alloc"
  /\ sc.onuInstance = "single-instance" /\ Onu(d.owner) = Onu(e.owner)

\* "Generate unique id": no alloc id and no GEM-port id of a pool reaches the
\* agent for two subscribers, whether they are provisioned concurrently, by
\* one run or by a run and the one after a crash.
DeployedIdsUnique ==
  \A d, e \in deployed :
    (d.path = e.path /\ d.idx = e.idx) => (d = e \/ ShareTcont(d, e))

\* While a manager holds its lock, the pool it has read is the pool in etcd:
\* nobody else's update is overwritten by the one it is about to make.
ReadIsCurrent ==
  proc = "running" =>
    \A s \in Subscribers, type \in Types :
      sub[s].pc \in Critical(type) => sub[s].pool = etcd[GetPath(s, type)]

\* The ids given back when a resource instance cannot be stored, or when the
\* process is started again, are never ones that have reached the agent.
DeployedIdsStayTaken ==
  [][\A d \in deployed : d.idx \in etcd[d.path] => d.idx \in etcd'[d.path]]_vars

\* Every subscriber gets its instance or the process ends: no lock is left
\* behind on any of the error paths.
EveryInstanceEnds ==
  []<>(proc # "running" \/ \A s \in Subscribers : sub[s].pc = "done")

-----------------------------------------------------------------------------
(* What the properties depend on, and the inductive invariant. *)

\* No pool is shared between two PONs, whose managers have no lock in common.
PoolPerPon ==
  \A s, t \in Subscribers, type \in Types :
    GetPath(s, type) = GetPath(t, type) => Pon(s) = Pon(t)

\* The pools can be read when the process is started again, and where UNI ports
\* share an alloc id no instance is ever given back.
PoolsKept == sc.initReads \subseteq {"ok"}
SharedAllocsKept == sc.onuInstance = "multi-instance" \/ sc.answers \subseteq {"ok"}

\* The three together.
Dependable == PoolPerPon /\ PoolsKept /\ SharedAllocsKept

\* A subscriber between taking a lock and releasing it is alone there.
LocksHeld ==
  proc = "running" =>
    \A s \in Subscribers, type \in Types :
      sub[s].pc \in Critical(type) =>
        /\ Lock(s, type) \in lock
        /\ \A t \in Subscribers : sub[t].pc \in Critical(type) /\ Pon(t) = Pon(s) => t = s

LockInv == TypeOK /\ PoolPerPon /\ LocksHeld /\ ReadIsCurrent

Freeing == {"free alloc", "release alloc", "free gem", "release gem", "fatal"}
WithoutAlloc == {"begin", "alloc", "draw alloc"}
WithAlloc == {"gem", "draw gem", "store", "persist", "done", "free alloc", "release alloc"}

\* What is drawn is taken, and by one subscriber only.
DrawnIsTaken ==
  \A s \in Subscribers : \A id \in sub[s].drawn :
    /\ id[2] \in etcd[id[1]]
    /\ \A t \in Subscribers : id \in sub[t].drawn => t = s

\* Subscriber t has drawn the alloc id of s: it is s or, when the profile says
\* so, one of the same ONU.
DrewAllocOf(t, s) ==
  /\ <<GetPath(s, "alloc"), sub[s].alloc>> \in sub[t].drawn
  /\ t = s \/ (sc.onuInstance = "single-instance" /\ Onu(t) = Onu(s))

\* Where the alloc id of an instance comes from.
AllocIsDrawn ==
  \A s \in Subscribers :
    /\ sub[s].pc \in WithoutAlloc => sub[s].drawn = {}
    /\ sub[s].pc \in WithAlloc =>
         /\ \E t \in Subscribers : DrewAllocOf(t, s)
         /\ \A id \in sub[s].drawn : id[1] = GetPath(s, "alloc") => id[2] = sub[s].alloc

\* An instance that others can find has an alloc id, and only with an alloc id of
\* its own does a subscriber give ids back.
StoredHasAlloc ==
  \A s \in Subscribers :
    /\ s \in tpInstances => sub[s].pc \in {"persist", "done"} \cup Freeing
    /\ sub[s].pc \in Freeing => sc.onuInstance = "multi-instance"

\* A deployed id stays taken, and whoever holds it deployed it in this run or
\* shares it with the one that did.
DeployedIsTaken ==
  \A d \in deployed :
    /\ d.idx \in etcd[d.path]
    /\ \A s \in Subscribers : <<d.path, d.idx>> \in sub[s].drawn =>
         /\ d.run = runs /\ sub[d.owner].pc = "done"
         /\ \/ d.owner = s
            \/ d.path[1] = "alloc" /\ sc.onuInstance = "single-instance" /\ Onu(d.owner) = Onu(s)

\* The inductive invariant: LockInv makes reading, changing and writing a pool one
\* step, the rest follows an id from the pool to the agent.
IndInv ==
  /\ LockInv /\ PoolsKept /\ SharedAllocsKept
  /\ DrawnIsTaken /\ AllocIsDrawn /\ StoredHasAlloc
  /\ DeployedIsTaken /\ DeployedIdsUnique

TakenIds == UNION {{path} \X etcd[path] : path \in Paths}
HeldIds == [s \in Subscribers |-> sub[s].drawn]

Allocator == INSTANCE IdAllocator WITH taken <- TakenIds, held <- HeldIds

\* The pools and the ids drawn from them are an allocator of ids: an id that a
\* subscriber draws was free, and becomes free only when that subscriber gives it
\* back, through failures, lost answers and restarts.
ImplementsIdAllocator == Allocator!Spec
=============================================================================
