-------------------------- MODULE TpInstanceProofs --------------------------
(***************************************************************************)
(* Proofs about TpInstance: for any subscribers, any pools and any number  *)
(* of runs, the ids that reach the agent are unique and stay taken, and    *)
(* the pools implement an allocator of ids, as long as no pool is shared   *)
(* between PONs, the pools can be read at a restart and a shared alloc id  *)
(* is never given back.                                                    *)
(***************************************************************************)
EXTENDS TpInstance, FiniteSetTheorems, TLAPS

-----------------------------------------------------------------------------
(* The operators. *)

\* The configuration does not change, and with it nothing that depends on it.
LEMMA ConfigStable ==
  ASSUME sc' = sc
  PROVE  /\ Subscribers' = Subscribers /\ Paths' = Paths /\ Bits' = Bits
         /\ \A s : Pon(s)' = Pon(s) /\ Onu(s)' = Onu(s)
         /\ \A s, type : GetPath(s, type)' = GetPath(s, type) /\ Lock(s, type)' = Lock(s, type)
  BY DEF Subscribers, Paths, Bits, Len, Pon, Onu, GetPath, Lock

\* Every subscriber's pools are pools.
LEMMA PathsAreTyped ==
  ASSUME NEW s \in Subscribers, NEW type \in Types
  PROVE  GetPath(s, type) \in Paths /\ GetPath(s, type)[1] = type
  BY DEF Paths, GetPath

\* Only free bits are drawn.
LEMMA DrawnWereFree ==
  ASSUME NEW pool, NEW n
  PROVE  GenerateNextIDs(pool, n) \subseteq Bits /\ GenerateNextIDs(pool, n) \cap pool = {}
  BY DEF GenerateNextIDs, Free

\* A single draw gives a single bit.
LEMMA OneDraw ==
  ASSUME NEW pool, NEW x \in GenerateNextIDs(pool, 1), NEW y \in GenerateNextIDs(pool, 1),
         sc \in Scenarios
  PROVE  x = y
<1>1. Len \in Int
  BY ScenarioAssumption DEF Len
<1>2. \A z \in Bits : z \in Int /\ IsFiniteSet({w \in Free(pool) : w < z})
  <2> SUFFICES ASSUME NEW z \in Bits
               PROVE  z \in Int /\ IsFiniteSet({w \in Free(pool) : w < z})
    OBVIOUS
  <2>1. IsFiniteSet(Bits) /\ z \in Int
    BY <1>1, FS_Interval DEF Bits
  <2>2. {w \in Free(pool) : w < z} \subseteq Bits
    BY DEF Free
  <2> QED
    BY <2>1, <2>2, FS_Subset
<1>3. \A z \in GenerateNextIDs(pool, 1) :
        z \in Bits /\ z \in Free(pool) /\ {w \in Free(pool) : w < z} = {}
  <2> SUFFICES ASSUME NEW z \in GenerateNextIDs(pool, 1)
               PROVE  z \in Bits /\ z \in Free(pool) /\ {w \in Free(pool) : w < z} = {}
    OBVIOUS
  <2>1. z \in Bits /\ z \in Free(pool) /\ Cardinality({w \in Free(pool) : w < z}) < 1
    BY DEF GenerateNextIDs, Free
  <2>2. PICK S : S = {w \in Free(pool) : w < z}
    OBVIOUS
  <2>3. IsFiniteSet(S) /\ Cardinality(S) < 1
    BY <1>2, <2>1, <2>2
  <2>4. Cardinality(S) \in Nat
    BY <2>3, FS_CardinalityType
  <2>5. Cardinality(S) = 0
    BY <2>3, <2>4
  <2>6. S = {}
    BY <2>3, <2>5, FS_EmptySet
  <2> QED
    BY <2>1, <2>2, <2>6
<1>4. ~(x < y) /\ ~(y < x)
  BY <1>3
<1>5. x \in Int /\ y \in Int
  BY <1>2, <1>3
<1> QED
  BY <1>4, <1>5

-----------------------------------------------------------------------------
(* Type correctness *)

\* The initial state is well-typed.
LEMMA TypeInit == Init => TypeOK
<1> SUFFICES ASSUME Init PROVE TypeOK
  OBVIOUS
<1>1. sc.taken \subseteq Bits
  BY ScenarioAssumption DEF Init, Bits, Len
<1>2. NewSub \in SubStates
  BY DEF NewSub, PcStates, SubStates, AllocIds
<1> QED
  BY <1>1, <1>2, MaxRunsAssumption DEF Init, TypeOK

\* Every step keeps the state well-typed.
LEMMA TypeStep == TypeOK /\ [Next]_vars => TypeOK'
<1> SUFFICES ASSUME TypeOK, [Next]_vars PROVE TypeOK'
  BY SMTT(40)
<1>1. sc' = sc
  BY ZenonT(60) DEF Next, CreateTechProfileInstance, GetSingleInstanceTp, GetPool, GetPoolFails, Panic, DrawIDs,
         PoolExhausted, StoreInstance, AddResourceInstance, FreeIDs, FreeFails, Restart, Ended, vars
<1>2. /\ Subscribers' = Subscribers /\ Paths' = Paths /\ Bits' = Bits
      /\ \A s, type : GetPath(s, type)' = GetPath(s, type) /\ Lock(s, type)' = Lock(s, type)
      /\ SubStates' = SubStates /\ AllocIds' = AllocIds
  BY <1>1, ConfigStable DEF SubStates, AllocIds
<1>0. /\ etcd \in [Paths -> SUBSET Bits]
      /\ sub \in [Subscribers -> SubStates]
      /\ tpInstances \subseteq Subscribers
  BY DEF TypeOK
<1>3. ASSUME NEW s \in Subscribers, GetSingleInstanceTp(s)
      PROVE  TypeOK'
  <2>1. SingleInstanceTps(s) \subseteq Subscribers
    BY DEF TypeOK, SingleInstanceTps
  <2>2. sub' \in [Subscribers -> SubStates]
    <3>1. ASSUME NEW t \in Subscribers, sub' = [sub EXCEPT ![s].alloc = sub[t].alloc, ![s].pc = "gem"]
          PROVE  sub' \in [Subscribers -> SubStates]
      BY <1>0, <3>1, ZenonT(60) DEF SubStates, PcStates
    <3>2. ASSUME sub' = [sub EXCEPT ![s].pc = "alloc"]
          PROVE  sub' \in [Subscribers -> SubStates]
      BY <1>0, <3>2, ZenonT(60) DEF SubStates, PcStates
    <3> QED
      BY <1>3, <2>1, <3>1, <3>2, Zenon DEF GetSingleInstanceTp
  <2> QED
    BY <1>1, <1>2, <1>3, <2>2 DEF TypeOK, GetSingleInstanceTp
<1>4. ASSUME NEW s \in Subscribers, NEW type \in Types, NEW from, NEW to \in PcStates,
             GetPool(s, type, from, to)
      PROVE  TypeOK'
  <2>1. GetPath(s, type) \in Paths
    BY PathsAreTyped
  <2>2. sub' \in [Subscribers -> SubStates]
    BY <1>0, <1>4, <2>1, ZenonT(60) DEF GetPool, SubStates
  <2>3. lock' \subseteq {Lock(t, ty) : t \in Subscribers, ty \in Types}
    BY <1>4 DEF TypeOK, GetPool
  <2> QED
    BY <1>1, <1>2, <1>4, <2>2, <2>3 DEF TypeOK, GetPool
<1>5. ASSUME NEW s \in Subscribers, Panic(s)
      PROVE  TypeOK'
  BY <1>1, <1>2, <1>5 DEF TypeOK, Panic
<1>6. ASSUME NEW s \in Subscribers, NEW type \in Types, NEW from, NEW to \in PcStates,
             DrawIDs(s, type, from, to)
      PROVE  TypeOK'
  <2> DEFINE path == GetPath(s, type)
             ids == GenerateNextIDs(sub[s].pool, NumIDs(type))
  <2>2. ids \subseteq Bits
    BY DrawnWereFree
  <2>3. path \in Paths
    BY PathsAreTyped
  <2>4. /\ etcd' \in {etcd, [etcd EXCEPT ![path] = sub[s].pool \cup ids]}
        /\ \/ \E alloc \in ids \cup {sub[s].alloc} :
                 sub' = [sub EXCEPT ![s] =
                   [pc |-> to, alloc |-> alloc, drawn |-> @.drawn \cup ({path} \X ids), pool |-> {}]]
           \/ sub' = sub
        /\ proc' \in {proc, "panicked"}
        /\ lock' \subseteq lock
        /\ UNCHANGED <<sc, runs, tpInstances, deployed>>
    <3>1. PICK answer \in sc.answers, alloc \in IF type = "alloc" THEN ids ELSE {sub[s].alloc} :
            /\ etcd' = IF Applied(answer)
                      THEN [etcd EXCEPT ![path] = sub[s].pool \cup ids]
                      ELSE etcd
            /\ \/ /\ answer = "ok"
                  /\ sub' = [sub EXCEPT ![s] =
                        [pc |-> to, alloc |-> alloc, drawn |-> @.drawn \cup ({path} \X ids), pool |-> {}]]
                  /\ UNCHANGED proc
               \/ /\ answer # "ok"
                  /\ proc' = "panicked"
                  /\ UNCHANGED sub
      BY <1>6, Zenon DEF DrawIDs
    <3>2. alloc \in ids \cup {sub[s].alloc}
      OBVIOUS
    <3>3. lock' \subseteq lock /\ UNCHANGED <<sc, runs, tpInstances, deployed>>
      BY <1>6, Zenon DEF DrawIDs
    <3> QED
      BY <3>1, <3>2, <3>3, Zenon
  <2> HIDE DEF ids, path
  <2>5. etcd' \in [Paths -> SUBSET Bits]
    BY <1>0, <2>2, <2>3, <2>4 DEF SubStates
  <2>6. sub' \in [Subscribers -> SubStates]
    <3>1. ASSUME NEW alloc \in AllocIds, NEW new \in SUBSET (Paths \X Bits),
                 sub' = [sub EXCEPT ![s] =
                   [pc |-> to, alloc |-> alloc, drawn |-> @.drawn \cup new, pool |-> {}]]
          PROVE  sub' \in [Subscribers -> SubStates]
      <4>1. PICK drawn \in SUBSET (Paths \X Bits) : drawn = sub[s].drawn \cup new
        BY <1>0 DEF SubStates
      <4>2. sub' = [sub EXCEPT ![s] = [pc |-> to, alloc |-> alloc, drawn |-> drawn, pool |-> {}]]
        BY <3>1, <4>1
      <4> QED
        BY <1>0, <1>6, <4>2 DEF SubStates
    <3>2. {path} \X ids \in SUBSET (Paths \X Bits)
      BY <2>2, <2>3
    <3>3. ids \cup {sub[s].alloc} \subseteq AllocIds
      BY <1>0, <2>2 DEF SubStates, AllocIds
    <3> QED
      BY <1>0, <2>4, <3>1, <3>2, <3>3, Zenon
  <2> QED
    <3>1. /\ proc' \in {proc, "panicked"} /\ lock' \subseteq lock
          /\ UNCHANGED <<sc, runs, tpInstances, deployed>>
      BY <2>4, Zenon
    <3> QED
      BY <1>1, <1>2, <2>5, <2>6, <3>1 DEF TypeOK
<1>7. ASSUME NEW s \in Subscribers, StoreInstance(s)
      PROVE  TypeOK'
  <2>1. sub' \in [Subscribers -> SubStates]
    BY <1>0, <1>7, ZenonT(60) DEF StoreInstance, SubStates, PcStates
  <2> QED
    BY <1>1, <1>2, <1>7, <2>1 DEF TypeOK, StoreInstance
<1>8. ASSUME NEW s \in Subscribers, AddResourceInstance(s)
      PROVE  TypeOK'
  <2>1. sub' \in [Subscribers -> SubStates]
    <3>1. ASSUME NEW pc \in PcStates, sub' = [sub EXCEPT ![s].pc = pc]
          PROVE  sub' \in [Subscribers -> SubStates]
      BY <1>0, <3>1 DEF SubStates
    <3>2. "done" \in PcStates /\ "free alloc" \in PcStates
      BY DEF PcStates
    <3> QED
      BY <1>8, <3>1, <3>2, Zenon DEF AddResourceInstance
  <2>2. /\ InstanceIds(s) \subseteq [run : 1 .. runs, owner : Subscribers, path : Paths, idx : AllocIds]
    <3>1. Gems(s) \subseteq AllocIds /\ sub[s].alloc \in AllocIds
      BY <1>0 DEF Gems, SubStates, AllocIds
    <3>2. GetPath(s, "alloc") \in Paths /\ GetPath(s, "gem") \in Paths
      BY PathsAreTyped DEF Types
    <3>3. runs \in 1 .. runs
      BY DEF TypeOK
    <3> QED
      BY <3>1, <3>2, <3>3 DEF InstanceIds
  <2> QED
    <3>1. /\ deployed' \in {deployed, deployed \cup InstanceIds(s)}
          /\ UNCHANGED <<sc, etcd, lock, proc, runs, tpInstances>>
      BY <1>8, Zenon DEF AddResourceInstance
    <3> QED
      BY <1>1, <1>2, <2>1, <2>2, <3>1 DEF TypeOK
<1>9. ASSUME NEW s \in Subscribers, NEW type \in Types, NEW from, NEW to \in PcStates,
             FreeIDs(s, type, from, to)
      PROVE  TypeOK'
  <2>1. GetPath(s, type) \in Paths
    BY PathsAreTyped
  <2>2. sub' \in [Subscribers -> SubStates]
    <3>1. PICK left \in SUBSET (Paths \X Bits) : left = {d \in sub[s].drawn : d[1] # GetPath(s, type)}
      BY <1>0 DEF SubStates
    <3>2. sub' = [sub EXCEPT ![s].drawn = left, ![s].pool = {}, ![s].pc = to]
      BY <1>9, <3>1, Zenon DEF FreeIDs
    <3> QED
      BY <1>0, <1>9, <3>2, ZenonT(60) DEF SubStates
  <2>3. etcd' \in [Paths -> SUBSET Bits]
    BY <1>0, <1>9, <2>1 DEF FreeIDs, SubStates
  <2> QED
    <3>1. /\ lock' = lock \ {Lock(s, type)} /\ AfterFree(s, to)
          /\ UNCHANGED <<sc, runs, tpInstances, deployed>>
      BY <1>9, Zenon DEF FreeIDs
    <3> QED
      BY <1>1, <1>2, <2>2, <2>3, <3>1 DEF TypeOK, AfterFree
<1>10. ASSUME NEW s \in Subscribers, NEW type \in Types, NEW from, NEW to \in PcStates,
              FreeFails(s, type, from, to)
      PROVE  TypeOK'
  <2>2. sub' \in [Subscribers -> SubStates]
    BY <1>0, <1>10 DEF FreeFails, SubStates
  <2> QED
    BY <1>1, <1>2, <1>10, <2>2 DEF TypeOK, FreeFails, AfterFree
<1>11. ASSUME Restart
       PROVE  TypeOK'
  <2>1. NewSub \in SubStates
    BY DEF NewSub, PcStates, SubStates, AllocIds
  <2>2. etcd' \in [Paths -> SUBSET Bits]
    BY <1>11 DEF TypeOK, Restart, InitResourceIDPool
  <2> QED
    BY <1>1, <1>2, <1>11, <2>1, <2>2, MaxRunsAssumption DEF TypeOK, Restart
<1>12. ASSUME UNCHANGED vars
       PROVE  TypeOK'
  BY <1>1, <1>2, <1>12 DEF TypeOK, vars
<1>13. CASE \E s \in Subscribers : CreateTechProfileInstance(s)
  <2>1. PICK s \in Subscribers : CreateTechProfileInstance(s)
    BY <1>13
  <2> QED
    BY <2>1, <1>3, <1>4, <1>5, <1>6, <1>7, <1>8, <1>9, <1>10
       DEF CreateTechProfileInstance, GetPoolFails, PoolExhausted, Types, PcStates
<1> QED
  BY <1>11, <1>12, <1>13 DEF Next, Ended

\* The state is always well-typed: no bit outside the bitmap of a pool is ever
\* set, drawn or deployed, whatever etcd answers and however pools are shared.
THEOREM TypeCorrect == Spec => []TypeOK
BY TypeInit, TypeStep, PTL DEF Spec

-----------------------------------------------------------------------------
(* What each action does, in the words of the invariant. *)

\* No step but that of subscriber s.
OnlyBy(s) == \A t \in Subscribers : t # s => sub'[t] = sub[t]

\* getSingleInstanceTp goes on to draw an alloc id, or has one from an instance.
LEMMA GetSingleEffect ==
  ASSUME TypeOK, NEW s \in Subscribers, GetSingleInstanceTp(s)
  PROVE  /\ proc = "running" /\ sub[s].pc = "begin" /\ OnlyBy(s)
         /\ sub'[s].drawn = sub[s].drawn
         /\ UNCHANGED <<sc, etcd, lock, proc, runs, tpInstances, deployed>>
         /\ \/ sub'[s].pc = "alloc"
            \/ /\ sub'[s].pc = "gem"
               /\ \E t \in tpInstances : /\ sc.onuInstance = "single-instance" /\ Onu(t) = Onu(s)
                                         /\ sub'[s].alloc = sub[t].alloc
<1>0. sub \in [Subscribers -> SubStates]
  BY DEF TypeOK
<1>1. /\ proc = "running" /\ sub[s].pc = "begin"
      /\ UNCHANGED <<sc, etcd, lock, proc, runs, tpInstances, deployed>>
  BY DEF GetSingleInstanceTp, At
<1>2. CASE sub' = [sub EXCEPT ![s].pc = "alloc"]
  <2>1. OnlyBy(s) /\ sub'[s].drawn = sub[s].drawn /\ sub'[s].pc = "alloc"
    BY <1>0, <1>2 DEF OnlyBy, SubStates
  <2> QED
    BY <1>1, <2>1
<1>3. ASSUME NEW t \in SingleInstanceTps(s), sub' = [sub EXCEPT ![s].alloc = sub[t].alloc, ![s].pc = "gem"]
      PROVE  /\ OnlyBy(s) /\ sub'[s].drawn = sub[s].drawn /\ sub'[s].pc = "gem"
             /\ t \in tpInstances /\ sc.onuInstance = "single-instance" /\ Onu(t) = Onu(s)
             /\ sub'[s].alloc = sub[t].alloc
  <2>1. t \in tpInstances /\ sc.onuInstance = "single-instance" /\ Onu(t) = Onu(s)
    BY <1>3 DEF SingleInstanceTps
  <2>2. PICK alloc : alloc = sub[t].alloc
    OBVIOUS
  <2> QED
    BY <1>0, <1>3, <2>1, <2>2 DEF OnlyBy, SubStates
<1> QED
  BY <1>1, <1>2, <1>3, Zenon DEF GetSingleInstanceTp

\* The lock is taken and the pool read.
LEMMA GetPoolEffect ==
  ASSUME TypeOK, NEW s \in Subscribers, NEW type \in Types, NEW from, NEW to, GetPool(s, type, from, to)
  PROVE  /\ proc = "running" /\ sub[s].pc = from /\ OnlyBy(s)
         /\ sub'[s].drawn = sub[s].drawn /\ sub'[s].alloc = sub[s].alloc
         /\ sub'[s].pool = etcd[GetPath(s, type)] /\ sub'[s].pc = to
         /\ Lock(s, type) \notin lock /\ lock' = lock \cup {Lock(s, type)}
         /\ UNCHANGED <<sc, etcd, proc, runs, tpInstances, deployed>>
<1>0. sub \in [Subscribers -> SubStates]
  BY DEF TypeOK
<1>1. PICK pool : pool = etcd[GetPath(s, type)]
  OBVIOUS
<1>2. sub' = [sub EXCEPT ![s].pool = pool, ![s].pc = to]
  BY <1>1 DEF GetPool
<1>3. /\ OnlyBy(s) /\ sub'[s].drawn = sub[s].drawn /\ sub'[s].alloc = sub[s].alloc
      /\ sub'[s].pool = pool /\ sub'[s].pc = to
  BY <1>0, <1>2 DEF OnlyBy, SubStates
<1> QED
  BY <1>1, <1>3 DEF GetPool, At

\* Subscriber s draws ids, and gets to know of it or not.
Draws(s, type, to, ids) ==
  /\ ids \cap sub[s].pool = {}
  /\ type = "alloc" => \A x, y \in ids : x = y
  /\ \/ /\ proc' = "running" /\ OnlyBy(s)
        /\ etcd' = [etcd EXCEPT ![GetPath(s, type)] = sub[s].pool \cup ids]
        /\ sub'[s].drawn = sub[s].drawn \cup ({GetPath(s, type)} \X ids)
        /\ sub'[s].alloc \in IF type = "alloc" THEN ids ELSE {sub[s].alloc}
        /\ sub'[s].pc = to
     \/ /\ proc' = "panicked" /\ sub' = sub
        /\ etcd' \in {etcd, [etcd EXCEPT ![GetPath(s, type)] = sub[s].pool \cup ids]}

\* Ids that are free in the pool that was read are set in etcd and known to the
\* subscriber, or the process panics.
LEMMA DrawEffect ==
  ASSUME TypeOK, NEW s \in Subscribers, NEW type \in Types, NEW from, NEW to, DrawIDs(s, type, from, to)
  PROVE  /\ proc = "running" /\ sub[s].pc = from
         /\ lock' = lock \ {Lock(s, type)}
         /\ UNCHANGED <<sc, runs, tpInstances, deployed>>
         /\ \E ids \in SUBSET Bits : Draws(s, type, to, ids)
<1> DEFINE path == GetPath(s, type)
           ids == GenerateNextIDs(sub[s].pool, NumIDs(type))
           allocs == IF type = "alloc" THEN ids ELSE {sub[s].alloc}
           new == [etcd EXCEPT ![path] = sub[s].pool \cup ids]
           rec(alloc) == [pc |-> to, alloc |-> alloc, drawn |-> sub[s].drawn \cup ({path} \X ids), pool |-> {}]
<1>0. sub \in [Subscribers -> SubStates] /\ sc \in Scenarios
  BY DEF TypeOK
<1>1. /\ proc = "running" /\ sub[s].pc = from
      /\ lock' = lock \ {Lock(s, type)}
      /\ UNCHANGED <<sc, runs, tpInstances, deployed>>
  BY Zenon DEF DrawIDs, At
<1>2. ids \in SUBSET Bits /\ ids \cap sub[s].pool = {}
  BY DrawnWereFree
<1>3. type = "alloc" => \A x, y \in ids : x = y
  <2> SUFFICES ASSUME type = "alloc" PROVE \A x, y \in ids : x = y
    OBVIOUS
  <2>1. ids = GenerateNextIDs(sub[s].pool, 1)
    BY DEF NumIDs
  <2> QED
    BY <1>0, <2>1, OneDraw, Zenon
<1>4. PICK answer \in sc.answers, alloc \in allocs :
        /\ etcd' = IF Applied(answer) THEN new ELSE etcd
        /\ \/ /\ answer = "ok"
              /\ sub' = [sub EXCEPT ![s] = rec(alloc)]
              /\ UNCHANGED proc
           \/ /\ answer # "ok"
              /\ proc' = "panicked"
              /\ UNCHANGED sub
  BY Zenon DEF DrawIDs
<1>5. answer = "ok" => Applied(answer)
  BY DEF Applied
<1>6. ASSUME sub' = [sub EXCEPT ![s] = rec(alloc)]
      PROVE  /\ OnlyBy(s)
             /\ sub'[s].drawn = sub[s].drawn \cup ({path} \X ids)
             /\ sub'[s].alloc \in allocs /\ sub'[s].pc = to
  <2>1. sub'[s] = rec(alloc) /\ OnlyBy(s)
    <3> HIDE DEF rec
    <3> QED
      BY <1>0, <1>6 DEF OnlyBy
  <2> HIDE DEF ids, path, allocs
  <2>2. /\ rec(alloc).drawn = sub[s].drawn \cup ({path} \X ids)
        /\ rec(alloc).alloc = alloc /\ rec(alloc).pc = to
    OBVIOUS
  <2> QED
    BY <1>4, <2>1, <2>2
<1> HIDE DEF ids, path, allocs, new, rec
<1>7. /\ \/ /\ proc' = "running" /\ OnlyBy(s)
            /\ etcd' = new
            /\ sub'[s].drawn = sub[s].drawn \cup ({path} \X ids)
            /\ sub'[s].alloc \in allocs
            /\ sub'[s].pc = to
         \/ proc' = "panicked" /\ sub' = sub /\ etcd' \in {etcd, new}
  BY <1>1, <1>4, <1>5, <1>6
<1> QED
  BY <1>1, <1>2, <1>3, <1>7, Zenon DEF ids, path, allocs, new, Draws

\* The instance can be found from now on.
LEMMA StoreEffect ==
  ASSUME TypeOK, NEW s \in Subscribers, StoreInstance(s)
  PROVE  /\ proc = "running" /\ sub[s].pc = "store" /\ OnlyBy(s)
         /\ sub'[s].drawn = sub[s].drawn /\ sub'[s].alloc = sub[s].alloc /\ sub'[s].pc = "persist"
         /\ tpInstances' = tpInstances \cup {s}
         /\ UNCHANGED <<sc, etcd, lock, proc, runs, deployed>>
<1>0. sub \in [Subscribers -> SubStates]
  BY DEF TypeOK
<1>1. sub' = [sub EXCEPT ![s].pc = "persist"]
  BY DEF StoreInstance
<1>2. /\ OnlyBy(s)
      /\ sub'[s].drawn = sub[s].drawn /\ sub'[s].alloc = sub[s].alloc /\ sub'[s].pc = "persist"
  BY <1>0, <1>1 DEF OnlyBy, SubStates
<1> QED
  BY <1>2 DEF StoreInstance, At

\* The instance is deployed, or its ids are about to be given back.
LEMMA AddEffect ==
  ASSUME TypeOK, NEW s \in Subscribers, AddResourceInstance(s)
  PROVE  /\ proc = "running" /\ sub[s].pc = "persist" /\ OnlyBy(s)
         /\ sub'[s].drawn = sub[s].drawn /\ sub'[s].alloc = sub[s].alloc
         /\ UNCHANGED <<sc, etcd, lock, proc, runs, tpInstances>>
         /\ \/ sub'[s].pc = "done" /\ deployed' = deployed \cup InstanceIds(s)
            \/ /\ sub'[s].pc = "free alloc" /\ deployed' = deployed
               /\ ~(sc.answers \subseteq {"ok"})
<1>0. sub \in [Subscribers -> SubStates]
  BY DEF TypeOK
<1>1. /\ proc = "running" /\ sub[s].pc = "persist"
      /\ UNCHANGED <<sc, etcd, lock, proc, runs, tpInstances>>
  BY DEF AddResourceInstance, At
<1>2. ASSUME NEW pc, sub' = [sub EXCEPT ![s].pc = pc]
      PROVE  /\ OnlyBy(s) /\ sub'[s].pc = pc
             /\ sub'[s].drawn = sub[s].drawn /\ sub'[s].alloc = sub[s].alloc
  BY <1>0, <1>2 DEF OnlyBy, SubStates
<1>3. \/ sub' = [sub EXCEPT ![s].pc = "done"] /\ deployed' = deployed \cup InstanceIds(s)
      \/ /\ sub' = [sub EXCEPT ![s].pc = "free alloc"] /\ deployed' = deployed
         /\ \E answer \in sc.answers : answer # "ok"
  BY Zenon DEF AddResourceInstance
<1>4. (\E answer \in sc.answers : answer # "ok") => ~(sc.answers \subseteq {"ok"})
  OBVIOUS
<1> QED
  BY <1>1, <1>2, <1>3, <1>4, Zenon

\* The ids of a type are given back, in etcd too unless that fails.
LEMMA FreeEffect ==
  ASSUME TypeOK, NEW s \in Subscribers, NEW type \in Types, NEW from, NEW to, FreeIDs(s, type, from, to)
  PROVE  /\ proc = "running" /\ sub[s].pc = from /\ OnlyBy(s)
         /\ sub'[s].drawn = {d \in sub[s].drawn : d[1] # GetPath(s, type)}
         /\ sub'[s].alloc = sub[s].alloc /\ sub'[s].pc = to
         /\ lock' = lock \ {Lock(s, type)}
         /\ etcd' \in {etcd, [etcd EXCEPT ![GetPath(s, type)] = sub[s].pool \ Released(s, type)]}
         /\ UNCHANGED <<sc, runs, tpInstances, deployed>>
<1>0. sub \in [Subscribers -> SubStates]
  BY DEF TypeOK
<1>1. PICK left : left = {d \in sub[s].drawn : d[1] # GetPath(s, type)}
  OBVIOUS
<1>2. sub' = [sub EXCEPT ![s].drawn = left, ![s].pool = {}, ![s].pc = to]
  BY <1>1, Zenon DEF FreeIDs
<1>3. /\ OnlyBy(s) /\ sub'[s].drawn = left
      /\ sub'[s].alloc = sub[s].alloc /\ sub'[s].pc = to
  BY <1>0, <1>2 DEF OnlyBy, SubStates
<1>4. /\ proc = "running" /\ sub[s].pc = from /\ lock' = lock \ {Lock(s, type)}
      /\ UNCHANGED <<sc, runs, tpInstances, deployed>>
  BY Zenon DEF FreeIDs, At
<1>5. etcd' \in {etcd, [etcd EXCEPT ![GetPath(s, type)] = sub[s].pool \ Released(s, type)]}
  BY Zenon DEF FreeIDs
<1> QED
  BY <1>1, <1>3, <1>4, <1>5, Zenon

\* The ids stay taken, and the subscriber goes on.
LEMMA FreeFailsEffect ==
  ASSUME TypeOK, NEW s \in Subscribers, NEW type \in Types, NEW from, NEW to, FreeFails(s, type, from, to)
  PROVE  /\ proc = "running" /\ sub[s].pc = from /\ OnlyBy(s)
         /\ sub'[s].drawn = sub[s].drawn /\ sub'[s].alloc = sub[s].alloc /\ sub'[s].pc = to
         /\ UNCHANGED <<sc, etcd, lock, runs, tpInstances, deployed>>
<1>0. sub \in [Subscribers -> SubStates]
  BY DEF TypeOK
<1>1. sub' = [sub EXCEPT ![s].pc = to]
  BY DEF FreeFails
<1>2. /\ OnlyBy(s) /\ sub'[s].drawn = sub[s].drawn /\ sub'[s].alloc = sub[s].alloc /\ sub'[s].pc = to
  BY <1>0, <1>1 DEF OnlyBy, SubStates
<1> QED
  BY <1>2 DEF FreeFails, At

\* A restart leaves the pools alone when they can be read.
LEMMA RestartEffect ==
  ASSUME TypeOK, Restart
  PROVE  /\ proc # "running" /\ runs' = runs + 1
         /\ PoolsKept => etcd' = etcd
         /\ sub' = [s \in Subscribers |-> NewSub] /\ tpInstances' = {}
         /\ UNCHANGED <<sc, deployed>>
<1>1. PICK read \in [Paths -> sc.initReads] :
        etcd' = [path \in Paths |-> InitResourceIDPool(path, read[path])]
  BY DEF Restart
<1>2. PoolsKept => etcd' = etcd
  <2> SUFFICES ASSUME PoolsKept PROVE etcd' = etcd
    OBVIOUS
  <2>1. \A path \in Paths : read[path] = "ok"
    BY DEF PoolsKept
  <2>2. \A path \in Paths : InitResourceIDPool(path, read[path]) = etcd[path]
    BY <2>1 DEF InitResourceIDPool
  <2> QED
    BY <1>1, <2>2 DEF TypeOK
<1> QED
  BY <1>2 DEF Restart

-----------------------------------------------------------------------------
(* Locks: reading, changing and writing a pool is one step. *)

\* A subscriber that is not in a critical section stays out of the way.
LEMMA LockQuiet ==
  ASSUME LocksHeld, ReadIsCurrent, NEW s \in Subscribers, OnlyBy(s), sc' = sc,
         proc = "running", lock' = lock, etcd' = etcd,
         \A type \in Types : sub'[s].pc \notin Critical(type)
  PROVE  LocksHeld' /\ ReadIsCurrent'
<1>1. /\ Subscribers' = Subscribers
      /\ \A t : Pon(t)' = Pon(t)
      /\ \A t, type : GetPath(t, type)' = GetPath(t, type) /\ Lock(t, type)' = Lock(t, type)
  BY ConfigStable
<1>2. LocksHeld'
  BY <1>1 DEF LocksHeld, OnlyBy
<1>3. ReadIsCurrent'
  BY <1>1 DEF ReadIsCurrent, OnlyBy
<1> QED
  BY <1>2, <1>3

\* A subscriber is in one critical section at most.
LEMMA OneCritical ==
  ASSUME NEW pc, NEW type \in Types, NEW other \in Types, pc \in Critical(type), pc \in Critical(other)
  PROVE  type = other
  BY DEF Critical, Types

\* A subscriber enters a critical section that nobody is in.
LEMMA LockEnter ==
  ASSUME LocksHeld, ReadIsCurrent, NEW s \in Subscribers, NEW type \in Types, OnlyBy(s), sc' = sc,
         proc = "running", Lock(s, type) \notin lock, lock' = lock \cup {Lock(s, type)}, etcd' = etcd,
         sub'[s].pool = etcd[GetPath(s, type)], sub'[s].pc \in Critical(type)
  PROVE  LocksHeld' /\ ReadIsCurrent'
<1>1. /\ Subscribers' = Subscribers
      /\ \A t : Pon(t)' = Pon(t)
      /\ \A t, ty : GetPath(t, ty)' = GetPath(t, ty) /\ Lock(t, ty)' = Lock(t, ty)
  BY ConfigStable
<1>2. \A ty \in Types : sub'[s].pc \in Critical(ty) => ty = type
  BY OneCritical
<1>3. \A t \in Subscribers : sub[t].pc \in Critical(type) => Pon(t) # Pon(s)
  BY DEF LocksHeld, Lock
<1>4. LocksHeld'
  BY <1>1, <1>2, <1>3 DEF LocksHeld, OnlyBy
<1>5. ReadIsCurrent'
  BY <1>1, <1>2 DEF ReadIsCurrent, OnlyBy
<1> QED
  BY <1>4, <1>5

\* A subscriber leaves its critical section, and may have changed the pool.
LEMMA LockLeave ==
  ASSUME PoolPerPon, LocksHeld, ReadIsCurrent, NEW s \in Subscribers, NEW type \in Types, OnlyBy(s), sc' = sc,
         proc = "running", lock' = lock \ {Lock(s, type)}, sub[s].pc \in Critical(type),
         etcd \in [Paths -> SUBSET Bits], NEW pool, etcd' \in {etcd, [etcd EXCEPT ![GetPath(s, type)] = pool]},
         \A ty \in Types : sub'[s].pc \notin Critical(ty)
  PROVE  LocksHeld' /\ ReadIsCurrent'
<1>1. /\ Subscribers' = Subscribers
      /\ \A t : Pon(t)' = Pon(t)
      /\ \A t, ty : GetPath(t, ty)' = GetPath(t, ty) /\ Lock(t, ty)' = Lock(t, ty)
  BY ConfigStable
<1>2. \A t \in Subscribers : t # s /\ sub[t].pc \in Critical(type) => Pon(t) # Pon(s)
  BY DEF LocksHeld
<1>3. \A t \in Subscribers, ty \in Types :
        t # s /\ sub[t].pc \in Critical(ty) => Lock(t, ty) # Lock(s, type) /\ GetPath(t, ty) # GetPath(s, type)
  <2> SUFFICES ASSUME NEW t \in Subscribers, NEW ty \in Types, t # s, sub[t].pc \in Critical(ty)
               PROVE  Lock(t, ty) # Lock(s, type) /\ GetPath(t, ty) # GetPath(s, type)
    OBVIOUS
  <2>1. CASE ty = type
    <3>1. Pon(t) # Pon(s)
      BY <1>2, <2>1
    <3>2. GetPath(t, type) # GetPath(s, type)
      BY <3>1 DEF PoolPerPon
    <3> QED
      BY <2>1, <3>1, <3>2 DEF Lock
  <2>2. CASE ty # type
    <3>1. GetPath(t, ty)[1] = ty /\ GetPath(s, type)[1] = type
      BY PathsAreTyped
    <3> QED
      BY <2>2, <3>1 DEF Lock
  <2> QED
    BY <2>1, <2>2
<1>4. LocksHeld'
  BY <1>1, <1>2, <1>3 DEF LocksHeld, OnlyBy
<1>5. \A t \in Subscribers, ty \in Types :
        t # s /\ sub[t].pc \in Critical(ty) => etcd'[GetPath(t, ty)] = etcd[GetPath(t, ty)]
  BY <1>3, PathsAreTyped
<1>6. ReadIsCurrent'
  BY <1>1, <1>5 DEF ReadIsCurrent, OnlyBy
<1> QED
  BY <1>4, <1>6

\* The lock part of the invariant is inductive.
LEMMA LockStep == LockInv /\ [Next]_vars => LockInv'
<1> SUFFICES ASSUME LockInv, [Next]_vars PROVE LockInv'
  OBVIOUS
<1>0. TypeOK /\ PoolPerPon /\ LocksHeld /\ ReadIsCurrent /\ etcd \in [Paths -> SUBSET Bits]
  BY SMTT(40) DEF LockInv, TypeOK
<1>1. TypeOK' /\ sc' = sc
  BY <1>0, TypeStep, ZenonT(60)
     DEF Next, CreateTechProfileInstance, GetSingleInstanceTp, GetPool, GetPoolFails, Panic, DrawIDs,
         PoolExhausted, StoreInstance, AddResourceInstance, FreeIDs, FreeFails, Restart, Ended, vars
<1>2. PoolPerPon'
  <2>1. /\ Subscribers' = Subscribers
        /\ \A s : Pon(s)' = Pon(s)
        /\ \A s, type : GetPath(s, type)' = GetPath(s, type)
    BY <1>1, ConfigStable
  <2> QED
    BY <1>0, <2>1 DEF PoolPerPon
<1>3. ASSUME NEW s \in Subscribers, GetSingleInstanceTp(s)
      PROVE  LocksHeld' /\ ReadIsCurrent'
  BY <1>0, <1>3, GetSingleEffect, LockQuiet DEF Critical
<1>4. ASSUME NEW s \in Subscribers, NEW type \in Types, NEW from, NEW to \in Critical(type),
             GetPool(s, type, from, to)
      PROVE  LocksHeld' /\ ReadIsCurrent'
  BY <1>0, <1>4, GetPoolEffect, LockEnter
<1>5. ASSUME proc' # "running"
      PROVE  LocksHeld' /\ ReadIsCurrent'
  BY <1>5 DEF LocksHeld, ReadIsCurrent
<1>6. ASSUME NEW s \in Subscribers, NEW type \in Types, NEW from \in Critical(type), NEW to,
             \A ty \in Types : to \notin Critical(ty),
             DrawIDs(s, type, from, to)
      PROVE  LocksHeld' /\ ReadIsCurrent'
  <2>1. PICK ids \in SUBSET Bits : Draws(s, type, to, ids)
    BY <1>0, <1>6, DrawEffect, Zenon
  <2>2. /\ proc = "running" /\ sub[s].pc = from
        /\ lock' = lock \ {Lock(s, type)}
    BY <1>0, <1>6, DrawEffect, Zenon
  <2>3. CASE proc' = "panicked"
    BY <1>5, <2>3
  <2>4. CASE proc' # "panicked"
    BY <1>0, <1>1, <1>6, <2>1, <2>2, <2>4, LockLeave DEF Draws
  <2> QED
    BY <2>3, <2>4
<1>7. ASSUME NEW s \in Subscribers, StoreInstance(s)
      PROVE  LocksHeld' /\ ReadIsCurrent'
  BY <1>0, <1>7, StoreEffect, LockQuiet DEF Critical
<1>8. ASSUME NEW s \in Subscribers, AddResourceInstance(s)
      PROVE  LocksHeld' /\ ReadIsCurrent'
  BY <1>0, <1>8, AddEffect, LockQuiet DEF Critical
<1>9. ASSUME NEW s \in Subscribers, NEW type \in Types, NEW from \in Critical(type), NEW to,
             \A ty \in Types : to \notin Critical(ty),
             FreeIDs(s, type, from, to)
      PROVE  LocksHeld' /\ ReadIsCurrent'
  BY <1>0, <1>9, FreeEffect, LockLeave
<1>10. ASSUME NEW s \in Subscribers, NEW type \in Types, NEW from, NEW to,
              \A ty \in Types : to \notin Critical(ty),
              FreeFails(s, type, from, to)
      PROVE  LocksHeld' /\ ReadIsCurrent'
  BY <1>0, <1>10, FreeFailsEffect, LockQuiet
<1>11. ASSUME Restart
       PROVE  LocksHeld' /\ ReadIsCurrent'
  <2>1. /\ Subscribers' = Subscribers
        /\ sub' = [s \in Subscribers |-> NewSub]
    BY <1>0, <1>1, <1>11, ConfigStable, RestartEffect
  <2>2. \A s \in Subscribers, type \in Types : sub'[s].pc \notin Critical(type)
    BY <2>1 DEF NewSub, Critical
  <2> QED
    BY <2>1, <2>2 DEF LocksHeld, ReadIsCurrent
<1>12. ASSUME UNCHANGED vars
       PROVE  LocksHeld' /\ ReadIsCurrent'
  <2>1. /\ Subscribers' = Subscribers
        /\ \A t : Pon(t)' = Pon(t)
        /\ \A t, ty : GetPath(t, ty)' = GetPath(t, ty) /\ Lock(t, ty)' = Lock(t, ty)
    BY <1>1, ConfigStable
  <2> QED
    BY <1>0, <1>12, <2>1 DEF LocksHeld, ReadIsCurrent, vars
<1>13. CASE \E s \in Subscribers : CreateTechProfileInstance(s)
  <2>1. PICK s \in Subscribers : CreateTechProfileInstance(s)
    BY <1>13
  <2>2. /\ {"draw alloc", "release alloc"} \subseteq Critical("alloc")
        /\ {"draw gem", "release gem"} \subseteq Critical("gem")
        /\ \A ty \in Types, pc \in {"gem", "store", "free gem", "fatal"} : pc \notin Critical(ty)
        /\ "alloc" \in Types /\ "gem" \in Types
    BY DEF Critical, Types
  <2>3. Panic(s) => proc' # "running"
    BY DEF Panic
  <2> QED
    <3>1. \/ GetPool(s, "alloc", "alloc", "draw alloc") \/ GetPool(s, "gem", "gem", "draw gem")
          \/ GetPool(s, "alloc", "free alloc", "release alloc") \/ GetPool(s, "gem", "free gem", "release gem")
          => LocksHeld' /\ ReadIsCurrent'
      BY <2>2, <1>4
    <3>2. \/ GetPoolFails(s, "alloc", "alloc") \/ PoolExhausted(s, "alloc", "draw alloc")
          \/ GetPoolFails(s, "gem", "gem") \/ PoolExhausted(s, "gem", "draw gem")
          => LocksHeld' /\ ReadIsCurrent'
      BY <2>3, <1>5 DEF GetPoolFails, PoolExhausted
    <3>3. \/ DrawIDs(s, "alloc", "draw alloc", "gem") \/ DrawIDs(s, "gem", "draw gem", "store")
          => LocksHeld' /\ ReadIsCurrent'
      BY <2>2, <1>6
    <3>4. \/ FreeIDs(s, "alloc", "release alloc", "free gem") \/ FreeIDs(s, "gem", "release gem", "fatal")
          => LocksHeld' /\ ReadIsCurrent'
      BY <2>2, <1>9
    <3>5. \/ FreeFails(s, "alloc", "free alloc", "free gem") \/ FreeFails(s, "gem", "free gem", "fatal")
          => LocksHeld' /\ ReadIsCurrent'
      BY <2>2, <1>10
    <3> QED
      BY <2>1, <1>1, <1>2, <1>3, <1>7, <1>8, <3>1, <3>2, <3>3, <3>4, <3>5, Zenon
         DEF CreateTechProfileInstance, LockInv
<1> QED
  BY <1>1, <1>2, <1>11, <1>12, <1>13 DEF Next, Ended, LockInv

\* The initial state satisfies the lock part of the invariant.
LEMMA LockInit == Init /\ PoolPerPon => LockInv
<1> SUFFICES ASSUME Init, PoolPerPon PROVE LockInv
  OBVIOUS
<1>1. \A s \in Subscribers, type \in Types : sub[s].pc \notin Critical(type)
  BY DEF Init, NewSub, Critical
<1> QED
  BY <1>1, TypeInit DEF LockInv, LocksHeld, ReadIsCurrent

\* When no pool is shared between PONs, the pool a manager is about to write is
\* the pool in etcd with its own change, whatever etcd answers, whatever the
\* profile and however often the process is started again.
THEOREM ReadsAreCurrent == Spec /\ PoolPerPon => []ReadIsCurrent
<1>1. Spec /\ PoolPerPon => []LockInv
  BY LockInit, LockStep, PTL DEF Spec
<1>2. LockInv => ReadIsCurrent
  BY DEF LockInv
<1> QED
  BY <1>1, <1>2, PTL

-----------------------------------------------------------------------------
(* Ids: from the pool to the agent. *)

\* A step that neither draws nor gives back nor deploys.
LEMMA QuietKeeps ==
  ASSUME TypeOK, DrawnIsTaken, DeployedIsTaken, DeployedIdsUnique,
         NEW s \in Subscribers, OnlyBy(s), sub'[s].drawn = sub[s].drawn, sub[s].pc # "done",
         UNCHANGED <<sc, etcd, runs, deployed>>
  PROVE  DrawnIsTaken' /\ DeployedIsTaken' /\ DeployedIdsUnique'
<1>1. /\ Subscribers' = Subscribers
      /\ \A t : Onu(t)' = Onu(t)
  BY ConfigStable
<1>2. \A t \in Subscribers : sub'[t].drawn = sub[t].drawn
  BY DEF OnlyBy
<1>3. DrawnIsTaken'
  BY <1>1, <1>2 DEF DrawnIsTaken
<1>4. \A d \in deployed : d.owner \in Subscribers /\ (sub[d.owner].pc = "done" => sub'[d.owner].pc = "done")
  BY DEF OnlyBy, TypeOK
<1>5. DeployedIsTaken'
  <2> SUFFICES ASSUME NEW d \in deployed
               PROVE  /\ d.idx \in etcd[d.path]
                      /\ \A t \in Subscribers : <<d.path, d.idx>> \in sub[t].drawn =>
                           /\ d.run = runs /\ sub'[d.owner].pc = "done"
                           /\ \/ d.owner = t
                              \/ d.path[1] = "alloc" /\ sc.onuInstance = "single-instance" /\ Onu(d.owner) = Onu(t)
    BY <1>1, <1>2 DEF DeployedIsTaken
  <2> QED
    BY <1>4 DEF DeployedIsTaken
<1>6. DeployedIdsUnique'
  BY <1>1 DEF DeployedIdsUnique, ShareTcont
<1> QED
  BY <1>3, <1>5, <1>6

\* A step of a subscriber that keeps what it has drawn and its alloc id.
LEMMA AllocKept ==
  ASSUME AllocIsDrawn, NEW s \in Subscribers, OnlyBy(s), sc' = sc,
         sub'[s].drawn = sub[s].drawn, sub'[s].alloc = sub[s].alloc,
         sub'[s].pc \in WithoutAlloc => sub[s].pc \in WithoutAlloc,
         sub'[s].pc \in WithAlloc => sub[s].pc \in WithAlloc
  PROVE  AllocIsDrawn'
<1>1. /\ Subscribers' = Subscribers
      /\ \A t : Onu(t)' = Onu(t)
      /\ \A t, type : GetPath(t, type)' = GetPath(t, type)
  BY ConfigStable
<1>2. \A t \in Subscribers :
        /\ sub'[t].drawn = sub[t].drawn /\ sub'[t].alloc = sub[t].alloc
        /\ sub'[t].pc \in WithoutAlloc => sub[t].pc \in WithoutAlloc
        /\ sub'[t].pc \in WithAlloc => sub[t].pc \in WithAlloc
  BY DEF OnlyBy
<1>3. \A t, u \in Subscribers : DrewAllocOf(t, u) => DrewAllocOf(t, u)'
  BY <1>1, <1>2 DEF DrewAllocOf
<1> QED
  BY <1>1, <1>2, <1>3 DEF AllocIsDrawn

\* What is drawn was free, so nobody holds it and nobody has deployed it.
LEMMA DrawKeeps ==
  ASSUME TypeOK, DrawnIsTaken, DeployedIsTaken, DeployedIdsUnique,
         NEW s \in Subscribers, NEW type \in Types, NEW to, NEW ids \in SUBSET Bits, Draws(s, type, to, ids),
         sub[s].pool = etcd[GetPath(s, type)], sub[s].pc # "done", UNCHANGED <<sc, runs, deployed>>
  PROVE  DrawnIsTaken' /\ DeployedIsTaken' /\ DeployedIdsUnique'
<1>1. /\ Subscribers' = Subscribers
      /\ \A t : Onu(t)' = Onu(t)
  BY ConfigStable
<1>2. PICK path \in Paths : path = GetPath(s, type)
  BY PathsAreTyped
<1>3. /\ ids \cap etcd[path] = {}
      /\ etcd \in [Paths -> SUBSET Bits]
      /\ \A t \in Subscribers : \A id \in sub[t].drawn : id = <<id[1], id[2]>> /\ id[1] \in Paths
  BY <1>2 DEF Draws, TypeOK, SubStates
<1>4. \A p \in Paths : etcd[p] \subseteq etcd'[p]
  BY <1>2, <1>3 DEF Draws
<1>5. OnlyBy(s)
  BY DEF Draws, OnlyBy
<1>6. \A id \in sub'[s].drawn :
        \/ id \in sub[s].drawn
        \/ id = <<id[1], id[2]>> /\ id[1] = path /\ id[2] \in ids /\ id[2] \in etcd'[path]
  <2>1. CASE sub' = sub
    BY <2>1
  <2>2. CASE /\ etcd' = [etcd EXCEPT ![path] = sub[s].pool \cup ids]
             /\ sub'[s].drawn = sub[s].drawn \cup ({path} \X ids)
    BY <1>2, <1>3, <2>2
  <2> QED
    BY <1>2, <2>1, <2>2 DEF Draws
<1>7. DrawnIsTaken'
  <2> SUFFICES ASSUME NEW t \in Subscribers, NEW id \in sub'[t].drawn
               PROVE  /\ id[2] \in etcd'[id[1]]
                      /\ \A u \in Subscribers : id \in sub'[u].drawn => u = t
    BY <1>1 DEF DrawnIsTaken
  <2>1. CASE id \in sub[t].drawn
    <3>1. id[2] \in etcd[id[1]] /\ id[1] \in Paths
      BY <1>3, <2>1 DEF DrawnIsTaken
    <3>2. id[2] \in etcd'[id[1]]
      BY <1>4, <3>1
    <3>3. ~(id[1] = path /\ id[2] \in ids)
      BY <1>3, <3>1
    <3> QED
      BY <1>5, <1>6, <2>1, <3>2, <3>3 DEF DrawnIsTaken, OnlyBy
  <2>2. CASE id \notin sub[t].drawn
    <3>1. t = s /\ id[1] = path /\ id[2] \in ids /\ id[2] \in etcd'[path]
      BY <1>5, <1>6, <2>2 DEF OnlyBy
    <3>2. \A u \in Subscribers : id \notin sub[u].drawn
      BY <1>3, <3>1 DEF DrawnIsTaken
    <3> QED
      BY <1>5, <3>1, <3>2 DEF OnlyBy
  <2> QED
    BY <2>1, <2>2
<1>8. DeployedIsTaken'
  <2> SUFFICES ASSUME NEW d \in deployed
               PROVE  /\ d.idx \in etcd'[d.path]
                      /\ \A t \in Subscribers : <<d.path, d.idx>> \in sub'[t].drawn =>
                           /\ d.run = runs /\ sub'[d.owner].pc = "done"
                           /\ \/ d.owner = t
                              \/ d.path[1] = "alloc" /\ sc.onuInstance = "single-instance" /\ Onu(d.owner) = Onu(t)
    BY <1>1 DEF DeployedIsTaken
  <2>1. d.idx \in etcd[d.path] /\ d.path \in Paths /\ d.owner \in Subscribers
    <3>1. d.path \in Paths /\ d.owner \in Subscribers
      BY DEF TypeOK
    <3> QED
      BY <3>1 DEF DeployedIsTaken
  <2>2. d.idx \in etcd'[d.path]
    BY <1>4, <2>1
  <2>3. \A t \in Subscribers : <<d.path, d.idx>> \in sub'[t].drawn => <<d.path, d.idx>> \in sub[t].drawn
    BY <1>3, <1>5, <1>6, <2>1 DEF OnlyBy
  <2>4. sub[d.owner].pc = "done" => sub'[d.owner].pc = "done"
    BY <1>5, <2>1 DEF OnlyBy
  <2> QED
    BY <2>2, <2>3, <2>4 DEF DeployedIsTaken
<1>9. DeployedIdsUnique'
  BY <1>1 DEF DeployedIdsUnique, ShareTcont
<1> QED
  BY <1>7, <1>8, <1>9

\* After the alloc id, the subscriber has it; GEM ports do not change that.
LEMMA DrawAlloc ==
  ASSUME TypeOK, AllocIsDrawn, sc' = sc, NEW s \in Subscribers, NEW ids \in SUBSET Bits,
         \/ sub[s].pc = "draw alloc" /\ Draws(s, "alloc", "gem", ids)
         \/ sub[s].pc = "draw gem" /\ Draws(s, "gem", "store", ids)
  PROVE  AllocIsDrawn'
<1>1. /\ Subscribers' = Subscribers
      /\ \A t : Onu(t)' = Onu(t)
      /\ \A t, type : GetPath(t, type)' = GetPath(t, type)
  BY ConfigStable
<1>2. CASE sub' = sub
  <2>1. \A t, u \in Subscribers : DrewAllocOf(t, u) => DrewAllocOf(t, u)'
    BY <1>1, <1>2 DEF DrewAllocOf
  <2> QED
    BY <1>1, <1>2, <2>1 DEF AllocIsDrawn
<1>3. CASE sub' # sub
  <2>1. OnlyBy(s)
    BY <1>3 DEF Draws
  <2>2. \A t \in Subscribers : sub[t].drawn \subseteq sub'[t].drawn
    BY <1>3, <2>1 DEF Draws, OnlyBy
  <2>3. \A t \in Subscribers, u \in Subscribers \ {s} : DrewAllocOf(t, u) => DrewAllocOf(t, u)'
    BY <1>1, <2>1, <2>2 DEF DrewAllocOf, OnlyBy
  <2>4. /\ sub'[s].pc \in {"gem", "store"}
        /\ \E t \in Subscribers : DrewAllocOf(t, s)'
        /\ \A id \in sub'[s].drawn : id[1] = GetPath(s, "alloc") => id[2] = sub'[s].alloc
    <3>1. CASE sub[s].pc = "draw alloc" /\ Draws(s, "alloc", "gem", ids)
      <4>1. sub[s].drawn = {}
        BY <3>1 DEF AllocIsDrawn, WithoutAlloc
      <4>2. /\ sub'[s].drawn = {GetPath(s, "alloc")} \X ids /\ sub'[s].alloc \in ids
            /\ \A x, y \in ids : x = y
            /\ sub'[s].pc = "gem"
        BY <1>3, <3>1, <4>1 DEF Draws
      <4>3. DrewAllocOf(s, s)'
        BY <1>1, <4>2 DEF DrewAllocOf
      <4> QED
        BY <4>2, <4>3
    <3>2. CASE sub[s].pc = "draw gem" /\ Draws(s, "gem", "store", ids)
      <4>1. /\ \E t \in Subscribers : DrewAllocOf(t, s)
            /\ \A id \in sub[s].drawn : id[1] = GetPath(s, "alloc") => id[2] = sub[s].alloc
        BY <3>2 DEF AllocIsDrawn, WithAlloc
      <4>2. /\ sub'[s].drawn = sub[s].drawn \cup ({GetPath(s, "gem")} \X ids)
            /\ sub'[s].alloc = sub[s].alloc
            /\ sub'[s].pc = "store"
        BY <1>3, <3>2 DEF Draws
      <4>3. GetPath(s, "gem") # GetPath(s, "alloc")
        BY DEF GetPath
      <4>4. \A t \in Subscribers : DrewAllocOf(t, s) => DrewAllocOf(t, s)'
        BY <1>1, <2>2, <4>2 DEF DrewAllocOf
      <4> QED
        BY <4>1, <4>2, <4>3, <4>4
    <3> QED
      BY <3>1, <3>2
  <2>5. sub'[s].pc \notin WithoutAlloc
    BY <2>4 DEF WithoutAlloc
  <2> QED
    <3> SUFFICES ASSUME NEW u \in Subscribers
                 PROVE  /\ sub'[u].pc \in WithoutAlloc => sub'[u].drawn = {}
                        /\ sub'[u].pc \in WithAlloc =>
                             /\ \E t \in Subscribers : DrewAllocOf(t, u)'
                             /\ \A id \in sub'[u].drawn : id[1] = GetPath(u, "alloc") => id[2] = sub'[u].alloc
      BY <1>1 DEF AllocIsDrawn
    <3>1. CASE u = s
      BY <2>4, <2>5, <3>1
    <3>2. CASE u # s
      <4>1. sub'[u] = sub[u]
        BY <2>1, <3>2 DEF OnlyBy
      <4> QED
        BY <2>3, <3>2, <4>1 DEF AllocIsDrawn
    <3> QED
      BY <3>1, <3>2
<1> QED
  BY <1>2, <1>3

\* With an alloc id of its own, a subscriber gives back only what it has drawn.
LEMMA ReleasedWasDrawn ==
  ASSUME AllocIsDrawn, sc.onuInstance = "multi-instance", NEW s \in Subscribers, NEW type \in Types,
         type = "alloc" => sub[s].pc = "release alloc",
         NEW x \in Released(s, type)
  PROVE  <<GetPath(s, type), x>> \in sub[s].drawn
<1>1. CASE type = "alloc"
  <2>1. x = sub[s].alloc
    BY <1>1 DEF Released
  <2>2. \E t \in Subscribers : DrewAllocOf(t, s)
    BY <1>1 DEF AllocIsDrawn, WithAlloc
  <2> QED
    BY <1>1, <2>1, <2>2 DEF DrewAllocOf
<1>2. CASE type # "alloc"
  BY <1>2 DEF Released, Gems, Types
<1> QED
  BY <1>1, <1>2

\* What is given back was held by nobody else and has not been deployed.
LEMMA FreeKeeps ==
  ASSUME TypeOK, DrawnIsTaken, DeployedIsTaken, DeployedIdsUnique, sc.onuInstance = "multi-instance",
         NEW s \in Subscribers, NEW path \in Paths, NEW rel, \A x \in rel : <<path, x>> \in sub[s].drawn,
         OnlyBy(s), sub'[s].drawn = {d \in sub[s].drawn : d[1] # path},
         etcd' \in {etcd, [etcd EXCEPT ![path] = sub[s].pool \ rel]},
         sub[s].pool = etcd[path], sub[s].pc # "done", UNCHANGED <<sc, runs, deployed>>
  PROVE  DrawnIsTaken' /\ DeployedIsTaken' /\ DeployedIdsUnique'
<1>1. /\ Subscribers' = Subscribers
      /\ \A t : Onu(t)' = Onu(t)
  BY ConfigStable
<1>2. /\ etcd \in [Paths -> SUBSET Bits]
      /\ \A t \in Subscribers : \A id \in sub[t].drawn : id = <<id[1], id[2]>> /\ id[1] \in Paths
  BY DEF TypeOK, SubStates
<1>3. \A t \in Subscribers : sub'[t].drawn \subseteq sub[t].drawn
  BY DEF OnlyBy
<1>4. \A p \in Paths : \A x \in etcd[p] : x \in etcd'[p] \/ (p = path /\ x \in rel)
  BY <1>2
<1>5. DrawnIsTaken'
  <2> SUFFICES ASSUME NEW t \in Subscribers, NEW id \in sub'[t].drawn
               PROVE  /\ id[2] \in etcd'[id[1]]
                      /\ \A u \in Subscribers : id \in sub'[u].drawn => u = t
    BY <1>1 DEF DrawnIsTaken
  <2>1. id \in sub[t].drawn /\ id = <<id[1], id[2]>> /\ id[1] \in Paths /\ id[2] \in etcd[id[1]]
    BY <1>2, <1>3 DEF DrawnIsTaken
  <2>2. \A u \in Subscribers : id \in sub'[u].drawn => u = t
    BY <1>3, <2>1 DEF DrawnIsTaken
  <2>3. ASSUME id[1] = path, id[2] \in rel PROVE FALSE
    <3>1. id \in sub[s].drawn
      BY <2>1, <2>3
    <3>2. t = s
      BY <2>1, <3>1 DEF DrawnIsTaken
    <3> QED
      BY <2>3, <3>2
  <2> QED
    BY <1>4, <2>1, <2>2, <2>3
<1>6. DeployedIsTaken'
  <2> SUFFICES ASSUME NEW d \in deployed
               PROVE  /\ d.idx \in etcd'[d.path]
                      /\ \A t \in Subscribers : <<d.path, d.idx>> \in sub'[t].drawn =>
                           /\ d.run = runs /\ sub'[d.owner].pc = "done"
                           /\ \/ d.owner = t
                              \/ d.path[1] = "alloc" /\ sc.onuInstance = "single-instance" /\ Onu(d.owner) = Onu(t)
    BY <1>1 DEF DeployedIsTaken
  <2>1. d.path \in Paths /\ d.owner \in Subscribers
    BY DEF TypeOK
  <2>2. d.idx \in etcd[d.path]
    BY DEF DeployedIsTaken
  <2>3. <<d.path, d.idx>> \notin sub[s].drawn
    BY DEF DeployedIsTaken
  <2>4. d.idx \in etcd'[d.path]
    BY <1>4, <2>1, <2>2, <2>3
  <2>5. sub[d.owner].pc = "done" => sub'[d.owner].pc = "done"
    BY <2>1 DEF OnlyBy
  <2> QED
    BY <1>3, <2>4, <2>5 DEF DeployedIsTaken
<1>7. DeployedIdsUnique'
  BY <1>1 DEF DeployedIdsUnique, ShareTcont
<1> QED
  BY <1>5, <1>6, <1>7

\* The alloc ids of the others are their own.
LEMMA FreeAlloc ==
  ASSUME AllocIsDrawn, sc' = sc, sc.onuInstance = "multi-instance", NEW s \in Subscribers, OnlyBy(s),
         sub'[s].pc \in {"free gem", "fatal"}
  PROVE  AllocIsDrawn'
<1>1. /\ Subscribers' = Subscribers
      /\ \A t : Onu(t)' = Onu(t)
      /\ \A t, type : GetPath(t, type)' = GetPath(t, type)
  BY ConfigStable
<1> SUFFICES ASSUME NEW u \in Subscribers
             PROVE  /\ sub'[u].pc \in WithoutAlloc => sub'[u].drawn = {}
                    /\ sub'[u].pc \in WithAlloc =>
                         /\ \E t \in Subscribers : DrewAllocOf(t, u)'
                         /\ \A id \in sub'[u].drawn : id[1] = GetPath(u, "alloc") => id[2] = sub'[u].alloc
  BY <1>1 DEF AllocIsDrawn
<1>2. CASE u = s
  BY <1>2 DEF WithoutAlloc, WithAlloc
<1>3. CASE u # s
  <2>1. sub'[u] = sub[u]
    BY <1>3 DEF OnlyBy
  <2>2. \A t \in Subscribers : DrewAllocOf(t, u) => DrewAllocOf(u, u)'
    BY <1>1, <2>1 DEF DrewAllocOf
  <2> QED
    BY <2>1, <2>2 DEF AllocIsDrawn
<1> QED
  BY <1>2, <1>3

\* The ids of an instance have been drawn by its subscriber or, an alloc id that
\* the profile shares, by another of the ONU.
LEMMA InstanceIsDrawn ==
  ASSUME AllocIsDrawn, NEW s \in Subscribers, sub[s].pc = "persist", NEW d \in InstanceIds(s)
  PROVE  /\ d = [run |-> runs, owner |-> s, path |-> d.path, idx |-> d.idx]
         /\ d.run = runs /\ d.owner = s
         /\ \E t \in Subscribers :
              /\ <<d.path, d.idx>> \in sub[t].drawn
              /\ t = s \/ (d.path[1] = "alloc" /\ sc.onuInstance = "single-instance" /\ Onu(t) = Onu(s))
<1>1. GetPath(s, "alloc")[1] = "alloc"
  BY PathsAreTyped DEF Types
<1>2. \E t \in Subscribers : DrewAllocOf(t, s)
  BY DEF AllocIsDrawn, WithAlloc
<1>3. CASE d = [run |-> runs, owner |-> s, path |-> GetPath(s, "alloc"), idx |-> sub[s].alloc]
  BY <1>1, <1>2, <1>3 DEF DrewAllocOf
<1>4. ASSUME NEW x \in Gems(s), d = [run |-> runs, owner |-> s, path |-> GetPath(s, "gem"), idx |-> x]
      PROVE  /\ d = [run |-> runs, owner |-> s, path |-> d.path, idx |-> d.idx]
             /\ d.run = runs /\ d.owner = s
             /\ <<d.path, d.idx>> \in sub[s].drawn
  BY <1>4 DEF Gems
<1> QED
  BY <1>3, <1>4 DEF InstanceIds

\* An instance goes to the agent: nobody but those it shares an alloc id with has
\* deployed its ids.
LEMMA DeployKeeps ==
  ASSUME TypeOK, DrawnIsTaken, AllocIsDrawn, DeployedIsTaken, DeployedIdsUnique,
         NEW s \in Subscribers, sub[s].pc = "persist", sub'[s].pc = "done", OnlyBy(s),
         sub'[s].drawn = sub[s].drawn,
         deployed' = deployed \cup InstanceIds(s), UNCHANGED <<sc, etcd, runs>>
  PROVE  DeployedIsTaken' /\ DeployedIdsUnique'
<1>1. /\ Subscribers' = Subscribers
      /\ \A t : Onu(t)' = Onu(t)
  BY ConfigStable
<1>2. \A t \in Subscribers : sub'[t].drawn = sub[t].drawn
  BY DEF OnlyBy
<1>3. \A d \in deployed : d.owner \in Subscribers /\ (sub[d.owner].pc = "done" => sub'[d.owner].pc = "done")
  BY DEF OnlyBy, TypeOK
<1>4. DeployedIsTaken'
  <2> SUFFICES ASSUME NEW d \in deployed \cup InstanceIds(s)
               PROVE  /\ d.idx \in etcd[d.path]
                      /\ \A t \in Subscribers : <<d.path, d.idx>> \in sub[t].drawn =>
                           /\ d.run = runs /\ sub'[d.owner].pc = "done"
                           /\ \/ d.owner = t
                              \/ d.path[1] = "alloc" /\ sc.onuInstance = "single-instance" /\ Onu(d.owner) = Onu(t)
    BY <1>1, <1>2 DEF DeployedIsTaken
  <2>1. CASE d \in deployed
    BY <1>3, <2>1 DEF DeployedIsTaken
  <2>2. CASE d \in InstanceIds(s)
    <3>1. PICK t \in Subscribers :
            /\ <<d.path, d.idx>> \in sub[t].drawn
            /\ t = s \/ (d.path[1] = "alloc" /\ sc.onuInstance = "single-instance" /\ Onu(t) = Onu(s))
      BY <2>2, InstanceIsDrawn
    <3>2. d.run = runs /\ d.owner = s
      BY <2>2, InstanceIsDrawn
    <3>a. PICK id : id = <<d.path, d.idx>>
      OBVIOUS
    <3>3. id = <<d.path, d.idx>> /\ id[1] = d.path /\ id[2] = d.idx
      BY <3>a
    <3>4. /\ d.idx \in etcd[d.path]
          /\ \A u \in Subscribers : id \in sub[u].drawn => u = t
      BY <3>1, <3>3 DEF DrawnIsTaken
    <3> QED
      BY <3>1, <3>2, <3>3, <3>4
  <2> QED
    BY <2>1, <2>2
<1>5. \A d \in InstanceIds(s), e \in deployed :
        (d.path = e.path /\ d.idx = e.idx) => ShareTcont(d, e) /\ ShareTcont(e, d)
  <2> SUFFICES ASSUME NEW d \in InstanceIds(s), NEW e \in deployed, d.path = e.path, d.idx = e.idx
               PROVE  ShareTcont(d, e) /\ ShareTcont(e, d)
    OBVIOUS
  <2>1. PICK t \in Subscribers :
          /\ <<d.path, d.idx>> \in sub[t].drawn
          /\ t = s \/ (d.path[1] = "alloc" /\ sc.onuInstance = "single-instance" /\ Onu(t) = Onu(s))
    BY InstanceIsDrawn
  <2>2. d.run = runs /\ d.owner = s
    BY InstanceIsDrawn
  <2>3. /\ e.run = runs /\ sub[e.owner].pc = "done"
        /\ \/ e.owner = t
           \/ e.path[1] = "alloc" /\ sc.onuInstance = "single-instance" /\ Onu(e.owner) = Onu(t)
    BY <2>1 DEF DeployedIsTaken
  <2>4. e.owner # s
    BY <2>3
  <2> QED
    BY <2>1, <2>2, <2>3, <2>4 DEF ShareTcont
<1>6. \A d, e \in InstanceIds(s) : (d.path = e.path /\ d.idx = e.idx) => d = e
  <2> SUFFICES ASSUME NEW d \in InstanceIds(s), NEW e \in InstanceIds(s), d.path = e.path, d.idx = e.idx
               PROVE  d = e
    OBVIOUS
  <2>1. PICK path, idx : path = d.path /\ idx = d.idx
    OBVIOUS
  <2>2. /\ d = [run |-> runs, owner |-> s, path |-> path, idx |-> idx]
        /\ e = [run |-> runs, owner |-> s, path |-> path, idx |-> idx]
    BY <2>1, InstanceIsDrawn, ZenonT(60)
  <2> QED
    BY <2>2
<1>7. DeployedIdsUnique'
  <2> SUFFICES ASSUME NEW d \in deployed \cup InstanceIds(s), NEW e \in deployed \cup InstanceIds(s),
                      d.path = e.path, d.idx = e.idx
               PROVE  d = e \/ ShareTcont(d, e)
    BY <1>1 DEF DeployedIdsUnique, ShareTcont
  <2> QED
    BY <1>5, <1>6 DEF DeployedIdsUnique
<1> QED
  BY <1>4, <1>7

\* getSingleInstanceTp finds an alloc id that a subscriber of the ONU has drawn.
LEMMA GetSingleAlloc ==
  ASSUME TypeOK, AllocIsDrawn, StoredHasAlloc, NEW s \in Subscribers, GetSingleInstanceTp(s)
  PROVE  AllocIsDrawn'
<1>1. /\ Subscribers' = Subscribers
      /\ \A t : Onu(t)' = Onu(t)
      /\ \A t, type : GetPath(t, type)' = GetPath(t, type)
  BY GetSingleEffect, ConfigStable
<1>2. OnlyBy(s) /\ sub[s].drawn = {} /\ sub'[s].drawn = {} /\ sub[s].pc \notin WithAlloc
  BY GetSingleEffect DEF AllocIsDrawn, WithoutAlloc, WithAlloc
<1>3. sub'[s].pc \in WithAlloc => \E t \in Subscribers : DrewAllocOf(t, s)'
  <2> SUFFICES ASSUME sub'[s].pc \in WithAlloc
               PROVE  \E t \in Subscribers : DrewAllocOf(t, s)'
    OBVIOUS
  <2>1. PICK u \in tpInstances : /\ sc.onuInstance = "single-instance" /\ Onu(u) = Onu(s)
                                 /\ sub'[s].alloc = sub[u].alloc
    BY GetSingleEffect DEF WithAlloc
  <2>2. u \in Subscribers /\ u # s
    <3>1. sub[s].pc = "begin" /\ tpInstances \subseteq Subscribers
      BY GetSingleEffect DEF TypeOK
    <3> QED
      BY <3>1 DEF StoredHasAlloc, Freeing
  <2>3. sub[u].pc \in WithAlloc
    BY <2>1, <2>2 DEF StoredHasAlloc, WithAlloc
  <2>4. PICK t \in Subscribers : DrewAllocOf(t, u)
    BY <2>2, <2>3 DEF AllocIsDrawn
  <2>5. <<GetPath(u, "alloc"), sub[u].alloc>> \in sub[t].drawn /\ Onu(t) = Onu(u)
    BY <2>4 DEF DrewAllocOf
  <2>6. GetPath(u, "alloc") = GetPath(s, "alloc")
    BY <2>1 DEF Onu, GetPath, Pon
  <2>7. t # s
    BY <1>2, <2>5
  <2> QED
    BY <1>1, <1>2, <2>1, <2>5, <2>6, <2>7, GetSingleEffect DEF DrewAllocOf, OnlyBy
<1>4. \A t \in Subscribers, u \in Subscribers \ {s} : DrewAllocOf(t, u) => DrewAllocOf(t, u)'
  BY <1>1, <1>2, GetSingleEffect DEF DrewAllocOf, OnlyBy
<1> SUFFICES ASSUME NEW u \in Subscribers
             PROVE  /\ sub'[u].pc \in WithoutAlloc => sub'[u].drawn = {}
                    /\ sub'[u].pc \in WithAlloc =>
                         /\ \E t \in Subscribers : DrewAllocOf(t, u)'
                         /\ \A id \in sub'[u].drawn : id[1] = GetPath(u, "alloc") => id[2] = sub'[u].alloc
  BY <1>1 DEF AllocIsDrawn
<1>5. CASE u = s
  BY <1>2, <1>3, <1>5
<1>6. CASE u # s
  <2>1. sub'[u] = sub[u]
    BY <1>2, <1>6 DEF OnlyBy
  <2> QED
    BY <1>4, <1>6, <2>1 DEF AllocIsDrawn
<1> QED
  BY <1>5, <1>6

\* The parts of the invariant beyond LockInv and the configuration.
IdInv == DrawnIsTaken /\ AllocIsDrawn /\ StoredHasAlloc /\ DeployedIsTaken /\ DeployedIdsUnique

\* The places that no step of giving back leaves towards.
LEMMA StoredKept ==
  ASSUME TypeOK, StoredHasAlloc, NEW s \in Subscribers, OnlyBy(s), sc' = sc,
         tpInstances' = tpInstances \/ (tpInstances' = tpInstances \cup {s} /\ sub'[s].pc = "persist"),
         sub[s].pc \in {"persist", "done"} \cup Freeing => sub'[s].pc \in {"persist", "done"} \cup Freeing,
         sub'[s].pc \in Freeing => sc.onuInstance = "multi-instance"
  PROVE  StoredHasAlloc'
<1>1. Subscribers' = Subscribers
  BY ConfigStable
<1> QED
  BY <1>1 DEF StoredHasAlloc, OnlyBy

\* The invariant is inductive.
LEMMA IndStep == IndInv /\ [Next]_vars => IndInv'
<1> SUFFICES ASSUME IndInv, [Next]_vars PROVE IndInv'
  OBVIOUS
<1>0. /\ TypeOK /\ ReadIsCurrent /\ PoolsKept /\ SharedAllocsKept
      /\ DrawnIsTaken /\ AllocIsDrawn /\ StoredHasAlloc /\ DeployedIsTaken /\ DeployedIdsUnique
  BY SMTT(40) DEF IndInv, LockInv
<1>1. LockInv' /\ sc' = sc
  BY LockStep, ZenonT(60)
     DEF IndInv, Next, CreateTechProfileInstance, GetSingleInstanceTp, GetPool, GetPoolFails, Panic, DrawIDs,
         PoolExhausted, StoreInstance, AddResourceInstance, FreeIDs, FreeFails, Restart, Ended, vars
<1>2. PoolsKept' /\ SharedAllocsKept'
  BY <1>0, <1>1 DEF PoolsKept, SharedAllocsKept
<1>3. ASSUME NEW s \in Subscribers, GetSingleInstanceTp(s)
      PROVE  IdInv'
  <2>1. AllocIsDrawn'
    BY <1>0, <1>3, GetSingleAlloc
  <2>2. DrawnIsTaken' /\ DeployedIsTaken' /\ DeployedIdsUnique'
    BY <1>0, <1>3, GetSingleEffect, QuietKeeps
  <2>3. StoredHasAlloc'
    BY <1>0, <1>3, GetSingleEffect, StoredKept DEF Freeing
  <2> QED
    BY <2>1, <2>2, <2>3 DEF IdInv
<1>4. ASSUME NEW s \in Subscribers, NEW type \in Types,
             NEW from, NEW to, GetPool(s, type, from, to),
             \/ from = "alloc" /\ to = "draw alloc"
             \/ from = "gem" /\ to = "draw gem"
             \/ from = "free alloc" /\ to = "release alloc"
             \/ from = "free gem" /\ to = "release gem"
      PROVE  IdInv'
  <2>0. /\ sub[s].pc = from /\ OnlyBy(s) /\ sub'[s].pc = to
        /\ sub'[s].drawn = sub[s].drawn /\ sub'[s].alloc = sub[s].alloc
        /\ UNCHANGED <<sc, etcd, proc, runs, tpInstances, deployed>>
    <3>1. TypeOK /\ GetPool(s, type, from, to)
      BY <1>0, <1>4
    <3> QED
      BY <3>1, GetPoolEffect
  <2>1. DrawnIsTaken' /\ DeployedIsTaken' /\ DeployedIdsUnique'
    BY <1>0, <1>4, <2>0, QuietKeeps
  <2>2. /\ to \in WithoutAlloc => from \in WithoutAlloc
        /\ to \in WithAlloc => from \in WithAlloc
        /\ from \in {"persist", "done"} \cup Freeing => to \in {"persist", "done"} \cup Freeing
        /\ to \in Freeing => from \in Freeing
    BY <1>4 DEF WithoutAlloc, WithAlloc, Freeing
  <2>3. AllocIsDrawn'
    BY <1>0, <2>0, <2>2, AllocKept
  <2>4. StoredHasAlloc'
    <3>1. from \in Freeing => sc.onuInstance = "multi-instance"
      BY <1>0, <2>0 DEF StoredHasAlloc
    <3> QED
      BY <1>0, <2>0, <2>2, <3>1, StoredKept
  <2> QED
    BY <2>1, <2>3, <2>4 DEF IdInv
<1>5. ASSUME UNCHANGED <<sc, etcd, runs, sub, tpInstances, deployed>>
      PROVE  IdInv'
  <2>1. /\ Subscribers' = Subscribers
        /\ \A t : Onu(t)' = Onu(t)
        /\ \A t, type : GetPath(t, type)' = GetPath(t, type)
    BY <1>1, ConfigStable
  <2>2. \A t, u \in Subscribers : DrewAllocOf(t, u) => DrewAllocOf(t, u)'
    BY <1>5, <2>1 DEF DrewAllocOf
  <2>3. DrawnIsTaken' /\ StoredHasAlloc'
    BY <1>0, <1>5, <2>1 DEF DrawnIsTaken, StoredHasAlloc
  <2>4. AllocIsDrawn'
    BY <1>0, <1>5, <2>1, <2>2 DEF AllocIsDrawn
  <2>5. DeployedIsTaken'
    BY <1>0, <1>5, <2>1 DEF DeployedIsTaken
  <2>6. DeployedIdsUnique'
    BY <1>0, <1>5, <2>1 DEF DeployedIdsUnique, ShareTcont
  <2> QED
    BY <2>3, <2>4, <2>5, <2>6 DEF IdInv
<1>6. ASSUME NEW s \in Subscribers, NEW type \in Types, NEW from, NEW to, DrawIDs(s, type, from, to),
             \/ type = "alloc" /\ from = "draw alloc" /\ to = "gem"
             \/ type = "gem" /\ from = "draw gem" /\ to = "store"
      PROVE  IdInv'
  <2>1. PICK ids \in SUBSET Bits : Draws(s, type, to, ids)
    BY <1>0, <1>6, DrawEffect, Zenon
  <2>2. /\ proc = "running" /\ sub[s].pc = from
        /\ UNCHANGED <<sc, runs, tpInstances, deployed>>
    BY <1>0, <1>6, DrawEffect, Zenon
  <2>3. sub[s].pool = etcd[GetPath(s, type)]
    BY <1>0, <1>6, <2>2 DEF ReadIsCurrent, Critical
  <2>4. sub[s].pc # "done"
    BY <1>6, <2>2
  <2>5. DrawnIsTaken' /\ DeployedIsTaken' /\ DeployedIdsUnique'
    BY <1>0, <2>1, <2>2, <2>3, <2>4, DrawKeeps
  <2>6. AllocIsDrawn'
    BY <1>0, <1>1, <1>6, <2>1, <2>2, DrawAlloc
  <2>7. StoredHasAlloc'
    <3>1. OnlyBy(s) /\ sub'[s].pc \in {from, to}
      BY <2>1, <2>2 DEF Draws, OnlyBy
    <3> QED
      BY <1>0, <1>1, <1>6, <2>2, <3>1, StoredKept DEF Freeing
  <2> QED
    BY <2>5, <2>6, <2>7 DEF IdInv
<1>7. ASSUME NEW s \in Subscribers, StoreInstance(s)
      PROVE  IdInv'
  <2>1. DrawnIsTaken' /\ DeployedIsTaken' /\ DeployedIdsUnique'
    BY <1>0, <1>7, StoreEffect, QuietKeeps
  <2>2. AllocIsDrawn'
    BY <1>0, <1>7, StoreEffect, AllocKept DEF WithAlloc, WithoutAlloc
  <2>3. StoredHasAlloc'
    BY <1>0, <1>7, StoreEffect, StoredKept DEF Freeing
  <2> QED
    BY <2>1, <2>2, <2>3 DEF IdInv
<1>8. ASSUME NEW s \in Subscribers, AddResourceInstance(s)
      PROVE  IdInv'
  <2>1. AllocIsDrawn'
    BY <1>0, <1>8, AddEffect, AllocKept DEF WithAlloc, WithoutAlloc
  <2>2. StoredHasAlloc'
    BY <1>0, <1>8, AddEffect, StoredKept DEF Freeing, SharedAllocsKept
  <2>3. CASE sub'[s].pc = "done" /\ deployed' = deployed \cup InstanceIds(s)
    <3>1. DeployedIsTaken' /\ DeployedIdsUnique'
      BY <1>0, <1>8, <2>3, AddEffect, DeployKeeps
    <3>2. DrawnIsTaken'
      <4>1. Subscribers' = Subscribers
        BY <1>1, ConfigStable
      <4>2. \A t \in Subscribers : sub'[t].drawn = sub[t].drawn
        BY <1>0, <1>8, AddEffect DEF OnlyBy
      <4>3. etcd' = etcd
        BY <1>0, <1>8, AddEffect
      <4> QED
        BY <1>0, <4>1, <4>2, <4>3 DEF DrawnIsTaken
    <3> QED
      BY <2>1, <2>2, <3>1, <3>2 DEF IdInv
  <2>4. CASE deployed' = deployed
    <3>1. DrawnIsTaken' /\ DeployedIsTaken' /\ DeployedIdsUnique'
      BY <1>0, <1>8, <2>4, AddEffect, QuietKeeps
    <3> QED
      BY <2>1, <2>2, <3>1 DEF IdInv
  <2> QED
    BY <1>0, <1>8, <2>3, <2>4, AddEffect
<1>9. ASSUME NEW s \in Subscribers, NEW type \in Types, NEW from, NEW to, FreeIDs(s, type, from, to),
             \/ type = "alloc" /\ from = "release alloc" /\ to = "free gem"
             \/ type = "gem" /\ from = "release gem" /\ to = "fatal"
      PROVE  IdInv'
  <2>1. /\ proc = "running" /\ sub[s].pc = from /\ sub[s].pc # "done" /\ OnlyBy(s)
        /\ sub'[s].pc = to
        /\ sub'[s].drawn = {d \in sub[s].drawn : d[1] # GetPath(s, type)}
        /\ etcd' \in {etcd, [etcd EXCEPT ![GetPath(s, type)] = sub[s].pool \ Released(s, type)]}
        /\ UNCHANGED <<sc, runs, tpInstances, deployed>>
    BY <1>0, <1>9, FreeEffect, ZenonT(60)
  <2>2. sc.onuInstance = "multi-instance"
    BY <1>0, <1>9, <2>1 DEF StoredHasAlloc, Freeing
  <2>3. sub[s].pool = etcd[GetPath(s, type)]
    BY <1>0, <1>9, <2>1 DEF ReadIsCurrent, Critical
  <2>4. \A x \in Released(s, type) : <<GetPath(s, type), x>> \in sub[s].drawn
    BY <1>0, <1>9, <2>1, <2>2, ReleasedWasDrawn
  <2>5. GetPath(s, type) \in Paths
    BY PathsAreTyped
  <2>6. DrawnIsTaken' /\ DeployedIsTaken' /\ DeployedIdsUnique'
    BY <1>0, <2>1, <2>2, <2>3, <2>4, <2>5, FreeKeeps
  <2>7. AllocIsDrawn'
    BY <1>0, <1>9, <2>1, <2>2, FreeAlloc
  <2>8. StoredHasAlloc'
    BY <1>0, <1>9, <2>1, <2>2, StoredKept DEF Freeing
  <2> QED
    BY <2>6, <2>7, <2>8 DEF IdInv
<1>10. ASSUME NEW s \in Subscribers, NEW type \in Types, NEW from, NEW to, FreeFails(s, type, from, to),
              \/ from = "free alloc" /\ to = "free gem"
              \/ from = "free gem" /\ to = "fatal"
      PROVE  IdInv'
  <2>0. /\ sub[s].pc = from /\ OnlyBy(s) /\ sub'[s].pc = to
        /\ sub'[s].drawn = sub[s].drawn /\ sub'[s].alloc = sub[s].alloc
        /\ UNCHANGED <<sc, etcd, runs, tpInstances, deployed>>
    BY <1>0, <1>10, FreeFailsEffect, ZenonT(60)
  <2>1. DrawnIsTaken' /\ DeployedIsTaken' /\ DeployedIdsUnique'
    BY <1>0, <1>10, <2>0, QuietKeeps
  <2>2. AllocIsDrawn'
    BY <1>0, <1>10, <2>0, AllocKept DEF WithAlloc, WithoutAlloc
  <2>3. StoredHasAlloc'
    <3>1. sc.onuInstance = "multi-instance"
      BY <1>0, <1>10, <2>0 DEF StoredHasAlloc, Freeing
    <3> QED
      BY <1>0, <1>10, <2>0, <3>1, StoredKept DEF Freeing
  <2> QED
    BY <2>1, <2>2, <2>3 DEF IdInv
<1>11. ASSUME Restart
       PROVE  IdInv'
  <2>1. /\ Subscribers' = Subscribers
        /\ \A t : Onu(t)' = Onu(t)
        /\ \A s \in Subscribers : sub'[s] = NewSub
        /\ etcd' = etcd /\ deployed' = deployed /\ tpInstances' = {}
    BY <1>0, <1>1, <1>11, ConfigStable, RestartEffect
  <2>2. \A s \in Subscribers : sub'[s].pc = "begin" /\ sub'[s].drawn = {}
    BY <2>1 DEF NewSub
  <2>3. DrawnIsTaken' /\ StoredHasAlloc' /\ AllocIsDrawn'
    BY <2>1, <2>2 DEF DrawnIsTaken, StoredHasAlloc, AllocIsDrawn, Freeing, WithAlloc
  <2>4. DeployedIsTaken'
    BY <1>0, <2>1, <2>2 DEF DeployedIsTaken
  <2>5. DeployedIdsUnique'
    BY <1>0, <1>1, <2>1 DEF DeployedIdsUnique, ShareTcont
  <2> QED
    BY <2>3, <2>4, <2>5 DEF IdInv
<1>12. IdInv'
  <2>1. CASE \E s \in Subscribers : CreateTechProfileInstance(s)
    <3>1. PICK s \in Subscribers : CreateTechProfileInstance(s)
      BY <2>1
    <3>2. "alloc" \in Types /\ "gem" \in Types
      BY DEF Types
    <3>3. \/ GetPool(s, "alloc", "alloc", "draw alloc") \/ GetPool(s, "gem", "gem", "draw gem")
          \/ GetPool(s, "alloc", "free alloc", "release alloc") \/ GetPool(s, "gem", "free gem", "release gem")
          => IdInv'
      BY <3>2, <1>4
    <3>4. \/ GetPoolFails(s, "alloc", "alloc") \/ PoolExhausted(s, "alloc", "draw alloc")
          \/ GetPoolFails(s, "gem", "gem") \/ PoolExhausted(s, "gem", "draw gem")
          => IdInv'
      BY <1>5 DEF GetPoolFails, PoolExhausted, Panic
    <3>5. \/ DrawIDs(s, "alloc", "draw alloc", "gem") \/ DrawIDs(s, "gem", "draw gem", "store")
          => IdInv'
      BY <3>2, <1>6
    <3>6. \/ FreeIDs(s, "alloc", "release alloc", "free gem") \/ FreeIDs(s, "gem", "release gem", "fatal")
          => IdInv'
      BY <3>2, <1>9
    <3>7. \/ FreeFails(s, "alloc", "free alloc", "free gem") \/ FreeFails(s, "gem", "free gem", "fatal")
          => IdInv'
      BY <3>2, <1>10
    <3> QED
      BY <3>1, <1>3, <1>7, <1>8, <3>3, <3>4, <3>5, <3>6, <3>7, Zenon DEF CreateTechProfileInstance
  <2>2. CASE UNCHANGED vars
    BY <1>5, <2>2 DEF vars
  <2> QED
    BY <1>11, <2>1, <2>2 DEF Next, Ended
<1> QED
  BY <1>1, <1>2, <1>12 DEF IndInv, IdInv

\* The initial state satisfies the invariant.
LEMMA IndInit == Init /\ Dependable => IndInv
<1> SUFFICES ASSUME Init, Dependable PROVE IndInv
  OBVIOUS
<1>1. LockInv /\ PoolsKept /\ SharedAllocsKept
  BY LockInit DEF Dependable
<1>2. /\ \A s \in Subscribers : sub[s].pc = "begin" /\ sub[s].drawn = {}
      /\ tpInstances = {} /\ deployed = {}
  BY DEF Init, NewSub
<1>3. DrawnIsTaken /\ AllocIsDrawn /\ StoredHasAlloc
  BY <1>2 DEF DrawnIsTaken, AllocIsDrawn, StoredHasAlloc, WithAlloc, Freeing
<1>4. DeployedIsTaken /\ DeployedIdsUnique
  BY <1>2 DEF DeployedIsTaken, DeployedIdsUnique
<1> QED
  BY <1>1, <1>3, <1>4 DEF IndInv

\* The inductive invariant holds for any subscribers, pools, answers of etcd and
\* number of runs, as long as no pool is shared between PONs, the pools can be
\* read at a restart and shared alloc ids are not given back.
THEOREM IndInvHolds == Spec /\ Dependable => []IndInv
BY IndInit, IndStep, PTL DEF Spec

\* No alloc id and no GEM-port id of a pool reaches the agent for two subscribers
\* but as an alloc id the profile shares, within a run or across restarts.
THEOREM IdsAreUnique == Spec /\ Dependable => []DeployedIdsUnique
<1>1. IndInv => DeployedIdsUnique
  BY DEF IndInv
<1> QED
  BY <1>1, IndInvHolds, PTL

\* What has been deployed stays deployed.
LEMMA DeployedGrows ==
  ASSUME [Next]_vars
  PROVE  deployed \subseteq deployed' /\ sc' = sc
<1>1. ASSUME NEW s \in Subscribers, AddResourceInstance(s)
      PROVE  deployed \subseteq deployed' /\ sc' = sc
  BY <1>1, ZenonT(60) DEF AddResourceInstance
<1>2. ASSUME NEW s \in Subscribers, CreateTechProfileInstance(s), ~AddResourceInstance(s)
      PROVE  deployed' = deployed /\ sc' = sc
  BY <1>2 DEF CreateTechProfileInstance, GetSingleInstanceTp, GetPool, GetPoolFails, Panic, DrawIDs,
              PoolExhausted, StoreInstance, FreeIDs, FreeFails
<1> QED
  BY <1>1, <1>2 DEF Next, Restart, Ended, vars

\* No step, a restart included, frees an id that has reached the agent.
THEOREM DeployedIdsAreKept == Spec /\ Dependable => DeployedIdsStayTaken
<1>1. ASSUME IndInv', [Next]_vars
      PROVE  \A d \in deployed : d.idx \in etcd[d.path] => d.idx \in etcd'[d.path]
  <2>1. DeployedIsTaken' /\ deployed \subseteq deployed'
    BY <1>1, DeployedGrows DEF IndInv
  <2> QED
    BY <2>1 DEF DeployedIsTaken
<1> QED
  BY <1>1, IndInvHolds, PTL DEF Spec, DeployedIdsStayTaken

-----------------------------------------------------------------------------
(* The pools implement an allocator of ids. *)

\* When no pool changes, no id is taken or becomes free.
LEMMA TakenSame ==
  ASSUME UNCHANGED <<sc, etcd>>
  PROVE  TakenIds' = TakenIds
  BY ConfigStable DEF TakenIds

\* When nothing is drawn or given back, everybody holds what they held.
LEMMA HeldSame ==
  ASSUME sc' = sc, \A s \in Subscribers : sub'[s].drawn = sub[s].drawn
  PROVE  HeldIds' = HeldIds
<1>1. Subscribers' = Subscribers
  BY ConfigStable
<1> QED
  BY <1>1 DEF HeldIds

\* What a change of one pool does to the ids that are taken.
LEMMA TakenChanges ==
  ASSUME TypeOK, sc' = sc, NEW path \in Paths, NEW pool, etcd' = [etcd EXCEPT ![path] = pool]
  PROVE  /\ TakenIds' \ TakenIds = {path} \X (pool \ etcd[path])
         /\ TakenIds \ TakenIds' = {path} \X (etcd[path] \ pool)
<1>a. Paths' = Paths
  BY ConfigStable
<1>1. Paths' = Paths /\ etcd \in [Paths -> SUBSET Bits]
  BY <1>a DEF TypeOK
<1>2. \A id : id \in TakenIds <=> \E p \in Paths : \E x \in etcd[p] : id = <<p, x>>
  BY DEF TakenIds
<1>3. \A id : id \in TakenIds' <=> \E p \in Paths : \E x \in etcd'[p] : id = <<p, x>>
  BY <1>1 DEF TakenIds
<1>4. etcd'[path] = pool /\ \A p \in Paths : p # path => etcd'[p] = etcd[p]
  BY <1>1
<1>5. ASSUME NEW id PROVE id \in TakenIds' \ TakenIds <=> id \in {path} \X (pool \ etcd[path])
  BY <1>2, <1>3, <1>4
<1>6. ASSUME NEW id PROVE id \in TakenIds \ TakenIds' <=> id \in {path} \X (etcd[path] \ pool)
  BY <1>2, <1>3, <1>4
<1> QED
  BY <1>5, <1>6

\* What a change of one subscriber does to what is held.
LEMMA HeldChanges ==
  ASSUME sc' = sc, NEW s \in Subscribers, OnlyBy(s)
  PROVE  HeldIds' = [HeldIds EXCEPT ![s] = sub'[s].drawn]
<1>1. Subscribers' = Subscribers
  BY ConfigStable
<1> QED
  BY <1>1 DEF HeldIds, OnlyBy

\* A step that leaves pools and drawn ids alone is none of the allocator's.
LEMMA AllocatorQuiet ==
  ASSUME UNCHANGED <<sc, etcd>>, \A s \in Subscribers : sub'[s].drawn = sub[s].drawn
  PROVE  UNCHANGED Allocator!vars
  BY TakenSame, HeldSame DEF Allocator!vars

\* A draw is an allocation, or ids are lost, or nothing happens.
LEMMA AllocatorDraw ==
  ASSUME TypeOK, sc' = sc, NEW s \in Subscribers, NEW type \in Types, NEW to, NEW ids \in SUBSET Bits,
         Draws(s, type, to, ids), sub[s].pool = etcd[GetPath(s, type)]
  PROVE  Allocator!Allocate(s) \/ Allocator!Lose \/ UNCHANGED Allocator!vars
<1>1. PICK path \in Paths : path = GetPath(s, type)
  BY PathsAreTyped
<1>2. ids \cap etcd[path] = {}
  BY <1>1 DEF Draws
<1>3. CASE etcd' = etcd /\ sub' = sub
  BY <1>3, AllocatorQuiet
<1>4. CASE etcd' = [etcd EXCEPT ![path] = sub[s].pool \cup ids]
  <2>1. PICK pool : pool = sub[s].pool \cup ids
    OBVIOUS
  <2>2. pool \ etcd[path] = ids /\ etcd[path] \ pool = {}
    BY <1>1, <1>2, <2>1
  <2>3. /\ TakenIds' \ TakenIds = {path} \X (pool \ etcd[path])
        /\ TakenIds \ TakenIds' = {path} \X (etcd[path] \ pool)
    <3>1. etcd' = [etcd EXCEPT ![path] = pool]
      BY <1>4, <2>1
    <3> QED
      BY <3>1, TakenChanges, Zenon
  <2>4. TakenIds' \ TakenIds = {path} \X ids /\ TakenIds \subseteq TakenIds'
    BY <2>2, <2>3
  <2>5. CASE sub' = sub
    BY <2>4, <2>5, HeldSame DEF Allocator!Lose
  <2>6. CASE OnlyBy(s) /\ sub'[s].drawn = sub[s].drawn \cup ({path} \X ids)
    <3>1. HeldIds' = [HeldIds EXCEPT ![s] = sub'[s].drawn]
      BY <2>6, HeldChanges
    <3>2. HeldIds[s] = sub[s].drawn
      BY DEF HeldIds
    <3>3. HeldIds' = [HeldIds EXCEPT ![s] = HeldIds[s] \cup (TakenIds' \ TakenIds)]
      BY <2>4, <2>6, <3>1, <3>2
    <3> QED
      BY <2>4, <3>3 DEF Allocator!Allocate
  <2> QED
    BY <1>1, <2>5, <2>6 DEF Draws
<1> QED
  BY <1>1, <1>3, <1>4 DEF Draws

\* Giving back is a release: of exactly the ids of that pool the subscriber holds.
LEMMA AllocatorRelease ==
  ASSUME TypeOK, sc' = sc, DrawnIsTaken, NEW s \in Subscribers, NEW path \in Paths, NEW rel,
         OnlyBy(s), sub'[s].drawn = {d \in sub[s].drawn : d[1] # path},
         etcd' \in {etcd, [etcd EXCEPT ![path] = sub[s].pool \ rel]}, sub[s].pool = etcd[path],
         \A x \in rel : <<path, x>> \in sub[s].drawn,
         \A d \in sub[s].drawn : d[1] = path => d[2] \in rel
  PROVE  \E ids \in SUBSET HeldIds[s] : Allocator!Release(s, ids)
<1>1. PICK ids : ids = {d \in sub[s].drawn : d[1] = path}
  OBVIOUS
<1>2. HeldIds[s] = sub[s].drawn
  BY DEF HeldIds
<1>3. \A d \in sub[s].drawn : d = <<d[1], d[2]>>
  BY DEF TypeOK, SubStates
<1>4. ids = {path} \X rel
  BY <1>1, <1>3
<1>5. rel \subseteq etcd[path]
  <2> SUFFICES ASSUME NEW x \in rel PROVE x \in etcd[path]
    OBVIOUS
  <2>1. PICK id \in sub[s].drawn : id = <<path, x>>
    OBVIOUS
  <2>2. id[1] = path /\ id[2] = x
    BY <2>1
  <2> QED
    BY <2>2 DEF DrawnIsTaken
<1>6. HeldIds' = [HeldIds EXCEPT ![s] = HeldIds[s] \ ids]
  <2>1. HeldIds' = [HeldIds EXCEPT ![s] = sub'[s].drawn]
    BY HeldChanges
  <2>2. sub'[s].drawn = HeldIds[s] \ ids
    BY <1>1, <1>2
  <2> QED
    BY <2>1, <2>2
<1>7. TakenIds' \in {TakenIds, TakenIds \ ids}
  <2>1. CASE etcd' = etcd
    BY <2>1, TakenSame
  <2>2. CASE etcd' = [etcd EXCEPT ![path] = sub[s].pool \ rel]
    <3>1. PICK pool : pool = sub[s].pool \ rel
      OBVIOUS
    <3>2. pool \ etcd[path] = {} /\ etcd[path] \ pool = rel
      BY <1>5, <3>1
    <3>3. /\ TakenIds' \ TakenIds = {path} \X (pool \ etcd[path])
          /\ TakenIds \ TakenIds' = {path} \X (etcd[path] \ pool)
      <4>1. etcd' = [etcd EXCEPT ![path] = pool]
        BY <2>2, <3>1
      <4> QED
        BY <4>1, TakenChanges, Zenon
    <3>4. TakenIds' \subseteq TakenIds /\ TakenIds \ TakenIds' = ids
      BY <1>4, <3>2, <3>3
    <3> QED
      BY <3>4
  <2> QED
    BY <2>1, <2>2
<1>8. ids \in SUBSET HeldIds[s]
  BY <1>1, <1>2
<1> QED
  BY <1>6, <1>7, <1>8 DEF Allocator!Release

\* Every step is a step of the allocator, or none of its.
LEMMA AllocatorStep ==
  ASSUME IndInv, [Next]_vars
  PROVE  [Allocator!Next]_(Allocator!vars)
<1>0. /\ TypeOK /\ ReadIsCurrent /\ PoolsKept
      /\ DrawnIsTaken /\ AllocIsDrawn /\ StoredHasAlloc
  BY DEF IndInv, LockInv
<1>1. sc' = sc
  BY DeployedGrows
<1>2. DOMAIN HeldIds = Subscribers /\ Subscribers' = Subscribers
  BY <1>1, ConfigStable DEF HeldIds
<1>3. ASSUME NEW s \in Subscribers, OnlyBy(s), sub'[s].drawn = sub[s].drawn, etcd' = etcd
      PROVE  UNCHANGED Allocator!vars
  BY <1>1, <1>3, AllocatorQuiet DEF OnlyBy
<1>4. ASSUME NEW s \in Subscribers, NEW type \in Types, NEW from, NEW to, DrawIDs(s, type, from, to),
             from \in Critical(type)
      PROVE  Allocator!Allocate(s) \/ Allocator!Lose \/ UNCHANGED Allocator!vars
  <2>1. PICK ids \in SUBSET Bits : Draws(s, type, to, ids)
    BY <1>0, <1>4, DrawEffect, Zenon
  <2>2. proc = "running" /\ sub[s].pc = from
    BY <1>0, <1>4, DrawEffect, Zenon
  <2>3. sub[s].pool = etcd[GetPath(s, type)]
    BY <1>0, <1>4, <2>2 DEF ReadIsCurrent
  <2> QED
    BY <1>0, <1>1, <2>1, <2>3, AllocatorDraw
<1>5. ASSUME NEW s \in Subscribers, NEW type \in Types, NEW from, NEW to, FreeIDs(s, type, from, to),
             \/ type = "alloc" /\ from = "release alloc"
             \/ type = "gem" /\ from = "release gem"
      PROVE  \E ids \in SUBSET HeldIds[s] : Allocator!Release(s, ids)
  <2>1. /\ proc = "running" /\ sub[s].pc = from /\ OnlyBy(s)
        /\ sub'[s].drawn = {d \in sub[s].drawn : d[1] # GetPath(s, type)}
        /\ etcd' \in {etcd, [etcd EXCEPT ![GetPath(s, type)] = sub[s].pool \ Released(s, type)]}
    BY <1>0, <1>5, FreeEffect
  <2>2. sc.onuInstance = "multi-instance"
    BY <1>0, <1>5, <2>1 DEF StoredHasAlloc, Freeing
  <2>3. sub[s].pool = etcd[GetPath(s, type)]
    BY <1>0, <1>5, <2>1 DEF ReadIsCurrent, Critical
  <2>4. \A x \in Released(s, type) : <<GetPath(s, type), x>> \in sub[s].drawn
    BY <1>0, <1>5, <2>1, <2>2, ReleasedWasDrawn
  <2>5. \A d \in sub[s].drawn : d[1] = GetPath(s, type) => d[2] \in Released(s, type)
    <3>1. CASE type = "alloc"
      BY <1>0, <1>5, <2>1, <3>1 DEF AllocIsDrawn, WithAlloc, Released
    <3>2. CASE type # "alloc"
      <4>1. \A d \in sub[s].drawn : d = <<d[1], d[2]>> /\ d[2] \in Bits
        BY <1>0 DEF TypeOK, SubStates
      <4> QED
        BY <1>5, <3>2, <4>1 DEF Released, Gems
    <3> QED
      BY <3>1, <3>2
  <2>6. GetPath(s, type) \in Paths
    BY PathsAreTyped
  <2> QED
    BY <1>0, <1>1, <2>1, <2>3, <2>4, <2>5, <2>6, AllocatorRelease
<1>6. ASSUME Restart
      PROVE  Allocator!Restart
  <2>1. TakenIds' = TakenIds
    BY <1>0, <1>1, <1>6, RestartEffect, TakenSame
  <2>2. \A s \in Subscribers : sub'[s].drawn = {}
    BY <1>0, <1>6, RestartEffect DEF NewSub
  <2>3. HeldIds' = [s \in Subscribers |-> {}]
    BY <1>2, <2>2 DEF HeldIds
  <2> QED
    BY <1>2, <2>1, <2>3 DEF Allocator!Restart, Allocator!Clients
<1>7. ASSUME NEW s \in Subscribers, CreateTechProfileInstance(s)
      PROVE  \/ Allocator!Allocate(s) \/ Allocator!Lose \/ UNCHANGED Allocator!vars
             \/ \E ids \in SUBSET HeldIds[s] : Allocator!Release(s, ids)
  <2>1. "alloc" \in Types /\ "gem" \in Types /\ "draw alloc" \in Critical("alloc") /\ "draw gem" \in Critical("gem")
    BY DEF Types, Critical
  <2>2. \/ GetSingleInstanceTp(s) \/ StoreInstance(s) \/ AddResourceInstance(s)
        => UNCHANGED Allocator!vars
    BY <1>0, <1>3, GetSingleEffect, StoreEffect, AddEffect
  <2>3. \A type \in Types : \A from, to : GetPool(s, type, from, to) => UNCHANGED Allocator!vars
    BY <1>0, <1>3, GetPoolEffect
  <2>4. \A type, from : GetPoolFails(s, type, from) \/ PoolExhausted(s, type, from) => UNCHANGED Allocator!vars
    BY AllocatorQuiet DEF GetPoolFails, PoolExhausted, Panic
  <2>5. \A type \in Types : \A from, to : FreeFails(s, type, from, to) => UNCHANGED Allocator!vars
    BY <1>0, <1>3, FreeFailsEffect
  <2>6. \/ DrawIDs(s, "alloc", "draw alloc", "gem") \/ DrawIDs(s, "gem", "draw gem", "store")
        => Allocator!Allocate(s) \/ Allocator!Lose \/ UNCHANGED Allocator!vars
    BY <1>4, <2>1
  <2>7. \/ FreeIDs(s, "alloc", "release alloc", "free gem") \/ FreeIDs(s, "gem", "release gem", "fatal")
        => \E ids \in SUBSET HeldIds[s] : Allocator!Release(s, ids)
    BY <1>5, <2>1
  <2> QED
    BY <1>7, <2>1, <2>2, <2>3, <2>4, <2>5, <2>6, <2>7, Zenon DEF CreateTechProfileInstance
<1>8. CASE UNCHANGED vars
  BY <1>8, AllocatorQuiet DEF vars
<1>9. CASE \E s \in Subscribers : CreateTechProfileInstance(s)
  BY <1>2, <1>7, <1>9 DEF Allocator!Next, Allocator!Clients
<1> QED
  BY <1>6, <1>8, <1>9 DEF Next, Ended, Allocator!Next

\* The subscribers and the pools in etcd, with their failures, lost answers and
\* restarts, implement an allocator of ids.
THEOREM PoolsImplementIdAllocator == Spec /\ Dependable => ImplementsIdAllocator
<1>1. Init => Allocator!Init
  BY DEF Init, NewSub, HeldIds, Allocator!Init, Allocator!Clients
<1>2. IndInv /\ [Next]_vars => [Allocator!Next]_(Allocator!vars)
  BY AllocatorStep
<1> QED
  BY <1>1, <1>2, IndInvHolds, PTL DEF Spec, ImplementsIdAllocator, Allocator!Spec
=============================================================================
