---------------------------- MODULE StartupProofs ----------------------------
(***************************************************************************)
(* Proofs about Startup, for any device, any TP ids, any subscribers and   *)
(* whatever earlier runs left in etcd, under any technology: what is in    *)
(* place when provisionONUs begins, which profiles are used, and what a    *)
(* panic on a sound device comes from.                                     *)
(***************************************************************************)
EXTENDS Startup, WellFoundedInduction, TLAPS

-----------------------------------------------------------------------------
(* Induction over the naturals, for a set rather than a predicate. *)

\* Every set of naturals that is not empty has a least element.
LEMMA LeastElement ==
  ASSUME NEW T, T \subseteq Nat, T # {}
  PROVE  \E n \in T : \A m \in T : n <= m
<1>1. IsWellFoundedOn({ss \in Nat \X Nat : ss[1] < ss[2]}, Nat)
  BY NatLessThanWellFounded DEF OpToRel
<1>2. PICK n \in T : \A m \in T : <<m, n>> \notin {ss \in Nat \X Nat : ss[1] < ss[2]}
  BY <1>1, WFMin
<1>3. SUFFICES ASSUME NEW m \in T PROVE n <= m
  OBVIOUS
<1>4. <<m, n>> \notin {ss \in Nat \X Nat : ss[1] < ss[2]} /\ m \in Nat /\ n \in Nat
  BY <1>2
<1>5. ~(m < n)
  BY <1>4
<1> QED
  BY <1>4, <1>5

\* A set that holds zero and with every natural the next one holds them all.
LEMMA SetInduction ==
  ASSUME NEW T, 0 \in T, \A n \in Nat : n \in T => n + 1 \in T
  PROVE  Nat \subseteq T
<1> DEFINE Out == Nat \ T
<1>1. SUFFICES ASSUME Out # {} PROVE FALSE
  OBVIOUS
<1>2. PICK n \in Out : \A m \in Out : n <= m
  BY <1>1, LeastElement
<1>3. n # 0 /\ n - 1 \in Nat
  BY <1>2
<1>4. n - 1 \notin Out
  BY <1>2, <1>3
<1> QED
  BY <1>3, <1>4

-----------------------------------------------------------------------------
(* GetTpIDList. *)

\* One iteration of its loop.
Parsed(list, field) == IF field = NotANumber THEN list ELSE Append(list, field)

\* The lists after the first n iterations.
Prefix(fields, n) ==
  {g \in [0 .. n -> Seq(Nat)] : g[0] = <<>> /\ \A k \in 1 .. n : g[k] = Parsed(g[k - 1], fields[k])}

\* The loop as its recursive definition has it.
Loop(list, fields) ==
  [n \in 0 .. Len(fields) |->
     IF n = 0 THEN <<>>
     ELSE IF fields[n] = NotANumber THEN list[n - 1] ELSE Append(list[n - 1], fields[n])]

\* An iteration gives a list of numbers.
LEMMA ParsedType ==
  ASSUME NEW list \in Seq(Nat), NEW field \in Nat \cup {NotANumber}
  PROVE  Parsed(list, field) \in Seq(Nat)
  BY DEF Parsed, NotANumber

\* The loop runs to its end.
LEMMA PrefixExists ==
  ASSUME NEW fields \in Seq(Nat \cup {NotANumber}), NEW n \in Nat, n <= Len(fields)
  PROVE  Prefix(fields, n) # {}
<1> DEFINE T == {m \in Nat : m <= Len(fields) => Prefix(fields, m) # {}}
<1>1. 0 \in T
  <2>1. [k \in 0 .. 0 |-> <<>>] \in Prefix(fields, 0)
    BY DEF Prefix
  <2> QED
    BY <2>1
<1>2. ASSUME NEW m \in Nat, m \in T PROVE m + 1 \in T
  <2>1. SUFFICES ASSUME m + 1 <= Len(fields) PROVE Prefix(fields, m + 1) # {}
    OBVIOUS
  <2>2. PICK g : g \in Prefix(fields, m)
    BY <1>2, <2>1
  <2>3. g \in [0 .. m -> Seq(Nat)] /\ g[0] = <<>> /\ \A k \in 1 .. m : g[k] = Parsed(g[k - 1], fields[k])
    BY <2>2 DEF Prefix
  <2>4. fields[m + 1] \in Nat \cup {NotANumber} /\ g[m] \in Seq(Nat)
    BY <2>1, <2>3
  <2>5. PICK next \in Seq(Nat) : next = Parsed(g[m], fields[m + 1])
    BY <2>4, ParsedType
  <2> DEFINE h == [k \in 0 .. m + 1 |-> IF k = m + 1 THEN next ELSE g[k]]
  <2>6. h \in [0 .. m + 1 -> Seq(Nat)] /\ h[0] = <<>>
    BY <2>3, <2>5
  <2>7. ASSUME NEW k \in 1 .. m + 1 PROVE h[k] = Parsed(h[k - 1], fields[k])
    <3>1. CASE k = m + 1
      <4>1. h[k] = next /\ h[k - 1] = g[m]
        BY <3>1
      <4> QED
        BY <3>1, <4>1, <2>5
    <3>2. CASE k \in 1 .. m
      <4>1. h[k] = g[k] /\ h[k - 1] = g[k - 1]
        BY <3>2
      <4> QED
        BY <4>1, <3>2, <2>3
    <3> QED
      BY <3>1, <3>2
  <2>8. h \in Prefix(fields, m + 1)
    BY <2>6, <2>7 DEF Prefix
  <2> QED
    BY <2>8
<1> HIDE DEF T
<1>3. Nat \subseteq T
  BY <1>1, <1>2, SetInduction
<1> QED
  BY <1>3 DEF T

\* GetTpIDList is the last list of such a loop.
LEMMA TpIDListIsLoop ==
  ASSUME NEW fields \in Seq(Nat \cup {NotANumber})
  PROVE  \E list : list = Loop(list, fields) /\ GetTpIDList(fields) = list[Len(fields)]
<1>1. PICK g : g \in Prefix(fields, Len(fields))
  BY PrefixExists
<1>2. g = Loop(g, fields)
  <2>1. /\ g = [n \in 0 .. Len(fields) |-> g[n]]
        /\ g[0] = <<>> /\ \A k \in 1 .. Len(fields) : g[k] = Parsed(g[k - 1], fields[k])
    BY <1>1 DEF Prefix
  <2>2. ASSUME NEW n \in 0 .. Len(fields) PROVE g[n] = Loop(g, fields)[n]
    BY <2>1, SMTT(40) DEF Loop, Parsed
  <2>3. Loop(g, fields) = [n \in 0 .. Len(fields) |-> Loop(g, fields)[n]]
    BY DEF Loop
  <2> QED
    BY <2>1, <2>2, <2>3
<1> QED
  BY <1>2 DEF GetTpIDList, Loop

\* Every field that is a number is in the list.
LEMMA NumbersAreKept ==
  ASSUME NEW fields \in Seq(Nat \cup {NotANumber})
  PROVE  /\ GetTpIDList(fields) \in Seq(Nat)
         /\ \A n \in DOMAIN fields : fields[n] # NotANumber =>
              \E m \in 1 .. Len(GetTpIDList(fields)) : GetTpIDList(fields)[m] = fields[n]
<1>1. PICK list : list = Loop(list, fields) /\ GetTpIDList(fields) = list[Len(fields)]
  BY TpIDListIsLoop
<1>2. list[0] = <<>> /\ \A k \in 1 .. Len(fields) : list[k] = Parsed(list[k - 1], fields[k])
  <2>1. \A k \in 0 .. Len(fields) : list[k] = Loop(list, fields)[k]
    BY <1>1
  <2>2. Loop(list, fields)[0] = <<>>
    BY DEF Loop
  <2>3. ASSUME NEW k \in 1 .. Len(fields) PROVE Loop(list, fields)[k] = Parsed(list[k - 1], fields[k])
    BY DEF Loop, Parsed
  <2> QED
    BY <2>1, <2>2, <2>3
<1> DEFINE Holds(k) == \A n \in 1 .. k : fields[n] # NotANumber =>
                         \E m \in 1 .. Len(list[k]) : list[k][m] = fields[n]
           T == {k \in Nat : k <= Len(fields) => list[k] \in Seq(Nat) /\ Holds(k)}
<1>3. 0 \in T
  <2>1. list[0] \in Seq(Nat)
    BY <1>2
  <2>2. Holds(0)
    OBVIOUS
  <2> QED
    BY <2>1, <2>2
<1>4. ASSUME NEW k \in Nat, k \in T PROVE k + 1 \in T
  <2>1. SUFFICES ASSUME k + 1 <= Len(fields) PROVE list[k + 1] \in Seq(Nat) /\ Holds(k + 1)
    OBVIOUS
  <2>2. PICK old \in Seq(Nat) : old = list[k]
    BY <1>4, <2>1
  <2>3. PICK field \in Nat \cup {NotANumber} : field = fields[k + 1]
    <3>1. k + 1 \in 1 .. Len(fields)
      BY <2>1
    <3>2. fields[k + 1] \in Nat \cup {NotANumber}
      BY <3>1
    <3> QED
      BY <3>2
  <2>4. \A n \in 1 .. k : fields[n] # NotANumber => \E m \in 1 .. Len(old) : old[m] = fields[n]
    BY <1>4, <2>1, <2>2
  <2>5. PICK new : new = list[k + 1]
    OBVIOUS
  <2>6. new = Parsed(old, field)
    BY <1>2, <2>1, <2>2, <2>3, <2>5
  <2>7. new \in Seq(Nat)
    BY <2>6, ParsedType
  <2>8. ASSUME NEW n \in 1 .. k + 1, fields[n] # NotANumber
        PROVE  \E m \in 1 .. Len(new) : new[m] = fields[n]
    <3>1. CASE field = NotANumber
      <4>1. new = old
        BY <2>6, <3>1 DEF Parsed
      <4>2. n # k + 1
        BY <2>3, <2>8, <3>1
      <4>3. n \in 1 .. k
        BY <4>2
      <4> QED
        BY <2>4, <2>8, <4>1, <4>3
    <3>2. CASE field # NotANumber
      <4>1. new = Append(old, field) /\ field \in Nat
        BY <2>6, <3>2 DEF Parsed
      <4>2. /\ Len(new) = Len(old) + 1 /\ new[Len(old) + 1] = field
            /\ \A m \in 1 .. Len(old) : new[m] = old[m]
        BY <4>1
      <4>3. CASE n = k + 1
        BY <2>3, <4>2, <4>3
      <4>4. CASE n \in 1 .. k
        <5>1. PICK m \in 1 .. Len(old) : old[m] = fields[n]
          BY <2>4, <2>8, <4>4
        <5> QED
          BY <4>2, <5>1
      <4> QED
        BY <4>3, <4>4
    <3> QED
      BY <3>1, <3>2
  <2> QED
    BY <2>5, <2>7, <2>8
<1> HIDE DEF T
<1>5. Nat \subseteq T
  BY <1>3, <1>4, SetInduction
<1>6. Len(fields) \in T
  BY <1>5
<1> QED
  BY <1>1, <1>6 DEF T

-----------------------------------------------------------------------------
(* The invariant. *)

\* The configuration does not change, and with it nothing that depends on it.
LEMMA ConfigStable ==
  ASSUME sc' = sc
  PROVE  /\ Pons' = Pons /\ Subscribers' = Subscribers /\ TpIDList' = TpIDList
         /\ (Healthy' <=> Healthy) /\ (Supported' <=> Supported)
  BY DEF Pons, Subscribers, TpIDList, Healthy, Supported

\* TP ids are numbers.
LEMMA TpIDListType ==
  ASSUME TypeOK
  PROVE  TpIDList \in Seq(Nat) /\ Len(TpIDList) \in Nat
<1>1. sc.tpIDsString \in Seq(Nat \cup {NotANumber})
  BY ScenarioAssumption DEF TypeOK
<1>2. TpIDList \in Seq(Nat)
  BY <1>1, NumbersAreKept DEF TpIDList
<1> QED
  BY <1>2

\* A profile stays allowed: failed reads are not forgotten.
LEMMA AllowedStays ==
  ASSUME sc' = sc, failedRead \subseteq failedRead', NEW used, NEW p, Allowed(used, p)
  PROVE  Allowed(used, p)'
  BY DEF Allowed

\* What a panic on a sound device may come from.
PanicCause == BadManager \/ failedInstance \/ (batch = sc.ponPorts /\ batch < sc.batches)

\* What Start has set up stays, once it is over.
LEMMA SetUpStays ==
  ASSUME IndInv, UNCHANGED <<sc, tp, etcd, rsrMgr, nni>>,
         pc' \in {"returned", "done"} => pc \in {"returned", "done"}
  PROVE  /\ ProfilesLoaded' /\ Started'
         /\ Pons' = Pons /\ Subscribers' = Subscribers /\ TpIDList' = TpIDList
         /\ (Healthy' <=> Healthy)
<1>0. sc' = sc /\ tp' = tp /\ etcd' = etcd /\ rsrMgr' = rsrMgr /\ nni' = nni
  OBVIOUS
<1>1. /\ Pons' = Pons /\ Subscribers' = Subscribers /\ TpIDList' = TpIDList
      /\ (Healthy' <=> Healthy) /\ (Supported' <=> Supported)
  BY <1>0, ConfigStable
<1>2. ProfilesLoaded'
  BY <1>0, <1>1 DEF IndInv, ProfilesLoaded
<1>3. Started'
  BY <1>0, <1>1 DEF IndInv, Started
<1> QED
  BY <1>1, <1>2, <1>3

\* Steps that touch neither profiles nor managers nor ONUs; a panic has its cause.
LEMMA QuietStep ==
  ASSUME IndInv, UNCHANGED <<sc, tp, etcd, rsrMgr, nni>>,
         UNCHANGED <<batch, onu, tpMap, read, profile, failedRead>>,
         pc' \in {"returned", "done"} => pc \in {"returned", "done"},
         Healthy /\ proc' = "panicked" => PanicCause'
  PROVE  IndInv'
<1>0. /\ sc' = sc /\ tp' = tp /\ etcd' = etcd /\ rsrMgr' = rsrMgr /\ nni' = nni
      /\ batch' = batch /\ onu' = onu
      /\ tpMap' = tpMap /\ read' = read /\ profile' = profile /\ failedRead' = failedRead
  OBVIOUS
<1>1. /\ ProfilesLoaded' /\ Started'
      /\ Pons' = Pons /\ Subscribers' = Subscribers /\ TpIDList' = TpIDList
      /\ (Healthy' <=> Healthy)
  BY <1>0, SetUpStays
<1>2. TypeOK' /\ BatchesHaveManagers'
  BY <1>0, <1>1 DEF IndInv, TypeOK, BatchesHaveManagers
<1>3. OnlyAllowed'
  BY <1>0, <1>1 DEF IndInv, OnlyAllowed, Allowed
<1>4. PanicsHaveACause'
  BY <1>1 DEF PanicsHaveACause, PanicCause
<1> QED
  BY <1>1, <1>2, <1>3, <1>4 DEF IndInv

\* A bad manager stays one, and a cause a cause.
LEMMA CauseStays ==
  ASSUME UNCHANGED <<sc, rsrMgr>>
  PROVE  /\ BadManager => PanicCause'
         /\ UNCHANGED <<batch, failedInstance>> => (PanicCause => PanicCause')
<1>1. sc' = sc /\ rsrMgr' = rsrMgr /\ Pons' = Pons
  BY ConfigStable
<1>2. BadManager' <=> BadManager
  BY <1>1 DEF BadManager
<1> QED
  BY <1>1, <1>2 DEF PanicCause

\* The profile that LoadTP stores replaces what an earlier run left under its path.
LEMMA StoredIsLoaded ==
  ASSUME NEW t, NEW after, after = Stored(t)
  PROVE  /\ <<sc.technology, t, "loaded">> \in after
         /\ \A e \in after : e[1] = sc.technology /\ e[2] = t => e[3] = "loaded"
         /\ \A e \in after : e \in etcd \/ e[3] = "loaded"
         /\ \A u : u # t => (<<sc.technology, u, "loaded">> \in etcd => <<sc.technology, u, "loaded">> \in after)
  BY DEF Stored

\* LoadTP adds a loaded profile, whether or not it goes on to the next.
LEMMA LoadTPStep ==
  ASSUME IndInv, LoadTP
  PROVE  IndInv'
<1>1. /\ TypeOK /\ ProfilesLoaded /\ BatchesHaveManagers /\ OnlyAllowed
      /\ tp \in Nat \ {0} /\ TpIDList \in Seq(Nat) /\ Len(TpIDList) \in Nat
  BY TpIDListType DEF IndInv, TypeOK
<1>2. /\ proc = "running" /\ pc = "load" /\ tp <= Len(TpIDList)
      /\ UNCHANGED <<sc, rsrMgr, nni, subscribers>>
      /\ etcd' = etcd \/ etcd' = Stored(TpIDList[tp])
      /\ \/ tp' = tp
         \/ tp' = tp + 1 /\ etcd' = Stored(TpIDList[tp])
      /\ pc' = "load" /\ proc' # "panicked"
  BY DEF LoadTP, At, Fatal, GoTo, main
<1>3. /\ sc' = sc /\ rsrMgr' = rsrMgr /\ nni' = nni /\ batch' = batch /\ onu' = onu
      /\ tpMap' = tpMap /\ read' = read /\ profile' = profile /\ failedRead' = failedRead
  BY <1>2 DEF subscribers
<1>4. Pons' = Pons /\ Subscribers' = Subscribers /\ TpIDList' = TpIDList
  BY <1>3, ConfigStable
<1>5. tp' \in Nat \ {0}
  BY <1>1, <1>2
<1>6. TypeOK' /\ BatchesHaveManagers'
  BY <1>1, <1>3, <1>4, <1>5 DEF TypeOK, BatchesHaveManagers
<1>7. Started' /\ PanicsHaveACause'
  BY <1>2 DEF Started, PanicsHaveACause
<1>8. OnlyAllowed'
  BY <1>1, <1>3, <1>4 DEF OnlyAllowed, Allowed
<1>9. ProfilesLoaded'
  <2>1. CASE etcd' = Stored(TpIDList[tp])
    <3>1. PICK t : t = TpIDList[tp]
      OBVIOUS
    <3>2. PICK after : after = etcd'
      OBVIOUS
    <3>3. /\ <<sc.technology, t, "loaded">> \in after
          /\ \A e \in after : e[1] = sc.technology /\ e[2] = t => e[3] = "loaded"
          /\ \A e \in after : e \in etcd \/ e[3] = "loaded"
          /\ \A u : u # t => (<<sc.technology, u, "loaded">> \in etcd => <<sc.technology, u, "loaded">> \in after)
      <4>1. after = Stored(t)
        BY <2>1, <3>1, <3>2
      <4> QED
        BY <4>1, StoredIsLoaded
    <3>4. ASSUME NEW n \in 1 .. Len(TpIDList), n < tp'
          PROVE  /\ <<sc.technology, TpIDList[n], "loaded">> \in after
                 /\ \A e \in after : e[1] = sc.technology /\ e[2] = TpIDList[n] => e[3] = "loaded"
      <4>1. CASE TpIDList[n] = t
        BY <3>3, <4>1
      <4>2. CASE TpIDList[n] # t
        <5>1. n < tp
          BY <1>1, <1>2, <3>1, <3>4, <4>2
        <5>2. /\ <<sc.technology, TpIDList[n], "loaded">> \in etcd
              /\ \A e \in etcd : e[1] = sc.technology /\ e[2] = TpIDList[n] => e[3] = "loaded"
          BY <1>1, <5>1 DEF ProfilesLoaded
        <5> QED
          BY <3>3, <4>2, <5>2
      <4> QED
        BY <4>1, <4>2
    <3> QED
      BY <1>3, <1>4, <3>2, <3>4 DEF ProfilesLoaded
  <2>2. CASE etcd' # Stored(TpIDList[tp])
    <3>1. etcd' = etcd /\ tp' = tp
      BY <1>2, <2>2
    <3> QED
      BY <1>1, <1>3, <1>4, <3>1 DEF ProfilesLoaded
  <2> QED
    BY <2>1, <2>2
<1> QED
  BY <1>6, <1>7, <1>8, <1>9 DEF IndInv

\* Where a manager is missing there is a first PON without one.
LEMMA FirstUnset ==
  ASSUME TypeOK, MoreManagers
  PROVE  \E p \in Pons : rsrMgr[p] = "unset" /\ \A q \in Pons : q < p => rsrMgr[q] # "unset"
<1> DEFINE T == {p \in Pons : rsrMgr[p] = "unset"}
<1>1. sc.ponPorts \in Nat
  BY ScenarioAssumption DEF TypeOK
<1>2. T \subseteq Nat /\ T # {}
  BY <1>1 DEF MoreManagers, Pons
<1>3. PICK p \in T : \A q \in T : p <= q
  BY <1>2, LeastElement
<1>4. ASSUME NEW q \in Pons, q < p PROVE rsrMgr[q] # "unset"
  <2>1. q \in Nat /\ p \in Nat
    BY <1>1, <1>2 DEF Pons
  <2> QED
    BY <1>3, <1>4, <2>1
<1> QED
  BY <1>3, <1>4

\* NewResourceMgr sets the manager of one PON, or ends the process; it panics
\* only where no range covers the PON.
LEMMA NewResourceMgrStep ==
  ASSUME IndInv, NewResourceMgr
  PROVE  IndInv'
<1>1. /\ proc = "running" /\ pc = "load" /\ MoreManagers /\ UNCHANGED <<sc, tp, etcd, nni, subscribers>>
      /\ \/ sc.rangeTech[ponIdx] = "none" /\ Panics /\ UNCHANGED rsrMgr
         \/ \E mgr \in Managers :
              IF mgr = "fatal" THEN Fatal /\ UNCHANGED rsrMgr
              ELSE rsrMgr' = [rsrMgr EXCEPT ![ponIdx] = mgr] /\ GoTo(pc)
  BY DEF NewResourceMgr, At
<1>2. /\ sc' = sc /\ tp' = tp /\ etcd' = etcd /\ nni' = nni /\ batch' = batch /\ onu' = onu
      /\ tpMap' = tpMap /\ read' = read /\ profile' = profile /\ failedRead' = failedRead
  BY <1>1 DEF subscribers
<1>3. CASE sc.rangeTech[ponIdx] = "none" /\ Panics /\ UNCHANGED rsrMgr
  <2>1. pc' = pc
    BY <1>3 DEF Panics
  <2>2. ponIdx \in Pons
    <3>1. \E p \in Pons : rsrMgr[p] = "unset" /\ \A q \in Pons : q < p => rsrMgr[q] # "unset"
      BY <1>1, FirstUnset DEF IndInv
    <3> QED
      BY <3>1 DEF ponIdx
  <2>3. ~Healthy
    BY <1>3, <2>2 DEF Healthy
  <2> QED
    BY <1>2, <1>3, <2>1, <2>3, QuietStep
<1>4. CASE Fatal /\ UNCHANGED rsrMgr
  BY <1>2, <1>4, QuietStep DEF Fatal
<1>5. CASE \E mgr \in {"ok", "nil", "blind"} : rsrMgr' = [rsrMgr EXCEPT ![ponIdx] = mgr] /\ GoTo(pc)
  <2>1. PICK mgr \in {"ok", "nil", "blind"} : rsrMgr' = [rsrMgr EXCEPT ![ponIdx] = mgr] /\ GoTo(pc)
    BY <1>5
  <2>2. PICK p : p = ponIdx
    OBVIOUS
  <2>3. rsrMgr' = [rsrMgr EXCEPT ![p] = mgr] /\ pc' = "load" /\ proc' = "running"
    BY <1>1, <2>1, <2>2 DEF GoTo, main
  <2>4. Pons' = Pons /\ Subscribers' = Subscribers /\ TpIDList' = TpIDList
    BY <1>2, ConfigStable
  <2>5. TypeOK'
    <3>1. rsrMgr' \in [Pons -> {"unset", "ok", "nil", "blind"}]
      BY <2>3 DEF IndInv, TypeOK
    <3> QED
      BY <1>2, <2>4, <3>1 DEF IndInv, TypeOK
  <2>6. ProfilesLoaded' /\ BatchesHaveManagers'
    BY <1>2, <2>4 DEF IndInv, ProfilesLoaded, BatchesHaveManagers
  <2>7. Started' /\ PanicsHaveACause'
    BY <2>3 DEF Started, PanicsHaveACause
  <2>8. OnlyAllowed'
    BY <1>2, <2>4 DEF IndInv, OnlyAllowed, Allowed
  <2> QED
    BY <2>5, <2>6, <2>7, <2>8 DEF IndInv
<1> QED
  BY <1>1, <1>3, <1>4, <1>5 DEF Managers

\* provisionONUs is launched with every profile loaded and every manager made or
\* tried; a nil manager of PON 0 panics before where the workflow is supported.
LEMMA ProvisionNniTrapFlowStep ==
  ASSUME IndInv, ProvisionNniTrapFlow
  PROVE  IndInv'
<1>1. /\ proc = "running" /\ pc = "load" /\ tp > Len(TpIDList) /\ ~MoreManagers
      /\ UNCHANGED <<sc, tp, etcd, rsrMgr, subscribers>>
  BY DEF ProvisionNniTrapFlow, At
<1>2. /\ sc' = sc /\ tp' = tp /\ etcd' = etcd /\ rsrMgr' = rsrMgr /\ batch' = batch /\ onu' = onu
      /\ tpMap' = tpMap /\ read' = read /\ profile' = profile /\ failedRead' = failedRead
  BY <1>1 DEF subscribers
<1>3. CASE /\ sc.ponPorts = 0 \/ (Supported /\ rsrMgr[0] \notin {"ok", "blind"})
           /\ Panics /\ UNCHANGED nni
  <2>1. Healthy => BadManager
    <3>1. SUFFICES ASSUME Healthy PROVE BadManager
      OBVIOUS
    <3>2. sc.ponPorts \in Nat /\ sc.ponPorts > 0
      BY <3>1, ScenarioAssumption DEF Healthy, IndInv, TypeOK
    <3>3. 0 \in Pons
      BY <3>2 DEF Pons
    <3>4. rsrMgr[0] \in {"unset", "ok", "nil", "blind"} /\ rsrMgr[0] # "unset"
      BY <1>1, <3>3 DEF IndInv, TypeOK, MoreManagers
    <3> QED
      BY <1>3, <3>2, <3>3, <3>4 DEF BadManager
  <2>2. Healthy => PanicCause'
    BY <1>2, <2>1, CauseStays
  <2> QED
    BY <1>2, <1>3, <2>2, QuietStep DEF Panics
<1>4. CASE /\ ~(sc.ponPorts = 0 \/ (Supported /\ rsrMgr[0] \notin {"ok", "blind"}))
           /\ GoTo("returned") /\ nni' = Supported
  <2>1. /\ Pons' = Pons /\ Subscribers' = Subscribers /\ TpIDList' = TpIDList
        /\ (Supported' <=> Supported)
    BY <1>2, ConfigStable
  <2>2. TypeOK' /\ ProfilesLoaded' /\ BatchesHaveManagers'
    BY <1>2, <2>1 DEF IndInv, TypeOK, ProfilesLoaded, BatchesHaveManagers
  <2>3. OnlyAllowed'
    BY <1>2, <2>1 DEF IndInv, OnlyAllowed, Allowed
  <2>4. PanicsHaveACause'
    BY <1>1, <1>4 DEF PanicsHaveACause, GoTo, main
  <2>5. Started'
    <3>1. sc.ponPorts \in Nat /\ sc.ponPorts > 0
      BY <1>4, ScenarioAssumption DEF IndInv, TypeOK
    <3>2. \A p \in Pons : rsrMgr[p] # "unset"
      BY <1>1 DEF MoreManagers
    <3>3. Supported => nni' /\ rsrMgr[0] # "nil"
      BY <1>4
    <3> QED
      BY <1>1, <1>2, <2>1, <3>1, <3>2, <3>3 DEF Started
  <2> QED
    BY <2>2, <2>3, <2>4, <2>5 DEF IndInv
<1> QED
  BY <1>3, <1>4 DEF ProvisionNniTrapFlow

\* ActivateOnu settles one ONU of the batch; it panics on a nil manager, or in the
\* first batch for which there is no PON.
LEMMA ActivateOnuStep ==
  ASSUME IndInv, NEW s \in Subscribers, ActivateOnu(s)
  PROVE  IndInv'
<1>0. sc.ponPorts \in Nat /\ sc.batches \in Nat /\ batch \in Nat
  BY ScenarioAssumption DEF IndInv, TypeOK
<1>1. /\ proc = "running" /\ pc = "returned" /\ s[2] = batch /\ onu[s] = "unset"
      /\ sc' = sc /\ tp' = tp /\ etcd' = etcd /\ rsrMgr' = rsrMgr /\ nni' = nni /\ batch' = batch
      /\ tpMap' = tpMap /\ read' = read /\ profile' = profile /\ failedRead' = failedRead
      /\ failedInstance' = failedInstance
  BY DEF ActivateOnu, At
<1>2. CASE (batch \notin Pons \/ rsrMgr[batch] \in {"nil", "unset"}) /\ Panics /\ UNCHANGED onu
  <2>1. batch < sc.batches
    BY <1>0, <1>1 DEF Subscribers
  <2>2. CASE batch \notin Pons
    <3>1. batch = sc.ponPorts
      BY <1>0, <2>2 DEF Pons, IndInv, BatchesHaveManagers
    <3> QED
      BY <1>1, <1>2, <2>1, <3>1, QuietStep DEF PanicCause, Panics
  <2>3. CASE batch \in Pons
    <3>1. rsrMgr[batch] # "unset"
      BY <1>1, <2>3 DEF IndInv, Started
    <3>2. BadManager
      BY <1>2, <2>3, <3>1 DEF BadManager
    <3>3. PanicCause'
      BY <1>1, <3>2, CauseStays
    <3> QED
      BY <1>1, <1>2, <3>3, QuietStep DEF Panics
  <2> QED
    BY <2>2, <2>3
<1>3. CASE batch \in Pons /\ (\E outcome \in Activations : onu' = [onu EXCEPT ![s] = outcome]) /\ GoTo(pc)
  <2>1. PICK outcome \in Activations : onu' = [onu EXCEPT ![s] = outcome]
    BY <1>3
  <2>2. pc' = pc /\ proc' = "running" /\ batch \in Pons
    BY <1>1, <1>3 DEF GoTo, main
  <2>3. /\ ProfilesLoaded' /\ Started'
        /\ Pons' = Pons /\ Subscribers' = Subscribers /\ TpIDList' = TpIDList
    BY <1>1, <2>2, SetUpStays
  <2>4. DOMAIN onu = Subscribers
    BY DEF IndInv, TypeOK
  <2>5. DOMAIN onu' = Subscribers /\ onu'[s] = outcome /\ \A t \in Subscribers : t # s => onu'[t] = onu[t]
    BY <2>1, <2>4
  <2>6. outcome # "unset"
    BY <2>1 DEF Activations
  <2>7. TypeOK'
    BY <1>1, <2>3, <2>5 DEF IndInv, TypeOK
  <2>8. BatchesHaveManagers'
    <3>1. ASSUME NEW t \in Subscribers
          PROVE  /\ onu'[t] # "unset" => t[2] \in Pons
                 /\ onu'[t] = "unset" => read[t] = "unset"
                 /\ read[t] = "unset" => profile[t] = "unset"
      BY <1>1, <2>2, <2>5, <2>6 DEF IndInv, BatchesHaveManagers
    <3>2. batch <= sc.ponPorts
      BY DEF IndInv, BatchesHaveManagers
    <3> QED
      BY <1>1, <2>3, <3>1, <3>2 DEF BatchesHaveManagers
  <2>9. OnlyAllowed'
    BY <1>1, <2>3 DEF IndInv, OnlyAllowed, Allowed
  <2>10. PanicsHaveACause'
    BY <2>2 DEF PanicsHaveACause
  <2> QED
    BY <2>3, <2>7, <2>8, <2>9, <2>10 DEF IndInv
<1> QED
  BY <1>2, <1>3 DEF ActivateOnu

\* A batch that is complete had a manager, so there is a PON of its number.
LEMMA NextBatchStep ==
  ASSUME IndInv, NextBatch
  PROVE  IndInv'
<1>0. sc.ponPorts \in Nat /\ sc.batches \in Nat /\ batch \in Nat /\ sc.subs # {}
  BY ScenarioAssumption DEF IndInv, TypeOK
<1>1. /\ pc = "returned" /\ proc = "running" /\ batch < sc.batches /\ batch' = batch + 1
      /\ \A s \in Subscribers : s[2] = batch => onu[s] = "no id" \/ profile[s] # "unset"
      /\ sc' = sc /\ tp' = tp /\ etcd' = etcd /\ rsrMgr' = rsrMgr /\ nni' = nni /\ onu' = onu
      /\ tpMap' = tpMap /\ read' = read /\ profile' = profile /\ failedRead' = failedRead
      /\ pc' = pc /\ proc' = proc
  BY DEF NextBatch, At, main, start
<1>2. /\ ProfilesLoaded' /\ Started'
      /\ Pons' = Pons /\ Subscribers' = Subscribers /\ TpIDList' = TpIDList
  BY <1>1, SetUpStays
<1>3. batch \in Pons
  <2>0. sc.ponPorts > 0 /\ batch < sc.batches
    BY <1>1 DEF IndInv, Started
  <2>1. 0 \in Pons
    BY <1>0, <2>0 DEF Pons
  <2>2. PICK u : u \in sc.subs
    BY <1>0
  <2>3. batch \in 0 .. sc.batches - 1
    BY <1>0, <2>0
  <2>4. PICK s \in Subscribers : s[2] = batch
    <3>1. <<0, batch, u>> \in Subscribers
      BY <2>1, <2>2, <2>3 DEF Subscribers
    <3> QED
      BY <3>1
  <2>5. onu[s] # "unset"
    BY <1>1, <2>4 DEF IndInv, BatchesHaveManagers
  <2> QED
    BY <2>4, <2>5 DEF IndInv, BatchesHaveManagers
<1>4. batch' <= sc.ponPorts /\ batch' \in Nat
  <2>1. batch < sc.ponPorts
    BY <1>0, <1>3 DEF Pons
  <2>2. batch' = batch + 1
    BY <1>1
  <2> QED
    BY <1>0, <2>1, <2>2
<1>5. TypeOK'
  BY <1>1, <1>2, <1>4 DEF IndInv, TypeOK
<1>6. BatchesHaveManagers'
  BY <1>1, <1>2, <1>4 DEF IndInv, BatchesHaveManagers
<1>7. OnlyAllowed'
  BY <1>1, <1>2 DEF IndInv, OnlyAllowed, Allowed
<1>8. PanicsHaveACause'
  BY <1>1 DEF PanicsHaveACause
<1> QED
  BY <1>2, <1>5, <1>6, <1>7, <1>8 DEF IndInv

\* What getTPFromKVStore gives is allowed: the cache is, a profile in etcd under the
\* technology of the device is the loaded one, and the default comes of a failed
\* read or another technology.
LEMMA ProfileIsAllowed ==
  ASSUME IndInv, pc = "returned", NEW p \in Pons, TpIDList # <<>>, NEW answer,
         NEW used, used = ProfileOf(p, answer), sc' = sc,
         failedRead' = IF answer = "ok" \/ tpMap[p] # "unset" THEN failedRead ELSE failedRead \cup {p}
  PROVE  Allowed(used, p)'
<1>1. CASE tpMap[p] # "unset"
  <2>1. Allowed(used, p)
    BY <1>1 DEF IndInv, OnlyAllowed, ProfileOf
  <2> QED
    BY <1>1, <2>1, AllowedStays
<1>2. CASE tpMap[p] = "unset" /\ answer # "ok"
  BY <1>2 DEF ProfileOf, Allowed
<1>3. CASE tpMap[p] = "unset" /\ answer = "ok"
  <2>1. Len(TpIDList) \in Nat /\ Len(TpIDList) >= 1
    BY TpIDListType DEF IndInv
  <2>2. 1 \in 1 .. Len(TpIDList) /\ 1 < tp
    BY <2>1 DEF IndInv, TypeOK, Started
  <2>3. PICK id : id = TpIDList[1]
    OBVIOUS
  <2>4. /\ <<sc.technology, id, "loaded">> \in etcd
        /\ \A e \in etcd : e[1] = sc.technology /\ e[2] = id => e[3] = "loaded"
    BY <2>2, <2>3 DEF IndInv, ProfilesLoaded
  <2>5. CASE Found(p) = {}
    <3>1. sc.rangeTech[p] # sc.technology
      BY <2>3, <2>4, <2>5 DEF Found
    <3>2. used = "default"
      BY <1>3, <2>5 DEF ProfileOf
    <3> QED
      BY <3>1, <3>2 DEF Allowed
  <2>6. CASE Found(p) # {}
    <3>1. PICK e \in Found(p) : used = e[3]
      BY <1>3, <2>6 DEF ProfileOf
    <3>2. e \in etcd /\ e[1] = sc.rangeTech[p] /\ e[2] = id
      BY <2>3, <3>1 DEF Found
    <3>3. sc.rangeTech[p] = sc.technology => used = "loaded"
      BY <2>4, <3>1, <3>2
    <3> QED
      BY <3>3 DEF Allowed
  <2> QED
    BY <2>5, <2>6
<1> QED
  BY <1>1, <1>2, <1>3

\* GetTP gives one subscriber an allowed profile, or panics on a bad manager.
LEMMA GetTPStep ==
  ASSUME IndInv, NEW s \in Subscribers, GetTP(s)
  PROVE  IndInv'
<1>0. PICK p \in Pons : p = s[1]
  BY DEF Subscribers
<1>1. /\ proc = "running" /\ pc = "returned" /\ onu[s] = "active" /\ read[s] = "unset"
      /\ sc' = sc /\ tp' = tp /\ etcd' = etcd /\ rsrMgr' = rsrMgr /\ nni' = nni
  BY DEF GetTP, At
<1>2. CASE /\ rsrMgr[p] \in {"nil", "unset", "blind"}
           /\ Panics /\ UNCHANGED subscribers
  <2>1. rsrMgr[p] # "unset"
    BY <1>0, <1>1 DEF IndInv, Started
  <2>2. BadManager
    BY <1>0, <1>2, <2>1 DEF BadManager
  <2>3. PanicCause'
    BY <1>1, <2>2, CauseStays
  <2>4. UNCHANGED <<batch, onu, tpMap, read, profile, failedRead>>
    BY <1>2 DEF subscribers
  <2> QED
    BY <1>1, <1>2, <2>3, <2>4, QuietStep DEF Panics
<1>3. CASE \E answer, used :
             /\ answer \in Answers
             /\ used = IF TpIDList = <<>> THEN "none" ELSE ProfileOf(p, answer)
             /\ read' = [read EXCEPT ![s] = used]
             /\ failedRead' = IF answer = "ok" \/ tpMap[p] # "unset" THEN failedRead ELSE failedRead \cup {p}
             /\ GoTo(pc)
             /\ UNCHANGED <<batch, onu, tpMap, profile, failedInstance>>
  <2>1. PICK answer, used :
             /\ answer \in Answers
             /\ used = IF TpIDList = <<>> THEN "none" ELSE ProfileOf(p, answer)
             /\ read' = [read EXCEPT ![s] = used]
             /\ failedRead' = IF answer = "ok" \/ tpMap[p] # "unset" THEN failedRead ELSE failedRead \cup {p}
             /\ GoTo(pc)
             /\ UNCHANGED <<batch, onu, tpMap, profile, failedInstance>>
    BY <1>3
  <2>2. /\ batch' = batch /\ onu' = onu /\ tpMap' = tpMap /\ profile' = profile
        /\ pc' = pc /\ proc' = "running" /\ failedRead \subseteq failedRead'
    BY <1>1, <2>1 DEF GoTo, main
  <2>3. Allowed(used, p)'
    <3>1. CASE TpIDList = <<>>
      BY <2>1, <3>1 DEF Allowed
    <3>2. CASE TpIDList # <<>>
      <4>1. used = ProfileOf(p, answer)
        BY <2>1, <3>2
      <4> QED
        BY <1>0, <1>1, <2>1, <3>2, <4>1, ProfileIsAllowed
    <3> QED
      BY <3>1, <3>2
  <2>4. /\ ProfilesLoaded' /\ Started'
        /\ Pons' = Pons /\ Subscribers' = Subscribers /\ TpIDList' = TpIDList
    BY <1>1, <2>2, SetUpStays
  <2>5. DOMAIN read = Subscribers
    BY DEF IndInv, TypeOK
  <2>6. DOMAIN read' = Subscribers /\ read'[s] = used /\ \A t \in Subscribers : t # s => read'[t] = read[t]
    BY <2>1, <2>5
  <2>7. TypeOK'
    BY <1>1, <2>2, <2>4, <2>6 DEF IndInv, TypeOK
  <2>8. BatchesHaveManagers'
    <3>1. ASSUME NEW t \in Subscribers
          PROVE  /\ onu[t] # "unset" => t[2] \in Pons
                 /\ onu[t] = "unset" => read'[t] = "unset"
                 /\ read'[t] = "unset" => profile[t] = "unset"
      BY <1>1, <2>6 DEF IndInv, BatchesHaveManagers
    <3>2. batch <= sc.ponPorts
      BY DEF IndInv, BatchesHaveManagers
    <3> QED
      BY <1>1, <2>2, <2>4, <3>1, <3>2 DEF BatchesHaveManagers
  <2>9. OnlyAllowed'
    <3>1. \A q \in Pons : Allowed(tpMap[q], q)
      BY DEF IndInv, OnlyAllowed
    <3>2. \A t \in Subscribers : Allowed(read[t], t[1]) /\ Allowed(profile[t], t[1])
      BY DEF IndInv, OnlyAllowed
    <3>3. ASSUME NEW q \in Pons PROVE Allowed(tpMap[q], q)'
      BY <1>1, <2>2, <3>1 DEF Allowed
    <3>4. ASSUME NEW t \in Subscribers PROVE Allowed(read[t], t[1])' /\ Allowed(profile[t], t[1])'
      <4>1. Allowed(profile[t], t[1])'
        BY <1>1, <2>2, <3>2 DEF Allowed
      <4>2. CASE t = s
        BY <1>0, <2>3, <2>6, <4>1, <4>2 DEF Allowed
      <4>3. CASE t # s
        BY <1>1, <2>2, <2>6, <3>2, <4>1, <4>3 DEF Allowed
      <4> QED
        BY <4>2, <4>3
    <3> QED
      BY <2>4, <3>3, <3>4 DEF OnlyAllowed
  <2>10. PanicsHaveACause'
    BY <2>2 DEF PanicsHaveACause
  <2> QED
    BY <2>4, <2>7, <2>8, <2>9, <2>10 DEF IndInv
<1> QED
  BY <1>0, <1>2, <1>3 DEF GetTP

\* StoreTP puts an allowed profile into the cache and uses it; without an instance
\* it panics, and without the means to store it the process exits.
LEMMA StoreTPStep ==
  ASSUME IndInv, NEW s \in Subscribers, StoreTP(s)
  PROVE  IndInv'
<1>0. PICK p \in Pons : p = s[1]
  BY DEF Subscribers
<1>1. /\ proc = "running" /\ pc = "returned" /\ read[s] # "unset"
      /\ sc' = sc /\ tp' = tp /\ etcd' = etcd /\ rsrMgr' = rsrMgr /\ nni' = nni
      /\ batch' = batch /\ onu' = onu /\ read' = read /\ failedRead' = failedRead
  BY DEF StoreTP, At
<1>2. CASE /\ sc.rangeTech[p] = "EPON" \/ ~Supported \/ TpIDList = <<>>
           /\ Panics /\ UNCHANGED <<tpMap, profile, failedInstance>>
  <2>1. ~Healthy
    BY <1>2 DEF Healthy
  <2> QED
    BY <1>1, <1>2, <2>1, QuietStep DEF Panics
<1>3. CASE Panics /\ failedInstance' = TRUE /\ UNCHANGED <<tpMap, profile>>
  <2>1. PanicCause'
    BY <1>3 DEF PanicCause
  <2> QED
    BY <1>1, <1>3, <2>1, QuietStep DEF Panics
<1>4. CASE Fatal /\ UNCHANGED <<tpMap, profile, failedInstance>>
  BY <1>1, <1>4, QuietStep DEF Fatal
<1>5. CASE /\ tpMap' = [tpMap EXCEPT ![p] = read[s]]
           /\ profile' = [profile EXCEPT ![s] = read[s]]
           /\ GoTo(pc)
  <2>1. pc' = pc /\ proc' = "running"
    BY <1>1, <1>5 DEF GoTo, main
  <2>2. /\ ProfilesLoaded' /\ Started'
        /\ Pons' = Pons /\ Subscribers' = Subscribers /\ TpIDList' = TpIDList
    BY <1>1, <2>1, SetUpStays
  <2>3. DOMAIN tpMap = Pons /\ DOMAIN profile = Subscribers
    BY DEF IndInv, TypeOK
  <2>4. PICK used : used = read[s] /\ Allowed(used, p)
    BY <1>0 DEF IndInv, OnlyAllowed
  <2>5. /\ DOMAIN tpMap' = Pons /\ tpMap'[p] = used /\ \A q \in Pons : q # p => tpMap'[q] = tpMap[q]
        /\ DOMAIN profile' = Subscribers /\ profile'[s] = used
        /\ \A t \in Subscribers : t # s => profile'[t] = profile[t]
    BY <1>5, <2>3, <2>4
  <2>6. TypeOK'
    BY <1>1, <2>2, <2>5 DEF IndInv, TypeOK
  <2>7. BatchesHaveManagers'
    <3>1. ASSUME NEW t \in Subscribers
          PROVE  /\ onu[t] # "unset" => t[2] \in Pons
                 /\ onu[t] = "unset" => read[t] = "unset"
                 /\ read[t] = "unset" => profile'[t] = "unset"
      BY <1>1, <2>5 DEF IndInv, BatchesHaveManagers
    <3>2. batch <= sc.ponPorts
      BY DEF IndInv, BatchesHaveManagers
    <3> QED
      BY <1>1, <2>2, <3>1, <3>2 DEF BatchesHaveManagers
  <2>8. OnlyAllowed'
    <3>1. ASSUME NEW q \in Pons PROVE Allowed(tpMap[q], q)'
      BY <1>1, <2>4, <2>5 DEF Allowed, IndInv, OnlyAllowed
    <3>2. ASSUME NEW t \in Subscribers PROVE Allowed(read[t], t[1])' /\ Allowed(profile[t], t[1])'
      BY <1>0, <1>1, <2>4, <2>5 DEF Allowed, IndInv, OnlyAllowed
    <3> QED
      BY <2>2, <3>1, <3>2 DEF OnlyAllowed
  <2>9. PanicsHaveACause'
    BY <2>1 DEF PanicsHaveACause
  <2> QED
    BY <2>2, <2>6, <2>7, <2>8, <2>9 DEF IndInv
<1> QED
  BY <1>0, <1>2, <1>3, <1>4, <1>5 DEF StoreTP

\* The initial states satisfy the invariant: no profile is loaded or read.
LEMMA InitInd == Init => IndInv
<1> SUFFICES ASSUME Init PROVE IndInv
  OBVIOUS
<1>1. TypeOK
  BY DEF Init, TypeOK
<1>2. ProfilesLoaded
  <2>1. \A n \in 1 .. Len(TpIDList) : ~(n < tp)
    BY <1>1, TpIDListType DEF Init
  <2> QED
    BY <2>1 DEF ProfilesLoaded
<1>3. Started /\ PanicsHaveACause
  BY DEF Init, Started, PanicsHaveACause
<1>4. BatchesHaveManagers
  <2>1. sc.ponPorts \in Nat /\ batch = 0
    BY ScenarioAssumption DEF Init
  <2> QED
    BY <2>1 DEF Init, BatchesHaveManagers
<1>5. OnlyAllowed
  BY DEF Init, OnlyAllowed, Allowed
<1> QED
  BY <1>1, <1>2, <1>3, <1>4, <1>5 DEF IndInv

\* Every step preserves it.
LEMMA NextInd == IndInv /\ [Next]_vars => IndInv'
<1> SUFFICES ASSUME IndInv, [Next]_vars PROVE IndInv'
  OBVIOUS
<1>1. CASE Dial
  BY <1>1, QuietStep DEF Dial, At, GoTo, main, subscribers
<1>2. CASE PopulateDeviceInfo
  BY <1>2, QuietStep DEF PopulateDeviceInfo, At, GoTo, main, subscribers
<1>3. CASE NewEtcdClient
  BY <1>3, QuietStep DEF NewEtcdClient, At, GoTo, Fatal, main, subscribers
<1>4. CASE LoadTP
  BY <1>4, LoadTPStep
<1>5. CASE NewResourceMgr
  BY <1>5, NewResourceMgrStep
<1>6. CASE ProvisionNniTrapFlow
  BY <1>6, ProvisionNniTrapFlowStep
<1>7. CASE StopProcess
  BY <1>7, QuietStep DEF StopProcess, At, SendSignal, subscribers
<1>8. CASE \E s \in Subscribers : ActivateOnu(s) \/ GetTP(s) \/ StoreTP(s)
  BY <1>8, ActivateOnuStep, GetTPStep, StoreTPStep
<1>9. CASE Notify
  BY <1>9, QuietStep DEF Notify, start, subscribers
<1>10. CASE MainReturns
  BY <1>10, QuietStep DEF MainReturns, start, subscribers
<1>11. CASE Interrupt
  BY <1>11, QuietStep DEF Interrupt, SendSignal, start, subscribers
<1>12. CASE NextBatch
  BY <1>12, NextBatchStep
<1>13. CASE DialFails
  BY <1>13, QuietStep DEF DialFails, At, GoTo, main, subscribers
<1>14. CASE UNCHANGED vars
  <2>1. /\ UNCHANGED <<sc, tp, etcd, rsrMgr, nni>> /\ pc' = pc /\ proc' = proc
        /\ UNCHANGED <<batch, onu, tpMap, read, profile, failedRead, failedInstance>>
    BY <1>14 DEF vars, main, start, subscribers
  <2>2. Healthy /\ proc' = "panicked" => PanicCause
    BY <2>1 DEF IndInv, PanicsHaveACause, PanicCause
  <2>3. PanicCause => PanicCause'
    BY <2>1, CauseStays
  <2> QED
    BY <2>1, <2>2, <2>3, QuietStep
<1> QED
  BY <1>1, <1>2, <1>3, <1>4, <1>5, <1>6, <1>7, <1>8, <1>9, <1>10, <1>11, <1>12, <1>13, <1>14
     DEF Next, Program, Start, ProvisionONUs, Over

-----------------------------------------------------------------------------
(* The theorems. *)

\* The inductive invariant of the start holds in every state.
THEOREM IndInvHolds == Spec => []IndInv
<1> QED
  BY InitInd, NextInd, PTL DEF Spec

\* When provisionONUs runs, every TP id of the flag is loaded, a manager has been
\* tried for every PON, and where the workflow is supported the trap flows of the
\* NNI have been sent and PON 0 has its manager.
THEOREM StartIsInOrder == Spec => []StartupOrder
<1>1. IndInv => StartupOrder
  <2> SUFFICES ASSUME IndInv, pc \in {"returned", "done"}
               PROVE  /\ \A n \in DOMAIN sc.tpIDsString : sc.tpIDsString[n] # NotANumber =>
                           <<sc.technology, sc.tpIDsString[n], "loaded">> \in etcd
                      /\ \A p \in Pons : rsrMgr[p] # "unset"
                      /\ Supported => nni /\ rsrMgr[0] # "nil"
    BY DEF StartupOrder
  <2>1. /\ tp > Len(TpIDList) /\ \A p \in Pons : rsrMgr[p] # "unset"
        /\ Supported => nni /\ rsrMgr[0] # "nil"
    BY DEF IndInv, Started
  <2>2. ASSUME NEW n \in DOMAIN sc.tpIDsString, sc.tpIDsString[n] # NotANumber
        PROVE  <<sc.technology, sc.tpIDsString[n], "loaded">> \in etcd
    <3>1. sc.tpIDsString \in Seq(Nat \cup {NotANumber})
      BY ScenarioAssumption DEF IndInv, TypeOK
    <3>2. PICK m \in 1 .. Len(TpIDList) : TpIDList[m] = sc.tpIDsString[n]
      BY <2>2, <3>1, NumbersAreKept DEF TpIDList
    <3>3. m < tp
      BY <2>1, TpIDListType DEF IndInv, TypeOK
    <3> QED
      BY <3>2, <3>3 DEF IndInv, ProfilesLoaded
  <2> QED
    BY <2>1, <2>2
<1> QED
  BY <1>1, IndInvHolds, PTL

\* A subscriber gets a profile of an earlier run only where the technologies of
\* range and device differ, and the default profile only there or after a failed
\* read on its PON, whatever earlier runs left under whichever technology.
THEOREM LoadedProfilesAreUsed == Spec => []LoadedProfileUsed
<1>1. IndInv => LoadedProfileUsed
  BY DEF IndInv, OnlyAllowed, Allowed, LoadedProfileUsed
<1> QED
  BY <1>1, IndInvHolds, PTL

\* On a sound device and configuration a panic comes from a manager that could not
\* be made in full, from an instance without ids, or from a batch beyond the last
\* PON, after as many complete batches as there are PONs.
THEOREM PanicsAreCaused == Spec => []PanicsHaveACause
<1>1. IndInv => PanicsHaveACause
  BY DEF IndInv
<1> QED
  BY <1>1, IndInvHolds, PTL
=============================================================================
